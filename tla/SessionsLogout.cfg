SPECIFICATION SessionSpec
CONSTANTS
  None = None
  Users = {ann}
  Orgs = {school}
  InitialPlaces = {school}
  Modes = {"app"}
  Slots = {1}
  Tokens = {1, 2, 3, 4, 5, 6, 7}
  Events = {"day"}
  MaxEvents = 1
  MaxFailed = 0
PROPERTY LogoutClearsCookies
CHECK_DEADLOCK FALSE
