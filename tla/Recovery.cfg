SPECIFICATION RecoverySpec
CONSTANTS
  None = None
  ann = ann
  bob = bob
  eve = eve
  tom = tom
  school = school
  academy = academy
  g1 = g1
  c1 = c1
  maths = maths
  lab = lab
  o2 = o2
  o3 = o3
  h1 = h1
  i1 = i1
  v1 = v1
  rc1 = rc1
  first = first
  GroupIds = {g1}
  ClassroomIds = {c1}
  Names = {maths, lab}
  Teachers = {tom}
  Requests = {r1}
  Calls <- ResourceCalls
  MaxFaults = 2
INVARIANTS RecoveryTypeOK NoSilentOrphan
PROPERTIES CommittedIsFinished GroupLifecycleKept RecordedIsFinished PaidIsServed InviteeGetsIn BootSettles CommandEnds
CHECK_DEADLOCK FALSE
