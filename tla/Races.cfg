SPECIFICATION RaceSpec
CONSTANTS
  None = None
  Releases = {x, y}
  First = x
  SmokeMayFail = TRUE
  MaxRuns = 2
  MaxRecoveries = 2
  MaxFaults = 1
  MaxCrashes = 1
  Candidates = {y, z}
  Tags = {v1}
  Incumbent = x
  Selections <- TagSelections
  Risks = {TRUE}
  MaxCommands = 2
  MaxFailures = 1
  MaxEvents = 1
  ann = ann
  bob = bob
  eve = eve
  tom = tom
  school = school
  academy = academy
  college = college
  g1 = g1
  g2 = g2
  c1 = c1
  maths = maths
  lab = lab
  r1 = r1
  r2 = r2
  h1 = h1
  h2 = h2
  o1 = o1
  o2 = o2
  i1 = i1
  i2 = i2
  m1 = m1
  s1 = s1
  s2 = s2
  d1 = d1
  d2 = d2
  q1 = q1
  q2 = q2
  e1 = e1
  Parts = {"groups", "classrooms", "billing", "billing_in_order", "invitations", "timetable", "interrupted", "classroom", "rules", "requests", "push", "sessions", "rates", "deployments", "one_deployment", "release"}
INVARIANTS
  RaceTypeOK EffectsInOrder OrdersServedOnce StatusFollowsFacts AccessUntilDeadline LinkLeadsHome JoinedInFull ReservationsStandApart OneGroupInForce
  Published RulesPublished ApprovedIsAllowed ToldOfOwnGroups OneAcceptance SessionKeepsItsMode
  LimitIsExact
  TerminalIsLive AlwaysRecoverable LedgerFollowsMarker PromotedIsLive
PROPERTIES BoundaryFirst MirrorsContract TaggedHasPassed
SYMMETRY Symmetry
CHECK_DEADLOCK FALSE
