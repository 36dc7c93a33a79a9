SPECIFICATION Spec
CONSTANTS
  None = None
  ann = ann
  bob = bob
  eve = eve
  school = school
  academy = academy
  g1 = g1
  Users = {ann, bob, eve}
  Orgs = {school, academy}
  Groups = {g1}
  Requests = {r1, r2}
  Calls <- RoleChangeCalls
  InitialMembers <- AdminAndTeacher
  MaxFaults = 0
  AllowOrgDirectory = FALSE
INVARIANTS NoSilentDivergence
