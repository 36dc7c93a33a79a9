SPECIFICATION InstancesSpec
CONSTANTS
  None = None
  ann = ann
  bob = bob
  eve = eve
  school = school
  academy = academy
  g1 = g1
  Users = {ann, bob, eve}
  Orgs = {school, academy}
  Groups = {g1}
  Requests = {r1, r2}
  Calls <- AllCalls
  InitialMembers <- AdminAndTeacher
  MaxFaults = 1
  AllowOrgDirectory = FALSE
INVARIANTS TypeOK OneMembershipPerUser AloneMembersDoNotWait AloneOrgKeepsAdmin AloneNoSilentDivergence
PROPERTIES SuccessMeansDone EffectsInOrder AloneCompletedIsPermanent
SYMMETRY RequestSymmetry
