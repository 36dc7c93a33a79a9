SPECIFICATION FairSpec
CONSTANTS
  None = None
  ann = ann
  bob = bob
  eve = eve
  school = school
  academy = academy
  g1 = g1
  Users = {ann, bob, eve}
  Orgs = {school, academy}
  Groups = {g1}
  Requests = {r1}
  Calls <- ApprovalCalls
  InitialMembers <- AdminAndTeacher
  MaxFaults = 1
  AllowOrgDirectory = FALSE
PROPERTIES CommittedIsFinished
