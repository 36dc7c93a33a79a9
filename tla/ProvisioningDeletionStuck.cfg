SPECIFICATION FairSpec
CONSTANTS
  None = None
  g1 = g1
  c1 = c1
  maths = maths
  lab = lab
  tom = tom
  GroupIds = {g1}
  ClassroomIds = {c1}
  Names = {maths, lab}
  Teachers = {tom}
  Requests = {r1}
  Calls <- DeletionCalls
  MaxFaults = 1
PROPERTY UnlinkedIsCompleted
