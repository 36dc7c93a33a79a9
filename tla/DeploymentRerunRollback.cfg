SPECIFICATION DeploymentSpec
CONSTANTS
  Releases = {a, b, c}
  First = a
  None = None
  SmokeMayFail = TRUE
  MaxRuns = 1
  MaxRecoveries = 2
  MaxFaults = 0
  MaxCrashes = 1
INVARIANT RollbackRestoresPrevious
CHECK_DEADLOCK FALSE
