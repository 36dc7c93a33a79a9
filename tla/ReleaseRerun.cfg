CONSTANTS
  Candidates = {a}
  Tags = {v1}
  Incumbent = first
  None = none
  Selections <- AllSteps
  Risks = {TRUE}
  MaxCommands = 2
  MaxFailures = 1
  MaxEvents = 1
SPECIFICATION ReleaseSpec
CHECK_DEADLOCK FALSE
PROPERTY NeverRerunsAfterRollback
