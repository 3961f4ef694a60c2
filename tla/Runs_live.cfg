SPECIFICATION MCFairSpec
CONSTANTS
  Clients = {c1}
  NoClient = NoClient
  MaxStarts = 2
  MaxApprovals = 1
  Calls = {"read", "edit", "check", "diffcheck"}
  Modes = {"code", "plan"}
  Git = FALSE
  Verifier = TRUE
  HasChecks = TRUE
  Hooks = FALSE
  AbruptErrors = TRUE
  ResultsFull = TRUE
  MaxTurns = 3
  MaxToolCalls = 2
  MaxRepeatedCalls = 1
  MaxRepeatedFailures = 2
  MaxBatch = 2
  MaxRuns = 1
  MaxTasks = 3
  MaxChildren = 2
INVARIANTS GateHolds
PROPERTIES ControlEndsRun RunEnds BatchReturns
CHECK_DEADLOCK FALSE
