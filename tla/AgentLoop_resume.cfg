SPECIFICATION LoopSpec
CONSTANTS
  Calls = {"edit", "check"}
  Modes = {"code"}
  Git = TRUE
  Verifier = TRUE
  HasChecks = TRUE
  Hooks = FALSE
  AbruptErrors = FALSE
  ResultsFull = FALSE
  MaxTurns = 2
  MaxToolCalls = 2
  MaxRepeatedCalls = 2
  MaxRepeatedFailures = 2
  MaxBatch = 1
  MaxRuns = 3
INVARIANT NoDoneWithOpenErrors
CHECK_DEADLOCK FALSE
