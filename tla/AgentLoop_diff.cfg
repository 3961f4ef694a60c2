SPECIFICATION LoopSpec
CONSTANTS
  Calls = {"edit", "check"}
  Modes = {"code"}
  Git = TRUE
  Verifier = TRUE
  HasChecks = TRUE
  Hooks = FALSE
  AbruptErrors = TRUE
  ResultsFull = FALSE
  MaxTurns = 2
  MaxToolCalls = 2
  MaxRepeatedCalls = 2
  MaxRepeatedFailures = 2
  MaxBatch = 1
  MaxRuns = 2
INVARIANT DiffBeforeDone
CHECK_DEADLOCK FALSE
