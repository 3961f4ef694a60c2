SPECIFICATION MCSpec
CONSTANTS
  Clients = {c1, c2}
  NoClient = NoClient
  MaxStarts = 2
  MaxApprovals = 1
  Calls = {"edit", "check"}
  Modes = {"code"}
  Git = TRUE
  Verifier = TRUE
  HasChecks = FALSE
  Hooks = TRUE
  AbruptErrors = TRUE
  ResultsFull = FALSE
  MaxTurns = 2
  MaxToolCalls = 2
  MaxRepeatedCalls = 1
  MaxRepeatedFailures = 2
  MaxBatch = 1
  MaxRuns = 3
  MaxTasks = 4
  MaxChildren = 3
SYMMETRY Symmetry
INVARIANTS OneRunExecutes GrantNeedsApproval NoOrphanPrompt GateHolds BatchSettled
CHECK_DEADLOCK FALSE
