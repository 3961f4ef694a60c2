SPECIFICATION MCSpec
CONSTANTS
  Closers = {"c", "d"}
  MaxPrinted = 3
  McpOps = {"o1", "o2"}
  MaxPages = 2
INVARIANTS TerminalIsFaithful EntryIsSound
PROPERTIES EndIsAnnounced OperationReturns
CHECK_DEADLOCK FALSE
