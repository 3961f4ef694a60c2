SPECIFICATION MCSpec
CONSTANTS
  MaxEvents = 5
  MaxFaults = 2
  Files = {"a", "b"}
  Listed = {"a"}
  Present = {"a"}
  Undoers = {"u"}
  MaxRuns = 2
  MaxEdits = 2
  MaxOthers = 1
  MaxUndos = 2
INVARIANT HistoryIsKept
PROPERTY UndoIsSafe
CHECK_DEADLOCK FALSE
