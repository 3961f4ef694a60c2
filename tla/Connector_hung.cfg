SPECIFICATION Spec
CONSTANTS
  c1 = c1
  c2 = c2
  p1 = p1
  p2 = p2
  Callers = {c1, c2}
  Processes = {p1, p2}
  Placements <- ApartOrTogether
  None = None
  TimeoutIsTransient = FALSE
  ReconnectRetries = 1
  MaxRuntimes = 2
  MaxCalls = 2
  MaxCrashes = 1
INVARIANT OneRuntime
CHECK_DEADLOCK FALSE
