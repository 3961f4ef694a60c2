SPECIFICATION FairSpec
CONSTANTS
  Callers = {r1, r2}
  Keys = {k1, k2, k3}
  Requests = {q1, q2}
  None = None
  MaxEntries = 1
  MaxCalls = 4
INVARIANTS InFlightRetained ReplayMatchesRequest EvictionIsExact
PROPERTIES WaiterAnswered ImplementsOncePerKey
CHECK_DEADLOCK FALSE
