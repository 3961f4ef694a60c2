SPECIFICATION MCSpec
CONSTANTS
  c1 = c1
  c2 = c2
  p1 = p1
  p2 = p2
  Callers = {c1, c2}
  Processes = {p1, p2}
  Placements <- ApartOrTogether
  None = None
  TimeoutIsTransient = TRUE
  ReconnectRetries = 1
  MaxRuntimes = 2
  MaxCalls = 2
  MaxCrashes = 1
  Protocols = {"openai", "anthropic", "gemini", "chat"}
  Answers <- MCAnswers
  MaxAttempts = 2
  MaxLost = 1
  Adapters = {"openai", "anthropic", "gemini", "chat"}
  MaxTurns = 3
  MaxCached = 3
INVARIANTS SharedRuntime EventsTellResponse ResponseIsTheAnswer RequestIsWellFormed
PROPERTIES CallReturns GenerateReturns
CHECK_DEADLOCK FALSE
