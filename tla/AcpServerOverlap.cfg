CONSTANTS
  NumRuns = 2
  MaxTurns = 1
  MaxCalls = 2
  Faults = {"provider throws", "no message", "bad arguments", "tool throws"}
  Overlapping = TRUE
SPECIFICATION AcpSpec
INVARIANTS
  ToolCallsClosedAtAnswer
  LogFollowsEvents
  OwnHistoryWellFormed
PROPERTIES
  EveryPromptAnswered
CHECK_DEADLOCK FALSE
