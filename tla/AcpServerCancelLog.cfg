CONSTANTS
  NumRuns = 1
  MaxTurns = 2
  MaxCalls = 1
  Faults = {}
  Overlapping = FALSE
SPECIFICATION AcpSpec
INVARIANT LogRecordsEveryEvent
CHECK_DEADLOCK FALSE
