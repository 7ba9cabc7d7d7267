CONSTANTS
  NumRuns = 1
  MaxTurns = 2
  MaxCalls = 1
  Faults = {"provider throws", "no message", "bad arguments", "tool throws"}
  Overlapping = FALSE
SPECIFICATION Spec
INVARIANT SessionEndOncePerRun
CHECK_DEADLOCK FALSE
