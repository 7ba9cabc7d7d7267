CONSTANTS
  NumRuns = 2
  MaxTurns = 2
  MaxCalls = 2
  Faults = {"provider throws", "no message", "tool throws"}
  Overlapping = FALSE
SPECIFICATION AcpSpec
INVARIANTS
  RequestsWellFormed
  EventGrammar
  EventsReconstructHistory
  StopReasonIsOwn
  UpdatesSentOnce
PROPERTIES
  CancelReachesInFlight
CHECK_DEADLOCK FALSE
