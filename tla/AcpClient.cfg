CONSTANTS
  MaxPrompts = 2
  MaxUpdates = 3
  Retries = FALSE
SPECIFICATION Spec
INVARIANTS
  PendingIffUnsettled
  ResultIsComplete
  ClosedMeansGoneOrKilled
PROPERTIES
  CallerReturns
CHECK_DEADLOCK FALSE
