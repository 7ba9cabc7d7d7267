CONSTANTS
  NumItems = 4
  Limit = 2
  FilesOf <- MCFilesOf
  StrayKeys = {"a"}
  CompleteInstall = TRUE
  SpawnMayFail = TRUE
SPECIFICATION FanOutSpec
INVARIANTS
  WorkConserving
  SessionsFollowThePool
  BuildIsSettledFirst
  CountsAddUp
PROPERTIES
  FanOutEnds
  ImplementsBatch
CHECK_DEADLOCK FALSE
