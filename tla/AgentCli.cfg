CONSTANTS
  NumRuns = 1
  MaxTurns = 2
  MaxCalls = 1
  Faults = {"provider throws", "bad arguments", "long result"}
  Overlapping = FALSE
  Argvs <- MCArgvs
  Directories = {".", "target"}
  PromptFiles = {"prompt.txt"}
  MaxDiskFaults = 2
SPECIFICATION CliSpec
INVARIANTS
  ExitCodeIsHonest
  LossesAreBounded
  PromptBindsToInvocationDir
CHECK_DEADLOCK FALSE
