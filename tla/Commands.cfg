SPECIFICATION CommandSpec
CONSTANTS
  Files = {f1}
  NumRuns = 2
  MaxEdits = 1
  Reviewers = {claude, codex}
  Overlapping = FALSE
  Bins <- MCBins
  ConcurrencyArgs = {"absent", "empty", "word", "zero", "negative", "suffixed", "number"}
  DefaultConcurrency = 4
CHECK_DEADLOCK FALSE
INVARIANTS CommandTypeOK CommandIsCoherent FailureKeepsArtifacts GraphAttests ExitZeroIsEarned
PROPERTY EveryRunEnds
