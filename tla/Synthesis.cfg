CONSTANTS
  Files <- MCFiles
  CodeFiles <- MCCodeFiles
  MinSteps = 2
  Depth = 2
  RootGroup = "<root>"
  LayerIds = {"layer:a", "layer:shared", "domain:shared"}
  LayerShared = "layer:shared"
  NoId = "undefined"
  OtherGroup <- MCOtherGroup
  MaxEntries = 3
  DomainIds = {"domain:a", "domain:shared", "layer:a"}
  DomainShared = "domain:shared"
  Symbols <- MCSymbols
  Imports <- MCImports
  Orders = {1, 2, 3}
  MaxPrimary = 2
SPECIFICATION Spec
INVARIANTS
  FilesInOneLayer
  ClaimsAreAccounted
  LayersInOneDomain
  AssemblySucceeds
  StepsAreAccounted
  GatesAreExact
CHECK_DEADLOCK FALSE
