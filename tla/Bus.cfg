CONSTANTS
  Handlers = {a, b}
  Tags = {"message:user", "bus:error", "bus:slow-handler"}
  MaxRegs = 2
  MaxEmits = 2
SPECIFICATION Spec
INVARIANTS
  EmissionIsComplete
  DisposersAreExact
PROPERTIES
  EmissionsReturn
CHECK_DEADLOCK FALSE
