SPECIFICATION Spec
CONSTANTS
  Programs <- AllPrograms
  NoFrame = NoFrame
INVARIANTS
  Result
  Scoped
