SPECIFICATION Spec
CONSTANTS
  Programs <- AllPrograms
  NoFrame = NoFrame
INVARIANTS
  RecursiveCallsSucceed
