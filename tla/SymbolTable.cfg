SPECIFICATION Spec
CONSTANTS
  MIN_BLK_ELEM_COUNT = 2
  ELEM_STORE_SIZE = 2
  NUMB_STORE_SIZE = 3
  SYMBOL_EXTEND_SIZE = 1
  Decls <- MCDecls
  Params <- MCParams
  MaxStmts = 2
  MaxSessions = 2
INVARIANTS
  TypeOK
  MemoryExact
  TableAsWritten
  IntegerPoints
PROPERTIES
  Refines
CHECK_DEADLOCK FALSE
