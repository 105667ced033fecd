SPECIFICATION Spec
CONSTANTS
  x = x
  y = y
  b = b
  Infty = Infty
  ObjOffset = ObjOffset
  Unknown = Unknown
  HASH_SIZE = 8
  TERM_EXTEND_SIZE = 1
  MaxOps = 3
  MaxStack = 2
  MaxDegree = 3
  MaxStatements = 2
  Var <- MCVar
  Addr <- MCAddr
  Decls <- MCDecls
  Result <- MCResult
  Number <- MCNumber
  Factor <- MCFactor
  Shift <- MCShift
  Exponent <- MCExponent
  Priorities <- MCPriorities
  Sources <- MCSources
  Point <- MCPoint
INVARIANTS
  TypeOK
  Simplified
PROPERTIES
  Refines
CHECK_DEADLOCK FALSE
