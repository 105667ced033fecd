SPECIFICATION Spec
CONSTANTS
  Var = {x, y}
  Con = {r, s}
  Value = {1,2}
  StoSize = 2
  MaxSto = 2
  NULL = NULL
INVARIANTS
  TypeOK
  WellLinked
  CountsOK
PROPERTY MatrixSpec
CHECK_DEADLOCK FALSE
VIEW Relevant
SYMMETRY Symmetric
