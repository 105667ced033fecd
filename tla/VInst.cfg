SPECIFICATION Spec
CONSTANTS
  x = x
  y = y
  z = z
  YUp = 2
  Infty = Infty
  One = 1
  Var <- MCVar
  IntClass <- MCInt
  Lower <- MCLower
  Upper <- MCUpper
  Values <- MCValues
  Sources <- MCSources
INVARIANTS
  TypeOK
  NothingCut
  NothingAdded
CHECK_DEADLOCK FALSE
