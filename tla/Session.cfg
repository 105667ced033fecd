SPECIFICATION Spec
CONSTANTS
  a = a
  b = b
  Name = {a, b}
  Index = i
  None = None
  Option <- MCOption
  MaxCalls = 3
  MaxStmts = 3
INVARIANTS
  TypeOK
  SameAsFirst
  CommandLineWins
  OneMeaning
CHECK_DEADLOCK FALSE
