SPECIFICATION Spec
CONSTANTS
  YUp = 2
  Factors <- MixedFactors
  Rhs <- ManyRhs
  Point <- MCPoint
  Objective <- MCObjective
  Constraint <- MCConstraint
  Weight = {1, 10}
  Limit = 8
  MaxStmt = 2
INVARIANTS
  TypeOK SlackCovered PenaltyExact PenaltyCounts
CHECK_DEADLOCK FALSE
