SPECIFICATION Spec
CONSTANTS
  MaxOps = 2
  MaxStack = 2
  MaxMembers = 8
  HashThreshold = 2
  Given <- MCGiven
  Bucket <- MCBucket
  Literals <- MCLiterals
  Ranges <- MCRanges
  Projections <- MCProjections
  Patterns <- MCPatterns
  Probes <- MCProbes
  Sizes <- MCSizes
  Conds = {"true", "not2"}
  Holds <- MCHolds
  Val <- MCVal
  Image <- MCImage
  Body <- MCBody
INVARIANTS
  TypeOK
  OneOrder
  HeapBest
  KindsKept
PROPERTIES
  Refines
CHECK_DEADLOCK FALSE
