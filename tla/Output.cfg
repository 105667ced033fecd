SPECIFICATION OutputSpec
CONSTANTS
  Forms = {"MAKE", "NAME", "FULL"}
  Prefix = {"c", "c_1_a", "supply_of_c", "supply_of_c_1_t"}
  Plans <- MCPlans
  Locals = {"1;"}
  NoName = NoName
  MaxCount = 3
  MaxInternal = 2
  MaxRows = 3
  MaxSets = 1
  MaxSession = 2
  Infty = Infty
  Unknown = Unknown
  HASH_SIZE = 8
  TERM_EXTEND_SIZE = 1
  ObjOffset <- MCObjOffset
  Var <- MCVar
  Addr <- MCAddr
  Forbidden <- MCForbidden
  Exts <- MCExts
  Branches <- MCBranches
  Values <- MCValues
  Jobs <- MCJobs
INVARIANTS
  TypeOK
  UniqueByFormat
  NamesIdentify
  ReadsBack
CHECK_DEADLOCK FALSE
