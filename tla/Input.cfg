SPECIFICATION Spec
CONSTANTS
  BUF_SIZE_INC = 3
  PROG_EXTEND_SIZE = 1
  MAX_FIELDS = 3
  MarkedLine = 1
  MaxOpen = 3
  Includes <- MCIncludes
  Worlds <- MCWorlds
INVARIANTS
  TypeOK
  ProgramAsWritten
  DataAsWritten
  MessagesOK
PROPERTIES
  Ends
CHECK_DEADLOCK FALSE
