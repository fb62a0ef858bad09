SPECIFICATION Spec
CONSTANTS
  NFiles = 1
  Sizes = {0, 1, 5}
  Leftovers = {"prefix", "other"}
  OffsetLimit = 9
  AckEvery = 2
  Foreign = {"ZSINIT", "ZSKIP", "ZNAK", "ZRINIT", "ZFIN", "ZCAN", "CAN"}
  Faults = {"damage", "loss", "drop", "haste", "quit"}
  MaxFaults = 2
  MaxSessions = 1
 
PROPERTIES
  Ends
  Completes
CHECK_DEADLOCK FALSE
