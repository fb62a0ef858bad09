SPECIFICATION Safety
CONSTANTS
  NFiles = 2
  Sizes = {0, 3, 5}
  Leftovers = {"prefix"}
  OffsetLimit = 9
  AckEvery = 2
  Foreign = {}
  Faults = {"damage", "drop", "haste"}
  MaxFaults = 3
  MaxSessions = 2
INVARIANTS
  CountIsNatural
  Intact
 
CHECK_DEADLOCK FALSE
