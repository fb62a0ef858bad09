SPECIFICATION Safety
CONSTANTS
  NFiles = 1
  Sizes = {2}
  Leftovers = {"other"}
  OffsetLimit = 9
  AckEvery = 2
  Foreign = {}
  Faults = {}
  MaxFaults = 0
  MaxSessions = 1
INVARIANT Intact
CHECK_DEADLOCK FALSE
