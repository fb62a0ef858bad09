SPECIFICATION Spec
CONSTANTS
  Logs = {t1}
  Limit = 2
  Html = FALSE
  OpenMayFail = FALSE
  MaxDay = 1
  MaxWrites = 4
INVARIANT Capped
CHECK_DEADLOCK FALSE
