SPECIFICATION Spec
CONSTANTS
  Logs = {t1, t2}
  Limit = 3
  Html = TRUE
  OpenMayFail = TRUE
  MaxDay = 3
  MaxWrites = 5
SYMMETRY Symmetry
INVARIANTS
  
  RightDay
  InsidePage
CHECK_DEADLOCK FALSE
