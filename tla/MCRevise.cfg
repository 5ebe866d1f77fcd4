SPECIFICATION FairSpec
CONSTANTS
  Sweepers = {s}
  Operators = {a}
  Resumers = {r}
  None = None
  ReleaseFails = FALSE
  MaxHead = 2
  MaxCleared = 1
  MaxCrashes = 1
INVARIANTS PreflightAlone OnePass
PROPERTIES LeaseOutlivesWork HandedOver
CHECK_DEADLOCK FALSE
