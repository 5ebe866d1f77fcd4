SPECIFICATION Spec
CONSTANTS
  Sweepers = {}
  Operators = {a}
  Resumers = {r}
  None = None
  ReleaseFails = FALSE
  MaxHead = 2
  MaxCleared = 0
  MaxCrashes = 0
INVARIANTS ContinuationIsLeased
CHECK_DEADLOCK FALSE
