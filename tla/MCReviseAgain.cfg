SPECIFICATION Spec
CONSTANTS
  Sweepers = {s}
  Operators = {a}
  Resumers = {}
  None = None
  ReleaseFails = FALSE
  MaxHead = 2
  MaxCleared = 0
  MaxCrashes = 0
INVARIANTS AppliedStaysApplied
CHECK_DEADLOCK FALSE
