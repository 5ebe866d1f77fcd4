SPECIFICATION FairSpec
CONSTANTS
  Procs = {p, q}
  Runs = {r, s}
  None = None
  Orphaned = Orphaned
  MaxRepairs = 1
  Script = 1
  MaxCommands = 3
  MaxCrashes = 1
  MaxFaults = 1
  MaxInterrupts = 1
INVARIANTS RestartResumes OneRunPerRequest
PROPERTIES ReadyIsVerified ImplementsLifecycle InterruptReturns
CHECK_DEADLOCK FALSE
