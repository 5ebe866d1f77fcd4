SPECIFICATION FairSpec
CONSTANTS
    Procs = {p1, p2}
    NoFile = NoFile
    Stale = 1
    AcquireTimeout = 0
    Slack = 0
    MaxNow = 3
    MaxCalls = 4
    MaxCrashes = 2
INVARIANTS ExclusionOutsideYankWindow NoReclaimExclusion
PROPERTY WaiterReturns
CHECK_DEADLOCK FALSE
