SPECIFICATION FairSpec
CONSTANTS
    Runs = {r1, r2}
    StopCalls = {s1, s2}
    NoRun = NoRun
    MaxCrashes = 2
INVARIANTS NoGhostActivity
PROPERTIES ImplementsRunRecord StopStops
CHECK_DEADLOCK FALSE
