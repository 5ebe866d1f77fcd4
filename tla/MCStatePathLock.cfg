SPECIFICATION LockFairSpec
CONSTANTS
    Daemons = {1, 2, 3, 4}
    Pids = {10, 11, 12}
    NoFile = NoFile
    MaxReclaims = 2
    MaxKills = 1
INVARIANTS OneDaemonOutsideYankWindow
PROPERTY StartDecided
