SPECIFICATION BrokerFairSpec
CONSTANTS
    Clients = {c1, c2}
    Streams = {stdout, stderr}
    MaxLines = 4
    MaxRestarts = 1
INVARIANTS ReplayExact LiveIsCurrent
PROPERTIES AttachSettles
CHECK_DEADLOCK FALSE
