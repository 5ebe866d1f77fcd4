SPECIFICATION Spec
CONSTANTS
    Workers = {w1, w2}
    Main = main
    Items = {i1}
    Prs = {q1}
    NoItem = NoItem
    Free = Free
    Modes = {"batch"}
    Cycles = 2
    TransientLimit = 1
    QuarantineLimit = 1
    MaxResumeRounds = 1
    MaxStrikes = 2
INVARIANTS PauseExitsParked
CHECK_DEADLOCK FALSE
