SPECIFICATION FairSpec
CONSTANTS
    Workers = {w1, w2}
    Main = main
    Items = {i1}
    Prs = {q1, q2}
    NoItem = NoItem
    Free = Free
    Modes = {"drain"}
    Cycles = 2
    TransientLimit = 1
    QuarantineLimit = 1
    MaxResumeRounds = 1
    MaxStrikes = 1
PROPERTIES UndurableStopsPaidWork
CHECK_DEADLOCK FALSE
