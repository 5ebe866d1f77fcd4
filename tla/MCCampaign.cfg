SPECIFICATION FairSpec
CONSTANTS
    Workers = {w1, w2}
    Main = main
    Items = {i1}
    Prs = {q1}
    NoItem = NoItem
    Free = Free
    Modes = {"batch", "drain", "watch"}
    Cycles = 2
    TransientLimit = 1
    QuarantineLimit = 1
    MaxResumeRounds = 1
    MaxStrikes = 1
INVARIANTS ExitIsHonest
PROPERTIES HaltStopsCycles CampaignEnds
CHECK_DEADLOCK FALSE
