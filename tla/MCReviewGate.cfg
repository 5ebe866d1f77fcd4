CONSTANTS
    h1 = h1
    h2 = h2
    h3 = h3
    p1 = p1
    p2 = p2
    f = f
    g = g
    NoHead = NoHead
    NoHunk = NoHunk
    NoRecord = NoRecord
    Failed = Failed
    Heads = {h1, h2, h3}
    Paths = {p1, p2}
    Findings = {f, g}
    Safety = {f}
    Cells = {c1, c2}
    Reviewers = {r}
    Adjudicators = {a}
    Ancestors <- MCAncestors
    Base <- MCBase
    Content <- MCContent
    Interdiff <- MCInterdiff
    PathOf <- MCPathOf
    HunkOf <- MCHunkOf
    Pools <- MCPools
    Reports <- MCReports
    MaxPasses = 2
    CarryMax = 50
    Rewind = FALSE
    MaxReviews = 3
    MaxFaults = 1
SPECIFICATION Spec
CHECK_DEADLOCK FALSE
INVARIANTS TypeOK BlockersAnswered GreenIsRead RefutationFresh OperatorAnswersAll
