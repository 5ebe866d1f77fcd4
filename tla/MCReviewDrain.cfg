SPECIFICATION FairSpec
CONSTANTS
    w1 = w1
    w2 = w2
    c1 = c1
    Keys = {k1}
    Workers = {w1, w2}
    Campaigns = {c1}
    CampaignOf <- MCCampaignOf
    Nobody = Nobody
    Orphan = Orphan
    DayBudget = 2
    MaxFaults = 1
    MaxCrashes = 1
    MaxParks = 1
INVARIANTS OneUnreceiptedReview
PROPERTIES RequestKeptUntilReviewed PostCycleDelivers ShippedIsReviewed RequestsDrain
