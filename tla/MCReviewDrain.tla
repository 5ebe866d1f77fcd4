--------------------------- MODULE MCReviewDrain ---------------------------
EXTENDS ReviewDrain, TLC

CONSTANTS w1, w2, c1

\* Two workers of one campaign.
MCCampaignOf == [w \in Workers |-> c1]
=============================================================================
