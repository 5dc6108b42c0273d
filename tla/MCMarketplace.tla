--------------------------- MODULE MCMarketplace ---------------------------
(* Instances of Marketplace for TLC: one requester, two freelancers, and    *)
(* pending bids on the first requirement, as SeedService inserts them.      *)
EXTENDS MarketplaceDeals

CONSTANTS publisher, freelancer1, freelancer2, r1, b1, seeded

MCRole ==
    [u \in User |-> CASE u = publisher   -> "requester"
                      [] u = freelancer1 -> "freelancer"
                      [] u = freelancer2 -> "both"]

MCSeedRequirement ==
    [r \in RequirementId |->
        IF r = r1
        THEN [publisher |-> publisher, status |-> "open", winner |-> None]
        ELSE None]

MCSeedBid ==
    [b \in BidId |->
        IF b \in seeded
        THEN [requirement |-> r1, status |-> "pending",
              bidder |-> IF b = b1 THEN freelancer1 ELSE freelancer2]
        ELSE None]

=============================================================================
