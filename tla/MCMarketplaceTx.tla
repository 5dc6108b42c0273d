-------------------------- MODULE MCMarketplaceTx --------------------------
(* Instances of MarketplaceTx for TLC: a publisher and two freelancers, and *)
(* one requirement with a pending bid of each, or of the first only.        *)
EXTENDS MarketplaceTx

CONSTANTS publisher, freelancer1, freelancer2, r1, b1, b2, seeded

MCRole ==
    [u \in User |-> CASE u = publisher   -> "requester"
                      [] u = freelancer1 -> "freelancer"
                      [] u = freelancer2 -> "both"]

MCSeedRequirement ==
    [r \in RequirementId |->
        [publisher |-> publisher, status |-> "open", winner |-> None]]

MCSeedBid ==
    [b \in BidId |->
        IF b \in seeded
        THEN [requirement |-> r1, status |-> "pending",
              bidder |-> IF b = b1 THEN freelancer1 ELSE freelancer2]
        ELSE None]
=============================================================================
