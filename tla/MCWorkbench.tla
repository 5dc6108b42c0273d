---------------------------- MODULE MCWorkbench ----------------------------
(* An instance of Workbench for TLC: a requester and two accounts that bid, *)
(* a bid of the first seeded on the first requirement.                      *)
EXTENDS Workbench

CONSTANTS publisher, freelancer1, freelancer2, r1, b1

MCRole ==
    [u \in User |-> CASE u = publisher   -> "requester"
                      [] u = freelancer1 -> "freelancer"
                      [] u = freelancer2 -> "both"]

MCSeedRequirement ==
    [r \in RequirementId |->
        IF r = r1
        THEN [publisher |-> publisher, status |-> "open", winner |-> None]
        ELSE None]

MCSeedBid ==
    [b \in BidId |->
        IF b = b1
        THEN [requirement |-> r1, status |-> "pending", bidder |-> freelancer1]
        ELSE None]

=============================================================================
