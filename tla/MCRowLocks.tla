----------------------------- MODULE MCRowLocks -----------------------------
(* Two requirements whose publishers bid on each other's, so that the same  *)
(* users rows are locked as publishers' and as bidders'.                    *)
EXTENDS RowLocks, SequencesExt

CONSTANTS ann, bea, cy, r1, r2

MCPublisher == [r \in RequirementId |-> IF r = r1 THEN ann ELSE bea]

MCBid ==
    [b \in BidId |->
        CASE b = 1 -> [requirement |-> r1, bidder |-> bea]
          [] b = 2 -> [requirement |-> r1, bidder |-> cy]
          [] b = 3 -> [requirement |-> r2, bidder |-> ann]]

MCBidsOn ==
    [r \in RequirementId |->
        SetToSortSeq({b \in BidId : Bid[b].requirement = r}, LAMBDA a, b : a < b)]

MCRequest ==
    {[op |-> "CreateBid", id |-> r2, user |-> ann]}
        \cup [op : {"AcceptBid"}, id : BidId]
        \cup [op : {"Contract"}, id : {1}]
        \cup [op : {"Withdraw"}, id : {1}]
        \cup [op : {"SaveRequirement"}, id : {r1, r2}]
        \cup [op : {"SaveUser"}, id : {ann}]

=============================================================================
