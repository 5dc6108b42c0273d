-------------------------- MODULE MarketplaceDeals --------------------------
(***************************************************************************)
(* The refinement mapping from the tables of Marketplace to the deals of   *)
(* module Deal.  A deal is read off the contract when there is one: the    *)
(* stale Save of a Withdraw that marks an accepted bid "withdrawn" does    *)
(* not undo what the parties agreed.                                       *)
(***************************************************************************)
EXTENDS Marketplace

PhaseOf(b) ==
    IF contracts[b] = None
    THEN IF bids[b].status = "pending" THEN "offered" ELSE "withdrawn"
    ELSE IF contracts[b].status = "pending_signature" THEN "agreed"
    ELSE IF contracts[b].status = "completed" THEN "closed" ELSE "signed"

\* Who was told what about bid b: its rows of the notifications table.
ToldOf(b) ==
    {<<biz, notifications[<<biz, b>>]>> :
        biz \in {t \in NotificationType : notifications[<<t, b>>] # None}}

DealOf(b) ==
    IF bids[b] = None THEN None
    ELSE [bidder |-> bids[b].bidder,
          publisher |-> requirements[bids[b].requirement].publisher,
          phase |-> PhaseOf(b), told |-> ToldOf(b)]

Deals == INSTANCE Deal WITH Bid <- BidId, deal <- [b \in BidId |-> DealOf(b)]

ASSUME OfferAssumption == None \notin Deals!Offers

\* Seen through this mapping every behaviour of the services, crashes and
\* stale Saves included, is a behaviour of Deal: no step moves two deals, skips
\* a phase, goes back, changes a party, or moves a deal and tells the wrong one.
ImplementsDeals == Deals!Spec

=============================================================================
