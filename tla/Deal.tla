-------------------------------- MODULE Deal --------------------------------
(***************************************************************************)
(* What the marketplace promises about each bid, whoever runs what at the  *)
(* same time: the life of the deal that may come of it, and who is told of *)
(* every move.  There is no requirement row, no session and no stale copy  *)
(* here: module MarketplaceDeals shows that the services implement this.   *)
(*                                                                         *)
(* Nothing is promised about two bids on one requirement, because nothing  *)
(* can be: see OneContractPerRequirement in Marketplace.                   *)
(***************************************************************************)
CONSTANTS
    Bid,               \* identities of bids
    User,              \* bidders and publishers
    None               \* "no bid yet"

VARIABLE deal          \* [Bid -> Offer or None]

Phase == {"offered", "withdrawn", "agreed", "signed", "closed"}

Told == {"bid_submitted", "bid_accepted", "contract_signed", "contract_completed"} \X User

Offers ==
    [bidder : User, publisher : User, phase : Phase, told : SUBSET Told]

\* Some offers are there from the start (seed data); nobody was told of them.
Init ==
    deal \in [Bid -> {None} \cup
        {o \in Offers : o.bidder # o.publisher /\ o.phase = "offered" /\ o.told = {}}]

\* Somebody bids on another's requirement; its publisher is told.
Offer(b) ==
    /\ deal[b] = None
    /\ \E u, p \in User :
          /\ u # p
          /\ deal'[b] = [bidder |-> u, publisher |-> p, phase |-> "offered",
                         told |-> {<<"bid_submitted", p>>}]

\* An offer is taken back, silently, and only as long as it is not agreed.
Withdraw(b) ==
    /\ deal[b] # None
    /\ deal[b].phase = "offered"
    /\ deal'[b] = [deal[b] EXCEPT !.phase = "withdrawn"]

\* Deal b goes from phase old to phase new, and user u is told of it.
Move(b, old, new, biz, u) ==
    /\ deal[b] # None
    /\ deal[b].phase = old
    /\ deal'[b] = [bidder |-> deal[b].bidder, publisher |-> deal[b].publisher,
                   phase |-> new, told |-> deal[b].told \cup {<<biz, u>>}]

Agree(b) == Move(b, "offered", "agreed", "bid_accepted", deal[b].bidder)

\* Either party signs for both, and one of them is told: which one signed is not
\* recorded in any table, so not in a deal either.  That the one told is the one
\* who did not sign is SignaturesTellTheOther, in module MarketplaceTx.
Sign(b) ==
    \/ Move(b, "agreed", "signed", "contract_signed", deal[b].bidder)
    \/ Move(b, "agreed", "signed", "contract_signed", deal[b].publisher)

Close(b) == Move(b, "signed", "closed", "contract_completed", deal[b].bidder)

\* One deal moves, the others stay.
Next ==
    \E b \in Bid :
        /\ deal'[b] # deal[b]
        /\ Offer(b) \/ Withdraw(b) \/ Agree(b) \/ Sign(b) \/ Close(b)
        /\ deal' = [deal EXCEPT ![b] = deal'[b]]

Spec == Init /\ [][Next]_deal

=============================================================================
