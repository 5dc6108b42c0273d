-------------------------- MODULE RefinementProofs --------------------------
(***************************************************************************)
(* MarketplaceTx implements Marketplace, and Marketplace implements Deal:  *)
(* for every set of users, requirements, bids and sessions, every seed,    *)
(* and every interleaving with stale Saves, failures and crashes.          *)
(*   - The deals: what a step of Marketplace does to the deals read off    *)
(*     its tables.                                                         *)
(*   - The statements: run one by one, with row locks, failures and        *)
(*     crashes, the transactions still move the tables by whole operations *)
(*     only.  Everything proved in MarketplaceProofs, and the deals, then  *)
(*     hold of the statement-level system.                                 *)
(***************************************************************************)
EXTENDS MarketplaceTx, MarketplaceDeals, MarketplaceProofs

-----------------------------------------------------------------------------
(***************************************************************************)
(* The deals.                                                              *)
(***************************************************************************)

AllDeals == [b \in BidId |-> DealOf(b)]

-----------------------------------------------------------------------------
(* How a deal changes with the rows it is read from                         *)

\* Steps that leave the status of a bid without contract, the contract, the
\* parties and the notifications of a bid alone do not move its deal.
LEMMA SameDeal ==
    ASSUME NEW b \in BidId, bids[b] # None, bids'[b] # None,
           bids'[b].bidder = bids[b].bidder,
           requirements'[bids'[b].requirement].publisher =
               requirements[bids[b].requirement].publisher,
           contracts'[b] = contracts[b],
           contracts[b] = None =>
               (bids'[b].status = "pending" <=> bids[b].status = "pending"),
           \A t \in NotificationType : notifications'[<<t, b>>] = notifications[<<t, b>>]
    PROVE  DealOf(b)' = DealOf(b)
<1>1. ToldOf(b)' = ToldOf(b)
  BY DEF ToldOf
<1>2. PhaseOf(b)' = PhaseOf(b)
  BY DEF PhaseOf
<1> QED
  BY <1>1, <1>2 DEF DealOf

\* A bid without row stays without deal.
LEMMA NoDeal ==
    ASSUME NEW b \in BidId, bids[b] = None, bids'[b] = None
    PROVE  DealOf(b)' = DealOf(b)
  BY DEF DealOf

\* A first notification of its kind adds one entry to what was told.
LEMMA ToldMore ==
    ASSUME NEW b \in BidId, NEW biz \in NotificationType, NEW u, u # None,
           TypeOK, notifications[<<biz, b>>] = None,
           notifications' = Notify(biz, b, u)
    PROVE  /\ ToldOf(b)' = ToldOf(b) \cup {<<biz, u>>}
           /\ \A c \in BidId \ {b}, t \in NotificationType :
                 notifications'[<<t, c>>] = notifications[<<t, c>>]
<1>1. \A c \in BidId, t \in NotificationType :
          notifications'[<<t, c>>] = IF <<t, c>> = <<biz, b>> THEN u
                                     ELSE notifications[<<t, c>>]
  BY DEF TypeOK, Notify, Event
<1>2. \A x : x \in ToldOf(b) <=>
          \E t \in NotificationType : /\ notifications[<<t, b>>] # None
                                     /\ x = <<t, notifications[<<t, b>>]>>
  BY DEF ToldOf
<1>3. \A x : x \in ToldOf(b)' <=>
          \E t \in NotificationType : /\ notifications'[<<t, b>>] # None
                                     /\ x = <<t, notifications'[<<t, b>>]>>
  BY DEF ToldOf
<1>4. \A t \in NotificationType : notifications'[<<t, b>>] =
          IF t = biz THEN u ELSE notifications[<<t, b>>]
  BY <1>1
<1>5. \A x : x \in ToldOf(b)' <=> x \in ToldOf(b) \cup {<<biz, u>>}
  <2>1. ASSUME NEW x \in ToldOf(b)' PROVE x \in ToldOf(b) \cup {<<biz, u>>}
    <3>1. PICK t \in NotificationType : /\ notifications'[<<t, b>>] # None
                                       /\ x = <<t, notifications'[<<t, b>>]>>
      BY <1>3, <2>1
    <3>2. CASE t = biz
      BY <1>4, <3>1, <3>2
    <3>3. CASE t # biz
      BY <1>2, <1>4, <3>1, <3>3
    <3> QED
      BY <3>2, <3>3
  <2>2. ASSUME NEW x \in ToldOf(b) PROVE x \in ToldOf(b)'
    <3>1. PICK t \in NotificationType : /\ notifications[<<t, b>>] # None
                                       /\ x = <<t, notifications[<<t, b>>]>>
      BY <1>2, <2>2
    <3> QED
      BY <1>3, <1>4, <3>1
  <2>3. <<biz, u>> \in ToldOf(b)'
    BY <1>3, <1>4
  <2> QED
    BY <2>1, <2>2, <2>3
<1>6. ToldOf(b)' = ToldOf(b) \cup {<<biz, u>>}
  BY <1>5
<1>7. \A c \in BidId \ {b}, t \in NotificationType :
          notifications'[<<t, c>>] = notifications[<<t, c>>]
  BY <1>1
<1> QED
  BY <1>6, <1>7

\* A bid has a deal, which is an offer of Deal.
LEMMA DealIsOffer ==
    ASSUME Inv, NEW b \in BidId, bids[b] # None
    PROVE  DealOf(b) \in Deals!Offers
<1>1. bids[b] \in BidRow
  BY DEF Inv, TypeOK
<1>2. requirements[bids[b].requirement] \in RequirementRow
  BY <1>1 DEF Inv, TypeOK, BidsAreOnOthersRequirements, BidRow
<1>3. bids[b].bidder \in User /\ requirements[bids[b].requirement].publisher \in User
  BY <1>1, <1>2 DEF BidRow, RequirementRow
<1>4. \A t \in NotificationType :
          notifications[<<t, b>>] # None => notifications[<<t, b>>] \in User
  BY DEF Inv, TypeOK, Event
<1>5. ToldOf(b) \in SUBSET Deals!Told
  <2>1. ASSUME NEW x \in ToldOf(b) PROVE x \in Deals!Told
    <3>1. PICK t \in NotificationType : /\ notifications[<<t, b>>] # None
                                       /\ x = <<t, notifications[<<t, b>>]>>
      BY <2>1 DEF ToldOf
    <3> QED
      BY <1>4, <3>1 DEF NotificationType, Deals!Told
  <2> QED
    BY <2>1
<1>6. PhaseOf(b) \in Deals!Phase
  BY DEF PhaseOf, Deals!Phase
<1> QED
  BY <1>3, <1>5, <1>6 DEF DealOf, Deals!Offers

-----------------------------------------------------------------------------
(* Every step is a move of one deal, or none                                *)

\* One deal moves and the others stay: a step of Deal.
LEMMA OneDeal ==
    ASSUME NEW b \in BidId,
           \A c \in BidId \ {b} : DealOf(c)' = DealOf(c),
           \/ DealOf(b)' = DealOf(b)
           \/ Deals!Offer(b) \/ Deals!Withdraw(b) \/ Deals!Agree(b)
           \/ Deals!Sign(b) \/ Deals!Close(b)
    PROVE  [Deals!Next]_AllDeals
<1>1. CASE DealOf(b)' = DealOf(b)
  BY <1>1 DEF AllDeals
<1>2. CASE DealOf(b)' # DealOf(b)
  <2>1. AllDeals' = [AllDeals EXCEPT ![b] = AllDeals'[b]]
    BY DEF AllDeals
  <2>2. AllDeals'[b] # AllDeals[b]
    BY <1>2 DEF AllDeals
  <2> QED
    BY <1>2, <2>1, <2>2 DEF Deals!Next, AllDeals
<1> QED
  BY <1>1, <1>2

\* A step that changes no bid, contract or notification, and no publisher.
LEMMA NoMove ==
    ASSUME Inv, UNCHANGED <<bids, contracts, notifications>>,
           \A r \in RequirementId : requirements[r] # None =>
               requirements'[r].publisher = requirements[r].publisher
    PROVE  [Deals!Next]_AllDeals
<1>1. ASSUME NEW c \in BidId PROVE DealOf(c)' = DealOf(c)
  <2>1. CASE bids[c] = None
    BY <2>1, NoDeal
  <2>2. CASE bids[c] # None
    <3>1. bids[c].requirement \in RequirementId /\ requirements[bids[c].requirement] # None
      BY <2>2 DEF Inv, TypeOK, BidRow, BidsAreOnOthersRequirements
    <3> QED
      BY <2>2, <3>1, SameDeal
  <2> QED
    BY <2>1, <2>2
<1> QED
  BY <1>1 DEF AllDeals

\* The deals of the bids a step does not touch.
LEMMA OthersStay ==
    ASSUME Inv, NEW b \in BidId,
           \A c \in BidId \ {b} :
               /\ bids'[c] = bids[c] /\ contracts'[c] = contracts[c]
               /\ \A t \in NotificationType :
                     notifications'[<<t, c>>] = notifications[<<t, c>>],
           \A r \in RequirementId : requirements[r] # None =>
               requirements'[r].publisher = requirements[r].publisher
    PROVE  \A c \in BidId \ {b} : DealOf(c)' = DealOf(c)
<1> SUFFICES ASSUME NEW c \in BidId \ {b} PROVE DealOf(c)' = DealOf(c)
  OBVIOUS
<1>1. CASE bids[c] = None
  BY <1>1, NoDeal
<1>2. CASE bids[c] # None
  <2>1. bids[c].requirement \in RequirementId /\ requirements[bids[c].requirement] # None
    BY <1>2 DEF Inv, TypeOK, BidRow, BidsAreOnOthersRequirements
  <2> QED
    BY <1>2, <2>1, SameDeal
<1> QED
  BY <1>1, <1>2

LEMMA CreateBidMoves ==
    ASSUME Inv, NEW s \in Session, NEW u \in User, NEW r \in RequirementId,
           NEW b \in BidId, CreateBid(s, u, r, b)
    PROVE  [Deals!Next]_AllDeals
<1> DEFINE p == requirements[r].publisher
<1>1. TypeOK /\ BidsAreOnOthersRequirements /\ ContractsMatchBids
      /\ NotificationsMatchState /\ SeedBidsRemain
  BY DEF Inv
<1>2. /\ requirements[r] # None /\ p \in User /\ p # u /\ p # None
      /\ bids[b] = None /\ contracts[b] = None /\ SeedBid[b] = None
      /\ UNCHANGED <<requirements, contracts>>
      /\ notifications' = Notify("bid_submitted", b, p)
      /\ \A c \in BidId \ {b} : bids'[c] = bids[c]
      /\ bids'[b] = [requirement |-> r, bidder |-> u, status |-> "pending"]
  BY <1>1, NoneAssumption DEF CreateBid, MayBid, TypeOK, RequirementRow, ContractsMatchBids,
     SeedBidsRemain
<1>3. bids'[b] # None
  <2>1. bids'[b] \in BidRow
    BY <1>2 DEF BidRow, BidStatus
  <2> QED
    BY <2>1, NoneAssumption
<1>4. \A t \in NotificationType : notifications[<<t, b>>] = None
  BY <1>1, <1>2 DEF NotificationsMatchState, NotificationType
<1>5. "bid_submitted" \in NotificationType
  BY DEF NotificationType
<1>6. /\ ToldOf(b)' = ToldOf(b) \cup {<<"bid_submitted", p>>}
      /\ \A c \in BidId \ {b}, t \in NotificationType :
            notifications'[<<t, c>>] = notifications[<<t, c>>]
  BY <1>1, <1>2, <1>4, <1>5, ToldMore
<1>7. ToldOf(b) = {}
  BY <1>4 DEF ToldOf
<1>8. DealOf(b) = None
  BY <1>2 DEF DealOf
<1>9. DealOf(b)' = [bidder |-> u, publisher |-> p, phase |-> "offered",
                    told |-> {<<"bid_submitted", p>>}]
  BY <1>2, <1>3, <1>6, <1>7 DEF DealOf, PhaseOf
<1>10. Deals!Offer(b)
  BY <1>2, <1>8, <1>9 DEF Deals!Offer
<1> QED
  BY <1>2, <1>6, <1>10, OneDeal, OthersStay

LEMMA AcceptBidMoves ==
    ASSUME Inv, NEW s \in Session, NEW u \in User, NEW r \in RequirementId,
           NEW b \in BidId, AcceptBid(s, u, r, b)
    PROVE  [Deals!Next]_AllDeals
<1> DEFINE v == bids[b].bidder
<1>1. TypeOK /\ NotificationsMatchState
  BY DEF Inv
<1>2. requirements[r] \in RequirementRow /\ bids[b] \in BidRow
  BY <1>1 DEF AcceptBid, MayAccept, Acceptable, TypeOK
<1>3. /\ bids[b] # None /\ bids[b].status = "pending" /\ contracts[b] = None
      /\ v \in User /\ v # None
      /\ notifications' = Notify("bid_accepted", b, v)
      /\ \A c \in BidId \ {b} : bids'[c] = bids[c] /\ contracts'[c] = contracts[c]
      /\ bids'[b] = [bids[b] EXCEPT !.status = "accepted"]
      /\ contracts'[b] = ContractFromBid(b, u)
      /\ \A q \in RequirementId : q # r => requirements'[q] = requirements[q]
      /\ requirements'[r].publisher = requirements[r].publisher
      /\ bids[b].requirement = r
  BY <1>1, <1>2, NoneAssumption DEF AcceptBid, Acceptable, TypeOK, BidRow, RequirementRow
<1>4. bids'[b] # None /\ bids'[b].bidder = v /\ bids'[b].requirement = r
  <2>1. bids'[b] \in BidRow
    BY <1>2, <1>3 DEF BidRow, BidStatus
  <2> QED
    BY <1>2, <1>3, <2>1, NoneAssumption DEF BidRow
<1>5. contracts'[b] # None /\ contracts'[b].status = "pending_signature"
  <2>1. contracts'[b] \in ContractRow
    BY <1>2, <1>3 DEF ContractFromBid, ContractRow, ContractStatus, StageStatus, BidRow
  <2> QED
    BY <1>3, <2>1, NoneAssumption DEF ContractFromBid
<1>6. notifications[<<"bid_accepted", b>>] = None /\ "bid_accepted" \in NotificationType
  BY <1>1, <1>3 DEF NotificationsMatchState, NotificationType
<1>7. /\ ToldOf(b)' = ToldOf(b) \cup {<<"bid_accepted", v>>}
      /\ \A c \in BidId \ {b}, t \in NotificationType :
            notifications'[<<t, c>>] = notifications[<<t, c>>]
  BY <1>1, <1>3, <1>6, ToldMore
<1>8. DealOf(b) = [bidder |-> v, publisher |-> requirements[r].publisher,
                   phase |-> "offered", told |-> ToldOf(b)]
  BY <1>3 DEF DealOf, PhaseOf
<1>9. DealOf(b)' = [bidder |-> v, publisher |-> requirements[r].publisher,
                    phase |-> "agreed", told |-> ToldOf(b) \cup {<<"bid_accepted", v>>}]
  BY <1>3, <1>4, <1>5, <1>7 DEF DealOf, PhaseOf
<1>10. DealOf(b) # None
  BY <1>3, DealIsOffer, OfferAssumption
<1>11. Deals!Agree(b)
  <2>1. AllDeals[b] = DealOf(b) /\ AllDeals'[b] = DealOf(b)'
    BY DEF AllDeals
  <2>2. /\ AllDeals[b].bidder = v /\ AllDeals[b].phase = "offered"
        /\ AllDeals[b] # None
    BY <1>8, <1>10, <2>1
  <2>3. AllDeals'[b] = [bidder |-> AllDeals[b].bidder, publisher |-> AllDeals[b].publisher,
                        phase |-> "agreed",
                        told |-> AllDeals[b].told \cup {<<"bid_accepted", v>>}]
    BY <1>8, <1>9, <2>1
  <2> QED
    BY <2>2, <2>3 DEF Deals!Agree, Deals!Move, AllDeals
<1>12. \A q \in RequirementId : requirements'[q].publisher = requirements[q].publisher
  BY <1>3
<1> QED
  BY <1>3, <1>7, <1>11, <1>12, OneDeal, OthersStay

LEMMA SaveBidMoves ==
    ASSUME Inv, NEW s \in Session, SaveBid(s), NEW b \in BidId, b = session[s].id
    PROVE  [Deals!Next]_AllDeals
<1>1. /\ TypeOK /\ bids[b] # None /\ bids[b] \in BidRow
      /\ session[s].row = [bids[b] EXCEPT !.status = "withdrawn"]
  BY DEF Inv, SaveBid, TypeOK, BidWrite, LoadedRowsAreConsistent
<1>2. /\ bids'[b] = [bids[b] EXCEPT !.status = "withdrawn"]
      /\ \A c \in BidId \ {b} : bids'[c] = bids[c]
      /\ UNCHANGED <<requirements, contracts, notifications>>
  BY <1>1 DEF SaveBid, TypeOK
<1>3. /\ bids'[b] # None /\ bids'[b].bidder = bids[b].bidder
      /\ bids'[b].requirement = bids[b].requirement
      /\ bids'[b].status = "withdrawn"
  <2>1. bids'[b] \in BidRow
    BY <1>1, <1>2 DEF BidRow, BidStatus
  <2> QED
    BY <1>1, <1>2, <2>1, NoneAssumption DEF BidRow
<1>4. ToldOf(b)' = ToldOf(b)
  BY <1>2 DEF ToldOf
<1>5. CASE contracts[b] # None \/ bids[b].status # "pending"
  <2>1. PhaseOf(b)' = PhaseOf(b)
    BY <1>2, <1>3, <1>5 DEF PhaseOf
  <2>2. DealOf(b)' = DealOf(b)
    BY <1>1, <1>2, <1>3, <1>4, <2>1 DEF DealOf
  <2> QED
    BY <1>1, <1>2, <2>2, OneDeal, OthersStay
<1>6. CASE contracts[b] = None /\ bids[b].status = "pending"
  <2>1. DealOf(b) # None /\ DealOf(b).phase = "offered"
    BY <1>1, <1>6, DealIsOffer, OfferAssumption DEF DealOf, PhaseOf
  <2>2. DealOf(b)' = [DealOf(b) EXCEPT !.phase = "withdrawn"]
    BY <1>1, <1>2, <1>3, <1>4, <1>6 DEF DealOf, PhaseOf
  <2>3. Deals!Withdraw(b)
    BY <2>1, <2>2 DEF Deals!Withdraw
  <2> QED
    BY <1>1, <1>2, <2>3, OneDeal, OthersStay
<1> QED
  BY <1>5, <1>6

\* What Sign and Complete have in common: the contract of b moves to a new
\* status, and the notification of this move is the first of its kind.
LEMMA ContractMoves ==
    ASSUME Inv, NEW b \in BidId, NEW old, NEW new, NEW biz \in NotificationType, NEW u,
           u # None, bids[b] # None, contracts[b] # None, contracts'[b] # None,
           PhaseOf(b) = old, PhaseOf(b)' = new, notifications[<<biz, b>>] = None,
           notifications' = Notify(biz, b, u), UNCHANGED <<requirements, bids>>,
           \A c \in BidId \ {b} : contracts'[c] = contracts[c]
    PROVE  /\ Deals!Move(b, old, new, biz, u)
           /\ \A c \in BidId \ {b} : DealOf(c)' = DealOf(c)
<1>1. TypeOK
  BY DEF Inv
<1>2. /\ ToldOf(b)' = ToldOf(b) \cup {<<biz, u>>}
      /\ \A c \in BidId \ {b}, t \in NotificationType :
            notifications'[<<t, c>>] = notifications[<<t, c>>]
  BY <1>1, ToldMore
<1>3. DealOf(b) # None /\ DealOf(b).phase = old
  BY DealIsOffer, OfferAssumption DEF DealOf
<1>4. DealOf(b)' = [bidder |-> DealOf(b).bidder, publisher |-> DealOf(b).publisher,
                    phase |-> new, told |-> DealOf(b).told \cup {<<biz, u>>}]
  BY <1>2 DEF DealOf
<1>5. Deals!Move(b, old, new, biz, u)
  BY <1>3, <1>4 DEF Deals!Move
<1> QED
  BY <1>2, <1>5, OthersStay

LEMMA SignMoves ==
    ASSUME Inv, NEW s \in Session, NEW u \in User, NEW b \in BidId, Sign(s, u, b)
    PROVE  [Deals!Next]_AllDeals
<1> PICK v : v = OtherParty(contracts[b], u)
  OBVIOUS
<1>1. TypeOK /\ NotificationsMatchState /\ ContractsMatchBids
  BY DEF Inv
<1>2. /\ contracts[b] # None /\ contracts[b] \in ContractRow /\ bids[b] # None
      /\ contracts[b].status = "pending_signature"
      /\ contracts[b].partyB = bids[b].bidder
      /\ contracts[b].partyA = requirements[bids[b].requirement].publisher
      /\ v \in {contracts[b].partyA, contracts[b].partyB} /\ v # None
      /\ notifications' = Notify("contract_signed", b, v)
      /\ UNCHANGED <<requirements, bids>>
      /\ \A c \in BidId \ {b} : contracts'[c] = contracts[c]
      /\ contracts'[b] = [contracts[b] EXCEPT !.status = "in_progress"]
  BY <1>1, NoneAssumption DEF Sign, MaySign, TypeOK, ContractRow, OtherParty, ContractsMatchBids
<1>3. contracts'[b] # None /\ contracts'[b].status = "in_progress"
  <2>1. contracts'[b] \in ContractRow
    BY <1>2 DEF ContractRow, ContractStatus
  <2> QED
    BY <1>2, <2>1, NoneAssumption DEF ContractRow
<1>4. /\ notifications[<<"contract_signed", b>>] = None
      /\ "contract_signed" \in NotificationType
  BY <1>1, <1>2 DEF NotificationsMatchState, NotificationType
<1>5. PhaseOf(b) = "agreed" /\ PhaseOf(b)' = "signed"
  BY <1>2, <1>3 DEF PhaseOf
<1>6. /\ Deals!Move(b, "agreed", "signed", "contract_signed", v)
      /\ \A c \in BidId \ {b} : DealOf(c)' = DealOf(c)
  <2>1. /\ v # None /\ bids[b] # None /\ contracts[b] # None
        /\ notifications' = Notify("contract_signed", b, v)
        /\ UNCHANGED <<requirements, bids>>
        /\ \A c \in BidId \ {b} : contracts'[c] = contracts[c]
    BY <1>2
  <2> QED
    BY <1>3, <1>4, <1>5, <2>1, ContractMoves
<1>7. AllDeals[b].bidder = contracts[b].partyB /\ AllDeals[b].publisher = contracts[b].partyA
  BY <1>2 DEF AllDeals, DealOf
<1>8. Deals!Sign(b)
  <2>1. CASE v = contracts[b].partyB
    BY <1>6, <1>7, <2>1 DEF Deals!Sign, AllDeals
  <2>2. CASE v = contracts[b].partyA
    BY <1>6, <1>7, <2>2 DEF Deals!Sign, AllDeals
  <2> QED
    BY <1>2, <2>1, <2>2
<1> QED
  BY <1>6, <1>8, OneDeal

LEMMA CompleteMoves ==
    ASSUME Inv, NEW s \in Session, NEW u \in User, NEW b \in BidId, Complete(s, u, b)
    PROVE  [Deals!Next]_AllDeals
<1> PICK v : v = contracts[b].partyB
  OBVIOUS
<1>1. TypeOK /\ NotificationsMatchState /\ ContractsMatchBids
  BY DEF Inv
<1>2. /\ contracts[b] # None /\ contracts[b] \in ContractRow /\ bids[b] # None
      /\ contracts[b].status \in {"in_progress", "pending_review"}
      /\ v = bids[b].bidder /\ v # None
      /\ notifications' = Notify("contract_completed", b, v)
      /\ UNCHANGED <<requirements, bids>>
      /\ \A c \in BidId \ {b} : contracts'[c] = contracts[c]
  BY <1>1, NoneAssumption DEF Complete, MayComplete, TypeOK, ContractRow, ContractsMatchBids
<1>3. contracts'[b] # None /\ contracts'[b].status = "completed"
  <2>1. [[contracts[b] EXCEPT !.status = "completed"]
            EXCEPT !.stages = [i \in 1..3 |-> "done"]] \in ContractRow
    BY <1>2 DEF ContractRow, ContractStatus, StageStatus
  <2> QED
    BY <1>1, <1>2, <2>1, NoneAssumption DEF Complete, TypeOK, ContractRow
<1>4. /\ notifications[<<"contract_completed", b>>] = None
      /\ "contract_completed" \in NotificationType
  BY <1>1, <1>2 DEF NotificationsMatchState, NotificationType
<1>5. PhaseOf(b) = "signed" /\ PhaseOf(b)' = "closed"
  BY <1>2, <1>3 DEF PhaseOf
<1>6. /\ Deals!Move(b, "signed", "closed", "contract_completed", v)
      /\ \A c \in BidId \ {b} : DealOf(c)' = DealOf(c)
  BY <1>2, <1>3, <1>4, <1>5, ContractMoves
<1>7. AllDeals[b].bidder = v
  BY <1>2 DEF AllDeals, DealOf
<1>8. Deals!Close(b)
  BY <1>6, <1>7 DEF Deals!Close, AllDeals
<1> QED
  BY <1>6, <1>8, OneDeal

LEMMA HandleMoves ==
    ASSUME Inv, NEW s \in Session, Handle(s)
    PROVE  [Deals!Next]_AllDeals
<1>1. TypeOK /\ LoadedRowsAreConsistent
  BY DEF Inv
<1>2. ASSUME NEW u \in User, NEW r \in RequirementId, NEW status \in SubmittedStatus,
             CreateRequirement(s, u, r, status)
      PROVE  [Deals!Next]_AllDeals
  <2>1. /\ UNCHANGED <<bids, contracts, notifications>>
        /\ \A q \in RequirementId : requirements[q] # None =>
              requirements'[q] = requirements[q]
    BY <1>1, <1>2 DEF CreateRequirement, TypeOK
  <2> QED
    BY <2>1, NoMove
<1>3. ASSUME NEW u \in User, NEW r \in RequirementId, NEW status,
             LoadRequirement(s, u, r, status)
      PROVE  [Deals!Next]_AllDeals
  BY <1>3, NoMove DEF LoadRequirement
<1>4. CASE SaveRequirement(s)
  <2>1. /\ UNCHANGED <<bids, contracts, notifications>>
        /\ \A q \in RequirementId : requirements[q] # None =>
              requirements'[q].publisher = requirements[q].publisher
    BY <1>1, <1>4 DEF SaveRequirement, TypeOK, LoadedRowsAreConsistent, RequirementWrite
  <2> QED
    BY <2>1, NoMove
<1>5. CASE SaveBid(s)
  <2>1. PICK b \in BidId : b = session[s].id
    BY <1>5 DEF SaveBid, BidWrite
  <2> QED
    BY <1>5, <2>1, SaveBidMoves
<1>6. ASSUME NEW u \in User, NEW b \in BidId, Withdraw(s, u, b)
      PROVE  [Deals!Next]_AllDeals
  BY <1>6, NoMove DEF Withdraw
<1>7. CASE Abort(s)
  BY <1>7, NoMove DEF Abort
<1> QED
  BY <1>2, <1>3, <1>4, <1>5, <1>6, <1>7, CreateBidMoves, AcceptBidMoves, SignMoves,
     CompleteMoves DEF Handle, UpdateStatus, Update

-----------------------------------------------------------------------------
(* Theorems                                                                 *)

LEMMA DealsInit == Init => Deals!Init
<1> SUFFICES ASSUME Init PROVE Deals!Init
  OBVIOUS
<1>1. Inv
  BY InvInit
<1>2. ASSUME NEW b \in BidId, bids[b] # None
      PROVE  /\ DealOf(b) \in Deals!Offers
             /\ DealOf(b).bidder # DealOf(b).publisher
             /\ DealOf(b).phase = "offered" /\ DealOf(b).told = {}
  <2>1. DealOf(b) \in Deals!Offers
    BY <1>1, <1>2, DealIsOffer
  <2>2. bids[b].status = "pending" /\ contracts[b] = None
    BY <1>2, SeedAssumption DEF Init
  <2>3. bids[b].bidder # requirements[bids[b].requirement].publisher
    BY <1>1, <1>2 DEF Inv, BidsAreOnOthersRequirements
  <2>4. ToldOf(b) = {}
    BY DEF Init, ToldOf, Event
  <2> QED
    BY <1>2, <2>1, <2>2, <2>3, <2>4 DEF DealOf, PhaseOf
<1>3. ASSUME NEW b \in BidId, bids[b] = None PROVE DealOf(b) = None
  BY <1>3 DEF DealOf
<1> QED
  BY <1>2, <1>3 DEF Deals!Init

\* The services implement the abstract deals: every step of every handler,
\* stale Saves, failures and crashes included, moves at most one deal, one
\* phase on, and tells the party the move concerns.
THEOREM DealsImplemented == Spec => ImplementsDeals
<1>1. Inv /\ [Next]_vars => [Deals!Next]_AllDeals
  <2> SUFFICES ASSUME Inv, [Next]_vars PROVE [Deals!Next]_AllDeals
    OBVIOUS
  <2>1. CASE Crash \/ UNCHANGED vars
    BY <2>1, NoMove DEF Crash, vars
  <2> QED
    BY <2>1, HandleMoves DEF Next
<1> QED
  BY <1>1, DealsInit, Invariant, PTL DEF Spec, ImplementsDeals, Deals!Spec, AllDeals

-----------------------------------------------------------------------------
(***************************************************************************)
(* The statements.                                                         *)
(***************************************************************************)

TxState(t) == CreateBidState(t) \/ AcceptBidState(t) \/ ContractState(t)

\* Two open transactions never hold the same row lock.
LocksAreExclusive ==
    \A s, q \in Session :
        s # q /\ tx[s] # None /\ tx[q] # None => tx[s].locks \cap tx[q].locks = {}

TxInv ==
    /\ TxTypeOK
    /\ LocksAreExclusive
    /\ ChecksStayTrue
    /\ \A s \in Session : tx[s] # None => session[s] = None

LEMMA TxInvInit == TxInit => TxInv
  BY TypeInit, TransactionAssumption
     DEF TxInit, TxInv, TxTypeOK, LocksAreExclusive, ChecksStayTrue

-----------------------------------------------------------------------------
(* Statements that write no table                                           *)

\* A statement preserves the invariant when the transaction it leaves has one
\* of the described states and locks no row another transaction has locked.
LEMMA StepInv ==
    ASSUME TxInv, NEW s \in Session, NEW t \in Transaction \cup {None}, Step(s, t),
           t # None => /\ session[s] = None
                       /\ TxState(t)
                       /\ \A q \in Session : q # s /\ tx[q] # None =>
                             tx[q].locks \cap t.locks = {}
    PROVE  TxInv'
<1>1. /\ UNCHANGED vars
      /\ tx'[s] = t
      /\ \A q \in Session : q # s => tx'[q] = tx[q]
  BY DEF Step, TxInv, TxTypeOK
<1>2. TxTypeOK'
  <2>1. TypeOK'
    BY <1>1 DEF TxInv, TxTypeOK, TypeOK, vars
  <2> QED
    BY <2>1 DEF Step, TxInv, TxTypeOK
<1>3. LocksAreExclusive'
  BY <1>1 DEF TxInv, LocksAreExclusive
<1>4. ASSUME NEW x PROVE TxState(x)' = TxState(x)
  BY <1>1 DEF vars, TxState, CreateBidState, AcceptBidState, ContractState, NewContract,
              MayBid, MayAccept, Acceptable, MaySign, MayComplete, ContractFromBid
<1>5. \A q \in Session : tx'[q] # None => TxState(tx'[q])
  BY <1>1 DEF TxInv, ChecksStayTrue, TxState
<1>6. ChecksStayTrue'
  BY <1>4, <1>5 DEF ChecksStayTrue, TxState
<1>7. \A q \in Session : tx'[q] # None => session'[q] = None
  BY <1>1 DEF TxInv, vars
<1> QED
  BY <1>2, <1>3, <1>6, <1>7 DEF TxInv

\* What is known of the transaction of s when its next statement is reached.
LEMMA AtFacts ==
    ASSUME TxInv, NEW s \in Session, NEW statement, At(s, statement)
    PROVE  /\ tx[s] \in Transaction /\ tx[s].next = statement
           /\ session[s] = None /\ TxState(tx[s])
           /\ \A q \in Session : q # s /\ tx[q] # None => tx[q].locks \cap tx[s].locks = {}
  BY TransactionAssumption
     DEF TxInv, TxTypeOK, ChecksStayTrue, TxState, At, LocksAreExclusive

\* Opening a transaction.
LEMMA StartInv ==
    ASSUME TxInv, NEW s \in Session, StartTransaction(s)
    PROVE  TxInv'
<1>1. ASSUME NEW u \in User, NEW r \in RequirementId \cup {None}, NEW b \in BidId \cup {None},
             NEW op \in Operation, NEW first \in Statement, Begin(s, op, u, r, b, first),
             \/ op = "CreateBid" /\ first = "lockRequirement" /\ r \in RequirementId
                   /\ Role[u] # "requester"
             \/ op = "AcceptBid" /\ first = "lockRequirement" /\ r \in RequirementId
                   /\ b \in BidId
             \/ op \in {"Sign", "Complete"} /\ first = "lockContract" /\ b \in BidId
      PROVE  TxInv'
  <2> DEFINE t == [op |-> op, user |-> u, r |-> r, b |-> b, next |-> first, locks |-> {},
                   requirement |-> None, bid |-> None, contract |-> None,
                   recipient |-> None, written |-> {}]
  <2>1. t \in Transaction
    BY DEF Transaction
  <2>2. session[s] = None
    BY <1>1 DEF Begin, Idle
  <2>3. TxState(t)
    BY <1>1 DEF TxState, CreateBidState, AcceptBidState, ContractState
  <2>4. Step(s, t)
    BY <1>1 DEF Begin
  <2>5. \A q \in Session : tx[q].locks \cap t.locks = {}
    OBVIOUS
  <2> HIDE DEF t
  <2> QED
    BY <2>1, <2>2, <2>3, <2>4, <2>5, StepInv
<1> QED
  BY <1>1 DEF StartTransaction, Operation, Statement

LEMMA LockRequirementInv ==
    ASSUME TxInv, NEW s \in Session, LockRequirement(s)
    PROVE  TxInv'
<1> DEFINE t0 == tx[s]
           row == <<"requirements", t0.r>>
           ok == IF t0.op = "CreateBid" THEN MayBid(t0.user, t0.r) ELSE MayAccept(t0.user, t0.r)
           t == [[t0 EXCEPT !.requirement = requirements[t0.r],
                            !.next = IF t0.op = "CreateBid" THEN "insertBid" ELSE "lockBid"]
                    EXCEPT !.locks = t0.locks \cup {row}]
<1>1. /\ t0 \in Transaction /\ t0.next = "lockRequirement"
      /\ session[s] = None /\ TxState(t0)
      /\ \A q \in Session : q # s /\ tx[q] # None => tx[q].locks \cap t0.locks = {}
  BY AtFacts DEF LockRequirement
<1>2. t0.op \in {"CreateBid", "AcceptBid"} /\ t0.r \in RequirementId
  BY <1>1 DEF TxState, CreateBidState, AcceptBidState, ContractState
<1>3. Free(s, row) /\ Step(s, IF ok THEN t ELSE None)
  BY DEF LockRequirement, LockRow
<1>4. CASE ~ok
  BY <1>3, <1>4, StepInv
<1>5. CASE ok
  <2>1. requirements[t0.r] \in RequirementRow
    BY <1>2, <1>5 DEF MayBid, MayAccept, TxInv, TxTypeOK, TypeOK
  <2>2. row \in Row
    BY <1>2 DEF Row
  <2>3. t \in Transaction
    <3>1. t0.locks \cup {row} \in SUBSET Row
      BY <1>1, <2>2 DEF Transaction
    <3>2. ASSUME NEW n \in Statement, NEW req \in RequirementRow, NEW l \in SUBSET Row
          PROVE  [[t0 EXCEPT !.requirement = req, !.next = n] EXCEPT !.locks = l] \in Transaction
      BY <1>1 DEF Transaction
    <3> QED
      BY <2>1, <3>1, <3>2 DEF Statement
  <2>4. /\ t.op = t0.op /\ t.user = t0.user /\ t.r = t0.r /\ t.b = t0.b
        /\ t.written = t0.written /\ row \in t.locks
        /\ t.requirement = requirements[t0.r]
        /\ t.next = IF t0.op = "CreateBid" THEN "insertBid" ELSE "lockBid"
    BY <1>1 DEF Transaction
  <2>5. TxState(t)
    <3> HIDE DEF t
    <3>1. CASE t0.op = "CreateBid"
      BY <1>1, <1>5, <2>4, <3>1 DEF TxState, CreateBidState, AcceptBidState, ContractState
    <3>2. CASE t0.op = "AcceptBid"
      BY <1>1, <1>5, <2>4, <3>2 DEF TxState, CreateBidState, AcceptBidState, ContractState
    <3> QED
      BY <1>2, <3>1, <3>2
  <2>6. \A q \in Session : q # s /\ tx[q] # None => tx[q].locks \cap t.locks = {}
    BY <1>1, <1>3 DEF Free, Transaction
  <2> HIDE DEF t
  <2> QED
    BY <1>1, <1>3, <1>5, <2>3, <2>5, <2>6, StepInv
<1> QED
  BY <1>4, <1>5

LEMMA LockBidInv ==
    ASSUME TxInv, NEW s \in Session, LockBid(s)
    PROVE  TxInv'
<1> DEFINE t0 == tx[s]
           row == <<"bids", t0.b>>
           ok == Acceptable(t0.r, t0.b)
           t == [[t0 EXCEPT !.bid = bids[t0.b], !.next = "saveBid"]
                    EXCEPT !.locks = t0.locks \cup {row}]
<1>1. /\ t0 \in Transaction /\ t0.next = "lockBid"
      /\ session[s] = None /\ TxState(t0)
      /\ \A q \in Session : q # s /\ tx[q] # None => tx[q].locks \cap t0.locks = {}
  BY AtFacts DEF LockBid
<1>2. AcceptBidState(t0) /\ t0.b \in BidId
  BY <1>1 DEF TxState, CreateBidState, AcceptBidState, ContractState
<1>3. Free(s, row) /\ Step(s, IF ok THEN t ELSE None)
  BY DEF LockBid, LockRow
<1>4. CASE ~ok
  BY <1>3, <1>4, StepInv
<1>5. CASE ok
  <2>1. bids[t0.b] \in BidRow
    BY <1>2, <1>5 DEF Acceptable, TxInv, TxTypeOK, TypeOK
  <2>2. row \in Row
    BY <1>2 DEF Row
  <2>3. t \in Transaction
    <3>1. t0.locks \cup {row} \in SUBSET Row
      BY <1>1, <2>2 DEF Transaction
    <3>2. ASSUME NEW n \in Statement, NEW bid \in BidRow, NEW l \in SUBSET Row
          PROVE  [[t0 EXCEPT !.bid = bid, !.next = n] EXCEPT !.locks = l] \in Transaction
      BY <1>1 DEF Transaction
    <3> QED
      BY <2>1, <3>1, <3>2 DEF Statement
  <2>4. /\ t.op = t0.op /\ t.user = t0.user /\ t.r = t0.r /\ t.b = t0.b
        /\ t.written = t0.written /\ t.locks = t0.locks \cup {row}
        /\ t.requirement = t0.requirement /\ t.bid = bids[t0.b] /\ t.next = "saveBid"
    BY <1>1 DEF Transaction
  <2> HIDE DEF t
  <2>5. TxState(t)
    BY <1>1, <1>2, <1>5, <2>4 DEF TxState, AcceptBidState
  <2>6. \A q \in Session : q # s /\ tx[q] # None => tx[q].locks \cap t.locks = {}
    BY <1>1, <1>3, <2>4 DEF Free
  <2> QED
    BY <1>1, <1>3, <1>5, <2>3, <2>5, <2>6, StepInv
<1> QED
  BY <1>4, <1>5

LEMMA LockContractInv ==
    ASSUME TxInv, NEW s \in Session, LockContract(s)
    PROVE  TxInv'
<1> DEFINE t0 == tx[s]
           row == <<"contracts", t0.b>>
           ok == IF t0.op = "Sign" THEN MaySign(t0.user, t0.b) ELSE MayComplete(t0.user, t0.b)
           t == [[t0 EXCEPT !.contract = contracts[t0.b], !.next = "saveContract"]
                    EXCEPT !.locks = t0.locks \cup {row}]
<1>1. /\ t0 \in Transaction /\ t0.next = "lockContract"
      /\ session[s] = None /\ TxState(t0)
      /\ \A q \in Session : q # s /\ tx[q] # None => tx[q].locks \cap t0.locks = {}
  BY AtFacts DEF LockContract
<1>2. ContractState(t0) /\ t0.b \in BidId
  BY <1>1 DEF TxState, CreateBidState, AcceptBidState, ContractState
<1>3. Free(s, row) /\ Step(s, IF ok THEN t ELSE None)
  BY DEF LockContract, LockRow
<1>4. CASE ~ok
  BY <1>3, <1>4, StepInv
<1>5. CASE ok
  <2>1. contracts[t0.b] \in ContractRow
    BY <1>2, <1>5 DEF MaySign, MayComplete, TxInv, TxTypeOK, TypeOK
  <2>2. row \in Row
    BY <1>2 DEF Row
  <2>3. t \in Transaction
    <3>1. t0.locks \cup {row} \in SUBSET Row
      BY <1>1, <2>2 DEF Transaction
    <3>2. ASSUME NEW n \in Statement, NEW c \in ContractRow, NEW l \in SUBSET Row
          PROVE  [[t0 EXCEPT !.contract = c, !.next = n] EXCEPT !.locks = l] \in Transaction
      BY <1>1 DEF Transaction
    <3> QED
      BY <2>1, <3>1, <3>2 DEF Statement
  <2>4. /\ t.op = t0.op /\ t.user = t0.user /\ t.b = t0.b
        /\ t.written = t0.written /\ t.locks = t0.locks \cup {row}
        /\ t.contract = contracts[t0.b] /\ t.next = "saveContract"
    BY <1>1 DEF Transaction
  <2> HIDE DEF t
  <2>5. TxState(t)
    BY <1>1, <1>2, <1>5, <2>4 DEF TxState, ContractState
  <2>6. \A q \in Session : q # s /\ tx[q] # None => tx[q].locks \cap t.locks = {}
    BY <1>1, <1>3, <2>4 DEF Free
  <2> QED
    BY <1>1, <1>3, <1>5, <2>3, <2>5, <2>6, StepInv
<1> QED
  BY <1>4, <1>5

LEMMA InsertBidInv ==
    ASSUME TxInv, NEW s \in Session, NEW b \in BidId, InsertBid(s, b)
    PROVE  TxInv'
<1> DEFINE t0 == tx[s]
           row == <<"bids", b>>
           new == [requirement |-> t0.r, bidder |-> t0.user, status |-> "pending"]
           t == [t0 EXCEPT !.b = b, !.bid = new, !.locks = t0.locks \cup {row},
                           !.written = t0.written \cup {"bids"}, !.next = "notify"]
<1>1. /\ t0 \in Transaction /\ t0.next = "insertBid"
      /\ session[s] = None /\ TxState(t0)
      /\ \A q \in Session : q # s /\ tx[q] # None => tx[q].locks \cap t0.locks = {}
  BY AtFacts DEF InsertBid
<1>2. CreateBidState(t0) /\ t0.r \in RequirementId
  BY <1>1 DEF TxState, CreateBidState, AcceptBidState, ContractState
<1>3. Free(s, row) /\ Step(s, t) /\ bids[b] = None
  BY DEF InsertBid
<1>4. new \in BidRow /\ row \in Row
  BY <1>1, <1>2 DEF BidRow, BidStatus, Row, Transaction
<1>5. t \in Transaction
  <2>1. t0.locks \cup {row} \in SUBSET Row /\ t0.written \cup {"bids"} \in SUBSET Table
    BY <1>1, <1>4 DEF Transaction, Table
  <2>2. ASSUME NEW n \in Statement, NEW bid \in BidRow, NEW l \in SUBSET Row,
               NEW w \in SUBSET Table
        PROVE  [t0 EXCEPT !.b = b, !.bid = bid, !.locks = l, !.written = w, !.next = n]
                  \in Transaction
    BY <1>1 DEF Transaction
  <2> QED
    BY <1>4, <2>1, <2>2 DEF Statement
<1>6. /\ t.op = t0.op /\ t.user = t0.user /\ t.r = t0.r /\ t.b = b
      /\ t.written = t0.written \cup {"bids"} /\ t.locks = t0.locks \cup {row}
      /\ t.requirement = t0.requirement /\ t.bid = new /\ t.next = "notify"
  BY <1>1 DEF Transaction
<1> HIDE DEF t
<1>7. TxState(t)
  BY <1>1, <1>2, <1>3, <1>6 DEF TxState, CreateBidState
<1>8. \A q \in Session : q # s /\ tx[q] # None => tx[q].locks \cap t.locks = {}
  BY <1>1, <1>3, <1>6 DEF Free
<1> QED
  BY <1>1, <1>3, <1>5, <1>7, <1>8, StepInv

LEMMA SaveAcceptedBidInv ==
    ASSUME TxInv, NEW s \in Session, SaveAcceptedBid(s)
    PROVE  TxInv'
<1> DEFINE t0 == tx[s]
           new == [t0.bid EXCEPT !.status = "accepted"]
           t == [t0 EXCEPT !.bid = new, !.written = t0.written \cup {"bids"},
                           !.next = "saveRequirement"]
<1>1. /\ t0 \in Transaction /\ t0.next = "saveBid"
      /\ session[s] = None /\ TxState(t0)
      /\ \A q \in Session : q # s /\ tx[q] # None => tx[q].locks \cap t0.locks = {}
  BY AtFacts DEF SaveAcceptedBid
<1>2. AcceptBidState(t0) /\ t0.bid = bids[t0.b]
  BY <1>1 DEF TxState, CreateBidState, AcceptBidState, ContractState
<1>3. Step(s, t)
  BY DEF SaveAcceptedBid
<1>4. new \in BidRow
  BY <1>1, <1>2 DEF AcceptBidState, Acceptable, TxInv, TxTypeOK, TypeOK, BidRow, BidStatus
<1>5. t \in Transaction
  <2>1. t0.written \cup {"bids"} \in SUBSET Table
    BY <1>1 DEF Transaction, Table
  <2>2. ASSUME NEW n \in Statement, NEW bid \in BidRow, NEW w \in SUBSET Table
        PROVE  [t0 EXCEPT !.bid = bid, !.written = w, !.next = n] \in Transaction
    BY <1>1 DEF Transaction
  <2> QED
    BY <1>4, <2>1, <2>2 DEF Statement
<1>6. /\ t.op = t0.op /\ t.user = t0.user /\ t.r = t0.r /\ t.b = t0.b
      /\ t.written = t0.written \cup {"bids"} /\ t.locks = t0.locks
      /\ t.requirement = t0.requirement /\ t.bid = new /\ t.next = "saveRequirement"
  BY <1>1 DEF Transaction
<1> HIDE DEF t
<1>7. TxState(t)
  BY <1>1, <1>2, <1>6 DEF TxState, AcceptBidState
<1> QED
  BY <1>1, <1>3, <1>5, <1>6, <1>7, StepInv

LEMMA SaveWonRequirementInv ==
    ASSUME TxInv, NEW s \in Session, SaveWonRequirement(s)
    PROVE  TxInv'
<1> DEFINE t0 == tx[s]
           new == [t0.requirement EXCEPT !.winner = t0.bid.bidder, !.status = "in_progress"]
           t == [t0 EXCEPT !.requirement = new, !.written = t0.written \cup {"requirements"},
                           !.next = "insertContract"]
<1>1. /\ t0 \in Transaction /\ t0.next = "saveRequirement"
      /\ session[s] = None /\ TxState(t0)
      /\ \A q \in Session : q # s /\ tx[q] # None => tx[q].locks \cap t0.locks = {}
  BY AtFacts DEF SaveWonRequirement
<1>2. /\ AcceptBidState(t0) /\ t0.requirement = requirements[t0.r]
      /\ t0.bid = [bids[t0.b] EXCEPT !.status = "accepted"]
      /\ bids[t0.b] \in BidRow /\ requirements[t0.r] \in RequirementRow
  BY <1>1 DEF TxState, CreateBidState, AcceptBidState, ContractState, MayAccept, Acceptable,
              TxInv, TxTypeOK, TypeOK
<1>3. Step(s, t)
  BY DEF SaveWonRequirement
<1>4. t0.bid.bidder = bids[t0.b].bidder /\ t0.bid.bidder \in User
  BY <1>2 DEF BidRow
<1>5. new \in RequirementRow
  BY <1>2, <1>4 DEF RequirementRow, RequirementStatus
<1>6. t \in Transaction
  <2>1. t0.written \cup {"requirements"} \in SUBSET Table
    BY <1>1 DEF Transaction, Table
  <2>2. ASSUME NEW n \in Statement, NEW req \in RequirementRow, NEW w \in SUBSET Table
        PROVE  [t0 EXCEPT !.requirement = req, !.written = w, !.next = n] \in Transaction
    BY <1>1 DEF Transaction
  <2> QED
    BY <1>5, <2>1, <2>2 DEF Statement
<1>7. /\ t.op = t0.op /\ t.user = t0.user /\ t.r = t0.r /\ t.b = t0.b
      /\ t.written = t0.written \cup {"requirements"} /\ t.locks = t0.locks
      /\ t.bid = t0.bid /\ t.next = "insertContract"
      /\ t.requirement = [requirements[t0.r] EXCEPT !.winner = bids[t0.b].bidder,
                                                    !.status = "in_progress"]
  BY <1>1, <1>2, <1>4 DEF Transaction
<1> HIDE DEF t
<1>8. TxState(t)
  BY <1>1, <1>2, <1>7 DEF TxState, AcceptBidState
<1> QED
  BY <1>1, <1>3, <1>6, <1>7, <1>8, StepInv

LEMMA InsertContractInv ==
    ASSUME TxInv, NEW s \in Session, InsertContract(s)
    PROVE  TxInv'
<1> DEFINE t0 == tx[s]
           row == <<"contracts", t0.b>>
           new == [partyA |-> t0.user, partyB |-> t0.bid.bidder,
                   requirement |-> t0.r, status |-> "pending_signature",
                   stages |-> <<"done", "in_progress", "pending">>]
           t == [t0 EXCEPT !.contract = new, !.locks = t0.locks \cup {row},
                           !.written = t0.written \cup {"contracts"}, !.next = "notify"]
<1>1. /\ t0 \in Transaction /\ t0.next = "insertContract"
      /\ session[s] = None /\ TxState(t0)
      /\ \A q \in Session : q # s /\ tx[q] # None => tx[q].locks \cap t0.locks = {}
  BY AtFacts DEF InsertContract
<1>2. /\ AcceptBidState(t0) /\ t0.r \in RequirementId /\ t0.b \in BidId
      /\ t0.bid = [bids[t0.b] EXCEPT !.status = "accepted"]
      /\ bids[t0.b] \in BidRow /\ bids[t0.b].requirement = t0.r
  BY <1>1 DEF TxState, CreateBidState, AcceptBidState, ContractState, Acceptable,
              TxInv, TxTypeOK, TypeOK
<1>3. Free(s, row) /\ Step(s, t) /\ contracts[t0.b] = None
  BY DEF InsertContract
<1>4. t0.bid.bidder = bids[t0.b].bidder /\ t0.bid.bidder \in User /\ t0.user \in User
  BY <1>1, <1>2 DEF BidRow, Transaction
<1>5. new = ContractFromBid(t0.b, t0.user)
  BY <1>2, <1>4 DEF ContractFromBid
<1>6. new \in ContractRow /\ row \in Row
  BY <1>2, <1>4 DEF ContractRow, ContractStatus, StageStatus, Row
<1> HIDE DEF new
<1>7. t \in Transaction
  <2>1. t0.locks \cup {row} \in SUBSET Row /\ t0.written \cup {"contracts"} \in SUBSET Table
    BY <1>1, <1>6 DEF Transaction, Table
  <2>2. ASSUME NEW n \in Statement, NEW c \in ContractRow, NEW l \in SUBSET Row,
               NEW w \in SUBSET Table
        PROVE  [t0 EXCEPT !.contract = c, !.locks = l, !.written = w, !.next = n]
                  \in Transaction
    BY <1>1 DEF Transaction
  <2> QED
    BY <1>6, <2>1, <2>2 DEF Statement
<1>8. /\ t.op = t0.op /\ t.user = t0.user /\ t.r = t0.r /\ t.b = t0.b
      /\ t.written = t0.written \cup {"contracts"} /\ t.locks = t0.locks \cup {row}
      /\ t.requirement = t0.requirement /\ t.bid = t0.bid /\ t.contract = new
      /\ t.next = "notify"
  BY <1>1 DEF Transaction
<1> HIDE DEF t
<1>9. TxState(t)
  BY <1>1, <1>2, <1>3, <1>5, <1>8 DEF TxState, AcceptBidState
<1>10. \A q \in Session : q # s /\ tx[q] # None => tx[q].locks \cap t.locks = {}
  BY <1>1, <1>3, <1>8 DEF Free
<1> QED
  BY <1>1, <1>3, <1>7, <1>9, <1>10, StepInv

LEMMA SaveContractInv ==
    ASSUME TxInv, NEW s \in Session, SaveContract(s)
    PROVE  TxInv'
<1> DEFINE t0 == tx[s]
           new == IF t0.op = "Sign" THEN [t0.contract EXCEPT !.status = "in_progress"]
                  ELSE [t0.contract EXCEPT !.status = "completed",
                                           !.stages = [i \in 1..3 |-> "done"]]
           t == [t0 EXCEPT !.contract = new, !.written = t0.written \cup {"contracts"},
                           !.next = "notify"]
<1>1. /\ t0 \in Transaction /\ t0.next = "saveContract"
      /\ session[s] = None /\ TxState(t0)
      /\ \A q \in Session : q # s /\ tx[q] # None => tx[q].locks \cap t0.locks = {}
  BY AtFacts DEF SaveContract
<1>2. /\ ContractState(t0) /\ t0.contract = contracts[t0.b]
      /\ t0.contract \in ContractRow
  BY <1>1 DEF TxState, CreateBidState, AcceptBidState, ContractState, MaySign, MayComplete,
              TxInv, TxTypeOK, TypeOK
<1>3. Step(s, t)
  BY DEF SaveContract
<1>4. new = NewContract(t0)
  BY <1>2 DEF NewContract
<1>5. new \in ContractRow
  <2>1. [i \in 1..3 |-> "done"] \in [1..3 -> StageStatus]
    BY DEF StageStatus
  <2>2. ASSUME NEW status \in ContractStatus, NEW stages \in [1..3 -> StageStatus]
        PROVE  /\ [t0.contract EXCEPT !.status = status] \in ContractRow
               /\ [t0.contract EXCEPT !.status = status, !.stages = stages] \in ContractRow
    BY <1>2 DEF ContractRow
  <2> HIDE DEF t0
  <2> QED
    BY <2>1, <2>2 DEF ContractStatus
<1> HIDE DEF new
<1>6. t \in Transaction
  <2>1. t0.written \cup {"contracts"} \in SUBSET Table
    BY <1>1 DEF Transaction, Table
  <2>2. ASSUME NEW n \in Statement, NEW c \in ContractRow, NEW w \in SUBSET Table
        PROVE  [t0 EXCEPT !.contract = c, !.written = w, !.next = n] \in Transaction
    BY <1>1 DEF Transaction
  <2> QED
    BY <1>5, <2>1, <2>2 DEF Statement
<1>7. /\ t.op = t0.op /\ t.user = t0.user /\ t.r = t0.r /\ t.b = t0.b
      /\ t.written = t0.written \cup {"contracts"} /\ t.locks = t0.locks
      /\ t.contract = new /\ t.next = "notify"
  BY <1>1 DEF Transaction
<1>8. NewContract(t) = NewContract(t0)
  BY <1>7 DEF NewContract
<1> HIDE DEF t
<1>9. TxState(t)
  BY <1>1, <1>2, <1>4, <1>7, <1>8 DEF TxState, ContractState
<1> QED
  BY <1>1, <1>3, <1>6, <1>7, <1>9, StepInv

LEMMA NotifyTxInv ==
    ASSUME TxInv, NEW s \in Session, NotifyTx(s)
    PROVE  TxInv'
<1> DEFINE t0 == tx[s]
           t == [t0 EXCEPT !.recipient = RecipientOf(t0), !.next = "commit",
                           !.written = t0.written \cup {"notifications"}]
<1>1. /\ t0 \in Transaction /\ t0.next = "notify"
      /\ session[s] = None /\ TxState(t0)
      /\ \A q \in Session : q # s /\ tx[q] # None => tx[q].locks \cap t0.locks = {}
  BY AtFacts DEF NotifyTx
<1>2. TypeOK
  BY DEF TxInv, TxTypeOK
<1>3. Step(s, t)
  BY DEF NotifyTx
<1>4. /\ RecipientOf(t0) \in User
      /\ t0.op = "CreateBid" => RecipientOf(t0) = requirements[t0.r].publisher
      /\ t0.op = "AcceptBid" => RecipientOf(t0) = bids[t0.b].bidder
      /\ t0.op = "Sign" => RecipientOf(t0) = OtherParty(contracts[t0.b], t0.user)
      /\ t0.op = "Complete" => RecipientOf(t0) = contracts[t0.b].partyB
  <2>1. CASE CreateBidState(t0)
    <3>1. requirements[t0.r] \in RequirementRow /\ t0.requirement = requirements[t0.r]
      BY <1>1, <1>2, <2>1 DEF CreateBidState, MayBid, TypeOK
    <3> QED
      BY <2>1, <3>1 DEF RecipientOf, CreateBidState, RequirementRow
  <2>2. CASE AcceptBidState(t0)
    <3>1. /\ bids[t0.b] \in BidRow /\ t0.bid = [bids[t0.b] EXCEPT !.status = "accepted"]
          /\ t0.op = "AcceptBid"
      BY <1>1, <1>2, <2>2 DEF AcceptBidState, Acceptable, TypeOK
    <3> QED
      BY <3>1 DEF RecipientOf, BidRow
  <2>3. CASE ContractState(t0)
    <3>1. /\ contracts[t0.b] \in ContractRow /\ t0.contract = NewContract(t0)
          /\ t0.op \in {"Sign", "Complete"}
      BY <1>1, <1>2, <2>3 DEF ContractState, MaySign, MayComplete, TypeOK
    <3>2. /\ NewContract(t0).partyA = contracts[t0.b].partyA
          /\ NewContract(t0).partyB = contracts[t0.b].partyB
          /\ contracts[t0.b].partyA \in User /\ contracts[t0.b].partyB \in User
      BY <3>1 DEF NewContract, ContractRow
    <3> QED
      BY <3>1, <3>2 DEF RecipientOf, OtherParty
  <2> QED
    BY <1>1, <2>1, <2>2, <2>3 DEF TxState
<1>5. t \in Transaction
  <2>1. t0.written \cup {"notifications"} \in SUBSET Table
    BY <1>1 DEF Transaction, Table
  <2>2. ASSUME NEW n \in Statement, NEW u \in User, NEW w \in SUBSET Table
        PROVE  [t0 EXCEPT !.recipient = u, !.next = n, !.written = w] \in Transaction
    BY <1>1 DEF Transaction
  <2> QED
    BY <1>4, <2>1, <2>2 DEF Statement
<1>6. /\ t.op = t0.op /\ t.user = t0.user /\ t.r = t0.r /\ t.b = t0.b
      /\ t.written = t0.written \cup {"notifications"} /\ t.locks = t0.locks
      /\ t.requirement = t0.requirement /\ t.bid = t0.bid /\ t.contract = t0.contract
      /\ t.next = "commit" /\ t.recipient = RecipientOf(t0)
  BY <1>1 DEF Transaction
<1>7. NewContract(t) = NewContract(t0)
  BY <1>6 DEF NewContract
<1> HIDE DEF t
<1>8. TxState(t)
  <2>1. CASE CreateBidState(t0)
    BY <1>1, <1>4, <1>6, <2>1 DEF TxState, CreateBidState
  <2>2. CASE AcceptBidState(t0)
    BY <1>1, <1>4, <1>6, <2>2 DEF TxState, AcceptBidState, Table
  <2>3. CASE ContractState(t0)
    BY <1>1, <1>4, <1>6, <1>7, <2>3 DEF TxState, ContractState
  <2> QED
    BY <1>1, <2>1, <2>2, <2>3 DEF TxState
<1> QED
  BY <1>1, <1>3, <1>5, <1>6, <1>8, StepInv

\* A failing statement leaves no transaction.
LEMMA FailInv ==
    ASSUME TxInv, NEW s \in Session, Fail(s)
    PROVE  TxInv'
  BY StepInv DEF Fail

-----------------------------------------------------------------------------
(* COMMIT is one operation of Marketplace                                   *)

LEMMA CommitIsOperation ==
    ASSUME TxInv, NEW s \in Session, Commit(s)
    PROVE  \/ \E u \in User, r \in RequirementId, b \in BidId :
                 CreateBid(s, u, r, b) \/ AcceptBid(s, u, r, b)
           \/ \E u \in User, b \in BidId : Sign(s, u, b) \/ Complete(s, u, b)
<1> DEFINE t == tx[s]
<1>1. /\ t \in Transaction /\ t.next = "commit"
      /\ session[s] = None /\ TxState(t)
  BY AtFacts DEF Commit
<1>2. TypeOK /\ t.user \in User
  BY <1>1 DEF TxInv, TxTypeOK, Transaction
<1>3. /\ requirements' = IF "requirements" \in t.written
                         THEN [requirements EXCEPT ![t.r] = t.requirement] ELSE requirements
      /\ bids' = IF "bids" \in t.written THEN [bids EXCEPT ![t.b] = t.bid] ELSE bids
      /\ contracts' = IF "contracts" \in t.written
                      THEN [contracts EXCEPT ![t.b] = t.contract] ELSE contracts
      /\ notifications' = IF "notifications" \in t.written
                          THEN Notify(BizType[t.op], t.b, t.recipient) ELSE notifications
      /\ session' = session
  BY DEF Commit
<1> HIDE DEF t
<1>4. CASE CreateBidState(t)
  <2>1. /\ t.r \in RequirementId /\ t.b \in BidId /\ t.op = "CreateBid"
        /\ Role[t.user] # "requester" /\ MayBid(t.user, t.r) /\ bids[t.b] = None
        /\ t.bid = [requirement |-> t.r, bidder |-> t.user, status |-> "pending"]
        /\ t.written = {"bids", "notifications"}
        /\ t.recipient = requirements[t.r].publisher
    BY <1>1, <1>4 DEF CreateBidState
  <2>2. /\ UNCHANGED <<requirements, contracts, session>>
        /\ bids' = [bids EXCEPT ![t.b] = t.bid]
        /\ notifications' = Notify("bid_submitted", t.b, t.recipient)
    BY <1>3, <2>1 DEF BizType
  <2>3. CreateBid(s, t.user, t.r, t.b)
    BY <1>1, <2>1, <2>2 DEF CreateBid, Idle
  <2> QED
    BY <1>2, <2>1, <2>3
<1>5. CASE AcceptBidState(t)
  <2>1. /\ t.r \in RequirementId /\ t.b \in BidId /\ t.op = "AcceptBid"
        /\ MayAccept(t.user, t.r) /\ Acceptable(t.r, t.b) /\ contracts[t.b] = None
        /\ t.requirement = [requirements[t.r] EXCEPT !.winner = bids[t.b].bidder,
                                                     !.status = "in_progress"]
        /\ t.bid = [bids[t.b] EXCEPT !.status = "accepted"]
        /\ t.contract = ContractFromBid(t.b, t.user)
        /\ t.written = Table /\ t.recipient = bids[t.b].bidder
    BY <1>1, <1>5 DEF AcceptBidState
  <2>2. /\ session' = session
        /\ requirements' = [requirements EXCEPT ![t.r] = t.requirement]
        /\ bids' = [bids EXCEPT ![t.b] = t.bid]
        /\ contracts' = [contracts EXCEPT ![t.b] = t.contract]
        /\ notifications' = Notify("bid_accepted", t.b, t.recipient)
    BY <1>3, <2>1 DEF BizType, Table
  <2>3. requirements' = [requirements EXCEPT ![t.r].winner = bids[t.b].bidder,
                                             ![t.r].status = "in_progress"]
    BY <1>2, <2>1, <2>2 DEF TypeOK
  <2>4. AcceptBid(s, t.user, t.r, t.b)
    BY <1>1, <2>1, <2>2, <2>3 DEF AcceptBid, Idle
  <2> QED
    BY <1>2, <2>1, <2>4
<1>6. CASE ContractState(t)
  <2>1. /\ t.b \in BidId /\ t.op \in {"Sign", "Complete"}
        /\ t.op = "Sign" => /\ MaySign(t.user, t.b)
                            /\ t.recipient = OtherParty(contracts[t.b], t.user)
        /\ t.op = "Complete" => /\ MayComplete(t.user, t.b)
                                /\ t.recipient = contracts[t.b].partyB
        /\ t.contract = NewContract(t)
        /\ t.written = {"contracts", "notifications"}
    BY <1>1, <1>6 DEF ContractState
  <2>2. /\ UNCHANGED <<requirements, bids, session>>
        /\ contracts' = [contracts EXCEPT ![t.b] = NewContract(t)]
        /\ notifications' = Notify(BizType[t.op], t.b, t.recipient)
    BY <1>3, <2>1
  <2>3. CASE t.op = "Sign"
    <3>1. contracts' = [contracts EXCEPT ![t.b].status = "in_progress"]
      BY <2>2, <2>3 DEF NewContract
    <3>2. notifications' = Notify("contract_signed", t.b, OtherParty(contracts[t.b], t.user))
      BY <2>1, <2>2, <2>3 DEF BizType
    <3>3. Sign(s, t.user, t.b)
      BY <1>1, <2>1, <2>2, <2>3, <3>1, <3>2 DEF Sign, Idle
    <3> QED
      BY <1>2, <2>1, <3>3
  <2>4. CASE t.op = "Complete"
    <3>1. contracts' = [contracts EXCEPT ![t.b].status = "completed",
                                         ![t.b].stages = [i \in 1..3 |-> "done"]]
      BY <1>2, <2>1, <2>2, <2>4 DEF NewContract, TypeOK
    <3>2. notifications' = Notify("contract_completed", t.b, contracts[t.b].partyB)
      BY <2>1, <2>2, <2>4 DEF BizType
    <3>3. Complete(s, t.user, t.b)
      BY <1>1, <2>1, <2>2, <2>4, <3>1, <3>2 DEF Complete, Idle
    <3> QED
      BY <1>2, <2>1, <3>3
  <2> QED
    BY <2>1, <2>3, <2>4
<1> QED
  BY <1>1, <1>4, <1>5, <1>6 DEF TxState

\* Every step is a step of Marketplace or leaves its variables alone.
LEMMA StepRefines ==
    ASSUME TxInv, [TxNext]_txVars
    PROVE  [Next]_vars
<1>1. CASE UNCHANGED txVars
  BY <1>1 DEF txVars, vars
<1>2. CASE TxCrash
  BY <1>2 DEF TxCrash, Next
<1>3. ASSUME NEW s \in Session, StartTransaction(s) PROVE UNCHANGED vars
  BY <1>3 DEF StartTransaction, Begin, Step
<1>4. ASSUME NEW s \in Session, RunTransaction(s) PROVE [Next]_vars
  <2>1. CASE Commit(s)
    BY <2>1, CommitIsOperation DEF Next, Handle
  <2>2. CASE LockRequirement(s) \/ LockBid(s) \/ LockContract(s)
    BY <2>2 DEF LockRequirement, LockBid, LockContract, LockRow, Step
  <2>3. CASE KeysExhausted(s) \/ \E b \in BidId : InsertBid(s, b)
    BY <2>3 DEF InsertBid, KeysExhausted, Fail, Step
  <2>4. CASE \/ SaveAcceptedBid(s) \/ SaveWonRequirement(s)
             \/ InsertContract(s) \/ SaveContract(s) \/ NotifyTx(s)
    BY <2>4 DEF SaveAcceptedBid, SaveWonRequirement, InsertContract, SaveContract,
                NotifyTx, Step
  <2> QED
    BY <1>4, <2>1, <2>2, <2>3, <2>4 DEF RunTransaction
<1>5. ASSUME NEW s \in Session, Fail(s) PROVE UNCHANGED vars
  BY <1>5 DEF Fail, Step
<1>6. ASSUME NEW s \in Session, StartUnlocked(s) \/ Save(s) \/ TxAbort(s) PROVE Next
  <2>1. Handle(s)
    BY <1>6 DEF StartUnlocked, Save, TxAbort, Handle
  <2> QED
    BY <2>1 DEF Next
<1> QED
  BY <1>1, <1>2, <1>3, <1>4, <1>5, <1>6 DEF TxNext

-----------------------------------------------------------------------------
(* Steps that write a table                                                 *)

\* The rows that transaction t has locked keep their values.
Undisturbed(t) ==
    /\ \A r \in RequirementId :
          <<"requirements", r>> \in t.locks /\ requirements[r] # None =>
              requirements'[r] = requirements[r]
    /\ \A b \in BidId :
          /\ <<"bids", b>> \in t.locks => bids'[b] = bids[b]
          /\ <<"contracts", b>> \in t.locks => contracts'[b] = contracts[b]

\* What a transaction knows rests on the rows it has locked.
LEMMA Framed ==
    ASSUME NEW t, TxState(t), Undisturbed(t)
    PROVE  TxState(t)'
<1>1. CASE CreateBidState(t)
  BY <1>1 DEF TxState, Undisturbed, CreateBidState, MayBid
<1>2. CASE AcceptBidState(t)
  BY <1>2 DEF TxState, Undisturbed, AcceptBidState, MayAccept, Acceptable, ContractFromBid
<1>3. CASE ContractState(t)
  BY <1>3 DEF TxState, Undisturbed, ContractState, MaySign, MayComplete, NewContract
<1> QED
  BY <1>1, <1>2, <1>3 DEF TxState

\* A step that ends some transactions and disturbs none of the others.
LEMMA OthersInv ==
    ASSUME TxInv, TypeOK', tx' \in [Session -> Transaction \cup {None}],
           \A q \in Session : tx'[q] # None =>
               tx'[q] = tx[q] /\ session'[q] = None /\ Undisturbed(tx[q])
    PROVE  TxInv'
<1>1. TxTypeOK'
  BY DEF TxTypeOK
<1>2. LocksAreExclusive'
  BY DEF TxInv, LocksAreExclusive
<1>3. ASSUME NEW x, TxState(x), Undisturbed(x) PROVE TxState(x)'
  BY <1>3, Framed
<1>4. \A q \in Session : tx'[q] # None => TxState(tx'[q]) /\ Undisturbed(tx'[q])
  BY DEF TxInv, ChecksStayTrue, TxState
<1>5. ChecksStayTrue'
  BY <1>3, <1>4 DEF ChecksStayTrue, TxState
<1> QED
  BY <1>1, <1>2, <1>5 DEF TxInv

LEMMA CommitInv ==
    ASSUME TxInv, NEW s \in Session, Commit(s)
    PROVE  TxInv'
<1> DEFINE t == tx[s]
<1>1. /\ t \in Transaction /\ t.next = "commit" /\ TxState(t)
      /\ \A q \in Session : q # s /\ tx[q] # None => tx[q].locks \cap t.locks = {}
  BY AtFacts DEF Commit
<1>2. TypeOK'
  <2>1. [Next]_vars
    BY CommitIsOperation DEF Next, Handle
  <2> QED
    BY <2>1, TypeStep DEF TxInv, TxTypeOK
<1>3. tx' = [tx EXCEPT ![s] = None] /\ session' = session
  BY DEF Commit
<1>4. /\ "requirements" \in t.written => <<"requirements", t.r>> \in t.locks
      /\ "bids" \in t.written => <<"bids", t.b>> \in t.locks
      /\ "contracts" \in t.written => <<"contracts", t.b>> \in t.locks
  BY <1>1 DEF TxState, CreateBidState, AcceptBidState, ContractState
<1>5. /\ requirements' = IF "requirements" \in t.written
                         THEN [requirements EXCEPT ![t.r] = t.requirement] ELSE requirements
      /\ bids' = IF "bids" \in t.written THEN [bids EXCEPT ![t.b] = t.bid] ELSE bids
      /\ contracts' = IF "contracts" \in t.written
                      THEN [contracts EXCEPT ![t.b] = t.contract] ELSE contracts
  BY DEF Commit
<1> HIDE DEF t
<1>6. ASSUME NEW q \in Session, q # s, tx[q] # None PROVE Undisturbed(tx[q])
  <2>1. ASSUME NEW r \in RequirementId, <<"requirements", r>> \in tx[q].locks
        PROVE  requirements'[r] = requirements[r]
    BY <1>1, <1>4, <1>5, <1>6, <2>1 DEF TxInv, TxTypeOK, TypeOK
  <2>2. ASSUME NEW b \in BidId, <<"bids", b>> \in tx[q].locks PROVE bids'[b] = bids[b]
    BY <1>1, <1>4, <1>5, <1>6, <2>2 DEF TxInv, TxTypeOK, TypeOK
  <2>3. ASSUME NEW b \in BidId, <<"contracts", b>> \in tx[q].locks
        PROVE  contracts'[b] = contracts[b]
    BY <1>1, <1>4, <1>5, <1>6, <2>3 DEF TxInv, TxTypeOK, TypeOK
  <2> QED
    BY <2>1, <2>2, <2>3 DEF Undisturbed
<1> QED
  BY <1>2, <1>3, <1>6, OthersInv DEF TxInv, TxTypeOK

LEMMA StartUnlockedInv ==
    ASSUME TxInv, TypeOK', NEW s \in Session, StartUnlocked(s)
    PROVE  TxInv'
<1>1. /\ tx[s] = None /\ tx' = tx /\ \A q \in Session : q # s => session'[q] = session[q]
      /\ UNCHANGED <<bids, contracts>>
      /\ \A r \in RequirementId : requirements[r] # None => requirements'[r] = requirements[r]
  BY DEF StartUnlocked, CreateRequirement, Update, UpdateStatus, LoadRequirement, Withdraw,
         TxInv, TxTypeOK, TypeOK
<1>2. \A q \in Session : Undisturbed(tx[q])
  BY <1>1 DEF Undisturbed
<1> QED
  BY <1>1, <1>2, OthersInv DEF TxInv, TxTypeOK

\* A Save waits for the lock of its row, so it disturbs no transaction.
LEMMA SaveInv ==
    ASSUME TxInv, TypeOK', NEW s \in Session, Save(s)
    PROVE  TxInv'
<1>1. /\ tx[s] = None /\ tx' = tx /\ contracts' = contracts
      /\ \A q \in Session : q # s => session'[q] = session[q]
  BY NoneAssumption
     DEF Save, SaveRequirement, SaveBid, TxInv, TxTypeOK, TypeOK
<1>2. CASE SaveRequirement(s) /\ Free(s, <<"requirements", session[s].id>>)
  <2>1. bids' = bids /\ \A r \in RequirementId :
            r # session[s].id => requirements'[r] = requirements[r]
    BY <1>2 DEF SaveRequirement, TxInv, TxTypeOK, TypeOK
  <2>2. ASSUME NEW q \in Session, tx[q] # None PROVE Undisturbed(tx[q])
    BY <1>1, <1>2, <2>1, <2>2 DEF Free, Undisturbed
  <2> QED
    BY <1>1, <2>2, OthersInv DEF TxInv, TxTypeOK
<1>3. CASE SaveBid(s) /\ Free(s, <<"bids", session[s].id>>)
  <2>1. requirements' = requirements /\ \A b \in BidId :
            b # session[s].id => bids'[b] = bids[b]
    BY <1>3 DEF SaveBid, TxInv, TxTypeOK, TypeOK
  <2>2. ASSUME NEW q \in Session, tx[q] # None PROVE Undisturbed(tx[q])
    BY <1>1, <1>3, <2>1, <2>2 DEF Free, Undisturbed
  <2> QED
    BY <1>1, <2>2, OthersInv DEF TxInv, TxTypeOK
<1> QED
  BY <1>2, <1>3 DEF Save

\* A lost handler or a lost server leaves the tables as they are.
LEMMA LossInv ==
    ASSUME TxInv, TypeOK', TxCrash \/ \E s \in Session : TxAbort(s)
    PROVE  TxInv'
<1>1. /\ UNCHANGED <<requirements, bids, contracts>>
      /\ tx' \in [Session -> Transaction \cup {None}]
      /\ \A q \in Session : tx'[q] # None => tx'[q] = tx[q] /\ session'[q] = None
  BY DEF TxCrash, Crash, TxAbort, Abort, TxInv, TxTypeOK, TypeOK
<1>2. \A q \in Session : Undisturbed(tx[q])
  BY <1>1 DEF Undisturbed
<1> QED
  BY <1>1, <1>2, OthersInv

-----------------------------------------------------------------------------
(* Theorems                                                                 *)

LEMMA TxInvStep == TxInv /\ [TxNext]_txVars => TxInv'
<1> SUFFICES ASSUME TxInv, [TxNext]_txVars PROVE TxInv'
  OBVIOUS
<1>1. TypeOK'
  BY StepRefines, TypeStep DEF TxInv, TxTypeOK
<1>2. CASE UNCHANGED txVars
  <2>1. \A q \in Session : Undisturbed(tx[q])
    BY <1>2 DEF Undisturbed, txVars
  <2> QED
    BY <1>1, <1>2, <2>1, OthersInv DEF TxInv, TxTypeOK, txVars
<1>3. ASSUME NEW s \in Session, RunTransaction(s) PROVE TxInv'
  <2>1. CASE KeysExhausted(s)
    BY <2>1, FailInv DEF KeysExhausted
  <2> QED
    BY <1>3, <2>1, LockRequirementInv, LockBidInv, LockContractInv, InsertBidInv,
       SaveAcceptedBidInv, SaveWonRequirementInv, InsertContractInv, SaveContractInv,
       NotifyTxInv, CommitInv
       DEF RunTransaction
<1> QED
  BY <1>1, <1>2, <1>3, StartInv, FailInv, StartUnlockedInv, SaveInv, LossInv DEF TxNext

\* The inductive invariant of the statement level: the lock discipline and,
\* from it, that what each open transaction has checked is still so.
THEOREM TxInvariant == TxSpec => []TxInv
  BY TxInvInit, TxInvStep, PTL DEF TxSpec

\* What the open transactions hold is well typed, whatever failed before.
THEOREM TxTypeCorrect == TxSpec => []TxTypeOK
<1>1. TxInv => TxTypeOK
  BY DEF TxInv
<1> QED
  BY <1>1, TxInvariant, PTL

\* So no statement acts on a check that another handler has since made false.
THEOREM ChecksProtected == TxSpec => []ChecksStayTrue
<1>1. TxInv => ChecksStayTrue
  BY DEF TxInv
<1> QED
  BY <1>1, TxInvariant, PTL

\* The transactions of bid.Create, AcceptBid, Sign and Complete are atomic: run
\* statement by statement they implement the one-action handlers of Marketplace.
THEOREM TxImplements == TxSpec => ImplementsMarketplace
<1>1. TxInit => Init
  BY DEF TxInit
<1>2. TxInv /\ [TxNext]_txVars => [Next]_vars
  BY StepRefines
<1> QED
  BY <1>1, <1>2, TxInvariant, PTL DEF TxSpec, Spec, ImplementsMarketplace

LEMMA CommitTells ==
    ASSUME TxInv, Inv, NEW s \in Session, Commit(s), NEW b \in BidId, SignatureAppears(b)
    PROVE  /\ notifications[<<"contract_signed", b>>] = None
           /\ contracts[b].status = "pending_signature"
           /\ tx[s] # None /\ tx[s].op = "Sign" /\ tx[s].b = b /\ tx'[s] = None
           /\ tx[s].user # notifications'[<<"contract_signed", b>>]
           /\ {tx[s].user, notifications'[<<"contract_signed", b>>]} =
                 {contracts[b].partyA, contracts[b].partyB}
<1> DEFINE t == tx[s]
           e == <<"contract_signed", b>>
<1>1. /\ t \in Transaction /\ t.next = "commit" /\ TxState(t) /\ TypeOK
      /\ t # None /\ tx'[s] = None
  BY AtFacts DEF Commit, At, TxInv, TxTypeOK
<1>2. /\ contracts' = IF "contracts" \in t.written
                      THEN [contracts EXCEPT ![t.b] = t.contract] ELSE contracts
      /\ notifications' = IF "notifications" \in t.written
                          THEN Notify(BizType[t.op], t.b, t.recipient) ELSE notifications
  BY DEF Commit
<1>3. e \in Event
  BY DEF Event, NotificationType
<1> HIDE DEF t
<1>4. CASE CreateBidState(t)
  <2>1. contracts' = contracts /\ notifications' = Notify("bid_submitted", t.b, t.recipient)
    BY <1>1, <1>2, <1>4 DEF CreateBidState, BizType
  <2> QED
    BY <2>1, <1>1, <1>3 DEF SignatureAppears, Notify, TypeOK
<1>5. CASE AcceptBidState(t)
  <2>1. /\ contracts' = [contracts EXCEPT ![t.b] = t.contract] /\ contracts[t.b] = None
        /\ notifications' = Notify("bid_accepted", t.b, t.recipient)
    BY <1>1, <1>2, <1>5 DEF AcceptBidState, BizType, Table
  <2> QED
    BY <2>1, <1>1, <1>3 DEF SignatureAppears, Notify, TypeOK
<1>6. CASE ContractState(t)
  <2>1. /\ t.b \in BidId /\ t.op \in {"Sign", "Complete"}
        /\ t.op = "Sign" => /\ MaySign(t.user, t.b)
                            /\ t.recipient = OtherParty(contracts[t.b], t.user)
        /\ t.op = "Complete" => MayComplete(t.user, t.b)
        /\ contracts' = [contracts EXCEPT ![t.b] = NewContract(t)]
        /\ notifications' = Notify(BizType[t.op], t.b, t.recipient)
    BY <1>1, <1>2, <1>6 DEF ContractState
  <2>2. contracts[t.b] \in ContractRow
    BY <1>1, <2>1 DEF MaySign, MayComplete, TypeOK
  <2>3. t.op # "Complete"
    <3> SUFFICES ASSUME t.op = "Complete" PROVE FALSE
      OBVIOUS
    <3>1. notifications'[e] = notifications[e]
      BY <2>1, <1>1, <1>3 DEF Notify, TypeOK, BizType
    <3>2. NewContract(t).status = "completed"
      BY <2>2 DEF NewContract, ContractRow
    <3> QED
      BY <2>1, <3>1, <3>2, <1>1 DEF SignatureAppears, TypeOK
  <2>4. t.op = "Sign" /\ notifications' = Notify("contract_signed", t.b, t.recipient)
    BY <2>1, <2>3 DEF BizType
  <2>5. t.b = b
    <3> SUFFICES ASSUME t.b # b PROVE FALSE
      OBVIOUS
    <3>1. notifications'[e] = notifications[e]
      BY <2>4, <1>1, <1>3 DEF Notify, TypeOK
    <3> QED
      BY <2>1, <3>1, <1>1 DEF SignatureAppears, TypeOK
  <2>6. /\ contracts[b] # None /\ contracts[b].status = "pending_signature"
        /\ t.user \in {contracts[b].partyA, contracts[b].partyB}
    BY <2>1, <2>4, <2>5 DEF MaySign
  <2>7. notifications[e] = None
    BY <2>6 DEF Inv, NotificationsMatchState
  <2>8. notifications'[e] = OtherParty(contracts[b], t.user)
    BY <1>1, <1>3, <2>1, <2>4, <2>5, <2>7 DEF Notify, TypeOK
  <2>9. contracts[b].partyA # contracts[b].partyB
    BY <2>6 DEF Inv, ContractsMatchBids, BidsAreOnOthersRequirements
  <2> QED
    BY <1>1, <2>4, <2>5, <2>6, <2>7, <2>8, <2>9 DEF t, OtherParty
<1> QED
  BY <1>1, <1>4, <1>5, <1>6 DEF TxState

\* Contracts and notifications are written by COMMIT alone.
LEMMA OnlyCommitWrites ==
    ASSUME [TxNext]_txVars
    PROVE  UNCHANGED <<contracts, notifications>> \/ \E s \in Session : Commit(s)
<1>1. CASE UNCHANGED txVars \/ TxCrash
  BY <1>1 DEF txVars, TxCrash, Crash
<1>2. ASSUME NEW s \in Session, StartTransaction(s) \/ Fail(s)
      PROVE  UNCHANGED <<contracts, notifications>>
  BY <1>2 DEF StartTransaction, Begin, Fail, Step, vars
<1>3. ASSUME NEW s \in Session, RunTransaction(s)
      PROVE  Commit(s) \/ UNCHANGED <<contracts, notifications>>
  <2>1. CASE LockRequirement(s) \/ LockBid(s) \/ LockContract(s)
    BY <2>1 DEF LockRequirement, LockBid, LockContract, LockRow, Step, vars
  <2>2. CASE KeysExhausted(s) \/ \E b \in BidId : InsertBid(s, b)
    BY <2>2 DEF InsertBid, KeysExhausted, Fail, Step, vars
  <2>3. CASE \/ SaveAcceptedBid(s) \/ SaveWonRequirement(s)
             \/ InsertContract(s) \/ SaveContract(s) \/ NotifyTx(s)
    BY <2>3 DEF SaveAcceptedBid, SaveWonRequirement, InsertContract, SaveContract,
                NotifyTx, Step, vars
  <2> QED
    BY <1>3, <2>1, <2>2, <2>3 DEF RunTransaction
<1>4. ASSUME NEW s \in Session, StartUnlocked(s) PROVE UNCHANGED <<contracts, notifications>>
  <2>1. ASSUME NEW u \in User, NEW r \in RequirementId, NEW status \in SubmittedStatus,
               CreateRequirement(s, u, r, status)
        PROVE  UNCHANGED <<contracts, notifications>>
    BY <2>1, Zenon DEF CreateRequirement
  <2> QED
    BY <1>4, <2>1 DEF StartUnlocked, UpdateStatus, Update, LoadRequirement, Withdraw
<1>5. ASSUME NEW s \in Session, Save(s) \/ TxAbort(s)
      PROVE  UNCHANGED <<contracts, notifications>>
  BY <1>5 DEF Save, SaveRequirement, SaveBid, TxAbort, Abort
<1> QED
  BY <1>1, <1>2, <1>3, <1>4, <1>5 DEF TxNext

\* Whoever signs first, the other party is told, and nobody twice: for any
\* number of sessions in which both parties ask to sign (SignaturesTellTheOther).
THEOREM OtherPartyIsTold == TxSpec => SignaturesTellTheOther
<1> DEFINE Told(b) ==
       /\ notifications[<<"contract_signed", b>>] = None
       /\ contracts[b].status = "pending_signature"
       /\ \E s \in Session :
             /\ tx[s] # None /\ tx[s].op = "Sign" /\ tx[s].b = b
             /\ tx'[s] = None
             /\ tx[s].user # notifications'[<<"contract_signed", b>>]
             /\ {tx[s].user, notifications'[<<"contract_signed", b>>]} =
                   {contracts[b].partyA, contracts[b].partyB}
<1>1. TxInv /\ Inv /\ [TxNext]_txVars =>
          [\A b \in BidId : SignatureAppears(b) => Told(b)]_txVars
  <2> SUFFICES ASSUME TxInv, Inv, [TxNext]_txVars, NEW b \in BidId, SignatureAppears(b)
               PROVE  Told(b)
    OBVIOUS
  <2>1. CASE UNCHANGED <<contracts, notifications>>
    BY <2>1 DEF SignatureAppears
  <2>2. ASSUME NEW s \in Session, Commit(s) PROVE Told(b)
    BY <2>2, CommitTells
  <2> QED
    BY <2>1, <2>2, OnlyCommitWrites
<1>2. TxSpec => []Inv
  BY TxImplements, Invariant, PTL DEF ImplementsMarketplace
<1> QED
  BY <1>1, <1>2, TxInvariant, PTL DEF TxSpec, SignaturesTellTheOther

\* So the tables of the statement-level system agree with each other, and with
\* the notifications, in every state any failure or crash can leave.
COROLLARY TxTablesAgree ==
    TxSpec => [](ContractsMatchBids /\ WinnersHaveContracts /\ NotificationsMatchState)
  BY TxImplements, TablesAgree, NotificationsCorrect, PTL DEF ImplementsMarketplace

\* A second contract, or a contract without its accepted bid, can only follow
\* from an unlocked handler writing back a row it had read too early.
COROLLARY TxSafeWhileFresh == TxSpec => SafeUntilStale
  BY TxImplements, SafeWhileFresh, PTL DEF ImplementsMarketplace

\* A commit sends at most one notification, and never one for an event that has
\* been sent: a transaction that was rolled back leaves none (NotifyTx).
COROLLARY TxSendsOnce == TxSpec => [][SendsAtMostOne]_vars
  BY TxImplements, NotificationsAreSentOnce, PTL DEF ImplementsMarketplace

\* The transactions, run statement by statement under row locks, implement the
\* deals too (ImplementsDeals).
COROLLARY TxDealsImplemented == TxSpec => ImplementsDeals
  BY TxImplements, DealsImplemented, PTL DEF ImplementsMarketplace

=============================================================================
