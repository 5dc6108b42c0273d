-------------------------- MODULE MarketplaceProofs --------------------------
(***************************************************************************)
(* Proofs about Marketplace, for every set of users, requirements, bids    *)
(* and sessions and every seed the assumptions allow.                      *)
(***************************************************************************)
EXTENDS Marketplace, TLAPS

-----------------------------------------------------------------------------
(* Type correctness                                                         *)

LEMMA TypeInit == Init => TypeOK
  BY NoneAssumption, SeedAssumption DEF Init, TypeOK

LEMMA TypeStep == TypeOK /\ [Next]_vars => TypeOK'
<1> SUFFICES ASSUME TypeOK, [Next]_vars PROVE TypeOK'
  OBVIOUS
<1> USE DEF TypeOK
<1>1. CASE UNCHANGED vars
  BY <1>1 DEF vars
<1>2. CASE Crash
  BY <1>2 DEF Crash
<1>3. ASSUME NEW s \in Session, Handle(s) PROVE TypeOK'
  <2>1. ASSUME NEW u \in User, NEW r \in RequirementId, NEW status \in SubmittedStatus,
               CreateRequirement(s, u, r, status)
        PROVE  TypeOK'
    <3> DEFINE initial == IF status = "" THEN "open" ELSE status
    <3>1. [publisher |-> u, status |-> initial, winner |-> None] \in RequirementRow
      BY <2>1 DEF CreateRequirement, RequirementRow
    <3> QED
      BY <2>1, <3>1 DEF CreateRequirement
  <2>2. ASSUME NEW u \in User, NEW r \in RequirementId, NEW status \in RequirementStatus,
               LoadRequirement(s, u, r, status)
        PROVE  TypeOK'
    <3>1. requirements[r] \in RequirementRow
      BY <2>2 DEF LoadRequirement
    <3>2. [requirements[r] EXCEPT !.status = status] \in RequirementRow
      BY <3>1 DEF RequirementRow
    <3>3. [table |-> "requirements", id |-> r,
           row |-> [requirements[r] EXCEPT !.status = status]] \in RequirementWrite
      BY <3>2 DEF RequirementWrite
    <3> QED
      BY <2>2, <3>3 DEF LoadRequirement
  <2>3. ASSUME NEW u \in User, NEW r \in RequirementId, Update(s, u, r)
        PROVE  TypeOK'
    <3>1. requirements[r].status \in RequirementStatus
      BY <2>3 DEF Update, RequirementRow
    <3> QED
      BY <2>2, <2>3, <3>1 DEF Update
  <2>4. ASSUME NEW u \in User, NEW r \in RequirementId, NEW status \in SubmittedStatus,
               UpdateStatus(s, u, r, status)
        PROVE  TypeOK'
    BY <2>2, <2>4 DEF UpdateStatus
  <2>5. CASE SaveRequirement(s)
    BY <2>5 DEF SaveRequirement, RequirementWrite
  <2>6. ASSUME NEW u \in User, NEW r \in RequirementId, NEW b \in BidId,
               CreateBid(s, u, r, b)
        PROVE  TypeOK'
    <3>1. [requirement |-> r, bidder |-> u, status |-> "pending"] \in BidRow
      BY DEF BidRow, BidStatus
    <3>2. requirements[r].publisher \in User
      BY <2>6 DEF CreateBid, MayBid, RequirementRow
    <3>3. <<"bid_submitted", b>> \in Event
      BY DEF Event, NotificationType
    <3> QED
      BY <2>6, <3>1, <3>2, <3>3 DEF CreateBid, MayBid, Notify
  <2>7. ASSUME NEW u \in User, NEW r \in RequirementId, NEW b \in BidId,
               AcceptBid(s, u, r, b)
        PROVE  TypeOK'
    <3>1. requirements[r] \in RequirementRow /\ bids[b] \in BidRow
      BY <2>7 DEF AcceptBid, MayAccept, Acceptable
    <3>2. [bids[b] EXCEPT !.status = "accepted"] \in BidRow
      BY <3>1 DEF BidRow, BidStatus
    <3>3. [[requirements[r] EXCEPT !.winner = bids[b].bidder]
              EXCEPT !.status = "in_progress"] \in RequirementRow
      BY <3>1 DEF RequirementRow, RequirementStatus, BidRow
    <3>4. ContractFromBid(b, u) \in ContractRow
      BY <3>1 DEF ContractFromBid, ContractRow, ContractStatus, StageStatus, BidRow
    <3>5. <<"bid_accepted", b>> \in Event /\ bids[b].bidder \in User
      BY <3>1 DEF Event, NotificationType, BidRow
    <3> QED
      BY <2>7, <3>1, <3>2, <3>3, <3>4, <3>5 DEF AcceptBid, MayAccept, Acceptable, Notify
  <2>8. ASSUME NEW u \in User, NEW b \in BidId, Withdraw(s, u, b)
        PROVE  TypeOK'
    <3>1. bids[b] \in BidRow
      BY <2>8 DEF Withdraw, MayWithdraw
    <3>2. [bids[b] EXCEPT !.status = "withdrawn"] \in BidRow
      BY <3>1 DEF BidRow, BidStatus
    <3>3. [table |-> "bids", id |-> b,
           row |-> [bids[b] EXCEPT !.status = "withdrawn"]] \in BidWrite
      BY <3>2 DEF BidWrite
    <3> QED
      BY <2>8, <3>3 DEF Withdraw, MayWithdraw
  <2>9. CASE SaveBid(s)
    BY <2>9 DEF SaveBid, BidWrite
  <2>10. ASSUME NEW u \in User, NEW b \in BidId, Sign(s, u, b)
         PROVE  TypeOK'
    <3>1. contracts[b] \in ContractRow
      BY <2>10 DEF Sign, MaySign
    <3>2. [contracts[b] EXCEPT !.status = "in_progress"] \in ContractRow
      BY <3>1 DEF ContractRow, ContractStatus
    <3>3. OtherParty(contracts[b], u) \in User
      BY <3>1 DEF OtherParty, ContractRow
    <3>4. <<"contract_signed", b>> \in Event
      BY DEF Event, NotificationType
    <3> QED
      BY <2>10, <3>1, <3>2, <3>3, <3>4 DEF Sign, MaySign, Notify
  <2>11. ASSUME NEW u \in User, NEW b \in BidId, Complete(s, u, b)
         PROVE  TypeOK'
    <3>1. contracts[b] \in ContractRow
      BY <2>11 DEF Complete, MayComplete
    <3>2. [[contracts[b] EXCEPT !.status = "completed"]
              EXCEPT !.stages = [i \in 1..3 |-> "done"]] \in ContractRow
      BY <3>1 DEF ContractRow, ContractStatus, StageStatus
    <3>3. <<"contract_completed", b>> \in Event /\ contracts[b].partyB \in User
      BY <3>1 DEF Event, NotificationType, ContractRow
    <3> QED
      BY <2>11, <3>1, <3>2, <3>3 DEF Complete, MayComplete, Notify
  <2>12. CASE Abort(s)
    BY <2>12 DEF Abort
  <2> QED
    BY <1>3, <2>1, <2>3, <2>4, <2>5, <2>6, <2>7, <2>8, <2>9, <2>10, <2>11, <2>12
       DEF Handle
<1> QED
  BY <1>1, <1>2, <1>3 DEF Next

\* Every table holds well-typed rows in every reachable state.
THEOREM TypeCorrect == Spec => []TypeOK
  BY TypeInit, TypeStep, PTL DEF Spec

-----------------------------------------------------------------------------
(* The inductive invariant.  Beyond the four checked relations between the  *)
(* tables it needs two facts: what the sessions hold between a load and a   *)
(* Save (an old copy is written back over a newer row), and that the seed   *)
(* bids, the only ones nobody was notified of, are never removed.           *)

SeedBidsRemain == \A b \in BidId : SeedBid[b] # None => bids[b] # None

Inv ==
    /\ TypeOK
    /\ BidsAreOnOthersRequirements
    /\ ContractsMatchBids
    /\ WinnersHaveContracts
    /\ LoadedRowsAreConsistent
    /\ SeedBidsRemain
    /\ NotificationsMatchState

LEMMA InvInit == Init => Inv
<1> SUFFICES ASSUME Init PROVE Inv
  OBVIOUS
<1>1. TypeOK
  BY TypeInit
<1>2. BidsAreOnOthersRequirements /\ SeedBidsRemain
  BY SeedAssumption DEF Init, BidsAreOnOthersRequirements, SeedBidsRemain
<1>3. ContractsMatchBids
  <2>1. \A b \in BidId : contracts[b] = None
    BY DEF Init
  <2>2. \A b \in BidId : bids[b] # None => bids[b].status = "pending"
    BY SeedAssumption DEF Init
  <2> QED
    BY <2>1, <2>2 DEF ContractsMatchBids
<1>4. WinnersHaveContracts
  BY SeedAssumption DEF Init, WinnersHaveContracts
<1>5. LoadedRowsAreConsistent
  BY NoneAssumption DEF Init, LoadedRowsAreConsistent
<1>6. NotificationsMatchState
  <2>1. \A b \in BidId : contracts[b] = None /\ bids[b] = SeedBid[b]
    BY DEF Init
  <2>2. \A b \in BidId, t \in NotificationType : notifications[<<t, b>>] = None
    BY DEF Init, Event
  <2> QED
    BY <2>1, <2>2 DEF NotificationsMatchState, NotificationType
<1> QED
  BY <1>1, <1>2, <1>3, <1>4, <1>5, <1>6 DEF Inv

\* A step that leaves the sessions alone, and the immutable columns and the
\* contracts of existing rows too, leaves every loaded row consistent.
LEMMA TablesForward ==
    ASSUME LoadedRowsAreConsistent, TypeOK, UNCHANGED session,
           \A r \in RequirementId : requirements[r] # None =>
               /\ requirements'[r] # None
               /\ requirements'[r].publisher = requirements[r].publisher,
           \A b \in BidId : bids[b] # None =>
               /\ bids'[b] # None
               /\ [bids'[b] EXCEPT !.status = "withdrawn"] =
                     [bids[b] EXCEPT !.status = "withdrawn"],
           \A r \in RequirementId, u \in User : HasContract(r, u) => HasContract(r, u)'
    PROVE  LoadedRowsAreConsistent'
<1> SUFFICES ASSUME NEW s \in Session
             PROVE  /\ session[s] \in RequirementWrite =>
                          /\ requirements'[session[s].id] # None
                          /\ session[s].row.publisher =
                                requirements'[session[s].id].publisher
                          /\ session[s].row.winner # None =>
                                HasContract(session[s].id, session[s].row.winner)'
                    /\ session[s] \in BidWrite =>
                          /\ bids'[session[s].id] # None
                          /\ session[s].row =
                                [bids'[session[s].id] EXCEPT !.status = "withdrawn"]
  BY DEF LoadedRowsAreConsistent
<1>1. session[s] \in RequirementWrite =>
          session[s].id \in RequirementId /\ session[s].row \in RequirementRow
  BY DEF RequirementWrite
<1>2. session[s] \in BidWrite => session[s].id \in BidId
  BY DEF BidWrite
<1> QED
  BY <1>1, <1>2 DEF LoadedRowsAreConsistent, RequirementRow

-----------------------------------------------------------------------------
(* One lemma per action: Inv is preserved.                                  *)

LEMMA CreateRequirementInv ==
    ASSUME Inv, TypeOK', NEW s \in Session, NEW u \in User, NEW r \in RequirementId,
           NEW status \in SubmittedStatus, CreateRequirement(s, u, r, status)
    PROVE  Inv'
<1> USE DEF Inv
<1>1. /\ UNCHANGED <<bids, contracts, notifications, session>>
      /\ requirements[r] = None
      /\ requirements'[r].winner = None
      /\ \A q \in RequirementId : q # r => requirements'[q] = requirements[q]
  BY DEF CreateRequirement, TypeOK
<1>2. \A b \in BidId : bids[b] # None =>
          requirements'[bids[b].requirement] = requirements[bids[b].requirement]
  BY <1>1 DEF TypeOK, BidsAreOnOthersRequirements, BidRow
<1>3. BidsAreOnOthersRequirements' /\ SeedBidsRemain'
  BY <1>1, <1>2 DEF BidsAreOnOthersRequirements, SeedBidsRemain
<1>4. ContractsMatchBids'
  BY <1>1, <1>2 DEF ContractsMatchBids
<1>5. WinnersHaveContracts'
  BY <1>1 DEF WinnersHaveContracts, HasContract
<1>6. LoadedRowsAreConsistent'
  BY <1>1, TablesForward DEF HasContract
<1>7. NotificationsMatchState'
  BY <1>1, <1>2 DEF NotificationsMatchState
<1> QED
  BY <1>3, <1>4, <1>5, <1>6, <1>7

LEMMA LoadRequirementInv ==
    ASSUME Inv, TypeOK', NEW s \in Session, NEW u \in User, NEW r \in RequirementId,
           NEW status \in RequirementStatus, LoadRequirement(s, u, r, status)
    PROVE  Inv'
<1> USE DEF Inv, LoadRequirement
<1>1. requirements[r] \in RequirementRow
  BY DEF TypeOK
<1>2. session'[s] \notin BidWrite
  BY DEF TypeOK, BidWrite
<1>3. /\ session'[s].id = r
      /\ session'[s].row.publisher = requirements[r].publisher
      /\ session'[s].row.winner = requirements[r].winner
  BY <1>1 DEF TypeOK, RequirementRow
<1>4. \A q \in Session : q # s => session'[q] = session[q]
  BY DEF TypeOK
<1>5. requirements[r].winner # None => HasContract(r, requirements[r].winner)
  BY DEF WinnersHaveContracts
<1>6. LoadedRowsAreConsistent'
  BY <1>2, <1>3, <1>4, <1>5 DEF LoadedRowsAreConsistent, HasContract
<1>7. /\ BidsAreOnOthersRequirements' /\ ContractsMatchBids' /\ WinnersHaveContracts'
      /\ SeedBidsRemain' /\ NotificationsMatchState'
  BY DEF BidsAreOnOthersRequirements, ContractsMatchBids, WinnersHaveContracts,
         HasContract, SeedBidsRemain, NotificationsMatchState
<1> QED
  BY <1>6, <1>7

LEMMA SaveRequirementInv ==
    ASSUME Inv, TypeOK', NEW s \in Session, SaveRequirement(s)
    PROVE  Inv'
<1> USE DEF Inv, SaveRequirement
<1> DEFINE r == session[s].id
<1>1. r \in RequirementId /\ session[s].row \in RequirementRow
  BY DEF RequirementWrite
<1>2. \A q \in RequirementId :
          /\ requirements[q] # None => /\ requirements'[q] # None
                                       /\ requirements'[q].publisher = requirements[q].publisher
          /\ q # r => requirements'[q] = requirements[q]
  BY <1>1, NoneAssumption DEF TypeOK, LoadedRowsAreConsistent
<1>3. /\ requirements'[r] = session[s].row
      /\ session[s].row.winner # None => HasContract(r, session[s].row.winner)
  BY <1>1 DEF TypeOK, LoadedRowsAreConsistent
<1>4. \A b \in BidId : bids[b] # None => bids[b].requirement \in RequirementId
  BY DEF TypeOK, BidRow
<1>5. \A q \in Session : session'[q] # None => session'[q] = session[q]
  BY DEF TypeOK
<1>6. BidsAreOnOthersRequirements'
  BY <1>2, <1>4 DEF BidsAreOnOthersRequirements
<1>7. ContractsMatchBids'
  BY <1>2, <1>4 DEF ContractsMatchBids, BidsAreOnOthersRequirements
<1>8. WinnersHaveContracts'
  BY <1>2, <1>3 DEF WinnersHaveContracts, HasContract
<1>9. LoadedRowsAreConsistent'
  <2> SUFFICES ASSUME NEW q \in Session, session'[q] # None
               PROVE  LoadedRowsAreConsistent!(q)'
    BY NoneAssumption DEF LoadedRowsAreConsistent
  <2>1. session'[q] = session[q]
    BY <1>5
  <2>2. session[q] \in RequirementWrite => session[q].id \in RequirementId
    BY DEF RequirementWrite
  <2> QED
    BY <1>2, <2>1, <2>2 DEF LoadedRowsAreConsistent, HasContract
<1>10. SeedBidsRemain' /\ NotificationsMatchState'
  BY <1>2, <1>4 DEF SeedBidsRemain, NotificationsMatchState, BidsAreOnOthersRequirements
<1> QED
  BY <1>6, <1>7, <1>8, <1>9, <1>10

LEMMA CreateBidInv ==
    ASSUME Inv, TypeOK', NEW s \in Session, NEW u \in User, NEW r \in RequirementId,
           NEW b \in BidId, CreateBid(s, u, r, b)
    PROVE  Inv'
<1> USE DEF Inv
<1>1. /\ UNCHANGED <<requirements, contracts, session>>
      /\ requirements[r] # None /\ requirements[r].publisher # u
      /\ bids[b] = None /\ SeedBid[b] = None /\ contracts[b] = None
      /\ bids'[b] # None /\ bids'[b].requirement = r /\ bids'[b].bidder = u
      /\ bids'[b].status = "pending"
      /\ \A c \in BidId : c # b => bids'[c] = bids[c]
  <2>1. [requirement |-> r, bidder |-> u, status |-> "pending"] \in BidRow
    BY DEF BidRow, BidStatus
  <2> QED
    BY <2>1, NoneAssumption DEF CreateBid, MayBid, TypeOK, SeedBidsRemain, ContractsMatchBids
<1>2. BidsAreOnOthersRequirements' /\ SeedBidsRemain'
  BY <1>1 DEF BidsAreOnOthersRequirements, SeedBidsRemain
<1>3. ContractsMatchBids'
  BY <1>1 DEF ContractsMatchBids
<1>4. WinnersHaveContracts'
  BY <1>1 DEF WinnersHaveContracts, HasContract
<1>5. LoadedRowsAreConsistent'
  BY <1>1, TablesForward DEF HasContract
<1>6. NotificationsMatchState'
  <2>1. /\ notifications'[<<"bid_submitted", b>>] = requirements[r].publisher
        /\ \A e \in Event : e # <<"bid_submitted", b>> =>
              notifications'[e] = notifications[e]
    BY <1>1 DEF CreateBid, MayBid, Notify, NotificationsMatchState, TypeOK, Event, NotificationType
  <2>2. \A c \in BidId, t \in NotificationType :
            t # "bid_submitted" \/ c # b =>
               notifications'[<<t, c>>] = notifications[<<t, c>>]
    BY <2>1 DEF Event
  <2>3. ASSUME NEW c \in BidId PROVE NotificationsMatchState!(c)'
    <3>1. CASE c = b
      BY <1>1, <2>1, <2>2, <3>1 DEF NotificationsMatchState, NotificationType
    <3>2. CASE c # b
      BY <1>1, <2>2, <3>2 DEF NotificationsMatchState, NotificationType
    <3> QED
      BY <3>1, <3>2
  <2> QED
    BY <2>3 DEF NotificationsMatchState
<1> QED
  BY <1>2, <1>3, <1>4, <1>5, <1>6

LEMMA AcceptBidInv ==
    ASSUME Inv, TypeOK', NEW s \in Session, NEW u \in User, NEW r \in RequirementId,
           NEW b \in BidId, AcceptBid(s, u, r, b)
    PROVE  Inv'
<1> USE DEF Inv
<1>1. /\ UNCHANGED session
      /\ requirements[r] # None /\ requirements[r].publisher = u
      /\ bids[b] # None /\ bids[b].requirement = r /\ contracts[b] = None
      /\ requirements[r] \in RequirementRow /\ bids[b] \in BidRow
  BY DEF AcceptBid, MayAccept, Acceptable, TypeOK
<1>2. /\ requirements'[r] # None /\ requirements'[r].publisher = u
      /\ requirements'[r].winner = bids[b].bidder
      /\ \A q \in RequirementId : q # r => requirements'[q] = requirements[q]
  <2>1. [[requirements[r] EXCEPT !.winner = bids[b].bidder]
              EXCEPT !.status = "in_progress"] \in RequirementRow
    BY <1>1 DEF RequirementRow, RequirementStatus, BidRow
  <2> QED
    BY <1>1, <2>1, NoneAssumption DEF AcceptBid, MayAccept, Acceptable, TypeOK, RequirementRow
<1>3. /\ bids'[b] # None /\ bids'[b].status = "accepted"
      /\ bids'[b].requirement = r /\ bids'[b].bidder = bids[b].bidder
      /\ \A c \in BidId : c # b => bids'[c] = bids[c]
  <2>1. [bids[b] EXCEPT !.status = "accepted"] \in BidRow
    BY <1>1 DEF BidRow, BidStatus
  <2> QED
    BY <1>1, <2>1, NoneAssumption DEF AcceptBid, MayAccept, Acceptable, TypeOK, BidRow
<1>4. /\ contracts'[b] # None
      /\ contracts'[b].partyA = u /\ contracts'[b].partyB = bids[b].bidder
      /\ contracts'[b].requirement = r /\ contracts'[b].status = "pending_signature"
      /\ \A c \in BidId : c # b => contracts'[c] = contracts[c]
  <2>1. ContractFromBid(b, u) \in ContractRow
    BY <1>1 DEF ContractFromBid, ContractRow, ContractStatus, StageStatus, BidRow
  <2>2. contracts'[b] = ContractFromBid(b, u)
    BY DEF AcceptBid, MayAccept, Acceptable, TypeOK
  <2> QED
    BY <1>1, <2>1, <2>2, NoneAssumption DEF AcceptBid, MayAccept, Acceptable, TypeOK, ContractFromBid
<1>5. \A q \in RequirementId, v \in User : HasContract(q, v) => HasContract(q, v)'
  BY <1>1, <1>4 DEF HasContract
<1>6. \A q \in RequirementId : requirements[q] # None =>
          requirements'[q] # None /\ requirements'[q].publisher = requirements[q].publisher
  BY <1>1, <1>2
<1>7. \A c \in BidId : bids[c] # None => bids[c].requirement \in RequirementId
  BY DEF TypeOK, BidRow
<1>8. BidsAreOnOthersRequirements' /\ SeedBidsRemain'
  BY <1>1, <1>3, <1>6, <1>7 DEF BidsAreOnOthersRequirements, SeedBidsRemain
<1>9. ContractsMatchBids'
  BY <1>1, <1>2, <1>3, <1>4, <1>6, <1>7 DEF ContractsMatchBids, BidsAreOnOthersRequirements
<1>10. WinnersHaveContracts'
  <2> SUFFICES ASSUME NEW q \in RequirementId, NEW v \in User,
                      requirements'[q] # None, requirements'[q].winner = v
               PROVE  HasContract(q, v)'
    BY DEF WinnersHaveContracts, TypeOK, RequirementRow
  <2>1. CASE q = r
    BY <1>2, <1>4, <2>1 DEF HasContract
  <2>2. CASE q # r
    BY <1>2, <1>5, <2>2, NoneAssumption DEF WinnersHaveContracts
  <2> QED
    BY <2>1, <2>2
<1>11. LoadedRowsAreConsistent'
  <2>1. [bids'[b] EXCEPT !.status = "withdrawn"] = [bids[b] EXCEPT !.status = "withdrawn"]
    BY <1>1 DEF BidRow, AcceptBid, MayAccept, Acceptable, TypeOK
  <2> QED
    BY <1>1, <1>3, <1>5, <1>6, <2>1, TablesForward
<1>12. NotificationsMatchState'
  <2>1. /\ notifications'[<<"bid_accepted", b>>] = bids[b].bidder
        /\ \A e \in Event : e # <<"bid_accepted", b>> =>
              notifications'[e] = notifications[e]
    BY <1>1 DEF AcceptBid, MayAccept, Acceptable, Notify, NotificationsMatchState, TypeOK, Event, NotificationType
  <2>2. \A c \in BidId, t \in NotificationType :
            t # "bid_accepted" \/ c # b =>
               notifications'[<<t, c>>] = notifications[<<t, c>>]
    BY <2>1 DEF Event
  <2>3. ASSUME NEW c \in BidId PROVE NotificationsMatchState!(c)'
    <3>1. CASE c = b
      BY <1>1, <1>2, <1>3, <1>4, <1>6, <2>1, <2>2, <3>1
         DEF NotificationsMatchState, NotificationType
    <3>2. CASE c # b
      BY <1>3, <1>4, <1>6, <1>7, <2>2, <3>2
         DEF NotificationsMatchState, NotificationType, BidsAreOnOthersRequirements
    <3> QED
      BY <3>1, <3>2
  <2> QED
    BY <2>3 DEF NotificationsMatchState
<1> QED
  BY <1>8, <1>9, <1>10, <1>11, <1>12

LEMMA WithdrawInv ==
    ASSUME Inv, TypeOK', NEW s \in Session, NEW u \in User, NEW b \in BidId,
           Withdraw(s, u, b)
    PROVE  Inv'
<1> USE DEF Inv
<1>1. /\ UNCHANGED <<requirements, bids, contracts, notifications>>
      /\ bids[b] # None
      /\ session'[s] \notin RequirementWrite
      /\ session'[s].id = b /\ session'[s].row = [bids[b] EXCEPT !.status = "withdrawn"]
      /\ \A q \in Session : q # s => session'[q] = session[q]
  BY DEF Withdraw, MayWithdraw, TypeOK, RequirementWrite
<1>2. LoadedRowsAreConsistent'
  BY <1>1 DEF LoadedRowsAreConsistent, HasContract
<1>3. /\ BidsAreOnOthersRequirements' /\ ContractsMatchBids' /\ WinnersHaveContracts'
      /\ SeedBidsRemain' /\ NotificationsMatchState'
  BY <1>1 DEF BidsAreOnOthersRequirements, ContractsMatchBids, WinnersHaveContracts,
              HasContract, SeedBidsRemain, NotificationsMatchState
<1> QED
  BY <1>2, <1>3

LEMMA SaveBidInv ==
    ASSUME Inv, TypeOK', NEW s \in Session, SaveBid(s)
    PROVE  Inv'
<1> USE DEF Inv
<1> DEFINE b == session[s].id
<1>1. /\ UNCHANGED <<requirements, contracts, notifications>>
      /\ b \in BidId /\ bids[b] # None /\ bids[b] \in BidRow
      /\ session[s].row = [bids[b] EXCEPT !.status = "withdrawn"]
      /\ \A q \in Session : session'[q] # None => session'[q] = session[q]
  BY DEF SaveBid, TypeOK, BidWrite, LoadedRowsAreConsistent
<1>2. /\ bids'[b] # None /\ bids'[b].status = "withdrawn"
      /\ bids'[b].requirement = bids[b].requirement /\ bids'[b].bidder = bids[b].bidder
      /\ \A c \in BidId : c # b => bids'[c] = bids[c]
  <2>1. [bids[b] EXCEPT !.status = "withdrawn"] \in BidRow
    BY <1>1 DEF BidRow, BidStatus
  <2> QED
    BY <1>1, <2>1, NoneAssumption DEF SaveBid, TypeOK, BidRow
<1>3. \A c \in BidId : bids[c] # None <=> bids'[c] # None
  BY <1>1, <1>2
<1>4. BidsAreOnOthersRequirements' /\ SeedBidsRemain'
  BY <1>1, <1>2, <1>3 DEF BidsAreOnOthersRequirements, SeedBidsRemain
<1>5. ContractsMatchBids'
  BY <1>1, <1>2, <1>3 DEF ContractsMatchBids
<1>6. WinnersHaveContracts'
  BY <1>1 DEF WinnersHaveContracts, HasContract
<1>7. LoadedRowsAreConsistent'
  <2> SUFFICES ASSUME NEW q \in Session, session'[q] # None
               PROVE  LoadedRowsAreConsistent!(q)'
    BY NoneAssumption DEF LoadedRowsAreConsistent
  <2>1. session'[q] = session[q]
    BY <1>1
  <2>2. [bids'[b] EXCEPT !.status = "withdrawn"] = [bids[b] EXCEPT !.status = "withdrawn"]
    BY <1>1 DEF BidRow, SaveBid, TypeOK
  <2>3. CASE session[q] \in RequirementWrite
    <3>1. session[q] \notin BidWrite
      BY <2>3 DEF RequirementWrite, BidWrite
    <3>2. /\ requirements[session[q].id] # None
          /\ session[q].row.publisher = requirements[session[q].id].publisher
          /\ session[q].row.winner # None =>
                HasContract(session[q].id, session[q].row.winner)
      BY <2>3 DEF LoadedRowsAreConsistent
    <3>3. \A x, y : HasContract(x, y) => HasContract(x, y)'
      BY <1>1 DEF HasContract
    <3> QED
      BY <1>1, <2>1, <3>1, <3>2, <3>3
  <2>4. CASE session[q] \in BidWrite
    <3>1. session[q].id \in BidId /\ session[q] \notin RequirementWrite
      BY <2>4 DEF RequirementWrite, BidWrite
    <3>2. bids[session[q].id] # None
             /\ session[q].row = [bids[session[q].id] EXCEPT !.status = "withdrawn"]
      BY <2>4 DEF LoadedRowsAreConsistent
    <3>3. bids'[session[q].id] # None
             /\ session[q].row = [bids'[session[q].id] EXCEPT !.status = "withdrawn"]
      BY <1>2, <2>2, <3>1, <3>2
    <3> QED
      BY <2>1, <3>1, <3>3
  <2> QED
    BY <2>1, <2>3, <2>4
<1>8. NotificationsMatchState'
  <2>1. \A c \in BidId : bids[c] # None => bids'[c].requirement = bids[c].requirement
    BY <1>2
  <2> QED
    BY <1>1, <1>3, <2>1 DEF NotificationsMatchState
<1> QED
  BY <1>4, <1>5, <1>6, <1>7, <1>8

LEMMA SignInv ==
    ASSUME Inv, TypeOK', NEW s \in Session, NEW u \in User, NEW b \in BidId, Sign(s, u, b)
    PROVE  Inv'
<1> USE DEF Inv
<1>1. /\ UNCHANGED <<requirements, bids, session>>
      /\ contracts[b] # None /\ contracts[b] \in ContractRow
      /\ contracts[b].status = "pending_signature"
      /\ u \in {contracts[b].partyA, contracts[b].partyB}
  BY DEF Sign, MaySign, TypeOK
<1>2. /\ contracts'[b] # None
      /\ contracts'[b].partyA = contracts[b].partyA
      /\ contracts'[b].partyB = contracts[b].partyB
      /\ contracts'[b].requirement = contracts[b].requirement
      /\ contracts'[b].status = "in_progress"
      /\ \A c \in BidId : c # b => contracts'[c] = contracts[c]
  <2>1. [contracts[b] EXCEPT !.status = "in_progress"] \in ContractRow
    BY <1>1 DEF ContractRow, ContractStatus
  <2> QED
    BY <1>1, <2>1, NoneAssumption DEF Sign, MaySign, TypeOK, ContractRow
<1>3. \A q \in RequirementId, v \in User : HasContract(q, v) => HasContract(q, v)'
  BY <1>1, <1>2 DEF HasContract
<1>4. BidsAreOnOthersRequirements' /\ SeedBidsRemain'
  BY <1>1 DEF BidsAreOnOthersRequirements, SeedBidsRemain
<1>5. ContractsMatchBids'
  BY <1>1, <1>2 DEF ContractsMatchBids
<1>6. WinnersHaveContracts'
  BY <1>1, <1>3 DEF WinnersHaveContracts, TypeOK, RequirementRow
<1>7. LoadedRowsAreConsistent'
  BY <1>1, <1>3, TablesForward
<1>8. NotificationsMatchState'
  <2>1. /\ notifications'[<<"contract_signed", b>>] \in
              {contracts[b].partyA, contracts[b].partyB}
        /\ \A e \in Event : e # <<"contract_signed", b>> =>
              notifications'[e] = notifications[e]
    BY <1>1 DEF Sign, MaySign, OtherParty, Notify, NotificationsMatchState, TypeOK, Event,
                NotificationType
  <2>2. \A c \in BidId, t \in NotificationType :
            t # "contract_signed" \/ c # b =>
               notifications'[<<t, c>>] = notifications[<<t, c>>]
    BY <2>1 DEF Event
  <2>3. ASSUME NEW c \in BidId PROVE NotificationsMatchState!(c)'
    <3>1. CASE c = b
      BY <1>1, <1>2, <2>1, <2>2, <3>1 DEF NotificationsMatchState, NotificationType
    <3>2. CASE c # b
      BY <1>1, <1>2, <2>2, <3>2 DEF NotificationsMatchState, NotificationType
    <3> QED
      BY <3>1, <3>2
  <2> QED
    BY <2>3 DEF NotificationsMatchState
<1> QED
  BY <1>4, <1>5, <1>6, <1>7, <1>8

LEMMA CompleteInv ==
    ASSUME Inv, TypeOK', NEW s \in Session, NEW u \in User, NEW b \in BidId, Complete(s, u, b)
    PROVE  Inv'
<1> USE DEF Inv
<1>1. /\ UNCHANGED <<requirements, bids, session>>
      /\ contracts[b] # None /\ contracts[b] \in ContractRow
      /\ contracts[b].status \in {"in_progress", "pending_review"}
  BY DEF Complete, MayComplete, TypeOK
<1>2. /\ contracts'[b] # None
      /\ contracts'[b].partyA = contracts[b].partyA
      /\ contracts'[b].partyB = contracts[b].partyB
      /\ contracts'[b].requirement = contracts[b].requirement
      /\ contracts'[b].status = "completed"
      /\ \A c \in BidId : c # b => contracts'[c] = contracts[c]
  <2>1. [[contracts[b] EXCEPT !.status = "completed"]
            EXCEPT !.stages = [i \in 1..3 |-> "done"]] \in ContractRow
    BY <1>1 DEF ContractRow, ContractStatus, StageStatus
  <2> QED
    BY <1>1, <2>1, NoneAssumption DEF Complete, MayComplete, TypeOK, ContractRow
<1>3. \A q \in RequirementId, v \in User : HasContract(q, v) => HasContract(q, v)'
  BY <1>1, <1>2 DEF HasContract
<1>4. BidsAreOnOthersRequirements' /\ SeedBidsRemain'
  BY <1>1 DEF BidsAreOnOthersRequirements, SeedBidsRemain
<1>5. ContractsMatchBids'
  BY <1>1, <1>2 DEF ContractsMatchBids
<1>6. WinnersHaveContracts'
  BY <1>1, <1>3 DEF WinnersHaveContracts, TypeOK, RequirementRow
<1>7. LoadedRowsAreConsistent'
  BY <1>1, <1>3, TablesForward
<1>8. NotificationsMatchState'
  <2>1. /\ notifications'[<<"contract_completed", b>>] = contracts[b].partyB
        /\ \A e \in Event : e # <<"contract_completed", b>> =>
              notifications'[e] = notifications[e]
    BY <1>1 DEF Complete, MayComplete, Notify, NotificationsMatchState, TypeOK, Event, NotificationType
  <2>2. \A c \in BidId, t \in NotificationType :
            t # "contract_completed" \/ c # b =>
               notifications'[<<t, c>>] = notifications[<<t, c>>]
    BY <2>1 DEF Event
  <2>3. ASSUME NEW c \in BidId PROVE NotificationsMatchState!(c)'
    <3>1. CASE c = b
      BY <1>1, <1>2, <2>1, <2>2, <3>1 DEF NotificationsMatchState, NotificationType
    <3>2. CASE c # b
      BY <1>1, <1>2, <2>2, <3>2 DEF NotificationsMatchState, NotificationType
    <3> QED
      BY <3>1, <3>2
  <2> QED
    BY <2>3 DEF NotificationsMatchState
<1> QED
  BY <1>4, <1>5, <1>6, <1>7, <1>8

\* Handlers that die, and the whole server dying, drop loaded rows.
LEMMA LostSessionsInv ==
    ASSUME Inv, TypeOK', UNCHANGED <<requirements, bids, contracts, notifications>>,
           \A s \in Session : session'[s] \in {session[s], None}
    PROVE  Inv'
<1> USE DEF Inv
<1>1. LoadedRowsAreConsistent'
  BY NoneAssumption DEF LoadedRowsAreConsistent, HasContract
<1>2. /\ BidsAreOnOthersRequirements' /\ ContractsMatchBids' /\ WinnersHaveContracts'
      /\ SeedBidsRemain' /\ NotificationsMatchState'
  BY DEF BidsAreOnOthersRequirements, ContractsMatchBids, WinnersHaveContracts,
         HasContract, SeedBidsRemain, NotificationsMatchState
<1> QED
  BY <1>1, <1>2

LEMMA InvStep == Inv /\ [Next]_vars => Inv'
<1> SUFFICES ASSUME Inv, [Next]_vars PROVE Inv'
  OBVIOUS
<1>1. TypeOK /\ TypeOK'
  BY TypeStep DEF Inv
<1>2. CASE UNCHANGED vars
  BY <1>1, <1>2, LostSessionsInv DEF vars
<1>3. CASE Crash
  BY <1>1, <1>3, LostSessionsInv DEF Crash
<1>4. ASSUME NEW s \in Session, Handle(s) PROVE Inv'
  <2>1. ASSUME NEW u \in User, NEW r \in RequirementId, NEW status \in SubmittedStatus,
               CreateRequirement(s, u, r, status) \/ UpdateStatus(s, u, r, status)
        PROVE  Inv'
    BY <1>1, <2>1, CreateRequirementInv, LoadRequirementInv DEF UpdateStatus
  <2>2. ASSUME NEW u \in User, NEW r \in RequirementId, Update(s, u, r)
        PROVE  Inv'
    <3>1. requirements[r].status \in RequirementStatus
      BY <1>1, <2>2 DEF Update, TypeOK, RequirementRow
    <3> QED
      BY <1>1, <2>2, <3>1, LoadRequirementInv DEF Update
  <2>3. ASSUME NEW u \in User, NEW r \in RequirementId, NEW b \in BidId,
               CreateBid(s, u, r, b) \/ AcceptBid(s, u, r, b)
        PROVE  Inv'
    BY <1>1, <2>3, CreateBidInv, AcceptBidInv
  <2>4. ASSUME NEW u \in User, NEW b \in BidId,
               Withdraw(s, u, b) \/ Sign(s, u, b) \/ Complete(s, u, b)
        PROVE  Inv'
    BY <1>1, <2>4, WithdrawInv, SignInv, CompleteInv
  <2>5. CASE SaveRequirement(s) \/ SaveBid(s)
    BY <1>1, <2>5, SaveRequirementInv, SaveBidInv
  <2>6. CASE Abort(s)
    BY <1>1, <2>6, LostSessionsInv DEF Abort, TypeOK
  <2> QED
    BY <1>4, <2>1, <2>2, <2>3, <2>4, <2>5, <2>6 DEF Handle
<1> QED
  BY <1>2, <1>3, <1>4 DEF Next

-----------------------------------------------------------------------------
(* The safety theorems                                                      *)

\* The inductive invariant: the four relations between the tables, which need
\* each other, and what is known of the rows in flight.
THEOREM Invariant == Spec => []Inv
  BY InvInit, InvStep, PTL DEF Spec

\* Contracts, accepted bids and winners agree in every reachable state, with
\* any number of unlocked writers in flight.
THEOREM TablesAgree ==
    Spec => [](BidsAreOnOthersRequirements /\ ContractsMatchBids /\ WinnersHaveContracts)
<1>1. Inv => BidsAreOnOthersRequirements /\ ContractsMatchBids /\ WinnersHaveContracts
  BY DEF Inv
<1> QED
  BY <1>1, Invariant, PTL

\* No rewriting of old requirement rows ever leaves a bid without requirement,
\* or on a requirement of its own bidder.
COROLLARY NoOwnBids == Spec => []BidsAreOnOthersRequirements
  BY TablesAgree, PTL

\* A stale requirement row written back never names a winner without contract.
COROLLARY NoInventedWinner == Spec => []WinnersHaveContracts
  BY TablesAgree, PTL

\* A row between its load and its Save, however old, differs from the stored
\* row in nothing but the status, and in a winner that has a contract.
THEOREM LoadedRowsAgree == Spec => []LoadedRowsAreConsistent
<1>1. Inv => LoadedRowsAreConsistent
  BY DEF Inv
<1> QED
  BY <1>1, Invariant, PTL

\* Exactly the business states that call for a notification have theirs.  Of a
\* signature this says that one of the parties was told; that it was the other
\* one, OtherPartyIsTold says (module RefinementProofs).
THEOREM NotificationsCorrect == Spec => []NotificationsMatchState
<1>1. Inv => NotificationsMatchState
  BY DEF Inv
<1> QED
  BY <1>1, Invariant, PTL

\* What one step may make of a bid row.
LEMMA BidSteps == Inv /\ [Next]_vars => [\A b \in BidId : BidStep(bids[b], bids'[b])]_vars
<1> SUFFICES ASSUME Inv, Next, NEW c \in BidId PROVE BidStep(bids[c], bids'[c])
  OBVIOUS
<1>1. TypeOK /\ LoadedRowsAreConsistent
  BY DEF Inv
<1>2. CASE UNCHANGED bids
  BY <1>2 DEF BidStep
<1>3. ASSUME NEW s \in Session, NEW u \in User, NEW r \in RequirementId, NEW b \in BidId,
             CreateBid(s, u, r, b)
      PROVE  BidStep(bids[c], bids'[c])
  <2>1. bids[b] = None /\ (c # b => bids'[c] = bids[c])
    BY <1>1, <1>3 DEF CreateBid, MayBid, TypeOK
  <2> QED
    BY <2>1 DEF BidStep
<1>4. ASSUME NEW s \in Session, NEW u \in User, NEW r \in RequirementId, NEW b \in BidId,
             AcceptBid(s, u, r, b)
      PROVE  BidStep(bids[c], bids'[c])
  <2>1. bids[b] \in BidRow /\ bids[b].status = "pending"
    BY <1>1, <1>4 DEF AcceptBid, MayAccept, Acceptable, TypeOK
  <2>2. [bids[b] EXCEPT !.status = "accepted"] \in BidRow
    BY <2>1 DEF BidRow, BidStatus
  <2>3. CASE c = b
    BY <1>1, <1>4, <2>1, <2>2, <2>3, NoneAssumption DEF AcceptBid, MayAccept, Acceptable, TypeOK, BidStep, BidRow
  <2>4. CASE c # b
    BY <1>1, <1>4, <2>4 DEF AcceptBid, MayAccept, Acceptable, TypeOK, BidStep
  <2> QED
    BY <2>3, <2>4
<1>5. ASSUME NEW s \in Session, SaveBid(s)
      PROVE  BidStep(bids[c], bids'[c])
  <2> DEFINE b == session[s].id
  <2>1. /\ b \in BidId /\ bids[b] # None /\ bids[b] \in BidRow
        /\ session[s].row = [bids[b] EXCEPT !.status = "withdrawn"]
    BY <1>1, <1>5 DEF SaveBid, TypeOK, BidWrite, LoadedRowsAreConsistent
  <2>2. [bids[b] EXCEPT !.status = "withdrawn"] \in BidRow
    BY <2>1 DEF BidRow, BidStatus
  <2>3. CASE c = b
    BY <1>1, <1>5, <2>1, <2>2, <2>3, NoneAssumption DEF SaveBid, TypeOK, BidStep, BidRow
  <2>4. CASE c # b
    BY <1>1, <1>5, <2>4 DEF SaveBid, TypeOK, BidStep
  <2> QED
    BY <2>3, <2>4
<1> QED
  BY <1>2, <1>3, <1>4, <1>5
     DEF Next, Handle, Crash, CreateRequirement, UpdateStatus, Update, LoadRequirement,
         SaveRequirement, Withdraw, Sign, Complete, Abort


\* A decided bid is never pending again, although Save writes whole old rows.
THEOREM NeverReopened == Spec => BidsNeverReopen
  BY BidSteps, Invariant, PTL DEF Spec, BidsNeverReopen

\* Requirements are not deleted and keep their publisher (SaveRequirement).
LEMMA RequirementsForward ==
    ASSUME Inv, [Next]_vars, NEW c \in RequirementId, requirements[c] # None
    PROVE  requirements'[c] # None /\ requirements'[c].publisher = requirements[c].publisher
<1>1. TypeOK /\ LoadedRowsAreConsistent
  BY DEF Inv
<1>2. ASSUME NEW s \in Session, NEW u \in User, NEW r \in RequirementId,
             NEW status \in SubmittedStatus, CreateRequirement(s, u, r, status)
      PROVE  requirements'[c] = requirements[c]
  BY <1>1, <1>2 DEF CreateRequirement, TypeOK
<1>3. ASSUME NEW s \in Session, NEW u \in User, NEW r \in RequirementId, NEW b \in BidId,
             AcceptBid(s, u, r, b)
      PROVE  requirements'[c] # None /\ requirements'[c].publisher = requirements[c].publisher
  <2>1. requirements[r] \in RequirementRow /\ bids[b] \in BidRow
    BY <1>1, <1>3 DEF AcceptBid, MayAccept, Acceptable, TypeOK
  <2> DEFINE new == [[requirements[r] EXCEPT !.winner = bids[b].bidder]
                        EXCEPT !.status = "in_progress"]
  <2>2. new \in RequirementRow /\ new.publisher = requirements[r].publisher
    BY <2>1 DEF RequirementRow, RequirementStatus, BidRow
  <2>3. new # None
    BY <2>2, NoneAssumption
  <2>4. requirements' = [requirements EXCEPT ![r] = new]
    BY <1>1, <1>3 DEF AcceptBid, TypeOK
  <2> QED
    BY <1>1, <2>2, <2>3, <2>4 DEF TypeOK
<1>4. ASSUME NEW s \in Session, SaveRequirement(s)
      PROVE  requirements'[c] # None /\ requirements'[c].publisher = requirements[c].publisher
  <2>1. /\ session[s] \in RequirementWrite
        /\ session[s].id \in RequirementId /\ session[s].row \in RequirementRow
    BY <1>4 DEF SaveRequirement, RequirementWrite
  <2> QED
    BY <1>1, <1>4, <2>1, NoneAssumption DEF SaveRequirement, LoadedRowsAreConsistent, TypeOK
<1> QED
  BY <1>2, <1>3, <1>4
     DEF Next, Handle, vars, Crash, CreateBid, UpdateStatus, Update, LoadRequirement,
         Withdraw, SaveBid, Sign, Complete, Abort

\* Bids are not deleted, keep what they were made for, and once decided or
\* withdrawn stay that.
LEMMA BidsForward ==
    ASSUME Inv, [Next]_vars, NEW c \in BidId, bids[c] # None
    PROVE  /\ bids'[c] # None
           /\ bids'[c].requirement = bids[c].requirement
           /\ bids'[c].bidder = bids[c].bidder
           /\ bids[c].status # "pending" => bids'[c].status # "pending"
           /\ bids[c].status = "withdrawn" => bids'[c].status = "withdrawn"
<1>1. CASE UNCHANGED vars
  BY <1>1 DEF vars
<1>2. CASE ~UNCHANGED vars
  <2>1. BidStep(bids[c], bids'[c])
    BY <1>2, BidSteps
  <2> QED
    BY <2>1 DEF BidStep
<1> QED
  BY <1>1, <1>2

\* Contracts are not deleted and keep their parties; a signed one stays signed,
\* a completed one completed.
LEMMA ContractsForward ==
    ASSUME Inv, [Next]_vars, NEW c \in BidId, contracts[c] # None
    PROVE  /\ contracts'[c] # None
           /\ contracts'[c].requirement = contracts[c].requirement
           /\ contracts'[c].partyA = contracts[c].partyA
           /\ contracts'[c].partyB = contracts[c].partyB
           /\ contracts[c].status # "pending_signature" =>
                  contracts'[c].status # "pending_signature"
           /\ contracts[c].status = "completed" => contracts'[c].status = "completed"
<1>1. TypeOK
  BY DEF Inv
<1>2. ASSUME NEW s \in Session, NEW u \in User, NEW r \in RequirementId, NEW b \in BidId,
             AcceptBid(s, u, r, b)
      PROVE  contracts'[c] = contracts[c]
  BY <1>1, <1>2 DEF AcceptBid, TypeOK
<1>3. ASSUME NEW s \in Session, NEW u \in User, NEW b \in BidId, Sign(s, u, b), c = b
      PROVE  /\ contracts[b].status = "pending_signature"
             /\ contracts'[c] # None
             /\ contracts'[c].requirement = contracts[c].requirement
             /\ contracts'[c].partyA = contracts[c].partyA
             /\ contracts'[c].partyB = contracts[c].partyB
  <2>1. contracts[b] \in ContractRow /\ contracts[b].status = "pending_signature"
    BY <1>1, <1>3 DEF Sign, MaySign, TypeOK
  <2> DEFINE new == [contracts[b] EXCEPT !.status = "in_progress"]
  <2>2. /\ new \in ContractRow
        /\ new.requirement = contracts[b].requirement
        /\ new.partyA = contracts[b].partyA /\ new.partyB = contracts[b].partyB
    BY <2>1 DEF ContractRow, ContractStatus
  <2>3. new # None
    BY <2>2, NoneAssumption
  <2>4. contracts'[b] = new
    BY <1>1, <1>3 DEF Sign, TypeOK
  <2> QED
    BY <1>3, <2>1, <2>2, <2>3, <2>4
<1>4. ASSUME NEW s \in Session, NEW u \in User, NEW b \in BidId, Complete(s, u, b), c = b
      PROVE  /\ contracts'[c].status = "completed"
             /\ contracts'[c] # None
             /\ contracts'[c].requirement = contracts[c].requirement
             /\ contracts'[c].partyA = contracts[c].partyA
             /\ contracts'[c].partyB = contracts[c].partyB
  <2>1. contracts[b] \in ContractRow
    BY <1>1, <1>4 DEF Complete, MayComplete, TypeOK
  <2> DEFINE new == [[contracts[b] EXCEPT !.status = "completed"]
                        EXCEPT !.stages = [i \in 1..3 |-> "done"]]
  <2>2. /\ new \in ContractRow /\ new.status = "completed"
        /\ new.requirement = contracts[b].requirement
        /\ new.partyA = contracts[b].partyA /\ new.partyB = contracts[b].partyB
    BY <2>1 DEF ContractRow, ContractStatus, StageStatus
  <2>3. new # None
    BY <2>2, NoneAssumption
  <2>4. contracts'[b] = new
    BY <1>1, <1>4 DEF Complete, TypeOK
  <2> QED
    BY <1>4, <2>2, <2>3, <2>4
<1>5. ASSUME NEW s \in Session, NEW u \in User, NEW b \in BidId, Sign(s, u, b) \/ Complete(s, u, b), c # b
      PROVE  contracts'[c] = contracts[c]
  BY <1>1, <1>5 DEF Sign, Complete, TypeOK
<1>6. CASE \E s \in Session, u \in User, b \in BidId : Sign(s, u, b) \/ Complete(s, u, b)
  BY <1>3, <1>4, <1>5, <1>6
<1>7. CASE ~\E s \in Session, u \in User, b \in BidId : Sign(s, u, b) \/ Complete(s, u, b)
  <2>1. contracts'[c] = contracts[c]
    BY <1>2, <1>7
       DEF Next, Handle, vars, Crash, CreateRequirement, CreateBid, UpdateStatus, Update,
           LoadRequirement, SaveRequirement, Withdraw, SaveBid, Abort
  <2> QED
    BY <2>1
<1> QED
  BY <1>6, <1>7

-----------------------------------------------------------------------------
(* What the row locks give, and what the unlocked writers take away: while  *)
(* no session holds a stale row, a requirement has one, backed, contract.   *)

Backed == OneContractPerRequirement /\ ContractsAreBacked

LEMMA BackedInit == Init => Backed
  BY DEF Init, Backed, OneContractPerRequirement, ContractsAreBacked

LEMMA BackedStep == Inv /\ NoStaleLoad /\ Backed /\ [Next]_vars => Backed'
<1> SUFFICES ASSUME Inv, NoStaleLoad, Backed, [Next]_vars PROVE Backed'
  OBVIOUS
<1>1. TypeOK /\ LoadedRowsAreConsistent /\ ContractsMatchBids /\ BidsAreOnOthersRequirements
  BY DEF Inv
<1>2. OneContractPerRequirement /\ ContractsAreBacked
  BY DEF Backed
<1>3. \A b \in BidId : contracts[b] # None =>
          /\ bids[b] # None /\ bids[b].status = "accepted"
          /\ contracts[b].requirement \in RequirementId
          /\ requirements[contracts[b].requirement] # None
          /\ requirements[contracts[b].requirement].winner = contracts[b].partyB
          /\ contracts[b].partyB \in User
  BY <1>1, <1>2 DEF ContractsMatchBids, BidsAreOnOthersRequirements, ContractsAreBacked,
                    TypeOK, ContractRow
<1>4. ASSUME UNCHANGED <<requirements, bids, contracts>> PROVE Backed'
  BY <1>2, <1>4 DEF Backed, OneContractPerRequirement, ContractsAreBacked
<1>5. ASSUME NEW s \in Session, NEW u \in User, NEW r \in RequirementId,
             NEW status \in SubmittedStatus, CreateRequirement(s, u, r, status)
      PROVE  Backed'
  <2>1. /\ UNCHANGED <<bids, contracts>> /\ requirements[r] = None
        /\ \A q \in RequirementId : q # r => requirements'[q] = requirements[q]
    BY <1>1, <1>5 DEF CreateRequirement, TypeOK
  <2> QED
    BY <1>2, <1>3, <2>1 DEF Backed, OneContractPerRequirement, ContractsAreBacked
<1>6. ASSUME NEW s \in Session, SaveRequirement(s) PROVE Backed'
  <2> DEFINE r == session[s].id
  <2>1. /\ UNCHANGED <<bids, contracts>> /\ r \in RequirementId
        /\ requirements'[r].winner = requirements[r].winner
        /\ \A q \in RequirementId : q # r => requirements'[q] = requirements[q]
    BY <1>1, <1>6 DEF SaveRequirement, TypeOK, NoStaleLoad, Fresh, RequirementWrite
  <2>2. \A q \in RequirementId : requirements'[q].winner = requirements[q].winner
    BY <2>1
  <2> QED
    BY <1>2, <1>3, <2>1, <2>2 DEF Backed, OneContractPerRequirement, ContractsAreBacked
<1>7. ASSUME NEW s \in Session, NEW u \in User, NEW r \in RequirementId, NEW b \in BidId,
             CreateBid(s, u, r, b)
      PROVE  Backed'
  <2>1. /\ UNCHANGED <<requirements, contracts>> /\ bids[b] = None
        /\ \A c \in BidId : c # b => bids'[c] = bids[c]
    BY <1>1, <1>7 DEF CreateBid, MayBid, TypeOK
  <2> QED
    BY <1>2, <1>3, <2>1 DEF Backed, OneContractPerRequirement, ContractsAreBacked
<1>8. ASSUME NEW s \in Session, NEW u \in User, NEW r \in RequirementId, NEW b \in BidId,
             AcceptBid(s, u, r, b)
      PROVE  Backed'
  <2>1. /\ requirements[r] \in RequirementRow /\ requirements[r].winner = None
        /\ bids[b] \in BidRow /\ bids[b].requirement = r /\ contracts[b] = None
    BY <1>1, <1>8 DEF AcceptBid, MayAccept, Acceptable, TypeOK
  <2>2. \A c \in BidId : contracts[c] # None => c # b /\ contracts[c].requirement # r
    BY <1>3, <2>1, NoneAssumption
  <2>3. /\ requirements'[r].winner = bids[b].bidder /\ bids'[b].status = "accepted"
        /\ contracts'[b].requirement = r /\ contracts'[b].partyB = bids[b].bidder
        /\ \A q \in RequirementId : q # r => requirements'[q] = requirements[q]
        /\ \A c \in BidId : c # b => bids'[c] = bids[c] /\ contracts'[c] = contracts[c]
    BY <1>1, <1>8, <2>1
       DEF AcceptBid, MayAccept, Acceptable, ContractFromBid, TypeOK, RequirementRow, BidRow
  <2>4. OneContractPerRequirement'
    BY <1>2, <2>2, <2>3 DEF OneContractPerRequirement
  <2>5. ContractsAreBacked'
    BY <1>2, <1>3, <2>2, <2>3 DEF ContractsAreBacked
  <2> QED
    BY <2>4, <2>5 DEF Backed
<1>9. ASSUME NEW s \in Session, SaveBid(s) PROVE Backed'
  <2> DEFINE b == session[s].id
  <2>1. /\ UNCHANGED <<requirements, contracts>> /\ b \in BidId
        /\ bids[b].status # "accepted"
        /\ \A c \in BidId : c # b => bids'[c] = bids[c]
    BY <1>1, <1>9 DEF SaveBid, TypeOK, NoStaleLoad, Fresh, BidWrite
  <2> QED
    BY <1>2, <1>3, <2>1 DEF Backed, OneContractPerRequirement, ContractsAreBacked
<1>10. ASSUME NEW s \in Session, NEW u \in User, NEW b \in BidId,
              Sign(s, u, b) \/ Complete(s, u, b)
       PROVE  Backed'
  <2>1. /\ UNCHANGED <<requirements, bids>>
        /\ contracts[b] # None /\ contracts[b] \in ContractRow
        /\ contracts'[b].partyB = contracts[b].partyB
        /\ contracts'[b].requirement = contracts[b].requirement
        /\ \A c \in BidId : c # b => contracts'[c] = contracts[c]
    BY <1>1, <1>10 DEF Sign, MaySign, Complete, MayComplete, TypeOK, ContractRow
  <2>2. \A c \in BidId : contracts'[c] # None =>
            /\ contracts[c] # None
            /\ contracts'[c].partyB = contracts[c].partyB
            /\ contracts'[c].requirement = contracts[c].requirement
    BY <2>1
  <2> QED
    BY <1>2, <2>1, <2>2 DEF Backed, OneContractPerRequirement, ContractsAreBacked
<1> QED
  BY <1>4, <1>5, <1>6, <1>7, <1>8, <1>9, <1>10
     DEF Next, Handle, vars, Crash, UpdateStatus, Update, LoadRequirement, Withdraw, Abort

\* Locked handlers alone never produce a second contract on a requirement.
THEOREM SafeWhileFresh == Spec => SafeUntilStale
<1>1. Backed <=> OneContractPerRequirement /\ ContractsAreBacked
  BY DEF Backed
<1> QED
  BY <1>1, BackedInit, BackedStep, Invariant, PTL DEF Spec, SafeUntilStale

\* With one session, hence handlers one after the other, no row is stale.
THEOREM SerialIsFresh ==
    ASSUME NEW one, Session = {one}
    PROVE  Spec => []NoStaleLoad
<1>1. Init => NoStaleLoad
  BY NoneAssumption DEF Init, NoStaleLoad, Fresh
<1>2. Inv /\ NoStaleLoad /\ [Next]_vars => NoStaleLoad'
  <2> SUFFICES ASSUME Inv, NoStaleLoad, [Next]_vars PROVE Fresh(one)'
    BY DEF NoStaleLoad
  <2>1. TypeOK /\ one \in Session
    BY DEF Inv
  <2>2. CASE session'[one] = None
    BY <2>2, NoneAssumption DEF Fresh
  <2>3. CASE UNCHANGED <<requirements, bids, session>>
    BY <2>3 DEF NoStaleLoad, Fresh
  <2>4. ASSUME NEW u \in User, NEW r \in RequirementId, NEW status \in RequirementStatus,
               LoadRequirement(one, u, r, status)
        PROVE  Fresh(one)'
    BY <2>1, <2>4 DEF LoadRequirement, Fresh, TypeOK, RequirementRow, BidWrite
  <2>5. ASSUME NEW u \in User, NEW r \in RequirementId, Update(one, u, r)
        PROVE  Fresh(one)'
    <3>1. requirements[r].status \in RequirementStatus
      BY <2>1, <2>5 DEF Update, TypeOK, RequirementRow
    <3> QED
      BY <2>4, <2>5, <3>1 DEF Update
  <2>6. ASSUME NEW u \in User, NEW b \in BidId, Withdraw(one, u, b)
        PROVE  Fresh(one)'
    BY <2>1, <2>6 DEF Withdraw, MayWithdraw, Fresh, TypeOK, RequirementWrite
  <2>7. CASE Idle(one) /\ UNCHANGED session
    BY <2>2, <2>7 DEF Idle
  <2>8. CASE SaveRequirement(one) \/ SaveBid(one) \/ Abort(one) \/ Crash
    BY <2>1, <2>2, <2>8 DEF SaveRequirement, SaveBid, Abort, Crash, TypeOK
  <2>9. ASSUME Handle(one) PROVE Fresh(one)'
    <3>1. ASSUME NEW u \in User, NEW r \in RequirementId, NEW status \in SubmittedStatus,
                 CreateRequirement(one, u, r, status) \/ UpdateStatus(one, u, r, status)
          PROVE  Fresh(one)'
      BY <2>4, <2>7, <3>1 DEF CreateRequirement, UpdateStatus
    <3>2. ASSUME NEW u \in User, NEW r \in RequirementId, NEW b \in BidId,
                 CreateBid(one, u, r, b) \/ AcceptBid(one, u, r, b)
          PROVE  Fresh(one)'
      BY <2>7, <3>2 DEF CreateBid, MayBid, AcceptBid, MayAccept, Acceptable
    <3>3. ASSUME NEW u \in User, NEW b \in BidId, Sign(one, u, b) \/ Complete(one, u, b)
          PROVE  Fresh(one)'
      BY <2>7, <3>3 DEF Sign, MaySign, Complete, MayComplete
    <3> QED
      BY <2>5, <2>6, <2>8, <2>9, <3>1, <3>2, <3>3 DEF Handle
  <2>10. CASE UNCHANGED vars
    BY <2>3, <2>10 DEF vars
  <2> QED
    BY <2>8, <2>9, <2>10 DEF Next
<1> QED
  BY <1>1, <1>2, Invariant, PTL DEF Spec

\* One request at a time, a requirement never gets a second contract.
COROLLARY SerialIsSafe ==
    ASSUME NEW one, Session = {one}
    PROVE  Spec => []OneContractPerRequirement
  BY SerialIsFresh, SafeWhileFresh, PTL DEF SafeUntilStale

\* And a contract keeps its accepted bid and its requirement's winner.
COROLLARY SerialIsBacked ==
    ASSUME NEW one, Session = {one}
    PROVE  Spec => []ContractsAreBacked
  BY SerialIsFresh, SafeWhileFresh, PTL DEF SafeUntilStale

\* How each step changes the bids: Create inserts a pending one, AcceptBid and
\* the Save of Withdraw change the status of one, nothing else touches them.
LEMMA BidChanges ==
    ASSUME Inv, [Next]_vars, NEW c \in BidId
    PROVE  \/ bids'[c] = bids[c]
           \/ bids[c] = None /\ bids'[c].status = "pending"
           \/ bids[c].status = "pending" /\ bids'[c].status = "accepted"
           \/ \E s \in Session : /\ session[s] \in BidWrite /\ session[s].id = c
                                 /\ bids'[c].status = "withdrawn"
<1>1. TypeOK /\ LoadedRowsAreConsistent
  BY DEF Inv
<1>2. ASSUME NEW s \in Session, NEW u \in User, NEW r \in RequirementId, NEW b \in BidId,
             CreateBid(s, u, r, b)
      PROVE  bids'[c] = bids[c] \/ (bids[c] = None /\ bids'[c].status = "pending")
  BY <1>1, <1>2 DEF CreateBid, TypeOK
<1>3. ASSUME NEW s \in Session, NEW u \in User, NEW r \in RequirementId, NEW b \in BidId,
             AcceptBid(s, u, r, b)
      PROVE  \/ bids'[c] = bids[c]
             \/ bids[c].status = "pending" /\ bids'[c].status = "accepted"
  <2>1. bids[b] \in BidRow /\ bids[b].status = "pending"
    BY <1>1, <1>3 DEF AcceptBid, Acceptable, TypeOK
  <2>2. [bids[b] EXCEPT !.status = "accepted"].status = "accepted"
    BY <2>1 DEF BidRow
  <2> QED
    BY <1>1, <1>3, <2>1, <2>2 DEF AcceptBid, TypeOK
<1>4. ASSUME NEW s \in Session, SaveBid(s)
      PROVE  \/ bids'[c] = bids[c]
             \/ /\ session[s] \in BidWrite /\ session[s].id = c
                /\ bids'[c].status = "withdrawn"
  <2>1. session[s] \in BidWrite /\ session[s].id \in BidId
    BY <1>4 DEF SaveBid, BidWrite
  <2>2. /\ bids[session[s].id] \in BidRow
        /\ session[s].row = [bids[session[s].id] EXCEPT !.status = "withdrawn"]
    BY <1>1, <2>1 DEF LoadedRowsAreConsistent, TypeOK
  <2>3. session[s].row.status = "withdrawn"
    BY <2>2 DEF BidRow
  <2> QED
    BY <1>1, <1>4, <2>1, <2>3 DEF SaveBid, TypeOK
<1> QED
  BY <1>2, <1>3, <1>4
     DEF Next, Handle, vars, Crash, CreateRequirement, UpdateStatus, Update, LoadRequirement,
         SaveRequirement, Withdraw, Sign, Complete, Abort

\* One request at a time, what Withdraw marks withdrawn is still the pending bid
\* it checked: an accepted bid is never withdrawn.
THEOREM SerialWithdraws ==
    ASSUME NEW one, Session = {one}
    PROVE  Spec => WithdrawnFromPending
<1> DEFINE Unrejected == \A b \in BidId : bids[b] # None => bids[b].status # "rejected"
<1>1. Init => Unrejected
  BY SeedAssumption DEF Init
<1>2. Inv /\ Unrejected /\ [Next]_vars => Unrejected'
  <2> SUFFICES ASSUME Inv, Unrejected, [Next]_vars, NEW c \in BidId, bids'[c] # None
               PROVE  bids'[c].status # "rejected"
    OBVIOUS
  <2> QED
    BY BidChanges
<1>3. Inv /\ NoStaleLoad /\ Unrejected /\ [Next]_vars =>
          [\A b \in BidId : bids[b] # None /\ bids'[b].status = "withdrawn" =>
                               bids[b].status \in {"pending", "withdrawn"}]_vars
  <2> SUFFICES ASSUME Inv, NoStaleLoad, Unrejected, [Next]_vars, NEW c \in BidId,
                      bids[c] # None, bids'[c].status = "withdrawn"
               PROVE  bids[c].status \in {"pending", "withdrawn"}
    OBVIOUS
  <2>1. bids[c].status \in BidStatus
    BY DEF Inv, TypeOK, BidRow
  <2>2. ASSUME NEW s \in Session, session[s] \in BidWrite, session[s].id = c
        PROVE  bids[c].status # "accepted"
    BY <2>2 DEF NoStaleLoad, Fresh
  <2> QED
    BY <2>1, <2>2, BidChanges DEF BidStatus
<1> QED
  BY <1>1, <1>2, <1>3, SerialIsFresh, Invariant, PTL DEF Spec, WithdrawnFromPending

-----------------------------------------------------------------------------
\* The notifications table as the notification center sees it: a step sends one
\* notification, for an event that has none, or leaves all of them alone.
SendsAtMostOne ==
    \/ UNCHANGED notifications
    \/ \E e \in Event, u \in User :
          /\ notifications[e] = None
          /\ notifications' = [notifications EXCEPT ![e] = u]

\* Whatever the services do, no step sends more than one notification.
LEMMA SendsStep == Inv /\ [Next]_vars => SendsAtMostOne
<1> SUFFICES ASSUME Inv, [Next]_vars PROVE SendsAtMostOne
  OBVIOUS
<1>1. ASSUME NEW biz \in NotificationType, NEW b \in BidId, NEW u \in User,
             notifications' = Notify(biz, b, u)
      PROVE  SendsAtMostOne
  BY <1>1 DEF SendsAtMostOne, Notify, Event
<1>2. /\ {"bid_submitted", "bid_accepted", "contract_signed", "contract_completed"}
            \subseteq NotificationType
      /\ TypeOK
  BY DEF NotificationType, Inv
<1>3. ASSUME NEW s \in Session, NEW u \in User, NEW r \in RequirementId, NEW b \in BidId,
             CreateBid(s, u, r, b)
      PROVE  SendsAtMostOne
  <2>1. requirements[r].publisher \in User
    BY <1>2, <1>3 DEF CreateBid, MayBid, TypeOK, RequirementRow
  <2> QED
    BY <1>1, <1>2, <1>3, <2>1 DEF CreateBid
<1>4. ASSUME NEW s \in Session, NEW u \in User, NEW r \in RequirementId, NEW b \in BidId,
             AcceptBid(s, u, r, b)
      PROVE  SendsAtMostOne
  <2>1. bids[b].bidder \in User
    BY <1>2, <1>4 DEF AcceptBid, Acceptable, TypeOK, BidRow
  <2> QED
    BY <1>1, <1>2, <1>4, <2>1 DEF AcceptBid
<1>5. ASSUME NEW b \in BidId, contracts[b] # None
      PROVE  contracts[b].partyA \in User /\ contracts[b].partyB \in User
  BY <1>2, <1>5 DEF TypeOK, ContractRow
<1>6. ASSUME NEW s \in Session, NEW u \in User, NEW b \in BidId, Sign(s, u, b)
      PROVE  SendsAtMostOne
  <2>1. OtherParty(contracts[b], u) \in User
    BY <1>5, <1>6 DEF Sign, MaySign, OtherParty
  <2> QED
    BY <1>1, <1>2, <1>6, <2>1 DEF Sign
<1>7. ASSUME NEW s \in Session, NEW u \in User, NEW b \in BidId, Complete(s, u, b)
      PROVE  SendsAtMostOne
  <2>1. contracts[b].partyB \in User
    BY <1>5, <1>7 DEF Complete, MayComplete
  <2> QED
    BY <1>1, <1>2, <1>7, <2>1 DEF Complete
<1>8. ASSUME UNCHANGED notifications PROVE SendsAtMostOne
  BY <1>8 DEF SendsAtMostOne
<1>9. ASSUME NEW s \in Session, Handle(s) PROVE SendsAtMostOne
  <2>1. ASSUME NEW u \in User, NEW r \in RequirementId, NEW status \in SubmittedStatus,
               CreateRequirement(s, u, r, status) \/ UpdateStatus(s, u, r, status)
        PROVE  SendsAtMostOne
    <3>1. CreateRequirement(s, u, r, status) => UNCHANGED notifications
      BY Zenon DEF CreateRequirement
    <3>2. UpdateStatus(s, u, r, status) => UNCHANGED notifications
      BY DEF UpdateStatus, LoadRequirement
    <3> QED
      BY <1>8, <2>1, <3>1, <3>2
  <2>2. ASSUME NEW u \in User, NEW r \in RequirementId, Update(s, u, r)
        PROVE  SendsAtMostOne
    BY <1>8, <2>2 DEF Update, LoadRequirement
  <2>3. ASSUME NEW u \in User, NEW b \in BidId, Withdraw(s, u, b)
        PROVE  SendsAtMostOne
    BY <1>8, <2>3 DEF Withdraw
  <2>4. CASE SaveRequirement(s) \/ SaveBid(s) \/ Abort(s)
    BY <1>8, <2>4 DEF SaveRequirement, SaveBid, Abort
  <2> QED
    BY <1>3, <1>4, <1>6, <1>7, <1>9, <2>1, <2>2, <2>3, <2>4 DEF Handle
<1> QED
  BY <1>8, <1>9 DEF Next, vars, Crash

\* What NotificationCenter takes from the services: whatever they do, events are
\* recorded one at a time, once, for a recipient that is an account and never
\* changes afterwards (its constant Recipient, its action Notify).
THEOREM NotificationsAreSentOnce == Spec => [][SendsAtMostOne]_vars
  BY SendsStep, Invariant, PTL DEF Spec

=============================================================================
