-------------------------- MODULE OperationLogProofs --------------------------
(***************************************************************************)
(* Proofs about OperationLog, for every set of users, requirements, bids   *)
(* and sessions and every seed the assumptions allow.                      *)
(***************************************************************************)
EXTENDS OperationLog, MarketplaceProofs

-----------------------------------------------------------------------------
(* The log rides on the marketplace: its steps are steps of the tables.     *)

LEMMA LogStepsAreSteps == [LogNext]_logVars => [Next]_vars
  BY DEF LogNext, logVars, vars, Next, Handle, CrashUnrecorded, Operate, SaveLoaded,
         AbortOperation, Record, RecordFails

-----------------------------------------------------------------------------
(* The inductive invariant.  What is in a session's hands when it records   *)
(* decides what the log says: while the row it loaded is not saved the      *)
(* entry names that row, afterwards the entry has happened.                 *)

\* Entry e tells of the Save of w.
TellsOf(e, w) ==
    /\ w \in RequirementWrite =>
          e \in {StatusEntry(w.row.publisher, w.id, w.row.status),
                 Entry(w.row.publisher, "requirement.update", w.id)}
    /\ w \in BidWrite => e = Entry(w.row.bidder, "bid.withdraw", w.id)

InHand(s) == toRecord[s] # None =>
    IF Idle(s) THEN Happened(toRecord[s]) ELSE TellsOf(toRecord[s], session[s])

LogInv ==
    /\ Inv
    /\ LogTypeOK
    /\ \A s \in Session : InHand(s)
    /\ LogTellsTheTruth

LEMMA LogInvInit == LogInit => LogInv
<1> SUFFICES ASSUME LogInit PROVE LogInv
  OBVIOUS
<1>1. Inv
  BY InvInit DEF LogInit
<1>2. \A s \in Session : Idle(s)
  BY DEF LogInit, Init, Idle
<1> QED
  BY <1>1, <1>2 DEF LogInit, LogInv, LogTypeOK, InHand, LogTellsTheTruth

\* What the tables say of a signature.
LEMMA Signatures ==
    ASSUME Inv, NEW b \in BidId, contracts[b] # None
    PROVE  /\ contracts[b].partyA \in User /\ contracts[b].partyB \in User
           /\ contracts[b].partyA # contracts[b].partyB
           /\ contracts[b].status = "pending_signature" =>
                  notifications[<<"contract_signed", b>>] = None
           /\ contracts[b].status # "pending_signature" =>
                  notifications[<<"contract_signed", b>>]
                      \in {contracts[b].partyA, contracts[b].partyB}
<1>1. contracts[b] \in ContractRow
  BY DEF Inv, TypeOK
<1>2. contracts[b].partyA # contracts[b].partyB
  BY DEF Inv, ContractsMatchBids, BidsAreOnOthersRequirements
<1>3. /\ contracts[b].status = "pending_signature" =>
             notifications[<<"contract_signed", b>>] = None
      /\ contracts[b].status # "pending_signature" =>
             notifications[<<"contract_signed", b>>]
                 \in {contracts[b].partyA, contracts[b].partyB}
  BY DEF Inv, NotificationsMatchState
<1> QED
  BY <1>1, <1>2, <1>3 DEF ContractRow

\* A notification that was sent stays as it is.
LEMMA ToldStays ==
    ASSUME Inv, [Next]_vars, NEW e \in Event, notifications[e] # None
    PROVE  notifications'[e] = notifications[e]
  BY SendsStep DEF SendsAtMostOne, Inv, TypeOK

\* Signing tells the party that did not sign.
LEMMA SignTells ==
    ASSUME Inv, NEW s \in Session, NEW u \in User, NEW b \in BidId, Sign(s, u, b)
    PROVE  /\ contracts'[b] # None /\ contracts'[b].status = "in_progress"
           /\ u \in {contracts'[b].partyA, contracts'[b].partyB}
           /\ u # notifications'[<<"contract_signed", b>>]
           /\ {u, notifications'[<<"contract_signed", b>>]} =
                  {contracts'[b].partyA, contracts'[b].partyB}
<1>1. contracts[b] \in ContractRow /\ <<"contract_signed", b>> \in Event
  BY DEF Sign, MaySign, Inv, TypeOK, Event, NotificationType
<1>2. PICK new \in ContractRow :
          /\ new = [contracts[b] EXCEPT !.status = "in_progress"]
          /\ contracts'[b] = new
  BY <1>1 DEF Sign, Inv, TypeOK, ContractRow, ContractStatus
<1>3. /\ new.status = "in_progress"
      /\ new.partyA = contracts[b].partyA /\ new.partyB = contracts[b].partyB
  BY <1>1, <1>2 DEF ContractRow
<1>4. new # None
  BY NoneAssumption
<1>5. notifications'[<<"contract_signed", b>>] = OtherParty(contracts[b], u)
  BY <1>1, Signatures DEF Sign, MaySign, Notify, Inv, TypeOK
<1>6. u \in {contracts[b].partyA, contracts[b].partyB}
  BY DEF Sign, MaySign
<1>7. contracts[b].partyA # contracts[b].partyB
  BY Signatures DEF Sign, MaySign
<1> QED
  BY <1>2, <1>3, <1>4, <1>5, <1>6, <1>7 DEF OtherParty

\* Nothing that has happened is undone.
LEMMA HappenedStays ==
    ASSUME Inv, [Next]_vars, stored \subseteq stored', NEW e \in LogRow, Happened(e)
    PROVE  Happened(e)'
<1>1. CASE e.action = "requirement.create"
  <2>1. e.id \in RequirementId
    BY <1>1 DEF LogRow, RequirementAction, BidAction
  <2>2. requirements[e.id] # None /\ requirements[e.id].publisher = e.user
    BY <1>1 DEF Happened
  <2>3. requirements'[e.id] # None /\ requirements'[e.id].publisher = e.user
    BY <2>1, <2>2, RequirementsForward
  <2> QED
    BY <1>1, <2>3 DEF Happened
<1>2. CASE e.action = "bid.create"
  <2>1. e.id \in BidId
    BY <1>2 DEF LogRow, RequirementAction
  <2>2. bids[e.id] # None /\ bids[e.id].bidder = e.user
    BY <1>2 DEF Happened
  <2>3. bids'[e.id] # None /\ bids'[e.id].bidder = e.user
    BY <2>1, <2>2, BidsForward
  <2> QED
    BY <1>2, <2>3 DEF Happened
<1>3. CASE e.action = "bid.withdraw"
  <2>1. e.id \in BidId
    BY <1>3 DEF LogRow, RequirementAction
  <2>2. bids[e.id] # None /\ bids[e.id].bidder = e.user /\ bids[e.id].status = "withdrawn"
    BY <1>3 DEF Happened
  <2>3. bids'[e.id] # None /\ bids'[e.id].bidder = e.user /\ bids'[e.id].status = "withdrawn"
    BY <2>1, <2>2, BidsForward
  <2> QED
    BY <1>3, <2>3 DEF Happened
<1>4. CASE e.action = "requirement.accept_bid"
  <2>1. e.id \in BidId
    BY <1>4 DEF LogRow, RequirementAction
  <2>2. contracts[e.id] # None /\ contracts[e.id].partyA = e.user
    BY <1>4 DEF Happened
  <2>3. contracts'[e.id] # None /\ contracts'[e.id].partyA = e.user
    BY <2>1, <2>2, ContractsForward
  <2> QED
    BY <1>4, <2>3 DEF Happened
<1>5. CASE e.action = "contract.sign"
  <2>1. e.id \in BidId
    BY <1>5 DEF LogRow, RequirementAction
  <2> DEFINE told == notifications[<<"contract_signed", e.id>>]
  <2>2. /\ contracts[e.id] # None /\ contracts[e.id].status # "pending_signature"
        /\ e.user # told /\ {e.user, told} = {contracts[e.id].partyA, contracts[e.id].partyB}
    BY <1>5 DEF Happened
  <2>3. /\ contracts'[e.id] # None /\ contracts'[e.id].status # "pending_signature"
        /\ contracts'[e.id].partyA = contracts[e.id].partyA
        /\ contracts'[e.id].partyB = contracts[e.id].partyB
    BY <2>1, <2>2, ContractsForward
  <2>4. told' = told
    <3>1. told \in User /\ told # None
      BY <2>1, <2>2, Signatures, NoneAssumption
    <3>2. <<"contract_signed", e.id>> \in Event
      BY <2>1 DEF Event, NotificationType
    <3> QED
      BY <3>1, <3>2, ToldStays
  <2>5. e.user # told' /\ {e.user, told'} = {contracts'[e.id].partyA, contracts'[e.id].partyB}
    BY <2>2, <2>3, <2>4
  <2> QED
    BY <1>5, <2>3, <2>5 DEF Happened
<1>6. CASE e.action = "contract.complete"
  <2>1. e.id \in BidId
    BY <1>6 DEF LogRow, RequirementAction
  <2>2. /\ contracts[e.id] # None /\ contracts[e.id].partyA = e.user
        /\ contracts[e.id].status = "completed"
    BY <1>6 DEF Happened
  <2>3. /\ contracts'[e.id] # None /\ contracts'[e.id].partyA = e.user
        /\ contracts'[e.id].status = "completed"
    BY <2>1, <2>2, ContractsForward
  <2> QED
    BY <1>6, <2>3 DEF Happened
<1>7. CASE e.action \in {"requirement.update", "requirement.status"}
  BY <1>7 DEF Happened
<1> QED
  BY <1>1, <1>2, <1>3, <1>4, <1>5, <1>6, <1>7 DEF LogRow, RequirementAction, BidAction

\* A write that commits at once has happened when the session is idle again.
LEMMA OperationsHappen ==
    ASSUME Inv, NEW s \in Session, NEW u \in User
    PROVE  /\ \A r \in RequirementId, status \in SubmittedStatus :
                  CreateRequirement(s, u, r, status) =>
                      Happened(Entry(u, "requirement.create", r))'
           /\ \A r \in RequirementId, b \in BidId :
                  /\ CreateBid(s, u, r, b) => Happened(Entry(u, "bid.create", b))'
                  /\ AcceptBid(s, u, r, b) => Happened(Entry(u, "requirement.accept_bid", b))'
           /\ \A b \in BidId :
                  /\ Sign(s, u, b) => Happened(Entry(u, "contract.sign", b))'
                  /\ Complete(s, u, b) => Happened(Entry(u, "contract.complete", b))'
<1>1. TypeOK
  BY DEF Inv
<1>2. ASSUME NEW r \in RequirementId, NEW status \in SubmittedStatus,
             CreateRequirement(s, u, r, status)
      PROVE  Happened(Entry(u, "requirement.create", r))'
  <2>1. PICK initial \in RequirementStatus :
            requirements'[r] = [publisher |-> u, status |-> initial, winner |-> None]
    BY <1>1, <1>2 DEF CreateRequirement, TypeOK
  <2>2. requirements'[r] \in RequirementRow
    BY <2>1 DEF RequirementRow
  <2>3. requirements'[r] # None
    BY <2>2, NoneAssumption
  <2> QED
    BY <2>1, <2>3 DEF Happened, Entry
<1>3. ASSUME NEW r \in RequirementId, NEW b \in BidId, CreateBid(s, u, r, b)
      PROVE  Happened(Entry(u, "bid.create", b))'
  <2>1. PICK new \in BidRow : new.bidder = u /\ bids'[b] = new
    BY <1>1, <1>3 DEF CreateBid, TypeOK, BidRow, BidStatus
  <2>2. new # None
    BY NoneAssumption
  <2> QED
    BY <2>1, <2>2 DEF Happened, Entry
<1>4. ASSUME NEW r \in RequirementId, NEW b \in BidId, AcceptBid(s, u, r, b)
      PROVE  Happened(Entry(u, "requirement.accept_bid", b))'
  <2>1. bids[b] \in BidRow
    BY <1>1, <1>4 DEF AcceptBid, Acceptable, TypeOK
  <2>2. PICK new \in ContractRow : new.partyA = u /\ contracts'[b] = new
    BY <1>1, <1>4, <2>1
       DEF AcceptBid, TypeOK, ContractFromBid, ContractRow, ContractStatus, StageStatus, BidRow
  <2>3. new # None
    BY NoneAssumption
  <2> QED
    BY <2>2, <2>3 DEF Happened, Entry
<1>5. ASSUME NEW b \in BidId, Sign(s, u, b)
      PROVE  Happened(Entry(u, "contract.sign", b))'
  BY <1>5, SignTells DEF Happened, Entry
<1>6. ASSUME NEW b \in BidId, Complete(s, u, b)
      PROVE  Happened(Entry(u, "contract.complete", b))'
  <2>1. contracts[b] \in ContractRow /\ contracts[b].partyA = u
    BY <1>1, <1>6 DEF Complete, MayComplete, TypeOK
  <2> DEFINE row == [[contracts[b] EXCEPT !.status = "completed"]
                        EXCEPT !.stages = [i \in 1..3 |-> "done"]]
  <2>2. row \in ContractRow /\ row.status = "completed" /\ row.partyA = u
    BY <2>1 DEF ContractRow, ContractStatus, StageStatus
  <2> HIDE DEF row
  <2>3. PICK new : new = row /\ contracts'[b] = new
    BY <1>1, <1>6, <2>1 DEF Complete, TypeOK, row
  <2>4. new # None
    BY <2>2, <2>3, NoneAssumption
  <2> QED
    BY <2>2, <2>3, <2>4 DEF Happened, Entry
<1> QED
  BY <1>2, <1>3, <1>4, <1>5, <1>6

\* A write that is loaded is what the entry tells of.
LEMMA LoadsAreTold ==
    ASSUME Inv, NEW s \in Session, NEW u \in User
    PROVE  /\ \A r \in RequirementId, status \in SubmittedStatus : UpdateStatus(s, u, r, status) =>
                  /\ ~Idle(s)'
                  /\ TellsOf(StatusEntry(u, r, status), session'[s])
           /\ \A r \in RequirementId : Update(s, u, r) =>
                  /\ ~Idle(s)'
                  /\ TellsOf(Entry(u, "requirement.update", r), session'[s])
           /\ \A b \in BidId : Withdraw(s, u, b) =>
                  /\ ~Idle(s)'
                  /\ TellsOf(Entry(u, "bid.withdraw", b), session'[s])
<1>1. TypeOK
  BY DEF Inv
<1>2. ASSUME NEW r \in RequirementId, NEW status \in RequirementStatus,
             LoadRequirement(s, u, r, status)
      PROVE  /\ ~Idle(s)'
             /\ TellsOf(StatusEntry(u, r, status), session'[s])
             /\ TellsOf(Entry(u, "requirement.update", r), session'[s])
  <2>1. requirements[r] \in RequirementRow /\ requirements[r].publisher = u
    BY <1>1, <1>2 DEF LoadRequirement, TypeOK
  <2>2. PICK new :
            /\ new = [table |-> "requirements", id |-> r,
                      row |-> [requirements[r] EXCEPT !.status = status]]
            /\ session'[s] = new
    BY <1>1, <1>2 DEF LoadRequirement, TypeOK
  <2>3. /\ new \in RequirementWrite /\ new \notin BidWrite
        /\ new.id = r /\ new.row.publisher = u /\ new.row.status = status
    BY <2>1, <2>2 DEF RequirementWrite, BidWrite, RequirementRow
  <2>4. new # None
    BY <2>3, NoneAssumption
  <2> QED
    BY <1>2, <2>2, <2>3, <2>4 DEF Idle, TellsOf, Entry
<1>3. ASSUME NEW r \in RequirementId, Update(s, u, r)
      PROVE  ~Idle(s)' /\ TellsOf(Entry(u, "requirement.update", r), session'[s])
  <2>1. PICK status \in RequirementStatus : LoadRequirement(s, u, r, status)
    BY <1>1, <1>3 DEF Update, TypeOK, RequirementRow
  <2> QED
    BY <1>2, <2>1
<1>4. ASSUME NEW b \in BidId, Withdraw(s, u, b)
      PROVE  ~Idle(s)' /\ TellsOf(Entry(u, "bid.withdraw", b), session'[s])
  <2>1. bids[b] \in BidRow /\ bids[b].bidder = u
    BY <1>1, <1>4 DEF Withdraw, MayWithdraw, TypeOK
  <2>2. PICK new :
            /\ new = [table |-> "bids", id |-> b, row |-> [bids[b] EXCEPT !.status = "withdrawn"]]
            /\ session'[s] = new
    BY <1>1, <1>4 DEF Withdraw, TypeOK
  <2>3. /\ new \in BidWrite /\ new \notin RequirementWrite
        /\ new.id = b /\ new.row.bidder = u
    BY <2>1, <2>2 DEF RequirementWrite, BidWrite, BidRow, BidStatus
  <2>4. new # None
    BY <2>3, NoneAssumption
  <2> QED
    BY <1>4, <2>2, <2>3, <2>4 DEF Idle, TellsOf, Entry
<1> QED
  BY <1>2, <1>3, <1>4 DEF UpdateStatus

\* What is put in the table is what the entry of its Save tells of.
LEMMA EntryIsStored ==
    ASSUME Inv, NEW s \in Session, SaveRequirement(s), NEW e, TellsOf(e, session[s])
    PROVE  NowStored(session[s].id, e.action) = e
<1>1. /\ session[s] \in RequirementWrite
      /\ requirements'[session[s].id] = session[s].row
  BY DEF SaveRequirement, Inv, TypeOK, RequirementWrite
<1> DEFINE w == session[s]
<1>2. CASE e = StatusEntry(w.row.publisher, w.id, w.row.status)
  BY <1>1, <1>2 DEF NowStored, StatusEntry
<1>3. CASE e = Entry(w.row.publisher, "requirement.update", w.id)
  BY <1>1, <1>3 DEF NowStored, Entry
<1> QED
  BY <1>1, <1>2, <1>3 DEF TellsOf

\* Once the loaded row is saved, the entry that tells of it has happened.
LEMMA SavesHappen ==
    ASSUME Inv, NEW s \in Session, SaveLoaded(s), NEW e \in LogRow, e = toRecord[s],
           TellsOf(e, session[s])
    PROVE  Happened(e)'
<1>1. TypeOK /\ LoadedRowsAreConsistent
  BY DEF Inv
<1>2. CASE SaveRequirement(s)
  <2>1. session[s] \in RequirementWrite /\ session[s] \notin BidWrite
    BY <1>2 DEF SaveRequirement, RequirementWrite, BidWrite
  <2>2. e \in stored'
    BY <1>2, <2>1, EntryIsStored DEF SaveLoaded, SaveBid
  <2>3. e.action \in {"requirement.update", "requirement.status"}
    BY <2>1 DEF TellsOf, Entry, StatusEntry
  <2> QED
    BY <2>2, <2>3 DEF Happened
<1>3. CASE SaveBid(s)
  <2>1. session[s] \in BidWrite /\ bids'[session[s].id] = session[s].row
    BY <1>1, <1>3 DEF SaveBid, TypeOK, BidWrite
  <2>2. session[s].row \in BidRow
    BY <2>1 DEF BidWrite
  <2>3. session[s].row # None
    BY <2>2, NoneAssumption
  <2>4. session[s].id \in BidId /\ bids[session[s].id] \in BidRow
    BY <1>1, <2>1 DEF LoadedRowsAreConsistent, TypeOK, BidWrite
  <2>5. session[s].row.status = "withdrawn"
    BY <1>1, <2>1, <2>4 DEF LoadedRowsAreConsistent, BidRow
  <2>6. /\ e.action = "bid.withdraw" /\ e.id = session[s].id
        /\ e.user = session[s].row.bidder
    BY <2>1 DEF TellsOf, Entry
  <2>7. /\ bids'[e.id] # None /\ bids'[e.id].bidder = e.user
        /\ bids'[e.id].status = "withdrawn"
    BY <2>1, <2>3, <2>5, <2>6
  <2> QED
    BY <2>6, <2>7 DEF Happened
<1> QED
  BY <1>2, <1>3 DEF SaveLoaded

\* Session s takes entry e in hand, and leaves the others alone.
TakesInHand(s, e) ==
    /\ toRecord[s] = None
    /\ toRecord' = [toRecord EXCEPT ![s] = e]
    /\ UNCHANGED <<log, unrecorded, stored>>
    /\ IF Idle(s)' THEN Happened(e)' ELSE TellsOf(e, session'[s])
    /\ \A t \in Session : t # s => session'[t] = session[t]

\* Whatever method a session runs, the entry it takes in hand is right.
LEMMA OperationsInHand ==
    ASSUME Inv, NEW s \in Session, Operate(s)
    PROVE  \E e \in LogRow : TakesInHand(s, e)
<1>1. TypeOK
  BY DEF Inv
<1>2. ASSUME NEW u \in User, NEW r \in RequirementId, NEW status \in SubmittedStatus,
             CreateRequirement(s, u, r, status), WillRecord(s, Entry(u, "requirement.create", r))
      PROVE  TakesInHand(s, Entry(u, "requirement.create", r))
  <2>1. Idle(s)' /\ UNCHANGED session
    BY <1>2 DEF CreateRequirement, Idle
  <2>2. Happened(Entry(u, "requirement.create", r))'
    BY <1>2, OperationsHappen
  <2> QED
    BY <1>2, <2>1, <2>2 DEF TakesInHand, WillRecord
<1>3. ASSUME NEW u \in User, NEW r \in RequirementId, NEW b \in BidId,
             CreateBid(s, u, r, b), WillRecord(s, Entry(u, "bid.create", b))
      PROVE  TakesInHand(s, Entry(u, "bid.create", b))
  <2>1. Idle(s)' /\ UNCHANGED session
    BY <1>3 DEF CreateBid, Idle
  <2>2. Happened(Entry(u, "bid.create", b))'
    BY <1>3, OperationsHappen
  <2> QED
    BY <1>3, <2>1, <2>2 DEF TakesInHand, WillRecord
<1>4. ASSUME NEW u \in User, NEW r \in RequirementId, NEW b \in BidId,
             AcceptBid(s, u, r, b), WillRecord(s, Entry(u, "requirement.accept_bid", b))
      PROVE  TakesInHand(s, Entry(u, "requirement.accept_bid", b))
  <2>1. Idle(s)' /\ UNCHANGED session
    BY <1>4 DEF AcceptBid, Idle
  <2>2. Happened(Entry(u, "requirement.accept_bid", b))'
    BY <1>4, OperationsHappen
  <2> QED
    BY <1>4, <2>1, <2>2 DEF TakesInHand, WillRecord
<1>5. ASSUME NEW u \in User, NEW b \in BidId,
             Sign(s, u, b), WillRecord(s, Entry(u, "contract.sign", b))
      PROVE  TakesInHand(s, Entry(u, "contract.sign", b))
  <2>1. Idle(s)' /\ UNCHANGED session
    BY <1>5 DEF Sign, Idle
  <2>2. Happened(Entry(u, "contract.sign", b))'
    BY <1>5, OperationsHappen
  <2> QED
    BY <1>5, <2>1, <2>2 DEF TakesInHand, WillRecord
<1>6. ASSUME NEW u \in User, NEW b \in BidId,
             Complete(s, u, b), WillRecord(s, Entry(u, "contract.complete", b))
      PROVE  TakesInHand(s, Entry(u, "contract.complete", b))
  <2>1. Idle(s)' /\ UNCHANGED session
    BY <1>6 DEF Complete, Idle
  <2>2. Happened(Entry(u, "contract.complete", b))'
    BY <1>6, OperationsHappen
  <2> QED
    BY <1>6, <2>1, <2>2 DEF TakesInHand, WillRecord
<1>7. ASSUME NEW u \in User, NEW r \in RequirementId, NEW status \in SubmittedStatus,
             UpdateStatus(s, u, r, status), WillRecord(s, StatusEntry(u, r, status))
      PROVE  TakesInHand(s, StatusEntry(u, r, status))
  <2>1. \A t \in Session : t # s => session'[t] = session[t]
    BY <1>1, <1>7 DEF UpdateStatus, LoadRequirement, TypeOK
  <2>2. ~Idle(s)' /\ TellsOf(StatusEntry(u, r, status), session'[s])
    BY <1>7, LoadsAreTold
  <2> QED
    BY <1>7, <2>1, <2>2 DEF TakesInHand, WillRecord
<1>8. ASSUME NEW u \in User, NEW r \in RequirementId,
             Update(s, u, r), WillRecord(s, Entry(u, "requirement.update", r))
      PROVE  TakesInHand(s, Entry(u, "requirement.update", r))
  <2>1. \A t \in Session : t # s => session'[t] = session[t]
    BY <1>1, <1>8 DEF Update, LoadRequirement, TypeOK
  <2>2. ~Idle(s)' /\ TellsOf(Entry(u, "requirement.update", r), session'[s])
    BY <1>8, LoadsAreTold
  <2> QED
    BY <1>8, <2>1, <2>2 DEF TakesInHand, WillRecord
<1>9. ASSUME NEW u \in User, NEW b \in BidId,
             Withdraw(s, u, b), WillRecord(s, Entry(u, "bid.withdraw", b))
      PROVE  TakesInHand(s, Entry(u, "bid.withdraw", b))
  <2>1. \A t \in Session : t # s => session'[t] = session[t]
    BY <1>1, <1>9 DEF Withdraw, TypeOK
  <2>2. ~Idle(s)' /\ TellsOf(Entry(u, "bid.withdraw", b), session'[s])
    BY <1>9, LoadsAreTold
  <2> QED
    BY <1>9, <2>1, <2>2 DEF TakesInHand, WillRecord
<1>10. \A u \in User :
          /\ \A r \in RequirementId, action \in RequirementAction : Entry(u, action, r) \in LogRow
          /\ \A b \in BidId, action \in BidAction : Entry(u, action, b) \in LogRow
  BY DEF Entry, LogRow
<1>11. ASSUME NEW u \in User, NEW r \in RequirementId, NEW status \in SubmittedStatus,
              UpdateStatus(s, u, r, status)
       PROVE  StatusEntry(u, r, status) \in LogRow
  BY <1>11 DEF UpdateStatus, StatusEntry, LogRow
<1> QED
  BY <1>2, <1>3, <1>4, <1>5, <1>6, <1>7, <1>8, <1>9, <1>10, <1>11
     DEF Operate, RequirementAction, BidAction

\* A session that no step touches keeps its entry right.
LEMMA OthersInHand ==
    ASSUME LogInv, [Next]_vars, stored \subseteq stored', NEW t \in Session,
           toRecord'[t] = toRecord[t], session'[t] = session[t]
    PROVE  InHand(t)'
<1>1. InHand(t) /\ Inv /\ (toRecord[t] # None => toRecord[t] \in LogRow)
  BY DEF LogInv, LogTypeOK
<1>2. Idle(t)' <=> Idle(t)
  BY DEF Idle
<1>3. ASSUME NEW e, e = toRecord[t], e # None, Idle(t) PROVE Happened(e)'
  BY <1>1, <1>3, HappenedStays DEF InHand
<1>4. CASE toRecord[t] # None /\ Idle(t)
  <2>1. PICK e : e = toRecord[t]
    OBVIOUS
  <2>2. Happened(e)' /\ toRecord'[t] = e
    BY <1>3, <1>4, <2>1
  <2> QED
    BY <1>2, <1>4, <2>2 DEF InHand, Happened
<1>5. CASE toRecord[t] # None /\ ~Idle(t)
  <2>1. TellsOf(toRecord[t], session[t])
    BY <1>1, <1>5 DEF InHand
  <2> QED
    BY <1>2, <1>5, <2>1 DEF InHand
<1> QED
  BY <1>4, <1>5 DEF InHand

LEMMA LogInvStep == LogInv /\ [LogNext]_logVars => LogInv'
<1> SUFFICES ASSUME LogInv, [LogNext]_logVars PROVE LogInv'
  OBVIOUS
<1>1. [Next]_vars /\ Inv /\ LogTypeOK /\ LogTellsTheTruth /\ TypeOK
  BY LogStepsAreSteps DEF LogInv, Inv
<1>2. stored \subseteq stored'
  BY DEF LogNext, logVars, CrashUnrecorded, Operate, WillRecord, SaveLoaded, AbortOperation,
         Record, RecordFails
<1>3. Inv'
  BY <1>1, InvStep
<1>4. \A e \in log : Happened(e)'
  BY <1>1, <1>2, HappenedStays DEF LogTypeOK, LogTellsTheTruth
<1>5. ASSUME NEW e \in log' PROVE e \in log \/ \E s \in Session : Record(s) /\ e = toRecord[s]
  BY <1>5 DEF LogNext, logVars, CrashUnrecorded, Operate, WillRecord, SaveLoaded,
              AbortOperation, Record, RecordFails
<1>6. LogTellsTheTruth'
  <2> SUFFICES ASSUME NEW e \in log' PROVE Happened(e)'
    BY DEF LogTellsTheTruth
  <2>1. ASSUME NEW s \in Session, Record(s), e = toRecord[s] PROVE Happened(e)'
    <3>1. Happened(e) /\ e \in LogRow
      BY <1>1, <2>1 DEF Record, LogInv, InHand, LogTypeOK
    <3> QED
      BY <1>1, <1>2, <3>1, HappenedStays
  <2> QED
    BY <1>4, <1>5, <2>1
<1> DEFINE Goal == LogTypeOK' /\ \A t \in Session : InHand(t)'
<1>7. ASSUME NEW s \in Session, Operate(s) PROVE Goal
  <2>1. PICK e \in LogRow : TakesInHand(s, e)
    BY <1>1, <1>7, OperationsInHand
  <2>2. /\ toRecord'[s] = e
        /\ \A t \in Session : t # s => toRecord'[t] = toRecord[t] /\ session'[t] = session[t]
    BY <1>1, <2>1 DEF TakesInHand, LogTypeOK
  <2>3. InHand(s)'
    <3>1. CASE Idle(s)'
      BY <2>1, <2>2, <3>1 DEF TakesInHand, InHand, Happened
    <3>2. CASE ~Idle(s)'
      BY <2>1, <2>2, <3>2 DEF TakesInHand, InHand
    <3> QED
      BY <3>1, <3>2
  <2>4. \A t \in Session : t # s => InHand(t)'
    BY <1>1, <2>2, <1>2, OthersInHand
  <2>5. LogTypeOK'
    <3>1. \A t \in Session : ~Idle(t)' => toRecord'[t] # None
      BY <1>1, <2>2, LogAssumption DEF LogTypeOK, Idle
    <3> QED
      BY <1>1, <2>1, <3>1 DEF LogTypeOK, TakesInHand, Idle
  <2> QED
    BY <2>3, <2>4, <2>5
<1>8. ASSUME NEW s \in Session, SaveLoaded(s) PROVE Goal
  <2>1. /\ ~Idle(s) /\ Idle(s)'
        /\ \A t \in Session : t # s => session'[t] = session[t]
    BY <1>1, <1>8, NoneAssumption DEF SaveLoaded, SaveRequirement, SaveBid, Idle, TypeOK
  <2>2. UNCHANGED <<log, toRecord, unrecorded>>
    BY <1>8 DEF SaveLoaded
  <2>3. \A t \in Session : t # s => InHand(t)'
    BY <1>1, <2>1, <2>2, <1>2, OthersInHand
  <2>4. PICK e : e = toRecord[s]
    OBVIOUS
  <2>5. e \in LogRow /\ e # None /\ TellsOf(e, session[s])
    BY <1>1, <2>1, <2>4 DEF LogTypeOK, LogInv, InHand
  <2>6. Happened(e)'
    BY <1>1, <1>8, <2>4, <2>5, SavesHappen
  <2>7. InHand(s)'
    BY <2>1, <2>2, <2>4, <2>6 DEF InHand, Happened
  <2>8. stored' \subseteq stored \cup {e}
    <3>1. SaveRequirement(s) => NowStored(session[s].id, e.action) = e
      BY <1>1, <2>5, EntryIsStored
    <3> QED
      BY <1>8, <2>4, <3>1 DEF SaveLoaded
  <2>9. LogTypeOK'
    BY <1>1, <2>1, <2>2, <2>5, <2>8 DEF LogTypeOK, Idle
  <2> QED
    BY <2>3, <2>7, <2>9
<1>9. ASSUME NEW s \in Session, AbortOperation(s) \/ Record(s) \/ RecordFails(s) PROVE Goal
  <2>1. /\ toRecord'[s] = None /\ Idle(s)'
        /\ \A t \in Session : t # s => toRecord'[t] = toRecord[t] /\ session'[t] = session[t]
    BY <1>1, <1>9 DEF AbortOperation, Abort, Record, RecordFails, Idle, vars, TypeOK, LogTypeOK
  <2>2. \A t \in Session : t # s => InHand(t)'
    BY <1>1, <2>1, <1>2, OthersInHand
  <2>3. InHand(s)'
    BY <2>1 DEF InHand
  <2>4. \A t \in Session : ~Idle(t)' => toRecord'[t] # None
    BY <1>1, <2>1 DEF LogTypeOK, Idle
  <2>5. /\ toRecord' = [toRecord EXCEPT ![s] = None]
        /\ log' \subseteq LogRow /\ unrecorded' \subseteq LogRow /\ stored' = stored
    BY <1>1, <1>9 DEF AbortOperation, Record, RecordFails, LogTypeOK
  <2>6. LogTypeOK'
    BY <1>1, <2>4, <2>5 DEF LogTypeOK, Idle
  <2> QED
    BY <2>2, <2>3, <2>6
<1>10. ASSUME CrashUnrecorded PROVE Goal
  <2>1. \A t \in Session : Idle(t)' /\ toRecord'[t] = None
    BY <1>10 DEF CrashUnrecorded, Crash, Idle
  <2>2. LogTypeOK'
    BY <1>1, <1>10, <2>1 DEF CrashUnrecorded, LogTypeOK, Idle
  <2> QED
    BY <2>1, <2>2 DEF InHand
<1>11. ASSUME UNCHANGED logVars PROVE Goal
  <2>1. \A t \in Session : InHand(t)'
    BY <1>1, <1>11, <1>2, OthersInHand DEF logVars, vars
  <2>2. LogTypeOK'
    BY <1>1, <1>11 DEF logVars, vars, LogTypeOK, Idle
  <2> QED
    BY <2>1, <2>2
<1>12. Goal
  BY <1>7, <1>8, <1>9, <1>10, <1>11 DEF LogNext
<1> QED
  BY <1>3, <1>6, <1>12 DEF LogInv

THEOREM LogInvariant == LogSpec => []LogInv
  BY LogInvInit, LogInvStep, PTL DEF LogSpec

\* The log and what the methods hold for it stay well typed; a method that is
\* about to Save knows what it will record.
THEOREM LogTypeCorrect == LogSpec => []LogTypeOK
<1>1. LogInv => LogTypeOK
  BY DEF LogInv
<1> QED
  BY <1>1, LogInvariant, PTL

\* Every row of the operation log tells of a write that has committed, done by
\* the user it names: of an update and of a change of status, that it was in the
\* table, with the status the row names; of the rest, that nothing has undone it
\* since.  A failed, aborted or interrupted operation is never logged.
THEOREM LogIsTrue == LogSpec => []LogTellsTheTruth
<1>1. LogInv => LogTellsTheTruth
  BY DEF LogInv
<1> QED
  BY <1>1, LogInvariant, PTL

-----------------------------------------------------------------------------
(* Nothing but failures is missing.                                         *)

\* The parts of OnlyFailuresAreMissing for one bid or one requirement.
BidLogged(b) ==
    /\ bids[b] # None /\ SeedBid[b] = None =>
          Entry(bids[b].bidder, "bid.create", b) \in Accounted
    /\ bids[b] # None /\ bids[b].status = "withdrawn" =>
          Entry(bids[b].bidder, "bid.withdraw", b) \in Accounted

ContractLogged(b) ==
    /\ contracts[b] # None =>
          Entry(contracts[b].partyA, "requirement.accept_bid", b) \in Accounted
    /\ contracts[b] # None /\ contracts[b].status # "pending_signature" =>
          \E u \in {contracts[b].partyA, contracts[b].partyB} :
              /\ u # notifications[<<"contract_signed", b>>]
              /\ Entry(u, "contract.sign", b) \in Accounted
    /\ contracts[b] # None /\ contracts[b].status = "completed" =>
          Entry(contracts[b].partyA, "contract.complete", b) \in Accounted

RequirementLogged(r) ==
    requirements[r] # None /\ SeedRequirement[r] = None =>
        Entry(requirements[r].publisher, "requirement.create", r) \in Accounted

LEMMA MissingParts ==
    OnlyFailuresAreMissing <=>
        /\ stored \subseteq Accounted
        /\ \A b \in BidId : BidLogged(b) /\ ContractLogged(b)
        /\ \A r \in RequirementId : RequirementLogged(r)
  BY DEF OnlyFailuresAreMissing, BidLogged, ContractLogged, RequirementLogged

\* An entry is always the table's, being recorded, or known to be lost.
LEMMA AccountedStays ==
    ASSUME LogInv, [LogNext]_logVars, NEW e \in Accounted, e # None
    PROVE  e \in Accounted'
<1>1. TypeOK /\ LogTypeOK
  BY DEF LogInv, Inv
<1>2. log \subseteq log' /\ unrecorded \subseteq unrecorded'
  BY <1>1 DEF LogNext, logVars, CrashUnrecorded, Operate, WillRecord, SaveLoaded,
              AbortOperation, Record, RecordFails
<1>3. ASSUME NEW t \in Session, Idle(t), e = toRecord[t]
      PROVE  (Idle(t)' /\ toRecord'[t] = e) \/ e \in log' \cup unrecorded'
  <2>1. ASSUME NEW s \in Session, Operate(s) PROVE Idle(t)' /\ toRecord'[t] = e
    <3>1. PICK n \in LogRow : TakesInHand(s, n)
      BY <2>1, OperationsInHand DEF LogInv
    <3> QED
      BY <1>1, <1>3, <3>1 DEF TakesInHand, LogTypeOK, Idle
  <2>2. ASSUME NEW s \in Session, SaveLoaded(s) \/ AbortOperation(s)
        PROVE  Idle(t)' /\ toRecord'[t] = e
    BY <1>1, <1>3, <2>2, NoneAssumption
       DEF SaveLoaded, SaveRequirement, SaveBid, AbortOperation, Abort, Idle, TypeOK, LogTypeOK
  <2>3. ASSUME NEW s \in Session, Record(s) \/ RecordFails(s)
        PROVE  (Idle(t)' /\ toRecord'[t] = e) \/ e \in log' \cup unrecorded'
    BY <1>1, <1>3, <2>3 DEF Record, RecordFails, Idle, vars, LogTypeOK
  <2>4. CASE CrashUnrecorded
    BY <1>3, <2>4 DEF CrashUnrecorded
  <2>5. CASE UNCHANGED logVars
    BY <1>3, <2>5 DEF logVars, vars, Idle
  <2> QED
    BY <2>1, <2>2, <2>3, <2>4, <2>5 DEF LogNext
<1> QED
  BY <1>2, <1>3 DEF Accounted, Idle

\* A session that takes an entry in hand and is idle afterwards accounts for it.
LEMMA InHandIsAccounted ==
    ASSUME LogTypeOK, NEW s \in Session, NEW e,
           UNCHANGED session, Idle(s), WillRecord(s, e)
    PROVE  e \in Accounted'
  BY DEF LogTypeOK, WillRecord, Accounted, Idle

\* The same, for the entries the property is about.
LEMMA EntryStays ==
    ASSUME LogInv, [LogNext]_logVars, NEW u \in User
    PROVE  /\ \A r \in RequirementId, action \in RequirementAction :
                  Entry(u, action, r) \in Accounted => Entry(u, action, r) \in Accounted'
           /\ \A b \in BidId, action \in BidAction :
                  Entry(u, action, b) \in Accounted => Entry(u, action, b) \in Accounted'
<1>1. \A e \in LogRow : e # None
  BY LogAssumption
<1>2. /\ \A r \in RequirementId, action \in RequirementAction : Entry(u, action, r) \in LogRow
      /\ \A b \in BidId, action \in BidAction : Entry(u, action, b) \in LogRow
  BY DEF Entry, LogRow
<1>3. \A e \in LogRow : e \in Accounted => e \in Accounted'
  BY <1>1, AccountedStays
<1> QED
  BY <1>2, <1>3

\* What a Save puts in the table is in the hands of its session, idle from then on.
LEMMA StoredStep ==
    ASSUME LogInv, [LogNext]_logVars, stored \subseteq Accounted
    PROVE  stored' \subseteq Accounted'
<1>1. TypeOK /\ LogTypeOK /\ Inv
  BY DEF LogInv, Inv
<1>2. \A e \in stored : e \in Accounted'
  BY <1>1, AccountedStays, LogAssumption DEF LogTypeOK
<1>3. ASSUME NEW s \in Session, SaveRequirement(s), UNCHANGED toRecord
      PROVE  NowStored(session[s].id, toRecord[s].action) \in Accounted'
  <2>1. ~Idle(s) /\ Idle(s)'
    BY <1>1, <1>3, NoneAssumption DEF SaveRequirement, Idle, TypeOK
  <2>2. PICK e \in LogRow : e = toRecord[s]
    BY <1>1, <2>1 DEF LogTypeOK
  <2>3. TellsOf(e, session[s])
    BY <2>1, <2>2, LogAssumption DEF LogInv, InHand
  <2>4. NowStored(session[s].id, e.action) = e
    BY <1>1, <1>3, <2>3, EntryIsStored
  <2>5. e \in Accounted'
    BY <1>3, <2>1, <2>2 DEF Accounted, Idle
  <2> QED
    BY <2>2, <2>4, <2>5
<1>4. ASSUME NEW s \in Session, SaveLoaded(s) PROVE stored' \subseteq Accounted'
  BY <1>2, <1>3, <1>4 DEF SaveLoaded
<1>5. (\E s \in Session : SaveLoaded(s)) \/ stored' = stored
  BY DEF LogNext, logVars, CrashUnrecorded, Operate, WillRecord, AbortOperation, Record,
         RecordFails
<1> QED
  BY <1>2, <1>4, <1>5

LEMMA BidLoggedStep ==
    ASSUME LogInv, [LogNext]_logVars, NEW b \in BidId, BidLogged(b)
    PROVE  BidLogged(b)'
<1>1. TypeOK /\ LogTypeOK /\ Inv /\ [Next]_vars
  BY LogStepsAreSteps DEF LogInv, Inv
<1>2. ASSUME bids[b] # None
      PROVE  /\ bids[b].bidder \in User /\ bids'[b].bidder = bids[b].bidder
             /\ SeedBid[b] = None => Entry(bids'[b].bidder, "bid.create", b) \in Accounted'
             /\ bids[b].status = "withdrawn" =>
                    Entry(bids'[b].bidder, "bid.withdraw", b) \in Accounted'
  <2>1. bids[b].bidder \in User /\ bids'[b].bidder = bids[b].bidder
    BY <1>1, <1>2, BidsForward DEF TypeOK, BidRow
  <2>2. PICK u \in User : u = bids[b].bidder
    BY <2>1
  <2>3. "bid.create" \in BidAction /\ "bid.withdraw" \in BidAction
    BY DEF BidAction
  <2>4. /\ SeedBid[b] = None => Entry(u, "bid.create", b) \in Accounted'
        /\ bids[b].status = "withdrawn" => Entry(u, "bid.withdraw", b) \in Accounted'
    BY <1>2, <2>2, <2>3, EntryStays DEF BidLogged
  <2> QED
    BY <2>1, <2>2, <2>4
<1>3. CASE bids'[b] = bids[b]
  BY <1>2, <1>3 DEF BidLogged
<1>4. ASSUME NEW s \in Session, NEW u \in User, NEW r \in RequirementId,
             CreateBid(s, u, r, b), WillRecord(s, Entry(u, "bid.create", b))
      PROVE  BidLogged(b)'
  <2>1. bids'[b].bidder = u /\ bids'[b].status = "pending"
    BY <1>1, <1>4 DEF CreateBid, TypeOK
  <2>2. Entry(u, "bid.create", b) \in Accounted'
    BY <1>1, <1>4, InHandIsAccounted DEF CreateBid
  <2> QED
    BY <2>1, <2>2 DEF BidLogged
<1>5. CASE bids[b] # None /\ bids'[b].status # "withdrawn"
  BY <1>2, <1>5 DEF BidLogged
<1>6. ASSUME NEW s \in Session, SaveBid(s), UNCHANGED toRecord, session[s].id = b
      PROVE  BidLogged(b)'
  <2>1. ~Idle(s) /\ Idle(s)' /\ session[s] \in BidWrite /\ bids[b] # None
    BY <1>1, <1>6, NoneAssumption
       DEF SaveBid, Idle, TypeOK, Inv, LoadedRowsAreConsistent, BidWrite
  <2>2. PICK e \in LogRow : e = toRecord[s]
    BY <1>1, <2>1 DEF LogTypeOK
  <2>3. e = Entry(session[s].row.bidder, "bid.withdraw", b)
    BY <1>1, <1>6, <2>1, <2>2 DEF LogInv, InHand, TellsOf, LogTypeOK
  <2>4. bids'[b] = session[s].row
    BY <1>1, <1>6 DEF SaveBid, TypeOK
  <2>5. e = Entry(bids'[b].bidder, "bid.withdraw", b)
    BY <2>3, <2>4
  <2>6. e \in Accounted'
    BY <1>6, <2>1, <2>2 DEF Accounted, Idle
  <2> QED
    BY <1>2, <2>1, <2>5, <2>6 DEF BidLogged
<1>7. ASSUME NEW s \in Session, NEW u \in User, NEW r \in RequirementId, NEW c \in BidId,
             AcceptBid(s, u, r, c)
      PROVE  BidLogged(b)'
  <2>1. bids[c] # None /\ bids'[c].status = "accepted"
    BY <1>1, <1>7 DEF AcceptBid, Acceptable, TypeOK, BidRow
  <2>2. b # c => bids'[b] = bids[b]
    BY <1>1, <1>7 DEF AcceptBid, TypeOK
  <2> QED
    BY <1>3, <1>5, <2>1, <2>2
<1>8. ASSUME NEW s \in Session, Operate(s) PROVE BidLogged(b)'
  <2>1. ASSUME NEW u \in User, NEW r \in RequirementId, NEW c \in BidId,
               CreateBid(s, u, r, c), WillRecord(s, Entry(u, "bid.create", c))
        PROVE  BidLogged(b)'
    <3>1. CASE c = b
      BY <1>4, <2>1, <3>1
    <3>2. CASE c # b
      BY <1>1, <1>3, <2>1, <3>2 DEF CreateBid, TypeOK
    <3> QED
      BY <3>1, <3>2
  <2> QED
    BY <1>3, <1>7, <1>8, <2>1
       DEF Operate, CreateRequirement, UpdateStatus, Update, LoadRequirement, Withdraw, Sign,
           Complete
<1>9. ASSUME NEW s \in Session, SaveLoaded(s) PROVE BidLogged(b)'
  <2>1. session[s].id # b \/ SaveRequirement(s) => bids'[b] = bids[b]
    BY <1>1, <1>9 DEF SaveLoaded, SaveBid, SaveRequirement, TypeOK
  <2> QED
    BY <1>3, <1>6, <1>9, <2>1 DEF SaveLoaded
<1> QED
  BY <1>3, <1>8, <1>9
     DEF LogNext, logVars, vars, CrashUnrecorded, Crash, AbortOperation, Abort, Record, RecordFails

LEMMA ContractLoggedStep ==
    ASSUME LogInv, [LogNext]_logVars, NEW b \in BidId, ContractLogged(b)
    PROVE  ContractLogged(b)'
<1>1. TypeOK /\ LogTypeOK /\ Inv /\ [Next]_vars
  BY LogStepsAreSteps DEF LogInv, Inv
<1>2. ASSUME contracts[b] # None
      PROVE  /\ contracts'[b] # None
             /\ contracts'[b].partyA = contracts[b].partyA
             /\ contracts'[b].partyB = contracts[b].partyB
             /\ Entry(contracts'[b].partyA, "requirement.accept_bid", b) \in Accounted'
             /\ contracts[b].status # "pending_signature" =>
                    \E u \in {contracts'[b].partyA, contracts'[b].partyB} :
                        /\ u # notifications'[<<"contract_signed", b>>]
                        /\ Entry(u, "contract.sign", b) \in Accounted'
             /\ contracts[b].status = "completed" =>
                    Entry(contracts'[b].partyA, "contract.complete", b) \in Accounted'
  <2>1. /\ contracts[b].partyA \in User /\ contracts[b].partyB \in User
        /\ contracts'[b] # None
        /\ contracts'[b].partyA = contracts[b].partyA
        /\ contracts'[b].partyB = contracts[b].partyB
    BY <1>1, <1>2, ContractsForward DEF TypeOK, ContractRow
  <2>2. PICK A \in User, B \in User : A = contracts[b].partyA /\ B = contracts[b].partyB
    BY <2>1
  <2>3. \A u \in User :
            /\ Entry(u, "requirement.accept_bid", b) \in Accounted
                  => Entry(u, "requirement.accept_bid", b) \in Accounted'
            /\ Entry(u, "contract.sign", b) \in Accounted
                  => Entry(u, "contract.sign", b) \in Accounted'
            /\ Entry(u, "contract.complete", b) \in Accounted
                  => Entry(u, "contract.complete", b) \in Accounted'
    BY EntryStays DEF BidAction
  <2>4. /\ Entry(A, "requirement.accept_bid", b) \in Accounted'
        /\ contracts[b].status # "pending_signature" =>
               \E u \in {A, B} :
                   /\ u # notifications[<<"contract_signed", b>>]
                   /\ Entry(u, "contract.sign", b) \in Accounted'
        /\ contracts[b].status = "completed" => Entry(A, "contract.complete", b) \in Accounted'
    BY <1>2, <2>2, <2>3 DEF ContractLogged
  <2>5. contracts[b].status # "pending_signature" =>
            notifications'[<<"contract_signed", b>>] = notifications[<<"contract_signed", b>>]
    <3>1. <<"contract_signed", b>> \in Event
      BY DEF Event, NotificationType
    <3> QED
      BY <1>1, <1>2, <2>1, <3>1, Signatures, ToldStays, NoneAssumption
  <2> QED
    BY <2>1, <2>2, <2>4, <2>5
<1>3. CASE contracts'[b] = contracts[b]
  BY <1>2, <1>3 DEF ContractLogged
<1>4. ASSUME NEW s \in Session, NEW u \in User, NEW r \in RequirementId,
             AcceptBid(s, u, r, b), WillRecord(s, Entry(u, "requirement.accept_bid", b))
      PROVE  ContractLogged(b)'
  <2>1. contracts'[b].partyA = u /\ contracts'[b].status = "pending_signature"
    BY <1>1, <1>4 DEF AcceptBid, TypeOK, ContractFromBid
  <2>2. Entry(u, "requirement.accept_bid", b) \in Accounted'
    BY <1>1, <1>4, InHandIsAccounted DEF AcceptBid
  <2> QED
    BY <2>1, <2>2 DEF ContractLogged
<1>5. ASSUME NEW s \in Session, NEW u \in User,
             Sign(s, u, b), WillRecord(s, Entry(u, "contract.sign", b))
      PROVE  ContractLogged(b)'
  <2>1. /\ contracts'[b].status = "in_progress"
        /\ u \in {contracts'[b].partyA, contracts'[b].partyB}
        /\ u # notifications'[<<"contract_signed", b>>]
    BY <1>1, <1>5, SignTells
  <2>2. contracts[b] # None
    BY <1>5 DEF Sign, MaySign
  <2>3. Entry(u, "contract.sign", b) \in Accounted'
    BY <1>1, <1>5, InHandIsAccounted DEF Sign
  <2> QED
    BY <1>2, <2>1, <2>2, <2>3 DEF ContractLogged
<1>6. ASSUME NEW s \in Session, NEW u \in User,
             Complete(s, u, b), WillRecord(s, Entry(u, "contract.complete", b))
      PROVE  ContractLogged(b)'
  <2>1. /\ contracts[b] # None /\ u = contracts[b].partyA
        /\ contracts[b].status # "pending_signature"
    BY <1>1, <1>6 DEF Complete, MayComplete
  <2>2. Entry(u, "contract.complete", b) \in Accounted'
    BY <1>1, <1>6, InHandIsAccounted DEF Complete
  <2> QED
    BY <1>2, <2>1, <2>2 DEF ContractLogged
<1>7. ASSUME NEW s \in Session, NEW u \in User, NEW c \in BidId, c # b,
             \/ \E r \in RequirementId : AcceptBid(s, u, r, c)
             \/ Sign(s, u, c)
             \/ Complete(s, u, c)
      PROVE  contracts'[b] = contracts[b]
  BY <1>1, <1>7 DEF AcceptBid, Sign, Complete, TypeOK
<1>8. ASSUME NEW s \in Session, Operate(s) PROVE ContractLogged(b)'
  <2>1. ASSUME NEW u \in User, NEW c \in BidId,
               \/ \E r \in RequirementId :
                     AcceptBid(s, u, r, c) /\ WillRecord(s, Entry(u, "requirement.accept_bid", c))
               \/ Sign(s, u, c) /\ WillRecord(s, Entry(u, "contract.sign", c))
               \/ Complete(s, u, c) /\ WillRecord(s, Entry(u, "contract.complete", c))
        PROVE  ContractLogged(b)'
    <3>1. CASE c = b
      BY <1>4, <1>5, <1>6, <2>1, <3>1
    <3>2. CASE c # b
      BY <1>3, <1>7, <2>1, <3>2
    <3> QED
      BY <3>1, <3>2
  <2> QED
    BY <1>3, <1>8, <2>1
       DEF Operate, CreateRequirement, UpdateStatus, Update, LoadRequirement, CreateBid, Withdraw
<1> QED
  BY <1>3, <1>8
     DEF LogNext, logVars, vars, CrashUnrecorded, Crash, SaveLoaded, SaveRequirement, SaveBid,
         AbortOperation, Abort, Record, RecordFails

LEMMA RequirementLoggedStep ==
    ASSUME LogInv, [LogNext]_logVars, NEW r \in RequirementId, RequirementLogged(r)
    PROVE  RequirementLogged(r)'
<1>1. TypeOK /\ LogTypeOK /\ Inv /\ [Next]_vars
  BY LogStepsAreSteps DEF LogInv, Inv
<1>2. CASE requirements[r] # None
  <2>1. /\ requirements[r].publisher \in User
        /\ requirements'[r].publisher = requirements[r].publisher
    BY <1>1, <1>2, RequirementsForward DEF TypeOK, RequirementRow
  <2>2. PICK u \in User : u = requirements[r].publisher
    BY <2>1
  <2>3. SeedRequirement[r] = None => Entry(u, "requirement.create", r) \in Accounted'
    BY <1>2, <2>2, EntryStays DEF RequirementLogged, RequirementAction
  <2> QED
    BY <2>1, <2>2, <2>3 DEF RequirementLogged
<1>3. CASE requirements'[r] = None
  BY <1>3 DEF RequirementLogged
<1>4. CASE requirements[r] = None /\ requirements'[r] # None
  <2>1. ASSUME NEW s \in Session, SaveRequirement(s) PROVE requirements'[r] = requirements[r]
    BY <1>1, <1>4, <2>1
       DEF SaveRequirement, TypeOK, Inv, LoadedRowsAreConsistent, RequirementWrite
  <2>2. ASSUME NEW s \in Session, NEW u \in User, NEW q \in RequirementId, NEW b \in BidId,
               AcceptBid(s, u, q, b)
        PROVE  requirements'[r] = requirements[r]
    BY <1>1, <1>4, <2>2 DEF AcceptBid, MayAccept, TypeOK
  <2>3. ASSUME NEW s \in Session, NEW u \in User, NEW q \in RequirementId,
               NEW status \in SubmittedStatus,
               CreateRequirement(s, u, q, status), WillRecord(s, Entry(u, "requirement.create", q))
        PROVE  RequirementLogged(r)'
    <3>1. q = r
      BY <1>1, <1>4, <2>3 DEF CreateRequirement, TypeOK
    <3>2. requirements'[r].publisher = u
      BY <1>1, <2>3, <3>1 DEF CreateRequirement, TypeOK
    <3>3. Entry(u, "requirement.create", r) \in Accounted'
      BY <1>1, <2>3, <3>1, InHandIsAccounted DEF CreateRequirement
    <3> QED
      BY <3>2, <3>3 DEF RequirementLogged
  <2>4. ASSUME NEW s \in Session, Operate(s) PROVE RequirementLogged(r)'
    BY <1>4, <2>2, <2>3, <2>4
       DEF Operate, UpdateStatus, Update, LoadRequirement, CreateBid, Withdraw, Sign, Complete
  <2> QED
    BY <1>4, <2>1, <2>4
       DEF LogNext, logVars, vars, CrashUnrecorded, Crash, SaveLoaded, SaveBid, AbortOperation,
           Abort, Record, RecordFails
<1> QED
  BY <1>2, <1>3, <1>4

\* An operation that the tables show is missing from the log only if its insert
\* failed or the server stopped between the commit and the insert.
THEOREM OnlyFailuresMissing == LogSpec => []OnlyFailuresAreMissing
<1>1. LogInit => OnlyFailuresAreMissing
  <2> SUFFICES ASSUME LogInit PROVE OnlyFailuresAreMissing
    OBVIOUS
  <2>1. /\ \A b \in BidId :
              /\ contracts[b] = None
              /\ bids[b] = SeedBid[b]
              /\ bids[b] # None => bids[b].status = "pending"
        /\ \A r \in RequirementId : requirements[r] = SeedRequirement[r]
    BY SeedAssumption DEF LogInit, Init
  <2>2. \A b \in BidId : BidLogged(b) /\ ContractLogged(b)
    BY <2>1 DEF BidLogged, ContractLogged
  <2>3. \A r \in RequirementId : RequirementLogged(r)
    BY <2>1 DEF RequirementLogged
  <2> QED
    BY <2>2, <2>3, MissingParts DEF LogInit
<1>2. LogInv /\ OnlyFailuresAreMissing /\ [LogNext]_logVars => OnlyFailuresAreMissing'
  <2> SUFFICES ASSUME LogInv, OnlyFailuresAreMissing, [LogNext]_logVars
               PROVE  OnlyFailuresAreMissing'
    OBVIOUS
  <2>1. \A b \in BidId : BidLogged(b)' /\ ContractLogged(b)'
    BY MissingParts, BidLoggedStep, ContractLoggedStep
  <2>2. \A r \in RequirementId : RequirementLogged(r)'
    BY MissingParts, RequirementLoggedStep
  <2>3. stored' \subseteq Accounted'
    BY MissingParts, StoredStep
  <2> QED
    BY <2>1, <2>2, <2>3 DEF OnlyFailuresAreMissing, BidLogged, ContractLogged, RequirementLogged
<1> QED
  BY <1>1, <1>2, LogInvariant, PTL DEF LogSpec

=============================================================================
