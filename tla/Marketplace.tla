---------------------------- MODULE Marketplace ----------------------------
(***************************************************************************)
(* The marketplace core of the GigMatch backend: the requirement, bid,     *)
(* contract and notification tables, and the service methods that change   *)
(* them, as HTTP handlers run them concurrently.                           *)
(*                                                                         *)
(* A session is one goroutine serving requests one after the other.  The   *)
(* four methods that run in one database transaction, rows locked FOR      *)
(* UPDATE (bid.Create, requirement.AcceptBid, contract.Sign and            *)
(* contract.Complete), are one action each: module MarketplaceTx takes     *)
(* them apart statement by statement and is shown to implement this one.   *)
(* The three methods that load a row without a lock and Save the whole row *)
(* afterwards (requirement.Update, requirement.UpdateStatus and            *)
(* bid.Withdraw) are two actions, with the loaded row kept by the session. *)
(*                                                                         *)
(* A rejected request changes no table and is a stuttering step.           *)
(*                                                                         *)
(* Definitions marked Faulty are variants of the definition that follows   *)
(* them, each with a bug one could well write; no specification uses them. *)
(* README.md says which property catches which.                            *)
(***************************************************************************)

EXTENDS Naturals

CONSTANTS
    User,              \* the accounts; JWTAuth loads the caller's row
    Role,              \* [User -> role], a column nothing updates
    RequirementId,     \* primary keys of the requirements table
    BidId,             \* primary keys of the bids table
    Session,           \* goroutines serving requests
    SubmittedStatus,   \* the status strings clients send; "" is the default
    SeedRequirement,   \* the requirements inserted on first boot
    SeedBid,           \* the bids inserted on first boot
    None               \* "no row", "no winner" (WinnerID = 0), "idle session"

-----------------------------------------------------------------------------
(* Rows.  Amounts, texts, dates and the like are left out: no guard reads   *)
(* them.  A contract is keyed by the bid it was made from, because its      *)
(* unique number "CY-<requirement>-<bid>" is.                               *)

RequirementStatus ==
    {"draft", "open", "bidding", "in_progress", "pending_review",
     "completed", "cancelled"}

BidStatus == {"pending", "accepted", "rejected", "withdrawn"}

ContractStatus ==
    {"pending_signature", "in_progress", "pending_review", "completed",
     "terminated"}

NotificationType ==
    {"bid_submitted", "bid_accepted", "contract_signed", "contract_completed"}

StageStatus == {"pending", "in_progress", "done"}

RequirementRow ==
    [publisher : User, status : RequirementStatus, winner : User \cup {None}]

BidRow == [requirement : RequirementId, bidder : User, status : BidStatus]

ContractRow ==
    [partyA : User, partyB : User, requirement : RequirementId,
     status : ContractStatus, stages : [1..3 -> StageStatus]]

\* The unique event_key of a notification: its business type and entity id.
Event == NotificationType \X BidId

\* What a session holds between an unlocked FindByID and the Save that
\* follows: the row as it will be written.
RequirementWrite ==
    [table : {"requirements"}, id : RequirementId, row : RequirementRow]
BidWrite == [table : {"bids"}, id : BidId, row : BidRow]

ASSUME NoneAssumption ==
    /\ None \notin User
    /\ None \notin RequirementRow
    /\ None \notin BidRow
    /\ None \notin ContractRow
    /\ None \notin RequirementWrite
    /\ None \notin BidWrite

ASSUME SeedAssumption ==
    /\ SeedRequirement \in [RequirementId -> RequirementRow \cup {None}]
    /\ SeedBid \in [BidId -> BidRow \cup {None}]
    /\ \A r \in RequirementId :
          SeedRequirement[r] # None => SeedRequirement[r].winner = None
    /\ \A b \in BidId : SeedBid[b] # None =>
          /\ SeedBid[b].status = "pending"
          /\ SeedRequirement[SeedBid[b].requirement] # None
          /\ SeedBid[b].bidder # SeedRequirement[SeedBid[b].requirement].publisher

-----------------------------------------------------------------------------
VARIABLES
    requirements,      \* [RequirementId -> RequirementRow or None]
    bids,              \* [BidId -> BidRow or None]
    contracts,         \* [BidId -> ContractRow or None]
    notifications,     \* [Event -> recipient or None]
    session            \* [Session -> the write a handler is about to Save, or None]

vars == <<requirements, bids, contracts, notifications, session>>

TypeOK ==
    /\ requirements \in [RequirementId -> RequirementRow \cup {None}]
    /\ bids \in [BidId -> BidRow \cup {None}]
    /\ contracts \in [BidId -> ContractRow \cup {None}]
    /\ notifications \in [Event -> User \cup {None}]
    /\ session \in [Session -> RequirementWrite \cup BidWrite \cup {None}]

\* The seed rows are inserted with the server not yet listening, and no
\* notification goes with them.
Init ==
    /\ requirements = SeedRequirement
    /\ bids = SeedBid
    /\ contracts = [b \in BidId |-> None]
    /\ notifications = [e \in Event |-> None]
    /\ session = [s \in Session |-> None]

Idle(s) == session[s] = None

\* The notifications table after NotifyTx: an insert with ON CONFLICT
\* (event_key) DO NOTHING, so an event already recorded keeps its row.
Notify(biz, id, recipient) ==
    IF notifications[<<biz, id>>] = None
    THEN [notifications EXCEPT ![<<biz, id>>] = recipient]
    ELSE notifications

-----------------------------------------------------------------------------
(* Requirements                                                             *)

\* RequirementService.Create: any valid status is taken from the client.
CreateRequirement(s, u, r, status) ==
    /\ Idle(s)
    /\ Role[u] # "freelancer"
    /\ requirements[r] = None
    /\ LET initial == IF status = "" THEN "open" ELSE status
       IN  /\ initial \in RequirementStatus
           /\ requirements' = [requirements EXCEPT ![r] =
                 [publisher |-> u, status |-> initial, winner |-> None]]
    /\ UNCHANGED <<bids, contracts, notifications, session>>

\* Faulty: reopening a requirement also clears its winner.
LoadRequirement_ClearingWinner(s, u, r, newStatus) ==
    /\ Idle(s)
    /\ requirements[r] # None
    /\ requirements[r].publisher = u
    /\ session' = [session EXCEPT ![s] =
          [table |-> "requirements", id |-> r,
           row |-> [requirements[r] EXCEPT
              !.status = newStatus,
              !.winner = IF newStatus = "open" THEN None ELSE @]]]
    /\ UNCHANGED <<requirements, bids, contracts, notifications>>

\* The unlocked FindByID and ownership check shared by Update and
\* UpdateStatus; newStatus is what the handler then sets on the loaded row.
LoadRequirement(s, u, r, newStatus) ==
    /\ Idle(s)
    /\ requirements[r] # None
    /\ requirements[r].publisher = u
    /\ session' = [session EXCEPT ![s] =
          [table |-> "requirements", id |-> r,
           row |-> [requirements[r] EXCEPT !.status = newStatus]]]
    /\ UNCHANGED <<requirements, bids, contracts, notifications>>

\* RequirementService.Update edits texts and budgets, which the model leaves
\* out; the status and the winner it will write back are the loaded ones.
Update(s, u, r) ==
    /\ requirements[r] # None
    /\ requirements[r].status \notin {"completed", "cancelled"}
    /\ LoadRequirement(s, u, r, requirements[r].status)

\* RequirementService.UpdateStatus: any valid status from any other.
UpdateStatus(s, u, r, status) ==
    /\ status \in RequirementStatus
    /\ LoadRequirement(s, u, r, status)

\* RequirementRepository.Update: Save writes every column of the loaded row.
SaveRequirement(s) ==
    /\ session[s] \in RequirementWrite
    /\ requirements' = [requirements EXCEPT ![session[s].id] = session[s].row]
    /\ session' = [session EXCEPT ![s] = None]
    /\ UNCHANGED <<bids, contracts, notifications>>

-----------------------------------------------------------------------------
(* Bids                                                                     *)

\* User u may bid on requirement r.
MayBid(u, r) ==
    /\ requirements[r] # None
    /\ requirements[r].publisher # u
    /\ requirements[r].status \in {"open", "bidding"}

\* BidService.Create: the requirement row is locked and re-read, the bid and
\* the publisher's notification commit together.
CreateBid(s, u, r, b) ==
    /\ Idle(s)
    /\ Role[u] # "requester"
    /\ MayBid(u, r)
    /\ bids[b] = None
    /\ bids' = [bids EXCEPT ![b] =
          [requirement |-> r, bidder |-> u, status |-> "pending"]]
    /\ notifications' = Notify("bid_submitted", b, requirements[r].publisher)
    /\ UNCHANGED <<requirements, contracts, session>>

\* Faulty: party B is read from the requirement before the winner is saved.
ContractFromBid_StoredWinner(b, requester) ==
    [partyA |-> requester, partyB |-> requirements[bids[b].requirement].winner,
     requirement |-> bids[b].requirement, status |-> "pending_signature",
     stages |-> <<"done", "in_progress", "pending">>]

\* Faulty: the parties are swapped.
ContractFromBid_Swapped(b, requester) ==
    [partyA |-> bids[b].bidder, partyB |-> requester,
     requirement |-> bids[b].requirement, status |-> "pending_signature",
     stages |-> <<"done", "in_progress", "pending">>]

\* ContractService.CreateFromBidTx: the row for an accepted bid.
ContractFromBid(b, requester) ==
    [partyA |-> requester, partyB |-> bids[b].bidder,
     requirement |-> bids[b].requirement, status |-> "pending_signature",
     stages |-> <<"done", "in_progress", "pending">>]

\* Faulty: the status alone tells whether a bid was accepted already.
MayAccept_ByStatus(u, r) ==
    /\ requirements[r] # None
    /\ requirements[r].publisher = u
    /\ requirements[r].status # "in_progress"

\* User u may accept a bid on requirement r.
MayAccept(u, r) ==
    /\ requirements[r] # None
    /\ requirements[r].publisher = u
    /\ requirements[r].winner = None
    /\ requirements[r].status # "in_progress"

\* Bid b, on requirement r, can be accepted.
Acceptable(r, b) ==
    /\ bids[b] # None
    /\ bids[b].requirement = r
    /\ bids[b].status = "pending"

\* Faulty: the winner recorded is the caller, not the bidder.
AcceptBid_CallerWins(s, u, r, b) ==
    /\ Idle(s)
    /\ MayAccept(u, r)
    /\ Acceptable(r, b)
    /\ contracts[b] = None
    /\ bids' = [bids EXCEPT ![b].status = "accepted"]
    /\ requirements' = [requirements EXCEPT ![r].winner = u,
                                            ![r].status = "in_progress"]
    /\ contracts' = [contracts EXCEPT ![b] = ContractFromBid(b, u)]
    /\ notifications' = Notify("bid_accepted", b, bids[b].bidder)
    /\ UNCHANGED session

\* RequirementService.AcceptBid: requirement row locked first, then the bid.
\* contracts[b] = None is the unique index on contract_no: a duplicate insert
\* rolls the transaction back.
AcceptBid(s, u, r, b) ==
    /\ Idle(s)
    /\ MayAccept(u, r)
    /\ Acceptable(r, b)
    /\ contracts[b] = None
    /\ bids' = [bids EXCEPT ![b].status = "accepted"]
    /\ requirements' = [requirements EXCEPT ![r].winner = bids[b].bidder,
                                            ![r].status = "in_progress"]
    /\ contracts' = [contracts EXCEPT ![b] = ContractFromBid(b, u)]
    /\ notifications' = Notify("bid_accepted", b, bids[b].bidder)
    /\ UNCHANGED session

\* User u may withdraw bid b.
MayWithdraw(u, b) ==
    /\ bids[b] # None
    /\ bids[b].bidder = u
    /\ bids[b].status = "pending"

\* BidService.Withdraw up to its Save: unlocked FindByID and the two checks.
Withdraw(s, u, b) ==
    /\ Idle(s)
    /\ MayWithdraw(u, b)
    /\ session' = [session EXCEPT ![s] =
          [table |-> "bids", id |-> b,
           row |-> [bids[b] EXCEPT !.status = "withdrawn"]]]
    /\ UNCHANGED <<requirements, bids, contracts, notifications>>

\* Faulty: a withdrawn bid is deleted.
SaveBid_Deleting(s) ==
    /\ session[s] \in BidWrite
    /\ bids' = [bids EXCEPT ![session[s].id] = None]
    /\ session' = [session EXCEPT ![s] = None]
    /\ UNCHANGED <<requirements, contracts, notifications>>

\* BidRepository.Update: Save writes every column of the loaded row.
SaveBid(s) ==
    /\ session[s] \in BidWrite
    /\ bids' = [bids EXCEPT ![session[s].id] = session[s].row]
    /\ session' = [session EXCEPT ![s] = None]
    /\ UNCHANGED <<requirements, contracts, notifications>>

-----------------------------------------------------------------------------
(* Contracts                                                                *)

\* Faulty: the signer is told of its own signature.
OtherParty_Signer(c, u) == IF u = c.partyB THEN c.partyB ELSE c.partyA

\* The party of a contract that is not u.
OtherParty(c, u) == IF u = c.partyB THEN c.partyA ELSE c.partyB

MaySign(u, b) ==
    /\ contracts[b] # None
    /\ u \in {contracts[b].partyA, contracts[b].partyB}
    /\ contracts[b].status = "pending_signature"

\* ContractService.Sign: either party, once; the other party is notified.
Sign(s, u, b) ==
    /\ Idle(s)
    /\ MaySign(u, b)
    /\ contracts' = [contracts EXCEPT ![b].status = "in_progress"]
    /\ notifications' = Notify("contract_signed", b, OtherParty(contracts[b], u))
    /\ UNCHANGED <<requirements, bids, session>>

\* Faulty: anything not completed yet can be completed, signed or not.
MayComplete_Unsigned(u, b) ==
    /\ contracts[b] # None
    /\ contracts[b].partyA = u
    /\ contracts[b].status # "completed"

MayComplete(u, b) ==
    /\ contracts[b] # None
    /\ contracts[b].partyA = u
    /\ contracts[b].status \in {"in_progress", "pending_review"}

\* Faulty: the requester is notified of the completion it confirmed itself.
Complete_NotifyingCaller(s, u, b) ==
    /\ Idle(s)
    /\ MayComplete(u, b)
    /\ contracts' = [contracts EXCEPT
          ![b].status = "completed", ![b].stages = [i \in 1..3 |-> "done"]]
    /\ notifications' = Notify("contract_completed", b, contracts[b].partyA)
    /\ UNCHANGED <<requirements, bids, session>>

\* ContractService.Complete: party A only; every stage is marked done.
Complete(s, u, b) ==
    /\ Idle(s)
    /\ MayComplete(u, b)
    /\ contracts' = [contracts EXCEPT
          ![b].status = "completed", ![b].stages = [i \in 1..3 |-> "done"]]
    /\ notifications' = Notify("contract_completed", b, contracts[b].partyB)
    /\ UNCHANGED <<requirements, bids, session>>

-----------------------------------------------------------------------------
(* Failures and the next-state relation                                     *)

\* Faulty: a failing Withdraw puts the bid back to pending.
Abort_Restoring(s) ==
    /\ session[s] # None
    /\ bids' = IF session[s] \in BidWrite
              THEN [bids EXCEPT ![session[s].id].status = "pending"] ELSE bids
    /\ session' = [session EXCEPT ![s] = None]
    /\ UNCHANGED <<requirements, contracts, notifications>>

\* A handler that has loaded a row fails before its Save takes effect: a
\* database error, a lost connection, a panic caught by gin's Recovery.
Abort(s) ==
    /\ session[s] # None
    /\ session' = [session EXCEPT ![s] = None]
    /\ UNCHANGED <<requirements, bids, contracts, notifications>>

\* The server process dies and restarts: everything in flight is gone.
Crash ==
    /\ session' = [s \in Session |-> None]
    /\ UNCHANGED <<requirements, bids, contracts, notifications>>

Handle(s) ==
    \/ \E u \in User, r \in RequirementId, status \in SubmittedStatus :
          \/ CreateRequirement(s, u, r, status)
          \/ UpdateStatus(s, u, r, status)
    \/ \E u \in User, r \in RequirementId : Update(s, u, r)
    \/ \E u \in User, r \in RequirementId, b \in BidId :
          \/ CreateBid(s, u, r, b)
          \/ AcceptBid(s, u, r, b)
    \/ \E u \in User, b \in BidId :
          \/ Withdraw(s, u, b)
          \/ Sign(s, u, b)
          \/ Complete(s, u, b)
    \/ SaveRequirement(s)
    \/ SaveBid(s)
    \/ Abort(s)

Next == Crash \/ \E s \in Session : Handle(s)

Spec == Init /\ [][Next]_vars

-----------------------------------------------------------------------------
(* What the tables must say about each other, however the handlers run.     *)

\* A bid is on an existing requirement that somebody else published, whatever
\* stale rows Update and UpdateStatus write over requirements meanwhile.
BidsAreOnOthersRequirements ==
    \A b \in BidId : bids[b] # None =>
        /\ requirements[bids[b].requirement] # None
        /\ requirements[bids[b].requirement].publisher # bids[b].bidder

\* An accepted bid has its contract, between the publisher and the bidder; a
\* contract's bid was accepted and can since only have been withdrawn.
ContractsMatchBids ==
    \A b \in BidId :
        /\ bids[b] # None /\ bids[b].status = "accepted" => contracts[b] # None
        /\ contracts[b] # None =>
              /\ bids[b] # None
              /\ bids[b].status \in {"accepted", "withdrawn"}
              /\ contracts[b].requirement = bids[b].requirement
              /\ contracts[b].partyB = bids[b].bidder
              /\ contracts[b].partyA =
                     requirements[bids[b].requirement].publisher

\* Contract k was made for a bid of user u on requirement r.
HasContract(r, u) ==
    \E b \in BidId : /\ contracts[b] # None
                     /\ contracts[b].requirement = r
                     /\ contracts[b].partyB = u

\* A requirement that names a winner has a contract with that winner: no
\* stale write can invent one.
WinnersHaveContracts ==
    \A r \in RequirementId :
        requirements[r] # None /\ requirements[r].winner # None =>
            HasContract(r, requirements[r].winner)

\* A row in flight, however old, has the immutable columns of the stored row;
\* a winner it names has a contract; a bid in flight is being withdrawn.
LoadedRowsAreConsistent ==
    \A s \in Session :
        /\ session[s] \in RequirementWrite =>
              LET old == requirements[session[s].id]
                  new == session[s].row
              IN  /\ old # None
                  /\ new.publisher = old.publisher
                  /\ new.winner # None => HasContract(session[s].id, new.winner)
        /\ session[s] \in BidWrite =>
              LET old == bids[session[s].id]
                  new == session[s].row
              IN  /\ old # None
                  /\ new = [old EXCEPT !.status = "withdrawn"]

\* "A successful business state can never exist without its notification"
\* (NotifyTx), and no notification without its business state.  Who was told of
\* a bid, its acceptance and the completion is a function of the three other
\* tables.  Of a signature it is one of the two parties: which of them signed
\* no table tells, so SignaturesTellTheOther (module MarketplaceTx) compares
\* the recipient with the caller of the transaction that signed.
NotificationsMatchState ==
    \A b \in BidId :
        /\ notifications[<<"bid_submitted", b>>] =
              IF bids[b] = None \/ SeedBid[b] # None THEN None
              ELSE requirements[bids[b].requirement].publisher
        /\ notifications[<<"bid_accepted", b>>] =
              IF contracts[b] = None THEN None ELSE contracts[b].partyB
        /\ IF contracts[b] # None /\ contracts[b].status # "pending_signature"
           THEN notifications[<<"contract_signed", b>>]
                    \in {contracts[b].partyA, contracts[b].partyB}
           ELSE notifications[<<"contract_signed", b>>] = None
        /\ notifications[<<"contract_completed", b>>] =
              IF contracts[b] # None /\ contracts[b].status = "completed"
              THEN contracts[b].partyB ELSE None

\* A bid once decided is never pending again and a withdrawn one stays so,
\* although Save rewrites whole rows from possibly old copies.
BidStep(old, new) ==
    \/ old = None
    \/ /\ new # None
       /\ new.requirement = old.requirement
       /\ new.bidder = old.bidder
       /\ \/ new.status = old.status
          \/ old.status = "pending" /\ new.status = "accepted"
          \/ new.status = "withdrawn"
BidsNeverReopen == [][\A b \in BidId : BidStep(bids[b], bids'[b])]_vars

-----------------------------------------------------------------------------
(* What holds as long as no handler saves a row it loaded before another    *)
(* handler changed it: the part the missing row locks would protect.        *)

\* The row a session is about to save was loaded after the last accept on it.
Fresh(s) ==
    /\ session[s] \in RequirementWrite =>
          session[s].row.winner = requirements[session[s].id].winner
    /\ session[s] \in BidWrite => bids[session[s].id].status # "accepted"

NoStaleLoad == \A s \in Session : Fresh(s)

\* "Two distinct pending bids on one requirement: only one may ever be
\* accepted", hence at most one contract.
OneContractPerRequirement ==
    \A b, c \in BidId :
        /\ contracts[b] # None
        /\ contracts[c] # None
        /\ contracts[b].requirement = contracts[c].requirement
        => b = c

\* A contract's bid is still accepted and its requirement still records the
\* bidder as winner: a contract is never left without both.
ContractsAreBacked ==
    \A b \in BidId : contracts[b] # None =>
        /\ bids[b].status = "accepted"
        /\ requirements[contracts[b].requirement].winner = contracts[b].partyB

\* As long as no session holds a stale row, a requirement has at most one
\* contract, and it is backed: two accepts alone can never both win.
SafeUntilStale ==
    []NoStaleLoad => [](OneContractPerRequirement /\ ContractsAreBacked)

\* Only a pending bid is ever withdrawn (Withdraw's own check).
WithdrawnFromPending ==
    [][\A b \in BidId :
          bids[b] # None /\ bids'[b].status = "withdrawn" =>
              bids[b].status \in {"pending", "withdrawn"}]_vars

=============================================================================
