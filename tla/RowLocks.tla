------------------------------ MODULE RowLocks ------------------------------
(***************************************************************************)
(* The row locks one request takes in MySQL, in order, and how they wait   *)
(* for each other.  MarketplaceTx knows the locks the services ask for     *)
(* (SELECT ... FOR UPDATE); this module adds those they get unasked:       *)
(*   - gorm's Save first upserts the rows the struct was preloaded with    *)
(*     ("belongs to" before its own row, "has many" after it), and an      *)
(*     INSERT ... ON DUPLICATE KEY UPDATE locks the row found, exclusively;*)
(*   - an INSERT locks the rows its foreign keys name, shared.             *)
(* The values of the rows are left out: whether a check passes only decides*)
(* whether the transaction goes on or is rolled back, which it always may  *)
(* be.                                                                     *)
(***************************************************************************)
EXTENDS Naturals, FiniteSets, Sequences

CONSTANTS
    User, RequirementId,
    BidId,             \* primary keys of bids, numbers
    Session,           \* goroutines serving requests
    Publisher,         \* [RequirementId -> User]
    Bid,               \* [BidId -> [requirement, bidder]], the bids there are
    BidsOn,            \* [RequirementId -> the bids on it, as FindByID preloads them]
    Request,           \* the requests clients send: records of AllRequests
    None               \* "no request"

Operation == {"CreateBid", "AcceptBid", "Contract", "Withdraw", "SaveRequirement", "SaveUser"}

\* What a request is about: a requirement, a bid, a user.  Contract is Sign or
\* Complete, SaveRequirement the Save of Update or UpdateStatus.
AllRequests ==
    [op : {"CreateBid"}, id : RequirementId, user : User]
        \cup [op : {"SaveRequirement"}, id : RequirementId]
        \cup [op : {"AcceptBid", "Contract", "Withdraw"}, id : BidId]
        \cup [op : {"SaveUser"}, id : User]

ASSUME LocksAssumption ==
    /\ BidId \subseteq Nat
    /\ Publisher \in [RequirementId -> User]
    /\ Bid \in [BidId -> [requirement : RequirementId, bidder : User]]
    /\ Request \subseteq AllRequests
    /\ None \notin Request

\* The preloaded bids come in the order of their primary keys.
ASSUME PreloadAssumption ==
    /\ BidsOn \in [RequirementId -> Seq(BidId)]
    /\ \A r \in RequirementId :
          /\ {BidsOn[r][i] : i \in DOMAIN BidsOn[r]} = {b \in BidId : Bid[b].requirement = r}
          /\ \A i, j \in DOMAIN BidsOn[r] : i < j => BidsOn[r][i] < BidsOn[r][j]

\* A server has finitely many goroutines.
ASSUME SessionAssumption == IsFiniteSet(Session)

\* Rows that can be locked.
Row ==
    ({"users"} \X User) \cup ({"requirements"} \X RequirementId)
        \cup ({"bids", "contracts"} \X BidId)

Lock == [row : Row, mode : {"shared", "exclusive"}]

X(table, id) == [row |-> <<table, id>>, mode |-> "exclusive"]
S(table, id) == [row |-> <<table, id>>, mode |-> "shared"]

-----------------------------------------------------------------------------
(* The locks of each request, in the order of its statements                *)

\* Faulty: the requirement is read without a lock and updated (a bid counter,
\* say) once the bid is inserted; the INSERT locks its parents shared.
CreateBidLocks_Counting(r, u) ==
    <<S("requirements", r), S("users", u), X("requirements", r)>>

\* bid.Create: FindByIDForUpdate, then INSERT INTO bids.
CreateBidLocks(r, u) == <<X("requirements", r), S("users", u)>>

\* Faulty: the bid is locked before its requirement.
AcceptBidLocks_BidFirst(b) ==
    LET r == Bid[b].requirement
    IN  <<X("bids", b), X("requirements", r), X("users", Bid[b].bidder),
          X("contracts", b), S("users", Publisher[r])>>

\* requirement.AcceptBid: both rows FOR UPDATE; Save(bid) upserts the bidder it
\* was loaded with; INSERT INTO contracts has both parties as foreign keys, of
\* which the bidder is locked already.
AcceptBidLocks(b) ==
    LET r == Bid[b].requirement
    IN  <<X("requirements", r), X("bids", b), X("users", Bid[b].bidder),
          X("contracts", b), S("users", Publisher[r])>>

\* contract.Sign and contract.Complete: nothing is preloaded.
ContractLocks(b) == <<X("contracts", b)>>

\* bid.Withdraw: the Save upserts the bidder, then writes the bid.
WithdrawLocks(b) == <<X("users", Bid[b].bidder), X("bids", b)>>

\* requirement.Update and UpdateStatus: the Save upserts the publisher, writes
\* the requirement, then upserts its bids, and before them their bidders.
SaveRequirementLocks(r) ==
    LET bids == BidsOn[r]
    IN  <<X("users", Publisher[r]), X("requirements", r)>>
            \o [i \in 1..Len(bids) |-> X("users", Bid[bids[i]].bidder)]
            \o [i \in 1..Len(bids) |-> X("bids", bids[i])]

LocksOf(q) ==
    CASE q.op = "CreateBid"       -> CreateBidLocks(q.id, q.user)
      [] q.op = "AcceptBid"       -> AcceptBidLocks(q.id)
      [] q.op = "Contract"        -> ContractLocks(q.id)
      [] q.op = "Withdraw"        -> WithdrawLocks(q.id)
      [] q.op = "SaveRequirement" -> SaveRequirementLocks(q.id)
      [] q.op = "SaveUser"        -> <<X("users", q.id)>>

-----------------------------------------------------------------------------
VARIABLES
    request,           \* [Session -> the request whose transaction is open, or None]
    asked,             \* [Session -> how many of its locks it has asked for]
    locks,             \* [Row -> the locks asked for on the row, granted or not]
    waitsFor           \* [Session -> who is ahead of it with a conflicting lock]

vars == <<request, asked, locks, waitsFor>>

Entry == [by : Session, mode : {"shared", "exclusive"}]

TypeOK ==
    /\ request \in [Session -> Request \cup {None}]
    /\ asked \in [Session -> Nat]
    /\ \A s \in Session :
          asked[s] <= IF request[s] = None THEN 0 ELSE Len(LocksOf(request[s]))
    /\ locks \in [Row -> SUBSET Entry]
    /\ waitsFor \in [Session -> SUBSET Session]

Init ==
    /\ request = [s \in Session |-> None]
    /\ asked = [s \in Session |-> 0]
    /\ locks = [row \in Row |-> {}]
    /\ waitsFor = [s \in Session |-> {}]

Conflict(m, n) == "exclusive" \in {m, n}

\* The other sessions that have asked for a conflicting lock on the row before.
Ahead(s, lock) ==
    {e.by : e \in {f \in locks[lock.row] : f.by # s /\ Conflict(f.mode, lock.mode)}}

Running(s) == request[s] # None /\ waitsFor[s] = {}

\* The row s has asked for last, the one it waits for if it waits.
LastRow(s) == LocksOf(request[s])[asked[s]].row

\* s has a lock on the row that covers the mode.
Covered(s, lock) ==
    \E e \in locks[lock.row] : e.by = s /\ e.mode \in {"exclusive", lock.mode}

\* A deadlock: every session of D waits for another one of D.
Deadlocked(D) == D # {} /\ \A s \in D : waitsFor[s] \cap D # {}

-----------------------------------------------------------------------------
\* A request opens its transaction.
Begin(s, q) ==
    /\ request[s] = None
    /\ request' = [request EXCEPT ![s] = q]
    /\ UNCHANGED <<asked, locks, waitsFor>>

\* Its next statement asks for its lock, at the end of the row's queue: it waits
\* for everybody ahead of it.
AskNext(s) ==
    /\ Running(s)
    /\ asked[s] < Len(LocksOf(request[s]))
    /\ LET lock == LocksOf(request[s])[asked[s] + 1]
       IN  IF Covered(s, lock) THEN UNCHANGED <<locks, waitsFor>>
           ELSE /\ locks' = [locks EXCEPT ![lock.row] =
                                @ \cup {[by |-> s, mode |-> lock.mode]}]
                /\ waitsFor' = [waitsFor EXCEPT ![s] = Ahead(s, lock)]
    /\ asked' = [asked EXCEPT ![s] = @ + 1]
    /\ UNCHANGED request

\* The transaction of s ends: its locks go, granted or waited for.
End(s) ==
    /\ request' = [request EXCEPT ![s] = None]
    /\ asked' = [asked EXCEPT ![s] = 0]
    /\ locks' = [row \in Row |-> {e \in locks[row] : e.by # s}]
    /\ waitsFor' = [q \in Session |-> IF q = s THEN {} ELSE waitsFor[q] \ {s}]

Commit(s) ==
    /\ Running(s)
    /\ asked[s] = Len(LocksOf(request[s]))
    /\ End(s)

\* Faulty: a handler that returns on the error without ending the transaction.
Rollback_Forgotten(s) ==
    /\ request[s] # None
    /\ request' = [request EXCEPT ![s] = None]
    /\ UNCHANGED <<asked, locks, waitsFor>>

\* A check or a statement fails (a lock wait timeout among them), or InnoDB has
\* chosen s as the victim of a deadlock: db.Transaction rolls back and the
\* handler answers with the error; nothing retries.
Rollback(s) == request[s] # None /\ End(s)

\* InnoDB rolls one of the sessions of a deadlock back.
Resolve(D) == Deadlocked(D) /\ \E s \in D : Rollback(s)

Next ==
    \/ \E s \in Session :
          \/ \E q \in Request : Begin(s, q)
          \/ AskNext(s)
          \/ Commit(s)
          \/ Rollback(s)
    \/ \E D \in SUBSET Session : Resolve(D)

Spec == Init /\ [][Next]_vars

\* Statements that need not wait are executed, and InnoDB leaves no deadlock
\* standing.  Nothing is assumed of Rollback elsewhere or of requests arriving.
FairSpec ==
    /\ Spec
    /\ \A s \in Session : WF_vars(AskNext(s) \/ Commit(s))
    /\ \A D \in {E \in SUBSET Session : Cardinality(E) > 1} : WF_vars(Resolve(D))

-----------------------------------------------------------------------------
(* Properties                                                               *)

UsersRow == {"users"} \X User

WaitsOutsideUsers(s) ==
    IF asked[s] > 0 /\ LastRow(s) \in UsersRow THEN {} ELSE waitsFor[s]

\* The FOR UPDATE locks are ordered, requirement before bid before contract, and
\* the upserts of Save keep to that order: every deadlock there is passes
\* through a users row, which no service asked for.
DeadlocksPassThroughUsers ==
    \A D \in (SUBSET Session) \ {{}} : \E s \in D : WaitsOutsideUsers(s) \cap D = {}

RequirementOf(q) == IF q.op = "CreateBid" THEN q.id ELSE Bid[q.id].requirement

\* "The requirement row is locked first, so concurrent accepts serialize here":
\* the transactional methods never deadlock on one requirement; a deadlock
\* takes a Save of a preloaded row, or two requirements.
OneRequirementIsOrdered ==
    \A D \in SUBSET Session : Deadlocked(D) =>
        \/ \E s \in D : request[s].op \in {"SaveRequirement", "SaveUser", "Withdraw"}
        \/ \E s, q \in D : RequirementOf(request[s]) # RequirementOf(request[q])

\* Whatever waits for whatever, every transaction ends and no lock outlives it.
EveryTransactionEnds ==
    \A s \in Session : request[s] # None ~> (request[s] = None /\
        \A row \in Row : \A e \in locks[row] : e.by # s)

=============================================================================
