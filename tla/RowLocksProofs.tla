--------------------------- MODULE RowLocksProofs ---------------------------
(* Theorems about RowLocks, for any users, requirements, bids and requests  *)
(* and any finite number of sessions.                                       *)
EXTENDS RowLocks, FiniteSetTheorems, SequenceTheorems, WellFoundedInduction, TLAPS

-----------------------------------------------------------------------------
(****************************************************************************)
(* The locks of a request.                                                  *)
(****************************************************************************)

LEMMA LocksAreLocks ==
    /\ \A u \in User : X("users", u) \in Lock /\ S("users", u) \in Lock
    /\ \A r \in RequirementId : X("requirements", r) \in Lock
    /\ \A b \in BidId : X("bids", b) \in Lock /\ X("contracts", b) \in Lock
BY DEF Lock, Row, X, S

\* The Save of a requirement: its publisher, its row, the bidders, the bids.
LEMMA SaveRequirementLocksAt ==
    ASSUME NEW r \in RequirementId
    PROVE  LET bids == BidsOn[r]
               n == Len(bids)
               list == SaveRequirementLocks(r)
           IN /\ n \in Nat /\ DOMAIN bids = 1 .. n
              /\ \A i \in 1 .. n : bids[i] \in BidId
              /\ list \in Seq(Lock)
              /\ Len(list) = 2 + n + n
              /\ list[1] = X("users", Publisher[r])
              /\ list[2] = X("requirements", r)
              /\ \A i \in 1 .. n : /\ list[2 + i] = X("users", Bid[bids[i]].bidder)
                                   /\ list[2 + n + i] = X("bids", bids[i])
<1> DEFINE bids == BidsOn[r]
           n == Len(bids)
           rows == <<X("users", Publisher[r]), X("requirements", r)>>
           bidders == [i \in 1 .. n |-> X("users", Bid[bids[i]].bidder)]
           offers == [i \in 1 .. n |-> X("bids", bids[i])]
<1>1. bids \in Seq(BidId) /\ n \in Nat /\ DOMAIN bids = 1 .. n
  BY PreloadAssumption
<1>2. \A i \in 1 .. n : bids[i] \in BidId
  BY <1>1
<1>3. rows \in Seq(Lock) /\ Len(rows) = 2
  BY LocksAreLocks, LocksAssumption
<1>4. \A i \in 1 .. n : bidders[i] \in Lock /\ offers[i] \in Lock
  BY <1>2, LocksAreLocks, LocksAssumption
<1>5. /\ bidders \in Seq(Lock) /\ Len(bidders) = n
      /\ offers \in Seq(Lock) /\ Len(offers) = n
  <2>1. bidders \in [1 .. n -> Lock] /\ offers \in [1 .. n -> Lock]
    BY <1>4
  <2> HIDE DEF bidders, offers
  <2>2. bidders \in Seq(Lock) /\ offers \in Seq(Lock)
    BY <1>1, <2>1, SeqDef
  <2> QED
    BY <1>1, <2>1, <2>2, LenProperties
<1>6. SaveRequirementLocks(r) = (rows \o bidders) \o offers
  BY DEF SaveRequirementLocks
<1>7. rows[1] = X("users", Publisher[r]) /\ rows[2] = X("requirements", r)
  OBVIOUS
<1>8. \A i \in 1 .. n : /\ bidders[i] = X("users", Bid[bids[i]].bidder)
                        /\ offers[i] = X("bids", bids[i])
  OBVIOUS
<1> HIDE DEF rows, bidders, offers, bids, n
<1> DEFINE front == rows \o bidders
<1>9. /\ front \in Seq(Lock) /\ Len(front) = 2 + n
      /\ front[1] = rows[1] /\ front[2] = rows[2]
      /\ \A i \in 1 .. n : front[2 + i] = bidders[i]
  <2>1. /\ front \in Seq(Lock)
        /\ Len(front) = Len(rows) + Len(bidders)
        /\ \A i \in 1 .. Len(rows) + Len(bidders) :
              front[i] = IF i <= Len(rows) THEN rows[i] ELSE bidders[i - Len(rows)]
    BY <1>3, <1>5, ConcatProperties, Zenon
  <2>2. /\ front \in Seq(Lock) /\ Len(front) = 2 + n
        /\ \A i \in 1 .. 2 + n : front[i] = IF i <= 2 THEN rows[i] ELSE bidders[i - 2]
    BY <1>3, <1>5, <2>1, Zenon
  <2>3. \A i \in 1 .. n : 2 + i \in 1 .. 2 + n /\ ~(2 + i <= 2) /\ (2 + i) - 2 = i
    BY <1>1
  <2> HIDE DEF front
  <2> QED
    BY <1>1, <2>2, <2>3
<1> HIDE DEF front
<1> DEFINE list == front \o offers
<1>10. /\ list \in Seq(Lock) /\ Len(list) = 2 + n + n
       /\ \A i \in 1 .. 2 + n : list[i] = front[i]
       /\ \A i \in 1 .. n : list[2 + n + i] = offers[i]
  <2>1. /\ list \in Seq(Lock)
        /\ Len(list) = Len(front) + Len(offers)
        /\ \A i \in 1 .. Len(front) + Len(offers) :
              list[i] = IF i <= Len(front) THEN front[i] ELSE offers[i - Len(front)]
    BY <1>5, <1>9, ConcatProperties, Zenon
  <2>2. /\ list \in Seq(Lock) /\ Len(list) = 2 + n + n
        /\ \A i \in 1 .. 2 + n + n :
              list[i] = IF i <= 2 + n THEN front[i] ELSE offers[i - (2 + n)]
    BY <1>5, <1>9, <2>1, Zenon
  <2>3. \A i \in 1 .. n : /\ 2 + n + i \in 1 .. 2 + n + n
                          /\ ~(2 + n + i <= 2 + n)
                          /\ (2 + n + i) - (2 + n) = i
    BY <1>1
  <2>4. \A i \in 1 .. 2 + n : i \in 1 .. 2 + n + n /\ i <= 2 + n
    BY <1>1
  <2> HIDE DEF list
  <2> QED
    BY <2>2, <2>3, <2>4
<1>11. \A i \in 1 .. n : 2 + i \in 1 .. 2 + n
  BY <1>1
<1>12. 1 \in 1 .. 2 + n /\ 2 \in 1 .. 2 + n
  BY <1>1
<1>13. SaveRequirementLocks(r) = list
  BY <1>6 DEF list, front
<1> HIDE DEF list
<1> QED
  BY <1>1, <1>2, <1>7, <1>8, <1>9, <1>10, <1>11, <1>12, <1>13 DEF n, bids

\* What LocksOf is, operation by operation.
LEMMA LocksOfRequest ==
    /\ \A r \in RequirementId, u \in User :
          LocksOf([op |-> "CreateBid", id |-> r, user |-> u]) = CreateBidLocks(r, u)
    /\ \A q \in AllRequests :
          /\ q.op = "CreateBid" => /\ LocksOf(q) = CreateBidLocks(q.id, q.user)
                                   /\ q.id \in RequirementId /\ q.user \in User
          /\ q.op = "AcceptBid" => LocksOf(q) = AcceptBidLocks(q.id) /\ q.id \in BidId
          /\ q.op = "Contract" => LocksOf(q) = ContractLocks(q.id) /\ q.id \in BidId
          /\ q.op = "Withdraw" => LocksOf(q) = WithdrawLocks(q.id) /\ q.id \in BidId
          /\ q.op = "SaveRequirement" => /\ LocksOf(q) = SaveRequirementLocks(q.id)
                                         /\ q.id \in RequirementId
          /\ q.op = "SaveUser" => LocksOf(q) = <<X("users", q.id)>> /\ q.id \in User
          /\ q.op \in {"CreateBid", "AcceptBid", "Contract", "Withdraw",
                       "SaveRequirement", "SaveUser"}
BY DEF LocksOf, AllRequests

\* The tables of the rows that services lock come in this order, and bids in the
\* order of their keys.
Before(a, b) ==
    \/ a[1] = "requirements" /\ b[1] \in {"bids", "contracts"}
    \/ a[1] = "bids" /\ b[1] = "contracts"
    \/ a[1] = "bids" /\ b[1] = "bids" /\ a[2] < b[2]

\* Locks on rows outside users are exclusive.
ExclusiveLocks(list) ==
    \A i \in DOMAIN list : list[i].row \notin UsersRow => list[i].mode = "exclusive"

\* They are asked for in the order of Before.
OrderedLocks(list) ==
    \A i, j \in DOMAIN list :
        i < j /\ list[i].row \notin UsersRow /\ list[j].row \notin UsersRow
            => Before(list[i].row, list[j].row)

LEMMA LockRows ==
    /\ \A u \in User : /\ X("users", u).row \in UsersRow
                       /\ S("users", u).row \in UsersRow
    /\ \A table, id : /\ X(table, id).row = <<table, id>>
                      /\ X(table, id).row[1] = table
                      /\ X(table, id).row[2] = id
                      /\ X(table, id).mode = "exclusive"
BY DEF X, S, UsersRow

LEMMA SaveRequirementLocksGood ==
    ASSUME NEW r \in RequirementId
    PROVE  LET list == SaveRequirementLocks(r)
           IN ExclusiveLocks(list) /\ OrderedLocks(list)
<1> DEFINE bids == BidsOn[r]
           n == Len(bids)
           list == SaveRequirementLocks(r)
<1>1. /\ n \in Nat /\ DOMAIN bids = 1 .. n
      /\ \A i \in 1 .. n : bids[i] \in BidId
      /\ list \in Seq(Lock)
      /\ Len(list) = 2 + n + n
      /\ list[1] = X("users", Publisher[r])
      /\ list[2] = X("requirements", r)
      /\ \A i \in 1 .. n : /\ list[2 + i] = X("users", Bid[bids[i]].bidder)
                           /\ list[2 + n + i] = X("bids", bids[i])
  BY SaveRequirementLocksAt
<1>2. \A i, j \in 1 .. n : i < j => bids[i] < bids[j]
  BY <1>1, PreloadAssumption
<1>3. list[1].row \in UsersRow /\ \A i \in 1 .. n : list[2 + i].row \in UsersRow
  <2>1. Publisher[r] \in User /\ \A i \in 1 .. n : Bid[bids[i]].bidder \in User
    BY <1>1, LocksAssumption
  <2> QED
    BY <1>1, <2>1, LockRows
<1>4. DOMAIN list = 1 .. 2 + n + n
  BY <1>1, LenProperties
<1>5. ASSUME NEW i \in DOMAIN list, list[i].row \notin UsersRow
      PROVE  i = 2 \/ \E k \in 1 .. n : i = 2 + n + k
  <2>1. i # 1 /\ ~(\E k \in 1 .. n : i = 2 + k)
    BY <1>3, <1>5
  <2>2. i \in Int /\ i >= 1 /\ (i <= 2 \/ i - 2 \in 1 .. n \/ i - (2 + n) \in 1 .. n)
    BY <1>1, <1>4
  <2>3. i - 2 \notin 1 .. n
    <3>1. i = 2 + (i - 2)
      BY <2>2
    <3> QED
      BY <2>1, <3>1
  <2>4. i <= 2 => i = 2
    BY <2>1, <2>2
  <2>5. i - (2 + n) \in 1 .. n => \E k \in 1 .. n : i = 2 + n + k
    <3>1. i = 2 + n + (i - (2 + n))
      BY <1>1, <2>2
    <3> QED
      BY <3>1
  <2> QED
    BY <2>2, <2>3, <2>4, <2>5
<1> HIDE DEF list, bids, n
<1>6. /\ list[2].mode = "exclusive" /\ list[2].row[1] = "requirements"
      /\ \A k \in 1 .. n : /\ list[2 + n + k].mode = "exclusive"
                          /\ list[2 + n + k].row[1] = "bids"
                          /\ list[2 + n + k].row[2] = bids[k]
  <2>1. \A k \in 1 .. n : list[2 + n + k] = X("bids", bids[k])
    BY <1>1
  <2> QED
    BY <1>1, <2>1, LockRows
<1>7. ExclusiveLocks(list)
  BY <1>5, <1>6 DEF ExclusiveLocks
<1>8. OrderedLocks(list)
  <2>1. SUFFICES ASSUME NEW i \in DOMAIN list, NEW j \in DOMAIN list, i < j,
                        list[i].row \notin UsersRow, list[j].row \notin UsersRow
                 PROVE  Before(list[i].row, list[j].row)
    BY DEF OrderedLocks
  <2>2. PICK m \in 1 .. n : j = 2 + n + m
    <3>1. CASE j = 2
      <4>1. i = 1
        BY <1>1, <1>4, <2>1, <3>1
      <4> QED
        BY <1>3, <2>1, <4>1
    <3> QED
      BY <1>5, <2>1, <3>1
  <2>3. list[j].row[1] = "bids" /\ list[j].row[2] = bids[m]
    BY <1>6, <2>2
  <2>4. CASE i = 2
    BY <1>6, <2>3, <2>4 DEF Before
  <2>5. CASE \E k \in 1 .. n : i = 2 + n + k
    <3>1. PICK k \in 1 .. n : i = 2 + n + k
      BY <2>5
    <3>2. k < m
      BY <1>1, <2>1, <2>2, <3>1
    <3>3. list[i].row[1] = "bids" /\ list[i].row[2] = bids[k]
      BY <1>6, <3>1
    <3> QED
      BY <1>2, <2>3, <3>2, <3>3 DEF Before
  <2> QED
    BY <1>5, <2>1, <2>4, <2>5
<1> QED
  BY <1>7, <1>8 DEF list

\* Every request asks for exclusive locks in order outside users.
LEMMA LocksGood ==
    ASSUME NEW q \in Request
    PROVE  /\ LocksOf(q) \in Seq(Lock)
           /\ ExclusiveLocks(LocksOf(q))
           /\ OrderedLocks(LocksOf(q))
<1>1. q \in AllRequests
  BY LocksAssumption
<1>2. CASE q.op = "CreateBid"
  <2>1. LocksOf(q) = <<X("requirements", q.id), S("users", q.user)>>
    BY <1>1, <1>2, LocksOfRequest DEF CreateBidLocks
  <2>2. q.id \in RequirementId /\ q.user \in User
    BY <1>1, <1>2, LocksOfRequest
  <2> QED
    BY <2>1, <2>2, LocksAreLocks, LockRows DEF ExclusiveLocks, OrderedLocks
<1>3. CASE q.op = "AcceptBid"
  <2> DEFINE r == Bid[q.id].requirement
  <2>1. LocksOf(q) = <<X("requirements", r), X("bids", q.id),
                       X("users", Bid[q.id].bidder),
                       X("contracts", q.id), S("users", Publisher[r])>>
    BY <1>1, <1>3, LocksOfRequest DEF AcceptBidLocks
  <2>2. q.id \in BidId
    BY <1>1, <1>3, LocksOfRequest
  <2>3. r \in RequirementId /\ Publisher[r] \in User /\ Bid[q.id].bidder \in User
    BY <2>2, LocksAssumption
  <2>4. LocksOf(q) \in Seq(Lock)
    BY <2>1, <2>2, <2>3, LocksAreLocks
  <2>5. ExclusiveLocks(LocksOf(q))
    BY <2>1, <2>2, <2>3, LockRows DEF ExclusiveLocks
  <2>6. OrderedLocks(LocksOf(q))
    BY <2>1, <2>2, <2>3, LockRows DEF OrderedLocks, Before
  <2> QED
    BY <2>4, <2>5, <2>6
<1>4. CASE q.op = "Contract"
  <2>1. LocksOf(q) = <<X("contracts", q.id)>> /\ q.id \in BidId
    BY <1>1, <1>4, LocksOfRequest DEF ContractLocks
  <2> QED
    BY <2>1, LocksAreLocks, LockRows DEF ExclusiveLocks, OrderedLocks
<1>5. CASE q.op = "Withdraw"
  <2>1. LocksOf(q) = <<X("users", Bid[q.id].bidder), X("bids", q.id)>>
    BY <1>1, <1>5, LocksOfRequest DEF WithdrawLocks
  <2>2. q.id \in BidId /\ Bid[q.id].bidder \in User
    BY <1>1, <1>5, LocksOfRequest, LocksAssumption
  <2> QED
    BY <2>1, <2>2, LocksAreLocks, LockRows DEF ExclusiveLocks, OrderedLocks
<1>6. CASE q.op = "SaveRequirement"
  BY <1>1, <1>6, LocksOfRequest, SaveRequirementLocksAt, SaveRequirementLocksGood
<1>7. CASE q.op = "SaveUser"
  <2>1. LocksOf(q) = <<X("users", q.id)>> /\ q.id \in User
    BY <1>1, <1>7, LocksOfRequest
  <2> QED
    BY <2>1, LocksAreLocks, LockRows DEF ExclusiveLocks, OrderedLocks
<1> QED
  BY <1>1, <1>2, <1>3, <1>4, <1>5, <1>6, <1>7, LocksOfRequest

-----------------------------------------------------------------------------
(****************************************************************************)
(* The inductive invariant.                                                 *)
(****************************************************************************)

\* Every lock on a row was asked for by a session whose transaction is open.
EntriesAsked ==
    \A row \in Row : \A e \in locks[row] :
        /\ request[e.by] # None
        /\ \E k \in 1 .. asked[e.by] :
              LocksOf(request[e.by])[k] = [row |-> row, mode |-> e.mode]

\* Every lock that was asked for is there, or one that covers it.
AskedHeld ==
    \A s \in Session : request[s] # None =>
        \A k \in 1 .. asked[s] : Covered(s, LocksOf(request[s])[k])

\* s waits on its last row for sessions that have a lock there.
WaitsForHolders ==
    \A s, q \in Session : q \in waitsFor[s] =>
        /\ q # s
        /\ request[s] # None
        /\ asked[s] > 0
        /\ \E e \in locks[LastRow(s)] : e.by = q

\* s waits on the row for q.
WaitsAt(s, q, row) == q \in waitsFor[s] /\ LastRow(s) = row

\* Of two sessions with conflicting locks on a row, one waits there for the
\* other: a lock is granted to one of them.
ConflictsWait ==
    \A row \in Row : \A e, f \in locks[row] :
        e.by # f.by /\ Conflict(e.mode, f.mode)
            => WaitsAt(e.by, f.by, row) \/ WaitsAt(f.by, e.by, row)

\* Rows outside users have one queue: who waits there for one that waits there
\* waits for all that one waits for.
QueuesAreOrdered ==
    \A s \in Session : \A q \in waitsFor[s] :
        waitsFor[q] # {} /\ LastRow(q) = LastRow(s) /\ LastRow(s) \notin UsersRow
            => waitsFor[q] \subseteq waitsFor[s]

LocksInv ==
    /\ EntriesAsked
    /\ AskedHeld
    /\ WaitsForHolders
    /\ ConflictsWait
    /\ QueuesAreOrdered

-----------------------------------------------------------------------------
(****************************************************************************)
(* What the steps do.                                                       *)
(****************************************************************************)

\* The locks a session has asked for are locks.
LEMMA AskedLocks ==
    ASSUME TypeOK, NEW s \in Session, request[s] # None
    PROVE  /\ request[s] \in Request
           /\ LocksOf(request[s]) \in Seq(Lock)
           /\ asked[s] \in Nat /\ asked[s] <= Len(LocksOf(request[s]))
           /\ \A k \in 1 .. Len(LocksOf(request[s])) :
                 /\ k \in DOMAIN LocksOf(request[s])
                 /\ LocksOf(request[s])[k] \in Lock
                 /\ LocksOf(request[s])[k].row \in Row
                 /\ LocksOf(request[s])[k].mode \in {"shared", "exclusive"}
           /\ asked[s] > 0 => LastRow(s) \in Row
<1>1. request[s] \in Request /\ asked[s] \in Nat /\ asked[s] <= Len(LocksOf(request[s]))
  BY DEF TypeOK
<1>2. LocksOf(request[s]) \in Seq(Lock)
  BY <1>1, LocksGood
<1>3. \A k \in 1 .. Len(LocksOf(request[s])) :
         /\ k \in DOMAIN LocksOf(request[s])
         /\ LocksOf(request[s])[k] \in Lock
  BY <1>2, ElementOfSeq, LenProperties
<1>4. \A lock \in Lock : lock.row \in Row /\ lock.mode \in {"shared", "exclusive"}
  BY DEF Lock
<1>5. asked[s] > 0 => asked[s] \in 1 .. Len(LocksOf(request[s]))
  BY <1>1, <1>2, LenProperties
<1> QED
  BY <1>1, <1>2, <1>3, <1>4, <1>5 DEF LastRow

\* AskNext adds at most one lock, of the session that asks.
LEMMA AskNextEffect ==
    ASSUME TypeOK, NEW s \in Session, AskNext(s)
    PROVE  LET n == asked[s] + 1
               lock == LocksOf(request[s])[n]
               entry == [by |-> s, mode |-> lock.mode]
           IN /\ request[s] \in Request /\ request[s] # None
              /\ waitsFor[s] = {}
              /\ n \in Nat /\ n > 0 /\ n <= Len(LocksOf(request[s]))
              /\ n \in DOMAIN LocksOf(request[s])
              /\ lock \in Lock /\ lock.row \in Row
              /\ lock.mode \in {"shared", "exclusive"}
              /\ entry \in Entry
              /\ request' = request
              /\ asked' = [asked EXCEPT ![s] = n]
              /\ asked'[s] = n
              /\ LastRow(s)' = lock.row
              /\ \A p \in Session \ {s} : /\ asked'[p] = asked[p]
                                         /\ waitsFor'[p] = waitsFor[p]
                                         /\ LastRow(p)' = LastRow(p)
              /\ \/ /\ Covered(s, lock)
                    /\ locks' = locks
                    /\ waitsFor' = waitsFor
                 \/ /\ ~Covered(s, lock)
                    /\ locks' = [locks EXCEPT ![lock.row] = @ \cup {entry}]
                    /\ locks'[lock.row] = locks[lock.row] \cup {entry}
                    /\ \A row \in Row \ {lock.row} : locks'[row] = locks[row]
                    /\ waitsFor' = [waitsFor EXCEPT ![s] = Ahead(s, lock)]
                    /\ waitsFor'[s] = Ahead(s, lock)
<1> DEFINE n == asked[s] + 1
           lock == LocksOf(request[s])[n]
           entry == [by |-> s, mode |-> lock.mode]
<1>1. request[s] # None /\ waitsFor[s] = {} /\ asked[s] < Len(LocksOf(request[s]))
  BY DEF AskNext, Running
<1>2. /\ request[s] \in Request /\ asked[s] \in Nat
      /\ LocksOf(request[s]) \in Seq(Lock)
      /\ \A k \in 1 .. Len(LocksOf(request[s])) :
            /\ k \in DOMAIN LocksOf(request[s])
            /\ LocksOf(request[s])[k] \in Lock
            /\ LocksOf(request[s])[k].row \in Row
            /\ LocksOf(request[s])[k].mode \in {"shared", "exclusive"}
  BY <1>1, AskedLocks
<1>3. /\ n \in Nat /\ n > 0 /\ n <= Len(LocksOf(request[s]))
      /\ n \in 1 .. Len(LocksOf(request[s]))
  BY <1>1, <1>2, LenProperties
<1>4. /\ request' = request
      /\ asked' = [asked EXCEPT ![s] = n]
      /\ \/ /\ Covered(s, lock)
            /\ locks' = locks
            /\ waitsFor' = waitsFor
         \/ /\ ~Covered(s, lock)
            /\ locks' = [locks EXCEPT ![lock.row] = @ \cup {entry}]
            /\ waitsFor' = [waitsFor EXCEPT ![s] = Ahead(s, lock)]
  BY DEF AskNext
<1>5. /\ n \in DOMAIN LocksOf(request[s])
      /\ lock \in Lock /\ lock.row \in Row /\ lock.mode \in {"shared", "exclusive"}
      /\ entry \in Entry
  BY <1>2, <1>3 DEF Entry
<1>6. /\ asked \in [Session -> Nat] /\ waitsFor \in [Session -> SUBSET Session]
      /\ locks \in [Row -> SUBSET Entry]
  BY DEF TypeOK
<1>7. asked'[s] = n /\ \A p \in Session \ {s} : asked'[p] = asked[p]
  BY <1>4, <1>6
<1>8. LastRow(s)' = lock.row /\ \A p \in Session \ {s} : LastRow(p)' = LastRow(p)
  BY <1>4, <1>7 DEF LastRow
<1> HIDE DEF n, lock, entry
<1>9. \A p \in Session \ {s} : waitsFor'[p] = waitsFor[p]
  BY <1>4, <1>6
<1>10. \/ Covered(s, lock) /\ locks' = locks /\ waitsFor' = waitsFor
       \/ /\ ~Covered(s, lock)
          /\ locks' = [locks EXCEPT ![lock.row] = @ \cup {entry}]
          /\ locks'[lock.row] = locks[lock.row] \cup {entry}
          /\ \A row \in Row \ {lock.row} : locks'[row] = locks[row]
          /\ waitsFor' = [waitsFor EXCEPT ![s] = Ahead(s, lock)]
          /\ waitsFor'[s] = Ahead(s, lock)
  BY <1>4, <1>5, <1>6
<1> QED
  BY <1>1, <1>2, <1>3, <1>4, <1>5, <1>7, <1>8, <1>9, <1>10 DEF n, lock, entry

\* End takes the locks of a session away and nothing else.
LEMMA EndEffect ==
    ASSUME TypeOK, NEW s \in Session, End(s)
    PROVE  /\ request'[s] = None /\ asked'[s] = 0 /\ waitsFor'[s] = {}
           /\ \A p \in Session \ {s} : /\ request'[p] = request[p]
                                      /\ asked'[p] = asked[p]
                                      /\ waitsFor'[p] = waitsFor[p] \ {s}
                                      /\ LastRow(p)' = LastRow(p)
           /\ \A row \in Row : locks'[row] = {e \in locks[row] : e.by # s}
BY DEF End, TypeOK, LastRow

-----------------------------------------------------------------------------
(****************************************************************************)
(* The type invariant.                                                      *)
(****************************************************************************)

LEMMA TypeBegin ==
    ASSUME TypeOK, NEW s \in Session, NEW q \in Request, Begin(s, q)
    PROVE  TypeOK'
<1>1. /\ request' = [request EXCEPT ![s] = q]
      /\ asked' = asked /\ locks' = locks /\ waitsFor' = waitsFor
      /\ request[s] = None
  BY DEF Begin
<1>2. \A p \in Session \ {s} : request'[p] = request[p]
  BY <1>1 DEF TypeOK
<1>3. asked[s] = 0 /\ request'[s] = q /\ q # None
  BY <1>1, LocksAssumption DEF TypeOK
<1>4. Len(LocksOf(q)) \in Nat
  BY LocksGood, LenProperties
<1>5. \A p \in Session :
         asked'[p] <= IF request'[p] = None THEN 0 ELSE Len(LocksOf(request'[p]))
  <2>1. asked'[s] <= Len(LocksOf(request'[s]))
    BY <1>1, <1>3, <1>4
  <2>2. \A p \in Session \ {s} :
           asked'[p] <= IF request'[p] = None THEN 0 ELSE Len(LocksOf(request'[p]))
    <3>1. \A p \in Session :
             asked[p] <= IF request[p] = None THEN 0 ELSE Len(LocksOf(request[p]))
      BY DEF TypeOK
    <3> QED
      BY <1>1, <1>2, <3>1
  <2> QED
    BY <1>3, <2>1, <2>2
<1> QED
  BY <1>1, <1>5 DEF TypeOK

LEMMA TypeAskNext ==
    ASSUME TypeOK, NEW s \in Session, AskNext(s)
    PROVE  TypeOK'
<1> DEFINE n == asked[s] + 1
           lock == LocksOf(request[s])[n]
<1>1. /\ request' = request /\ request[s] # None
      /\ n \in Nat /\ n <= Len(LocksOf(request[s]))
      /\ asked' = [asked EXCEPT ![s] = n]
      /\ lock.row \in Row
      /\ [by |-> s, mode |-> lock.mode] \in Entry
      /\ \/ locks' = locks /\ waitsFor' = waitsFor
         \/ /\ locks' = [locks EXCEPT ![lock.row] = @ \cup {[by |-> s, mode |-> lock.mode]}]
            /\ waitsFor' = [waitsFor EXCEPT ![s] = Ahead(s, lock)]
  BY AskNextEffect
<1> HIDE DEF n, lock
<1>2. Ahead(s, lock) \subseteq Session
  BY <1>1 DEF Ahead, TypeOK, Entry
<1>3. locks' \in [Row -> SUBSET Entry] /\ waitsFor' \in [Session -> SUBSET Session]
  <2>1. locks \in [Row -> SUBSET Entry] /\ waitsFor \in [Session -> SUBSET Session]
    BY DEF TypeOK
  <2>2. locks[lock.row] \cup {[by |-> s, mode |-> lock.mode]} \in SUBSET Entry
    BY <1>1, <2>1
  <2>3. locks' \in [Row -> SUBSET Entry]
    BY <1>1, <2>1, <2>2
  <2>4. waitsFor' \in [Session -> SUBSET Session]
    BY <1>1, <1>2, <2>1
  <2> QED
    BY <2>3, <2>4
<1>4. asked' \in [Session -> Nat]
  BY <1>1 DEF TypeOK
<1>5. \A p \in Session :
         asked'[p] <= IF request'[p] = None THEN 0 ELSE Len(LocksOf(request'[p]))
  BY <1>1 DEF TypeOK
<1> QED
  BY <1>1, <1>3, <1>4, <1>5 DEF TypeOK

LEMMA TypeEnd ==
    ASSUME TypeOK, NEW s \in Session, End(s)
    PROVE  TypeOK'
<1>1. /\ request' \in [Session -> Request \cup {None}]
      /\ asked' \in [Session -> Nat]
      /\ locks' \in [Row -> SUBSET Entry]
      /\ waitsFor' \in [Session -> SUBSET Session]
  BY DEF End, TypeOK
<1>2. \A p \in Session :
         asked'[p] <= IF request'[p] = None THEN 0 ELSE Len(LocksOf(request'[p]))
  BY EndEffect DEF TypeOK
<1> QED
  BY <1>1, <1>2 DEF TypeOK

\* A step begins a transaction, asks for a lock, ends a transaction, or changes
\* nothing.
LEMMA LockSteps ==
    ASSUME [Next]_vars
    PROVE  \/ \E s \in Session, q \in Request : Begin(s, q)
           \/ \E s \in Session : AskNext(s)
           \/ \E s \in Session : End(s)
           \/ UNCHANGED vars
BY DEF Next, Commit, Rollback, Resolve

LEMMA TypeNext == TypeOK /\ [Next]_vars => TypeOK'
<1> SUFFICES ASSUME TypeOK, [Next]_vars PROVE TypeOK'
  OBVIOUS
<1>1. CASE UNCHANGED vars
  BY <1>1 DEF TypeOK, vars
<1> QED
  BY <1>1, LockSteps, TypeBegin, TypeAskNext, TypeEnd

\* Every transaction has asked for some of its locks, in order, and nobody else
\* for any: what is open or held belongs to the request being served (TypeOK).
THEOREM LocksTypeCorrect == Spec => []TypeOK
<1>1. Init => TypeOK
  BY DEF Init, TypeOK
<1> QED
  BY <1>1, TypeNext, PTL DEF Spec

-----------------------------------------------------------------------------
(****************************************************************************)
(* The steps keep the invariant.                                            *)
(****************************************************************************)

LEMMA LocksInvBegin ==
    ASSUME TypeOK, LocksInv, NEW s \in Session, NEW q \in Request, Begin(s, q)
    PROVE  LocksInv'
<1>1. /\ request' = [request EXCEPT ![s] = q]
      /\ asked' = asked /\ locks' = locks /\ waitsFor' = waitsFor
      /\ request[s] = None
  BY DEF Begin
<1>2. \A p \in Session \ {s} : request'[p] = request[p] /\ LastRow(p)' = LastRow(p)
  BY <1>1 DEF TypeOK, LastRow
\* s has no locks and waits for nobody, and nobody for it.
<1>3. /\ asked[s] = 0
      /\ waitsFor[s] = {}
      /\ \A row \in Row : \A e \in locks[row] : e.by # s /\ e.by \in Session
      /\ \A p \in Session : s \notin waitsFor[p]
  <2>1. asked[s] = 0 /\ waitsFor[s] \subseteq Session
    BY <1>1 DEF TypeOK
  <2>2. waitsFor[s] = {}
    BY <1>1, <2>1 DEF LocksInv, WaitsForHolders
  <2>3. \A row \in Row : \A e \in locks[row] : e.by # s /\ e.by \in Session
    <3>1. \A row \in Row : \A e \in locks[row] : e.by \in Session
      BY DEF TypeOK, Entry
    <3>2. \A row \in Row : \A e \in locks[row] : request[e.by] # None
      BY DEF LocksInv, EntriesAsked
    <3> QED
      BY <1>1, <3>1, <3>2
  <2>4. \A p \in Session : s \notin waitsFor[p]
    BY <2>3, AskedLocks DEF LocksInv, WaitsForHolders
  <2> QED
    BY <2>1, <2>2, <2>3, <2>4
<1>4. EntriesAsked'
  BY <1>1, <1>2, <1>3 DEF LocksInv, EntriesAsked
<1>5. AskedHeld'
  BY <1>1, <1>2, <1>3 DEF LocksInv, AskedHeld, Covered
<1>6. WaitsForHolders'
  BY <1>1, <1>2, <1>3 DEF LocksInv, WaitsForHolders
<1>7. ConflictsWait'
  BY <1>1, <1>2, <1>3 DEF LocksInv, ConflictsWait, WaitsAt
<1>8. QueuesAreOrdered'
  BY <1>1, <1>2, <1>3 DEF LocksInv, QueuesAreOrdered, TypeOK
<1> QED
  BY <1>4, <1>5, <1>6, <1>7, <1>8 DEF LocksInv

LEMMA LocksInvEnd ==
    ASSUME TypeOK, LocksInv, NEW s \in Session, End(s)
    PROVE  LocksInv'
<1>1. /\ request'[s] = None /\ asked'[s] = 0 /\ waitsFor'[s] = {}
      /\ \A p \in Session \ {s} : /\ request'[p] = request[p]
                                 /\ asked'[p] = asked[p]
                                 /\ waitsFor'[p] = waitsFor[p] \ {s}
                                 /\ LastRow(p)' = LastRow(p)
      /\ \A row \in Row : locks'[row] = {e \in locks[row] : e.by # s}
  BY EndEffect
<1>2. \A row \in Row : \A e \in locks[row] : e.by \in Session
  BY DEF TypeOK, Entry
<1>3. EntriesAsked'
  BY <1>1, <1>2 DEF LocksInv, EntriesAsked
<1>4. AskedHeld'
  <2>1. SUFFICES ASSUME NEW p \in Session, request'[p] # None,
                        NEW k \in 1 .. asked'[p]
                 PROVE  LET lock == LocksOf(request'[p])[k]
                        IN \E e \in locks'[lock.row] :
                              e.by = p /\ e.mode \in {"exclusive", lock.mode}
    BY DEF AskedHeld, Covered
  <2> DEFINE lock == LocksOf(request[p])[k]
  <2>2. p # s /\ request'[p] = request[p] /\ asked'[p] = asked[p]
    BY <1>1, <2>1
  <2>3. Covered(p, lock)
    BY <2>1, <2>2 DEF LocksInv, AskedHeld
  <2>4. lock.row \in Row
    BY <2>1, <2>2, AskedLocks, LenProperties
  <2>5. PICK e \in locks[lock.row] : e.by = p /\ e.mode \in {"exclusive", lock.mode}
    BY <2>3 DEF Covered
  <2>6. e \in locks'[lock.row]
    BY <1>1, <2>2, <2>4, <2>5
  <2> QED
    BY <2>2, <2>5, <2>6
<1>5. WaitsForHolders'
  <2> SUFFICES ASSUME NEW p \in Session, NEW q \in Session, q \in waitsFor'[p]
               PROVE  /\ q # p
                      /\ request'[p] # None
                      /\ asked'[p] > 0
                      /\ \E e \in locks'[LastRow(p)'] : e.by = q
    BY DEF WaitsForHolders
  <2>1. p # s /\ q # s /\ q \in waitsFor[p] /\ LastRow(p)' = LastRow(p)
    BY <1>1
  <2>2. /\ q # p /\ request[p] # None /\ asked[p] > 0
        /\ \E e \in locks[LastRow(p)] : e.by = q
    BY <2>1 DEF LocksInv, WaitsForHolders
  <2>3. LastRow(p) \in Row
    BY <2>2, AskedLocks
  <2> QED
    BY <1>1, <2>1, <2>2, <2>3
<1>6. ConflictsWait'
  BY <1>1, <1>2 DEF LocksInv, ConflictsWait, WaitsAt
<1>7. QueuesAreOrdered'
  <2> SUFFICES ASSUME NEW p \in Session, NEW q \in waitsFor'[p],
                      waitsFor'[q] # {}, LastRow(q)' = LastRow(p)',
                      LastRow(p)' \notin UsersRow
               PROVE  waitsFor'[q] \subseteq waitsFor'[p]
    BY DEF QueuesAreOrdered
  <2>1. p # s /\ q # s /\ q \in waitsFor[p] /\ q \in Session
    BY <1>1 DEF TypeOK
  <2>2. /\ LastRow(p)' = LastRow(p) /\ LastRow(q)' = LastRow(q)
        /\ waitsFor'[p] = waitsFor[p] \ {s} /\ waitsFor'[q] = waitsFor[q] \ {s}
    BY <1>1, <2>1
  <2>3. waitsFor[q] \subseteq waitsFor[p]
    BY <2>1, <2>2 DEF LocksInv, QueuesAreOrdered
  <2> QED
    BY <2>2, <2>3
<1> QED
  BY <1>3, <1>4, <1>5, <1>6, <1>7 DEF LocksInv

LEMMA LocksInvAskNext ==
    ASSUME TypeOK, LocksInv, NEW s \in Session, AskNext(s)
    PROVE  LocksInv'
<1> DEFINE n == asked[s] + 1
           lock == LocksOf(request[s])[n]
           entry == [by |-> s, mode |-> lock.mode]
<1>1. /\ request[s] \in Request /\ request[s] # None
      /\ waitsFor[s] = {}
      /\ n \in Nat /\ n > 0 /\ n <= Len(LocksOf(request[s]))
      /\ n \in DOMAIN LocksOf(request[s])
      /\ lock \in Lock /\ lock.row \in Row
      /\ lock.mode \in {"shared", "exclusive"}
      /\ entry \in Entry
      /\ request' = request
      /\ asked'[s] = n
      /\ LastRow(s)' = lock.row
      /\ \A p \in Session \ {s} : /\ asked'[p] = asked[p]
                                 /\ waitsFor'[p] = waitsFor[p]
                                 /\ LastRow(p)' = LastRow(p)
      /\ \/ /\ Covered(s, lock)
            /\ locks' = locks
            /\ waitsFor' = waitsFor
         \/ /\ ~Covered(s, lock)
            /\ locks'[lock.row] = locks[lock.row] \cup {entry}
            /\ \A row \in Row \ {lock.row} : locks'[row] = locks[row]
            /\ waitsFor'[s] = Ahead(s, lock)
  BY AskNextEffect
<1>2. /\ lock = LocksOf(request[s])[n]
      /\ entry.by = s /\ entry.mode = lock.mode
      /\ lock = [row |-> lock.row, mode |-> lock.mode]
      /\ n = asked[s] + 1 /\ asked[s] \in Nat
  BY <1>1 DEF Lock, TypeOK
<1> HIDE DEF n, lock, entry
<1>3. \A row \in Row : \A e \in locks[row] : e.by \in Session
  BY DEF TypeOK, Entry
<1>4. \A row \in Row : /\ locks[row] \subseteq locks'[row]
                       /\ \A e \in locks'[row] :
                             \/ e \in locks[row]
                             \/ e = entry /\ row = lock.row /\ ~Covered(s, lock)
                                /\ waitsFor'[s] = Ahead(s, lock)
  BY <1>1
<1>5. waitsFor'[s] = {} \/ (~Covered(s, lock) /\ waitsFor'[s] = Ahead(s, lock))
  BY <1>1
\* Outside users, a lock of s on the row would cover the one it asks for.
<1>6. ASSUME lock.row \notin UsersRow, ~Covered(s, lock)
      PROVE  /\ lock.mode = "exclusive"
             /\ \A e \in locks[lock.row] : e.by # s
  <2>1. \A e \in locks[lock.row] : e.mode = "exclusive"
    <3> SUFFICES ASSUME NEW e \in locks[lock.row] PROVE e.mode = "exclusive"
      OBVIOUS
    <3>1. request[e.by] # None /\ e.by \in Session
      BY <1>1, <1>3 DEF LocksInv, EntriesAsked
    <3>2. PICK k \in 1 .. asked[e.by] :
             LocksOf(request[e.by])[k] = [row |-> lock.row, mode |-> e.mode]
      BY <1>1 DEF LocksInv, EntriesAsked
    <3>3. request[e.by] \in Request /\ k \in DOMAIN LocksOf(request[e.by])
      BY <3>1, AskedLocks, LenProperties
    <3> QED
      BY <1>6, <3>2, <3>3, LocksGood DEF ExclusiveLocks
  <2>2. lock.mode = "exclusive"
    BY <1>1, <1>2, <1>6, LocksGood DEF ExclusiveLocks
  <2> QED
    BY <1>6, <2>1, <2>2 DEF Covered
<1>7. EntriesAsked'
  <2> SUFFICES ASSUME NEW row \in Row, NEW e \in locks'[row]
               PROVE  /\ request[e.by] # None
                      /\ \E k \in 1 .. asked'[e.by] :
                            LocksOf(request[e.by])[k] = [row |-> row, mode |-> e.mode]
    BY <1>1 DEF EntriesAsked
  <2>1. CASE e \in locks[row]
    <3>1. e.by \in Session /\ request[e.by] # None
      BY <1>3, <2>1 DEF LocksInv, EntriesAsked
    <3>2. PICK k \in 1 .. asked[e.by] :
             LocksOf(request[e.by])[k] = [row |-> row, mode |-> e.mode]
      BY <2>1 DEF LocksInv, EntriesAsked
    <3>3. asked[e.by] \in Nat /\ asked'[e.by] \in Nat /\ asked[e.by] <= asked'[e.by]
      <4>1. asked[e.by] \in Nat
        BY <3>1 DEF TypeOK
      <4>2. CASE e.by = s
        BY <1>1, <1>2, <4>1, <4>2
      <4>3. CASE e.by # s
        BY <1>1, <3>1, <4>1, <4>3
      <4> QED
        BY <4>2, <4>3
    <3>4. k \in 1 .. asked'[e.by]
      BY <3>3
    <3> QED
      BY <3>1, <3>2, <3>4
  <2>2. CASE e = entry /\ row = lock.row
    <3>1. n \in 1 .. asked'[s]
      BY <1>1
    <3>2. LocksOf(request[s])[n] = [row |-> row, mode |-> e.mode]
      BY <1>2, <2>2
    <3> QED
      BY <1>1, <1>2, <2>2, <3>1, <3>2
  <2> QED
    BY <1>4, <2>1, <2>2
<1>8. AskedHeld'
  <2> DEFINE HeldNext(p, other) ==
               \E e \in locks'[other.row] :
                  e.by = p /\ e.mode \in {"exclusive", other.mode}
  <2>1. ASSUME NEW p \in Session, NEW other, other.row \in Row, Covered(p, other)
        PROVE  HeldNext(p, other)
    BY <1>4, <2>1 DEF Covered
  <2>2. HeldNext(s, lock)
    <3>1. CASE Covered(s, lock)
      BY <1>1, <2>1, <3>1
    <3>2. CASE ~Covered(s, lock)
      <4>1. entry \in locks'[lock.row]
        BY <1>1, <3>2
      <4> QED
        BY <1>2, <4>1
    <3> QED
      BY <3>1, <3>2
  <2>3. SUFFICES ASSUME NEW p \in Session, request[p] # None,
                        NEW k \in 1 .. asked'[p]
                 PROVE  HeldNext(p, LocksOf(request[p])[k])
    BY <1>1 DEF AskedHeld, Covered
  <2> HIDE DEF HeldNext
  <2>4. CASE p = s /\ k = n
    BY <1>2, <2>2, <2>4
  <2>5. CASE ~(p = s /\ k = n)
    <3>1. k \in 1 .. asked[p]
      BY <1>1, <1>2, <2>5
    <3>2. LocksOf(request[p])[k].row \in Row
      BY <2>3, <3>1, AskedLocks, LenProperties
    <3>3. Covered(p, LocksOf(request[p])[k])
      BY <2>3, <3>1 DEF LocksInv, AskedHeld
    <3> QED
      BY <2>1, <3>2, <3>3
  <2> QED
    BY <2>4, <2>5
<1>9. WaitsForHolders'
  <2> SUFFICES ASSUME NEW p \in Session, NEW q \in Session, q \in waitsFor'[p]
               PROVE  /\ q # p
                      /\ request[p] # None
                      /\ asked'[p] > 0
                      /\ \E e \in locks'[LastRow(p)'] : e.by = q
    BY <1>1 DEF WaitsForHolders
  <2>1. CASE p = s
    BY <1>1, <1>4, <1>5, <2>1 DEF Ahead
  <2>2. CASE p # s
    <3>1. q \in waitsFor[p] /\ asked'[p] = asked[p] /\ LastRow(p)' = LastRow(p)
      BY <1>1, <2>2
    <3>2. /\ q # p /\ request[p] # None /\ asked[p] > 0
          /\ \E e \in locks[LastRow(p)] : e.by = q
      BY <3>1 DEF LocksInv, WaitsForHolders
    <3>3. LastRow(p) \in Row
      BY <3>2, AskedLocks
    <3> QED
      BY <1>4, <3>1, <3>2, <3>3
  <2> QED
    BY <2>1, <2>2
<1>10. ConflictsWait'
  <2> SUFFICES ASSUME NEW row \in Row, NEW e \in locks'[row], NEW f \in locks'[row],
                      e.by # f.by, Conflict(e.mode, f.mode)
               PROVE  WaitsAt(e.by, f.by, row)' \/ WaitsAt(f.by, e.by, row)'
    BY DEF ConflictsWait
  <2>1. CASE e \in locks[row] /\ f \in locks[row]
    <3>1. WaitsAt(e.by, f.by, row) \/ WaitsAt(f.by, e.by, row)
      BY <2>1 DEF LocksInv, ConflictsWait
    <3>2. \A p, q \in Session : WaitsAt(p, q, row) => WaitsAt(p, q, row)'
      BY <1>1 DEF WaitsAt
    <3> QED
      BY <1>3, <2>1, <3>1, <3>2
  <2>2. ASSUME NEW g \in locks[row], row = lock.row, g.by # s,
               Conflict(g.mode, lock.mode), waitsFor'[s] = Ahead(s, lock)
        PROVE  WaitsAt(s, g.by, row)'
    BY <1>1, <2>2 DEF WaitsAt, Ahead
  <2> QED
    BY <1>2, <1>4, <2>1, <2>2 DEF Conflict
<1>11. QueuesAreOrdered'
  <2> SUFFICES ASSUME NEW p \in Session, NEW q \in waitsFor'[p],
                      waitsFor'[q] # {}, LastRow(q)' = LastRow(p)',
                      LastRow(p)' \notin UsersRow
               PROVE  waitsFor'[q] \subseteq waitsFor'[p]
    BY DEF QueuesAreOrdered
  <2>1. q \in Session
    BY TypeAskNext DEF TypeOK
  <2>2. q # p
    BY <1>9, <2>1 DEF WaitsForHolders
  <2>3. CASE p # s /\ q # s
    BY <1>1, <2>1, <2>3 DEF LocksInv, QueuesAreOrdered
  <2>4. CASE q = s
    <3>1. p # s /\ s \in waitsFor[p] /\ LastRow(p) = lock.row
      BY <1>1, <2>2, <2>4
    <3>2. \E e \in locks[lock.row] : e.by = s
      BY <3>1 DEF LocksInv, WaitsForHolders
    <3> QED
      BY <1>1, <1>5, <1>6, <2>4, <3>1, <3>2
  <2>5. CASE p = s
    <3>1. q # s /\ waitsFor'[q] = waitsFor[q] /\ LastRow(q) = lock.row
      BY <1>1, <2>1, <2>2, <2>5
    <3>2. /\ lock.mode = "exclusive" /\ waitsFor'[s] = Ahead(s, lock)
          /\ \A e \in locks[lock.row] : e.by # s
      BY <1>1, <1>5, <1>6, <2>5
    <3>3. ASSUME NEW x \in waitsFor[q]
          PROVE  x \in Ahead(s, lock)
      <4>1. x \in Session /\ \E e \in locks[lock.row] : e.by = x
        BY <2>1, <3>1 DEF LocksInv, WaitsForHolders, TypeOK
      <4> QED
        BY <3>2, <4>1 DEF Ahead, Conflict
    <3> QED
      BY <2>5, <3>1, <3>2, <3>3
  <2> QED
    BY <2>3, <2>4, <2>5
<1> QED
  BY <1>7, <1>8, <1>9, <1>10, <1>11 DEF LocksInv

\* Locks are asked for in order by open transactions, conflicting ones wait for
\* each other, and the queues of the rows services lock are orders.
THEOREM LocksInvariant == Spec => []LocksInv
<1>1. Init => LocksInv
  BY DEF Init, LocksInv, EntriesAsked, AskedHeld, WaitsForHolders, ConflictsWait,
         QueuesAreOrdered
<1>2. TypeOK /\ LocksInv /\ [Next]_vars => LocksInv'
  <2> SUFFICES ASSUME TypeOK, LocksInv, [Next]_vars PROVE LocksInv'
    OBVIOUS
  <2>1. CASE UNCHANGED vars
    BY <2>1 DEF LocksInv, EntriesAsked, AskedHeld, WaitsForHolders, ConflictsWait,
                QueuesAreOrdered, Covered, WaitsAt, LastRow, vars
  <2> QED
    BY <2>1, LockSteps, LocksInvBegin, LocksInvAskNext, LocksInvEnd
<1> QED
  BY <1>1, <1>2, LocksTypeCorrect, PTL DEF Spec

-----------------------------------------------------------------------------
(****************************************************************************)
(* Deadlocks.                                                               *)
(****************************************************************************)

LEMMA LeastNatural ==
    ASSUME NEW N \in SUBSET Nat, N # {}
    PROVE  \E n \in N : \A m \in N : n <= m
<1>1. PICK n \in N : \A m \in N : ~(<<m, n>> \in OpToRel(<, Nat))
  BY NatLessThanWellFounded, WFMin
<1>2. OpToRel(<, Nat) = {pair \in Nat \X Nat : pair[1] < pair[2]}
  BY Zenon DEF OpToRel
<1>3. ASSUME NEW m \in N
      PROVE  n <= m
  <2>1. ~(m < n)
    BY <1>1, <1>2
  <2> QED
    BY <2>1
<1> QED
  BY <1>3

\* A strict order on a finite set has a maximal element.
LEMMA MaximalElement ==
    ASSUME NEW D, IsFiniteSet(D), D # {},
           NEW R,
           \A s \in D : <<s, s>> \notin R,
           \A s, q, p \in D : <<s, q>> \in R /\ <<q, p>> \in R => <<s, p>> \in R
    PROVE  \E s \in D : \A q \in D : <<s, q>> \notin R
<1> DEFINE above == [s \in D |-> {q \in D : <<s, q>> \in R}]
           sizes == {Cardinality(above[s]) : s \in D}
<1>1. \A s \in D : IsFiniteSet(above[s]) /\ Cardinality(above[s]) \in Nat
  BY FS_Subset, FS_CardinalityType
<1> HIDE DEF above
<1>2. sizes \in SUBSET Nat /\ sizes # {}
  <2>1. PICK s \in D : TRUE
    OBVIOUS
  <2>2. Cardinality(above[s]) \in sizes
    BY <2>1
  <2> QED
    BY <1>1, <2>2
<1>3. PICK n \in sizes : \A m \in sizes : n <= m
  BY <1>2, LeastNatural
<1>4. PICK s \in D : n = Cardinality(above[s])
  OBVIOUS
<1>5. ASSUME NEW q \in D, <<s, q>> \in R
      PROVE  FALSE
  <2>1. above[q] \subseteq above[s] /\ q \in above[s] /\ q \notin above[q]
    BY <1>5 DEF above
  <2>2. /\ Cardinality(above[q]) <= Cardinality(above[s])
        /\ Cardinality(above[s]) # Cardinality(above[q])
    BY <1>1, <2>1, FS_Subset
  <2>3. Cardinality(above[s]) <= Cardinality(above[q])
    <3>1. Cardinality(above[q]) \in sizes
      OBVIOUS
    <3> QED
      BY <1>3, <1>4, <3>1
  <2>4. Cardinality(above[s]) \in Nat /\ Cardinality(above[q]) \in Nat
    BY <1>1
  <2> QED
    BY <2>2, <2>3, <2>4
<1> QED
  BY <1>5

\* Outside users, the lock a session waits for comes after all those it has.
LEMMA WaitsInOrder ==
    ASSUME TypeOK, LocksInv, NEW s \in Session, NEW q \in waitsFor[s],
           LastRow(s) \notin UsersRow,
           request[q] # None, asked[q] > 0, LastRow(q) \notin UsersRow
    PROVE  LastRow(s) = LastRow(q) \/ Before(LastRow(s), LastRow(q))
<1> DEFINE list == LocksOf(request[q])
<1>1. q \in Session
  BY DEF TypeOK
<1>2. request[s] # None /\ asked[s] > 0 /\ \E e \in locks[LastRow(s)] : e.by = q
  BY <1>1 DEF LocksInv, WaitsForHolders
<1>3. LastRow(s) \in Row
  BY <1>2, AskedLocks
<1>4. PICK k \in 1 .. asked[q] : list[k].row = LastRow(s)
  <2>1. PICK e \in locks[LastRow(s)] : e.by = q
    BY <1>2
  <2>2. PICK k \in 1 .. asked[q] : list[k] = [row |-> LastRow(s), mode |-> e.mode]
    BY <1>3, <2>1 DEF LocksInv, EntriesAsked
  <2> QED
    BY <2>2
<1>5. /\ request[q] \in Request /\ asked[q] \in Nat /\ asked[q] <= Len(list)
      /\ Len(list) \in Nat
      /\ \A i \in 1 .. Len(list) : i \in DOMAIN list
  BY <1>1, AskedLocks, LenProperties
<1>6. k \in DOMAIN list /\ asked[q] \in DOMAIN list /\ (k = asked[q] \/ k < asked[q])
  BY <1>4, <1>5
<1>7. OrderedLocks(list)
  BY <1>5, LocksGood
<1> QED
  BY <1>4, <1>6, <1>7 DEF OrderedLocks, LastRow

LEMMA BeforeIsOrder ==
    /\ \A a \in Row : ~Before(a, a)
    /\ \A a, b, c \in Row : Before(a, b) /\ Before(b, c) => Before(a, c)
<1>1. \A a \in Row : a[1] = "bids" => a[2] \in Nat
  BY LocksAssumption DEF Row
<1> QED
  BY <1>1 DEF Before

\* No set of sessions deadlocks outside the users rows
\* (DeadlocksPassThroughUsers): among sessions that wait there for each other,
\* one whose row comes last and that is last in its queue would wait for another
\* one further on.
LEMMA NoDeadlockOutsideUsers ==
    ASSUME TypeOK, LocksInv
    PROVE  DeadlocksPassThroughUsers
<1> SUFFICES ASSUME NEW D \in SUBSET Session, D # {},
                    \A s \in D : WaitsOutsideUsers(s) \cap D # {}
             PROVE  FALSE
  BY DEF DeadlocksPassThroughUsers
<1>1. IsFiniteSet(D)
  BY SessionAssumption, FS_Subset
<1>2. ASSUME NEW s \in D
      PROVE  /\ waitsFor[s] \cap D # {}
             /\ request[s] # None /\ asked[s] > 0
             /\ LastRow(s) \notin UsersRow /\ LastRow(s) \in Row
             /\ s \notin waitsFor[s]
  <2>1. waitsFor[s] \cap D # {} /\ ~(asked[s] > 0 /\ LastRow(s) \in UsersRow)
    BY DEF WaitsOutsideUsers
  <2>2. s \notin waitsFor[s] /\ request[s] # None /\ asked[s] > 0
    BY <2>1 DEF LocksInv, WaitsForHolders
  <2> QED
    BY <2>1, <2>2, AskedLocks
<1> DEFINE R == {pair \in D \X D :
                   \/ Before(LastRow(pair[1]), LastRow(pair[2]))
                   \/ /\ LastRow(pair[1]) = LastRow(pair[2])
                      /\ pair[2] \in waitsFor[pair[1]]}
<1>3. \A s, q \in D : <<s, q>> \in R <=>
          \/ Before(LastRow(s), LastRow(q))
          \/ LastRow(s) = LastRow(q) /\ q \in waitsFor[s]
  OBVIOUS
<1> HIDE DEF R
<1>4. \A s \in D : <<s, s>> \notin R
  BY <1>2, <1>3, BeforeIsOrder
<1>5. \A s, q, p \in D : <<s, q>> \in R /\ <<q, p>> \in R => <<s, p>> \in R
  <2> SUFFICES ASSUME NEW s \in D, NEW q \in D, NEW p \in D,
                      <<s, q>> \in R, <<q, p>> \in R
               PROVE  <<s, p>> \in R
    OBVIOUS
  <2>1. CASE Before(LastRow(s), LastRow(q)) \/ Before(LastRow(q), LastRow(p))
    <3>1. \/ LastRow(s) = LastRow(q) \/ Before(LastRow(s), LastRow(q))
      BY <1>3
    <3>2. \/ LastRow(q) = LastRow(p) \/ Before(LastRow(q), LastRow(p))
      BY <1>3
    <3>3. Before(LastRow(s), LastRow(p))
      BY <1>2, <2>1, <3>1, <3>2, BeforeIsOrder
    <3> QED
      BY <1>3, <3>3
  <2>2. CASE /\ LastRow(s) = LastRow(q) /\ q \in waitsFor[s]
             /\ LastRow(q) = LastRow(p) /\ p \in waitsFor[q]
    <3>1. waitsFor[q] \subseteq waitsFor[s]
      BY <1>2, <2>2 DEF LocksInv, QueuesAreOrdered
    <3> QED
      BY <1>3, <2>2, <3>1
  <2> QED
    BY <1>3, <2>1, <2>2
<1>6. PICK s \in D : \A q \in D : <<s, q>> \notin R
  BY <1>1, <1>4, <1>5, MaximalElement
<1>7. PICK q \in D : q \in waitsFor[s]
  BY <1>2
<1>8. LastRow(s) = LastRow(q) \/ Before(LastRow(s), LastRow(q))
  BY <1>2, <1>7, WaitsInOrder
<1> QED
  BY <1>3, <1>6, <1>7, <1>8

\* Every deadlock passes through a users row (DeadlocksPassThroughUsers), for
\* any requests and any finite number of sessions.
THEOREM DeadlocksNeedUsers == Spec => []DeadlocksPassThroughUsers
BY NoDeadlockOutsideUsers, LocksTypeCorrect, LocksInvariant, PTL

\* CreateBid and AcceptBid lock their requirement before a users row, Contract
\* locks none.
LEMMA RequirementFirst ==
    ASSUME NEW q \in Request, q.op \in {"CreateBid", "AcceptBid", "Contract"},
           NEW k \in DOMAIN LocksOf(q), LocksOf(q)[k].row \in UsersRow
    PROVE  /\ LocksOf(q)[1] = X("requirements", RequirementOf(q))
           /\ RequirementOf(q) \in RequirementId
           /\ k > 1
           /\ \A i \in DOMAIN LocksOf(q) : i > 1 =>
                 LocksOf(q)[i].row # X("requirements", RequirementOf(q)).row
<1>1. q \in AllRequests
  BY LocksAssumption
<1>2. \A table, id : table # "users" => X(table, id).row \notin UsersRow
  BY DEF X, UsersRow
<1>3. CASE q.op = "CreateBid"
  <2>1. LocksOf(q) = <<X("requirements", q.id), S("users", q.user)>>
    BY <1>1, <1>3, LocksOfRequest DEF CreateBidLocks
  <2>2. q.id \in RequirementId /\ RequirementOf(q) = q.id
    BY <1>1, <1>3, LocksOfRequest DEF RequirementOf
  <2>3. k # 1
    BY <1>2, <2>1
  <2>4. S("users", q.user).row # X("requirements", q.id).row
    BY DEF S, X
  <2> QED
    BY <2>1, <2>2, <2>3, <2>4
<1>4. CASE q.op = "AcceptBid"
  <2> DEFINE r == Bid[q.id].requirement
  <2>1. LocksOf(q) = <<X("requirements", r), X("bids", q.id),
                       X("users", Bid[q.id].bidder),
                       X("contracts", q.id), S("users", Publisher[r])>>
    BY <1>1, <1>4, LocksOfRequest DEF AcceptBidLocks
  <2>2. r \in RequirementId /\ RequirementOf(q) = r
    BY <1>1, <1>4, LocksOfRequest, LocksAssumption DEF RequirementOf
  <2>3. k # 1
    BY <1>2, <2>1
  <2>4. /\ \A table, id : table # "requirements" =>
              X(table, id).row # X("requirements", r).row
        /\ S("users", Publisher[r]).row # X("requirements", r).row
    BY DEF S, X
  <2> QED
    BY <2>1, <2>2, <2>3, <2>4
<1>5. CASE q.op = "Contract"
  <2>1. LocksOf(q) = <<X("contracts", q.id)>>
    BY <1>1, <1>5, LocksOfRequest DEF ContractLocks
  <2> QED
    BY <1>2, <2>1
<1> QED
  BY <1>3, <1>4, <1>5

\* Two of the transactional methods on one requirement do not meet at a users
\* row: the second one still waits for the requirement.
LEMMA OneWaitsForTheRequirement ==
    ASSUME TypeOK, LocksInv,
           NEW s \in Session, NEW q \in waitsFor[s], request[q] # None,
           request[s].op \in {"CreateBid", "AcceptBid", "Contract"},
           request[q].op \in {"CreateBid", "AcceptBid", "Contract"},
           RequirementOf(request[s]) = RequirementOf(request[q])
    PROVE  LastRow(s) \notin UsersRow
<1> SUFFICES ASSUME LastRow(s) \in UsersRow PROVE FALSE
  OBVIOUS
<1> DEFINE row == X("requirements", RequirementOf(request[s])).row
<1>1. q \in Session
  BY DEF TypeOK
<1>2. /\ q # s /\ request[s] # None /\ asked[s] > 0
      /\ \E e \in locks[LastRow(s)] : e.by = q
  BY <1>1 DEF LocksInv, WaitsForHolders
<1>3. LastRow(s) \in Row
  BY <1>2, AskedLocks
<1>4. PICK k \in 1 .. asked[q] : LocksOf(request[q])[k].row = LastRow(s)
  <2>1. PICK e \in locks[LastRow(s)] : e.by = q
    BY <1>2
  <2>2. PICK k \in 1 .. asked[q] :
           LocksOf(request[q])[k] = [row |-> LastRow(s), mode |-> e.mode]
    BY <1>3, <2>1 DEF LocksInv, EntriesAsked
  <2> QED
    BY <2>2
<1>5. ASSUME NEW p \in {s, q}
      PROVE  /\ request[p] \in Request /\ asked[p] \in Nat
             /\ \A i \in 1 .. asked[p] : i \in DOMAIN LocksOf(request[p])
  BY <1>1, <1>2, AskedLocks, LenProperties
\* Both have locked the requirement, and have gone on.
<1>6. ASSUME NEW p \in {s, q}
      PROVE  /\ asked[p] > 1
             /\ LastRow(p) # row
             /\ LocksOf(request[p])[1] = X("requirements", RequirementOf(request[s]))
             /\ row \in Row
  <2>1. PICK i \in 1 .. asked[p] : LocksOf(request[p])[i].row \in UsersRow
    <3>1. CASE p = s
      BY <1>2, <1>5, <3>1 DEF LastRow
    <3>2. CASE p = q
      BY <1>4, <3>2
    <3> QED
      BY <3>1, <3>2
  <2>2. i \in DOMAIN LocksOf(request[p])
    BY <1>5
  <2>3. /\ LocksOf(request[p])[1] = X("requirements", RequirementOf(request[s]))
        /\ RequirementOf(request[s]) \in RequirementId
        /\ i > 1
        /\ \A j \in DOMAIN LocksOf(request[p]) : j > 1 =>
              LocksOf(request[p])[j].row # row
    BY <1>5, <2>1, <2>2, RequirementFirst
  <2>4. asked[p] > 1 /\ asked[p] \in DOMAIN LocksOf(request[p])
    BY <1>5, <2>1, <2>3
  <2>5. row \in Row
    BY <2>3, LocksAreLocks DEF Lock
  <2> QED
    BY <2>3, <2>4, <2>5 DEF LastRow
<1>7. ASSUME NEW p \in {s, q}
      PROVE  \E e \in locks[row] : e.by = p /\ e.mode = "exclusive"
  <2>1. 1 \in 1 .. asked[p] /\ request[p] # None /\ p \in Session
    BY <1>1, <1>2, <1>5, <1>6
  <2>2. Covered(p, LocksOf(request[p])[1])
    BY <2>1 DEF LocksInv, AskedHeld
  <2>3. X("requirements", RequirementOf(request[s])).mode = "exclusive"
    BY LockRows
  <2> QED
    BY <1>6, <2>2, <2>3 DEF Covered
<1>8. PICK e \in locks[row], f \in locks[row] :
         e.by = s /\ f.by = q /\ e.mode = "exclusive" /\ f.mode = "exclusive"
  BY <1>7
<1>9. WaitsAt(s, q, row) \/ WaitsAt(q, s, row)
  BY <1>2, <1>6, <1>8 DEF LocksInv, ConflictsWait, Conflict
<1> QED
  BY <1>6, <1>9 DEF WaitsAt

\* The transactional methods do not deadlock among themselves on one
\* requirement (OneRequirementIsOrdered).
THEOREM OneRequirementHasNoDeadlock == Spec => []OneRequirementIsOrdered
<1>1. TypeOK /\ LocksInv => OneRequirementIsOrdered
  <2> SUFFICES ASSUME TypeOK, LocksInv, NEW D \in SUBSET Session, Deadlocked(D),
                      \A s \in D : request[s].op \notin {"SaveRequirement", "SaveUser", "Withdraw"},
                      \A s, q \in D : RequirementOf(request[s]) = RequirementOf(request[q])
               PROVE  FALSE
    BY DEF OneRequirementIsOrdered
  <2>1. D # {} /\ \A s \in D : waitsFor[s] \cap D # {}
    BY DEF Deadlocked
  <2>2. ASSUME NEW s \in D
        PROVE  /\ request[s] # None
               /\ request[s].op \in {"CreateBid", "AcceptBid", "Contract"}
    <3>1. request[s] # None
      BY <2>1 DEF LocksInv, WaitsForHolders
    <3>2. request[s] \in AllRequests
      BY <3>1, AskedLocks, LocksAssumption
    <3> QED
      BY <3>1, <3>2, LocksOfRequest
  <2>3. ASSUME NEW s \in D
        PROVE  WaitsOutsideUsers(s) \cap D # {}
    <3>1. PICK q \in D : q \in waitsFor[s]
      BY <2>1
    <3>2. LastRow(s) \notin UsersRow
      BY <2>2, <3>1, OneWaitsForTheRequirement
    <3> QED
      BY <3>1, <3>2 DEF WaitsOutsideUsers
  <2> QED
    BY <2>1, <2>3, NoDeadlockOutsideUsers DEF DeadlocksPassThroughUsers
<1> QED
  BY <1>1, LocksTypeCorrect, LocksInvariant, PTL

\* Of two transactions that need not wait, no lock of one conflicts with a lock
\* of the other: granted locks exclude each other.
GrantedLocksExclude ==
    \A row \in Row : \A e, f \in locks[row] :
        e.by # f.by /\ Running(e.by) /\ Running(f.by) => ~Conflict(e.mode, f.mode)

\* What FOR UPDATE is for: two running transactions never hold conflicting locks
\* on a row.
THEOREM RunningLocksExclude == Spec => []GrantedLocksExclude
<1>1. TypeOK /\ LocksInv => GrantedLocksExclude
  BY DEF GrantedLocksExclude, LocksInv, ConflictsWait, WaitsAt, Running
<1> QED
  BY <1>1, LocksTypeCorrect, LocksInvariant, PTL

=============================================================================
