--------------------------- MODULE MarketplaceTx ---------------------------
(***************************************************************************)
(* The transactional methods of Marketplace, statement by statement, as    *)
(* they run against InnoDB: SELECT ... FOR UPDATE takes a row lock or      *)
(* waits for it, writes stay in the transaction until COMMIT, and any      *)
(* statement may fail, which rolls everything back.  The handlers without  *)
(* a transaction are those of Marketplace, their Save waiting for the lock *)
(* of the row it writes.                                                   *)
(*                                                                         *)
(* The module extends Marketplace: TxSpec is shown to implement its Spec   *)
(* with the same tables, a transaction being invisible until it commits.   *)
(***************************************************************************)
EXTENDS Marketplace

VARIABLE tx            \* [Session -> the open transaction of a handler, or None]

txVars == <<requirements, bids, contracts, notifications, session, tx>>

Operation == {"CreateBid", "AcceptBid", "Sign", "Complete"}

\* The statement a transaction executes next.
Statement ==
    {"lockRequirement", "lockBid", "lockContract", "insertBid", "saveBid",
     "saveRequirement", "insertContract", "saveContract", "notify", "commit"}

Table == {"requirements", "bids", "contracts", "notifications"}

\* Rows that can be locked.
Row == ({"requirements"} \X RequirementId) \cup ({"bids", "contracts"} \X BidId)

\* A transaction: the request, the next statement, the row locks, the rows in
\* the handler's hands, the tables it has written these rows to, and whom it
\* has notified.
Transaction ==
    [op : Operation, user : User, r : RequirementId \cup {None},
     b : BidId \cup {None}, next : Statement, locks : SUBSET Row,
     requirement : RequirementRow \cup {None}, bid : BidRow \cup {None},
     contract : ContractRow \cup {None}, recipient : User \cup {None},
     written : SUBSET Table]

ASSUME TransactionAssumption == None \notin Transaction

TxTypeOK == TypeOK /\ tx \in [Session -> Transaction \cup {None}]

TxInit == Init /\ tx = [s \in Session |-> None]

\* The event each operation notifies of.
BizType == [CreateBid |-> "bid_submitted", AcceptBid |-> "bid_accepted",
            Sign |-> "contract_signed", Complete |-> "contract_completed"]

-----------------------------------------------------------------------------
(* Transactions and locks                                                   *)

\* A statement of the transaction of s succeeds and leaves it as t; nothing
\* is visible to other transactions yet.
Step(s, t) ==
    /\ tx' = [tx EXCEPT ![s] = t]
    /\ UNCHANGED vars

\* gorm's db.Transaction: BEGIN, with nothing read, locked or written.
Begin(s, op, u, r, b, first) ==
    /\ Idle(s)
    /\ tx[s] = None
    /\ Step(s, [op |-> op, user |-> u, r |-> r, b |-> b, next |-> first, locks |-> {},
                requirement |-> None, bid |-> None, contract |-> None,
                recipient |-> None, written |-> {}])

At(s, statement) == tx[s] # None /\ tx[s].next = statement

\* No other transaction holds a lock on the row.
Free(s, row) == \A q \in Session \ {s} : tx[q] # None => row \notin tx[q].locks

\* Faulty: a plain SELECT, which takes no lock.
LockRow_Unlocked(s, row, ok, t) ==
    /\ Free(s, row)
    /\ Step(s, IF ok THEN t ELSE None)

\* Faulty: a failed check is retried without leaving the transaction.
LockRow_Retrying(s, row, ok, t) ==
    /\ Free(s, row)
    /\ Step(s, IF ok THEN [t EXCEPT !.locks = tx[s].locks \cup {row}] ELSE tx[s])

\* SELECT ... FOR UPDATE, once the lock is granted: the handler goes on with
\* the transaction t, or, when a check on the row read fails, returns an error
\* and the transaction is rolled back.
LockRow(s, row, ok, t) ==
    /\ Free(s, row)
    /\ Step(s, IF ok THEN [t EXCEPT !.locks = tx[s].locks \cup {row}] ELSE None)

-----------------------------------------------------------------------------
(* Statements                                                               *)

LockRequirement(s) ==
    /\ At(s, "lockRequirement")
    /\ LET t == tx[s]
           ok == IF t.op = "CreateBid" THEN MayBid(t.user, t.r)
                                       ELSE MayAccept(t.user, t.r)
       IN  LockRow(s, <<"requirements", t.r>>, ok,
              [t EXCEPT !.requirement = requirements[t.r],
                        !.next = IF t.op = "CreateBid" THEN "insertBid" ELSE "lockBid"])

LockBid(s) ==
    /\ At(s, "lockBid")
    /\ LET t == tx[s]
       IN  LockRow(s, <<"bids", t.b>>, Acceptable(t.r, t.b),
              [t EXCEPT !.bid = bids[t.b], !.next = "saveBid"])

LockContract(s) ==
    /\ At(s, "lockContract")
    /\ LET t == tx[s]
           ok == IF t.op = "Sign" THEN MaySign(t.user, t.b)
                                  ELSE MayComplete(t.user, t.b)
       IN  LockRow(s, <<"contracts", t.b>>, ok,
              [t EXCEPT !.contract = contracts[t.b], !.next = "saveContract"])

\* INSERT INTO bids: a key no committed row and no open transaction has.
InsertBid(s, b) ==
    /\ At(s, "insertBid")
    /\ bids[b] = None
    /\ Free(s, <<"bids", b>>)
    /\ LET t == tx[s]
       IN  Step(s, [t EXCEPT
              !.b = b,
              !.bid = [requirement |-> t.r, bidder |-> t.user, status |-> "pending"],
              !.locks = t.locks \cup {<<"bids", b>>},
              !.written = t.written \cup {"bids"}, !.next = "notify"])

\* Faulty: written through the service's own connection, not the transaction's.
SaveAcceptedBid_OutsideTx(s) ==
    /\ At(s, "saveBid")
    /\ bids' = [bids EXCEPT ![tx[s].b].status = "accepted"]
    /\ tx' = [tx EXCEPT ![s].bid.status = "accepted", ![s].next = "saveRequirement"]
    /\ UNCHANGED <<requirements, contracts, notifications, session>>

SaveAcceptedBid(s) ==
    /\ At(s, "saveBid")
    /\ LET t == tx[s]
       IN  Step(s, [t EXCEPT
              !.bid = [t.bid EXCEPT !.status = "accepted"],
              !.written = t.written \cup {"bids"}, !.next = "saveRequirement"])

SaveWonRequirement(s) ==
    /\ At(s, "saveRequirement")
    /\ LET t == tx[s]
       IN  Step(s, [t EXCEPT
              !.requirement = [t.requirement EXCEPT !.winner = t.bid.bidder,
                                                    !.status = "in_progress"],
              !.written = t.written \cup {"requirements"}, !.next = "insertContract"])

\* Faulty: party B is read from the requirements table, outside the transaction.
InsertContract_StoredWinner(s) ==
    /\ At(s, "insertContract")
    /\ LET t == tx[s]
       IN  Step(s, [t EXCEPT
              !.contract =
                 [partyA |-> t.user, partyB |-> requirements[t.r].winner,
                  requirement |-> t.r, status |-> "pending_signature",
                  stages |-> <<"done", "in_progress", "pending">>],
              !.written = t.written \cup {"contracts"}, !.next = "notify"])

\* INSERT INTO contracts: the unique contract_no makes it fail when the bid
\* has a contract already (a failure is step Fail) and wait for an open one.
InsertContract(s) ==
    /\ At(s, "insertContract")
    /\ LET t == tx[s]
           row == <<"contracts", t.b>>
       IN  /\ contracts[t.b] = None
           /\ Free(s, row)
           /\ Step(s, [t EXCEPT
                 !.contract =
                    [partyA |-> t.user, partyB |-> t.bid.bidder,
                     requirement |-> t.r, status |-> "pending_signature",
                     stages |-> <<"done", "in_progress", "pending">>],
                 !.locks = t.locks \cup {row},
                 !.written = t.written \cup {"contracts"}, !.next = "notify"])

SaveContract(s) ==
    /\ At(s, "saveContract")
    /\ LET t == tx[s]
       IN  Step(s, [t EXCEPT
              !.contract =
                 IF t.op = "Sign" THEN [t.contract EXCEPT !.status = "in_progress"]
                 ELSE [t.contract EXCEPT !.status = "completed",
                                         !.stages = [i \in 1..3 |-> "done"]],
              !.written = t.written \cup {"contracts"}, !.next = "notify"])

\* Whom an operation notifies.
RecipientOf(t) ==
    IF t.op = "CreateBid" THEN t.requirement.publisher
    ELSE IF t.op = "AcceptBid" THEN t.bid.bidder
    ELSE IF t.op = "Sign" THEN OtherParty(t.contract, t.user)
    ELSE t.contract.partyB

NotifyTx(s) ==
    /\ At(s, "notify")
    /\ LET t == tx[s]
       IN  Step(s, [t EXCEPT !.recipient = RecipientOf(t), !.next = "commit",
                             !.written = t.written \cup {"notifications"}])

\* COMMIT: every row written becomes visible at once and the locks go.  The
\* method returns nil, or an error if the answer to a COMMIT that took effect is
\* lost: the same step, since the tables do not tell (what the error does to
\* the log row that would follow is RecordFails in module OperationLog).
Commit(s) ==
    /\ At(s, "commit")
    /\ LET t == tx[s]
       IN  /\ requirements' = IF "requirements" \in t.written
                             THEN [requirements EXCEPT ![t.r] = t.requirement]
                             ELSE requirements
           /\ bids' = IF "bids" \in t.written
                     THEN [bids EXCEPT ![t.b] = t.bid] ELSE bids
           /\ contracts' = IF "contracts" \in t.written
                          THEN [contracts EXCEPT ![t.b] = t.contract] ELSE contracts
           /\ notifications' = IF "notifications" \in t.written
                              THEN Notify(BizType[t.op], t.b, t.recipient)
                              ELSE notifications
    /\ tx' = [tx EXCEPT ![s] = None]
    /\ UNCHANGED session

\* A statement, or a COMMIT that does not take effect, returns an error: the
\* transaction is rolled back.
Fail(s) == tx[s] # None /\ Step(s, None)

\* With every key of the bounded BidId in use, an insert can only fail.
KeysExhausted(s) ==
    /\ At(s, "insertBid")
    /\ \A b \in BidId : ~(bids[b] = None /\ Free(s, <<"bids", b>>))
    /\ Fail(s)

-----------------------------------------------------------------------------
(* The handlers                                                             *)

\* Requests for the transactional methods; bid.Create rejects requesters
\* before it opens its transaction.
StartTransaction(s) ==
    \E u \in User :
        \/ \E r \in RequirementId :
              \/ Role[u] # "requester"
                 /\ Begin(s, "CreateBid", u, r, None, "lockRequirement")
              \/ \E b \in BidId : Begin(s, "AcceptBid", u, r, b, "lockRequirement")
        \/ \E b \in BidId, op \in {"Sign", "Complete"} :
              Begin(s, op, u, None, b, "lockContract")

RunTransaction(s) ==
    \/ LockRequirement(s)
    \/ LockBid(s)
    \/ LockContract(s)
    \/ \E b \in BidId : InsertBid(s, b)
    \/ KeysExhausted(s)
    \/ SaveAcceptedBid(s)
    \/ SaveWonRequirement(s)
    \/ InsertContract(s)
    \/ SaveContract(s)
    \/ NotifyTx(s)
    \/ Commit(s)

\* The methods without an explicit transaction, up to their Save.
StartUnlocked(s) ==
    /\ tx[s] = None
    /\ \E u \in User :
          \/ \E r \in RequirementId, status \in SubmittedStatus :
                CreateRequirement(s, u, r, status) \/ UpdateStatus(s, u, r, status)
          \/ \E r \in RequirementId : Update(s, u, r)
          \/ \E b \in BidId : Withdraw(s, u, b)
    /\ UNCHANGED tx

\* Their Save is a transaction of one UPDATE, which waits for the row lock.
Save(s) ==
    /\ \/ /\ SaveRequirement(s)
          /\ Free(s, <<"requirements", session[s].id>>)
       \/ /\ SaveBid(s)
          /\ Free(s, <<"bids", session[s].id>>)
    /\ UNCHANGED tx

TxAbort(s) == Abort(s) /\ UNCHANGED tx

TxCrash ==
    /\ Crash
    /\ tx' = [s \in Session |-> None]

TxNext ==
    \/ TxCrash
    \/ \E s \in Session :
          \/ StartTransaction(s) \/ RunTransaction(s) \/ Fail(s)
          \/ StartUnlocked(s) \/ Save(s) \/ TxAbort(s)

TxSpec == TxInit /\ [][TxNext]_txVars

\* InnoDB grants a contended row lock in the order of the waiting requests, and
\* a lock is held for the few statements of one transaction only: a waiting
\* statement is executed if it can be again and again (strong fairness).
\* Nothing is assumed of Fail, TxAbort, TxCrash or of requests arriving.
TxFairness == \A s \in Session : SF_txVars(RunTransaction(s)) /\ SF_txVars(Save(s))

TxFairSpec == TxSpec /\ TxFairness

-----------------------------------------------------------------------------
(* Properties                                                               *)

\* Contract b comes to be signed in this step, or its signature to be told.
SignatureAppears(b) ==
    \/ notifications'[<<"contract_signed", b>>] # notifications[<<"contract_signed", b>>]
    \/ /\ contracts[b] # None
       /\ contracts[b].status # "in_progress"
       /\ contracts'[b].status = "in_progress"

\* The party told of a signature is the one that did not sign, even if both ask
\* to sign at once: a contract is signed, and somebody is told of it, only when
\* a Sign transaction of one party ends that found it unsigned, nobody told
\* yet; the notification goes to the other party (contract_service.go:84-105).
SignaturesTellTheOther ==
    [][\A b \in BidId : SignatureAppears(b) =>
          /\ notifications[<<"contract_signed", b>>] = None
          /\ contracts[b].status = "pending_signature"
          /\ \E s \in Session :
                /\ tx[s] # None /\ tx[s].op = "Sign" /\ tx[s].b = b
                /\ tx'[s] = None
                /\ tx[s].user # notifications'[<<"contract_signed", b>>]
                /\ {tx[s].user, notifications'[<<"contract_signed", b>>]} =
                      {contracts[b].partyA, contracts[b].partyB}]_txVars

\* What an open transaction has checked stays true until it commits, because
\* it holds the locks of the rows it checked: for each operation, what it has
\* read, locked and written when its next statement is t.next.
CreateBidState(t) ==
    /\ t.op = "CreateBid" /\ t.r \in RequirementId /\ Role[t.user] # "requester"
    /\ t.next \in {"lockRequirement", "insertBid", "notify", "commit"}
    /\ t.next # "lockRequirement" =>
          /\ <<"requirements", t.r>> \in t.locks
          /\ MayBid(t.user, t.r)
          /\ t.requirement = requirements[t.r]
    /\ t.next \in {"lockRequirement", "insertBid"} => t.written = {}
    /\ t.next \in {"notify", "commit"} =>
          /\ t.b \in BidId /\ <<"bids", t.b>> \in t.locks /\ bids[t.b] = None
          /\ t.bid = [requirement |-> t.r, bidder |-> t.user, status |-> "pending"]
    /\ t.next = "notify" => t.written = {"bids"}
    /\ t.next = "commit" => /\ t.written = {"bids", "notifications"}
                            /\ t.recipient = requirements[t.r].publisher

AcceptBidState(t) ==
    /\ t.op = "AcceptBid" /\ t.r \in RequirementId /\ t.b \in BidId
    /\ t.next \in {"lockRequirement", "lockBid", "saveBid", "saveRequirement",
                   "insertContract", "notify", "commit"}
    /\ t.next # "lockRequirement" =>
          /\ <<"requirements", t.r>> \in t.locks
          /\ MayAccept(t.user, t.r)
          /\ t.requirement =
                IF t.next \in {"lockBid", "saveBid", "saveRequirement"} THEN requirements[t.r]
                ELSE [requirements[t.r] EXCEPT !.winner = bids[t.b].bidder,
                                               !.status = "in_progress"]
    /\ t.next \notin {"lockRequirement", "lockBid"} =>
          /\ <<"bids", t.b>> \in t.locks
          /\ Acceptable(t.r, t.b)
          /\ t.bid = IF t.next = "saveBid" THEN bids[t.b]
                     ELSE [bids[t.b] EXCEPT !.status = "accepted"]
    /\ t.next \in {"lockRequirement", "lockBid", "saveBid"} => t.written = {}
    /\ t.next = "saveRequirement" => t.written = {"bids"}
    /\ t.next = "insertContract" => t.written = {"bids", "requirements"}
    /\ t.next \in {"notify", "commit"} =>
          /\ <<"contracts", t.b>> \in t.locks
          /\ contracts[t.b] = None
          /\ t.contract = ContractFromBid(t.b, t.user)
    /\ t.next = "notify" => t.written = {"bids", "requirements", "contracts"}
    /\ t.next = "commit" => t.written = Table /\ t.recipient = bids[t.b].bidder

\* The contract row as Sign and Complete write it.
NewContract(t) ==
    IF t.op = "Sign" THEN [contracts[t.b] EXCEPT !.status = "in_progress"]
    ELSE [contracts[t.b] EXCEPT !.status = "completed",
                                !.stages = [i \in 1..3 |-> "done"]]

ContractState(t) ==
    /\ t.op \in {"Sign", "Complete"} /\ t.b \in BidId
    /\ t.next \in {"lockContract", "saveContract", "notify", "commit"}
    /\ t.next # "lockContract" =>
          /\ <<"contracts", t.b>> \in t.locks
          /\ t.op = "Sign" => MaySign(t.user, t.b)
          /\ t.op = "Complete" => MayComplete(t.user, t.b)
          /\ t.contract = IF t.next = "saveContract" THEN contracts[t.b]
                                                     ELSE NewContract(t)
    /\ t.next \in {"lockContract", "saveContract"} => t.written = {}
    /\ t.next = "notify" => t.written = {"contracts"}
    /\ t.next = "commit" =>
          /\ t.written = {"contracts", "notifications"}
          /\ t.recipient = IF t.op = "Sign" THEN OtherParty(contracts[t.b], t.user)
                                            ELSE contracts[t.b].partyB

ChecksStayTrue ==
    \A s \in Session : tx[s] # None =>
        CreateBidState(tx[s]) \/ AcceptBidState(tx[s]) \/ ContractState(tx[s])

\* Committed work is all or nothing: the tables only ever move by one whole
\* operation of Marketplace.  (Spec of Marketplace, the abstract level.)
ImplementsMarketplace == Spec

\* Every request is answered: no transaction and no Save waits for ever.
RequestsFinish ==
    \A s \in Session :
        (tx[s] # None \/ session[s] # None) ~> (tx[s] = None /\ session[s] = None)

=============================================================================
