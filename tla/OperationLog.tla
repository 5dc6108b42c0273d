---------------------------- MODULE OperationLog ----------------------------
(***************************************************************************)
(* The operation log beside the marketplace tables.  A service method that *)
(* has committed calls Record, which inserts a row on a connection of its  *)
(* own, and then answers.  It is best effort: an insert that fails is only *)
(* warned about, and a server that stops between the commit and the insert *)
(* leaves an operation without its row.                                    *)
(*                                                                         *)
(* Rows are never changed or deleted and their order is that of the        *)
(* inserts, not of the operations: the log is a set.  The rows AuditLogger *)
(* adds after the answer are left out: they hold a method and a path, the  *)
(* same ones for a request that was rejected with HTTP 200.                *)
(***************************************************************************)
EXTENDS Marketplace

VARIABLES
    log,               \* the rows of operation_logs
    toRecord,          \* [Session -> the row its method records at the end, or None]
    unrecorded,        \* history: the rows that were to be inserted and were not
    stored             \* history: what Saves of requirements have put in the table,
                       \* as the log rows that would be true of them

logVars == <<vars, log, toRecord, unrecorded, stored>>

RequirementAction == {"requirement.create", "requirement.update"}

BidAction ==
    {"requirement.accept_bid", "bid.create", "bid.withdraw", "contract.sign",
     "contract.complete"}

\* id is the entity; for accept_bid the bid that the row's detail names.  The
\* other details repeat the action and are left out.
Entry(u, action, id) == [user |-> u, action |-> action, id |-> id, status |-> None]

\* The row of UpdateStatus: its detail names the status that was asked for.
StatusEntry(u, r, status) ==
    [user |-> u, action |-> "requirement.status", id |-> r, status |-> status]

LogRow ==
    [user : User, action : RequirementAction, id : RequirementId, status : {None}]
        \cup [user : User, action : {"requirement.status"}, id : RequirementId,
              status : RequirementStatus]
        \cup [user : User, action : BidAction, id : BidId, status : {None}]

ASSUME LogAssumption == None \notin LogRow

LogTypeOK ==
    /\ log \subseteq LogRow
    /\ unrecorded \subseteq LogRow
    /\ stored \subseteq LogRow
    /\ toRecord \in [Session -> LogRow \cup {None}]
    /\ \A s \in Session : ~Idle(s) => toRecord[s] # None

LogInit ==
    /\ Init
    /\ log = {}
    /\ toRecord = [s \in Session |-> None]
    /\ unrecorded = {}
    /\ stored = {}

-----------------------------------------------------------------------------
\* Session s is to record this row once its write has committed.
WillRecord(s, entry) ==
    /\ toRecord[s] = None
    /\ toRecord' = [toRecord EXCEPT ![s] = entry]
    /\ UNCHANGED <<log, unrecorded, stored>>

\* A service method up to its commit, or up to the row it will Save.
Operate(s) ==
    \/ \E u \in User, r \in RequirementId, status \in SubmittedStatus :
          \/ /\ CreateRequirement(s, u, r, status)
             /\ WillRecord(s, Entry(u, "requirement.create", r))
          \/ UpdateStatus(s, u, r, status) /\ WillRecord(s, StatusEntry(u, r, status))
    \/ \E u \in User, r \in RequirementId :
          Update(s, u, r) /\ WillRecord(s, Entry(u, "requirement.update", r))
    \/ \E u \in User, r \in RequirementId, b \in BidId :
          \/ CreateBid(s, u, r, b) /\ WillRecord(s, Entry(u, "bid.create", b))
          \/ AcceptBid(s, u, r, b) /\ WillRecord(s, Entry(u, "requirement.accept_bid", b))
    \/ \E u \in User, b \in BidId :
          \/ Withdraw(s, u, b) /\ WillRecord(s, Entry(u, "bid.withdraw", b))
          \/ Sign(s, u, b) /\ WillRecord(s, Entry(u, "contract.sign", b))
          \/ Complete(s, u, b) /\ WillRecord(s, Entry(u, "contract.complete", b))

\* History: the log row that is true of requirement r as the step leaves it in
\* the table, written by Update or by UpdateStatus.
NowStored(r, action) ==
    LET row == requirements'[r]
    IN  IF action = "requirement.status" THEN StatusEntry(row.publisher, r, row.status)
                                         ELSE Entry(row.publisher, action, r)

\* Faulty: the method returns right after the Save.
SaveLoaded_Returning(s) ==
    /\ \/ SaveBid(s) /\ UNCHANGED stored
       \/ /\ SaveRequirement(s)
          /\ stored' = stored \cup {NowStored(session[s].id, toRecord[s].action)}
    /\ toRecord' = [toRecord EXCEPT ![s] = None]
    /\ UNCHANGED <<log, unrecorded>>

\* The Save of the loaded row.
SaveLoaded(s) ==
    /\ \/ SaveBid(s) /\ UNCHANGED stored
       \/ /\ SaveRequirement(s)
          /\ stored' = stored \cup {NowStored(session[s].id, toRecord[s].action)}
    /\ UNCHANGED <<log, toRecord, unrecorded>>

\* Faulty: Record is deferred, and runs when the method returns an error too.
AbortOperation_Deferred(s) == Abort(s) /\ UNCHANGED <<log, toRecord, unrecorded, stored>>

\* The method fails before its Save took effect: it returns the error at once.
AbortOperation(s) ==
    /\ Abort(s)
    /\ toRecord' = [toRecord EXCEPT ![s] = None]
    /\ UNCHANGED <<log, unrecorded, stored>>

\* Faulty: Record is called before the Save.
Record_Early(s) ==
    /\ toRecord[s] # None
    /\ log' = log \cup {toRecord[s]}
    /\ toRecord' = [toRecord EXCEPT ![s] = None]
    /\ UNCHANGED <<vars, unrecorded, stored>>

\* OperationLogService.Record, the last call of the method.
Record(s) ==
    /\ Idle(s)
    /\ toRecord[s] # None
    /\ log' = log \cup {toRecord[s]}
    /\ toRecord' = [toRecord EXCEPT ![s] = None]
    /\ UNCHANGED <<vars, unrecorded, stored>>

\* The insert fails, which is only warned about: the request has succeeded.  Or
\* the commit took effect and its answer was lost: the method returns the error
\* and never comes to Record, the tables have changed all the same.
RecordFails(s) ==
    /\ Idle(s)
    /\ toRecord[s] # None
    /\ toRecord' = [toRecord EXCEPT ![s] = None]
    /\ unrecorded' = unrecorded \cup {toRecord[s]}
    /\ UNCHANGED <<vars, log, stored>>

\* The server stops; what had committed and was not yet recorded never is.
CrashUnrecorded ==
    /\ Crash
    /\ unrecorded' = unrecorded \cup
          {toRecord[s] : s \in {t \in Session : Idle(t) /\ toRecord[t] # None}}
    /\ toRecord' = [s \in Session |-> None]
    /\ UNCHANGED <<log, stored>>

LogNext ==
    \/ CrashUnrecorded
    \/ \E s \in Session :
          Operate(s) \/ SaveLoaded(s) \/ AbortOperation(s) \/ Record(s) \/ RecordFails(s)

LogSpec == LogInit /\ [][LogNext]_logVars

-----------------------------------------------------------------------------
(* Properties                                                               *)

\* What a row of the log says has happened, done by that user.  An update, or
\* the status that the detail names, has been in the table; a later Save may
\* have overwritten it since.  The signer of a contract is the party that was
\* not told of the signature.
Happened(e) ==
    CASE e.action = "requirement.create" ->
            requirements[e.id] # None /\ requirements[e.id].publisher = e.user
      [] e.action \in {"requirement.update", "requirement.status"} -> e \in stored
      [] e.action = "bid.create" -> bids[e.id] # None /\ bids[e.id].bidder = e.user
      [] e.action = "bid.withdraw" ->
            /\ bids[e.id] # None
            /\ bids[e.id].bidder = e.user
            /\ bids[e.id].status = "withdrawn"
      [] e.action = "requirement.accept_bid" ->
            contracts[e.id] # None /\ contracts[e.id].partyA = e.user
      [] e.action = "contract.sign" ->
            /\ contracts[e.id] # None
            /\ contracts[e.id].status # "pending_signature"
            /\ e.user # notifications[<<"contract_signed", e.id>>]
            /\ {e.user, notifications[<<"contract_signed", e.id>>]} =
                  {contracts[e.id].partyA, contracts[e.id].partyB}
      [] e.action = "contract.complete" ->
            /\ contracts[e.id] # None
            /\ contracts[e.id].partyA = e.user
            /\ contracts[e.id].status = "completed"

\* A row of the log tells of a write that has committed, by the user who asked
\* for it and with the status that was stored, whatever failed before or after
\* it was recorded; and but for later writes of the requirement nothing has
\* undone it since.
LogTellsTheTruth == \A e \in log : Happened(e)

\* The rows that are in the log, will be, or should have been.
Accounted == log \cup unrecorded \cup {toRecord[s] : s \in {t \in Session : Idle(t)}}

\* What the tables show has happened, and every update and status they have ever
\* held, was recorded, is about to be, or was lost to a failed insert, an error
\* after the commit or a crash: nothing else is missing.
OnlyFailuresAreMissing ==
    /\ stored \subseteq Accounted
    /\ \A b \in BidId :
          /\ bids[b] # None /\ SeedBid[b] = None =>
                Entry(bids[b].bidder, "bid.create", b) \in Accounted
          /\ bids[b] # None /\ bids[b].status = "withdrawn" =>
                Entry(bids[b].bidder, "bid.withdraw", b) \in Accounted
          /\ contracts[b] # None =>
                Entry(contracts[b].partyA, "requirement.accept_bid", b) \in Accounted
          /\ contracts[b] # None /\ contracts[b].status # "pending_signature" =>
                \E u \in {contracts[b].partyA, contracts[b].partyB} :
                    /\ u # notifications[<<"contract_signed", b>>]
                    /\ Entry(u, "contract.sign", b) \in Accounted
          /\ contracts[b] # None /\ contracts[b].status = "completed" =>
                Entry(contracts[b].partyA, "contract.complete", b) \in Accounted
    /\ \A r \in RequirementId : requirements[r] # None /\ SeedRequirement[r] = None =>
          Entry(requirements[r].publisher, "requirement.create", r) \in Accounted

=============================================================================
