# GigMatch: a TLA+ verification project

GigMatch is a marketplace that brings requesters and freelancers together: a Go
backend (Gin, GORM, MySQL/InnoDB) and a Vue frontend (Pinia). A requester publishes
a *requirement*, freelancers *bid* on it, the requester *accepts* one bid, which
creates a *contract* that is *signed* and *completed*; each of these four steps leaves
exactly one *notification* for the other party.

This directory models what the program decides: which rows may exist together, what
concurrent handlers, failures and crashes may do to them, what is logged, and what the browser
shows of them. TLC checks the modules on small instances and TLAPS proves the main results for
all instances.

| File | What it is |
|---|---|
| `Marketplace.tla` | the backend's tables and service methods, each transaction one step |
| `Deal.tla` | what is promised of each bid: its phases, and who is told of them |
| `MarketplaceDeals.tla` | Marketplace with the refinement mapping from its tables to deals |
| `MarketplaceTx.tla` | the same methods statement by statement, with row locks and rollback |
| `RowLocks.tla` | all locks a request takes in MySQL, asked for or not; queues, deadlocks, victims |
| `OperationLog.tla` | Marketplace with the log rows its methods record after they have committed |
| `Workbench.tla` | Marketplace with a dashboard reader whose queries fall between its steps |
| `NotificationCenter.tla` | read flags, notification endpoints, tokens, the tabs' Pinia stores |
| `RateLimiter.tla` | the windows that requests of an address are counted in, with late goroutines |
| `Accounts.tla` | the start of the server with its demo data; registration, login, profiles |
| `*Proofs.tla`, one for each of the above; `RefinementProofs` for Deal, MarketplaceDeals and MarketplaceTx | theorems and proofs |
| `MC*.tla`, `MC*.cfg` | the instances TLC checks |
| `PROJECT.json` | components, runs, mutants, source map, findings, hazards, theorems |

## 1. Inventory

Paths are relative to `src/`; `internal/` stands for `backend/internal/`.

| Component | State | Operations | Hard behaviour | What makes it correct |
|---|---|---|---|---|
| Requirements (`internal/service/requirement_service.go`, `repository/requirement_repository.go`) | `requirements` rows: publisher, status, winner | Create, Update, UpdateStatus, AcceptBid | Update and UpdateStatus read without a lock and Save every column | winner and contract agree; one contract per requirement |
| Bids (`internal/service/bid_service.go`) | `bids` rows: requirement, bidder, status | Create, Withdraw | Withdraw reads without a lock; Create locks the requirement | a decided bid stays decided; nobody bids on their own requirement |
| Contracts (`internal/service/contract_service.go`) | `contracts` rows, unique `contract_no` | CreateFromBidTx, Sign, Complete | both parties sign or complete at once | each transition once, by the right party |
| Event notifications (`internal/service/notification_service.go`) | `notifications` rows, unique `event_key` | NotifyTx | the write fails inside a business transaction; retries | exactly one notification for each business state, to the right party |
| Transactions (`gorm` `db.Transaction`, InnoDB) | row locks, uncommitted rows | lock, write, commit, roll back | interleavings of statements, failing statements, crashes, waiting for locks, locks of foreign keys and of upserted associations that no service asked for | all or nothing; checks stay true until commit; nobody waits for ever |
| Notification center (same service, `internal/handler/notification_handler.go`, `frontend/src/stores/notification.ts`, `stores/user.ts`, `api/request.ts`, `pages/Layout.vue`, `pages/Login.vue`, `pages/Notifications.vue`) | `is_read` flags; per tab: account, two lists, filter, badge; per browser: the token | list, count, mark one, mark all; fetch, patch, reset; login, logout, reload | answers out of order, lost, for an account no longer logged in; several logins at once; several tabs with one token | read is for good and by the recipient; a tab shows what is its own and what is true; the badge becomes right |
| Accounts (`internal/service/auth_service.go`, `middleware/auth.go`) | `users` rows, tokens that expire | register, login | check-then-insert on the user name | one person per name, who keeps it |
| Profiles (`internal/service/user_service.go`) | columns of `users` | update | unlocked read and Save | only overlapping updates lose anything |
| Rate limiter (`internal/middleware/rate_limiter.go`) | one window per address, in memory, shared by two limits | admit or refuse a request | fixed windows, one counter for two limits, a clock read before the mutex, purge of old windows | a bounded rate; windows in force survive; the table stays small |
| Operation log (`internal/service/operation_log_service.go`, `middleware/audit_logger.go`) | append-only rows | Record, List | written after the commit, on another connection, best effort | what it tells has happened; only failures and crashes leave gaps |
| Startup and shutdown (`backend/cmd/server/main.go`, `internal/service/seed.go`, `config`) | connection pool, seed rows | connect with retries, migrate, seed, serve, shut down | a crash between two seed inserts, shutdown with requests in flight | the server serves again; no demo row is inserted twice |
| Dashboard (`internal/service/dashboard_service.go`) | none of its own | seven queries on the business tables and a count of notifications | no transaction: others commit between two queries | the page does not contradict itself |
| Other read endpoints, HTTP layer, other pages | none of their own | queries, routing, rendering | none beyond the above | – |

How they interact: `router.go` hands each request to a goroutine that passes the rate
limiter, `JWTAuth` (which loads the account of the token) and the audit logger, and then
runs one handler, which calls one service method. Services share nothing in memory; they
meet in the database only, through rows, row locks and unique indexes. AcceptBid calls
`ContractService.CreateFromBidTx` and `NotificationService.NotifyTx` with its own
transaction. The frontend calls the API with axios, a token taken from local storage at
each call; a Pinia action sends a request and runs its remainder when the answer comes.

`PROJECT.json` lists the hazards line by line. The ones that carry the project: a Save of
a row read before another transaction committed (lost winner, withdrawn winner), the
unit of business state and notification, locks that protect checks and may deadlock, and
asynchronous answers that meet a store that has moved on.

## 2. Plan

1. **Marketplace** (done): the core, one action for each service method, two for those with an
   unlocked read. It is the abstract specification of the transactional methods.
2. **MarketplaceTx** (done): extends Marketplace with open transactions and is shown, by TLC
   and by proof, to implement it: `ImplementsMarketplace == Spec`.
3. **NotificationCenter** (done): read flags, endpoints and browser stores. `Notify` is where
   it meets Marketplace: it abstracts from which business step emits the event.
4. **RateLimiter** (done): windows, two limits on one counter, purge; the rate really admitted
   against the rate the documentation states (`README.md:103`).
5. **Accounts** (done): start, demo data with a stop at each insert, registration with its unlocked
   uniqueness check, profile updates.
6. **RowLocks** (done): the locks InnoDB takes beside the explicit ones, the deadlocks they lead to,
   and that every transaction ends all the same.
7. **OperationLog** (done): Marketplace with the log beside it; what the log may tell and miss.
8. **Deal**, **MarketplaceDeals** (done): the abstract specification above Marketplace, one deal for
   each bid, shown by TLC and by proof to be implemented by the services and their transactions.
9. **Workbench** (done): the dashboard's reads between the writes of others.
10. Left: the composition of Marketplace and NotificationCenter (`NotificationsMatchState` as the
    refinement of the center's `Notify`); the limiter across restarts; pages of the notification list
    and the page's own filter switch.

Every module keeps to recursion-free definitions so that it can be proved about.

## 3. How the modules correspond to the code

### Marketplace

Tables are functions from keys to rows or `None`. Amounts, texts and dates are left out
since no guard reads them. A contract is keyed by its bid because `contract_no` is
`CY-<requirement>-<bid>` and unique; a notification by `<<type, id>>`, the parts of
`event_key`. A session is a goroutine that serves requests one after the other;
`session[s]` is the row a handler holds between an unlocked `FindByID` and its `Save`.

| Action | Code |
|---|---|
| `CreateRequirement` | `RequirementService.Create`: role check, default status, any valid status accepted |
| `Update`, `UpdateStatus` then `SaveRequirement` | the two methods up to Save, and Save of every column. `Update` sets texts and budgets only, so what matters of its write is the status and the winner it read |
| `CreateBid` | `BidService.Create`, one transaction: requirement locked and checked, bid and notification written |
| `AcceptBid` | `RequirementService.AcceptBid` with `CreateFromBidTx` and `NotifyTx` |
| `Withdraw` then `SaveBid` | `BidService.Withdraw` up to Save, and Save |
| `Sign`, `Complete` | `ContractService.Sign`, `Complete` |
| `Abort`, `Crash` | a handler that fails or panics before its Save; the process dies |

A rejected request changes no table and is a stuttering step. `requirements.publisher`
and a user's role are never updated by the code, so `Role` is a constant. When Save
upserts the bids `FindByID` preloaded, gorm assigns `requirement_id` only, which is what
the stored bids already have; the upsert therefore changes nothing.

### Deal and MarketplaceDeals

`Deal` knows one variable: for each bid the bidder, the publisher, the phase (offered, withdrawn,
agreed, signed, closed) and who was told what. Its `Next` moves one deal by one phase and tells the
party concerned. `MarketplaceDeals` reads that off the tables of Marketplace: the phase from the
contract if there is one, else from the bid; `told` from the notifications. `ImplementsDeals` is
`Deal!Spec` under this mapping. So that stale Saves and crashes fit, `Deal` promises nothing about
two bids on one requirement, and a deal that is agreed stays agreed even when a late Withdraw marks
its bid: this is what is really guaranteed.

### MarketplaceTx

`tx[s]` is the open transaction of a handler: the request, the next statement, its
row locks, the rows in hand and the tables it has written. Each statement of the four
methods is an action. `LockRow` is `SELECT ... FOR UPDATE`: it waits while another
transaction holds the row, then reads the committed row and runs the handler's checks; a
failing check ends the transaction. Inserts take the lock of the new key, which is how
InnoDB makes a second insert of the same unique key wait. Nothing is visible before
`Commit`; `Fail` may strike at any statement. The unlocked handlers are those of
Marketplace, with a `Save` that waits for the row's lock.

### RowLocks

Rows have no values here: whether a check passes decides only whether a transaction goes on or rolls
back, which it may always do. What is kept is which locks each request asks for, and in which order:

| Operator | Locks, in the order of the statements |
|---|---|
| `CreateBidLocks` | the requirement FOR UPDATE; the bidder, shared, for the foreign key of the INSERT (the requirement's is covered) |
| `AcceptBidLocks` | requirement and bid FOR UPDATE; the bidder, whom `FindByIDForUpdate` preloads and Save upserts; the new contract; the publisher, shared |
| `ContractLocks` | the contract FOR UPDATE (no preloads) |
| `WithdrawLocks` | the bidder that Save upserts, then the bid |
| `SaveRequirementLocks` | the publisher, the requirement, then all bidders and all bids that `FindByID` preloaded |

An upsert locks the row it finds exclusively (`ON DUPLICATE KEY UPDATE`, also where gorm emits `id =
id`). `locks[row]` has the lock requests on a row, granted ones too; `waitsFor[s]` is who was ahead of
`s` with a conflicting one when it asked and has not ended since, so that requests are served in
order of arrival. `BidsOn[r]` are the bids on a requirement as `FindByID` preloads them, in key order.
`AskNext` is the next statement, `Commit` and `Rollback` drop everything, `Resolve` is InnoDB rolling
back one session of a deadlock. Rows of
`notifications` and `operation_logs` are inserted under keys of their own and have no foreign keys,
so they lock nothing that another request asks for; gap locks are left out.

### OperationLog

`log` is the table as a set, `toRecord[s]` the row a method will record once it has committed,
`unrecorded` a history of the rows that were lost. Of a row's detail the model keeps what it adds to
the action: the bid of an acceptance and the status that UpdateStatus was asked for. `Operate` joins
each action of Marketplace to the `Record` call at the end of its method; `SaveLoaded` and
`AbortOperation` are the Save of the unlocked handlers and the error returned before it; `Record`,
`RecordFails` (the insert fails and is only warned about) and `CrashUnrecorded` are the three ways it
can end. `RecordFails` is also a COMMIT that took effect and whose answer was lost: the tables have
changed, the method returns the error and never comes to `Record`.

A later Save may overwrite what an Update or an UpdateStatus wrote, so what their rows say cannot be
read off the tables. `stored` is a history for it: `NowStored` adds, at each Save of a requirement, the
log row that is true of the row *as the table then holds it*. `Happened` asks that a row of these
two actions is in `stored`, with its status. The signer of a contract is in no column either; it is
the party that the notification of the signature does not go to.

### Workbench

`reader` is the user whose payload is being put together, `answers` what each query has returned so
far. `Ask(i)` is the `i`-th query of `DashboardService.Get`, with the preload of bids as a query of
its own; any step of Marketplace may come between two. Reading changes no table, so one reader
stands for any number of them.

### NotificationCenter

`rows` is the notifications table seen by its read flags. `token` is the token in local
storage, one for all tabs; `user[t]`, `items[t]`, `recent[t]`, `unreadOnly[t]`,
`unreadCount[t]` are the Pinia stores of tab `t`. `requests[q]` is a request in flight;
slots only bound their number. Sending (up to the `await`), serving, and receiving (after
the `await`) are separate actions, so that other actions and other answers fall in between.

| Action | Code |
|---|---|
| `Notify` | `NotifyTx`, `Create` with `ON CONFLICT DO NOTHING` |
| `FetchUnreadCount`, `FetchRecent`, `FetchList`, `SetFilter`, `MarkRead`, `MarkAllRead` | the store actions up to their await, as `Layout.vue` and `Notifications.vue` call them |
| `Serve`, `Refuse` | the endpoints; `JWTAuth` answering 401 to a missing or expired token, upon which the response interceptor clears local storage and leaves the stores as they are |
| `Receive` | what follows the await: lists replaced or patched, badge set, decremented or cleared |
| `Lose` | a lost request or answer, or axios's 15 s timeout: the promise is rejected |
| `SubmitLogin`, `Login`, `Logout`, `Reload` | the form of `Login.vue`; the rest of `login` or `register` when the answer arrives; `stores/user.ts`, with `reset` of the notification store; a page load, with stores built from local storage |

A request whose tab has been reloaded stays in flight with no tab waiting for it. A
request the server rejects for want of ownership just disappears: the client does
nothing after it. Lists are taken whole (no pages).

A login is a request like the others, without a token. While it is unanswered only the button of
`Login.vue` is disabled; the Enter key (line 10) submits the form again, so several logins, of
different accounts too, may be in flight, and the answer that comes last decides whose the tab
and the token are. A wrong password rejects the promise and is a `Lose`. `refresh` of
`stores/user.ts` (lines 33-41) has no caller and is left out.

### RateLimiter

`requests` is the package-level map, `arriving[g]` the request of a goroutine between
`c.ClientIP()`, `time.Now()` and the mutex. `Arrive` is what comes before the mutex, `Count` the critical
section with its outcome: `NewWindow`, `Opened` (with `Purge` when the table exceeds 10 000 entries, here
`MaxWindows`), `Counted`. `Tick` lets time pass. Counts
stop at one above both limits, where they make no more difference. `passed` is a history, kept for the
`Watched` addresses and as many ticks back as the properties look: a record for each request that was
let through, with the window it was counted in and the place it took there, which together tell
requests apart. `Class` is the group of routes: `router.go` makes one middleware for `/auth` and one for the rest, which differ in `Limit` only.

### Accounts

| Action | Code |
|---|---|
| `Start`, `ConnectFails`, `Connect` | `main`, `openDB` with its attempts; AutoMigrate as part of `Connect`, since it has no effect the second time |
| `CountUsers`, `InsertSeed` | `EnsureSeedData`: the count, then one row per step, with no transaction around them |
| `Stop` | the process ends: killed, shut down, or by an error during the start |
| `Register`, `CreateAccount`, `AnswerRegister` | `AuthService.Register`: name looked up; inserted under its unique index; token issued |
| `Login` | `AuthService.Login` |
| `UpdateProfile`, `SaveProfile` | `UserService.Update` up to Save (with the handler's check of who may), and Save of every column |
| `Abort` | a handler that fails or panics |

`Demo` is the person who knows the demo password; the last of the demo users is the administrator.
`tokens`, `wanted` and `overlapped` are histories. Local variables of `openDB` and `EnsureSeedData`
(`attempt`, `inserted`) are reset where their function ends.

### Faulty variants

Definitions marked *Faulty* sit before the definition they vary, with a bug one could
write there. They are used by no specification. Putting one in place of its original makes
exactly the named property fail, which shows that the property watches the code:

| Property | Variant that breaks it |
|---|---|
| `TypeOK` (Marketplace) | party B read from the requirement before the winner is saved |
| `OneContractPerRequirement`, `SafeUntilStale` | AcceptBid trusts the status instead of `winner_id` |
| `ContractsAreBacked` | reopening a requirement clears its winner |
| `ContractsMatchBids` | parties of the contract swapped |
| `WinnersHaveContracts` | the caller recorded as winner |
| `LoadedRowsAreConsistent` | a withdrawn bid is deleted |
| `NotificationsMatchState` | Complete notifies the caller |
| `BidsNeverReopen` | a failing Withdraw puts the bid back to pending |
| `ImplementsDeals` | a contract can be completed before it is signed |
| `PageIsCoherent` | the dashboard reads the contracts first |
| `CountsCoverLists` | the dashboard counts before it lists |
| `TxTypeOK` | the contract insert reads the winner outside the transaction |
| `ChecksStayTrue` | a plain SELECT instead of FOR UPDATE |
| `SignaturesTellTheOther` | the signer is notified instead of the other party |
| `ImplementsMarketplace` | the accepted bid saved on another connection |
| `RequestsFinish` | a failed check retried inside the transaction |
| `TypeOK` (RowLocks), `EveryTransactionEnds` | a handler returns on an error without ending its transaction |
| `DeadlocksPassThroughUsers` | AcceptBid locks the bid before its requirement |
| `OneRequirementIsOrdered` | bid creation reads the requirement unlocked and updates a counter in it at the end |
| `LogTypeOK` | Record called before the Save |
| `LogTellsTheTruth` | Record deferred, so that it runs when the Save fails too |
| `OnlyFailuresAreMissing` | a method that returns right after its Save |
| `TypeOK` (NotificationCenter) | the badge decremented without looking whether it is above zero |
| `ReadForGood` | a replayed event overwrites its row |
| `ReadByRecipient` | mark-all without the recipient in its WHERE clause |
| `OnlyLateAnswersMix` | `reset` forgets the popover's list |
| `ShownReadIsRead` | mark-all patches the lists before the server has answered |
| `BadgeSettles` | the timer polls only while the badge is lit |
| `TypeOK` (RateLimiter) | a window that ends when it starts |
| `RateBounded` | every request opens a window |
| `LiveWindowsStay` | the purge goes by the start of a window |
| `TableBounded` | no purge |
| `TypeOK` (Accounts) | one attempt to connect too many |
| `TokensHoldNames` | an insert that replaces the row of that name |
| `ProfilesAsAsked` | empty fields taken over like others |
| `ServesAgain` | the demo data judged missing by its requirements instead of its users |

## 4. What the runs check

| Run | Instance | States | What it shows |
|---|---|---|---|
| `serial` (MCWorkbench) | 1 session, 3 users, 2 requirements, 2 bids (1 seeded), statuses `""`, open; a dashboard reader | 1 080 358 | with requests one after the other, even those that reopen a requirement with a winner: one contract per requirement, each backed by its accepted bid and winner; a dashboard read meanwhile never shows an accepted bid or a winner without the contract, nor a count below its list |
| `concurrent` | 2 sessions, 3 users, 2 requirements (1 seeded), 2 bids (1 seeded), statuses open, completed | 740 606 | what survives stale Saves, aborts and crashes: bids and contracts match, winners have contracts, notifications are exactly those the tables call for, bids are never reopened; `SafeUntilStale`, that a second contract or an unbacked one takes a stale write; and `ImplementsDeals` |
| `tx` | 2 sessions, 2 users, 1 requirement, 2 bids (1 seeded) | 182 097 | statement by statement: what a transaction has checked stays true until it commits, a signature tells the party who did not sign, every step is a step of Marketplace or a stutter, and every open transaction and pending Save ends |
| `rowlocks` | 3 sessions, 3 users, 2 requirements whose publishers bid on each other's, 3 bids | 49 996 | every deadlock passes through a `users` row; the transactional methods have none among themselves on one requirement; every transaction ends |
| `log` | 2 sessions, 2 users, 1 requirement, 1 bid, empty tables | 673 313 | the log tells of nothing that has not happened, names the signer and the status stored, and misses nothing but what a failed insert, an error after the commit or a crash took |
| `center` | 2 accounts, 1 notification, 1 tab, 2 requests in flight | 177 283 | who marks what, what a tab may show, the badge's range, and that the timer puts every badge right once people stop |
| `limiter` | 2 addresses, 1 watched, 2 goroutines, limits 1 and 2, a minute of 2 ticks, purge above 1 window | 522 815 | how many requests pass in any minute, windows in force keep their count, expired ones do not pile up |
| `accounts` | 2 people, 3 names of which 2 are demo users, 2 further demo rows, 2 sessions, 1 retry, 2 stops | 1 248 359 | one owner for a name, profiles as asked but for overlaps, a server that serves again |
| `lost_winner` | 2 sessions | counterexample of 5 states | UpdateStatus reads, AcceptBid commits, the Save erases the winner, a second bid is accepted |
| `late_withdraw` | 2 sessions | counterexample of 4 states | Withdraw reads a pending bid, AcceptBid commits, the Save withdraws the accepted bid |
| `minute_limit` | 1 address, 1 goroutine, a minute of 2 ticks, no delay | counterexample of 12 states | a window is used up just before it ends and the next one opens: more requests in a minute than the limit |
| `shared_limit` | 1 address, 1 goroutine | counterexample of 5 states | one API call takes the only place of the login limit; the login is refused |

The four last runs are disagreements between the code and what its comments, tests and
documentation say; `PROJECT.json` quotes both sides. Two others are plain from reading and have
no run. Marking another user's notification is answered 403 (`notification_service.go:127`), where
`README.md:143` and the comment at `notification_handler.go:51` say 404. And Complete tells the
freelancer that the project is closed (`contract_service.go:149`), while the requirement stays
`in_progress`: no handler joins the life cycle of a contract to that of its requirement.

`MinuteLimit` is what the comment at `rate_limiter.go:27` says ("caps requests per IP at maxRequests
per minute") and does not hold; `RateBounded` is what does.

**Bounds.** Every bound is a constant of a `.cfg`: `User`, `RequirementId`, `BidId`, `Session`,
`SubmittedStatus`, `Event`, `Tab`, `Slot`, `Address`, `Goroutine`, `Minute`, `MaxDelay`,
`MaxWindows`, `Horizon`, `Person`, `Name`, `Field`, `Value`, `SeedData`, `Retries`, `MaxFailures`,
`Request`. Rows are created while keys are left (keys are never reused); a full table only ends
creation. Two sessions suffice for each race the code can have, since each is between one reader and
one committer on one row; a second bid lets a second accept be attempted after a reopening, or goes
to another requirement; three users give a publisher, a freelancer and a `both`, who may be on
either side. Two requirements appear in `serial` and `concurrent`, to show that bids and contracts
of different requirements do not mix, and in `rowlocks`, where a deadlock between transactional
methods takes two. `SubmittedStatus` holds values of the classes that guards distinguish, open
(takes bids) and completed (takes no bids and no edits); `in_progress`, which blocks an accept, is
set by AcceptBid itself, and the other statuses fall in the same classes. `serial` has open and the
default `""`, to reopen what was accepted; `tx` has completed only, enough for a Save that changes
what a transaction has read. Two slots are what a double click, two logins at once, or an answer that overtakes another,
takes. Several tabs are beyond the run (two tabs with two slots exceed ten million states): the
safety properties are *proved* for any number of tabs. With one notification the second account is
the one that must not see it; what takes two (an event that arrives while the others are being
marked) is covered by the same theorems. `limiter` uses the symmetry of goroutines; no other run
uses one.

In `rowlocks` the requests are a selection, `MCRequest`: each operation at least once, accepts of
every bid, and Saves of both requirements, so that cycles through users, requirements and bids
exist; a cycle of three needs three sessions. In `log` two sessions let one record while the other
goes on with the same rows; the tables start empty so that every row in them should have an entry.
In `serial` the reader's queries meet one writer at a time, which is any sequence of commits between
two queries; with stale writers too, `PagesAreCoherent` is proved.

In `limiter`, two addresses are what a purge takes (one opens a window, the other's is deleted); two
goroutines let one be late while another has gone on; the clock runs for three minutes, the most a
minute with a late goroutine can touch. `RateBounded` lets `L * WindowsMet - 1` requests through in
a minute, where `WindowsMet` is how many windows a minute can meet: two when the clock is read under
the mutex, at most three while goroutines are late by less than a quarter of a minute or so, more
when they are later. The run has a minute of two ticks and a delay of up to one, where it is three: a
late goroutine can open a window in the past after a purge. In `accounts`, two stops interrupt both a
start and the next one; two demo users and two rows after them give every place where a start can be
cut; one field suffices, since fields are treated alike.

**Fairness.** `tx` assumes strong fairness of a session's next statement and of its Save: InnoDB
queues the requests for a lock and a lock is held for the few statements of one transaction, so a
statement that can run again and again does run. Failures, aborts, crashes and new requests carry no
fairness. `rowlocks` looks at the queues themselves and needs only weak fairness: a statement that
need not wait is executed, a transaction with nothing left to ask for commits, and InnoDB's deadlock
detection rolls a victim back; `Rollback` for any other reason has no fairness. `center` assumes
that the minute timer keeps firing (`Layout.vue:139`), that a request that is sent again and again
is not lost every time, and nothing about people. `BadgeSettles` is stated for executions in which
from some time on people do nothing and no row changes: while they act the badge may well be wrong,
and the model shows how (double marking, overtaking answers). It speaks of tabs whose account is
that of the token. `accounts` assumes that the runtime restarts the process (`docker-compose.yml`,
`restart: unless-stopped`), that a database it waits for (`service_healthy`) answers one of the
starts (strong fairness of `Connect`), and that the steps of a start run; the process stops at most
`MaxFailures` times, and handlers carry no fairness. No run needs a deadlock exemption: something is
always possible.

## 5. What is proved

All results hold for every value of the constants. The assumptions: `NoneAssumption` (the null value
is no row), `SeedAssumption` (the seeded bids are pending, on seeded requirements of somebody else;
seeded requirements have no winner), `TransactionAssumption` (the null value is no transaction),
`RecipientAssumption` and `EventAssumption` (each notification has a recipient and there are
finitely many), `LimitAssumption` (positive limits, which the configuration enforces),
`ClockAssumption` (a goroutine waits less than a minute for the mutex), `WatchedAssumption`,
`SeedNameAssumption` (there are demo users, with different names), `BoundAssumption` (bounds are
numbers), `LogAssumption` and `OfferAssumption` (the null value is no log row and no offer).
`CountsCover` takes finite sets of requirements and bids. In
RowLocks, `LocksAssumption` types the constants, `PreloadAssumption` says that preloaded bids come in
the order of their keys and are all there are, and `SessionAssumption` that goroutines are finitely
many. TLC evaluates all of them.

**Marketplace.** `TypeCorrect` is by itself inductive. The relations between the tables are not:
that a winner has a contract survives a Save only if the row in flight already satisfied it. The
inductive invariant `Inv` is therefore the conjunction of `TypeOK`, `BidsAreOnOthersRequirements`,
`ContractsMatchBids`, `WinnersHaveContracts`, `NotificationsMatchState`, `LoadedRowsAreConsistent`
(what rows in flight may say) and the fact that seeded bids remain. `TablesForward` isolates what
all steps have in common (contracts and bids are never removed, immutable columns never change), and
one lemma for each action does the rest. From `Invariant` follow `TablesAgree` with its parts
`NoOwnBids` and `NoInventedWinner`, `LoadedRowsAgree`, `NotificationsCorrect` and `NeverReopened`. No table records who signed, so
of a signature `NotificationsMatchState` can only say that one of the parties was told; which one is an action property of the
transactions, below. `NotificationsAreSentOnce` is what
NotificationCenter takes for granted of the services: a step sends at most one notification, for an event
that has none, to an account that stays its recipient. So the center may have `Recipient` as a constant.

`SafeWhileFresh` proves `SafeUntilStale`: `OneContractPerRequirement` and `ContractsAreBacked` are
inductive together as long as no session holds a stale row. It tells exactly what is missing in the
code: the two runs `lost_winner` and `late_withdraw` break these properties by a stale Save, and the
theorem says that nothing else can. `SerialIsFresh`, `SerialIsSafe`, `SerialIsBacked` and
`SerialWithdraws` draw the conclusions for one request at a time.

**MarketplaceDeals** (in `RefinementProofs`). `DealsImplemented` needs no invariant but `Inv`. Each action is shown to leave
all deals but one alone (most of them leave all: a Save of a requirement changes no publisher, a
Save of a bid no deal with a contract), and to make one move of that one; `NotificationsMatchState`
is what says that the notification of a phase was not there before. `TxDealsImplemented` combines it
with `TxImplements`.

**MarketplaceTx** (in `RefinementProofs`). `TxInv` is `TxTypeOK`, `LocksAreExclusive` and `ChecksStayTrue`, a description of
what each operation has read, locked and written when it is about to execute each statement,
together with the Marketplace `Inv`. Commits of other sessions are the delicate case: they change
rows only under locks that are exclusive, so what this transaction has checked stays true; a Save
waits for the same locks. Then `CommitIsOperation` shows that a commit is one action of Marketplace
with its guard true now, not just when it was read, and every other statement stutters:
`TxImplements`. `TxTypeCorrect` and `ChecksProtected` state the parts; `LocksAreExclusive` is an auxiliary
invariant of these proofs. `OtherPartyIsTold` proves `SignaturesTellTheOther`: the step that makes a contract signed
commits a transaction of one party, which holds the contract's row since it read it, and tells the other. Through it
the Marketplace theorems carry over (`TxTablesAgree`, `TxSafeWhileFresh`, `TxSendsOnce`).

**RowLocks.** `LocksTypeCorrect` takes from the lists of locks, `SaveRequirementLocks` with its two
sequences over any number of bids among them, that they name rows there are (`LocksGood`), which
also says that each list is in the order requirement, bids by key, contract where `users` rows are
left out, and that locks outside `users` are exclusive. `LocksInv` relates the three variables: what
is in `locks` was asked for (`EntriesAsked`), what was asked for is there or covered (`AskedHeld`), a
session waits on its last row for holders of that row (`WaitsForHolders`), of two conflicting locks
one waits for the other (`ConflictsWait`), and the waits on one row are transitive
(`QueuesAreOrdered`). None of the five is a deadlock property, and the two that are follow from them
at any moment. For `DeadlocksNeedUsers`, take sessions that each wait for another of them outside
`users`. If `s` waits for `q`, then `q` has a lock on the row `s` waits for, and its own last row is
that row or a later one; so "a later last row, or the same and ahead in its queue" is a strict order
in which every session has one above it, and a finite set has a maximal element (`MaximalElement`).
`OneRequirementHasNoDeadlock` adds that CreateBid and AcceptBid of one requirement lock that
requirement before anything in `users`: a session that has got as far as `users` holds it, so no
other is past it, and one that waits for it still waits for the requirement
(`OneWaitsForTheRequirement`). The deadlock would then be one outside `users`.
`RunningLocksExclude` is mutual exclusion itself: two sessions that need not wait never hold
conflicting locks on a row.

**OperationLog.** Its steps are steps of Marketplace or stutters (`LogStepsAreSteps`), so `Inv`
holds. `LogInv` adds what a method has in hand: while the row it loaded is unsaved its entry names
that row (`TellsOf`) and the status it will store, afterwards the entry has happened: `EntryIsStored` shows
that the entry in hand is the one that is true of the row just saved, stale or not. What has happened
is not undone: contracts and publishers stay, signed and completed contracts do not go back, the
recipient of a notification stays (`ToldStays`), and a withdrawn bid stays
withdrawn. That last one is not obvious: `AcceptBid` accepts pending bids only, and a stale Save of
a bid writes `withdrawn` and nothing else. Thus `LogIsTrue`. `OnlyFailuresMissing` goes through the
operations: one that makes something appear leaves its entry in hand, and only `Record`,
`RecordFails` and a crash take it from there. What `LogIsTrue` says of an update or of a status is that it
was stored, by the publisher and with that status; that it still is would be false.

**Workbench.** `BenchInv` says of a payload half put together that what it shows still has its
consequences in the tables: a winner read earlier has a contract, whose bid is on the list read
next, an accepted bid has a contract (`WinnersShown`, `AcceptedShown`), and lists only grow
(`ListsLast`). Hence `PagesAreCoherent`, whatever stale writers do, and `CountsCover`, by the
cardinality of subsets.

**NotificationCenter.** `CenterInv` adds to `TypeOK` that every answer on its way is still true: it lists
rows of the account whose token was sent, what it calls read is read, what it was asked to mark
is marked, and all rows that a mark-all found unread are. That rests on read rows staying read. The four action properties follow:
`ReadIsForGood`, `OnlyRecipientsRead`, `OnlyLateMixing`, `ReadAsShown`. The last one admits one way in which an unread
notification comes to be shown as read, which the code has: the answer to a mark-all of this very tab that the server has
executed, for a notification that the server did not find (it came later, or is another account's). Lost, refused and
failed requests do not.

**RateLimiter.** `TypeOK`, with the bounds it puts on the end of a window and on a goroutine's
clock, is inductive, and so is `TableBounded` next to it: a table that grows beyond the purging size
is purged at the moment the goroutine read, at most `MaxDelay` ago, and no window ends more than a
minute from now. `LiveWindowsAreKept` rests on the same bounds: what is over at the moment a
goroutine has in hand is over now.

`RateIsBounded` needs an invariant over the history, `HistoryInv`: each request let through took a
place of its own in a window that was not over when it arrived, at most `MaxDelay` before the window
was opened (`PassesFitWindows`); two windows of an address end at least `Minute + 1 - MaxDelay` ticks
apart (`PassesAreApart`); and that remains so because the window in the table is the last one, and
where there is none the last one is over (`TableIsLatest`), purges by late goroutines included. The
requests of a minute are then mapped, one to one, to places of windows numbered by the slice of time
they end in, of which a minute meets `WindowsMet`; the first place of the first slice stays free,
because whoever takes it opened that window and arrived before the minute (`MinuteBound`).
`WindowsMetByTheCode` says what this number is for the delays a program has. Goroutines that are
late by half a minute would meet more: a fixed three is not a bound for every delay.

**Accounts.** `AccountsInv` adds to `TypeOK` where a start stands (`SeedProgress`: which rows it has
inserted, and that there is no demo data without users), what handlers in flight know
(`SessionsAgree`: an answer is for a row its person owns; a row in flight is the stored one unless
updates overlapped) and that what was asked for is asked of existing accounts (`WantedExists`). It
gives `NamesAreHeld`, where the unique index does the work the lookup cannot, and `ProfilesKept`.

**Only model-checked.** Every safety and action property of the passing runs is stated by a theorem.
What is left to TLC are the liveness properties `RequestsFinish`, `EveryTransactionEnds`,
`BadgeSettles` and `ServesAgain`, which are out of the prover's reach, and the four counterexamples. (`Deal` leaves open
which party `Sign` tells, since no column of the mapping's tables has the signer; `SignaturesTellTheOther` closes that gap.)

## 6. What is not modelled, and why

- Gap locks, lock wait timeouts and the connection pool. A timeout is a `Rollback`, `Fail` or `Abort`, which may strike anywhere.
- MySQL's isolation level matters little here: the transactions read rows they decide on FOR UPDATE, which reads
  the newest committed version. On SQLite, used by unit tests, FOR UPDATE does nothing and writers exclude each other.
- The log rows of registrations, logins and profile updates, and those `AuditLogger` adds for each request after its answer: a method
  and a path, the same for a business rejection answered with HTTP 200.
- A start that was cut half-way leaves incomplete demo data, which no later start completes: the count
  finds users. `ServesAgain` says that it does no more harm than that.
- A restart empties the limiter's table; the rates hold for one process.
- Pages of lists, filters, searches: single queries that change nothing. The dashboard's count of unread notifications is
  the query of NotificationCenter's `Unread`. (`Dashboard.vue` labels the number of contracts 进行中合同, contracts in progress;
  `CountByParty` counts all of them. It is a matter of one WHERE clause and has no run.)
- The notification page's own filter switch, which restarts at "all" while the store keeps its filter.
- Password hashing, token signing, routing, validation of texts and amounts, rendering, API documentation.
