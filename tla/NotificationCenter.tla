------------------------- MODULE NotificationCenter -------------------------
(***************************************************************************)
(* The notification center: the notifications table with its read flags,   *)
(* the endpoints that list, count and mark, and the Pinia store of each    *)
(* browser tab with its badge and its two lists.                           *)
(*                                                                         *)
(* Store actions are asynchronous: they send a request, and what follows   *)
(* the await runs when the answer comes.  Several requests of a tab may be *)
(* in flight, and they are served and answered in any order; one that is   *)
(* lost or times out leaves the store as it is.  Which action a page calls *)
(* and when is left open, within what the page shows: a notification can   *)
(* only be opened or marked if it is shown unread, all can only be marked  *)
(* if the badge is lit.  Logging in is a store action too: the Enter key   *)
(* submits the form again while it waits, so several may be in flight.     *)
(*                                                                         *)
(* The tabs of a browser share the token in local storage: requests go out *)
(* with that token, whatever account the tab's own store says it is for.   *)
(*                                                                         *)
(* Pages of a list are left out: a list is taken whole.                    *)
(***************************************************************************)
EXTENDS Naturals, FiniteSets

CONSTANTS
    Event,             \* event keys of the notifications
    User,
    Recipient,         \* [Event -> User]
    Tab,               \* tabs of one browser, each with its own store
    Slot,              \* bounds the requests in flight
    None               \* "logged out", "no token", "free slot", "no tab waits"

ASSUME RecipientAssumption == Recipient \in [Event -> User]

ASSUME EventAssumption == IsFiniteSet(Event)

VARIABLES
    rows,              \* [Event -> Flag], the notifications table
    token,             \* whose token is in local storage, or None
    user,              \* [Tab -> the account its store is for, or None]
    items,             \* [Tab -> List], the list of the notification page
    recent,            \* [Tab -> List], the list of the bell's popover
    unreadOnly,        \* [Tab -> the filter of the notification page]
    unreadCount,       \* [Tab -> the number on the badge]
    requests           \* [Slot -> the request in flight, or None]

store == <<user, items, recent, unreadOnly, unreadCount>>
vars == <<rows, token, user, items, recent, unreadOnly, unreadCount, requests>>

Flag == {"absent", "unread", "read"}

\* What a list shows of each notification, and what the table holds of it.
List == [Event -> Flag]

Empty == [e \in Event |-> "absent"]

Kind == {"count", "recent", "list", "markRead", "markAll", "login"}

\* "user": whose token it carries, for a login whose name it does.  "flag": the
\* filter of a list, or what the store showed of a marked row.
Request ==
    [tab : Tab \cup {None}, user : User \cup {None}, kind : Kind,
     event : Event \cup {None}, flag : BOOLEAN,
     status : {"sent", "ok"}, answer : List]

ASSUME NoneAssumption == None \notin User \cup Tab /\ None \notin Request

TypeOK ==
    /\ rows \in List
    /\ token \in User \cup {None}
    /\ user \in [Tab -> User \cup {None}]
    /\ items \in [Tab -> List]
    /\ recent \in [Tab -> List]
    /\ unreadOnly \in [Tab -> BOOLEAN]
    /\ unreadCount \in [Tab -> 0..Cardinality(Event)]
    /\ requests \in [Slot -> Request \cup {None}]

Init ==
    /\ rows = Empty
    /\ token = None
    /\ user = [t \in Tab |-> None]
    /\ items = [t \in Tab |-> Empty]
    /\ recent = [t \in Tab |-> Empty]
    /\ unreadOnly = [t \in Tab |-> FALSE]
    /\ unreadCount = [t \in Tab |-> 0]
    /\ requests = [q \in Slot |-> None]

-----------------------------------------------------------------------------
(* The server                                                               *)

\* Faulty: a replayed event overwrites the row (ON CONFLICT DO UPDATE).
Notify_Overwriting(e) ==
    /\ rows' = [rows EXCEPT ![e] = "unread"]
    /\ UNCHANGED <<token, store, requests>>

\* NotificationService.NotifyTx: a new event gets a row, a replayed one keeps
\* the row it has, with its read flag.
Notify(e) ==
    /\ rows' = IF rows[e] = "absent" THEN [rows EXCEPT ![e] = "unread"] ELSE rows
    /\ UNCHANGED <<token, store, requests>>

\* The rows of user u, the unread ones only if so asked (ListByRecipient).
RowsOf(u, unread) ==
    [e \in Event |-> IF Recipient[e] = u /\ (unread => rows[e] = "unread")
                     THEN rows[e] ELSE "absent"]

\* The unread entries of a list.
Unread(list) == {e \in Event : list[e] = "unread"}

\* Faulty: every unread row, whoever it is for.
AfterMarkAll_Everyone(u) ==
    [e \in Event |-> IF rows[e] = "unread" THEN "read" ELSE rows[e]]

\* NotificationRepository.MarkAllRead: the unread rows of user u.
AfterMarkAll(u) ==
    [e \in Event |-> IF Recipient[e] = u /\ rows[e] = "unread" THEN "read" ELSE rows[e]]

\* NotificationService.MarkRead: missing rows and other users' rows are
\* rejected; a read row stays as it is.
MayMark(u, e) == rows[e] # "absent" /\ Recipient[e] = u

Answer(q, list) ==
    requests' = [requests EXCEPT ![q].status = "ok", ![q].answer = list]

\* The server executes the request in slot q and answers it; one it rejects
\* makes the client's promise fail, after which nothing is done.  MarkAllRead
\* answers without data: what its answer holds here is history, the table as it
\* left it.  A login with a wrong password ends like one that is lost.
Serve(q) ==
    /\ requests[q] # None
    /\ requests[q].status = "sent"
    /\ requests[q].user # None
    /\ LET r == requests[q]
       IN  \/ r.kind = "count" /\ Answer(q, RowsOf(r.user, TRUE)) /\ UNCHANGED rows
           \/ r.kind = "recent" /\ Answer(q, RowsOf(r.user, FALSE)) /\ UNCHANGED rows
           \/ r.kind = "list" /\ Answer(q, RowsOf(r.user, r.flag)) /\ UNCHANGED rows
           \/ /\ r.kind = "markRead"
              /\ MayMark(r.user, r.event)
              /\ rows' = [rows EXCEPT ![r.event] = "read"]
              /\ Answer(q, Empty)
           \/ /\ r.kind = "markRead"
              /\ ~MayMark(r.user, r.event)
              /\ requests' = [requests EXCEPT ![q] = None]
              /\ UNCHANGED rows
           \/ /\ r.kind = "markAll"
              /\ rows' = AfterMarkAll(r.user)
              /\ Answer(q, AfterMarkAll(r.user))
           \/ r.kind = "login" /\ Answer(q, Empty) /\ UNCHANGED rows
    /\ UNCHANGED <<token, store>>

\* JWTAuth finds no token or an expired one, and the 401 arrives: the
\* interceptor clears local storage, if a tab still waits for the answer.  One
\* step, since refusing does nothing on the server.  The stores keep the
\* account they have, so the login page stays out of reach.
Refuse(q) ==
    /\ requests[q] # None
    /\ requests[q].status = "sent"
    /\ requests[q].kind # "login"
    /\ token' = IF requests[q].tab = None THEN token ELSE None
    /\ requests' = [requests EXCEPT ![q] = None]
    /\ UNCHANGED <<rows, store>>

-----------------------------------------------------------------------------
(* The store: sending                                                       *)

\* Tab t puts a request of user u in a free slot.
Post(t, u, kind, e, flag) ==
    \E q \in Slot :
        /\ requests[q] = None
        /\ requests' = [requests EXCEPT ![q] =
              [tab |-> t, user |-> u, kind |-> kind, event |-> e,
               flag |-> flag, status |-> "sent", answer |-> Empty]]

\* Tab t sends a request with the token in local storage.
Send(t, kind, e, flag) ==
    /\ user[t] # None
    /\ Post(t, token, kind, e, flag)
    /\ UNCHANGED <<rows, token, store>>

\* Faulty: the timer polls only while the badge is lit.
FetchUnreadCount_WhileLit(t) == unreadCount[t] > 0 /\ Send(t, "count", None, FALSE)

\* On the minute timer, on every navigation and in refresh.
FetchUnreadCount(t) == Send(t, "count", None, FALSE)

\* In refresh and whenever the popover opens.
FetchRecent(t) == Send(t, "recent", None, FALSE)

\* The notification page loads, or reloads with its filter.
FetchList(t) == Send(t, "list", None, unreadOnly[t])

SetFilter(t, unread) ==
    /\ user[t] # None
    /\ unreadOnly' = [unreadOnly EXCEPT ![t] = unread]
    /\ UNCHANGED <<rows, token, user, items, recent, unreadCount, requests>>

\* The store shows e unread, in the page or in the popover.
ShownUnread(t, e) == "unread" \in {items[t][e], recent[t][e]}

\* A list with the entries in s that it shows flagged as read.
Patched(list, s) ==
    [e \in Event |-> IF e \in s /\ list[e] = "unread" THEN "read" ELSE list[e]]

\* markRead up to its await: wasUnread is what the store shows then.
MarkRead(t, e) == ShownUnread(t, e) /\ Send(t, "markRead", e, ShownUnread(t, e))

\* Faulty: the lists show everything read before the server has answered.
MarkAllRead_Optimistic(t) ==
    /\ user[t] # None
    /\ unreadCount[t] > 0
    /\ Post(t, token, "markAll", None, FALSE)
    /\ items' = [items EXCEPT ![t] = Patched(@, Event)]
    /\ recent' = [recent EXCEPT ![t] = Patched(@, Event)]
    /\ UNCHANGED <<rows, token, user, unreadOnly, unreadCount>>

\* markAllRead up to its await.
MarkAllRead(t) == unreadCount[t] > 0 /\ Send(t, "markAll", None, FALSE)

-----------------------------------------------------------------------------
(* The store: after the await                                               *)

\* Faulty: a marked notification is subtracted whatever the badge says.
BadgeAfter_Unguarded(r, n) ==
    CASE r.kind = "count"              -> Cardinality(Unread(r.answer))
      [] r.kind = "markAll"            -> 0
      [] r.kind = "markRead" /\ r.flag -> n - 1
      [] OTHER                         -> n

\* The badge n after the answer to request r.
BadgeAfter(r, n) ==
    CASE r.kind = "count"                        -> Cardinality(Unread(r.answer))
      [] r.kind = "markAll"                      -> 0
      [] r.kind = "markRead" /\ r.flag /\ n > 0 -> n - 1
      [] OTHER                                   -> n

\* The entries the answer to request r marks as read in the tab's lists.
MarkedBy(r) ==
    CASE r.kind = "markRead" -> {r.event}
      [] r.kind = "markAll"  -> Event
      [] OTHER               -> {}

\* The answer in slot q arrives and the rest of the store action runs.
Receive(q) ==
    /\ requests[q] # None
    /\ requests[q].tab # None
    /\ requests[q].status = "ok"
    /\ requests[q].kind # "login"
    /\ LET r == requests[q]
           t == r.tab
       IN  /\ items' = [items EXCEPT ![t] =
                 IF r.kind = "list" THEN r.answer ELSE Patched(@, MarkedBy(r))]
           /\ recent' = [recent EXCEPT ![t] =
                 IF r.kind = "recent" THEN r.answer ELSE Patched(@, MarkedBy(r))]
           /\ unreadCount' = [unreadCount EXCEPT ![t] = BadgeAfter(r, @)]
    /\ requests' = [requests EXCEPT ![q] = None]
    /\ UNCHANGED <<rows, token, user, unreadOnly>>

\* A request is lost on its way, or its answer is, or the client gives up on
\* it: the promise is rejected and the store is not touched.
Lose(q) ==
    /\ requests[q] # None
    /\ requests' = [requests EXCEPT ![q] = None]
    /\ UNCHANGED <<rows, token, store>>

-----------------------------------------------------------------------------
(* Accounts                                                                 *)

\* Faulty: the popover's list survives a change of account.
Reset_KeepingRecent(t) ==
    /\ items' = [items EXCEPT ![t] = Empty]
    /\ unreadOnly' = [unreadOnly EXCEPT ![t] = FALSE]
    /\ unreadCount' = [unreadCount EXCEPT ![t] = 0]
    /\ UNCHANGED recent

Reset(t) ==
    /\ items' = [items EXCEPT ![t] = Empty]
    /\ recent' = [recent EXCEPT ![t] = Empty]
    /\ unreadOnly' = [unreadOnly EXCEPT ![t] = FALSE]
    /\ unreadCount' = [unreadCount EXCEPT ![t] = 0]

\* The router's guard shows the login page only to a tab with no account: it
\* asks the store, not local storage.
LoginReachable(t) == user[t] = None

\* The form is submitted, by its button or by the Enter key, whether or not an
\* earlier login is still unanswered.  Registering is a login as well: the store
\* does the same with its answer.
SubmitLogin(t, u) ==
    /\ LoginReachable(t)
    /\ Post(t, u, "login", None, FALSE)
    /\ UNCHANGED <<rows, token, store>>

\* The answer to a login arrives, the last to come decides: the tab is then the
\* account's, also if it was another's already, and so is the token.
Login(q) ==
    /\ requests[q] # None
    /\ requests[q].tab # None
    /\ requests[q].status = "ok"
    /\ requests[q].kind = "login"
    /\ token' = requests[q].user
    /\ user' = [user EXCEPT ![requests[q].tab] = requests[q].user]
    /\ Reset(requests[q].tab)
    /\ requests' = [requests EXCEPT ![q] = None]
    /\ UNCHANGED rows

Logout(t) ==
    /\ user[t] # None
    /\ token' = None
    /\ user' = [user EXCEPT ![t] = None]
    /\ Reset(t)
    /\ UNCHANGED <<rows, requests>>

\* The page is reloaded: the stores start from local storage, and nobody
\* waits for the requests that are in flight.
Reload(t) ==
    /\ user' = [user EXCEPT ![t] = token]
    /\ Reset(t)
    /\ requests' = [q \in Slot |->
          IF requests[q] # None /\ requests[q].tab = t
          THEN [requests[q] EXCEPT !.tab = None] ELSE requests[q]]
    /\ UNCHANGED <<rows, token>>

\* What people do; the rest happens by itself.
Act(t) ==
    \/ FetchRecent(t)
    \/ FetchList(t)
    \/ \E unread \in BOOLEAN : SetFilter(t, unread)
    \/ \E e \in Event : MarkRead(t, e)
    \/ MarkAllRead(t)
    \/ \E u \in User : SubmitLogin(t, u)
    \/ Logout(t)
    \/ Reload(t)

Next ==
    \/ \E e \in Event : Notify(e)
    \/ \E t \in Tab : Act(t) \/ FetchUnreadCount(t)
    \/ \E q \in Slot :
          Serve(q) \/ Refuse(q) \/ Receive(q) \/ Login(q) \/ Lose(q)

Spec == Init /\ [][Next]_vars

\* The answer in slot q arrives or, if no tab waits for it, disappears.
Arrive(q) ==
    \/ Receive(q)
    \/ Login(q)
    \/ requests[q] # None /\ requests[q].tab = None /\ Lose(q)

\* The timer fires every minute, and a request that is sent again and again is
\* not lost every time, neither on its way nor on its way back.
Fairness ==
    /\ \A t \in Tab : SF_vars(FetchUnreadCount(t))
    /\ \A q \in Slot : SF_vars(Serve(q) \/ Refuse(q)) /\ SF_vars(Arrive(q))

FairSpec == Spec /\ Fairness

-----------------------------------------------------------------------------
(* Properties                                                               *)

\* A read notification is never unread again, whatever event is replayed
\* (NotificationRepository.Create: ON CONFLICT DO NOTHING).
ReadForGood == [][\A e \in Event : rows[e] = "read" => rows'[e] = "read"]_vars

\* A notification becomes read only by a marking request that carries the
\* token of its recipient, whichever tab sent it and whatever it shows.
ReadByRecipient ==
    [][\A e \in Event : rows[e] # "read" /\ rows'[e] = "read" =>
          \E q \in Slot : /\ requests[q] # None
                          /\ requests'[q] # requests[q]
                          /\ requests[q].kind \in {"markRead", "markAll"}
                          /\ requests[q].user = Recipient[e]]_vars

\* The tab's lists show notifications of its account only.
Own(t) ==
    \A e \in Event :
        (items[t][e] # "absent" \/ recent[t][e] # "absent") => Recipient[e] = user[t]

\* A tab comes to show another account's notifications in one way only: the
\* answer arrives to a request it sent with another account's token.  Logging
\* in, out and reloading leave nothing of the account before.
OnlyLateAnswersMix ==
    [][\A t \in Tab : Own(t) /\ ~Own(t)' =>
          \E q \in Slot : /\ requests[q] # None
                          /\ requests'[q] = None
                          /\ requests[q].tab = t
                          /\ requests[q].user # user[t]]_vars

\* A tab comes to show as read only what is read in the table, but for what its
\* own "mark all", done by the server and answered, did not cover: a
\* notification that was not there yet when the server marked, or one of another
\* account than the one whose token the request carried.  A request that failed,
\* was refused or was lost never leaves an unread notification shown as read.
ShownReadIsRead ==
    [][\A t \in Tab, e \in Event :
          /\ rows'[e] # "read"
          /\ \/ items[t][e] # "read" /\ items'[t][e] = "read"
             \/ recent[t][e] # "read" /\ recent'[t][e] = "read"
          => \E q \in Slot :
                /\ requests[q] # None
                /\ requests'[q] = None
                /\ requests[q].kind = "markAll"
                /\ requests[q].tab = t
                /\ requests[q].status = "ok"
                /\ requests[q].user = Recipient[e] => requests[q].answer[e] = "absent"]_vars

\* The badge of tab t shows the number of unread rows of its account.
BadgeRight(t) ==
    user[t] # None /\ token = user[t] =>
        unreadCount[t] = Cardinality(Unread(RowsOf(user[t], FALSE)))

\* Whatever order answers came in and whatever was lost or marked twice, once
\* people stop and no notification changes the timer puts every badge right.
BadgeSettles ==
    <>[][UNCHANGED rows /\ \A t \in Tab : ~Act(t)]_vars =>
        \A t \in Tab : <>[]BadgeRight(t)

=============================================================================
