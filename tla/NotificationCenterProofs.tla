---------------------- MODULE NotificationCenterProofs ----------------------
(* What is proved of the notification center, for any number of accounts,   *)
(* notifications, tabs and requests in flight.                              *)
EXTENDS NotificationCenter, FiniteSetTheorems, TLAPS

-----------------------------------------------------------------------------
(* What an answer on its way says is still true when it arrives: it lists   *)
(* rows of the account whose token was sent, what it calls read is read,    *)
(* and the notifications it was asked to mark are marked.                   *)

TrueAnswer(q) ==
    /\ requests[q].kind = "markRead" => requests[q].event \in Event
    /\ requests[q].status = "ok" =>
          /\ requests[q].kind = "markRead" => rows[requests[q].event] = "read"
          /\ requests[q].kind = "markAll" =>
                \A e \in Event :
                   requests[q].answer[e] # "absent" /\ Recipient[e] = requests[q].user =>
                      rows[e] = "read"
          /\ requests[q].kind \in {"list", "recent"} =>
                \A e \in Event :
                   /\ requests[q].answer[e] # "absent" => Recipient[e] = requests[q].user
                   /\ requests[q].answer[e] = "read" => rows[e] = "read"

CenterInv ==
    /\ TypeOK
    /\ \A q \in Slot : requests[q] # None => TrueAnswer(q)

-----------------------------------------------------------------------------
(* The helpers                                                              *)

LEMMA UnreadBound ==
    ASSUME NEW list
    PROVE  Cardinality(Unread(list)) \in 0..Cardinality(Event)
<1>1. Unread(list) \subseteq Event
    BY DEF Unread
<1>2. /\ Cardinality(Unread(list)) \in Nat
      /\ Cardinality(Event) \in Nat
      /\ Cardinality(Unread(list)) <= Cardinality(Event)
    BY <1>1, EventAssumption, FS_Subset, FS_CardinalityType
<1> QED
    BY <1>2

LEMMA BadgeType ==
    ASSUME NEW r \in Request, NEW n \in 0..Cardinality(Event)
    PROVE  BadgeAfter(r, n) \in 0..Cardinality(Event)
<1>1. Cardinality(Event) \in Nat
    BY EventAssumption, FS_CardinalityType
<1>2. CASE r.kind = "count"
    BY <1>2, UnreadBound DEF BadgeAfter
<1>3. CASE r.kind = "markAll"
    BY <1>1, <1>3 DEF BadgeAfter
<1>4. CASE r.kind \notin {"count", "markAll"}
    BY <1>1, <1>4 DEF BadgeAfter
<1> QED
    BY <1>2, <1>3, <1>4

LEMMA PatchedType ==
    ASSUME NEW list \in List, NEW s
    PROVE  /\ Patched(list, s) \in List
           /\ \A e \in Event : Patched(list, s)[e] # "absent" => list[e] # "absent"
           /\ \A e \in Event : Patched(list, s)[e] = "read" =>
                 list[e] = "read" \/ e \in s
BY DEF Patched, List, Flag

\* A row of the list served is a row of the account, with its flag.
LEMMA RowsOfType ==
    ASSUME rows \in List, NEW u, NEW unread
    PROVE  /\ RowsOf(u, unread) \in List
           /\ \A e \in Event : RowsOf(u, unread)[e] # "absent" =>
                 Recipient[e] = u /\ RowsOf(u, unread)[e] = rows[e]
BY DEF RowsOf, List, Flag

-----------------------------------------------------------------------------
(* The invariant                                                            *)

LEMMA CenterInit == Init => CenterInv
<1> SUFFICES ASSUME Init PROVE CenterInv
    OBVIOUS
<1>1. Cardinality(Event) \in Nat
    BY EventAssumption, FS_CardinalityType
<1>2. TypeOK
    BY <1>1 DEF Init, TypeOK, Empty, List, Flag
<1> QED
    BY <1>2 DEF Init, CenterInv

\* A read row stays read, whoever is marking what.
LEMMA ReadStep ==
    ASSUME TypeOK, Next
    PROVE  \A e \in Event : rows[e] = "read" => rows'[e] = "read"
<1>1. CASE \E e \in Event : Notify(e)
    BY <1>1 DEF Notify, TypeOK, List
<1>2. CASE \E t \in Tab : Act(t) \/ FetchUnreadCount(t)
    BY <1>2 DEF Act, FetchUnreadCount, FetchRecent, FetchList, SetFilter,
                MarkRead, MarkAllRead, SubmitLogin, Logout, Reload, Send
<1>3. CASE \E q \in Slot : Refuse(q) \/ Receive(q) \/ Login(q) \/ Lose(q)
    BY <1>3 DEF Refuse, Receive, Login, Lose
<1>4. CASE \E q \in Slot : Serve(q)
    BY <1>4 DEF Serve, AfterMarkAll, TypeOK, List
<1> QED
    BY <1>1, <1>2, <1>3, <1>4 DEF Next

\* A request stays what it is in a step that at most takes its tab from it.
Kept(q) ==
    /\ requests[q] # None
    /\ \/ requests'[q] = requests[q]
       \/ requests'[q] = [requests[q] EXCEPT !.tab = None]

\* The requests in flight keep true answers where a step keeps them, read rows
\* staying read; so only a request that is new or answered needs a look.
LEMMA KeptAnswer ==
    ASSUME CenterInv, NEW q \in Slot, Kept(q),
           \A e \in Event : rows[e] = "read" => rows'[e] = "read"
    PROVE  TrueAnswer(q)'
<1>1. requests[q] \in Request /\ TrueAnswer(q)
    BY DEF CenterInv, TypeOK, Kept
<1>2. /\ requests'[q].kind = requests[q].kind
      /\ requests'[q].event = requests[q].event
      /\ requests'[q].user = requests[q].user
      /\ requests'[q].answer = requests[q].answer
      /\ requests'[q].status = requests[q].status
    BY <1>1 DEF Kept, Request
<1> QED
    BY <1>1, <1>2 DEF TrueAnswer

LEMMA Reassembled ==
    ASSUME CenterInv, Next, TypeOK',
           \A q \in Slot : requests'[q] # None => Kept(q) \/ TrueAnswer(q)'
    PROVE  CenterInv'
BY KeptAnswer, ReadStep DEF CenterInv

-----------------------------------------------------------------------------
(* The actions                                                              *)

LEMMA NotifyInv ==
    ASSUME CenterInv, Next, NEW e \in Event, Notify(e)
    PROVE  CenterInv'
<1>1. TypeOK'
    BY DEF CenterInv, Notify, TypeOK, List, Flag, store
<1>2. \A q \in Slot : requests'[q] # None => Kept(q)
    BY DEF Notify, Kept
<1> QED
    BY <1>1, <1>2, Reassembled

LEMMA PostInv ==
    ASSUME CenterInv, Next, NEW t \in Tab, NEW u \in User \cup {None}, NEW kind \in Kind,
           NEW e \in Event \cup {None}, NEW flag \in BOOLEAN,
           kind = "markRead" => e \in Event,
           Post(t, u, kind, e, flag), UNCHANGED <<rows, token, store>>
    PROVE  CenterInv'
<1> DEFINE new == [tab |-> t, user |-> u, kind |-> kind, event |-> e,
                   flag |-> flag, status |-> "sent", answer |-> Empty]
<1>1. PICK p \in Slot : /\ requests[p] = None
                        /\ requests' = [requests EXCEPT ![p] = new]
    BY DEF Post
<1>2. Empty \in List
    BY DEF Empty, List, Flag
<1>3. new \in Request /\ new # None
    BY <1>2, NoneAssumption DEF Request, CenterInv, TypeOK
<1>4. requests' \in [Slot -> Request \cup {None}]
    BY <1>1, <1>3 DEF CenterInv, TypeOK
<1>5. TypeOK'
    BY <1>4 DEF CenterInv, TypeOK, store
<1>6. ASSUME NEW q \in Slot, requests'[q] # None
      PROVE  Kept(q) \/ TrueAnswer(q)'
    <2>1. CASE q = p
        <3>1. requests'[q] = new
            BY <1>1, <2>1 DEF CenterInv, TypeOK
        <3> QED
            BY <3>1 DEF TrueAnswer
    <2>2. CASE q # p
        BY <1>1, <1>6, <2>2 DEF Kept, CenterInv, TypeOK
    <2> QED
        BY <2>1, <2>2
<1> QED
    BY <1>5, <1>6, Reassembled

LEMMA SendInv ==
    ASSUME CenterInv, Next, NEW t \in Tab, NEW kind \in Kind,
           NEW e \in Event \cup {None}, NEW flag \in BOOLEAN,
           kind = "markRead" => e \in Event,
           Send(t, kind, e, flag)
    PROVE  CenterInv'
<1>1. PICK u \in User \cup {None} : Post(t, u, kind, e, flag)
    BY DEF Send, CenterInv, TypeOK
<1> QED
    BY <1>1, PostInv DEF Send

LEMMA SetFilterInv ==
    ASSUME CenterInv, Next, NEW t \in Tab, NEW unread \in BOOLEAN, SetFilter(t, unread)
    PROVE  CenterInv'
<1>1. TypeOK'
    BY DEF CenterInv, SetFilter, TypeOK
<1>2. \A q \in Slot : requests'[q] # None => Kept(q)
    BY DEF SetFilter, Kept
<1> QED
    BY <1>1, <1>2, Reassembled

LEMMA ResetType ==
    ASSUME TypeOK, NEW t \in Tab, Reset(t)
    PROVE  /\ items' \in [Tab -> List]
           /\ recent' \in [Tab -> List]
           /\ unreadOnly' \in [Tab -> BOOLEAN]
           /\ unreadCount' \in [Tab -> 0..Cardinality(Event)]
<1>1. Empty \in List
    BY DEF Empty, List, Flag
<1>2. 0 \in 0..Cardinality(Event)
    BY EventAssumption, FS_CardinalityType
<1> QED
    BY <1>1, <1>2 DEF Reset, TypeOK

LEMMA LogoutInv ==
    ASSUME CenterInv, Next, NEW t \in Tab, Logout(t)
    PROVE  CenterInv'
<1>1. token' \in User \cup {None} /\ user' \in [Tab -> User \cup {None}]
    BY DEF Logout, CenterInv, TypeOK
<1>2. TypeOK'
    BY <1>1, ResetType DEF Logout, CenterInv, TypeOK
<1>3. \A q \in Slot : requests'[q] # None => Kept(q)
    BY DEF Logout, Kept
<1> QED
    BY <1>2, <1>3, Reassembled

LEMMA LoginInv ==
    ASSUME CenterInv, Next, NEW p \in Slot, Login(p)
    PROVE  CenterInv'
<1>1. requests[p] \in Request
    BY DEF Login, CenterInv, TypeOK
<1>2. requests[p].tab \in Tab /\ requests[p].user \in User \cup {None}
    BY <1>1 DEF Login, Request
<1>3. token' \in User \cup {None} /\ user' \in [Tab -> User \cup {None}]
    BY <1>2 DEF Login, CenterInv, TypeOK
<1>4. requests' \in [Slot -> Request \cup {None}]
    BY DEF Login, CenterInv, TypeOK
<1>5. TypeOK'
    BY <1>2, <1>3, <1>4, ResetType DEF Login, CenterInv, TypeOK
<1>6. \A q \in Slot : requests'[q] # None => Kept(q)
    BY DEF Login, Kept, CenterInv, TypeOK
<1> QED
    BY <1>5, <1>6, Reassembled

LEMMA ReloadInv ==
    ASSUME CenterInv, Next, NEW t \in Tab, Reload(t)
    PROVE  CenterInv'
<1>1. user' \in [Tab -> User \cup {None}]
    BY DEF Reload, CenterInv, TypeOK
<1>2. \A q \in Slot :
         /\ requests'[q] \in Request \cup {None}
         /\ requests'[q] # None => Kept(q)
    BY DEF Reload, CenterInv, TypeOK, Request, Kept
<1>3. requests' \in [Slot -> Request \cup {None}]
    BY <1>2 DEF Reload
<1>4. TypeOK'
    BY <1>1, <1>3, ResetType DEF Reload, CenterInv, TypeOK
<1> QED
    BY <1>2, <1>4, Reassembled

LEMMA ServeInv ==
    ASSUME CenterInv, Next, NEW p \in Slot, Serve(p)
    PROVE  CenterInv'
<1> DEFINE r == requests[p]
<1>1. r \in Request /\ TrueAnswer(p) /\ r.status = "sent"
    BY DEF Serve, CenterInv, TypeOK
<1>2. rows \in List /\ rows' \in List
    BY DEF Serve, CenterInv, TypeOK, List, Flag, AfterMarkAll
<1>3. \/ /\ requests' = [requests EXCEPT ![p] = None]
      \/ \E list \in List :
            /\ Answer(p, list)
            /\ r.kind = "markRead" => rows'[r.event] = "read"
            /\ r.kind = "markAll" =>
                  \A e \in Event :
                     list[e] # "absent" /\ Recipient[e] = r.user => rows'[e] = "read"
            /\ r.kind \in {"list", "recent"} =>
                  \A e \in Event : /\ list[e] # "absent" => Recipient[e] = r.user
                                   /\ list[e] = "read" => rows'[e] = "read"
    <2>1. Empty \in List
        BY DEF Empty, List, Flag
    <2>2. CASE r.kind \in {"count", "recent", "list"}
        <3>1. PICK unread \in BOOLEAN : Answer(p, RowsOf(r.user, unread))
            BY <1>1, <2>2 DEF Serve, Request
        <3>2. UNCHANGED rows
            BY <2>2 DEF Serve
        <3> QED
            BY <1>2, <2>2, <3>1, <3>2, RowsOfType
    <2>3. CASE r.kind = "markRead"
        BY <1>1, <1>2, <2>1, <2>3 DEF Serve, TrueAnswer, List
    <2>4. CASE r.kind = "markAll"
        <3>1. Answer(p, AfterMarkAll(r.user)) /\ rows' = AfterMarkAll(r.user)
            BY <2>4 DEF Serve
        <3>2. \A e \in Event : rows'[e] # "absent" /\ Recipient[e] = r.user => rows'[e] = "read"
            BY <1>2, <3>1 DEF AfterMarkAll, List, Flag
        <3> QED
            BY <1>2, <2>4, <3>1, <3>2
    <2>5. CASE r.kind = "login"
        BY <2>1, <2>5 DEF Serve
    <2> QED
        BY <1>1, <2>2, <2>3, <2>4, <2>5 DEF Request, Kind
<1>4. CASE requests' = [requests EXCEPT ![p] = None]
    <2>1. TypeOK'
        BY <1>2, <1>4 DEF Serve, CenterInv, TypeOK, store
    <2>2. \A q \in Slot : requests'[q] # None => Kept(q)
        BY <1>4 DEF Kept, CenterInv, TypeOK
    <2> QED
        BY <2>1, <2>2, Reassembled
<1>5. ASSUME NEW list \in List, Answer(p, list),
             r.kind = "markRead" => rows'[r.event] = "read",
             r.kind = "markAll" =>
                \A e \in Event :
                   list[e] # "absent" /\ Recipient[e] = r.user => rows'[e] = "read",
             r.kind \in {"list", "recent"} =>
                \A e \in Event : /\ list[e] # "absent" => Recipient[e] = r.user
                                 /\ list[e] = "read" => rows'[e] = "read"
      PROVE  CenterInv'
    <2> DEFINE new == [r EXCEPT !.status = "ok", !.answer = list]
    <2>1. requests' = [requests EXCEPT ![p] = new]
        BY <1>5 DEF Answer, CenterInv, TypeOK
    <2>2. new \in Request
        BY <1>1, <1>5 DEF Request
    <2>3. requests' \in [Slot -> Request \cup {None}]
        BY <2>1, <2>2 DEF CenterInv, TypeOK
    <2>4. TypeOK'
        BY <1>2, <2>3 DEF Serve, CenterInv, TypeOK, store
    <2>5. requests'[p] = new
        BY <2>1 DEF CenterInv, TypeOK
    <2>6. TrueAnswer(p)'
        <3>1. /\ new.kind = r.kind /\ new.event = r.event
              /\ new.user = r.user /\ new.answer = list
            BY <1>1 DEF Request
        <3> QED
            BY <1>1, <1>5, <2>5, <3>1 DEF TrueAnswer
    <2>7. \A q \in Slot : requests'[q] # None => Kept(q) \/ TrueAnswer(q)'
        BY <2>1, <2>6 DEF Kept, CenterInv, TypeOK
    <2> QED
        BY <2>4, <2>7, Reassembled
<1> QED
    BY <1>3, <1>4, <1>5

LEMMA ReceiveInv ==
    ASSUME CenterInv, Next, NEW p \in Slot, Receive(p)
    PROVE  CenterInv'
<1> DEFINE r == requests[p]
           t == r.tab
<1>1. r \in Request /\ t \in Tab /\ r.answer \in List
    BY DEF Receive, CenterInv, TypeOK, Request
<1>2. items' \in [Tab -> List] /\ recent' \in [Tab -> List]
    BY <1>1, PatchedType DEF Receive, CenterInv, TypeOK
<1>3. unreadCount' \in [Tab -> 0..Cardinality(Event)]
    <2>1. BadgeAfter(r, unreadCount[t]) \in 0..Cardinality(Event)
        BY <1>1, BadgeType DEF CenterInv, TypeOK
    <2> QED
        BY <1>1, <2>1 DEF Receive, CenterInv, TypeOK
<1>4. TypeOK'
    BY <1>2, <1>3 DEF Receive, CenterInv, TypeOK
<1>5. \A q \in Slot : requests'[q] # None => Kept(q)
    BY DEF Receive, Kept, CenterInv, TypeOK
<1> QED
    BY <1>4, <1>5, Reassembled

LEMMA LossInv ==
    ASSUME CenterInv, Next, NEW p \in Slot, Refuse(p) \/ Lose(p)
    PROVE  CenterInv'
<1>1. requests' = [requests EXCEPT ![p] = None]
    BY DEF Refuse, Lose
<1>2. TypeOK'
    BY <1>1 DEF Refuse, Lose, CenterInv, TypeOK, store
<1>3. \A q \in Slot : requests'[q] # None => Kept(q)
    BY <1>1 DEF Kept, CenterInv, TypeOK
<1> QED
    BY <1>2, <1>3, Reassembled

LEMMA ActInv ==
    ASSUME CenterInv, Next, NEW t \in Tab, Act(t) \/ FetchUnreadCount(t)
    PROVE  CenterInv'
<1>1. CASE FetchUnreadCount(t)
    BY <1>1, SendInv DEF FetchUnreadCount, Kind
<1>2. CASE FetchRecent(t)
    BY <1>2, SendInv DEF FetchRecent, Kind
<1>3. CASE FetchList(t)
    BY <1>3, SendInv DEF FetchList, Kind, CenterInv, TypeOK
<1>4. CASE \E unread \in BOOLEAN : SetFilter(t, unread)
    BY <1>4, SetFilterInv
<1>5. CASE \E e \in Event : MarkRead(t, e)
    <2>1. PICK e \in Event : MarkRead(t, e)
        BY <1>5
    <2>2. ShownUnread(t, e) \in BOOLEAN
        BY DEF ShownUnread
    <2> QED
        BY <2>1, <2>2, SendInv DEF MarkRead, Kind
<1>6. CASE MarkAllRead(t)
    BY <1>6, SendInv DEF MarkAllRead, Kind
<1>7. CASE \E u \in User : SubmitLogin(t, u)
    BY <1>7, PostInv DEF SubmitLogin, Kind
<1>8. CASE Logout(t)
    BY <1>8, LogoutInv
<1>9. CASE Reload(t)
    BY <1>9, ReloadInv
<1> QED
    BY <1>1, <1>2, <1>3, <1>4, <1>5, <1>6, <1>7, <1>8, <1>9 DEF Act

LEMMA CenterStep == CenterInv /\ [Next]_vars => CenterInv'
<1> SUFFICES ASSUME CenterInv, [Next]_vars PROVE CenterInv'
    OBVIOUS
<1>1. CASE UNCHANGED vars
    BY <1>1 DEF vars, CenterInv, TypeOK, TrueAnswer
<1>2. CASE Next
    BY <1>2, NotifyInv, ActInv, ServeInv, ReceiveInv, LoginInv, LossInv DEF Next
<1> QED
    BY <1>1, <1>2

\* Every table, store and request in flight is well formed, and every answer
\* on its way is still true of the rows (Serve, Receive, Notify).
THEOREM CenterInvariant == Spec => []CenterInv
BY CenterInit, CenterStep, PTL DEF Spec

\* In particular the badge stays between zero and the number of notifications,
\* however often one is marked.
THEOREM CenterTypeCorrect == Spec => []TypeOK
<1>1. CenterInv => TypeOK
    BY DEF CenterInv
<1> QED
    BY <1>1, CenterInvariant, PTL

-----------------------------------------------------------------------------
(* The action properties                                                    *)

\* A read notification is never unread again (NotifyTx, MarkRead, MarkAllRead).
THEOREM ReadIsForGood == Spec => ReadForGood
<1>1. CenterInv /\ [Next]_vars =>
         [\A e \in Event : rows[e] = "read" => rows'[e] = "read"]_vars
    BY ReadStep DEF CenterInv
<1> QED
    BY <1>1, CenterInvariant, PTL DEF Spec, ReadForGood

\* Only a marking request with the recipient's token makes a notification read
\* (the WHERE clauses of MarkRead and MarkAllRead, the owner check of MarkRead).
THEOREM OnlyRecipientsRead == Spec => ReadByRecipient
<1> DEFINE Marked(e) ==
       \E q \in Slot : /\ requests[q] # None
                       /\ requests'[q] # requests[q]
                       /\ requests[q].kind \in {"markRead", "markAll"}
                       /\ requests[q].user = Recipient[e]
<1>1. ASSUME CenterInv, Next, NEW e \in Event, rows[e] # "read", rows'[e] = "read"
      PROVE  Marked(e)
    <2>1. rows' # rows
        BY <1>1
    <2>2. ~\E x \in Event : Notify(x)
        BY <1>1 DEF Notify, CenterInv, TypeOK, List
    <2>3. ~\E t \in Tab : Act(t) \/ FetchUnreadCount(t)
        BY <2>1 DEF Act, FetchUnreadCount, FetchRecent, FetchList, SetFilter,
                    MarkRead, MarkAllRead, SubmitLogin, Logout, Reload, Send
    <2>4. PICK q \in Slot : Serve(q)
        BY <1>1, <2>1, <2>2, <2>3 DEF Next, Refuse, Receive, Login, Lose
    <2>5. requests[q] \in Request /\ requests[q] # None
        BY <1>1, <2>4 DEF Serve, CenterInv, TypeOK
    <2>6. requests'[q] # requests[q]
        <3>1. requests'[q] = None \/ requests'[q].status = "ok"
            BY <1>1, <2>4, <2>5 DEF Serve, Answer, CenterInv, TypeOK, Request
        <3> QED
            BY <2>4, <2>5, <3>1 DEF Serve
    <2>7. requests[q].kind \in {"markRead", "markAll"} /\ requests[q].user = Recipient[e]
        BY <1>1, <2>1, <2>4 DEF Serve, MayMark, AfterMarkAll, CenterInv, TypeOK, List
    <2> QED
        BY <2>5, <2>6, <2>7
<1>2. CenterInv /\ [Next]_vars =>
         [\A e \in Event : rows[e] # "read" /\ rows'[e] = "read" => Marked(e)]_vars
    BY <1>1
<1> QED
    BY <1>2, CenterInvariant, PTL DEF Spec, ReadByRecipient

\* A tab gets another account's notifications only by the answer to a request
\* it sent with another token (reset in login, register and logout).
THEOREM OnlyLateMixing == Spec => OnlyLateAnswersMix
<1> DEFINE Late(t) ==
       \E q \in Slot : /\ requests[q] # None
                       /\ requests'[q] = None
                       /\ requests[q].tab = t
                       /\ requests[q].user # user[t]
<1>1. ASSUME CenterInv, Next, NEW t \in Tab, Own(t), ~Own(t)'
      PROVE  Late(t)
    <2>1. ASSUME NEW c \in Tab, Reset(c), \A x \in Tab \ {c} : user'[x] = user[x]
          PROVE  FALSE
        BY <1>1, <2>1 DEF Reset, Own, Empty, CenterInv, TypeOK
    <2>2. /\ ~\E c \in Tab : Logout(c) \/ Reload(c)
          /\ ~\E q \in Slot : Login(q)
        BY <1>1, <2>1 DEF Login, Logout, Reload, CenterInv, TypeOK, Request
    <2>3. ~UNCHANGED <<user, items, recent>>
        BY <1>1 DEF Own
    <2>4. PICK q \in Slot : Receive(q)
        BY <1>1, <2>2, <2>3 DEF Next, Act, Notify, FetchUnreadCount, FetchRecent,
           FetchList, SetFilter, MarkRead, MarkAllRead, SubmitLogin, Send, Serve,
           Refuse, Lose, store
    <2> DEFINE r == requests[q]
    <2>5. r \in Request /\ r # None /\ r.tab \in Tab /\ r.answer \in List
          /\ requests'[q] = None /\ UNCHANGED user
        BY <1>1, <2>4 DEF Receive, CenterInv, TypeOK, Request
    <2>6. r.tab = t
        BY <1>1, <2>4, <2>5 DEF Receive, Own, CenterInv, TypeOK
    <2>7. ASSUME r.user = user[t] PROVE FALSE
        <3>1. /\ items'[t] = IF r.kind = "list" THEN r.answer
                             ELSE Patched(items[t], MarkedBy(r))
              /\ recent'[t] = IF r.kind = "recent" THEN r.answer
                              ELSE Patched(recent[t], MarkedBy(r))
            BY <1>1, <2>4, <2>6 DEF Receive, CenterInv, TypeOK
        <3>2. r.kind \in {"list", "recent"} =>
                 \A e \in Event : r.answer[e] # "absent" => Recipient[e] = user[t]
            BY <1>1, <2>4, <2>7 DEF Receive, CenterInv, TrueAnswer
        <3>3. items[t] \in List /\ recent[t] \in List
            BY <1>1 DEF CenterInv, TypeOK
        <3>4. \A e \in Event : items'[t][e] # "absent" => Recipient[e] = user[t]
            BY <1>1, <3>1, <3>2, <3>3, PatchedType DEF Own
        <3>5. \A e \in Event : recent'[t][e] # "absent" => Recipient[e] = user[t]
            BY <1>1, <3>1, <3>2, <3>3, PatchedType DEF Own
        <3> QED
            BY <1>1, <2>5, <3>4, <3>5 DEF Own
    <2> QED
        BY <2>5, <2>6, <2>7
<1>2. CenterInv /\ [Next]_vars => [\A t \in Tab : Own(t) /\ ~Own(t)' => Late(t)]_vars
    BY <1>1
<1> QED
    BY <1>2, CenterInvariant, PTL DEF Spec, OnlyLateAnswersMix

\* A tab comes to show as read only what is read, but for what its own "mark
\* all", done and answered, did not cover: what came after the server had marked,
\* and what is another account's than the token's.  A "mark all" that is refused,
\* fails or is lost shows nothing as read (patchRead and the two forEach of
\* markAllRead run after the await).
THEOREM ReadAsShown == Spec => ShownReadIsRead
<1> DEFINE NotCovered(t, e) ==
       \E q \in Slot :
          /\ requests[q] # None
          /\ requests'[q] = None
          /\ requests[q].kind = "markAll"
          /\ requests[q].tab = t
          /\ requests[q].status = "ok"
          /\ requests[q].user = Recipient[e] => requests[q].answer[e] = "absent"
           NewlyRead(t, e) ==
              \/ items[t][e] # "read" /\ items'[t][e] = "read"
              \/ recent[t][e] # "read" /\ recent'[t][e] = "read"
<1>1. ASSUME CenterInv, Next, NEW t \in Tab, NEW e \in Event,
             rows'[e] # "read", NewlyRead(t, e)
      PROVE  NotCovered(t, e)
    <2>1. ASSUME NEW c \in Tab, Reset(c)
          PROVE  FALSE
        BY <1>1, <2>1 DEF Reset, Empty, CenterInv, TypeOK
    <2>2. /\ ~UNCHANGED <<items, recent>>
          /\ ~\E q \in Slot : Login(q)
        BY <1>1, <2>1 DEF Login, CenterInv, TypeOK, Request
    <2>3. PICK q \in Slot : Receive(q)
        BY <1>1, <2>1, <2>2 DEF Next, Act, Notify, FetchUnreadCount, FetchRecent,
           FetchList, SetFilter, MarkRead, MarkAllRead, SubmitLogin, Send, Serve,
           Refuse, Logout, Reload, Lose, store
    <2> DEFINE r == requests[q]
    <2>4. /\ r \in Request /\ r # None /\ r.tab \in Tab /\ r.answer \in List
          /\ requests'[q] = None /\ UNCHANGED rows
          /\ TrueAnswer(q) /\ r.status = "ok"
        BY <1>1, <2>3 DEF Receive, CenterInv, TypeOK, Request
    <2>5. r.tab = t
        BY <1>1, <2>3, <2>4 DEF Receive, CenterInv, TypeOK
    <2>6. /\ items'[t] = IF r.kind = "list" THEN r.answer
                         ELSE Patched(items[t], MarkedBy(r))
          /\ recent'[t] = IF r.kind = "recent" THEN r.answer
                          ELSE Patched(recent[t], MarkedBy(r))
        BY <1>1, <2>3, <2>5 DEF Receive, CenterInv, TypeOK
    <2>7. items[t] \in List /\ recent[t] \in List
        BY <1>1 DEF CenterInv, TypeOK
    <2>8. ~(r.kind \in {"list", "recent"} /\ r.answer[e] = "read")
        BY <1>1, <2>4 DEF TrueAnswer
    <2>9. e \in MarkedBy(r)
        BY <1>1, <2>6, <2>7, <2>8, PatchedType
    <2>10. r.kind = "markAll"
        BY <1>1, <2>4, <2>9 DEF MarkedBy, TrueAnswer
    <2>11. r.user = Recipient[e] => r.answer[e] = "absent"
        BY <1>1, <2>4, <2>10 DEF TrueAnswer
    <2> QED
        BY <2>4, <2>5, <2>10, <2>11
<1>2. CenterInv /\ [Next]_vars =>
         [\A t \in Tab, e \in Event :
             /\ rows'[e] # "read"
             /\ \/ items[t][e] # "read" /\ items'[t][e] = "read"
                \/ recent[t][e] # "read" /\ recent'[t][e] = "read"
             => NotCovered(t, e)]_vars
    BY <1>1
<1> QED
    BY <1>2, CenterInvariant, PTL DEF Spec, ShownReadIsRead

=============================================================================
