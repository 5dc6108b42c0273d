----------------------------- MODULE RateLimiter -----------------------------
(* The rate limiter of the HTTP layer, internal/middleware/rate_limiter.go: *)
(* one table of fixed windows, a window for each client address, shared by  *)
(* the middleware of the login endpoints and the middleware of all others.  *)
(*                                                                          *)
(* A goroutine reads the clock (Arrive) before it takes the mutex, and does *)
(* the rest under the mutex (Count), so what it compares with the windows   *)
(* is a moment that has passed.                                             *)
EXTENDS Integers, FiniteSets

CONSTANTS
    Address,      \* client addresses
    Watched,      \* those whose history the properties look at
    Goroutine,    \* requests served at the same time
    Limit,        \* the configured limit of each class of endpoints
    Minute,       \* the length of a window, in ticks
    MaxDelay,     \* bound: ticks from reading the clock to having the mutex
    MaxWindows,   \* size of the table above which expired windows are purged
    Horizon,      \* bound: the last tick of the model
    None          \* no window, no request

Class == {"auth", "api"}

ASSUME WatchedAssumption == Watched \subseteq Address

\* The configuration refuses limits that are not positive (config.go:78).
ASSUME LimitAssumption == Limit \in [Class -> Nat \ {0}]

\* A goroutine waits for the mutex far less than a minute.
ASSUME ClockAssumption ==
    /\ Minute \in Nat \ {0}
    /\ MaxDelay \in 0 .. Minute - 1
    /\ MaxWindows \in Nat
    /\ Horizon \in Nat

VARIABLES
    now,          \* the clock
    requests,     \* limiter.requests: the window of each address
    arriving,     \* the request of each goroutine, with the clock as it was read
    passed        \* history: the requests of watched addresses that were let
                  \* through, as far back as properties look

vars == <<now, requests, arriving, passed>>

Time == 0 .. Horizon

\* The ticks whose history is kept at the moment t.
Recent(t) == {u \in Time : t - Minute - MaxDelay <= u /\ u <= t}

Highest == IF Limit["auth"] > Limit["api"] THEN Limit["auth"] ELSE Limit["api"]

\* Beyond both limits a count makes no difference: it stops at Highest + 1.
Window == [count : 0 .. Highest + 1, resetAt : Minute .. Horizon + Minute]
Request == [ip : Address, class : Class, at : Time]

\* A request that was let through: the end of the window it was counted in, and
\* the count it brought that window to. Both together tell requests apart.
Pass == [ip : Watched, class : Class, at : Time,
         window : Minute .. Horizon + Minute, place : 1 .. Highest]

ASSUME NoneAssumption == None \notin Window \cup Request

Init ==
    /\ now = 0
    /\ requests = [ip \in Address |-> None]
    /\ arriving = [g \in Goroutine |-> None]
    /\ passed = {}

(****************************************************************************)
(* The windows.                                                             *)
(****************************************************************************)

\* now.After(w.resetAt): the window is over at the moment t.
Over(w, t) == t > w.resetAt

\* Faulty: the window ends when it starts.
NewWindow_Closed(t) == [count |-> 0, resetAt |-> t]

NewWindow(t) == [count |-> 0, resetAt |-> t + Minute]

\* The addresses that have a window in table.
Known(table) == {ip \in DOMAIN table : table[ip] # None}

\* Faulty: windows are deleted for having been opened before t.
Purge_Started(table, t) ==
    [ip \in DOMAIN table |->
        IF table[ip] # None /\ t > table[ip].resetAt - Minute THEN None
        ELSE table[ip]]

\* Faulty: nothing is ever deleted.
Purge_Nothing(table, t) == table

\* Every window that is over at t is deleted.
Purge(table, t) ==
    [ip \in DOMAIN table |->
        IF table[ip] # None /\ Over(table[ip], t) THEN None ELSE table[ip]]

\* The table with a new window for ip, opened at t.
Opened(ip, t) ==
    LET table == [requests EXCEPT ![ip] = NewWindow(t)] IN
    IF Cardinality(Known(table)) > MaxWindows THEN Purge(table, t) ELSE table

\* Faulty: every request opens a window.
Current_Always(r) == Opened(r.ip, r.at)

\* The table in which the request r is to be counted.
Current(r) ==
    IF requests[r.ip] = None \/ Over(requests[r.ip], r.at)
    THEN Opened(r.ip, r.at)
    ELSE requests

\* The table after the request is counted.
Counted(r) ==
    [Current(r) EXCEPT ![r.ip].count =
        IF @ > Highest THEN @ ELSE @ + 1]

(****************************************************************************)
(* Requests.                                                                *)
(****************************************************************************)

\* The middleware is entered: c.ClientIP() and time.Now().
Arrive(g, ip, class) ==
    /\ arriving[g] = None
    /\ arriving' = [arriving EXCEPT
                       ![g] = [ip |-> ip, class |-> class, at |-> now]]
    /\ UNCHANGED <<now, requests, passed>>

\* The critical section, and whether the handler is called. The two groups of
\* routes differ in the limit only.
Count(g) ==
    /\ arriving[g] # None
    /\ LET r == arriving[g]
           w == Counted(r)[r.ip] IN
       /\ requests' = Counted(r)
       /\ IF w.count > Limit[r.class] \/ r.ip \notin Watched
          THEN UNCHANGED passed
          ELSE passed' = passed \cup
                  {[ip |-> r.ip, class |-> r.class, at |-> r.at,
                    window |-> w.resetAt, place |-> w.count]}
    /\ arriving' = [arriving EXCEPT ![g] = None]
    /\ UNCHANGED now

\* Time passes. A goroutine does not wait longer than MaxDelay for the mutex.
Tick ==
    /\ now < Horizon
    /\ \A g \in Goroutine :
          arriving[g] # None => now - arriving[g].at < MaxDelay
    /\ now' = now + 1
    /\ passed' = {p \in passed : p.at \in Recent(now')}
    /\ UNCHANGED <<requests, arriving>>

Next ==
    \/ Tick
    \/ \E g \in Goroutine :
          \/ \E ip \in Address, class \in Class : Arrive(g, ip, class)
          \/ Count(g)

Spec == Init /\ [][Next]_vars

-----------------------------------------------------------------------------
(****************************************************************************)
(* Properties.                                                              *)
(****************************************************************************)

\* Windows in the table have counted a request, and end at most a minute from
\* now; a goroutine's clock is not older than MaxDelay (rate_limiter.go:34-49).
TypeOK ==
    /\ now \in Time
    /\ requests \in [Address -> Window \cup {None}]
    /\ arriving \in [Goroutine -> Request \cup {None}]
    /\ passed \subseteq Pass
    /\ \A ip \in Known(requests) : /\ requests[ip].count > 0
                                  /\ requests[ip].resetAt <= now + Minute
    /\ \A g \in Goroutine : arriving[g] # None =>
          arriving[g].at \in now - MaxDelay .. now

\* The requests from ip of one of the classes that arrived in the ticks of I
\* and passed.
PassedIn(ip, classes, I) ==
    {p \in passed : p.ip = ip /\ p.class \in classes /\ p.at \in I}

\* The minute that starts at t, as far as the model's clock goes.
MinuteFrom(t) == {u \in Time : t <= u /\ u <= t + Minute}

\* How many windows of one address the requests of a minute can be counted in:
\* they end within 2 * Minute + MaxDelay ticks of the start of that minute, and at
\* least Minute + 1 - MaxDelay ticks apart. That is two when the clock is read
\* under the mutex, three when goroutines are at most a little late: one opens a
\* window again in the past after a purge, or its request of this minute is
\* counted in a window opened later.
WindowsMet == (2 * Minute + MaxDelay) \div (Minute + 1 - MaxDelay) + 1

\* The most that passes in a minute under a limit: one place less than those
\* windows have, because the earliest of as many windows was opened by a request
\* from before that minute.
Most(limit) == WindowsMet * limit - 1

\* Windows are fixed, goroutines late and windows purged, and still no address
\* gets more than about twice, with late goroutines three times, a limit through
\* in any minute: not of the requests that limit is for, and not of all
\* requests together (rate_limiter.go:34-50).
RateBounded ==
    \A ip \in Watched, t \in Time :
        /\ \A c \in Class :
              Cardinality(PassedIn(ip, {c}, MinuteFrom(t))) <= Most(Limit[c])
        /\ Cardinality(PassedIn(ip, Class, MinuteFrom(t))) <= Most(Highest)

\* "RateLimit caps requests per IP at maxRequests per minute"
\* (rate_limiter.go:27): in no minute, its end left out, more requests of a class
\* pass than its limit.  Windows are fixed: the minute around the end of one gets
\* what is left of it and the whole of the next, so this is violated.
MinuteLimit ==
    \A ip \in Watched, c \in Class, t \in Time :
        Cardinality(PassedIn(ip, {c}, {u \in Time : t <= u /\ u < t + Minute})) <= Limit[c]

\* A window that is not over keeps its end and what it has counted, whatever
\* other addresses do to the table and however late they are, and counts
\* requests of its own address only: nobody gets a fresh window before its
\* time, nobody pays for what others send (rate_limiter.go:37-49).
LiveWindowsStay ==
    [][\A ip \in Known(requests) :
          ~Over(requests[ip], now) =>
              /\ requests'[ip] # None
              /\ requests'[ip].resetAt = requests[ip].resetAt
              /\ requests'[ip].count >= requests[ip].count
              /\ requests'[ip].count > requests[ip].count =>
                    \E g \in Goroutine : /\ arriving[g] # None
                                         /\ arriving[g].ip = ip
                                         /\ arriving'[g] = None]_vars

\* The request of g, from a watched address, is refused in this step.
Refused(g) ==
    /\ arriving[g] # None
    /\ arriving[g].ip \in Watched
    /\ arriving'[g] = None
    /\ requests'[arriving[g].ip].count > Limit[arriving[g].class]

\* The table does not keep growing: when it holds more than MaxWindows windows,
\* they all belong to addresses seen within about a minute of one another
\* (rate_limiter.go:41).
TableBounded ==
    Cardinality(Known(requests)) > MaxWindows =>
        \A i, j \in Known(requests) :
            requests[i].resetAt - requests[j].resetAt <= Minute + MaxDelay

\* The table of settings (README.md:103) gives login and the other endpoints
\* a limit each, in requests per minute and address: a request is refused only
\* if that many requests of its own class passed in the last minute.
\* The code counts both in one window (rate_limiter.go:25): violated.
OwnLimit ==
    [][\A g \in Goroutine : Refused(g) =>
          LET r == arriving[g] IN
          Cardinality(PassedIn(r.ip, {r.class},
                               {u \in Time : r.at - Minute <= u /\ u <= now}))
              >= Limit[r.class]]_vars

=============================================================================
