-------------------------- MODULE RateLimiterProofs --------------------------
(* Theorems about RateLimiter, for any number of addresses and goroutines,  *)
(* any limits and any length of a minute.                                   *)
EXTENDS RateLimiter, FiniteSetTheorems, TLAPS

-----------------------------------------------------------------------------
(****************************************************************************)
(* The table.                                                               *)
(****************************************************************************)

LEMMA HighestIsLimit == Highest \in Nat \ {0}
BY LimitAssumption DEF Highest, Class

LEMMA NewWindowIsWindow ==
    ASSUME NEW t \in Time
    PROVE  NewWindow(t) \in Window /\ NewWindow(t) # None
BY HighestIsLimit, ClockAssumption, NoneAssumption DEF NewWindow, Window, Time

\* The table in which a request is counted: its own window is in force at the
\* request's moment; every other window is as it was or, if it was over then,
\* gone. A table with more than MaxWindows windows that is not the old one has
\* none that is over.
LEMMA CurrentTable ==
    ASSUME TypeOK, NEW r \in Request
    PROVE  LET table == Current(r)
           IN /\ table \in [Address -> Window \cup {None}]
              /\ \/ table = requests
                 \/ table[r.ip] = NewWindow(r.at)
              /\ table[r.ip] # None
              /\ requests[r.ip] # None /\ ~Over(requests[r.ip], r.at) =>
                    table = requests
              /\ requests[r.ip] = None \/ Over(requests[r.ip], r.at) =>
                    table[r.ip] = NewWindow(r.at)
              /\ \A ip \in Address \ {r.ip} :
                    \/ table[ip] = requests[ip]
                    \/ /\ table[ip] = None
                       /\ Over(requests[ip], r.at)
              /\ \/ table = requests
                 \/ ~(Cardinality(Known(table)) > MaxWindows)
                 \/ \A ip \in Address \ {r.ip} :
                       table[ip] # None => ~Over(table[ip], r.at)
<1> DEFINE new == [requests EXCEPT ![r.ip] = NewWindow(r.at)]
           purged == Purge(new, r.at)
<1>1. /\ requests \in [Address -> Window \cup {None}]
      /\ r.ip \in Address
      /\ r.at \in Time
  BY DEF TypeOK, Request
<1>2. NewWindow(r.at) \in Window /\ NewWindow(r.at) # None
  BY <1>1, NewWindowIsWindow
<1>3. /\ new \in [Address -> Window \cup {None}]
      /\ new[r.ip] = NewWindow(r.at)
      /\ \A ip \in Address \ {r.ip} : new[ip] = requests[ip]
  BY <1>1, <1>2
<1>4. /\ purged \in [Address -> Window \cup {None}]
      /\ purged[r.ip] = NewWindow(r.at)
      /\ \A ip \in Address \ {r.ip} :
            purged[ip] = IF requests[ip] # None /\ Over(requests[ip], r.at)
                         THEN None ELSE requests[ip]
  <2>1. ~Over(NewWindow(r.at), r.at)
    BY <1>1, ClockAssumption DEF Over, NewWindow, Time
  <2> QED
    BY <1>1, <1>2, <1>3, <2>1 DEF Purge
<1> HIDE DEF new, purged
<1>5. Opened(r.ip, r.at) =
        IF Cardinality(Known(new)) > MaxWindows THEN purged ELSE new
  BY DEF Opened, new, purged
<1>6. CASE requests[r.ip] = None \/ Over(requests[r.ip], r.at)
  <2>1. Current(r) = Opened(r.ip, r.at)
    BY <1>6 DEF Current
  <2>2. CASE Cardinality(Known(new)) > MaxWindows
    <3>1. Current(r) = purged
      BY <2>1, <2>2, <1>5
    <3> QED
      BY <3>1, <1>2, <1>4, <1>6
  <2>3. CASE ~(Cardinality(Known(new)) > MaxWindows)
    <3>1. Current(r) = new
      BY <2>1, <2>3, <1>5
    <3> QED
      BY <3>1, <1>2, <1>3, <1>6, <2>3
  <2> QED
    BY <2>2, <2>3
<1>7. CASE requests[r.ip] # None /\ ~Over(requests[r.ip], r.at)
  <2>1. Current(r) = requests
    BY <1>7 DEF Current
  <2> QED
    BY <2>1, <1>1, <1>7
<1> QED
  BY <1>6, <1>7

\* Counting adds to the request's own window only.
LEMMA CountedTable ==
    ASSUME TypeOK, NEW r \in Request
    PROVE  LET old == Current(r)
               table == Counted(r)
           IN /\ table \in [Address -> Window \cup {None}]
              /\ Known(table) = Known(old)
              /\ \A ip \in Address \ {r.ip} : table[ip] = old[ip]
              /\ table[r.ip] \in Window
              /\ table[r.ip].resetAt = old[r.ip].resetAt
              /\ table[r.ip].count >= old[r.ip].count
              /\ table[r.ip].count > 0
              /\ table[r.ip].count <= Highest =>
                    table[r.ip].count = old[r.ip].count + 1
<1> DEFINE old == Current(r)
           table == Counted(r)
           w == old[r.ip]
           counted == [w EXCEPT !.count = IF @ > Highest THEN @ ELSE @ + 1]
<1>1. /\ old \in [Address -> Window \cup {None}]
      /\ w # None
      /\ r.ip \in Address
  BY CurrentTable DEF Request
<1>2. w \in Window
  BY <1>1
<1>3. /\ counted \in Window
      /\ counted.resetAt = w.resetAt
      /\ counted.count >= w.count
      /\ counted.count > 0
      /\ counted.count <= Highest => counted.count = w.count + 1
  BY <1>2, HighestIsLimit DEF Window
<1>4. table = [old EXCEPT ![r.ip] = counted]
  BY <1>1, <1>2 DEF Counted, Window
<1> HIDE DEF old, counted, table
<1>5. /\ table \in [Address -> Window \cup {None}]
      /\ table[r.ip] = counted
      /\ \A ip \in Address \ {r.ip} : table[ip] = old[ip]
  BY <1>1, <1>3, <1>4
<1>6. counted # None
  BY <1>3, NoneAssumption
<1>7. Known(table) = Known(old)
  BY <1>1, <1>5, <1>6 DEF Known, w
<1> QED
  BY <1>3, <1>5, <1>7 DEF old, table, w

\* What Count does to the history: nothing, or it adds the request with the
\* window it was counted in and its place there.
LEMMA PassingCount ==
    ASSUME TypeOK, NEW g \in Goroutine, Count(g)
    PROVE  LET r == arriving[g]
               w == Counted(r)[r.ip]
           IN /\ r \in Request
              /\ w \in Window
              /\ \/ passed' = passed
                 \/ /\ r.ip \in Watched
                    /\ w.count <= Limit[r.class]
                    /\ w.count \in 1 .. Highest
                    /\ w.count = Current(r)[r.ip].count + 1
                    /\ passed' = passed \cup
                          {[ip |-> r.ip, class |-> r.class, at |-> r.at,
                            window |-> w.resetAt, place |-> w.count]}
<1> DEFINE r == arriving[g]
           w == Counted(r)[r.ip]
<1>1. r \in Request
  BY DEF TypeOK, Count
<1>2. w \in Window /\ w.count \in Nat /\ w.count > 0
  BY <1>1, CountedTable, HighestIsLimit DEF Window
<1>3. w.count <= Highest => w.count = Current(r)[r.ip].count + 1
  BY <1>1, CountedTable
<1>4. Limit[r.class] \in Nat /\ Limit[r.class] <= Highest
  BY <1>1, LimitAssumption DEF Request, Class, Highest
<1>5. CASE w.count > Limit[r.class] \/ r.ip \notin Watched
  BY <1>1, <1>2, <1>5 DEF Count
<1>6. CASE ~(w.count > Limit[r.class] \/ r.ip \notin Watched)
  <2>1. w.count <= Limit[r.class] /\ w.count \in 1 .. Highest
    BY <1>2, <1>4, <1>6, HighestIsLimit
  <2> QED
    BY <1>1, <1>2, <1>3, <1>6, <2>1 DEF Count
<1> QED
  BY <1>5, <1>6

-----------------------------------------------------------------------------
(****************************************************************************)
(* The type invariant.                                                      *)
(****************************************************************************)

LEMMA TypeInit == Init => TypeOK
<1> SUFFICES ASSUME Init PROVE TypeOK
  OBVIOUS
<1>1. now \in Time
  BY ClockAssumption DEF Init, Time
<1> QED
  BY <1>1 DEF Init, TypeOK, Known

LEMMA TypeArrive ==
    ASSUME TypeOK, NEW g \in Goroutine, NEW ip \in Address, NEW class \in Class,
           Arrive(g, ip, class)
    PROVE  TypeOK'
<1> DEFINE r == [ip |-> ip, class |-> class, at |-> now]
<1>1. r \in Request
  BY DEF TypeOK, Request
<1>2. arriving' = [arriving EXCEPT ![g] = r]
  BY DEF Arrive
<1>3. now \in Int /\ MaxDelay \in Nat
  BY ClockAssumption DEF TypeOK, Time
<1>4. r.at \in now - MaxDelay .. now
  BY <1>3
<1> HIDE DEF r
<1> QED
  BY <1>1, <1>2, <1>4 DEF TypeOK, Arrive, Known

LEMMA TypeCount ==
    ASSUME TypeOK, NEW g \in Goroutine, Count(g)
    PROVE  TypeOK'
<1> DEFINE r == arriving[g]
<1>1. r \in Request /\ r.at <= now /\ r.at \in Int /\ now \in Int
  BY ClockAssumption DEF TypeOK, Count, Request, Time
<1>2. requests' = Counted(r)
  BY DEF Count
<1>3. requests' \in [Address -> Window \cup {None}]
  BY <1>1, <1>2, CountedTable
<1>4. ASSUME NEW ip \in Known(requests')
      PROVE  requests'[ip].count > 0 /\ requests'[ip].resetAt <= now + Minute
  <2>1. ip \in Address /\ requests'[ip] # None
    BY <1>3 DEF Known
  <2>2. CASE ip = r.ip
    <3>1. requests'[ip].count > 0 /\ requests'[ip].resetAt = Current(r)[ip].resetAt
      BY <1>1, <1>2, <2>2, CountedTable
    <3>2. CASE Current(r) = requests
      <4>1. ip \in Known(requests)
        BY <1>1, <2>1, <2>2, <3>2, CurrentTable DEF Known, TypeOK
      <4> QED
        BY <3>1, <3>2, <4>1 DEF TypeOK
    <3>3. CASE Current(r)[ip] = NewWindow(r.at)
      BY <1>1, <3>1, <3>3, ClockAssumption DEF NewWindow
    <3> QED
      BY <1>1, <2>2, <3>2, <3>3, CurrentTable
  <2>3. CASE ip # r.ip
    <3>1. requests'[ip] = requests[ip]
      BY <1>1, <1>2, <2>1, <2>3, CountedTable, CurrentTable
    <3>2. ip \in Known(requests)
      BY <2>1, <3>1 DEF Known, TypeOK
    <3> QED
      BY <3>1, <3>2 DEF TypeOK
  <2> QED
    BY <2>2, <2>3
<1>5. arriving' \in [Goroutine -> Request \cup {None}]
  BY DEF Count, TypeOK
<1>6. passed' \subseteq Pass
  <2>1. CASE passed' = passed
    BY <2>1 DEF TypeOK
  <2>2. CASE passed' # passed
    <3> DEFINE w == Counted(r)[r.ip]
    <3>1. r.ip \in Watched /\ w.count <= Limit[r.class]
      BY <1>1, <2>2, LimitAssumption, PassingCount DEF Count, Request
    <3>2. /\ passed' = passed \cup
                {[ip |-> r.ip, class |-> r.class, at |-> r.at,
                  window |-> w.resetAt, place |-> w.count]}
          /\ w.count \in 1 .. Highest
          /\ w.resetAt \in Minute .. Horizon + Minute
      BY <1>1, <2>2, PassingCount DEF Count, Window
    <3>3. r.class \in Class /\ r.at \in Time
      BY <1>1 DEF Request
    <3> HIDE DEF w
    <3> QED
      BY <3>1, <3>2, <3>3 DEF TypeOK, Pass
  <2> QED
    BY <2>1, <2>2
<1>7. now' = now /\ \A h \in Goroutine : arriving'[h] # None =>
                                         arriving'[h] = arriving[h]
  BY DEF Count, TypeOK
<1> QED
  BY <1>3, <1>4, <1>5, <1>6, <1>7 DEF TypeOK

LEMMA TypeTick ==
    ASSUME TypeOK, Tick
    PROVE  TypeOK'
<1>1. /\ now \in Nat /\ now' = now + 1 /\ now' \in Time
      /\ requests' = requests /\ arriving' = arriving
      /\ Minute \in Nat /\ MaxDelay \in Nat
  BY ClockAssumption DEF TypeOK, Tick, Time
<1>2. passed' \subseteq Pass
  BY DEF Tick, TypeOK
<1>3. ASSUME NEW ip \in Known(requests)
      PROVE  requests[ip].count > 0 /\ requests[ip].resetAt <= now' + Minute
  <2>1. requests[ip] \in Window
    BY DEF Known, TypeOK
  <2> QED
    BY <1>1, <2>1, ClockAssumption DEF TypeOK, Window
<1>4. ASSUME NEW g \in Goroutine, arriving[g] # None
      PROVE  arriving[g].at \in now' - MaxDelay .. now'
  <2>1. arriving[g].at \in now - MaxDelay .. now /\ now - arriving[g].at < MaxDelay
    BY <1>4 DEF TypeOK, Tick
  <2> QED
    BY <1>1, <2>1
<1> QED
  BY <1>1, <1>2, <1>3, <1>4 DEF TypeOK

LEMMA TypeNext == TypeOK /\ [Next]_vars => TypeOK'
<1> SUFFICES ASSUME TypeOK, [Next]_vars PROVE TypeOK'
  OBVIOUS
<1>1. CASE Tick
  BY <1>1, TypeTick
<1>2. ASSUME NEW g \in Goroutine, NEW ip \in Address, NEW class \in Class,
             Arrive(g, ip, class)
      PROVE  TypeOK'
  BY <1>2, TypeArrive
<1>3. ASSUME NEW g \in Goroutine, Count(g)
      PROVE  TypeOK'
  BY <1>3, TypeCount
<1>4. CASE UNCHANGED vars
  BY <1>4 DEF TypeOK, vars, Known
<1> QED
  BY <1>1, <1>2, <1>3, <1>4 DEF Next

\* Windows have counted a request and end at most a minute from now.
THEOREM LimiterTypeCorrect == Spec => []TypeOK
BY TypeInit, TypeNext, PTL DEF Spec

-----------------------------------------------------------------------------
(****************************************************************************)
(* Windows in force stay.                                                   *)
(****************************************************************************)

LEMMA CountKeepsLiveWindows ==
    ASSUME TypeOK, NEW g \in Goroutine, Count(g),
           NEW ip \in Known(requests), ~Over(requests[ip], now)
    PROVE  /\ requests'[ip] # None
           /\ requests'[ip].resetAt = requests[ip].resetAt
           /\ requests'[ip].count >= requests[ip].count
           /\ requests'[ip].count > requests[ip].count => arriving[g].ip = ip
<1> DEFINE r == arriving[g]
<1>1. r \in Request /\ r.at <= now /\ r.at \in Int /\ now \in Int
  BY ClockAssumption DEF TypeOK, Count, Request, Time
<1>2. requests' = Counted(r)
  BY DEF Count
<1>3. ip \in Address /\ requests[ip] # None /\ requests[ip] \in Window
  BY DEF Known, TypeOK
\* The window is not over for a goroutine that has read the clock earlier.
<1>4. ~Over(requests[ip], r.at)
  BY <1>1, <1>3, ClockAssumption DEF Over, Window
<1>5. CASE ip = r.ip
  <2>1. Current(r) = requests
    BY <1>1, <1>3, <1>4, <1>5, CurrentTable
  <2>2. /\ requests'[ip] \in Window
        /\ requests'[ip].resetAt = requests[ip].resetAt
        /\ requests'[ip].count >= requests[ip].count
    BY <1>1, <1>2, <1>5, <2>1, CountedTable
  <2> QED
    BY <2>2, <1>5, NoneAssumption
<1>6. CASE ip # r.ip
  <2>1. requests'[ip] = requests[ip]
    BY <1>1, <1>2, <1>3, <1>4, <1>6, CountedTable, CurrentTable
  <2> QED
    BY <2>1, <1>3, <1>6 DEF Window
<1> QED
  BY <1>5, <1>6

\* A window in force keeps its end and its count, and counts its own address
\* only (LiveWindowsStay), for any number of late goroutines.
THEOREM LiveWindowsAreKept == Spec => LiveWindowsStay
<1> DEFINE Kept ==
      \A ip \in Known(requests) :
          ~Over(requests[ip], now) =>
              /\ requests'[ip] # None
              /\ requests'[ip].resetAt = requests[ip].resetAt
              /\ requests'[ip].count >= requests[ip].count
              /\ requests'[ip].count > requests[ip].count =>
                    \E g \in Goroutine : /\ arriving[g] # None
                                         /\ arriving[g].ip = ip
                                         /\ arriving'[g] = None
<1>1. TypeOK /\ [Next]_vars => [Kept]_vars
  <2> SUFFICES ASSUME TypeOK, Next PROVE Kept
    OBVIOUS
  <2>1. ASSUME requests' = requests PROVE Kept
    BY <2>1 DEF TypeOK, Known, Window
  <2>2. ASSUME NEW g \in Goroutine, Count(g) PROVE Kept
    <3>1. arriving[g] # None /\ arriving'[g] = None
      BY <2>2 DEF Count, TypeOK
    <3> QED
      BY <2>2, <3>1, CountKeepsLiveWindows
  <2>3. CASE Tick
    BY <2>1, <2>3 DEF Tick
  <2>4. ASSUME NEW g \in Goroutine, NEW ip \in Address, NEW class \in Class,
               Arrive(g, ip, class)
        PROVE  Kept
    BY <2>1, <2>4 DEF Arrive
  <2> QED
    BY <2>2, <2>3, <2>4 DEF Next
<1> QED
  BY <1>1, LimiterTypeCorrect, PTL DEF Spec, LiveWindowsStay

-----------------------------------------------------------------------------
(****************************************************************************)
(* The size of the table.                                                   *)
(****************************************************************************)

LEMMA CountKeepsTableBounded ==
    ASSUME TypeOK, TableBounded, NEW g \in Goroutine, Count(g)
    PROVE  TableBounded'
<1> DEFINE r == arriving[g]
<1>1. r \in Request /\ r.at \in now - MaxDelay .. now /\ now \in Int
  BY ClockAssumption DEF TypeOK, Count, Time
<1>2. requests' = Counted(r) /\ now' = now
  BY DEF Count
<1>3. SUFFICES ASSUME Cardinality(Known(requests')) > MaxWindows,
                      NEW i \in Known(requests'), NEW j \in Known(requests')
               PROVE  requests'[i].resetAt - requests'[j].resetAt
                        <= Minute + MaxDelay
  BY DEF TableBounded
<1>4. /\ Known(requests') = Known(Current(r))
      /\ \A ip \in Address : Current(r)[ip] # None =>
            requests'[ip].resetAt = Current(r)[ip].resetAt
  BY <1>1, <1>2, CountedTable
<1>5. Current(r) \in [Address -> Window \cup {None}]
  BY <1>1, CurrentTable
<1>6. /\ i \in Known(Current(r)) /\ j \in Known(Current(r))
      /\ i \in Address /\ j \in Address
      /\ requests'[i].resetAt = Current(r)[i].resetAt
      /\ requests'[j].resetAt = Current(r)[j].resetAt
  BY <1>4, <1>5 DEF Known
<1>7. CASE Current(r) = requests
  BY <1>3, <1>4, <1>6, <1>7 DEF TableBounded
<1>8. CASE Current(r) # requests
  <2>1. Current(r)[r.ip] = NewWindow(r.at)
    BY <1>1, <1>8, CurrentTable
  <2>2. \A ip \in Address \ {r.ip} :
          Current(r)[ip] # None => ~Over(Current(r)[ip], r.at)
    BY <1>1, <1>3, <1>4, <1>8, CurrentTable
  <2>3. requests'[j].resetAt >= r.at
    <3>1. CASE j = r.ip
      BY <1>1, <1>6, <2>1, <3>1, ClockAssumption DEF NewWindow
    <3>2. CASE j # r.ip
      <4>1. Current(r)[j] \in Window /\ ~Over(Current(r)[j], r.at)
        BY <1>5, <1>6, <2>2, <3>2 DEF Known
      <4> QED
        BY <1>1, <1>6, <4>1, ClockAssumption DEF Over, Window
    <3> QED
      BY <3>1, <3>2
  <2>4. requests'[i].resetAt <= now + Minute
    BY <1>2, TypeCount DEF TypeOK
  <2>5. requests'[i].resetAt \in Int /\ requests'[j].resetAt \in Int
    BY <1>5, <1>6, ClockAssumption DEF Known, Window
  <2> QED
    BY <1>1, <2>3, <2>4, <2>5, ClockAssumption
<1> QED
  BY <1>7, <1>8

\* A table above the purging size holds windows of one minute or so
\* (TableBounded): expired ones do not pile up.
THEOREM TableStaysBounded == Spec => []TableBounded
<1>1. Init => TableBounded
  BY DEF Init, TableBounded, Known
<1>2. TypeOK /\ TableBounded /\ [Next]_vars => TableBounded'
  <2> SUFFICES ASSUME TypeOK, TableBounded, [Next]_vars PROVE TableBounded'
    OBVIOUS
  <2>1. ASSUME requests' = requests PROVE TableBounded'
    BY <2>1 DEF TableBounded
  <2>2. ASSUME NEW g \in Goroutine, Count(g) PROVE TableBounded'
    BY <2>2, CountKeepsTableBounded
  <2> QED
    BY <2>1, <2>2 DEF Next, Tick, Arrive, vars
<1> QED
  BY <1>1, <1>2, LimiterTypeCorrect, PTL DEF Spec

-----------------------------------------------------------------------------
(****************************************************************************)
(* The requests that pass, and the windows they are counted in.             *)
(****************************************************************************)

\* Two windows of one address end at least this far apart.
Gap == Minute + 1 - MaxDelay

\* A request that passed has a place in a window that was not over when it
\* arrived, and arrived at most MaxDelay before the window was opened; who has
\* the first place has opened the window.
PassesFitWindows ==
    \A p \in passed :
        /\ p.place <= Limit[p.class]
        /\ p.window - Minute - MaxDelay <= p.at
        /\ p.at <= p.window
        /\ p.place = 1 => p.at = p.window - Minute

\* The requests of an address that passed in one window have places of their
\* own; two windows of an address are apart.
PassesAreApart ==
    \A p, q \in passed :
        p.ip = q.ip =>
            \/ p.window = q.window /\ (p.place = q.place => p = q)
            \/ p.window + Gap <= q.window
            \/ q.window + Gap <= p.window

\* The window of an address that is in the table is the last one it had, and has
\* counted all that passed in it; if there is none, all it had are over.
TableIsLatest ==
    \A p \in passed :
        \/ requests[p.ip] = None /\ p.window < now
        \/ /\ requests[p.ip] # None
           /\ \/ /\ p.window = requests[p.ip].resetAt
                 /\ p.place <= requests[p.ip].count
              \/ p.window + Gap <= requests[p.ip].resetAt

HistoryInv == PassesFitWindows /\ PassesAreApart /\ TableIsLatest

LEMMA GapIsPositive == Gap \in Nat \ {0} /\ Gap <= Minute + 1
BY ClockAssumption DEF Gap

LEMMA PassTypes ==
    ASSUME NEW p \in Pass
    PROVE  /\ p.ip \in Watched /\ p.ip \in Address
           /\ p.class \in Class
           /\ p.at \in Int /\ p.window \in Int /\ p.place \in Int
           /\ p.place >= 1 /\ p.place <= Highest
BY HighestIsLimit, ClockAssumption, WatchedAssumption DEF Pass, Time

\* The window a request is counted in is not over for it and was not opened long
\* after it, is opened by it if it is the first one counted, and is the latest
\* one of the address, with all that passed in it counted.
LEMMA WindowOfCount ==
    ASSUME TypeOK, HistoryInv, NEW g \in Goroutine, Count(g)
    PROVE  LET r == arriving[g]
               old == Current(r)[r.ip]
               w == Counted(r)[r.ip]
           IN /\ w.resetAt - Minute - MaxDelay <= r.at
              /\ r.at <= w.resetAt
              /\ old.count = 0 => r.at = w.resetAt - Minute
              /\ \A p \in passed :
                    p.ip = r.ip =>
                       \/ p.window = w.resetAt /\ p.place <= old.count
                       \/ p.window + Gap <= w.resetAt
<1> DEFINE r == arriving[g]
           old == Current(r)[r.ip]
           w == Counted(r)[r.ip]
<1>1. /\ r \in Request /\ r.ip \in Address
      /\ r.at \in Int /\ now \in Int /\ r.at <= now /\ now <= r.at + MaxDelay
      /\ Minute \in Int /\ MaxDelay \in Int /\ 0 <= MaxDelay
  BY ClockAssumption DEF TypeOK, Count, Request, Time
<1>2. w.resetAt = old.resetAt
  BY <1>1, CountedTable
<1>3. \A p \in passed : p.window \in Int /\ p.place \in Int
  BY PassTypes DEF TypeOK
<1>4. CASE requests[r.ip] # None /\ ~Over(requests[r.ip], r.at)
  <2>1. old = requests[r.ip] /\ r.ip \in Known(requests)
    BY <1>1, <1>4, CurrentTable DEF Known, TypeOK
  <2>2. old \in Window /\ old.count > 0 /\ old.resetAt <= now + Minute
    BY <1>1, <1>4, <2>1 DEF TypeOK
  <2>3. old.resetAt \in Int /\ r.at <= old.resetAt
    BY <1>1, <1>4, <2>1, <2>2, ClockAssumption DEF Over, Window
  <2>4. \A p \in passed : p.ip = r.ip =>
           \/ p.window = old.resetAt /\ p.place <= old.count
           \/ p.window + Gap <= old.resetAt
    BY <1>4, <2>1 DEF HistoryInv, TableIsLatest
  <2> QED
    BY <1>1, <1>2, <2>2, <2>3, <2>4
<1>5. CASE requests[r.ip] = None \/ Over(requests[r.ip], r.at)
  <2>1. old = NewWindow(r.at)
    BY <1>1, <1>5, CurrentTable
  <2>2. old.resetAt = r.at + Minute
    BY <2>1 DEF NewWindow
  <2>3. ASSUME NEW p \in passed, p.ip = r.ip
        PROVE  p.window + Gap <= old.resetAt
    <3>1. CASE requests[r.ip] = None
      <4>1. p.window < now
        BY <2>3, <3>1 DEF HistoryInv, TableIsLatest
      <4> QED
        BY <1>1, <1>3, <2>2, <4>1 DEF Gap
    <3>2. CASE requests[r.ip] # None
      <4>1. requests[r.ip].resetAt \in Int /\ requests[r.ip].resetAt < r.at
        BY <1>1, <1>5, <3>2, ClockAssumption DEF Over, TypeOK, Window
      <4>2. p.window <= requests[r.ip].resetAt
        BY <1>3, <2>3, <3>2, <4>1, GapIsPositive DEF HistoryInv, TableIsLatest
      <4> QED
        BY <1>1, <1>3, <2>2, <4>1, <4>2 DEF Gap
    <3> QED
      BY <3>1, <3>2
  <2>4. /\ w.resetAt = r.at + Minute
        /\ \A p \in passed : p.ip = r.ip => p.window + Gap <= w.resetAt
    BY <1>2, <2>2, <2>3
  <2> HIDE DEF w
  <2>5. /\ w.resetAt - Minute - MaxDelay <= r.at
        /\ r.at <= w.resetAt
        /\ r.at = w.resetAt - Minute
    BY <1>1, <2>4, ClockAssumption
  <2> QED
    BY <2>4, <2>5 DEF w
<1> QED
  BY <1>4, <1>5

LEMMA HistoryCount ==
    ASSUME TypeOK, HistoryInv, NEW g \in Goroutine, Count(g)
    PROVE  HistoryInv'
<1> DEFINE r == arriving[g]
           old == Current(r)[r.ip]
           w == Counted(r)[r.ip]
           new == [ip |-> r.ip, class |-> r.class, at |-> r.at,
                   window |-> w.resetAt, place |-> w.count]
<1>1. /\ r \in Request /\ r.ip \in Address
      /\ r.at \in Int /\ now \in Int /\ r.at <= now
  BY ClockAssumption DEF TypeOK, Count, Request, Time
<1>2. requests' = Counted(r) /\ now' = now
  BY DEF Count
<1>3. /\ w \in Window /\ w # None
      /\ w.count \in Int /\ w.resetAt \in Int
      /\ w.count >= old.count
  BY <1>1, CountedTable, HighestIsLimit, ClockAssumption, NoneAssumption DEF Window
<1>4. \A p \in passed : p \in Pass /\ p.ip \in Address /\ p.window \in Int /\ p.place \in Int
  BY PassTypes DEF TypeOK
<1>5. \/ passed' = passed
      \/ /\ w.count <= Limit[r.class]
         /\ w.count = old.count + 1
         /\ passed' = passed \cup {new}
  BY PassingCount
<1>6. /\ w.resetAt - Minute - MaxDelay <= r.at
      /\ r.at <= w.resetAt
      /\ old.count = 0 => r.at = w.resetAt - Minute
      /\ \A p \in passed :
            p.ip = r.ip => \/ p.window = w.resetAt /\ p.place <= old.count
                           \/ p.window + Gap <= w.resetAt
  BY WindowOfCount
<1>7. old.count \in Int
  BY <1>1, CurrentTable, HighestIsLimit DEF Window
<1>8. /\ new.ip = r.ip /\ new.class = r.class /\ new.at = r.at
      /\ new.window = w.resetAt /\ new.place = w.count
  OBVIOUS
<1> HIDE DEF new, w, old
<1>9. PassesFitWindows'
  <2>1. passed' = passed => PassesFitWindows'
    BY DEF HistoryInv, PassesFitWindows
  <2>2. CASE w.count <= Limit[r.class] /\ w.count = old.count + 1
    BY <1>3, <1>5, <1>6, <1>7, <1>8, <2>2 DEF HistoryInv, PassesFitWindows
  <2> QED
    BY <1>5, <2>1, <2>2
<1>10. PassesAreApart'
  <2>1. passed' = passed => PassesAreApart'
    BY DEF HistoryInv, PassesAreApart
  <2>2. CASE w.count = old.count + 1 /\ passed' = passed \cup {new}
    <3>1. SUFFICES ASSUME NEW p \in passed \cup {new}, NEW q \in passed \cup {new},
                          p.ip = q.ip
                   PROVE  \/ p.window = q.window /\ (p.place = q.place => p = q)
                          \/ p.window + Gap <= q.window
                          \/ q.window + Gap <= p.window
      BY <2>2 DEF PassesAreApart
    <3>2. CASE p \in passed /\ q \in passed
      BY <3>1, <3>2 DEF HistoryInv, PassesAreApart
    <3>3. CASE p = new /\ q = new
      BY <3>3
    <3>4. CASE p \in passed /\ q = new
      BY <1>3, <1>4, <1>6, <1>7, <1>8, <2>2, <3>1, <3>4
    <3>5. CASE p = new /\ q \in passed
      BY <1>3, <1>4, <1>6, <1>7, <1>8, <2>2, <3>1, <3>5
    <3> QED
      BY <3>2, <3>3, <3>4, <3>5
  <2> QED
    BY <1>5, <2>1, <2>2
<1>11. TableIsLatest'
  <2>1. ASSUME NEW p \in passed
        PROVE  \/ requests'[p.ip] = None /\ p.window < now
               \/ /\ requests'[p.ip] # None
                  /\ \/ /\ p.window = requests'[p.ip].resetAt
                        /\ p.place <= requests'[p.ip].count
                     \/ p.window + Gap <= requests'[p.ip].resetAt
    <3>1. CASE p.ip = r.ip
      BY <1>2, <1>3, <1>4, <1>6, <1>7, <3>1 DEF w
    <3>2. CASE p.ip # r.ip
      <4>1. \/ requests'[p.ip] = requests[p.ip]
            \/ requests'[p.ip] = None /\ Over(requests[p.ip], r.at)
        BY <1>1, <1>2, <1>4, <3>2, CountedTable, CurrentTable
      <4>2. CASE requests'[p.ip] = requests[p.ip]
        BY <4>2 DEF HistoryInv, TableIsLatest
      <4>3. CASE /\ requests'[p.ip] = None /\ Over(requests[p.ip], r.at)
                 /\ requests[p.ip] # None
        <5>1. requests[p.ip].resetAt \in Int /\ requests[p.ip].resetAt < r.at
          BY <1>1, <1>4, <4>3, ClockAssumption DEF Over, TypeOK, Window
        <5>2. p.window <= requests[p.ip].resetAt
          BY <1>4, <4>3, <5>1, GapIsPositive DEF HistoryInv, TableIsLatest
        <5> QED
          BY <1>1, <1>4, <4>3, <5>1, <5>2
      <4> QED
        BY <4>1, <4>2, <4>3
    <3> QED
      BY <3>1, <3>2
  <2>2. /\ requests'[new.ip] # None
        /\ new.window = requests'[new.ip].resetAt
        /\ new.place <= requests'[new.ip].count
    BY <1>2, <1>3, <1>8 DEF w
  <2> QED
    BY <1>2, <1>5, <2>1, <2>2 DEF TableIsLatest
<1> QED
  BY <1>9, <1>10, <1>11 DEF HistoryInv

\* Every request that passed has its own place in a window of its address, and
\* the windows of an address are apart, whatever is late or purged.
THEOREM HistoryIsKept == Spec => []HistoryInv
<1>1. Init => HistoryInv
  BY DEF Init, HistoryInv, PassesFitWindows, PassesAreApart, TableIsLatest
<1>2. TypeOK /\ HistoryInv /\ [Next]_vars => HistoryInv'
  <2> SUFFICES ASSUME TypeOK, HistoryInv, [Next]_vars PROVE HistoryInv'
    OBVIOUS
  <2>1. ASSUME NEW g \in Goroutine, Count(g) PROVE HistoryInv'
    BY <2>1, HistoryCount
  <2>2. ASSUME requests' = requests, passed' \subseteq passed,
               now' = now \/ now' = now + 1
        PROVE  HistoryInv'
    <3>1. now \in Int /\ \A p \in passed : p.window \in Int
      BY PassTypes, ClockAssumption DEF TypeOK, Time
    <3>2. PassesFitWindows' /\ PassesAreApart'
      BY <2>2 DEF HistoryInv, PassesFitWindows, PassesAreApart
    <3>3. TableIsLatest'
      BY <2>2, <3>1 DEF HistoryInv, TableIsLatest
    <3> QED
      BY <3>2, <3>3 DEF HistoryInv
  <2> QED
    BY <2>1, <2>2 DEF Next, Tick, Arrive, vars
<1> QED
  BY <1>1, <1>2, LimiterTypeCorrect, PTL DEF Spec

-----------------------------------------------------------------------------
(****************************************************************************)
(* The rate.                                                                *)
(****************************************************************************)

\* Division, as far as it is needed.
LEMMA QuotientBounds ==
    ASSUME NEW n \in Nat, NEW d \in Nat \ {0}
    PROVE  /\ n \div d \in Nat
           /\ d * (n \div d) <= n
           /\ n < d * (n \div d) + d
OBVIOUS

LEMMA QuotientZero ==
    ASSUME NEW n \in Nat, NEW d \in Nat \ {0}, n \div d = 0
    PROVE  n < d
OBVIOUS

LEMMA QuotientOne ==
    ASSUME NEW n \in Nat, NEW d \in Nat \ {0}, n \div d = 1
    PROVE  d <= n
OBVIOUS

\* Numbers of one interval of length d are less than d apart.
LEMMA SameQuotient ==
    ASSUME NEW m \in Nat, NEW n \in Nat, NEW d \in Nat \ {0},
           m \div d = n \div d
    PROVE  m < n + d /\ n < m + d
OBVIOUS

LEMMA QuotientMonotonic ==
    ASSUME NEW m \in Nat, NEW n \in Nat, NEW d \in Nat \ {0}, m <= n
    PROVE  m \div d <= n \div d
OBVIOUS

LEMMA WindowsMetIsPositive == WindowsMet \in Nat \ {0}
<1>1. 2 * Minute + MaxDelay \in Nat
  BY ClockAssumption
<1> QED
  BY <1>1, GapIsPositive, QuotientBounds DEF WindowsMet, Gap

\* Cut the ends of windows into intervals of length Gap from t on: the requests
\* of a minute that passed lie in WindowsMet intervals, each holds one window at
\* most, and some place of one of them is not taken. So they are fewer than the
\* places of WindowsMet windows.
LEMMA MinuteBound ==
    ASSUME TypeOK, HistoryInv,
           NEW ip \in Watched, NEW t \in Time, NEW classes, NEW limit \in Nat \ {0},
           \A p \in passed : p.class \in classes => p.place <= limit
    PROVE  Cardinality(PassedIn(ip, classes, MinuteFrom(t))) <= Most(limit)
<1> DEFINE E == PassedIn(ip, classes, MinuteFrom(t))
           Slice(p) == (p.window - t) \div Gap
           Places == (0 .. WindowsMet - 1) \X (1 .. limit)
           f == [p \in E |-> <<Slice(p), p.place>>]
<1>1. /\ t \in Nat /\ Minute \in Nat \ {0} /\ MaxDelay \in Nat
      /\ Gap \in Nat \ {0} /\ Gap = Minute + 1 - MaxDelay
      /\ WindowsMet \in Nat \ {0}
  BY ClockAssumption, GapIsPositive, WindowsMetIsPositive DEF Time, Gap
<1>2. ASSUME NEW p \in E
      PROVE  /\ p \in passed /\ p.ip = ip
             /\ p.at \in Int /\ t <= p.at /\ p.at <= t + Minute
             /\ p.window - t \in Nat
             /\ p.window - t <= 2 * Minute + MaxDelay
             /\ p.place \in 1 .. limit
             /\ p.place = 1 => p.at = p.window - Minute
  <2>1. p \in passed /\ p.ip = ip /\ p.class \in classes /\ p.at \in MinuteFrom(t)
    BY DEF PassedIn
  <2>2. p.at \in Int /\ p.window \in Int /\ p.place \in Int /\ p.place >= 1
    BY <2>1, PassTypes DEF TypeOK
  <2>3. /\ p.window - Minute - MaxDelay <= p.at /\ p.at <= p.window
        /\ p.place = 1 => p.at = p.window - Minute
    BY <2>1 DEF HistoryInv, PassesFitWindows
  <2> QED
    BY <1>1, <2>1, <2>2, <2>3 DEF MinuteFrom
<1>3. ASSUME NEW p \in E
      PROVE  Slice(p) \in 0 .. WindowsMet - 1
  <2>1. Slice(p) \in Nat
    BY <1>1, <1>2, QuotientBounds
  <2>2. Slice(p) <= (2 * Minute + MaxDelay) \div Gap
    <3>1. /\ p.window - t \in Nat /\ 2 * Minute + MaxDelay \in Nat
          /\ p.window - t <= 2 * Minute + MaxDelay
      BY <1>1, <1>2
    <3> QED
      BY <1>1, <3>1, QuotientMonotonic
  <2>3. (2 * Minute + MaxDelay) \div Gap = WindowsMet - 1
    <3>1. (2 * Minute + MaxDelay) \div Gap \in Nat
      BY <1>1, QuotientBounds
    <3> QED
      BY <3>1, <1>1 DEF WindowsMet
  <2> QED
    BY <1>1, <2>1, <2>2, <2>3
<1>4. f \in [E -> Places]
  BY <1>2, <1>3
<1>5. ASSUME NEW p \in E, NEW q \in E, f[p] = f[q]
      PROVE  p = q
  <2>1. Slice(p) = Slice(q) /\ p.place = q.place
    BY <1>5
  <2>2. p.window - t < (q.window - t) + Gap /\ q.window - t < (p.window - t) + Gap
    BY <1>1, <1>2, <2>1, SameQuotient
  <2>3. /\ p \in passed /\ q \in passed /\ p.ip = q.ip
        /\ p.window \in Int /\ q.window \in Int
    BY <1>2, PassTypes DEF TypeOK
  <2>4. ~(p.window + Gap <= q.window) /\ ~(q.window + Gap <= p.window)
    BY <1>1, <2>2, <2>3
  <2> QED
    BY <2>1, <2>3, <2>4 DEF HistoryInv, PassesAreApart
\* Who takes the first place of the first interval has opened a window that
\* early, hence is not late at all, and there is no second window.
<1>6. PICK hole \in Places : \A p \in E : f[p] # hole
  <2>1. CASE \A p \in E : f[p] # <<0, 1>>
    <3>1. <<0, 1>> \in Places
      BY <1>1
    <3> QED
      BY <2>1, <3>1
  <2>2. CASE \E p \in E : f[p] = <<0, 1>>
    <3>1. PICK p \in E : f[p] = <<0, 1>>
      BY <2>2
    <3> Slice(p) = 0 /\ p.place = 1
      BY <3>1
    <3>2. /\ p \in passed /\ p.ip = ip /\ p.window \in Int
          /\ p.at = p.window - Minute /\ t <= p.at
      BY <1>2, PassTypes DEF TypeOK
    <3>3. p.window - t < Gap
      BY <1>1, <1>2, QuotientZero
    <3>4. MaxDelay = 0 /\ Gap = Minute + 1 /\ p.window = t + Minute
      <4>1. Minute <= p.window - t /\ p.window - t < Minute + 1 - MaxDelay
        BY <1>1, <3>2, <3>3
      <4>2. p.window - t \in Int /\ Minute \in Int /\ MaxDelay \in Nat
        BY <1>1, <3>2
      <4>3. MaxDelay = 0 /\ p.window - t = Minute
        BY <4>1, <4>2
      <4>4. Gap = Minute + 1
        BY <1>1, <4>3
      <4> QED
        BY <1>1, <3>2, <4>3, <4>4
    <3>5. ASSUME NEW q \in E PROVE f[q] # <<1, 1>>
      <4>1. SUFFICES ASSUME Slice(q) = 1 PROVE FALSE
        OBVIOUS
      <4>2. q \in passed /\ q.ip = ip /\ q.window \in Int
        BY <1>2, PassTypes DEF TypeOK
      <4>3. Gap <= q.window - t /\ q.window - t <= 2 * Minute
        <5>1. q.window - t \in Nat /\ q.window - t <= 2 * Minute + MaxDelay
          BY <1>2
        <5> QED
          BY <1>1, <3>4, <4>1, <5>1, QuotientOne
      <4>4. p.window # q.window /\ ~(q.window + Gap <= p.window)
        BY <1>1, <3>3, <3>2, <4>2, <4>3
      <4>5. p.window + Gap <= q.window
        BY <3>2, <4>2, <4>4 DEF HistoryInv, PassesAreApart
      <4> QED
        BY <1>1, <3>4, <4>2, <4>3, <4>5
    <3>6. WindowsMet >= 2
      <4>1. 2 * Minute + MaxDelay = 2 * Minute /\ 2 * Minute >= Gap
        BY <1>1, <3>4
      <4>2. (2 * Minute + MaxDelay) \div Gap >= 1
        BY <1>1, <4>1, QuotientBounds
      <4>3. (2 * Minute + MaxDelay) \div Gap \in Nat
        BY <1>1, QuotientBounds
      <4> QED
        BY <1>1, <4>2, <4>3 DEF WindowsMet
    <3>7. <<1, 1>> \in Places
      BY <3>6, <1>1
    <3> QED
      BY <3>5, <3>7
  <2> QED
    BY <2>1, <2>2
<1>7. f \in Injection(E, Places \ {hole})
  BY <1>4, <1>5, <1>6 DEF Injection, IsInjective
<1>8. IsFiniteSet(Places) /\ Cardinality(Places) = WindowsMet * limit
  <2>1. /\ IsFiniteSet(0 .. WindowsMet - 1)
        /\ Cardinality(0 .. WindowsMet - 1) = WindowsMet
        /\ IsFiniteSet(1 .. limit)
        /\ Cardinality(1 .. limit) = limit
    BY <1>1, FS_Interval
  <2> QED
    BY <2>1, FS_Product
<1>9. /\ IsFiniteSet(Places \ {hole})
      /\ Cardinality(Places \ {hole}) = WindowsMet * limit - 1
  BY <1>6, <1>8, FS_RemoveElement
<1>10. Cardinality(E) <= Cardinality(Places \ {hole})
  BY <1>7, <1>9, FS_Injection
<1> QED
  BY <1>9, <1>10 DEF Most

\* However late the goroutines and whatever is purged, no more than Most of a
\* limit passes from one address in any minute (RateBounded): 2L - 1 when the
\* clock is read under the mutex, 3L - 1 when goroutines are a little late.
THEOREM RateIsBounded == Spec => []RateBounded
<1>1. TypeOK /\ HistoryInv => RateBounded
  <2> SUFFICES ASSUME TypeOK, HistoryInv, NEW ip \in Watched, NEW t \in Time
               PROVE  /\ \A c \in Class :
                            Cardinality(PassedIn(ip, {c}, MinuteFrom(t)))
                              <= Most(Limit[c])
                      /\ Cardinality(PassedIn(ip, Class, MinuteFrom(t)))
                           <= Most(Highest)
    BY DEF RateBounded
  <2>1. ASSUME NEW c \in Class
        PROVE  Cardinality(PassedIn(ip, {c}, MinuteFrom(t))) <= Most(Limit[c])
    <3>1. \A p \in passed : p.class \in {c} => p.place <= Limit[c]
      BY DEF HistoryInv, PassesFitWindows
    <3>2. Limit[c] \in Nat \ {0}
      BY LimitAssumption
    <3> QED
      BY <3>1, <3>2, MinuteBound
  <2>2. Cardinality(PassedIn(ip, Class, MinuteFrom(t))) <= Most(Highest)
    <3>1. \A p \in passed : p.class \in Class => p.place <= Highest
      BY PassTypes DEF TypeOK
    <3> QED
      BY <3>1, HighestIsLimit, MinuteBound
  <2> QED
    BY <2>1, <2>2
<1> QED
  BY <1>1, LimiterTypeCorrect, HistoryIsKept, PTL

\* What the bound is for the code, whose goroutines wait far less than a quarter
\* of a minute for the mutex: three windows, and two if none waits at all.
THEOREM WindowsMetByTheCode ==
    ASSUME 4 * MaxDelay < Minute + 3
    PROVE  WindowsMet <= 3 /\ (MaxDelay = 0 => WindowsMet = 2)
<1> DEFINE n == 2 * Minute + MaxDelay
           k == n \div Gap
<1>1. /\ Minute \in Nat \ {0} /\ MaxDelay \in Nat /\ n \in Nat
      /\ Gap \in Nat \ {0} /\ Gap = Minute + 1 - MaxDelay
  BY ClockAssumption, GapIsPositive DEF Gap
<1>2. k \in Nat /\ Gap * k <= n /\ n < Gap * k + Gap
  BY <1>1, QuotientBounds
<1>3. n < 3 * Gap
  BY <1>1
<1>4. WindowsMet = k + 1
  BY <1>1 DEF WindowsMet
<1> HIDE DEF n, k
<1>5. k <= 2
  <2> SUFFICES ASSUME k >= 3 PROVE FALSE
    BY <1>2
  <2>1. Gap * k >= Gap * 3
    BY <1>1, <1>2
  <2> QED
    BY <1>1, <1>2, <1>3, <2>1
<1>6. ASSUME MaxDelay = 0 PROVE k = 1
  <2>1. Gap <= n /\ n < Gap + Gap
    BY <1>1, <1>6 DEF n
  <2>2. k # 0
    BY <1>1, <1>2, <2>1
  <2>3. k # 2
    BY <1>1, <1>2, <2>1
  <2> QED
    BY <1>2, <1>5, <2>2, <2>3
<1> QED
  BY <1>2, <1>4, <1>5, <1>6

=============================================================================
