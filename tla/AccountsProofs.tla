--------------------------- MODULE AccountsProofs ---------------------------
(* Theorems about Accounts, for any number of people, names and handlers.   *)
EXTENDS Accounts, TLAPS

-----------------------------------------------------------------------------
(****************************************************************************)
(* The invariant.                                                           *)
(****************************************************************************)

\* How far the demo data is: a start that inserts it has found none of it.
SeedProgress ==
    /\ phase # "seeding" => inserted = 0
    /\ phase = "seeding" =>
          data = IF inserted <= Len(SeedName) THEN 0 ELSE inserted - Len(SeedName)
    /\ phase = "seeding" /\ inserted > 0 => Seeded
    /\ ~Seeded => data = 0

\* What a handler holds is still true of the row it is about.
RequestAgrees(r) ==
    /\ r.op = "answer" =>
          accounts[r.name] # None /\ accounts[r.name].owner = r.person
    /\ r.op = "update" =>
          /\ accounts[r.name] # None
          /\ accounts[r.name].owner = r.row.owner
          /\ r.name \notin overlapped => accounts[r.name].profile = r.row.profile

SessionsAgree == \A s \in Session : session[s] # None => RequestAgrees(session[s])

\* Nothing was asked for a profile that does not exist.
WantedExists == \A n \in Name : accounts[n] = None => wanted[n] = Blank

AccountsInv ==
    /\ TypeOK
    /\ SeedProgress
    /\ TokensHoldNames
    /\ SessionsAgree
    /\ WantedExists
    /\ ProfilesAsAsked

-----------------------------------------------------------------------------
(****************************************************************************)
(* Types.                                                                   *)
(****************************************************************************)

LEMMA SeedFacts ==
    /\ Len(SeedName) \in Nat \ {0}
    /\ \A i \in 1 .. Len(SeedName) : SeedName[i] \in Name
    /\ Demo \in Person
    /\ SeedData \in Nat /\ Retries \in Nat /\ MaxFailures \in Nat
BY SeedNameAssumption, BoundAssumption

LEMMA BlankIsProfile == Blank \in Profile
BY DEF Blank, Profile

LEMMA FilledIsProfile ==
    ASSUME NEW profile \in Profile, NEW asked \in Profile
    PROVE  Filled(profile, asked) \in Profile
BY DEF Filled, Profile

\* The two shapes of a request.
LEMMA RequestShape ==
    ASSUME NEW r \in Request
    PROVE  /\ r # None
           /\ r.name \in Name
           /\ r.op \in {"register", "answer", "update"}
           /\ r.op \in {"register", "answer"} =>
                 /\ r.person \in Person
                 /\ r.profile \in Profile
                 /\ r \in [op : {"register", "answer"}, name : Name,
                           person : Person, profile : Profile]
           /\ r.op = "update" => r.row \in Account /\ r.asked \in Profile
BY NoneAssumption DEF Request

LEMMA TypeInit == Init => TypeOK
BY SeedFacts, BlankIsProfile DEF Init, TypeOK, Phase

LEMMA TypeStartup ==
    ASSUME TypeOK, SeedProgress,
           Start \/ Connect \/ ConnectFails \/ CountUsers \/ InsertSeed \/ Stop
    PROVE  TypeOK'
<1> USE SeedFacts DEF TypeOK, Phase, process, history, Stopped
<1>1. CASE Start
  BY <1>1 DEF Start
<1>2. CASE Connect
  BY <1>2 DEF Connect
<1>3. CASE ConnectFails
  BY <1>3 DEF ConnectFails
<1>4. CASE CountUsers
  BY <1>4 DEF CountUsers
<1>5. CASE InsertSeed
  <2>1. CASE /\ inserted + 1 <= Len(SeedName)
             /\ accounts' = [accounts EXCEPT ![SeedName[inserted + 1]] =
                   [owner |-> Demo, profile |-> Blank,
                    role |-> IF inserted + 1 = Len(SeedName)
                             THEN "admin" ELSE "user"]]
             /\ inserted' = inserted + 1
             /\ UNCHANGED <<phase, attempt, session, data>>
    <3>1. [owner |-> Demo, profile |-> Blank,
           role |-> IF inserted + 1 = Len(SeedName)
                    THEN "admin" ELSE "user"] \in Account
      BY BlankIsProfile DEF Account
    <3>2. accounts' \in [Name -> Account \cup {None}]
      BY <2>1, <3>1
    <3> QED
      BY <1>5, <2>1, <3>2 DEF InsertSeed
  <2>2. CASE Stopped /\ UNCHANGED <<accounts, data>>
    BY <1>5, <2>2 DEF InsertSeed
  <2>3. CASE /\ inserted + 1 \in Len(SeedName) + 1 .. Len(SeedName) + SeedData
             /\ inserted' = inserted + 1
             /\ data' = data + 1
             /\ UNCHANGED <<phase, attempt, session, accounts>>
    BY <1>5, <2>3 DEF InsertSeed, SeedProgress
  <2>4. CASE phase' = "serving" /\ inserted' = 0
             /\ UNCHANGED <<attempt, session, accounts, data>>
    BY <1>5, <2>4 DEF InsertSeed
  <2> QED
    BY <1>5, <2>1, <2>2, <2>3, <2>4 DEF InsertSeed
<1>6. CASE Stop
  BY <1>6 DEF Stop
<1> QED
  BY <1>1, <1>2, <1>3, <1>4, <1>5, <1>6

\* A row written over another one, or for a new name.
LEMMA RowIsAccount ==
    /\ \A r \in Request : r.op = "register" => NewAccount(r) \in Account
    /\ \A r \in Request : r.op = "update" =>
          [r.row EXCEPT !.profile = Filled(@, r.asked)] \in Account
<1>1. ASSUME NEW r \in Request, r.op = "register" PROVE NewAccount(r) \in Account
  BY <1>1, RequestShape DEF NewAccount, Account
<1>2. ASSUME NEW r \in Request, r.op = "update"
      PROVE  [r.row EXCEPT !.profile = Filled(@, r.asked)] \in Account
  <2>1. r.row \in Account /\ r.asked \in Profile
    BY <1>2, RequestShape
  <2>2. Filled(r.row.profile, r.asked) \in Profile
    BY <2>1, FilledIsProfile DEF Account
  <2> QED
    BY <2>1, <2>2 DEF Account
<1> QED
  BY <1>1, <1>2

LEMMA TypeHandle ==
    ASSUME TypeOK, NEW s \in Session, Handle(s)
    PROVE  TypeOK'
<1> DEFINE q == session[s]
<1>1. ASSUME NEW p \in Person, NEW n \in Name, NEW profile \in Profile,
             Register(s, p, n, profile)
      PROVE  TypeOK'
  <2>1. [op |-> "register", name |-> n, person |-> p, profile |-> profile] \in Request
    BY DEF Request
  <2> QED
    BY <1>1, <2>1 DEF TypeOK, Register, Idle, process, history
<1>2. ASSUME NEW p \in Person, NEW n \in Name, NEW profile \in Profile,
             UpdateProfile(s, p, n, profile)
      PROVE  TypeOK'
  <2>1. accounts[n] \in Account
    BY <1>2 DEF TypeOK, UpdateProfile
  <2>2. [op |-> "update", name |-> n, row |-> accounts[n], asked |-> profile]
          \in Request
    BY <2>1 DEF Request
  <2> QED
    BY <1>2, <2>2 DEF TypeOK, UpdateProfile, Idle, process, history
<1>3. ASSUME NEW p \in Person, NEW n \in Name, Login(s, p, n)
      PROVE  TypeOK'
  BY <1>3 DEF TypeOK, Login, process
<1>4. ASSUME CreateAccount(s) PROVE TypeOK'
  <2>1. q \in Request /\ q.op = "register" /\ q # None
    BY <1>4 DEF TypeOK, CreateAccount, In
  <2>2. q.name \in Name /\ q.profile \in Profile /\ NewAccount(q) \in Account
    BY <2>1, RequestShape, RowIsAccount
  <2>3. [q EXCEPT !.op = "answer"] \in Request
    BY <2>1, RequestShape DEF Request
  <2>4. session' \in [Session -> Request \cup {None}]
    BY <1>4, <2>3 DEF TypeOK, CreateAccount
  <2> QED
    BY <1>4, <2>1, <2>2, <2>4 DEF TypeOK, CreateAccount, process
<1>5. ASSUME AnswerRegister(s) PROVE TypeOK'
  <2>1. q \in Request /\ q.op = "answer" /\ q # None
    BY <1>5 DEF TypeOK, AnswerRegister, In
  <2>2. q.name \in Name /\ q.person \in Person
    BY <2>1, RequestShape
  <2> QED
    BY <1>5, <2>2 DEF TypeOK, AnswerRegister, process
<1>6. ASSUME SaveProfile(s) PROVE TypeOK'
  <2>1. q \in Request /\ q.op = "update" /\ q # None
    BY <1>6 DEF TypeOK, SaveProfile, In
  <2>2. /\ q.name \in Name /\ q.asked \in Profile
        /\ [q.row EXCEPT !.profile = Filled(@, q.asked)] \in Account
    BY <2>1, RequestShape, RowIsAccount
  <2>3. [f \in Field |-> IF q.asked[f] = None THEN wanted[q.name][f] ELSE q.asked[f]]
          \in Profile
    BY <2>2 DEF TypeOK, Profile
  <2>4. wanted' \in [Name -> Profile]
    BY <1>6, <2>2, <2>3 DEF TypeOK, SaveProfile
  <2>5. overlapped' \subseteq Name
    BY <1>6, <2>2 DEF TypeOK, SaveProfile
  <2> QED
    BY <1>6, <2>2, <2>4, <2>5 DEF TypeOK, SaveProfile, process
<1>7. ASSUME Abort(s) PROVE TypeOK'
  BY <1>7 DEF TypeOK, Abort, process, history
<1> QED
  BY <1>1, <1>2, <1>3, <1>4, <1>5, <1>6, <1>7 DEF Handle

-----------------------------------------------------------------------------
(****************************************************************************)
(* The steps.                                                               *)
(****************************************************************************)

\* While the process starts or stops no handler runs, and the only rows that
\* appear are demo users, with blank profiles and names nobody has.
LEMMA StartupTables ==
    ASSUME TypeOK,
           Start \/ Connect \/ ConnectFails \/ CountUsers \/ InsertSeed \/ Stop
    PROVE  /\ \A s \in Session : session'[s] = None
           /\ UNCHANGED history
           /\ \A n \in Name :
                \/ accounts'[n] = accounts[n]
                \/ /\ accounts[n] = None
                   /\ accounts'[n] \in Account
                   /\ accounts'[n].profile = Blank
<1>1. UNCHANGED history
  BY DEF Start, Connect, ConnectFails, CountUsers, InsertSeed, Stop, history
<1>2. Stopped \/ (phase # "serving" /\ UNCHANGED session)
  BY DEF Start, Connect, ConnectFails, CountUsers, InsertSeed, Stop
<1>3. \A s \in Session : session'[s] = None
  BY <1>2 DEF Stopped, TypeOK
<1>4. ASSUME NEW n \in Name
      PROVE  \/ accounts'[n] = accounts[n]
             \/ /\ accounts[n] = None
                /\ accounts'[n] \in Account
                /\ accounts'[n].profile = Blank
  <2>1. CASE UNCHANGED accounts
    BY <2>1
  <2>2. CASE /\ InsertSeed
             /\ inserted + 1 <= Len(SeedName)
             /\ accounts[SeedName[inserted + 1]] = None
             /\ accounts' = [accounts EXCEPT ![SeedName[inserted + 1]] =
                   [owner |-> Demo, profile |-> Blank,
                    role |-> IF inserted + 1 = Len(SeedName)
                             THEN "admin" ELSE "user"]]
    <3>1. [owner |-> Demo, profile |-> Blank,
           role |-> IF inserted + 1 = Len(SeedName)
                    THEN "admin" ELSE "user"] \in Account
      BY BlankIsProfile, SeedFacts DEF Account
    <3> QED
      BY <2>2, <3>1 DEF TypeOK
  <2> QED
    BY <2>1, <2>2 DEF Start, Connect, ConnectFails, CountUsers, InsertSeed, Stop
<1> QED
  BY <1>1, <1>3, <1>4

LEMMA StartupKeepsInv ==
    ASSUME AccountsInv,
           Start \/ Connect \/ ConnectFails \/ CountUsers \/ InsertSeed \/ Stop
    PROVE  AccountsInv'
<1> USE DEF AccountsInv
<1>1. TypeOK'
  BY TypeStartup
<1>2. TokensHoldNames'
  BY StartupTables, NoneAssumption DEF TokensHoldNames, TypeOK, history
<1>3. SessionsAgree'
  BY StartupTables DEF SessionsAgree
<1>4. WantedExists'
  BY StartupTables, NoneAssumption DEF WantedExists, history
<1>5. ProfilesAsAsked'
  BY StartupTables DEF ProfilesAsAsked, WantedExists, TypeOK, history
<1>6. SeedProgress'
  <2> USE SeedFacts DEF SeedProgress, TypeOK
  <2>1. Seeded => Seeded'
    BY StartupTables, NoneAssumption DEF Seeded
  <2>2. CASE InsertSeed
    <3>1. CASE /\ inserted + 1 <= Len(SeedName)
               /\ accounts[SeedName[inserted + 1]] = None
               /\ accounts' = [accounts EXCEPT ![SeedName[inserted + 1]] =
                     [owner |-> Demo, profile |-> Blank,
                      role |-> IF inserted + 1 = Len(SeedName)
                               THEN "admin" ELSE "user"]]
               /\ inserted' = inserted + 1
               /\ UNCHANGED <<phase, data>>
      <4>1. accounts'[SeedName[inserted + 1]] # None
        <5>1. [owner |-> Demo, profile |-> Blank,
               role |-> IF inserted + 1 = Len(SeedName)
                        THEN "admin" ELSE "user"] # None
          BY NoneAssumption, BlankIsProfile DEF Account
        <5> QED
          BY <3>1, <5>1
      <4>2. Seeded'
        BY <3>1, <4>1 DEF Seeded
      <4> QED
        BY <2>2, <3>1, <4>2 DEF InsertSeed
    <3>2. CASE Stopped /\ UNCHANGED <<accounts, data>>
      BY <3>2, <2>1 DEF Stopped, Seeded
    <3>3. CASE /\ inserted + 1 \in Len(SeedName) + 1 .. Len(SeedName) + SeedData
               /\ inserted' = inserted + 1
               /\ data' = data + 1
               /\ UNCHANGED <<phase, accounts>>
      <4>1. Seeded'
        BY <2>2, <2>1, <3>3 DEF InsertSeed
      <4> QED
        BY <2>2, <3>3, <4>1 DEF InsertSeed
    <3>4. CASE phase' = "serving" /\ inserted' = 0 /\ UNCHANGED <<accounts, data>>
      BY <3>4, <2>1 DEF Seeded
    <3> QED
      BY <2>2, <3>1, <3>2, <3>3, <3>4 DEF InsertSeed
  <2>3. CASE CountUsers
    BY <2>3, <2>1 DEF CountUsers, Seeded
  <2>4. CASE Start \/ Connect
    BY <2>4, <2>1 DEF Start, Connect, Seeded
  <2>5. CASE ConnectFails
    BY <2>5, <2>1 DEF ConnectFails, Stopped, Seeded
  <2>6. CASE Stop
    BY <2>6, <2>1 DEF Stop, Stopped, Seeded
  <2> QED
    BY <2>2, <2>3, <2>4, <2>5, <2>6
<1> QED
  BY <1>1, <1>2, <1>3, <1>4, <1>5, <1>6

\* A handler never takes a row away, nor from its owner.
LEMMA RowsStay ==
    ASSUME AccountsInv, NEW s \in Session, Handle(s),
           NEW n \in Name, accounts[n] # None
    PROVE  accounts'[n] # None /\ accounts'[n].owner = accounts[n].owner
<1> USE DEF AccountsInv
<1>1. CASE CreateAccount(s)
  BY <1>1 DEF CreateAccount, TypeOK
<1>2. CASE SaveProfile(s)
  <2> DEFINE q == session[s]
             row == [q.row EXCEPT !.profile = Filled(@, q.asked)]
  <2>1. q \in Request /\ q # None /\ q.op = "update"
    BY <1>2 DEF SaveProfile, In, TypeOK
  <2>2. row \in Account /\ row # None /\ row.owner = q.row.owner
    BY <2>1, RequestShape, RowIsAccount, NoneAssumption DEF Account
  <2>3. accounts[q.name].owner = q.row.owner
    BY <2>1 DEF SessionsAgree, RequestAgrees
  <2>4. accounts' = [accounts EXCEPT ![q.name] = row]
    BY <1>2 DEF SaveProfile
  <2> QED
    BY <2>2, <2>3, <2>4 DEF TypeOK
<1>3. CASE UNCHANGED accounts
  BY <1>3
<1> QED
  BY <1>1, <1>2, <1>3
     DEF Handle, Register, UpdateProfile, Login, AnswerRegister, Abort

LEMMA HandlerKeepsTokens ==
    ASSUME AccountsInv, NEW s \in Session, Handle(s)
    PROVE  TokensHoldNames'
<1> USE DEF AccountsInv
<1>1. SUFFICES ASSUME NEW t \in tokens'
               PROVE  accounts'[t.name] # None /\ accounts'[t.name].owner = t.person
  BY DEF TokensHoldNames
<1>2. CASE t \in tokens
  BY <1>2, RowsStay DEF TokensHoldNames, TypeOK
<1>3. CASE t \notin tokens
  <2>1. ASSUME NEW p \in Person, NEW n \in Name, Login(s, p, n)
        PROVE  accounts'[t.name] # None /\ accounts'[t.name].owner = t.person
    BY <1>1, <1>3, <2>1 DEF Login
  <2>2. CASE AnswerRegister(s)
    <3>1. accounts[session[s].name] # None
          /\ accounts[session[s].name].owner = session[s].person
      BY <2>2 DEF AnswerRegister, In, SessionsAgree, RequestAgrees
    <3> QED
      BY <1>1, <1>3, <2>2, <3>1 DEF AnswerRegister
  <2> QED
    BY <1>1, <1>3, <2>1, <2>2
       DEF Handle, Register, UpdateProfile, CreateAccount, SaveProfile, Abort, history
<1> QED
  BY <1>2, <1>3

LEMMA HandlerKeepsSessions ==
    ASSUME AccountsInv, NEW s \in Session, Handle(s)
    PROVE  SessionsAgree'
<1> USE DEF AccountsInv
<1> DEFINE q == session[s]
<1>2. ASSUME UNCHANGED <<accounts, overlapped>>,
             NEW r, session' = [session EXCEPT ![s] = r],
             r # None => RequestAgrees(r)
      PROVE  SessionsAgree'
  BY <1>2 DEF SessionsAgree, RequestAgrees, TypeOK
<1>3. ASSUME NEW p \in Person, NEW n \in Name, NEW profile \in Profile,
             Register(s, p, n, profile)
      PROVE  SessionsAgree'
  BY <1>2, <1>3 DEF Register, RequestAgrees, history
<1>4. ASSUME NEW p \in Person, NEW n \in Name, NEW profile \in Profile,
             UpdateProfile(s, p, n, profile)
      PROVE  SessionsAgree'
  BY <1>2, <1>4 DEF UpdateProfile, RequestAgrees, history
<1>5. ASSUME NEW p \in Person, NEW n \in Name, Login(s, p, n)
      PROVE  SessionsAgree'
  BY <1>5 DEF Login, SessionsAgree, RequestAgrees
<1>6. CASE CreateAccount(s)
  <2>1. q \in Request /\ q.op = "register"
    BY <1>6 DEF CreateAccount, In, TypeOK
  <2>2. q.name \in Name /\ NewAccount(q) \in Account /\ NewAccount(q).owner = q.person
    BY <2>1, RequestShape, RowIsAccount DEF NewAccount
  <2>3. CASE accounts[q.name] # None
    BY <1>2, <1>6, <2>3 DEF CreateAccount
  <2>4. CASE /\ accounts[q.name] = None
             /\ accounts' = [accounts EXCEPT ![q.name] = NewAccount(q)]
             /\ session' = [session EXCEPT ![s].op = "answer"]
    <3>1. UNCHANGED overlapped
      BY <1>6 DEF CreateAccount
    <3>2. ASSUME NEW other \in Session, session'[other] # None
          PROVE  RequestAgrees(session[other]) /\ other # s =>
                    RequestAgrees(session[other])'
      BY <2>4, <3>1 DEF RequestAgrees, TypeOK
    <3>3. session'[s] = [q EXCEPT !.op = "answer"]
      BY <2>4 DEF TypeOK
    <3>4. session'[s].op = "answer" /\ session'[s].name = q.name
          /\ session'[s].person = q.person
      BY <2>1, <3>3, RequestShape
    <3>5. accounts'[q.name] # None /\ accounts'[q.name].owner = q.person
      BY <2>2, <2>4, NoneAssumption DEF TypeOK
    <3>6. RequestAgrees(session[s])'
      BY <3>4, <3>5 DEF RequestAgrees
    <3>7. \A other \in Session \ {s} : session'[other] = session[other]
      BY <2>4 DEF TypeOK
    <3> QED
      BY <3>2, <3>6, <3>7 DEF SessionsAgree, RequestAgrees
  <2> QED
    BY <1>6, <2>3, <2>4 DEF CreateAccount
<1>7. CASE AnswerRegister(s)
  BY <1>2, <1>7 DEF AnswerRegister
<1>8. CASE SaveProfile(s)
  <2>1. SUFFICES ASSUME NEW other \in Session, session'[other] # None
                 PROVE  RequestAgrees(session[other])'
    BY DEF SessionsAgree
  <2>2. other # s /\ session'[other] = session[other] /\ session[other] # None
    BY <1>8, <2>1 DEF SaveProfile, TypeOK
  <2>3. session[other] \in Request /\ RequestAgrees(session[other])
    BY <2>2 DEF TypeOK, SessionsAgree
  <2>4. q.name \in Name /\ session[other].name \in Name
    BY <1>8, <2>3, RequestShape DEF SaveProfile, In, TypeOK
  <2>5. accounts[session[other].name] # None =>
          /\ accounts'[session[other].name] # None
          /\ accounts'[session[other].name].owner = accounts[session[other].name].owner
    BY <2>4, RowsStay
  <2>6. overlapped \subseteq overlapped'
    BY <1>8 DEF SaveProfile
  <2>7. ASSUME session[other].op = "update"
        PROVE  \/ session[other].name \in overlapped'
               \/ accounts'[session[other].name] = accounts[session[other].name]
    <3>1. CASE session[other].name = q.name
      BY <1>8, <2>2, <2>7, <3>1 DEF SaveProfile, In
    <3>2. CASE session[other].name # q.name
      BY <1>8, <2>4, <3>2 DEF SaveProfile, TypeOK
    <3> QED
      BY <3>1, <3>2
  <2> QED
    BY <2>2, <2>3, <2>5, <2>6, <2>7 DEF RequestAgrees
<1>9. CASE Abort(s)
  BY <1>2, <1>9 DEF Abort, history
<1> QED
  BY <1>3, <1>4, <1>5, <1>6, <1>7, <1>8, <1>9 DEF Handle

LEMMA HandlerKeepsProfiles ==
    ASSUME AccountsInv, NEW s \in Session, Handle(s)
    PROVE  WantedExists' /\ ProfilesAsAsked'
<1> USE DEF AccountsInv
<1> DEFINE q == session[s]
<1>1. CASE UNCHANGED <<accounts, wanted, overlapped>>
  BY <1>1 DEF WantedExists, ProfilesAsAsked
<1>2. CASE CreateAccount(s)
  <2>1. q \in Request /\ q.op = "register"
    BY <1>2 DEF CreateAccount, In, TypeOK
  <2>2. /\ q.name \in Name
        /\ NewAccount(q) # None
        /\ NewAccount(q).profile = q.profile
    BY <2>1, RequestShape, RowIsAccount, NoneAssumption DEF NewAccount
  <2>3. CASE /\ accounts' = [accounts EXCEPT ![q.name] = NewAccount(q)]
             /\ wanted' = [wanted EXCEPT ![q.name] = q.profile]
             /\ UNCHANGED overlapped
    BY <2>2, <2>3 DEF WantedExists, ProfilesAsAsked, TypeOK
  <2> QED
    BY <1>1, <1>2, <2>3 DEF CreateAccount
<1>3. CASE SaveProfile(s)
  <2> DEFINE row == [q.row EXCEPT !.profile = Filled(@, q.asked)]
             asked == [f \in Field |-> IF q.asked[f] = None THEN wanted[q.name][f]
                                      ELSE q.asked[f]]
  <2>1. q \in Request /\ q.op = "update" /\ q # None /\ RequestAgrees(q)
    BY <1>3 DEF SaveProfile, In, TypeOK, SessionsAgree
  <2>2. /\ q.name \in Name /\ row # None
        /\ row.profile = Filled(q.row.profile, q.asked)
    BY <2>1, RequestShape, RowIsAccount, NoneAssumption DEF Account
  <2>3. /\ accounts' = [accounts EXCEPT ![q.name] = row]
        /\ wanted' = [wanted EXCEPT ![q.name] = asked]
        /\ overlapped \subseteq overlapped'
    BY <1>3 DEF SaveProfile
  \* Not overlapped: the row in hand holds what was asked so far.
  <2>4. q.name \notin overlapped => q.row.profile = wanted[q.name]
    BY <2>1, <2>2 DEF RequestAgrees, ProfilesAsAsked
  <2>5. q.row.profile = wanted[q.name] => row.profile = asked
    BY <2>2 DEF Filled
  <2> HIDE DEF row, asked
  <2>6. /\ accounts'[q.name] = row /\ wanted'[q.name] = asked
        /\ \A n \in Name \ {q.name} :
              accounts'[n] = accounts[n] /\ wanted'[n] = wanted[n]
    BY <2>2, <2>3 DEF TypeOK
  <2>7. WantedExists'
    BY <2>2, <2>6 DEF WantedExists
  <2>8. ASSUME NEW n \in Name, n \notin overlapped', accounts'[n] # None
        PROVE  accounts'[n].profile = wanted'[n]
    <3>1. CASE n = q.name
      BY <2>3, <2>4, <2>5, <2>6, <2>8, <3>1
    <3>2. CASE n # q.name
      BY <2>3, <2>6, <2>8, <3>2 DEF ProfilesAsAsked
    <3> QED
      BY <3>1, <3>2
  <2> QED
    BY <2>7, <2>8 DEF ProfilesAsAsked
<1> QED
  BY <1>1, <1>2, <1>3
     DEF Handle, Register, UpdateProfile, Login, AnswerRegister, Abort, history

LEMMA HandlerKeepsInv ==
    ASSUME AccountsInv, NEW s \in Session, Handle(s)
    PROVE  AccountsInv'
<1> USE DEF AccountsInv
<1>1. TypeOK'
  BY TypeHandle
<1>2. UNCHANGED <<process, data>>
  BY DEF Handle, Register, UpdateProfile, Login, CreateAccount, AnswerRegister,
         SaveProfile, Abort
<1>3. Seeded => Seeded'
  BY RowsStay DEF Seeded
<1>4. SeedProgress'
  BY <1>2, <1>3 DEF SeedProgress, process
<1> QED
  BY <1>1, <1>4, HandlerKeepsTokens, HandlerKeepsSessions, HandlerKeepsProfiles

-----------------------------------------------------------------------------
(****************************************************************************)
(* The theorems.                                                            *)
(****************************************************************************)

\* The inductive invariant: what handlers and starts hold in hand is true of
\* the tables, but for profiles that two updates have overlapped on.
THEOREM AccountsInvariant == Spec => []AccountsInv
<1>1. Init => AccountsInv
  <2> SUFFICES ASSUME Init PROVE AccountsInv
    OBVIOUS
  <2>1. TypeOK
    BY TypeInit
  <2>2. SeedProgress
    BY DEF Init, SeedProgress
  <2>3. TokensHoldNames /\ SessionsAgree /\ WantedExists /\ ProfilesAsAsked
    BY DEF Init, TokensHoldNames, SessionsAgree, WantedExists, ProfilesAsAsked
  <2> QED
    BY <2>1, <2>2, <2>3 DEF AccountsInv
<1>2. AccountsInv /\ [Next]_vars => AccountsInv'
  <2> SUFFICES ASSUME AccountsInv, [Next]_vars PROVE AccountsInv'
    OBVIOUS
  <2>1. CASE Start \/ Connect \/ ConnectFails \/ CountUsers \/ InsertSeed \/ Stop
    BY <2>1, StartupKeepsInv
  <2>2. ASSUME NEW s \in Session, Handle(s) PROVE AccountsInv'
    BY <2>2, HandlerKeepsInv
  <2>3. CASE UNCHANGED vars
    BY <2>3 DEF vars, process, history, AccountsInv, TypeOK, SeedProgress, Seeded,
       TokensHoldNames, SessionsAgree, RequestAgrees, WantedExists, ProfilesAsAsked
  <2> QED
    BY <2>1, <2>2, <2>3 DEF Next
<1> QED
  BY <1>1, <1>2, PTL DEF Spec

\* Demo rows are inserted once, connecting stops in time, handlers run only in
\* a serving process.
THEOREM AccountsTypeCorrect == Spec => []TypeOK
BY AccountsInvariant, PTL DEF AccountsInv

\* A name belongs to the one registration that was answered, for ever
\* (TokensHoldNames).
THEOREM NamesAreHeld == Spec => []TokensHoldNames
BY AccountsInvariant, PTL DEF AccountsInv

\* Only overlapping updates lose what was asked for a profile (ProfilesAsAsked).
THEOREM ProfilesKept == Spec => []ProfilesAsAsked
BY AccountsInvariant, PTL DEF AccountsInv

=============================================================================
