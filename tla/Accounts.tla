------------------------------ MODULE Accounts ------------------------------
(* The start of the server (cmd/server/main.go, service/seed.go) and the    *)
(* accounts it then serves: registration, login and profiles                *)
(* (service/auth_service.go, service/user_service.go).                      *)
(*                                                                          *)
(* Three things are written with no transaction around them: the demo data, *)
(* a user row after its name was found free, and a profile after it was     *)
(* read. The process may end between any two of their steps; the container  *)
(* runtime starts it again.                                                 *)
EXTENDS Naturals, Sequences

CONSTANTS
    Person,       \* who uses the service, each with a password of their own
    Name,         \* user names, up to the case MySQL's collation ignores
    SeedName,     \* the names of the demo users in the order of insertion
    Demo,         \* the person who knows the demo password
    SeedData,     \* how many demo requirements and bids follow the users
    Field,        \* the columns of a profile
    Value,        \* what people fill in
    Session,      \* handlers running at the same time
    Retries,      \* DB_CONNECT_RETRIES
    MaxFailures,  \* bound: how often the process stops
    None

ASSUME SeedNameAssumption ==
    /\ SeedName \in Seq(Name) \ {<<>>}
    /\ \A i, j \in 1 .. Len(SeedName) : SeedName[i] = SeedName[j] => i = j
    /\ Demo \in Person
ASSUME BoundAssumption == {SeedData, Retries, MaxFailures} \subseteq Nat

VARIABLES
    phase,        \* what the process is doing
    attempt,      \* failed attempts of openDB to connect
    failures,     \* how often the process has stopped
    inserted,     \* rows this run of EnsureSeedData has inserted
    accounts,     \* the users table
    data,         \* how many demo requirements and bids there are
    session,      \* the request each handler is in the middle of
    tokens,       \* history: who was given a token for which account
    wanted,       \* history: what was last asked for each field of a profile
    overlapped    \* history: names of which a Save overtook another Update

process == <<phase, attempt, failures, inserted>>
history == <<tokens, wanted, overlapped>>
vars == <<process, accounts, data, session, history>>

Phase == {"down", "connecting", "counting", "seeding", "serving"}

\* A profile, and what an UpdateProfileRequest asks for: empty fields are None.
Profile == [Field -> Value \cup {None}]
Blank == [f \in Field |-> None]

Account == [owner : Person, role : {"user", "admin"}, profile : Profile]

Request ==
    [op : {"register", "answer"}, name : Name, person : Person, profile : Profile]
    \cup [op : {"update"}, name : Name, row : Account, asked : Profile]

ASSUME NoneAssumption == None \notin Account \cup Request \cup Value

Init ==
    /\ phase = "down"
    /\ attempt = 0
    /\ failures = 0
    /\ inserted = 0
    /\ accounts = [n \in Name |-> None]
    /\ data = 0
    /\ session = [s \in Session |-> None]
    /\ tokens = {}
    /\ wanted = [n \in Name |-> Blank]
    /\ overlapped = {}

-----------------------------------------------------------------------------
(* Startup                                                                  *)

\* The process has ended, and with it its local variables and its handlers.
Stopped ==
    /\ phase' = "down"
    /\ attempt' = 0
    /\ inserted' = 0
    /\ session' = [s \in Session |-> None]

Start ==
    /\ phase = "down"
    /\ phase' = "connecting"
    /\ UNCHANGED <<attempt, failures, inserted, accounts, data, session, history>>

\* Faulty: one attempt too many is counted before the process gives up.
ConnectFails_Late ==
    /\ phase = "connecting"
    /\ \/ /\ attempt <= Retries
          /\ attempt' = attempt + 1
          /\ UNCHANGED <<phase, inserted, session>>
       \/ /\ attempt > Retries
          /\ Stopped
    /\ UNCHANGED <<failures, accounts, data, history>>

\* openDB: the database does not answer; wait and try again, or give up.
ConnectFails ==
    /\ phase = "connecting"
    /\ \/ /\ attempt < Retries
          /\ attempt' = attempt + 1
          /\ UNCHANGED <<phase, inserted, session>>
       \/ /\ attempt >= Retries
          /\ Stopped
    /\ UNCHANGED <<failures, accounts, data, history>>

\* openDB succeeds, and AutoMigrate, which changes nothing the second time.
Connect ==
    /\ phase = "connecting"
    /\ phase' = "counting"
    /\ attempt' = 0
    /\ UNCHANGED <<failures, inserted, accounts, data, session, history>>

\* Faulty: the demo data is missing while there are no demo requirements.
Seeded_ByRequirements == data > 0

\* EnsureSeedData does nothing once there is any user.
Seeded == \E n \in Name : accounts[n] # None

CountUsers ==
    /\ phase = "counting"
    /\ phase' = IF Seeded THEN "serving" ELSE "seeding"
    /\ UNCHANGED <<attempt, failures, inserted, accounts, data, session, history>>

\* The next row of the demo data: first the users, the last of them the
\* administrator, then what refers to them. A name that is taken violates the
\* unique index; the error ends the process.
InsertSeed ==
    /\ phase = "seeding"
    /\ LET n == inserted + 1 IN
       \/ /\ n <= Len(SeedName)
          /\ accounts[SeedName[n]] = None
          /\ accounts' = [accounts EXCEPT ![SeedName[n]] =
                [owner |-> Demo, profile |-> Blank,
                 role |-> IF n = Len(SeedName) THEN "admin" ELSE "user"]]
          /\ inserted' = n
          /\ UNCHANGED <<phase, attempt, session, data>>
       \/ /\ n <= Len(SeedName)
          /\ accounts[SeedName[n]] # None
          /\ Stopped
          /\ UNCHANGED <<accounts, data>>
       \/ /\ n \in Len(SeedName) + 1 .. Len(SeedName) + SeedData
          /\ data' = data + 1
          /\ inserted' = n
          /\ UNCHANGED <<phase, attempt, session, accounts>>
       \/ /\ n > Len(SeedName) + SeedData
          /\ phase' = "serving"
          /\ inserted' = 0
          /\ UNCHANGED <<attempt, session, accounts, data>>
    /\ UNCHANGED <<failures, history>>

\* The process stops: killed, shut down, or for an error of the database while
\* it starts.
Stop ==
    /\ phase # "down"
    /\ failures < MaxFailures
    /\ failures' = failures + 1
    /\ Stopped
    /\ UNCHANGED <<accounts, data, history>>

-----------------------------------------------------------------------------
(* Accounts                                                                 *)

Idle(s) == phase = "serving" /\ session[s] = None
In(s, op) == session[s] # None /\ session[s].op = op

\* AuthService.Register: the name is looked up, and a taken one refused.
Register(s, p, n, profile) ==
    /\ Idle(s)
    /\ accounts[n] = None
    /\ session' = [session EXCEPT ![s] =
          [op |-> "register", name |-> n, person |-> p, profile |-> profile]]
    /\ UNCHANGED <<process, accounts, data, history>>

\* The row of the registration r.
NewAccount(r) == [owner |-> r.person, role |-> "user", profile |-> r.profile]

\* Faulty: the insert replaces a row of that name.
CreateAccount_Replacing(s) ==
    /\ In(s, "register")
    /\ LET r == session[s] IN
       /\ accounts' = [accounts EXCEPT ![r.name] = NewAccount(r)]
       /\ session' = [session EXCEPT ![s].op = "answer"]
       /\ wanted' = [wanted EXCEPT ![r.name] = r.profile]
    /\ UNCHANGED <<process, data, tokens, overlapped>>

\* The insert, which the unique index fails when the name has been taken since.
CreateAccount(s) ==
    /\ In(s, "register")
    /\ LET r == session[s] IN
       \/ /\ accounts[r.name] = None
          /\ accounts' = [accounts EXCEPT ![r.name] = NewAccount(r)]
          /\ session' = [session EXCEPT ![s].op = "answer"]
          /\ wanted' = [wanted EXCEPT ![r.name] = r.profile]
       \/ /\ accounts[r.name] # None
          /\ session' = [session EXCEPT ![s] = None]
          /\ UNCHANGED <<accounts, wanted>>
    /\ UNCHANGED <<process, data, tokens, overlapped>>

\* The token for the new row is signed and sent.
AnswerRegister(s) ==
    /\ In(s, "answer")
    /\ tokens' = tokens \cup {[name |-> session[s].name, person |-> session[s].person]}
    /\ session' = [session EXCEPT ![s] = None]
    /\ UNCHANGED <<process, accounts, data, wanted, overlapped>>

\* AuthService.Login: the row exists and the password is that of its owner.
Login(s, p, n) ==
    /\ Idle(s)
    /\ accounts[n] # None
    /\ accounts[n].owner = p
    /\ tokens' = tokens \cup {[name |-> n, person |-> p]}
    /\ UNCHANGED <<process, accounts, data, session, wanted, overlapped>>

\* The handler of PATCH /users/:id: people edit their own profile, and an
\* administrator any.
MayUpdate(p, n) ==
    \E t \in tokens :
        /\ t.person = p
        /\ t.name = n \/ accounts[t.name].role = "admin"

\* UserService.Update up to its Save.
UpdateProfile(s, p, n, asked) ==
    /\ Idle(s)
    /\ accounts[n] # None
    /\ MayUpdate(p, n)
    /\ session' = [session EXCEPT ![s] =
          [op |-> "update", name |-> n, row |-> accounts[n], asked |-> asked]]
    /\ UNCHANGED <<process, accounts, data, history>>

\* Faulty: empty fields of the request are taken over like the others.
Filled_WithBlanks(profile, asked) == [f \in Field |-> asked[f]]

\* The profile with the fields that the request fills in.
Filled(profile, asked) ==
    [f \in Field |-> IF asked[f] # None THEN asked[f] ELSE profile[f]]

\* The Save of all columns of the row as it was read, with the request's fields.
SaveProfile(s) ==
    /\ In(s, "update")
    /\ LET r == session[s] IN
       /\ accounts' = [accounts EXCEPT ![r.name] =
             [r.row EXCEPT !.profile = Filled(@, r.asked)]]
       /\ wanted' = [wanted EXCEPT ![r.name] =
             [f \in Field |-> IF r.asked[f] = None THEN @[f] ELSE r.asked[f]]]
       /\ overlapped' = overlapped \cup
             {n \in {r.name} : \E other \in Session \ {s} :
                                  In(other, "update") /\ session[other].name = n}
    /\ session' = [session EXCEPT ![s] = None]
    /\ UNCHANGED <<process, data, tokens>>

\* The handler fails, on an error of the database or a panic.
Abort(s) ==
    /\ session[s] # None
    /\ session' = [session EXCEPT ![s] = None]
    /\ UNCHANGED <<process, accounts, data, history>>

-----------------------------------------------------------------------------
Handle(s) ==
    \/ \E p \in Person, n \in Name :
          \/ \E profile \in Profile :
                Register(s, p, n, profile) \/ UpdateProfile(s, p, n, profile)
          \/ Login(s, p, n)
    \/ CreateAccount(s)
    \/ AnswerRegister(s)
    \/ SaveProfile(s)
    \/ Abort(s)

Next ==
    \/ Start \/ Connect \/ ConnectFails \/ CountUsers \/ InsertSeed \/ Stop
    \/ \E s \in Session : Handle(s)

Spec == Init /\ [][Next]_vars

\* The runtime restarts the process unless it is stopped by hand, and waits for
\* a healthy database: in one of its starts the database answers. The other
\* steps of the start just run.
Fairness ==
    /\ WF_vars(Start)
    /\ SF_vars(Connect)
    /\ WF_vars(CountUsers)
    /\ WF_vars(InsertSeed)

FairSpec == Spec /\ Fairness

-----------------------------------------------------------------------------
(****************************************************************************)
(* Properties.                                                              *)
(****************************************************************************)

\* The process makes no more than Retries + 1 attempts to connect, handlers run
\* only while it serves, demo data is inserted once (main.go:108-126).
TypeOK ==
    /\ phase \in Phase
    /\ attempt \in 0 .. Retries
    /\ failures \in 0 .. MaxFailures
    /\ inserted \in 0 .. Len(SeedName) + SeedData
    /\ accounts \in [Name -> Account \cup {None}]
    /\ data \in 0 .. SeedData
    /\ session \in [Session -> Request \cup {None}]
    /\ tokens \subseteq [name : Name, person : Person]
    /\ wanted \in [Name -> Profile]
    /\ overlapped \subseteq Name
    /\ \A s \in Session : session[s] # None => phase = "serving"

\* Whoever was given a token for an account owns it: of people who register one
\* name at the same time, all seeing it free, one gets it and keeps it, through
\* failures and restarts (auth_service.go:30-61).
TokensHoldNames ==
    \A t \in tokens : accounts[t.name] # None /\ accounts[t.name].owner = t.person

\* A profile holds the last value asked for each field, unless two updates of
\* it overlapped: then the later Save puts back what the earlier one changed
\* (user_service.go:34-57).
ProfilesAsAsked ==
    \A n \in Name \ overlapped :
        accounts[n] # None => accounts[n].profile = wanted[n]

\* Wherever a start was interrupted, half-way through the demo data included,
\* the server serves again: the next start neither repeats rows it has inserted
\* nor trips over them (seed.go:27-79).
ServesAgain == []<>(phase = "serving")

=============================================================================
