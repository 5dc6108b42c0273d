----------------------------- MODULE Workbench -----------------------------
(***************************************************************************)
(* GET /dashboard beside the handlers that change the tables: the payload  *)
(* is put together from separate queries, each on its own and outside of   *)
(* any transaction, while the other sessions go on.                        *)
(*                                                                         *)
(* Reading changes no table, so one reader stands for any number of them.  *)
(* The count of unread notifications is left out: NotificationCenter       *)
(* models that query, with the read flags.                                 *)
(***************************************************************************)
EXTENDS Marketplace, Sequences, FiniteSets

VARIABLES
    reader,            \* the user whose payload is being put together, or None
    answers            \* [Query -> what it returned, or None if not made yet]

benchVars == <<vars, reader, answers>>

Query ==
    {"requirements", "requirementBids", "bids", "contracts",
     "requirementCount", "bidCount", "contractCount"}

\* Faulty: the contracts are read before the rows that lead to them.
InOrder_ContractsFirst ==
    <<"contracts", "requirements", "requirementBids", "bids",
      "requirementCount", "bidCount", "contractCount">>

\* Faulty: the counts are read before the lists they stand above.
InOrder_CountsFirst ==
    <<"requirementCount", "bidCount", "contractCount",
      "requirements", "requirementBids", "bids", "contracts">>

\* The queries of DashboardService.Get; requirementBids is the Preload("Bids")
\* of ListByPublisher.
InOrder ==
    <<"requirements", "requirementBids", "bids", "contracts",
      "requirementCount", "bidCount", "contractCount">>

\* The rows of a table that a condition keeps.
Where(table, Kept(_)) ==
    [id \in DOMAIN table |-> IF table[id] # None /\ Kept(table[id]) THEN table[id] ELSE None]

\* The rows there are.
Rows(table) == {id \in DOMAIN table : table[id] # None}

ListByPublisher(u) == Where(requirements, LAMBDA row : row.publisher = u)
ListByBidder(u)    == Where(bids, LAMBDA row : row.bidder = u)
ListByParty(u)     == Where(contracts, LAMBDA row : u \in {row.partyA, row.partyB})

\* What a query returns to user u now.
Result(query, u) ==
    CASE query = "requirements"     -> ListByPublisher(u)
      [] query = "requirementBids"  ->
            Where(bids, LAMBDA row : row.requirement \in Rows(answers["requirements"]))
      [] query = "bids"             -> ListByBidder(u)
      [] query = "contracts"        -> ListByParty(u)
      [] query = "requirementCount" -> Cardinality(Rows(ListByPublisher(u)))
      [] query = "bidCount"         -> Cardinality(Rows(ListByBidder(u)))
      [] query = "contractCount"    -> Cardinality(Rows(ListByParty(u)))

NoAnswers == [query \in Query |-> None]

BenchInit == Init /\ reader = None /\ answers = NoAnswers

\* DashboardHandler.Get for user u.
Open(u) ==
    /\ reader = None
    /\ reader' = u
    /\ UNCHANGED <<vars, answers>>

\* Its next query.
Ask(i) ==
    /\ reader # None
    /\ answers[InOrder[i]] = None
    /\ \A j \in 1..(i - 1) : answers[InOrder[j]] # None
    /\ answers' = [answers EXCEPT ![InOrder[i]] = Result(InOrder[i], reader)]
    /\ UNCHANGED <<vars, reader>>

Leave == reader' = None /\ answers' = NoAnswers

\* The payload is sent, or the error of a query that failed.
Answer == reader # None /\ Leave /\ UNCHANGED vars

BenchNext ==
    \/ Crash /\ Leave
    \/ Next /\ UNCHANGED <<reader, answers>>
    \/ \E u \in User : Open(u)
    \/ \E i \in 1..Len(InOrder) : Ask(i)
    \/ Answer

BenchSpec == BenchInit /\ [][BenchNext]_benchVars

-----------------------------------------------------------------------------
(* Properties                                                               *)

Shown(query, id) == answers[query][id] # None

\* An accepted bid, and a requirement with a winner, are never on a page
\* without the contract they led to: the page is not a snapshot, but what is
\* read later cannot miss what an earlier query already showed the effect of.
PageIsCoherent ==
    answers["contracts"] # None =>
        /\ answers["bids"] # None => \A b \in BidId :
              Shown("bids", b) /\ answers["bids"][b].status = "accepted" =>
                  Shown("contracts", b)
        /\ answers["requirementBids"] # None => \A r \in RequirementId :
              Shown("requirements", r) /\ answers["requirements"][r].winner # None =>
                  \E b \in BidId :
                      /\ Shown("contracts", b)
                      /\ Shown("requirementBids", b)
                      /\ answers["contracts"][b].requirement = r
                      /\ answers["contracts"][b].partyB = answers["requirements"][r].winner
                      /\ answers["requirementBids"][b].status # "pending"

\* The number above a list is never smaller than the list.
CountsCoverLists ==
    \A pair \in {<<"requirements", "requirementCount">>, <<"bids", "bidCount">>,
                 <<"contracts", "contractCount">>} :
        answers[pair[1]] # None /\ answers[pair[2]] # None =>
            Cardinality(Rows(answers[pair[1]])) <= answers[pair[2]]

=============================================================================
