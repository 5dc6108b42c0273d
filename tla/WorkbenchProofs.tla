--------------------------- MODULE WorkbenchProofs ---------------------------
(***************************************************************************)
(* Proofs about Workbench, for every set of users, requirements, bids and  *)
(* sessions and every seed the assumptions allow; where the counts are     *)
(* concerned, for finite tables.                                           *)
(***************************************************************************)
EXTENDS Workbench, MarketplaceProofs, FiniteSetTheorems

\* Reading is no step of the tables.
LEMMA BenchStepsAreSteps == [BenchNext]_benchVars => [Next]_vars
  BY DEF BenchNext, benchVars, Next, Open, Ask, Answer

-----------------------------------------------------------------------------
(* The inductive invariant: what an earlier answer shows still has its      *)
(* consequences in the tables, which only move forward, when a later query  *)
(* reads them.                                                              *)

BenchTypeOK == answers = [query \in Query |-> answers[query]]

\* Nothing is kept from one payload to the next.
ClosedIsEmpty == reader = None => answers = NoAnswers

\* The queries are made one after the other.
OneByOne ==
    /\ answers["requirementBids"] # None => answers["requirements"] # None
    /\ answers["bids"] # None => answers["requirementBids"] # None
    /\ answers["contracts"] # None => answers["bids"] # None
    /\ \A query \in {"requirementCount", "bidCount", "contractCount"} :
          answers[query] # None => answers["contracts"] # None

\* What a list shows is still there, and still its reader's.
ListsLast ==
    /\ answers["requirements"] # None =>
          /\ DOMAIN answers["requirements"] = RequirementId
          /\ Rows(answers["requirements"]) \subseteq Rows(ListByPublisher(reader))
    /\ answers["bids"] # None =>
          /\ DOMAIN answers["bids"] = BidId
          /\ Rows(answers["bids"]) \subseteq Rows(ListByBidder(reader))
    /\ answers["contracts"] # None => Rows(answers["contracts"]) \subseteq Rows(ListByParty(reader))

\* A winner that was read has a contract, and its bid is on the list read next.
WinnersShown ==
    answers["requirements"] # None => \A r \in RequirementId :
        Shown("requirements", r) /\ answers["requirements"][r].winner # None =>
            \E b \in BidId :
                /\ contracts[b] # None
                /\ contracts[b].requirement = r
                /\ contracts[b].partyB = answers["requirements"][r].winner
                /\ answers["requirementBids"] # None =>
                       /\ Shown("requirementBids", b)
                       /\ answers["requirementBids"][b].status # "pending"

\* An accepted bid that was read has a contract.
AcceptedShown ==
    answers["bids"] # None => \A b \in BidId :
        Shown("bids", b) /\ answers["bids"][b].status = "accepted" => contracts[b] # None

BenchInv ==
    /\ Inv
    /\ BenchTypeOK
    /\ ClosedIsEmpty
    /\ OneByOne
    /\ ListsLast
    /\ WinnersShown
    /\ AcceptedShown
    /\ PageIsCoherent

LEMMA NothingAsked ==
    ASSUME answers = NoAnswers
    PROVE  /\ BenchTypeOK /\ ClosedIsEmpty /\ OneByOne /\ ListsLast /\ WinnersShown
           /\ AcceptedShown /\ PageIsCoherent
  BY DEF NoAnswers, Query, BenchTypeOK, ClosedIsEmpty, OneByOne, ListsLast, WinnersShown, AcceptedShown,
         PageIsCoherent

LEMMA BenchInvInit == BenchInit => BenchInv
  BY InvInit, NothingAsked DEF BenchInit, BenchInv

\* The lists only grow.
LEMMA ListsGrow ==
    ASSUME Inv, [Next]_vars, NEW u
    PROVE  /\ Rows(ListByPublisher(u)) \subseteq Rows(ListByPublisher(u))'
           /\ Rows(ListByBidder(u)) \subseteq Rows(ListByBidder(u))'
           /\ Rows(ListByParty(u)) \subseteq Rows(ListByParty(u))'
<1>1. /\ DOMAIN requirements = RequirementId /\ DOMAIN bids = BidId /\ DOMAIN contracts = BidId
      /\ DOMAIN requirements' = RequirementId /\ DOMAIN bids' = BidId
      /\ DOMAIN contracts' = BidId
  BY InvStep DEF Inv, TypeOK
<1>2. \A r \in RequirementId : requirements[r] # None =>
          requirements'[r] # None /\ requirements'[r].publisher = requirements[r].publisher
  BY RequirementsForward
<1>3. \A b \in BidId : bids[b] # None => bids'[b] # None /\ bids'[b].bidder = bids[b].bidder
  BY BidsForward
<1>4. \A b \in BidId : contracts[b] # None =>
          /\ contracts'[b] # None
          /\ contracts'[b].partyA = contracts[b].partyA
          /\ contracts'[b].partyB = contracts[b].partyB
  BY ContractsForward
<1>5. Rows(ListByPublisher(u)) \subseteq Rows(ListByPublisher(u))'
  BY <1>1, <1>2 DEF Rows, ListByPublisher, Where
<1>6. Rows(ListByBidder(u)) \subseteq Rows(ListByBidder(u))'
  BY <1>1, <1>3 DEF Rows, ListByBidder, Where
<1>7. Rows(ListByParty(u)) \subseteq Rows(ListByParty(u))'
  BY <1>1, <1>4 DEF Rows, ListByParty, Where
<1> QED
  BY <1>5, <1>6, <1>7

\* A step of another handler keeps what was read true.
LEMMA OthersKeepAnswers ==
    ASSUME BenchInv, [Next]_vars, UNCHANGED <<reader, answers>>
    PROVE  BenchInv'
<1>1. Inv /\ Inv'
  BY InvStep DEF BenchInv
<1>2. BenchTypeOK' /\ ClosedIsEmpty' /\ OneByOne' /\ PageIsCoherent'
  BY DEF BenchInv, BenchTypeOK, ClosedIsEmpty, NoAnswers, OneByOne, PageIsCoherent, Shown
<1>3. ListsLast'
  <2>1. PICK u, lists : u = reader /\ lists = answers
    OBVIOUS
  <2>2. /\ Rows(ListByPublisher(u)) \subseteq Rows(ListByPublisher(u))'
        /\ Rows(ListByBidder(u)) \subseteq Rows(ListByBidder(u))'
        /\ Rows(ListByParty(u)) \subseteq Rows(ListByParty(u))'
    BY <1>1, ListsGrow
  <2>3. /\ lists["requirements"] # None =>
               /\ DOMAIN lists["requirements"] = RequirementId
               /\ Rows(lists["requirements"]) \subseteq Rows(ListByPublisher(u))'
        /\ lists["bids"] # None =>
               /\ DOMAIN lists["bids"] = BidId
               /\ Rows(lists["bids"]) \subseteq Rows(ListByBidder(u))'
        /\ lists["contracts"] # None => Rows(lists["contracts"]) \subseteq Rows(ListByParty(u))'
    BY <2>1, <2>2 DEF BenchInv, ListsLast
  <2>4. reader' = u /\ answers' = lists
    BY <2>1
  <2> QED
    BY <2>3, <2>4 DEF ListsLast, ListByPublisher, ListByBidder, ListByParty, Where, Rows
<1>4. \A b \in BidId : contracts[b] # None =>
          /\ contracts'[b] # None
          /\ contracts'[b].requirement = contracts[b].requirement
          /\ contracts'[b].partyB = contracts[b].partyB
  BY <1>1, ContractsForward
<1>5. WinnersShown'
  BY <1>4 DEF BenchInv, WinnersShown, Shown
<1>6. AcceptedShown'
  BY <1>4 DEF BenchInv, AcceptedShown, Shown
<1> QED
  BY <1>1, <1>2, <1>3, <1>5, <1>6 DEF BenchInv

\* A query adds its result; the ones before it have theirs.
LEMMA Asking ==
    ASSUME BenchTypeOK, NEW i \in 1..Len(InOrder), Ask(i)
    PROVE  \E query \in Query :
              /\ answers[query] = None
              /\ answers' = [answers EXCEPT ![query] = Result(query, reader)]
              /\ UNCHANGED <<vars, reader>> /\ reader # None
              /\ query # "requirements" => answers["requirements"] # None
              /\ query \notin {"requirements", "requirementBids"} =>
                     answers["requirementBids"] # None
              /\ query \notin {"requirements", "requirementBids", "bids"} =>
                     answers["bids"] # None
              /\ query \in {"requirementCount", "bidCount", "contractCount"} =>
                     answers["contracts"] # None
<1>1. /\ Len(InOrder) = 7
      /\ InOrder[1] = "requirements" /\ InOrder[2] = "requirementBids"
      /\ InOrder[3] = "bids" /\ InOrder[4] = "contracts"
      /\ InOrder[5] = "requirementCount" /\ InOrder[6] = "bidCount"
      /\ InOrder[7] = "contractCount"
  BY DEF InOrder
<1>2. i \in 1..7
  BY <1>1
<1>3. /\ i > 1 => answers["requirements"] # None
      /\ i > 2 => answers["requirementBids"] # None
      /\ i > 3 => answers["bids"] # None
      /\ i > 4 => answers["contracts"] # None
  <2>1. \A j \in 1..(i - 1) : answers[InOrder[j]] # None
    BY DEF Ask
  <2>2. /\ i > 1 => 1 \in 1..(i - 1)
        /\ i > 2 => 2 \in 1..(i - 1)
        /\ i > 3 => 3 \in 1..(i - 1)
        /\ i > 4 => 4 \in 1..(i - 1)
    BY <1>2
  <2> QED
    BY <1>1, <2>1, <2>2
<1>4. /\ InOrder[i] \in Query
      /\ InOrder[i] # "requirements" => i > 1
      /\ InOrder[i] \notin {"requirements", "requirementBids"} => i > 2
      /\ InOrder[i] \notin {"requirements", "requirementBids", "bids"} => i > 3
      /\ InOrder[i] \in {"requirementCount", "bidCount", "contractCount"} => i > 4
  BY <1>1, <1>2 DEF Query
<1> QED
  BY <1>3, <1>4 DEF Ask

\* Who is a party of a contract, from the rows that lead to it.
LEMMA ContractOf ==
    ASSUME Inv, NEW b \in BidId, contracts[b] # None
    PROVE  /\ bids[b] # None
           /\ bids[b].status # "pending"
           /\ contracts[b].requirement = bids[b].requirement
           /\ contracts[b].requirement \in RequirementId
           /\ contracts[b].partyB = bids[b].bidder
           /\ contracts[b].partyA = requirements[contracts[b].requirement].publisher
  BY DEF Inv, ContractsMatchBids, TypeOK, BidRow

\* What each query leaves in the answers.
LEMMA AskRequirements ==
    ASSUME BenchInv, UNCHANGED <<vars, reader>>, reader # None, answers["requirements"] = None,
           answers' = [answers EXCEPT !["requirements"] = Result("requirements", reader)]
    PROVE  BenchInv'
<1>1. /\ Inv /\ TypeOK /\ WinnersHaveContracts
      /\ BenchTypeOK /\ OneByOne /\ AcceptedShown /\ PageIsCoherent
  BY DEF BenchInv, Inv
<1>2. /\ answers'["requirements"] = ListByPublisher(reader)
      /\ \A query \in Query \ {"requirements"} : answers'[query] = None
      /\ BenchTypeOK'
  BY <1>1 DEF BenchTypeOK, OneByOne, Query, Result
<1>3. OneByOne' /\ AcceptedShown' /\ PageIsCoherent'
  BY <1>2 DEF OneByOne, AcceptedShown, PageIsCoherent, Query
<1>4. ListsLast'
  <2>1. DOMAIN ListByPublisher(reader) = RequirementId
    BY <1>1 DEF TypeOK, ListByPublisher, Where
  <2>2. /\ DOMAIN answers'["requirements"] = RequirementId
        /\ Rows(answers'["requirements"]) = Rows(ListByPublisher(reader))'
    BY <1>2, <2>1 DEF Rows, ListByPublisher, Where, vars
  <2> QED
    BY <1>2, <2>2 DEF ListsLast, Query
<1>5. WinnersShown'
  <2> SUFFICES ASSUME NEW r \in RequirementId, answers'["requirements"][r] # None,
                      answers'["requirements"][r].winner # None
               PROVE  \E b \in BidId :
                          /\ contracts[b] # None
                          /\ contracts[b].requirement = r
                          /\ contracts[b].partyB = answers'["requirements"][r].winner
    BY <1>2 DEF WinnersShown, Shown, Query, vars
  <2>1. answers'["requirements"][r] = requirements[r]
    BY <1>1, <1>2 DEF TypeOK, ListByPublisher, Where
  <2> QED
    BY <1>1, <2>1 DEF WinnersHaveContracts, HasContract
<1>6. Inv'
  BY <1>1, InvStep DEF vars
<1> QED
  BY <1>2, <1>3, <1>4, <1>5, <1>6 DEF BenchInv, ClosedIsEmpty

LEMMA AskRequirementBids ==
    ASSUME BenchInv, UNCHANGED <<vars, reader>>, reader # None, answers["requirements"] # None,
           answers["requirementBids"] = None,
           answers' = [answers EXCEPT !["requirementBids"] = Result("requirementBids", reader)]
    PROVE  BenchInv'
<1>1. /\ Inv /\ TypeOK /\ BenchTypeOK /\ OneByOne /\ ListsLast /\ WinnersShown
  BY DEF BenchInv, Inv
<1>2. /\ answers'["requirementBids"] =
             Where(bids, LAMBDA row : row.requirement \in Rows(answers["requirements"]))
      /\ answers'["requirements"] = answers["requirements"]
      /\ \A query \in Query \ {"requirements", "requirementBids"} : answers'[query] = None
      /\ BenchTypeOK'
  BY <1>1 DEF BenchTypeOK, OneByOne, Query, Result
<1>3. OneByOne' /\ AcceptedShown' /\ PageIsCoherent'
  BY <1>2 DEF OneByOne, AcceptedShown, PageIsCoherent, Query
<1>4. ListsLast'
  BY <1>1, <1>2 DEF ListsLast, Query, vars, Rows, ListByPublisher, Where
<1>5. WinnersShown'
  <2> SUFFICES ASSUME NEW r \in RequirementId, answers["requirements"][r] # None,
                      answers["requirements"][r].winner # None
               PROVE  \E b \in BidId :
                          /\ contracts[b] # None
                          /\ contracts[b].requirement = r
                          /\ contracts[b].partyB = answers["requirements"][r].winner
                          /\ answers'["requirementBids"][b] # None
                          /\ answers'["requirementBids"][b].status # "pending"
    BY <1>2 DEF WinnersShown, Shown, Query, vars
  <2>1. PICK b \in BidId : /\ contracts[b] # None
                           /\ contracts[b].requirement = r
                           /\ contracts[b].partyB = answers["requirements"][r].winner
    BY <1>1 DEF WinnersShown, Shown
  <2>2. bids[b] # None /\ bids[b].status # "pending" /\ bids[b].requirement = r
    BY <1>1, <2>1, ContractOf
  <2>3. r \in Rows(answers["requirements"])
    BY <1>1 DEF ListsLast, Rows
  <2>4. answers'["requirementBids"][b] = bids[b]
    BY <1>1, <1>2, <2>2, <2>3 DEF TypeOK, Where
  <2> QED
    BY <2>1, <2>2, <2>4
<1>6. Inv'
  BY <1>1, InvStep DEF vars
<1> QED
  BY <1>2, <1>3, <1>4, <1>5, <1>6 DEF BenchInv, ClosedIsEmpty

LEMMA AskBids ==
    ASSUME BenchInv, UNCHANGED <<vars, reader>>, reader # None, answers["requirementBids"] # None,
           answers["bids"] = None,
           answers' = [answers EXCEPT !["bids"] = Result("bids", reader)]
    PROVE  BenchInv'
<1>1. /\ Inv /\ TypeOK /\ ContractsMatchBids
      /\ BenchTypeOK /\ OneByOne /\ ListsLast /\ WinnersShown
  BY DEF BenchInv, Inv
<1>2. /\ answers'["bids"] = ListByBidder(reader)
      /\ answers'["requirements"] = answers["requirements"]
      /\ answers'["requirementBids"] = answers["requirementBids"]
      /\ \A query \in Query \ {"requirements", "requirementBids", "bids"} :
             answers'[query] = None
      /\ BenchTypeOK'
  BY <1>1 DEF BenchTypeOK, OneByOne, Query, Result
<1>3. OneByOne' /\ PageIsCoherent'
  BY <1>1, <1>2 DEF OneByOne, PageIsCoherent, Query
<1>4. ListsLast'
  <2>1. DOMAIN ListByBidder(reader) = BidId
    BY <1>1 DEF TypeOK, ListByBidder, Where
  <2>2. DOMAIN answers'["bids"] = BidId /\ Rows(answers'["bids"]) = Rows(ListByBidder(reader))'
    BY <1>2, <2>1 DEF Rows, ListByBidder, Where, vars
  <2>3. Rows(ListByPublisher(reader))' = Rows(ListByPublisher(reader))
    BY DEF Rows, ListByPublisher, Where, vars
  <2> QED
    BY <1>1, <1>2, <2>2, <2>3 DEF ListsLast, Query
<1>5. WinnersShown'
  BY <1>1, <1>2 DEF WinnersShown, Shown, vars
<1>6. AcceptedShown'
  <2> SUFFICES ASSUME NEW b \in BidId, answers'["bids"][b] # None,
                      answers'["bids"][b].status = "accepted"
               PROVE  contracts[b] # None
    BY DEF AcceptedShown, Shown, vars
  <2>1. answers'["bids"][b] = bids[b]
    BY <1>1, <1>2 DEF TypeOK, ListByBidder, Where
  <2> QED
    BY <1>1, <2>1 DEF ContractsMatchBids
<1>7. Inv'
  BY <1>1, InvStep DEF vars
<1> QED
  BY <1>2, <1>3, <1>4, <1>5, <1>6, <1>7 DEF BenchInv, ClosedIsEmpty

LEMMA AskContracts ==
    ASSUME BenchInv, UNCHANGED <<vars, reader>>, reader # None, answers["bids"] # None,
           answers["contracts"] = None,
           answers' = [answers EXCEPT !["contracts"] = Result("contracts", reader)]
    PROVE  BenchInv'
<1>1. /\ Inv /\ TypeOK /\ BenchTypeOK /\ OneByOne /\ ListsLast /\ WinnersShown /\ AcceptedShown
      /\ answers["requirementBids"] # None /\ answers["requirements"] # None
  BY DEF BenchInv, Inv, OneByOne
<1>2. /\ answers'["contracts"] = ListByParty(reader)
      /\ answers'["requirements"] = answers["requirements"]
      /\ answers'["requirementBids"] = answers["requirementBids"]
      /\ answers'["bids"] = answers["bids"]
      /\ \A query \in {"requirementCount", "bidCount", "contractCount"} : answers'[query] = None
      /\ BenchTypeOK'
  BY <1>1 DEF BenchTypeOK, OneByOne, Query, Result
<1>3. OneByOne'
  BY <1>1, <1>2 DEF OneByOne
<1>4. ListsLast'
  <2>1. Rows(answers'["contracts"]) = Rows(ListByParty(reader))'
    BY <1>2 DEF Rows, ListByParty, Where, vars
  <2>2. /\ Rows(ListByPublisher(reader))' = Rows(ListByPublisher(reader))
        /\ Rows(ListByBidder(reader))' = Rows(ListByBidder(reader))
    BY DEF Rows, ListByPublisher, ListByBidder, Where, vars
  <2> QED
    BY <1>1, <1>2, <2>1, <2>2 DEF ListsLast
<1>5. WinnersShown' /\ AcceptedShown'
  BY <1>1, <1>2 DEF WinnersShown, AcceptedShown, Shown, vars
<1>6. ASSUME NEW b \in BidId, contracts[b] # None,
             reader \in {contracts[b].partyA, contracts[b].partyB}
      PROVE  answers'["contracts"][b] = contracts[b]
  BY <1>1, <1>2, <1>6 DEF TypeOK, ListByParty, Where
<1>7. ASSUME NEW b \in BidId, answers["bids"][b] # None, answers["bids"][b].status = "accepted"
      PROVE  answers'["contracts"][b] # None
  <2>1. contracts[b] # None
    BY <1>1, <1>7 DEF AcceptedShown, Shown
  <2>2. b \in Rows(ListByBidder(reader))
    BY <1>1, <1>7 DEF ListsLast, Rows
  <2>3. bids[b].bidder = reader
    BY <1>1, <2>2 DEF Rows, ListByBidder, Where, TypeOK
  <2>4. contracts[b].partyB = reader
    BY <1>1, <2>1, <2>3, ContractOf
  <2> QED
    BY <1>6, <2>1, <2>4
<1>8. ASSUME NEW r \in RequirementId, answers["requirements"][r] # None,
             answers["requirements"][r].winner # None
      PROVE  \E b \in BidId :
                /\ answers'["contracts"][b] # None
                /\ answers["requirementBids"][b] # None
                /\ answers'["contracts"][b].requirement = r
                /\ answers'["contracts"][b].partyB = answers["requirements"][r].winner
                /\ answers["requirementBids"][b].status # "pending"
  <2>1. PICK b \in BidId : /\ contracts[b] # None
                           /\ contracts[b].requirement = r
                           /\ contracts[b].partyB = answers["requirements"][r].winner
                           /\ answers["requirementBids"][b] # None
                           /\ answers["requirementBids"][b].status # "pending"
    BY <1>1, <1>8 DEF WinnersShown, Shown
  <2>2. r \in Rows(ListByPublisher(reader))
    BY <1>1, <1>8 DEF ListsLast, Rows
  <2>3. requirements[r].publisher = reader
    BY <1>1, <2>2 DEF Rows, ListByPublisher, Where, TypeOK
  <2>4. contracts[b].partyA = reader
    BY <1>1, <2>1, <2>3, ContractOf
  <2> QED
    BY <1>6, <2>1, <2>4
<1>9. PageIsCoherent'
  BY <1>2, <1>7, <1>8 DEF PageIsCoherent, Shown
<1>10. Inv'
  BY <1>1, InvStep DEF vars
<1> QED
  BY <1>2, <1>3, <1>4, <1>5, <1>9, <1>10 DEF BenchInv, ClosedIsEmpty

LEMMA AskCount ==
    ASSUME BenchInv, UNCHANGED <<vars, reader>>, reader # None, answers["contracts"] # None,
           NEW query \in {"requirementCount", "bidCount", "contractCount"}, NEW count,
           answers' = [answers EXCEPT ![query] = count]
    PROVE  BenchInv'
<1>1. Inv /\ BenchTypeOK /\ OneByOne /\ ListsLast /\ WinnersShown /\ AcceptedShown /\ PageIsCoherent
  BY DEF BenchInv
<1>2. /\ \A list \in {"requirements", "requirementBids", "bids", "contracts"} :
             answers'[list] = answers[list]
      /\ BenchTypeOK'
  BY <1>1 DEF BenchTypeOK, Query
<1>3. OneByOne' /\ PageIsCoherent' /\ WinnersShown' /\ AcceptedShown'
  BY <1>1, <1>2 DEF OneByOne, PageIsCoherent, WinnersShown, AcceptedShown, Shown, vars
<1>4. ListsLast'
  <2>1. /\ Rows(ListByPublisher(reader))' = Rows(ListByPublisher(reader))
        /\ Rows(ListByBidder(reader))' = Rows(ListByBidder(reader))
        /\ Rows(ListByParty(reader))' = Rows(ListByParty(reader))
    BY DEF Rows, ListByPublisher, ListByBidder, ListByParty, Where, vars
  <2> QED
    BY <1>1, <1>2, <2>1 DEF ListsLast
<1>5. Inv'
  BY <1>1, InvStep DEF vars
<1> QED
  BY <1>2, <1>3, <1>4, <1>5 DEF BenchInv, ClosedIsEmpty

LEMMA BenchInvStep == BenchInv /\ [BenchNext]_benchVars => BenchInv'
<1> SUFFICES ASSUME BenchInv, [BenchNext]_benchVars PROVE BenchInv'
  OBVIOUS
<1>1. Inv /\ Inv' /\ TypeOK /\ [Next]_vars /\ BenchTypeOK
  BY BenchStepsAreSteps, InvStep DEF BenchInv, Inv
<1>2. CASE answers' = NoAnswers
  <2>1. /\ BenchTypeOK' /\ ClosedIsEmpty' /\ OneByOne' /\ ListsLast' /\ WinnersShown'
        /\ AcceptedShown' /\ PageIsCoherent'
    BY <1>2 DEF NoAnswers, Query, BenchTypeOK, ClosedIsEmpty, OneByOne, ListsLast, WinnersShown,
                AcceptedShown, PageIsCoherent
  <2> QED
    BY <1>1, <2>1 DEF BenchInv
<1>3. CASE UNCHANGED <<reader, answers>>
  BY <1>1, <1>3, OthersKeepAnswers
<1>4. ASSUME NEW u \in User, Open(u) PROVE BenchInv'
  BY <1>2, <1>4 DEF Open, BenchInv, ClosedIsEmpty
<1>5. ASSUME NEW i \in 1..Len(InOrder), Ask(i) PROVE BenchInv'
  <2>1. PICK query \in Query :
              /\ answers[query] = None
              /\ answers' = [answers EXCEPT ![query] = Result(query, reader)]
              /\ UNCHANGED <<vars, reader>> /\ reader # None
              /\ query # "requirements" => answers["requirements"] # None
              /\ query \notin {"requirements", "requirementBids"} =>
                     answers["requirementBids"] # None
              /\ query \notin {"requirements", "requirementBids", "bids"} =>
                     answers["bids"] # None
              /\ query \in {"requirementCount", "bidCount", "contractCount"} =>
                     answers["contracts"] # None
    BY <1>1, <1>5, Asking
  <2>2. CASE query = "requirements"
    BY <2>1, <2>2, AskRequirements
  <2>3. CASE query = "requirementBids"
    BY <2>1, <2>3, AskRequirementBids
  <2>4. CASE query = "bids"
    BY <2>1, <2>4, AskBids
  <2>5. CASE query = "contracts"
    BY <2>1, <2>5, AskContracts
  <2>6. CASE query \in {"requirementCount", "bidCount", "contractCount"}
    <3>1. PICK count : count = Result(query, reader)
      OBVIOUS
    <3> QED
      BY <2>1, <2>6, <3>1, AskCount
  <2> QED
    BY <2>2, <2>3, <2>4, <2>5, <2>6 DEF Query
<1> QED
  BY <1>2, <1>3, <1>4, <1>5 DEF BenchNext, benchVars, Leave, Answer

THEOREM BenchInvariant == BenchSpec => []BenchInv
  BY BenchInvInit, BenchInvStep, PTL DEF BenchSpec

\* The dashboard's payload, though it is read query by query while the tables
\* change, never shows an accepted bid or a winner without the contract.
THEOREM PagesAreCoherent == BenchSpec => []PageIsCoherent
<1>1. BenchInv => PageIsCoherent
  BY DEF BenchInv
<1> QED
  BY <1>1, BenchInvariant, PTL

-----------------------------------------------------------------------------
(* The counts.                                                              *)

\* A count is at least its list's length when it is made.
LEMMA CountCovers ==
    ASSUME IsFiniteSet(RequirementId), IsFiniteSet(BidId), Inv, NEW u
    PROVE  /\ \A list \in SUBSET Rows(ListByPublisher(u)) :
                  Cardinality(list) <= Result("requirementCount", u)
           /\ \A list \in SUBSET Rows(ListByBidder(u)) :
                  Cardinality(list) <= Result("bidCount", u)
           /\ \A list \in SUBSET Rows(ListByParty(u)) :
                  Cardinality(list) <= Result("contractCount", u)
<1>1. /\ Rows(ListByPublisher(u)) \in SUBSET RequirementId
      /\ Rows(ListByBidder(u)) \in SUBSET BidId
      /\ Rows(ListByParty(u)) \in SUBSET BidId
  BY DEF Inv, TypeOK, Rows, ListByPublisher, ListByBidder, ListByParty, Where
<1>2. /\ IsFiniteSet(Rows(ListByPublisher(u)))
      /\ IsFiniteSet(Rows(ListByBidder(u)))
      /\ IsFiniteSet(Rows(ListByParty(u)))
  BY <1>1, FS_Subset
<1>3. /\ Result("requirementCount", u) = Cardinality(Rows(ListByPublisher(u)))
      /\ Result("bidCount", u) = Cardinality(Rows(ListByBidder(u)))
      /\ Result("contractCount", u) = Cardinality(Rows(ListByParty(u)))
  BY DEF Result
<1> QED
  BY <1>2, <1>3, FS_Subset

\* Above a list there is never a number smaller than it.
THEOREM CountsCover ==
    ASSUME IsFiniteSet(RequirementId), IsFiniteSet(BidId)
    PROVE  BenchSpec => []CountsCoverLists
<1>1. BenchInit => CountsCoverLists
  BY DEF BenchInit, NoAnswers, Query, CountsCoverLists
<1>2. BenchInv /\ CountsCoverLists /\ [BenchNext]_benchVars => CountsCoverLists'
  <2> SUFFICES ASSUME BenchInv, CountsCoverLists, [BenchNext]_benchVars
               PROVE  CountsCoverLists'
    OBVIOUS
  <2>1. CASE answers' = NoAnswers
    BY <2>1 DEF NoAnswers, Query, CountsCoverLists
  <2>2. CASE UNCHANGED answers
    BY <2>2 DEF CountsCoverLists
  <2>3. ASSUME NEW i \in 1..Len(InOrder), Ask(i) PROVE CountsCoverLists'
    <3>1. PICK query \in Query :
              /\ answers[query] = None
              /\ answers' = [answers EXCEPT ![query] = Result(query, reader)]
      BY <2>3, Asking DEF BenchInv
    <3>2. /\ answers'[query] = Result(query, reader)
          /\ \A other \in Query : other # query => answers'[other] = answers[other]
      BY <3>1 DEF BenchInv, BenchTypeOK
    <3>3. CASE query \in {"requirements", "requirementBids", "bids", "contracts"}
      BY <3>1, <3>2, <3>3 DEF BenchInv, OneByOne, CountsCoverLists, Query
    <3>4. CASE query = "requirementCount"
      <4>1. answers["requirements"] # None =>
                Cardinality(Rows(answers["requirements"])) <= answers'["requirementCount"]
        BY <3>2, <3>4, CountCovers DEF BenchInv, ListsLast
      <4> QED
        BY <3>2, <3>4, <4>1 DEF CountsCoverLists, Query
    <3>5. CASE query = "bidCount"
      <4>1. answers["bids"] # None =>
                Cardinality(Rows(answers["bids"])) <= answers'["bidCount"]
        BY <3>2, <3>5, CountCovers DEF BenchInv, ListsLast
      <4> QED
        BY <3>2, <3>5, <4>1 DEF CountsCoverLists, Query
    <3>6. CASE query = "contractCount"
      <4>1. answers["contracts"] # None =>
                Cardinality(Rows(answers["contracts"])) <= answers'["contractCount"]
        BY <3>2, <3>6, CountCovers DEF BenchInv, ListsLast
      <4> QED
        BY <3>2, <3>6, <4>1 DEF CountsCoverLists, Query
    <3> QED
      BY <3>3, <3>4, <3>5, <3>6 DEF Query
  <2>4. ASSUME NEW u \in User, Open(u) PROVE CountsCoverLists'
    BY <2>2, <2>4 DEF Open
  <2> QED
    BY <2>1, <2>2, <2>3, <2>4 DEF BenchNext, benchVars, Leave, Answer
<1> QED
  BY <1>1, <1>2, BenchInvariant, PTL DEF BenchSpec

=============================================================================
