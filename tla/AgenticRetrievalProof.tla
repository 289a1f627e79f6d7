----------------------- MODULE AgenticRetrievalProof -----------------------
(***************************************************************************)
(* For every number of queries, chunks and rounds: a search keeps its      *)
(* types and bounds, repeats no query, brings in no chunk of its own, ends *)
(* within LangGraph's recursion limit, and implements RetrievalContract.   *)
(***************************************************************************)
EXTENDS AgenticRetrieval, TLAPS

-----------------------------------------------------------------------------
(* The inductive invariant.                                                *)

\* Nothing was searched before the first round.
FreshAtPlanner == node = "retrieval_planner" => round = 0 /\ previous = {}

\* The executor always has a query to search, which no round searched before.
NewQueriesAtExecutor ==
  node = "retrieval_executor" => current # {} /\ current \intersect previous = {}

\* What may be accepted was found.
EvidenceKnown ==
  /\ node = "evidence_grader" => candidates \subseteq found
  /\ accepted \subseteq found
  /\ result.evidence \subseteq found
  /\ sufficient => accepted # {}

\* Three supersteps make a round, after the planner's one.
StepsOfRounds ==
  /\ node = "retrieval_planner" => supersteps = 0
  /\ node = "retrieval_executor" => supersteps = 3 * round + 1 /\ round < maxRounds
  /\ node = "evidence_grader" => supersteps = 3 * round - 1 /\ round > 0
  /\ node = "retrieval_refiner" => supersteps = 3 * round /\ round > 0 /\ round < maxRounds
  /\ node = "context_builder" => supersteps <= 3 * round + 1 /\ round > 0

IInv == TypeOK /\ FreshAtPlanner /\ NewQueriesAtExecutor /\ EvidenceKnown /\ StepsOfRounds

USE DEF Nodes, RecursionLimit

\* The empty result is a result, of no evidence.
LEMMA NoResultEmpty ==
  /\ Contract!NoResult \in [evidence : SUBSET Chunks, sufficient : BOOLEAN, rounds : Nat]
  /\ Contract!NoResult.evidence = {}
BY DEF Contract!NoResult

\* Cutting a set of queries to its first one leaves a part of it, empty only when the
\* set is.
LEMMA FirstOfPart ==
  ASSUME NEW S, NEW T \in {S} \union FirstOf(S)
  PROVE  T \subseteq S /\ (T = {} <=> S = {})
BY DEF FirstOf

LEMMA InitIInv == Init => IInv
<1> SUFFICES ASSUME Init PROVE IInv
  OBVIOUS
<1>1. TypeOK
  <2>1. (result \in [evidence : SUBSET Chunks, sufficient : BOOLEAN, rounds : Nat])
    BY NoResultEmpty DEF Init
  <2>2. (sufficient \in BOOLEAN /\ forceStop \in BOOLEAN)
    BY DEF Init
  <2> QED
    BY <2>1, <2>2, MaxRoundsAssumption DEF Init, TypeOK
<1>2. FreshAtPlanner /\ NewQueriesAtExecutor /\ EvidenceKnown /\ StepsOfRounds
  BY NoResultEmpty DEF Init, FreshAtPlanner, NewQueriesAtExecutor, EvidenceKnown, StepsOfRounds
<1> QED
  BY <1>1, <1>2 DEF IInv

LEMMA SearchIInv == IInv /\ Search => IInv'
<1> SUFFICES ASSUME Search PROVE IInv'
  OBVIOUS
<1>1. TypeOK'
  <2>1. (result \in [evidence : SUBSET Chunks, sufficient : BOOLEAN, rounds : Nat])'
    BY NoResultEmpty DEF Search
  <2>2. (sufficient \in BOOLEAN /\ forceStop \in BOOLEAN)'
    BY DEF Search
  <2> QED
    BY <2>1, <2>2, MaxRoundsAssumption DEF Search, TypeOK
<1>2. (FreshAtPlanner /\ NewQueriesAtExecutor /\ EvidenceKnown /\ StepsOfRounds)'
  BY NoResultEmpty DEF Search, FreshAtPlanner, NewQueriesAtExecutor, EvidenceKnown, StepsOfRounds
<1> QED
  BY <1>1, <1>2 DEF IInv

LEMMA PlanRetrievalIInv == IInv /\ PlanRetrieval => IInv'
<1> SUFFICES ASSUME IInv, PlanRetrieval PROVE IInv'
  OBVIOUS
<1>1. current' \subseteq Queries /\ current' # {}
  <2>1. PICK S \in NormalizedQueries :
          LET planned == IF S = {} THEN {OriginalQuery} ELSE S
          IN  current' \in {planned} \union FirstOf(planned)
    BY DEF PlanRetrieval
  <2> DEFINE planned == IF S = {} THEN {OriginalQuery} ELSE S
  <2>2. planned \subseteq Queries /\ planned # {}
    BY OriginalQueryAssumption DEF NormalizedQueries
  <2>3. current' \in {planned} \union FirstOf(planned)
    BY <2>1
  <2> HIDE DEF planned
  <2> QED
    BY <2>2, <2>3, FirstOfPart
<1>2. TypeOK'
  BY <1>1 DEF IInv, TypeOK, PlanRetrieval, At
<1>3. (FreshAtPlanner /\ NewQueriesAtExecutor /\ EvidenceKnown)'
  BY <1>1 DEF IInv, PlanRetrieval, At, FreshAtPlanner, NewQueriesAtExecutor, EvidenceKnown
<1>4. StepsOfRounds'
  BY DEF IInv, PlanRetrieval, At, FreshAtPlanner, StepsOfRounds, TypeOK
<1> QED
  BY <1>2, <1>3, <1>4 DEF IInv

LEMMA ExecuteRetrievalIInv == IInv /\ ExecuteRetrieval => IInv'
<1> SUFFICES ASSUME IInv, ExecuteRetrieval PROVE IInv'
  OBVIOUS
<1>1. round' = round + 1 /\ round < maxRounds /\ candidates' \subseteq Chunks
  BY DEF IInv, ExecuteRetrieval, At, NewQueriesAtExecutor, StepsOfRounds
<1>2. forceStop' \in BOOLEAN
  BY DEF IInv, TypeOK, ExecuteRetrieval
<1>3. TypeOK'
  BY <1>1, <1>2 DEF IInv, TypeOK, ExecuteRetrieval, At
<1>4. (FreshAtPlanner /\ NewQueriesAtExecutor /\ EvidenceKnown)'
  BY DEF IInv, ExecuteRetrieval, FreshAtPlanner, NewQueriesAtExecutor, EvidenceKnown
<1>5. StepsOfRounds'
  BY <1>1 DEF IInv, ExecuteRetrieval, At, StepsOfRounds, TypeOK
<1> QED
  BY <1>3, <1>4, <1>5 DEF IInv

LEMMA GradeEvidenceIInv == IInv /\ GradeEvidence => IInv'
<1> SUFFICES ASSUME IInv, GradeEvidence PROVE IInv'
  OBVIOUS
<1>1. PICK ids \in SUBSET Chunks, claim \in BOOLEAN, conflicts \in BOOLEAN :
        /\ sufficient' = Suffices(claim, ids, conflicts)
        /\ accepted' = accepted \union Relevant(ids)
  BY DEF GradeEvidence
<1>2. /\ sufficient' \in BOOLEAN
      /\ sufficient' => accepted' # {}
      /\ accepted' \subseteq Chunks
  BY <1>1 DEF Suffices, Relevant, IInv, TypeOK
<1>3. accepted' \subseteq found
  BY <1>1 DEF Relevant, IInv, EvidenceKnown, GradeEvidence, At
<1>4. \/ node' = "context_builder"
      \/ node' = "retrieval_refiner" /\ round < maxRounds
  BY DEF IInv, TypeOK, GradeEvidence, At, RouteAfterGrade
<1>5. TypeOK'
  BY <1>2, <1>4 DEF IInv, TypeOK, GradeEvidence, At
<1>6. (FreshAtPlanner /\ NewQueriesAtExecutor /\ EvidenceKnown)'
  BY <1>2, <1>3, <1>4
  DEF IInv, GradeEvidence, At, FreshAtPlanner, NewQueriesAtExecutor, EvidenceKnown
<1>7. StepsOfRounds'
  BY <1>4 DEF IInv, GradeEvidence, At, StepsOfRounds, TypeOK
<1> QED
  BY <1>5, <1>6, <1>7 DEF IInv

LEMMA RefineRetrievalIInv == IInv /\ RefineRetrieval => IInv'
<1> SUFFICES ASSUME IInv, RefineRetrieval PROVE IInv'
  OBVIOUS
<1>1. PICK S \in NormalizedQueries : current' \in {NewQueries(S)} \union FirstOf(NewQueries(S))
  BY DEF RefineRetrieval
<1>2. current' \subseteq Queries \ previous
  BY <1>1, FirstOfPart DEF NewQueries, NormalizedQueries
<1>3. \/ node' = "context_builder"
      \/ node' = "retrieval_executor" /\ current' # {}
  BY DEF RefineRetrieval
<1>4. forceStop' \in BOOLEAN
  BY DEF RefineRetrieval
<1>5. TypeOK'
  BY <1>2, <1>3, <1>4 DEF IInv, TypeOK, RefineRetrieval, At
<1>6. (FreshAtPlanner /\ NewQueriesAtExecutor /\ EvidenceKnown)'
  BY <1>2, <1>3
  DEF IInv, RefineRetrieval, At, FreshAtPlanner, NewQueriesAtExecutor, EvidenceKnown
<1>7. StepsOfRounds'
  BY <1>3 DEF IInv, RefineRetrieval, At, StepsOfRounds, TypeOK
<1> QED
  BY <1>5, <1>6, <1>7 DEF IInv

LEMMA BuildContextIInv == IInv /\ BuildContext => IInv'
<1> SUFFICES ASSUME IInv, BuildContext PROVE IInv'
  OBVIOUS
<1>1. /\ result' \in [evidence : SUBSET Chunks, sufficient : BOOLEAN, rounds : Nat]
      /\ result'.evidence = accepted
  BY DEF IInv, TypeOK, BuildContext
<1>2. TypeOK'
  BY <1>1 DEF IInv, TypeOK, BuildContext, At
<1>3. (FreshAtPlanner /\ NewQueriesAtExecutor /\ EvidenceKnown /\ StepsOfRounds)'
  BY <1>1 DEF IInv, BuildContext, FreshAtPlanner, NewQueriesAtExecutor, EvidenceKnown, StepsOfRounds
<1> QED
  BY <1>2, <1>3 DEF IInv

LEMMA RaiseIInv == IInv /\ Raise => IInv'
BY DEF IInv, Raise, TypeOK, FreshAtPlanner, NewQueriesAtExecutor, EvidenceKnown, StepsOfRounds

LEMMA NextIInv == IInv /\ [Next]_vars => IInv'
<1> SUFFICES ASSUME IInv, [Next]_vars PROVE IInv'
  OBVIOUS
<1>1. CASE Next
  BY <1>1, SearchIInv, PlanRetrievalIInv, ExecuteRetrievalIInv, GradeEvidenceIInv,
     RefineRetrievalIInv, BuildContextIInv, RaiseIInv DEF Next, Step
<1>2. CASE UNCHANGED vars
  BY <1>2 DEF vars, IInv, TypeOK, FreshAtPlanner, NewQueriesAtExecutor, EvidenceKnown, StepsOfRounds
<1> QED
  BY <1>1, <1>2

THEOREM Inductive == Spec => []IInv
<1>1. Init => IInv
  BY InitIInv
<1>2. IInv /\ [Next]_vars => IInv'
  BY NextIInv
<1> QED
  BY <1>1, <1>2, PTL DEF Spec

-----------------------------------------------------------------------------

\* A search keeps its types, and its rounds to those it was given.
THEOREM TypeCorrect == Spec => []TypeOK
<1>1. IInv => TypeOK
  BY DEF IInv
<1> QED
  BY <1>1, Inductive, PTL

\* No query is searched twice, whatever the models answer.
THEOREM QueriesNotRepeated == Spec => []NoQueryRepeated
<1>1. IInv => NoQueryRepeated
  BY DEF IInv, NewQueriesAtExecutor, NoQueryRepeated
<1> QED
  BY <1>1, Inductive, PTL

\* All evidence was found by a search of the same call.
THEOREM EvidenceIsFound == Spec => []EvidenceFound
<1>1. IInv => EvidenceFound
  BY DEF IInv, EvidenceKnown, EvidenceFound
<1> QED
  BY <1>1, Inductive, PTL

\* The recursion limit 4 * rounds + 6 suffices for every number of rounds.
THEOREM RecursionLimitSuffices == Spec => []RecursionSuffices
<1>1. IInv => RecursionSuffices
  <2> SUFFICES ASSUME IInv, node \in Nodes PROVE supersteps < RecursionLimit
    BY DEF RecursionSuffices
  <2>1. round \in Nat /\ maxRounds \in Nat /\ supersteps \in Nat /\ round <= maxRounds
    BY DEF IInv, TypeOK
  <2>2. supersteps <= 3 * round + 1
    BY <2>1 DEF IInv, StepsOfRounds, FreshAtPlanner
  <2> QED
    BY <2>1, <2>2
<1> QED
  BY <1>1, Inductive, PTL

-----------------------------------------------------------------------------
(* The subgraph implements what its callers rely on.                       *)

LEMMA InitImplements == Init => Contract!Init
BY DEF Init, Contract!Init

LEMMA StepImplements == IInv /\ [Next]_vars => [Contract!Next]_(Contract!contractVars)
<1> SUFFICES ASSUME IInv, [Next]_vars PROVE [Contract!Next]_(Contract!contractVars)
  OBVIOUS
<1>1. CASE Search
  <2>1. Contract!Call
    BY <1>1 DEF Search, Contract!Call, IInv, TypeOK
  <2> QED
    BY <2>1 DEF Contract!Next
<1>2. CASE BuildContext
  <2>1. result' \in Contract!Results(maxRounds)
    BY <1>2 DEF BuildContext, At, Contract!Results, IInv, TypeOK, EvidenceKnown, StepsOfRounds
  <2>2. Contract!Answer
    BY <1>2, <2>1 DEF BuildContext, At, Contract!Answer
  <2> QED
    BY <2>2 DEF Contract!Next
<1>3. CASE Raise
  <2>1. Contract!Raise
    BY <1>3 DEF Raise, Contract!Raise
  <2> QED
    BY <2>1 DEF Contract!Next
<1>4. ASSUME PlanRetrieval \/ ExecuteRetrieval \/ GradeEvidence \/ RefineRetrieval
      PROVE  UNCHANGED Contract!contractVars
  <2>1. node \in Nodes \ {"raised"} /\ node' \in Nodes
    BY <1>4 DEF PlanRetrieval, ExecuteRetrieval, GradeEvidence, RefineRetrieval, At, RouteAfterGrade
  <2>2. UNCHANGED <<maxRounds, result>>
    BY <1>4 DEF PlanRetrieval, ExecuteRetrieval, GradeEvidence, RefineRetrieval, At
  <2> QED
    BY <2>1, <2>2 DEF Contract!contractVars
<1>5. CASE UNCHANGED vars
  BY <1>5 DEF vars, Contract!contractVars
<1> QED
  BY <1>1, <1>2, <1>3, <1>4, <1>5 DEF Next, Step

\* Every search is one call of the contract: it ends with a result that keeps to its
\* rounds and is sufficient only with evidence, or raises.
THEOREM SearchImplementsContract == Spec => ImplementsContract
<1>1. Init => Contract!Init
  BY InitImplements
<1>2. IInv /\ [Next]_vars => [Contract!Next]_(Contract!contractVars)
  BY StepImplements
<1> QED
  BY <1>1, <1>2, Inductive, PTL DEF Spec, ImplementsContract, Contract!Spec
=============================================================================
