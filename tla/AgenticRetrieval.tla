-------------------------- MODULE AgenticRetrieval --------------------------
(***************************************************************************)
(* The retrieval subgraph (app/rag/agentic), one search at a time: plan    *)
(* queries, execute a round, grade the evidence, and refine the queries    *)
(* until the evidence suffices, the rounds are spent or no new query is    *)
(* left.  An action is one node with the edge taken after it.  What a      *)
(* language model answers is any value its schema allows.                  *)
(*                                                                         *)
(* Queries stand for themselves after strip and casefold, and a list of    *)
(* queries without repetitions is the set of them: the model decides their *)
(* order, so cutting the list leaves an arbitrary part of it.              *)
(***************************************************************************)
EXTENDS Integers, FiniteSets

CONSTANTS
  Queries,        \* search queries
  OriginalQuery,  \* the question of the call
  Chunks,         \* chunks of the knowledge base
  MaxRounds,      \* settings.max_agentic_retrieval_rounds
  MaxQueries      \* settings.max_retrieval_queries_per_round

ASSUME OriginalQueryAssumption == OriginalQuery \in Queries
ASSUME MaxRoundsAssumption == MaxRounds \in Nat \ {0}
ASSUME MaxQueriesAssumption == MaxQueries \in Nat \ {0}

VARIABLES
  node,        \* the node to run, or how the latest search ended
  maxRounds,   \* max_retrieval_rounds of the call
  current,     \* current_queries
  previous,    \* previous_queries
  candidates,  \* candidate_documents
  accepted,    \* accepted_documents
  sufficient,  \* evidence_grade.sufficient
  round,       \* retrieval_round
  forceStop,   \* force_stop
  result,      \* final_result
  supersteps,  \* LangGraph's supersteps of this call
  found        \* history: the chunks some search of this call returned

vars == <<node, maxRounds, current, previous, candidates, accepted, sufficient,
          round, forceStop, result, supersteps, found>>

Contract == INSTANCE RetrievalContract WITH
  phase <- CASE node = "idle" -> "none" [] node = "end" -> "answered"
             [] node = "raised" -> "raised" [] OTHER -> "searching",
  rounds <- maxRounds

Nodes == {"retrieval_planner", "retrieval_executor", "evidence_grader",
          "retrieval_refiner", "context_builder"}

\* recursion_limit of the runner's config.
RecursionLimit == 4 * maxRounds + 6

Init ==
  /\ node = "idle"
  /\ maxRounds = 1
  /\ current = {} /\ previous = {}
  /\ candidates = {} /\ accepted = {}
  /\ sufficient = FALSE
  /\ round = 0
  /\ forceStop = FALSE
  /\ result = Contract!NoResult
  /\ supersteps = 0
  /\ found = {}

\* search: the input of a new call.  max_rounds is capped by the settings.
Search ==
  /\ node \notin Nodes
  /\ node' = "retrieval_planner"
  /\ maxRounds' \in 1..MaxRounds
  /\ current' = {} /\ previous' = {}
  /\ candidates' = {} /\ accepted' = {}
  /\ sufficient' = FALSE
  /\ round' = 0
  /\ forceStop' = FALSE
  /\ result' = Contract!NoResult
  /\ supersteps' = 0
  /\ found' = {}

\* Node n runs, unless the call has used up its supersteps.
At(n) ==
  /\ node = n
  /\ supersteps < RecursionLimit
  /\ supersteps' = supersteps + 1
  /\ UNCHANGED maxRounds

\* What _normalize_queries can make of a model's list.
NormalizedQueries == {S \in SUBSET Queries : Cardinality(S) <= MaxQueries}

\* queries[:1]
FirstOf(S) == IF S = {} THEN {{}} ELSE {{q} : q \in S}

\* plan_retrieval: strategies single and rewrite keep one query.
PlanRetrieval ==
  /\ At("retrieval_planner")
  /\ \E S \in NormalizedQueries :
       LET planned == IF S = {} THEN {OriginalQuery} ELSE S
       IN  current' \in {planned} \union FirstOf(planned)
  /\ node' = "retrieval_executor"
  /\ UNCHANGED <<previous, candidates, accepted, sufficient, round, forceStop, result, found>>

\* execute_retrieval: all queries are searched, and their results fused.  With no
\* query left nothing is searched and the round does not count.
ExecuteRetrieval ==
  /\ At("retrieval_executor")
  /\ candidates' \in IF current = {} THEN {{}} ELSE SUBSET Chunks
  /\ found' = found \union candidates'
  /\ previous' = previous \union current
  /\ round' = IF current = {} THEN round ELSE round + 1
  /\ forceStop' = (forceStop \/ current = {})
  /\ node' = "evidence_grader"
  /\ UNCHANGED <<current, accepted, sufficient, result>>

\* Mutant: the chunk ids of a grade are taken as the model gives them.
RelevantUnchecked(ids) == ids

\* The chunk ids a grade may keep: those of the evidence it was shown.
Relevant(ids) == ids \intersect (accepted \union candidates)

\* Mutant: evidence is called sufficient although none of it is relevant.
SufficesEmpty(claim, ids, conflicts) == claim /\ ~conflicts

\* A model's claim that the evidence suffices is believed only with relevant
\* evidence and without conflicts.
Suffices(claim, ids, conflicts) == claim /\ Relevant(ids) # {} /\ ~conflicts

\* Mutant: the rounds are not looked at.
RouteAfterGradeUnbounded(isSufficient) ==
  IF isSufficient \/ forceStop THEN "context_builder" ELSE "retrieval_refiner"

\* _route_after_grade
RouteAfterGrade(isSufficient) ==
  IF isSufficient \/ forceStop \/ round >= maxRounds
  THEN "context_builder"
  ELSE "retrieval_refiner"

\* grade_evidence: `claim` is the model's sufficient, `conflicts` whether it names
\* conflicts.  Without evidence no model is asked, and nothing is relevant.
GradeEvidence ==
  /\ At("evidence_grader")
  /\ \E ids \in SUBSET Chunks, claim, conflicts \in BOOLEAN :
       /\ sufficient' = Suffices(claim, ids, conflicts)
       /\ accepted' = accepted \union Relevant(ids)
  /\ node' = RouteAfterGrade(sufficient')
  /\ UNCHANGED <<current, previous, candidates, round, forceStop, result, found>>

\* Mutant: queries that were searched before are kept.
NewQueriesUnfiltered(S) == S

\* The queries of a refinement that were not searched yet.
NewQueries(S) == S \ previous

\* refine_retrieval: action rewrite keeps one query.
RefineRetrieval ==
  /\ At("retrieval_refiner")
  /\ \E S \in NormalizedQueries :
       current' \in {NewQueries(S)} \union FirstOf(NewQueries(S))
  /\ candidates' = {}
  /\ forceStop' = (current' = {})
  /\ node' = IF forceStop' THEN "context_builder" ELSE "retrieval_executor"
  /\ UNCHANGED <<previous, accepted, sufficient, round, result, found>>

\* build_context
BuildContext ==
  /\ At("context_builder")
  /\ result' = [evidence |-> accepted, sufficient |-> sufficient, rounds |-> round]
  /\ node' = "end"
  /\ UNCHANGED <<current, previous, candidates, accepted, sufficient, round, forceStop, found>>

\* A model, the search service or LangGraph's recursion limit ends the call.
Raise ==
  /\ node \in Nodes
  /\ node' = "raised"
  /\ UNCHANGED <<maxRounds, current, previous, candidates, accepted, sufficient,
                 round, forceStop, result, supersteps, found>>

Step == \/ PlanRetrieval \/ ExecuteRetrieval \/ GradeEvidence
        \/ RefineRetrieval \/ BuildContext \/ Raise

Next == Search \/ Step

Spec == Init /\ [][Next]_vars

-----------------------------------------------------------------------------

\* Types; a call never searches more rounds than it was given.
TypeOK ==
  /\ node \in Nodes \union {"idle", "end", "raised"}
  /\ maxRounds \in 1..MaxRounds
  /\ current \subseteq Queries
  /\ previous \subseteq Queries
  /\ candidates \subseteq Chunks
  /\ accepted \subseteq Chunks
  /\ sufficient \in BOOLEAN
  /\ round \in 0..maxRounds
  /\ forceStop \in BOOLEAN
  /\ result \in [evidence : SUBSET Chunks, sufficient : BOOLEAN, rounds : Nat]
  /\ supersteps \in Nat
  /\ found \subseteq Chunks

\* No query is searched twice in a call, however often the refiner's model
\* repeats itself: executor and refiner keep current_queries and
\* previous_queries apart.
NoQueryRepeated == node = "retrieval_executor" => current \intersect previous = {}

\* What is handed over as evidence came from a search of this call: a grade
\* cannot bring in a chunk id of its own, in whatever round.
EvidenceFound ==
  /\ accepted \subseteq found
  /\ result.evidence \subseteq found

\* The recursion limit of the runner is never what ends a call.
RecursionSuffices == node \in Nodes => supersteps < RecursionLimit

\* The subgraph keeps the contract its callers rely on.
ImplementsContract == Contract!Spec
=============================================================================
