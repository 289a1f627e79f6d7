------------------------- MODULE RetrievalContract -------------------------
(***************************************************************************)
(* What AgenticRetrievalRunner.search promises to its two callers, the     *)
(* retriever node and the search_knowledge_base tool: a call ends with one *)
(* KnowledgeSearchResult that keeps to its rounds and is called sufficient *)
(* only when it has evidence, or it raises.                                *)
(***************************************************************************)
EXTENDS Integers

CONSTANTS
  Chunks,     \* chunks of the knowledge base
  MaxRounds   \* settings.max_agentic_retrieval_rounds

VARIABLES
  phase,      \* of the latest call
  rounds,     \* the rounds it may take
  result      \* its KnowledgeSearchResult

contractVars == <<phase, rounds, result>>

\* The results of a call that may take up to `most` rounds.
Results(most) ==
  {r \in [evidence : SUBSET Chunks, sufficient : BOOLEAN, rounds : 1..most] :
     r.sufficient => r.evidence # {}}

NoResult == [evidence |-> {}, sufficient |-> FALSE, rounds |-> 0]

Init ==
  /\ phase = "none"
  /\ rounds = 1
  /\ result = NoResult

Call ==
  /\ phase # "searching"
  /\ phase' = "searching"
  /\ rounds' \in 1..MaxRounds
  /\ result' = NoResult

Answer ==
  /\ phase = "searching"
  /\ phase' = "answered"
  /\ result' \in Results(rounds)
  /\ UNCHANGED rounds

Raise ==
  /\ phase = "searching"
  /\ phase' = "raised"
  /\ UNCHANGED <<rounds, result>>

Next == Call \/ Answer \/ Raise

Spec == Init /\ [][Next]_contractVars
=============================================================================
