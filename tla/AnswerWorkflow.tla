--------------------------- MODULE AnswerWorkflow ---------------------------
(***************************************************************************)
(* The parent graph (app/graph): the turns of one conversation, node by    *)
(* node.  An action is one node with the edge taken after it; what it      *)
(* leaves in the variables is what LangGraph's checkpoint holds.  A run of *)
(* the graph may end before the turn does, and resuming runs the node of   *)
(* the checkpoint again.  A language model answers any value its schema    *)
(* allows; a search answers what RetrievalContract promises.               *)
(*                                                                         *)
(* A plan step is its step_id.  A draft answer is told by whether it is    *)
(* empty, which chunk ids it cites, and whether the marks [n] in its text  *)
(* match them.  plan[index] is the step that plan[current_step_index] is   *)
(* in the code, where indices begin with 0.                                *)
(***************************************************************************)
EXTENDS Integers, Sequences, FiniteSets

CONSTANTS
  Chunks,          \* chunks of the knowledge base
  Fabricated,      \* a chunk id that no chunk has
  MaxPlanSteps,    \* settings.max_plan_steps
  MaxReplans,      \* settings.max_replan_count
  MaxReflections,  \* settings.max_reflection_count
  MaxRetrievals,   \* settings.max_retrieval_count
  MaxRounds,       \* settings.max_agentic_retrieval_rounds
  MaxToolCalls,    \* settings.react_max_tool_calls
  RecursionLimit,  \* recursion_limit of the runtime's config
  MaxStepId        \* bound: step ids a replanning model may come up with

ASSUME FabricatedAssumption == Fabricated \notin Chunks
ASSUME LimitsAssumption ==
  /\ MaxPlanSteps \in Nat \ {0}
  /\ MaxReplans \in Nat
  /\ MaxReflections \in Nat
  /\ MaxRetrievals \in Nat \ {0}
  /\ MaxRounds \in Nat \ {0}
  /\ MaxToolCalls \in Nat \ {0}
  /\ RecursionLimit \in Nat \ {0}
  /\ MaxStepId \in Nat
  /\ MaxStepId >= MaxPlanSteps

VARIABLES
  node,         \* the node to run next; "end" between turns
  running,      \* whether a run of the graph goes on
  supersteps,   \* supersteps of the run that goes on
  route,        \* route_type
  knowledge,    \* whether required_capabilities contains "knowledge"
  plan,         \* plan
  index,        \* current_step_index
  completed,    \* step ids of completed_steps
  chunks,       \* retrieved_chunks
  grade,        \* retrieval_grade
  draft,        \* draft_answer, cited_chunk_ids
  mode,         \* generation_mode
  status,       \* answer_status
  evaluation,   \* answer_evaluation
  judged,       \* history: whether the evaluation is of this draft
  replans,      \* replan_count
  reflections,  \* reflection_count
  retrievals    \* retrieval_count

runVars == <<node, running, supersteps>>
planVars == <<plan, index, completed>>
evidenceVars == <<chunks, grade, retrievals>>
draftVars == <<draft, judged>>
vars == <<runVars, route, knowledge, planVars, evidenceVars, draftVars,
          mode, status, evaluation, replans, reflections>>

SearchOutcome == INSTANCE RetrievalContract WITH
  phase <- "none", rounds <- 1, result <- [evidence |-> {}, sufficient |-> FALSE, rounds |-> 0]

StepIds == 1..MaxStepId

Nodes == {"initialize_turn", "router", "general_chat", "react_adapter", "planner",
          "executor_select", "retriever", "executor_complete", "replanner",
          "generator", "answer_evaluator", "reflection", "best_effort",
          "fallback_answer", "finalize_answer"}

\* Texts: none at all, empty, what a model wrote, or the fixed refusal.
Drafts == [text : {"none", "empty", "answer", "refusal"},
           cited : SUBSET (Chunks \union {Fabricated}), matches : BOOLEAN]

NoDraft == [text |-> "none", cited |-> {}, matches |-> TRUE]

\* insufficient_evidence_answer
Refusal == [text |-> "refusal", cited |-> {}, matches |-> TRUE]

\* What a model may write: any chunk id, and an empty text has no marks.
ModelDrafts ==
  {d \in Drafts : /\ d.text \in {"empty", "answer"}
                  /\ d.text = "empty" => d.matches = (d.cited = {})}

HasText == draft.text \notin {"none", "empty"}

Init ==
  /\ node = "end" /\ running = FALSE /\ supersteps = 0
  /\ route = "none" /\ knowledge = FALSE
  /\ plan = <<>> /\ index = 1 /\ completed = <<>>
  /\ chunks = {} /\ grade = "none" /\ retrievals = 0
  /\ draft = NoDraft /\ judged = FALSE
  /\ mode = "normal" /\ status = "none" /\ evaluation = "none"
  /\ replans = 0 /\ reflections = 0

-----------------------------------------------------------------------------
(* Runs of the graph.                                                      *)

\* new_turn_input: only the question is new.
NewTurn ==
  /\ node = "end"
  /\ node' = "initialize_turn"
  /\ running' = TRUE
  /\ supersteps' = 0
  /\ UNCHANGED <<route, knowledge, planVars, evidenceVars, draftVars,
                 mode, status, evaluation, replans, reflections>>

\* Resuming goes on from the checkpoint.
Resume ==
  /\ ~running
  /\ node # "end"
  /\ running' = TRUE
  /\ UNCHANGED <<node, supersteps, route, knowledge, planVars, evidenceVars, draftVars,
                 mode, status, evaluation, replans, reflections>>

\* A node raises, the recursion limit is reached, or the client is gone.
RunEnds ==
  /\ running
  /\ running' = FALSE
  /\ supersteps' = 0
  /\ UNCHANGED <<node, route, knowledge, planVars, evidenceVars,
                 draftVars, mode, status, evaluation, replans, reflections>>

\* Node n runs, unless the run has used up its supersteps.
At(n) ==
  /\ running
  /\ node = n
  /\ supersteps < RecursionLimit

GoTo(n) ==
  /\ node' = n
  /\ running' = (n # "end")
  /\ supersteps' = supersteps + 1

-----------------------------------------------------------------------------
(* Routing, and answers without retrieval.                                 *)

\* initialize_turn
InitializeTurn ==
  /\ At("initialize_turn")
  /\ route' = "none" /\ knowledge' = FALSE
  /\ plan' = <<>> /\ index' = 1 /\ completed' = <<>>
  /\ chunks' = {} /\ grade' = "none" /\ retrievals' = 0
  /\ draft' = NoDraft /\ judged' = FALSE
  /\ mode' = "normal" /\ status' = "none" /\ evaluation' = "none"
  /\ replans' = 0 /\ reflections' = 0
  /\ GoTo("router")

\* _normalize_decision: general_chat exactly when no capability is required.
NormalizedRoute(type, capabilities) ==
  IF capabilities = {} THEN "general_chat"
  ELSE IF type = "general_chat" THEN "react"
  ELSE type

\* route_question
RouteQuestion ==
  /\ At("router")
  /\ \E type \in {"general_chat", "react", "plan_execute"},
        capabilities \in SUBSET {"knowledge", "action"} :
       /\ route' = NormalizedRoute(type, capabilities)
       /\ knowledge' = ("knowledge" \in capabilities)
  /\ GoTo(CASE route' = "general_chat" -> "general_chat"
            [] route' = "react" -> "react_adapter"
            [] OTHER -> "planner")
  /\ UNCHANGED <<planVars, evidenceVars, draftVars, mode, status, evaluation,
                 replans, reflections>>

\* answer_general_chat: an empty answer raises.
GeneralChat ==
  /\ At("general_chat")
  /\ draft' = [text |-> "answer", cited |-> {}, matches |-> TRUE]
  /\ judged' = FALSE
  /\ chunks' = {}
  /\ status' = "accepted"
  /\ UNCHANGED <<route, knowledge, planVars, grade, retrievals, mode, evaluation,
                 replans, reflections>>
  /\ GoTo("finalize_answer")

-----------------------------------------------------------------------------
(* Retrieval.                                                              *)

\* _react_draft_is_grounded, of the state after the node.
DraftIsGrounded == HasText /\ draft.matches /\ draft.cited \subseteq chunks

\* Mutant: a missing grade does not stop the turn.
RouteAfterRetrievalUngraded ==
  IF status # "none" THEN "finalize_answer"
  ELSE IF grade = "insufficient" THEN "best_effort"
  ELSE IF route # "react" THEN "executor_complete"
  ELSE IF DraftIsGrounded THEN "answer_evaluator" ELSE "generator"

\* _route_after_retrieval, of the state after the node.
RouteAfterRetrieval ==
  IF status # "none" THEN "finalize_answer"
  ELSE IF grade # "sufficient" THEN "best_effort"
  ELSE IF route # "react" THEN "executor_complete"
  ELSE IF DraftIsGrounded THEN "answer_evaluator" ELSE "generator"

Grade(isSufficient) == IF isSufficient THEN "sufficient" ELSE "insufficient"

\* run_react_agent: n tool calls found knowledge, with up to MaxRounds rounds each,
\* and without the capability there is no tool that could.  The agent's answer is
\* whatever it says.
RunReactAgent ==
  /\ At("react_adapter")
  /\ \E n \in IF knowledge THEN 0..MaxToolCalls ELSE {0} :
       IF n = 0
       THEN /\ grade' = "none"
            /\ UNCHANGED <<chunks, retrievals>>
            /\ status' = IF knowledge THEN status ELSE "accepted"
       ELSE \E r \in SearchOutcome!Results(n * MaxRounds) :
              /\ r.rounds >= n
              /\ grade' = Grade(r.sufficient)
              /\ chunks' = chunks \union r.evidence
              /\ retrievals' = retrievals + r.rounds
              /\ UNCHANGED status
  /\ draft' \in ModelDrafts
  /\ judged' = FALSE
  /\ UNCHANGED <<route, knowledge, planVars, mode, evaluation, replans, reflections>>
  /\ GoTo(RouteAfterRetrieval')

\* current_plan_step raises unless this holds.
StepAvailable == index \in DOMAIN plan

\* retrieve_chunks: a search gets the rounds that are left of the turn's.
RetrieveChunks ==
  /\ At("retriever")
  /\ IF retrievals >= MaxRetrievals
     THEN /\ grade' = "insufficient"
          /\ UNCHANGED <<chunks, retrievals>>
     ELSE /\ route = "plan_execute" => StepAvailable
          /\ \E r \in SearchOutcome!Results(MaxRounds) :
               /\ r.rounds <= MaxRetrievals - retrievals
               /\ grade' = Grade(r.sufficient)
               /\ chunks' = chunks \union r.evidence
               /\ retrievals' = retrievals + r.rounds
  /\ UNCHANGED <<route, knowledge, planVars, draftVars, mode, status, evaluation,
                 replans, reflections>>
  /\ GoTo(RouteAfterRetrieval')

-----------------------------------------------------------------------------
(* Plans.                                                                  *)

CompletedIds == {completed[i] : i \in DOMAIN completed}

IsPending(step) == step \notin CompletedIds

\* pending_steps, by their place in the plan.
Pending == {i \in DOMAIN plan : IsPending(plan[i])}

\* Mutant: steps are numbered from 0.
InitialPlansFromZero == {[i \in 1..n |-> i - 1] : n \in 1..MaxPlanSteps}

\* _validate_initial_plan: steps are numbered from 1.
InitialPlans == {[i \in 1..n |-> i] : n \in 1..MaxPlanSteps}

\* plan_question
PlanQuestion ==
  /\ At("planner")
  /\ plan' \in InitialPlans
  /\ index' = 1
  /\ UNCHANGED <<route, knowledge, completed, evidenceVars, draftVars, mode, status,
                 evaluation, replans, reflections>>
  /\ GoTo("executor_select")

\* select_next_step: the first pending step of the plan.
SelectNextStep ==
  /\ At("executor_select")
  /\ \E i \in Pending :
       /\ \A k \in Pending : i <= k
       /\ index' = i
  /\ grade' = "none"
  /\ UNCHANGED <<route, knowledge, plan, completed, chunks, retrievals, draftVars, mode,
                 status, evaluation, replans, reflections>>
  /\ GoTo("retriever")

\* complete_current_step
CompleteCurrentStep ==
  /\ At("executor_complete")
  /\ StepAvailable
  /\ IsPending(plan[index])
  /\ completed' = Append(completed, plan[index])
  /\ grade' = "none"
  /\ UNCHANGED <<route, knowledge, plan, index, chunks, retrievals, draftVars, mode,
                 status, evaluation, replans, reflections>>
  /\ GoTo("replanner")

\* A step that is not in the plan yet has an id above all that are.
IsNew(step) == \A i \in DOMAIN plan : plan[i] < step

\* The plans a revision may put after the completed steps.
Revisions ==
  {revised \in UNION {[1..n -> StepIds] : n \in 1..MaxPlanSteps} :
     /\ Cardinality(CompletedIds) + Len(revised) <= MaxPlanSteps
     /\ \A i, k \in DOMAIN revised : revised[i] = revised[k] => i = k
     /\ \A i \in DOMAIN revised :
          revised[i] \in {plan[k] : k \in Pending} \/ IsNew(revised[i])}

\* Mutant: what precedes the current step is kept, and the current step is not.
KeptBeforeCurrent == SubSeq(plan, 1, index - 1)

\* The part of the plan that a revision keeps: the completed steps.
Kept == LET done == DOMAIN plan \ Pending
        IN  [r \in 1..Cardinality(done) |->
               plan[CHOOSE i \in done : Cardinality(done \intersect 1..i) = r]]

\* Mutant: pending steps are taken for granted.
RouteAfterReplanAlways == "executor_select"

\* _route_after_replan, of the state after the node.
RouteAfterReplan == IF Pending = {} THEN "generator" ELSE "executor_select"

\* replan: continue and finish keep the plan, and raise when they do not fit it.
Replan ==
  /\ At("replanner")
  /\ \/ UNCHANGED <<plan, replans>>
     \/ \E revised \in Revisions :
          /\ plan' = Kept \o revised
          /\ replans' = replans + 1
  /\ UNCHANGED <<route, knowledge, index, completed, evidenceVars, draftVars, mode,
                 status, evaluation, reflections>>
  /\ GoTo(RouteAfterReplan')

-----------------------------------------------------------------------------
(* Answers from evidence.                                                  *)

\* generate_answer
GenerateAnswer ==
  /\ At("generator")
  /\ IF chunks = {}
     THEN /\ draft' = Refusal
          /\ mode' = "best_effort"
          /\ status' = "best_effort"
     ELSE /\ draft' \in ModelDrafts
          /\ UNCHANGED <<mode, status>>
  /\ judged' = FALSE
  /\ UNCHANGED <<route, knowledge, planVars, evidenceVars, evaluation, replans, reflections>>
  /\ GoTo("answer_evaluator")

\* Mutant: a complete answer is accepted in best effort too.
EarnedStatusOfVerdict(verdict) ==
  CASE verdict = "complete" -> "accepted"
    [] verdict = "incomplete" -> IF mode = "best_effort" THEN "best_effort" ELSE "none"
    [] OTHER -> "none"

\* The status an evaluation earns.
EarnedStatus(verdict) ==
  CASE verdict = "complete" -> IF mode = "best_effort" THEN "best_effort" ELSE "accepted"
    [] verdict = "incomplete" -> IF mode = "best_effort" THEN "best_effort" ELSE "none"
    [] OTHER -> "none"

\* Mutant: one reflection too many.
RouteAfterAnswerEvaluationLate ==
  IF status # "none" THEN "finalize_answer"
  ELSE IF mode = "best_effort" THEN "fallback_answer"
  ELSE IF \/ retrievals >= MaxRetrievals
          \/ replans >= MaxReplans
          \/ reflections > MaxReflections
  THEN "best_effort"
  ELSE "reflection"

\* Mutant: reflections are not counted.
RouteAfterAnswerEvaluationUnbounded ==
  IF status # "none" THEN "finalize_answer"
  ELSE IF mode = "best_effort" THEN "fallback_answer"
  ELSE IF retrievals >= MaxRetrievals \/ replans >= MaxReplans
  THEN "best_effort"
  ELSE "reflection"

\* _route_after_answer_evaluation, of the state after the node.
RouteAfterAnswerEvaluation ==
  IF status # "none" THEN "finalize_answer"
  ELSE IF mode = "best_effort" THEN "fallback_answer"
  ELSE IF \/ retrievals >= MaxRetrievals
          \/ replans >= MaxReplans
          \/ reflections >= MaxReflections
  THEN "best_effort"
  ELSE "reflection"

\* evaluate_answer: a draft whose marks do not match its citations is not grounded,
\* and no model is asked.
EvaluateAnswer ==
  /\ At("answer_evaluator")
  /\ HasText
  /\ evaluation' \in IF draft.matches
                     THEN {"ungrounded", "incomplete", "complete"}
                     ELSE {"ungrounded"}
  /\ status' = EarnedStatus(evaluation')
  /\ judged' = TRUE
  /\ UNCHANGED <<route, knowledge, planVars, evidenceVars, draft, mode, replans, reflections>>
  /\ GoTo(RouteAfterAnswerEvaluation')

\* reflect_on_answer and _route_after_reflection: a generation_error is answered by
\* another draft, anything else by another search or plan.
ReflectOnAnswer ==
  /\ At("reflection")
  /\ evaluation # "none"
  /\ reflections' = reflections + 1
  /\ status' = "none"
  /\ \E failure \in {"retrieval_insufficient", "generation_error", "query_misunderstood"} :
       IF failure = "generation_error"
       THEN /\ UNCHANGED <<draftVars, evaluation>>
            /\ GoTo("generator")
       ELSE /\ draft' = NoDraft /\ judged' = FALSE
            /\ evaluation' = "none"
            /\ GoTo(IF route = "plan_execute" THEN "replanner" ELSE "retriever")
  /\ UNCHANGED <<route, knowledge, planVars, evidenceVars, mode, replans>>

\* enter_best_effort and _route_after_best_effort
EnterBestEffort ==
  /\ At("best_effort")
  /\ mode' = "best_effort"
  /\ IF chunks = {}
     THEN /\ draft' = Refusal /\ judged' = FALSE
          /\ status' = "best_effort"
          /\ GoTo("finalize_answer")
     ELSE /\ status' = "none"
          /\ UNCHANGED draftVars
          /\ GoTo("generator")
  /\ UNCHANGED <<route, knowledge, planVars, evidenceVars, evaluation, replans, reflections>>

\* finalize_insufficient_evidence
FinalizeInsufficientEvidence ==
  /\ At("fallback_answer")
  /\ mode' = "best_effort"
  /\ draft' = Refusal /\ judged' = FALSE
  /\ status' = "best_effort"
  /\ UNCHANGED <<route, knowledge, planVars, evidenceVars, evaluation, replans, reflections>>
  /\ GoTo("finalize_answer")

\* finalize_answer raises unless this holds.
Finalizable ==
  /\ HasText
  /\ status # "none"
  /\ draft.cited \subseteq chunks

FinalizeAnswer ==
  /\ At("finalize_answer")
  /\ Finalizable
  /\ UNCHANGED <<route, knowledge, planVars, evidenceVars, draftVars, mode, status,
                 evaluation, replans, reflections>>
  /\ GoTo("end")

NodeStep ==
  \/ InitializeTurn \/ RouteQuestion \/ GeneralChat \/ RunReactAgent
  \/ PlanQuestion \/ SelectNextStep \/ RetrieveChunks \/ CompleteCurrentStep \/ Replan
  \/ GenerateAnswer \/ EvaluateAnswer \/ ReflectOnAnswer
  \/ EnterBestEffort \/ FinalizeInsufficientEvidence \/ FinalizeAnswer

Next == NewTurn \/ Resume \/ RunEnds \/ NodeStep

Spec == Init /\ [][Next]_vars

-----------------------------------------------------------------------------
(* Properties.                                                             *)

TypeOK ==
  /\ node \in Nodes \union {"end"}
  /\ running \in BOOLEAN
  /\ supersteps \in Nat
  /\ route \in {"none", "general_chat", "react", "plan_execute"}
  /\ knowledge \in BOOLEAN
  /\ plan \in Seq(StepIds)
  /\ index \in Nat
  /\ completed \in Seq(StepIds)
  /\ chunks \subseteq Chunks
  /\ grade \in {"none", "sufficient", "insufficient"}
  /\ draft \in Drafts
  /\ mode \in {"normal", "best_effort"}
  /\ status \in {"none", "accepted", "best_effort"}
  /\ evaluation \in {"none", "ungrounded", "incomplete", "complete"}
  /\ judged \in BOOLEAN
  /\ replans \in Nat
  /\ reflections \in Nat
  /\ retrievals \in Nat

\* Whether the turn is answered without evidence, by design.
NeedsNoEvidence == route = "general_chat" \/ (route = "react" /\ ~knowledge)

\* An answer leaves with the status it earned, on every path to finalize_answer and
\* whatever happened to the drafts before it: accepted only if this very draft was found
\* grounded and complete outside best effort, best_effort only if it was found grounded
\* or is the fixed refusal.
StatusEarned ==
  node = "finalize_answer" =>
    /\ status = "accepted" =>
         \/ NeedsNoEvidence
         \/ judged /\ evaluation = "complete" /\ mode = "normal"
    /\ status = "best_effort" =>
         /\ mode = "best_effort"
         /\ draft = Refusal \/ (judged /\ evaluation \in {"incomplete", "complete"})

\* The generator is asked for an answer only when there is evidence to answer from: its
\* own branch for no evidence, which answers without an evaluation, is never needed.
GeneratorHasEvidence == node = "generator" => chunks # {}

\* Revisions neither lose, repeat nor reorder what was done: the completed steps are the
\* beginning of the plan, and no step id is used twice.
PlanInOrder ==
  /\ completed = SubSeq(plan, 1, Len(completed))
  /\ Len(plan) <= MaxPlanSteps
  /\ \A i, k \in DOMAIN plan : plan[i] = plan[k] => i = k

\* No node is entered with a checkpoint it raises on: a turn would fail there again
\* whenever it is resumed.  (finalize_answer and answer_evaluator depend on what the
\* model wrote; see TurnResumable.)
NodesEnabled ==
  /\ node = "executor_select" => Pending # {}
  /\ node = "retriever" /\ route = "plan_execute" => StepAvailable
  /\ node = "executor_complete" => StepAvailable /\ IsPending(plan[index])
  /\ node = "reflection" => evaluation # "none"
  /\ node = "finalize_answer" => HasText \/ status = "accepted"

\* The loops of a turn keep to their budgets.  The ReAct agent alone may overdraw the
\* retrieval rounds, and by no more than its tool calls allow.  The number of replans is
\* compared with MaxReplans after an evaluation only: what bounds it is that a plan is
\* revised once for a completed step, and never after the last one.
BudgetsKept ==
  /\ reflections <= MaxReflections
  /\ replans < MaxPlanSteps
  /\ \/ retrievals <= MaxRetrievals
     \/ route = "react" /\ retrievals <= MaxToolCalls * MaxRounds

\* A run that nothing interrupts reaches the end of the turn within LangGraph's
\* recursion limit, whatever the models decide.
RecursionSuffices == node \in Nodes => supersteps < RecursionLimit

\* A turn the user is told to continue can be continued: the nodes that depend on the
\* checkpoint only do not raise on it.
TurnResumable ==
  /\ node = "answer_evaluator" => HasText
  /\ node = "finalize_answer" => Finalizable
=============================================================================
