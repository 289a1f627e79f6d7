------------------------ MODULE AnswerWorkflowProof ------------------------
(***************************************************************************)
(* For every limit of the settings and every knowledge base: answers leave *)
(* with the status they earned, the generator has evidence to answer from, *)
(* no node is entered with a checkpoint it raises on, and the loops keep   *)
(* to their budgets.                                                       *)
(*                                                                         *)
(* The invariant says of each node what holds when it is entered.  With it, *)
(* a second one says what plans look like and how many supersteps are left. *)
(***************************************************************************)
EXTENDS AnswerWorkflow, FiniteSetTheorems, SequenceTheorems, TLAPS

-----------------------------------------------------------------------------
(* The inductive invariant.                                                *)

Typed ==
  /\ chunks \subseteq Chunks
  /\ mode \in {"normal", "best_effort"}
  /\ status \in {"none", "accepted", "best_effort"}
  /\ reflections \in Nat
  /\ retrievals \in Nat

\* The route that leads to a node.
RouteOfNode ==
  /\ node = "general_chat" => route = "general_chat"
  /\ node = "react_adapter" => route = "react"
  /\ node \in {"planner", "executor_select", "executor_complete", "replanner"} =>
       route = "plan_execute"
  /\ node \in {"retriever", "generator", "answer_evaluator", "reflection", "best_effort"} =>
       route \in {"react", "plan_execute"}

\* Until the route is taken, nothing is left of the previous turn.
FreshTurn ==
  node \in {"router", "general_chat", "react_adapter", "planner"} =>
    completed = <<>> /\ retrievals = 0

\* Behind a sufficient grade there is evidence.
EvidenceAtNode ==
  node \in {"executor_complete", "replanner", "generator", "answer_evaluator", "reflection"} =>
    chunks # {}

\* The step that was selected is still to be done.
StepAtNode ==
  /\ node = "executor_select" => Pending # {}
  /\ node \in {"retriever", "executor_complete"} /\ route = "plan_execute" =>
       StepAvailable /\ IsPending(plan[index])

\* Only a finished answer has a status.
StatusAtNode ==
  /\ node \in Nodes \ {"initialize_turn", "finalize_answer"} => status = "none"
  /\ node = "finalize_answer" => HasText \/ status = "accepted"
  /\ StatusEarned

\* A reflection is always one that the budget allows.
ReflectionAtNode ==
  node = "reflection" => evaluation # "none" /\ reflections < MaxReflections

\* The budgets of module AnswerWorkflow but that of the revisions, which the plan bounds.
SearchBudgets ==
  /\ reflections <= MaxReflections
  /\ \/ retrievals <= MaxRetrievals
     \/ route = "react" /\ retrievals <= MaxToolCalls * MaxRounds

IInv ==
  /\ Typed
  /\ RouteOfNode
  /\ FreshTurn
  /\ EvidenceAtNode
  /\ StepAtNode
  /\ StatusAtNode
  /\ ReflectionAtNode
  /\ SearchBudgets

-----------------------------------------------------------------------------
(* Every action keeps it.                                                  *)

LEMMA InitIInv == Init => IInv
BY LimitsAssumption
DEF Init, IInv, Typed, RouteOfNode, FreshTurn, EvidenceAtNode, StepAtNode, StatusAtNode,
    ReflectionAtNode, SearchBudgets, StatusEarned, Nodes

\* Starting, resuming and ending a run touch nothing but where it is.
LEMMA RunIInv == IInv /\ (NewTurn \/ Resume \/ RunEnds) => IInv'
BY DEF NewTurn, Resume, RunEnds, planVars, evidenceVars, draftVars,
       IInv, Typed, RouteOfNode, FreshTurn, EvidenceAtNode, StepAtNode, StatusAtNode,
       ReflectionAtNode, SearchBudgets, StatusEarned, Nodes, HasText, NeedsNoEvidence,
       Pending, StepAvailable, IsPending, CompletedIds

LEMMA StutterIInv == IInv /\ UNCHANGED vars => IInv'
BY DEF vars, runVars, planVars, evidenceVars, draftVars,
       IInv, Typed, RouteOfNode, FreshTurn, EvidenceAtNode, StepAtNode, StatusAtNode,
       ReflectionAtNode, SearchBudgets, StatusEarned, Nodes, HasText, NeedsNoEvidence,
       Pending, StepAvailable, IsPending, CompletedIds

LEMMA InitializeTurnIInv == InitializeTurn => IInv'
BY LimitsAssumption
DEF InitializeTurn, GoTo, IInv, Typed, RouteOfNode, FreshTurn, EvidenceAtNode, StepAtNode,
    StatusAtNode, ReflectionAtNode, SearchBudgets, StatusEarned, Nodes

LEMMA RouteQuestionIInv == IInv /\ RouteQuestion => IInv'
<1> SUFFICES ASSUME IInv, RouteQuestion PROVE IInv'
  OBVIOUS
<1>1. \/ route' = "general_chat" /\ node' = "general_chat"
      \/ route' = "react" /\ node' = "react_adapter"
      \/ route' = "plan_execute" /\ node' = "planner"
  BY DEF RouteQuestion, NormalizedRoute, GoTo
<1>2. node = "router" /\ UNCHANGED <<planVars, evidenceVars, draftVars, mode, status, evaluation,
                                       reflections>>
  BY DEF RouteQuestion, At
<1>3. (Typed /\ SearchBudgets)'
  BY <1>2, LimitsAssumption
  DEF evidenceVars, IInv, Typed, FreshTurn, SearchBudgets
<1>4. (RouteOfNode /\ FreshTurn /\ EvidenceAtNode /\ StepAtNode /\ ReflectionAtNode)'
  BY <1>1, <1>2
  DEF planVars, evidenceVars, IInv, RouteOfNode, FreshTurn, EvidenceAtNode, StepAtNode,
      ReflectionAtNode
<1>5. StatusAtNode'
  BY <1>1, <1>2 DEF IInv, StatusAtNode, StatusEarned, Nodes
<1> QED
  BY <1>3, <1>4, <1>5 DEF IInv

LEMMA GeneralChatIInv == IInv /\ GeneralChat => IInv'
BY DEF GeneralChat, At, GoTo, planVars,
       IInv, Typed, RouteOfNode, FreshTurn, EvidenceAtNode, StepAtNode, StatusAtNode,
       ReflectionAtNode, SearchBudgets, StatusEarned, NeedsNoEvidence, Nodes

\* A search answers what its caller relies on.
LEMMA SearchResults ==
  ASSUME NEW most \in Int, NEW r \in SearchOutcome!Results(most)
  PROVE  /\ r.evidence \subseteq Chunks
         /\ r.sufficient => r.evidence # {}
         /\ r.rounds \in 1..most
BY DEF SearchOutcome!Results

LEMMA RunReactAgentIInv == IInv /\ RunReactAgent => IInv'
<1> SUFFICES ASSUME IInv, RunReactAgent PROVE IInv'
  OBVIOUS
<1>1. route = "react" /\ status = "none" /\ retrievals = 0 /\ node' = RouteAfterRetrieval'
  BY DEF RunReactAgent, At, GoTo, IInv, RouteOfNode, FreshTurn, StatusAtNode, Nodes
<1>2. route' = "react" /\ mode' = mode /\ reflections' = reflections /\ knowledge' = knowledge
  BY <1>1 DEF RunReactAgent
<1>3. /\ chunks' \subseteq Chunks
      /\ retrievals' \in Nat /\ retrievals' <= MaxToolCalls * MaxRounds
      /\ grade' = "sufficient" => chunks' # {}
      /\ \/ status' = "none"
         \/ status' = "accepted" /\ ~knowledge
  <2>1. PICK n \in IF knowledge THEN 0..MaxToolCalls ELSE {0} :
          IF n = 0
          THEN /\ grade' = "none"
               /\ UNCHANGED <<chunks, retrievals>>
               /\ status' = IF knowledge THEN status ELSE "accepted"
          ELSE \E r \in SearchOutcome!Results(n * MaxRounds) :
                 /\ r.rounds >= n
                 /\ grade' = Grade(r.sufficient)
                 /\ chunks' = chunks \union r.evidence
                 /\ retrievals' = retrievals + r.rounds
                 /\ UNCHANGED status
    BY DEF RunReactAgent
  <2>2. MaxToolCalls * MaxRounds \in Nat /\ n * MaxRounds \in Int
        /\ n * MaxRounds <= MaxToolCalls * MaxRounds
    <3>1. n \in Nat /\ MaxToolCalls - n \in Nat /\ MaxRounds \in Nat
      BY LimitsAssumption
    <3>2. (MaxToolCalls - n) * MaxRounds \in Nat /\ n * MaxRounds \in Nat
      BY <3>1
    <3> QED
      BY <3>1, <3>2, LimitsAssumption
  <2>3. CASE n = 0
    BY <1>1, <2>1, <2>2, <2>3 DEF IInv, Typed
  <2>4. CASE n # 0
    <3>1. PICK r \in SearchOutcome!Results(n * MaxRounds) :
            /\ grade' = Grade(r.sufficient)
            /\ chunks' = chunks \union r.evidence
            /\ retrievals' = retrievals + r.rounds
            /\ UNCHANGED status
      BY <2>1, <2>4
    <3>2. /\ r.evidence \subseteq Chunks
          /\ r.sufficient => r.evidence # {}
          /\ r.rounds \in 1..(n * MaxRounds)
      BY <2>2, SearchResults
    <3> QED
      BY <1>1, <2>2, <3>1, <3>2 DEF Grade, IInv, Typed
  <2> QED
    BY <2>3, <2>4
<1>4. \/ node' = "finalize_answer" /\ status' = "accepted" /\ ~knowledge'
      \/ node' = "best_effort" /\ status' = "none"
      \/ /\ node' \in {"answer_evaluator", "generator"}
         /\ status' = "none" /\ chunks' # {}
  BY <1>1, <1>2, <1>3 DEF RouteAfterRetrieval
<1>5. (Typed /\ SearchBudgets)'
  BY <1>2, <1>3 DEF IInv, Typed, SearchBudgets
<1>6. (RouteOfNode /\ FreshTurn /\ EvidenceAtNode /\ StepAtNode /\ ReflectionAtNode)'
  BY <1>2, <1>4 DEF RouteOfNode, FreshTurn, EvidenceAtNode, StepAtNode, ReflectionAtNode
<1>7. StatusAtNode'
  BY <1>2, <1>4 DEF StatusAtNode, StatusEarned, NeedsNoEvidence, Nodes
<1> QED
  BY <1>5, <1>6, <1>7 DEF IInv

LEMMA RetrieveChunksIInv == IInv /\ RetrieveChunks => IInv'
<1> SUFFICES ASSUME IInv, RetrieveChunks PROVE IInv'
  OBVIOUS
<1>1. /\ route \in {"react", "plan_execute"}
      /\ status = "none"
      /\ route = "plan_execute" => StepAvailable /\ IsPending(plan[index])
      /\ node' = RouteAfterRetrieval'
  BY DEF RetrieveChunks, At, GoTo, IInv, RouteOfNode, StatusAtNode, StepAtNode, Nodes
<1>2. UNCHANGED <<route, mode, status, evaluation, judged, reflections, draft, knowledge,
                  plan, index, completed>>
  BY DEF RetrieveChunks, planVars, draftVars
<1>3. /\ chunks' \subseteq Chunks
      /\ retrievals' \in Nat
      /\ retrievals' <= MaxRetrievals \/ retrievals' = retrievals
      /\ grade' = "sufficient" => chunks' # {}
  <2>1. CASE retrievals >= MaxRetrievals
    BY <2>1 DEF RetrieveChunks, IInv, Typed
  <2>2. CASE ~(retrievals >= MaxRetrievals)
    <3>1. PICK r \in SearchOutcome!Results(MaxRounds) :
            /\ r.rounds <= MaxRetrievals - retrievals
            /\ grade' = Grade(r.sufficient)
            /\ chunks' = chunks \union r.evidence
            /\ retrievals' = retrievals + r.rounds
      BY <2>2 DEF RetrieveChunks
    <3>2. /\ r.evidence \subseteq Chunks
          /\ r.sufficient => r.evidence # {}
          /\ r.rounds \in 1..MaxRounds
      BY LimitsAssumption, SearchResults
    <3> QED
      BY <3>1, <3>2, LimitsAssumption DEF Grade, IInv, Typed
  <2> QED
    BY <2>1, <2>2
<1>4. \/ node' = "best_effort"
      \/ node' = "executor_complete" /\ route = "plan_execute" /\ chunks' # {}
      \/ node' \in {"answer_evaluator", "generator"} /\ chunks' # {}
  BY <1>1, <1>2, <1>3 DEF RouteAfterRetrieval
<1>5. (Typed /\ SearchBudgets)'
  BY <1>2, <1>3, LimitsAssumption DEF IInv, Typed, SearchBudgets
<1>6. (RouteOfNode /\ FreshTurn /\ EvidenceAtNode /\ ReflectionAtNode)'
  BY <1>1, <1>2, <1>4 DEF RouteOfNode, FreshTurn, EvidenceAtNode, ReflectionAtNode
<1>7. StepAtNode'
  BY <1>1, <1>2, <1>4 DEF StepAtNode, StepAvailable, IsPending, CompletedIds
<1>8. StatusAtNode'
  BY <1>1, <1>2, <1>4 DEF StatusAtNode, StatusEarned, Nodes
<1> QED
  BY <1>5, <1>6, <1>7, <1>8 DEF IInv

LEMMA PlanQuestionIInv == IInv /\ PlanQuestion => IInv'
<1> SUFFICES ASSUME IInv, PlanQuestion PROVE IInv'
  OBVIOUS
<1>1. Pending' # {}
  <2>1. PICK n \in 1..MaxPlanSteps : plan' = [i \in 1..n |-> i]
    BY DEF PlanQuestion, InitialPlans
  <2>2. 1 \in DOMAIN plan'
    BY <2>1, LimitsAssumption
  <2>3. CompletedIds' = {}
    BY DEF PlanQuestion, At, IInv, FreshTurn, CompletedIds
  <2> QED
    BY <2>2, <2>3 DEF Pending, IsPending
<1> QED
  BY <1>1
  DEF PlanQuestion, At, GoTo, evidenceVars, draftVars,
      IInv, Typed, RouteOfNode, FreshTurn, EvidenceAtNode, StepAtNode, StatusAtNode,
      ReflectionAtNode, SearchBudgets, StatusEarned, Nodes

LEMMA SelectNextStepIInv == IInv /\ SelectNextStep => IInv'
<1> SUFFICES ASSUME IInv, SelectNextStep PROVE IInv'
  OBVIOUS
<1>1. (StepAvailable /\ IsPending(plan[index]))'
  BY DEF SelectNextStep, StepAvailable, Pending, IsPending, CompletedIds
<1> QED
  BY <1>1
  DEF SelectNextStep, At, GoTo, draftVars,
      IInv, Typed, RouteOfNode, FreshTurn, EvidenceAtNode, StepAtNode, StatusAtNode,
      ReflectionAtNode, SearchBudgets, StatusEarned, Nodes

LEMMA CompleteCurrentStepIInv == IInv /\ CompleteCurrentStep => IInv'
BY DEF CompleteCurrentStep, At, GoTo, draftVars,
       IInv, Typed, RouteOfNode, FreshTurn, EvidenceAtNode, StepAtNode, StatusAtNode,
       ReflectionAtNode, SearchBudgets, StatusEarned, Nodes

LEMMA ReplanIInv == IInv /\ Replan => IInv'
<1> SUFFICES ASSUME IInv, Replan PROVE IInv'
  OBVIOUS
<1>1. \/ node' = "generator"
      \/ node' = "executor_select" /\ Pending' # {}
  BY DEF Replan, GoTo, RouteAfterReplan
<1> QED
  BY <1>1
  DEF Replan, At, evidenceVars, draftVars,
      IInv, Typed, RouteOfNode, FreshTurn, EvidenceAtNode, StepAtNode, StatusAtNode,
      ReflectionAtNode, SearchBudgets, StatusEarned, Nodes

LEMMA GenerateAnswerIInv == IInv /\ GenerateAnswer => IInv'
BY DEF GenerateAnswer, At, GoTo, planVars, evidenceVars,
       IInv, Typed, RouteOfNode, FreshTurn, EvidenceAtNode, StepAtNode, StatusAtNode,
       ReflectionAtNode, SearchBudgets, StatusEarned, Nodes

LEMMA EvaluateAnswerIInv == IInv /\ EvaluateAnswer => IInv'
<1> SUFFICES ASSUME IInv, EvaluateAnswer PROVE IInv'
  OBVIOUS
<1>1. /\ evaluation' \in {"ungrounded", "incomplete", "complete"}
      /\ status' = EarnedStatus(evaluation')
      /\ mode' = mode
  BY DEF EvaluateAnswer
<1>2. /\ status' \in {"none", "accepted", "best_effort"}
      /\ status' = "accepted" => evaluation' = "complete" /\ mode' = "normal"
      /\ status' = "best_effort" =>
           evaluation' \in {"incomplete", "complete"} /\ mode' = "best_effort"
  BY <1>1 DEF EarnedStatus, IInv, Typed
<1>3. \/ node' = "finalize_answer" /\ status' # "none"
      \/ node' \in {"fallback_answer", "best_effort"} /\ status' = "none"
      \/ /\ node' = "reflection" /\ status' = "none"
         /\ reflections < MaxReflections
  BY LimitsAssumption
  DEF EvaluateAnswer, GoTo, RouteAfterAnswerEvaluation, IInv, Typed
<1>4. (RouteOfNode /\ FreshTurn /\ EvidenceAtNode /\ StepAtNode)'
  BY <1>3 DEF EvaluateAnswer, At, planVars, evidenceVars, IInv, RouteOfNode, FreshTurn,
              EvidenceAtNode, StepAtNode
<1>5. (StatusAtNode /\ ReflectionAtNode)'
  BY <1>1, <1>2, <1>3
  DEF EvaluateAnswer, HasText, IInv, StatusAtNode, ReflectionAtNode, StatusEarned, Nodes
<1>6. (Typed /\ SearchBudgets)'
  BY <1>2 DEF EvaluateAnswer, evidenceVars, IInv, Typed, SearchBudgets
<1> QED
  BY <1>4, <1>5, <1>6 DEF IInv

LEMMA ReflectOnAnswerIInv == IInv /\ ReflectOnAnswer => IInv'
<1> SUFFICES ASSUME IInv, ReflectOnAnswer PROVE IInv'
  OBVIOUS
<1>1. \/ node' = "generator"
      \/ node' = "replanner" /\ route = "plan_execute"
      \/ node' = "retriever" /\ route = "react"
  BY DEF ReflectOnAnswer, At, GoTo, IInv, RouteOfNode
<1>2. reflections' \in Nat /\ reflections' <= MaxReflections
  BY LimitsAssumption DEF ReflectOnAnswer, At, IInv, Typed, ReflectionAtNode
<1> QED
  BY <1>1, <1>2
  DEF ReflectOnAnswer, At, planVars, evidenceVars,
      IInv, Typed, RouteOfNode, FreshTurn, EvidenceAtNode, StepAtNode, StatusAtNode,
      ReflectionAtNode, SearchBudgets, StatusEarned, Nodes

LEMMA EnterBestEffortIInv == IInv /\ EnterBestEffort => IInv'
BY DEF EnterBestEffort, At, GoTo, planVars, evidenceVars, draftVars, Refusal, HasText,
       IInv, Typed, RouteOfNode, FreshTurn, EvidenceAtNode, StepAtNode, StatusAtNode,
       ReflectionAtNode, SearchBudgets, StatusEarned, Nodes

LEMMA FinalizeInsufficientEvidenceIInv == IInv /\ FinalizeInsufficientEvidence => IInv'
BY DEF FinalizeInsufficientEvidence, At, GoTo, planVars, evidenceVars, Refusal, HasText,
       IInv, Typed, RouteOfNode, FreshTurn, EvidenceAtNode, StepAtNode, StatusAtNode,
       ReflectionAtNode, SearchBudgets, StatusEarned, Nodes

LEMMA FinalizeAnswerIInv == IInv /\ FinalizeAnswer => IInv'
BY DEF FinalizeAnswer, At, GoTo, planVars, evidenceVars, draftVars,
       IInv, Typed, RouteOfNode, FreshTurn, EvidenceAtNode, StepAtNode, StatusAtNode,
       ReflectionAtNode, SearchBudgets, StatusEarned, Nodes
LEMMA NextIInv == IInv /\ [Next]_vars => IInv'
<1> SUFFICES ASSUME IInv, [Next]_vars PROVE IInv'
  OBVIOUS
<1>1. CASE NewTurn \/ Resume \/ RunEnds
  BY <1>1, RunIInv
<1>2. CASE NodeStep
  BY <1>2, InitializeTurnIInv, RouteQuestionIInv, GeneralChatIInv, RunReactAgentIInv,
     PlanQuestionIInv, SelectNextStepIInv, RetrieveChunksIInv, CompleteCurrentStepIInv,
     ReplanIInv, GenerateAnswerIInv, EvaluateAnswerIInv, ReflectOnAnswerIInv,
     EnterBestEffortIInv, FinalizeInsufficientEvidenceIInv, FinalizeAnswerIInv
  DEF NodeStep
<1>3. CASE UNCHANGED vars
  BY <1>3, StutterIInv
<1> QED
  BY <1>1, <1>2, <1>3 DEF Next

THEOREM Inductive == Spec => []IInv
<1>1. Init => IInv
  BY InitIInv
<1>2. IInv /\ [Next]_vars => IInv'
  BY NextIInv
<1> QED
  BY <1>1, <1>2, PTL DEF Spec

-----------------------------------------------------------------------------

\* Every answer leaves with the status it earned, whatever the models say.
THEOREM StatusIsEarned == Spec => []StatusEarned
<1>1. IInv => StatusEarned
  BY DEF IInv, StatusAtNode
<1> QED
  BY <1>1, Inductive, PTL

\* The generator is never asked for an answer without evidence.
THEOREM GeneratorGetsEvidence == Spec => []GeneratorHasEvidence
<1>1. IInv => GeneratorHasEvidence
  BY DEF IInv, EvidenceAtNode, GeneratorHasEvidence
<1> QED
  BY <1>1, Inductive, PTL

\* No node is entered with a checkpoint it raises on.
THEOREM NodesAreEnabled == Spec => []NodesEnabled
<1>1. IInv => NodesEnabled
  BY DEF IInv, StepAtNode, RouteOfNode, StatusAtNode, ReflectionAtNode, NodesEnabled
<1> QED
  BY <1>1, Inductive, PTL

-----------------------------------------------------------------------------
(* Plans.                                                                  *)

\* The completed steps are the beginning of the plan, and the step that was selected is the
\* one after them.
PlanInv ==
  /\ plan \in Seq(StepIds) /\ completed \in Seq(StepIds)
  /\ Len(completed) <= Len(plan)
  /\ PlanInOrder
  /\ node \in {"retriever", "executor_complete"} /\ route = "plan_execute" =>
       index = Len(completed) + 1

\* What that means for the sets of the model.
LEMMA PlanSets ==
  ASSUME PlanInv
  PROVE  /\ Len(plan) \in 0..MaxPlanSteps /\ Len(completed) \in 0..Len(plan)
         /\ \A i \in 1..Len(completed) : completed[i] = plan[i]
         /\ CompletedIds = {plan[i] : i \in 1..Len(completed)}
         /\ Pending = (Len(completed) + 1)..Len(plan)
<1>1. Len(plan) \in Nat /\ Len(completed) \in 0..Len(plan) /\ Len(plan) <= MaxPlanSteps
      /\ DOMAIN plan = 1..Len(plan) /\ DOMAIN completed = 1..Len(completed)
  BY LenProperties DEF PlanInv, PlanInOrder
<1>2. \A i \in 1..Len(completed) : completed[i] = plan[i]
  <2>1. completed = SubSeq(plan, 1, Len(completed))
    BY DEF PlanInv, PlanInOrder
  <2> QED
    BY <1>1, <2>1
<1>3. CompletedIds = {plan[i] : i \in 1..Len(completed)}
  BY <1>1, <1>2 DEF CompletedIds
<1>4. ASSUME NEW i \in 1..Len(plan) PROVE IsPending(plan[i]) <=> i > Len(completed)
  BY <1>1, <1>3 DEF IsPending, PlanInv, PlanInOrder
<1>5. Pending = (Len(completed) + 1)..Len(plan)
  BY <1>1, <1>4 DEF Pending
<1> QED
  BY <1>1, <1>2, <1>3, <1>5, LimitsAssumption

LEMMA Counted == ASSUME NEW n \in Nat PROVE IsFiniteSet(1..n) /\ Cardinality(1..n) = n
<1>1. IsFiniteSet(1..n) /\ Cardinality(1..n) = IF 1 > n THEN 0 ELSE n - 1 + 1
  BY FS_Interval
<1> QED
  BY <1>1

\* A revision keeps exactly what was completed.
LEMMA KeptIsCompleted == PlanInv => Kept = completed
<1> SUFFICES ASSUME PlanInv PROVE Kept = completed
  OBVIOUS
<1> DEFINE m == Len(completed)
           done == DOMAIN plan \ Pending
<1>1. /\ m \in Nat /\ Len(plan) \in Nat /\ m <= Len(plan) /\ DOMAIN plan = 1..Len(plan)
      /\ Pending = (m + 1)..Len(plan) /\ \A i \in 1..m : completed[i] = plan[i]
      /\ completed = [i \in 1..m |-> completed[i]]
  BY PlanSets, LimitsAssumption, LenProperties DEF PlanInv
<1>2. done = 1..m
  BY <1>1
<1>3. Cardinality(1..m) = m
  BY <1>1, Counted
<1>4. ASSUME NEW r \in 1..m
      PROVE  (CHOOSE i \in done : Cardinality(done \intersect 1..i) = r) = r
  <2>1. ASSUME NEW i \in 1..m PROVE Cardinality(done \intersect 1..i) = i
    <3>1. done \intersect 1..i = 1..i
      BY <1>1, <1>2
    <3>2. i \in Nat
      BY <1>1
    <3> QED
      BY <3>1, <3>2, Counted
  <2> HIDE DEF done, m
  <2>2. \A i \in done : Cardinality(done \intersect 1..i) = r <=> i = r
    BY <1>2, <2>1
  <2>3. r \in done
    BY <1>2
  <2> QED
    BY <2>2, <2>3
<1>5. Kept = [r \in 1..m |-> plan[r]]
  <2>1. Kept = [r \in 1..Cardinality(done) |->
                  plan[CHOOSE i \in done : Cardinality(done \intersect 1..i) = r]]
    BY DEF Kept
  <2>2. ASSUME NEW r \in 1..m
        PROVE  plan[CHOOSE i \in done : Cardinality(done \intersect 1..i) = r] = plan[r]
    BY <1>4
  <2>3. 1..Cardinality(done) = 1..m
    BY <1>2, <1>3
  <2> HIDE DEF done
  <2> QED
    BY <2>1, <2>2, <2>3, Zenon
<1> QED
  BY <1>1, <1>5

\* completed_ids has an id for each completed step.
LEMMA CompletedCounted == PlanInv => Cardinality(CompletedIds) = Len(completed)
<1> SUFFICES ASSUME PlanInv PROVE Cardinality(CompletedIds) = Len(completed)
  OBVIOUS
<1> DEFINE m == Len(completed)
           f == [i \in 1..m |-> plan[i]]
<1>1. /\ m \in Nat /\ Len(plan) \in Nat /\ m <= Len(plan) /\ DOMAIN plan = 1..Len(plan)
      /\ CompletedIds = {plan[i] : i \in 1..m}
  BY PlanSets, LimitsAssumption DEF PlanInv
<1>2. f \in Bijection(1..m, CompletedIds)
  <2>1. f \in [1..m -> CompletedIds] /\ \A c \in CompletedIds : \E i \in 1..m : f[i] = c
    BY <1>1
  <2>2. \A i, k \in 1..m : f[i] = f[k] => i = k
    BY <1>1 DEF PlanInv, PlanInOrder
  <2> QED
    BY <2>1, <2>2 DEF Bijection, Injection, Surjection, IsInjective
<1>3. ExistsBijection(1..m, CompletedIds)
  BY <1>2 DEF ExistsBijection
<1> QED
  BY <1>1, <1>3, FS_Bijection, Counted

LEMMA InitPlan == Init => PlanInv
BY LimitsAssumption DEF Init, PlanInv, PlanInOrder

\* A plan that is left alone stays in order; so does a selection.
LEMMA SamePlan ==
  ASSUME PlanInv, UNCHANGED <<plan, completed>>,
         node' \in {"retriever", "executor_complete"} /\ route' = "plan_execute" =>
           index' = Len(completed) + 1
  PROVE  PlanInv'
BY DEF PlanInv, PlanInOrder

LEMMA PlanQuestionPlan == IInv /\ PlanInv /\ PlanQuestion => PlanInv'
<1> SUFFICES ASSUME IInv, PlanInv, PlanQuestion PROVE PlanInv'
  OBVIOUS
<1>1. PICK n \in 1..MaxPlanSteps : plan' = [i \in 1..n |-> i]
  BY DEF PlanQuestion, InitialPlans
<1>2. completed' = <<>> /\ node' = "executor_select"
  BY DEF PlanQuestion, At, GoTo, IInv, FreshTurn
<1>3. plan' \in Seq(StepIds) /\ Len(plan') = n
  BY <1>1, LimitsAssumption DEF StepIds
<1>4. completed' = SubSeq(plan', 1, Len(completed')) /\ completed' \in Seq(StepIds)
  BY <1>2, <1>3
<1>5. \A i, k \in DOMAIN plan' : plan'[i] = plan'[k] => i = k
  BY <1>1
<1> QED
  BY <1>1, <1>2, <1>3, <1>4, <1>5, LimitsAssumption DEF PlanInv, PlanInOrder

LEMMA SelectNextStepPlan == PlanInv /\ SelectNextStep => PlanInv'
<1> SUFFICES ASSUME PlanInv, SelectNextStep PROVE PlanInv'
  OBVIOUS
<1>1. PICK i \in Pending : (\A k \in Pending : i <= k) /\ index' = i
  BY DEF SelectNextStep
<1>2. Len(completed) \in Nat /\ Len(plan) \in Nat /\ Pending = (Len(completed) + 1)..Len(plan)
  BY PlanSets, LimitsAssumption DEF PlanInv
<1>3. index' = Len(completed) + 1
  BY <1>1, <1>2
<1> QED
  BY <1>3, SamePlan DEF SelectNextStep

LEMMA CompleteCurrentStepPlan == IInv /\ PlanInv /\ CompleteCurrentStep => PlanInv'
<1> SUFFICES ASSUME IInv, PlanInv, CompleteCurrentStep PROVE PlanInv'
  OBVIOUS
<1> DEFINE m == Len(completed)
<1>1. index = m + 1
  BY DEF CompleteCurrentStep, At, PlanInv, IInv, RouteOfNode
<1>2. /\ m \in Nat /\ Len(plan) \in Nat /\ m + 1 <= Len(plan) /\ DOMAIN plan = 1..Len(plan)
      /\ \A i \in 1..m : completed[i] = plan[i]
  BY <1>1, PlanSets, LimitsAssumption DEF CompleteCurrentStep, StepAvailable, PlanInv
<1>3. plan' = plan /\ completed' = Append(completed, plan[m + 1]) /\ node' = "replanner"
  BY <1>1 DEF CompleteCurrentStep, GoTo
<1>4. completed' \in Seq(StepIds) /\ Len(completed') = m + 1
  BY <1>2, <1>3 DEF PlanInv
<1>5. \A i \in 1..(m + 1) : completed'[i] = plan'[i]
  BY <1>2, <1>3 DEF PlanInv
<1>6. completed' = SubSeq(plan', 1, Len(completed'))
  BY <1>2, <1>3, <1>4, <1>5 DEF PlanInv
<1> QED
  BY <1>2, <1>3, <1>4, <1>6 DEF PlanInv, PlanInOrder

LEMMA ReplanPlan == PlanInv /\ Replan => PlanInv'
<1> SUFFICES ASSUME PlanInv, Replan PROVE PlanInv'
  OBVIOUS
<1>1. node' \in {"generator", "executor_select"} /\ completed' = completed
  BY DEF Replan, GoTo, RouteAfterReplan
<1>2. CASE plan' = plan
  BY <1>1, <1>2, SamePlan
<1>3. ASSUME NEW revised \in Revisions, plan' = Kept \o revised PROVE PlanInv'
  <2> DEFINE m == Len(completed)
             n == Len(revised)
  <2>1. PICK k \in 1..MaxPlanSteps : revised \in [1..k -> StepIds]
    BY DEF Revisions
  <2>2. /\ revised \in Seq(StepIds) /\ n \in Nat /\ DOMAIN revised = 1..n /\ m + n <= MaxPlanSteps
        /\ \A i, j \in 1..n : revised[i] = revised[j] => i = j
    BY <2>1, CompletedCounted, LimitsAssumption DEF Revisions
  <2>3. /\ m \in Nat /\ Len(plan) \in Nat /\ m <= Len(plan) /\ DOMAIN plan = 1..Len(plan)
        /\ Pending = (m + 1)..Len(plan) /\ \A i \in 1..m : completed[i] = plan[i]
        /\ completed \in Seq(StepIds) /\ plan \in Seq(StepIds)
    BY PlanSets, LimitsAssumption DEF PlanInv
  <2>4. plan' = completed \o revised
    BY <1>3, KeptIsCompleted
  <2>5. /\ plan' \in Seq(StepIds) /\ Len(plan') = m + n
        /\ \A i \in 1..m : plan'[i] = completed[i]
        /\ \A i \in (m + 1)..(m + n) : plan'[i] = revised[i - m]
    BY <2>2, <2>3, <2>4
  <2>6. completed' = SubSeq(plan', 1, Len(completed'))
    BY <1>1, <2>2, <2>3, <2>5
  <2>7. ASSUME NEW i \in 1..m, NEW j \in 1..n PROVE completed[i] # revised[j]
    <3>1. CASE revised[j] \in {plan[l] : l \in Pending}
      BY <2>3, <3>1 DEF PlanInv, PlanInOrder
    <3>2. CASE IsNew(revised[j])
      <4>1. plan[i] < revised[j] /\ plan[i] \in Int /\ revised[j] \in Int
        <5>1. i \in DOMAIN plan /\ plan[i] \in StepIds
          BY <2>3
        <5>2. revised[j] \in StepIds
          BY <2>1, <2>2
        <5> QED
          BY <3>2, <5>1, <5>2, LimitsAssumption DEF IsNew, StepIds
      <4> QED
        BY <2>3, <4>1
    <3> QED
      BY <2>2, <3>1, <3>2 DEF Revisions
  <2>8. ASSUME NEW i \in 1..(m + n), NEW j \in 1..(m + n), plan'[i] = plan'[j] PROVE i = j
    <3>1. CASE i <= m /\ j <= m
      BY <2>3, <2>5, <2>8, <3>1 DEF PlanInv, PlanInOrder
    <3>2. CASE i > m /\ j > m
      <4>1. i - m \in 1..n /\ j - m \in 1..n /\ revised[i - m] = revised[j - m]
        BY <2>2, <2>3, <2>5, <2>8, <3>2
      <4> QED
        BY <2>2, <2>3, <4>1
    <3>3. CASE i <= m /\ j > m
      <4>1. i \in 1..m /\ j - m \in 1..n /\ completed[i] = revised[j - m]
        BY <2>2, <2>3, <2>5, <2>8, <3>3
      <4> QED
        BY <2>7, <4>1
    <3>4. CASE i > m /\ j <= m
      <4>1. j \in 1..m /\ i - m \in 1..n /\ completed[j] = revised[i - m]
        BY <2>2, <2>3, <2>5, <2>8, <3>4
      <4> QED
        BY <2>7, <4>1
    <3> QED
      BY <2>2, <2>3, <3>1, <3>2, <3>3, <3>4
  <2>9. DOMAIN plan' = 1..(m + n)
    BY <2>2, <2>3, <2>5
  <2> QED
    BY <1>1, <2>2, <2>3, <2>5, <2>6, <2>8, <2>9 DEF PlanInv, PlanInOrder
<1> QED
  BY <1>2, <1>3 DEF Replan

LEMMA PlanStep == IInv /\ PlanInv /\ [Next]_vars => PlanInv'
<1> SUFFICES ASSUME IInv, PlanInv, [Next]_vars PROVE PlanInv'
  OBVIOUS
<1>1. CASE NewTurn \/ Resume \/ RunEnds
  BY <1>1, SamePlan DEF NewTurn, Resume, RunEnds, planVars, PlanInv
<1>2. CASE InitializeTurn
  BY <1>2, LimitsAssumption DEF InitializeTurn, GoTo, PlanInv, PlanInOrder
<1>3. CASE RouteQuestion \/ GeneralChat
  BY <1>3, SamePlan DEF RouteQuestion, GeneralChat, GoTo, planVars
<1>4. CASE RunReactAgent
  <2>1. node' \notin {"retriever", "executor_complete"}
    BY <1>4 DEF RunReactAgent, At, GoTo, RouteAfterRetrieval, IInv, RouteOfNode
  <2> QED
    BY <1>4, <2>1, SamePlan DEF RunReactAgent, planVars
<1>5. CASE RetrieveChunks
  <2>1. node = "retriever" /\ UNCHANGED <<route, plan, index, completed>>
    BY <1>5 DEF RetrieveChunks, At, planVars
  <2> QED
    BY <2>1, SamePlan DEF PlanInv
<1>6. CASE GenerateAnswer \/ EnterBestEffort \/ FinalizeInsufficientEvidence \/ FinalizeAnswer
  BY <1>6, SamePlan DEF GenerateAnswer, EnterBestEffort, FinalizeInsufficientEvidence,
                        FinalizeAnswer, GoTo, planVars
<1>7. CASE EvaluateAnswer
  BY <1>7, SamePlan DEF EvaluateAnswer, GoTo, RouteAfterAnswerEvaluation, planVars
<1>8. CASE ReflectOnAnswer
  BY <1>8, SamePlan DEF ReflectOnAnswer, GoTo, planVars
<1>9. CASE UNCHANGED vars
  BY <1>9, SamePlan DEF vars, runVars, planVars, PlanInv
<1> QED
  BY <1>1, <1>2, <1>3, <1>4, <1>5, <1>6, <1>7, <1>8, <1>9, PlanQuestionPlan, SelectNextStepPlan,
     CompleteCurrentStepPlan, ReplanPlan DEF Next, NodeStep

-----------------------------------------------------------------------------
(* The supersteps that are left of a turn, at most.                        *)

\* What the steps to come and the reflections to come may take: four supersteps each.
Loops == 4 * (MaxPlanSteps - Len(completed)) + 4 * (MaxReflections - reflections)

\* The supersteps of the longest turn.
Longest == 4 * MaxPlanSteps + 4 * MaxReflections + 10

\* The longest way from a node to the end of the turn.
Remaining ==
  CASE node = "end" -> 0
    [] node = "finalize_answer" -> 1
    [] node \in {"fallback_answer", "general_chat"} -> 2
    [] node = "best_effort" -> 5
    [] node = "answer_evaluator" -> IF mode = "best_effort" THEN 3 ELSE Loops + 6
    [] node = "generator" -> IF mode = "best_effort" THEN 4 ELSE Loops + 7
    [] node \in {"executor_complete", "reflection"} -> Loops + 5
    [] node = "retriever" -> IF route = "plan_execute" THEN Loops + 6 ELSE Loops + 8
    [] node = "executor_select" -> Loops + 7
    [] node \in {"replanner", "planner", "react_adapter"} -> Loops + 8
    [] node = "router" -> Loops + 9
    [] node = "initialize_turn" -> Longest

\* A run has no more to do than a turn takes from its beginning.
Measured ==
  /\ node \in Nodes \union {"end"}
  /\ supersteps \in Nat
  /\ supersteps + Remaining <= Longest

\* What the loops may still take never grows.
LEMMA LoopsTyped ==
  IInv /\ PlanInv => Loops \in Nat /\ Loops + 10 <= Longest
<1> SUFFICES ASSUME IInv, PlanInv PROVE Loops \in Nat /\ Loops + 10 <= Longest
  OBVIOUS
<1>1. Len(completed) \in 0..MaxPlanSteps
  BY PlanSets, LimitsAssumption
<1>2. reflections \in 0..MaxReflections
  BY LimitsAssumption DEF IInv, Typed, SearchBudgets
<1> QED
  BY <1>1, <1>2, LimitsAssumption DEF Loops, Longest

LEMMA LongestTyped == Longest \in Nat /\ Longest >= 14
BY LimitsAssumption DEF Longest

LEMMA LoopsTypedNext == (IInv /\ PlanInv => Loops \in Nat /\ Loops + 10 <= Longest)'
BY LoopsTyped, PTL

LEMMA InitMeasured == Init => Measured
BY LongestTyped DEF Init, Measured, Remaining

\* The arithmetic of a superstep, and of a step that is none.
LEMMA StepCloser ==
  ASSUME NEW s \in Nat, NEW t \in Nat, NEW r \in Nat, NEW q \in Nat, NEW l \in Nat,
         s + r <= l, t = s + 1, q < r
  PROVE  t + q <= l
OBVIOUS

LEMMA NoFurther ==
  ASSUME NEW s \in Nat, NEW t \in Nat, NEW r \in Nat, NEW q \in Nat, NEW l \in Nat,
         s + r <= l, t <= s, q = r
  PROVE  t + q <= l
OBVIOUS

\* A superstep that leads closer to the end.
LEMMA Closer ==
  ASSUME Measured, node' \in Nodes \union {"end"}, supersteps' = supersteps + 1,
         Remaining \in Nat, Remaining' \in Nat, Remaining' < Remaining
  PROVE  Measured'
<1>1. supersteps \in Nat /\ supersteps + Remaining <= Longest
  BY DEF Measured
<1>2. supersteps' \in Nat
  BY <1>1
<1>3. supersteps' + Remaining' <= Longest
  BY <1>1, <1>2, StepCloser, LongestTyped
<1> QED
  BY <1>2, <1>3 DEF Measured

LEMMA NodeStepMeasured ==
  ASSUME IInv, PlanInv, Measured, IInv', PlanInv', NodeStep
  PROVE  Measured'
<1>1. Loops \in Nat /\ Loops' \in Nat /\ Loops + 10 <= Longest /\ Loops' + 10 <= Longest
  <2>1. Loops' \in Nat /\ Loops' + 10 <= Longest
    BY LoopsTypedNext, LimitsAssumption
  <2> QED
    BY <2>1, LoopsTyped
<1>2. supersteps' = supersteps + 1
  BY DEF NodeStep, InitializeTurn, RouteQuestion, GeneralChat, RunReactAgent, PlanQuestion,
         SelectNextStep, RetrieveChunks, CompleteCurrentStep, Replan, GenerateAnswer,
         EvaluateAnswer, ReflectOnAnswer, EnterBestEffort, FinalizeInsufficientEvidence,
         FinalizeAnswer, GoTo
<1>3. UNCHANGED <<completed, reflections>> => Loops' = Loops
  BY DEF Loops
<1> USE DEF At, GoTo, Remaining, Nodes
<1>4. CASE InitializeTurn
  <2>1. node = "initialize_turn" /\ node' = "router"
    BY <1>4 DEF InitializeTurn
  <2> QED
    BY <1>1, <1>2, <2>1, LongestTyped, Closer
<1>5. CASE RouteQuestion
  <2>1. node = "router" /\ node' \in {"general_chat", "react_adapter", "planner"}
        /\ UNCHANGED <<completed, reflections>>
    BY <1>5 DEF RouteQuestion, planVars
  <2> QED
    BY <1>1, <1>2, <1>3, <2>1, Closer
<1>6. CASE GeneralChat
  <2>1. node = "general_chat" /\ node' = "finalize_answer"
    BY <1>6 DEF GeneralChat
  <2> QED
    BY <1>1, <1>2, <2>1, Closer
<1>7. CASE RunReactAgent
  <2>1. node = "react_adapter" /\ UNCHANGED <<completed, reflections>>
        /\ node' \in {"finalize_answer", "best_effort", "generator", "answer_evaluator"}
    BY <1>7 DEF RunReactAgent, RouteAfterRetrieval, planVars, IInv, RouteOfNode
  <2> QED
    BY <1>1, <1>2, <1>3, <2>1, Closer
<1>8. CASE PlanQuestion
  <2>1. node = "planner" /\ node' = "executor_select" /\ UNCHANGED <<completed, reflections>>
    BY <1>8 DEF PlanQuestion
  <2> QED
    BY <1>1, <1>2, <1>3, <2>1, Closer
<1>9. CASE SelectNextStep
  <2>1. node = "executor_select" /\ node' = "retriever" /\ route' = "plan_execute"
        /\ UNCHANGED <<completed, reflections>>
    BY <1>9 DEF SelectNextStep, IInv, RouteOfNode
  <2> QED
    BY <1>1, <1>2, <1>3, <2>1, Closer
<1>10. CASE RetrieveChunks
  <2>1. /\ node = "retriever" /\ UNCHANGED <<completed, reflections>>
        /\ \/ node' \in {"finalize_answer", "best_effort"}
           \/ node' = "executor_complete" /\ route = "plan_execute"
           \/ node' \in {"generator", "answer_evaluator"} /\ route # "plan_execute"
    BY <1>10 DEF RetrieveChunks, RouteAfterRetrieval, planVars, IInv, RouteOfNode
  <2> QED
    BY <1>1, <1>2, <1>3, <2>1, Closer
<1>11. CASE CompleteCurrentStep
  <2>1. node = "executor_complete" /\ node' = "replanner"
    BY <1>11 DEF CompleteCurrentStep
  <2>2. Len(completed') = Len(completed) + 1 /\ Len(completed) \in Nat /\ reflections' = reflections
    BY <1>11 DEF CompleteCurrentStep, PlanInv, StepAvailable
  <2>3. Loops' = Loops - 4
    BY <2>2, LimitsAssumption DEF Loops, IInv, Typed
  <2> QED
    BY <1>1, <1>2, <2>1, <2>3, Closer
<1>12. CASE Replan
  <2>1. node = "replanner" /\ node' \in {"generator", "executor_select"}
        /\ UNCHANGED <<completed, reflections>>
    BY <1>12 DEF Replan, RouteAfterReplan
  <2> QED
    BY <1>1, <1>2, <1>3, <2>1, Closer
<1>13. CASE GenerateAnswer
  <2>1. node = "generator" /\ node' = "answer_evaluator" /\ mode' \in {mode, "best_effort"}
        /\ UNCHANGED <<completed, reflections>>
    BY <1>13 DEF GenerateAnswer, planVars
  <2> QED
    BY <1>1, <1>2, <1>3, <2>1, Closer
<1>14. CASE EvaluateAnswer
  <2>1. /\ node = "answer_evaluator" /\ UNCHANGED <<completed, reflections, mode>>
        /\ \/ node' = "finalize_answer"
           \/ node' = "fallback_answer" /\ mode = "best_effort"
           \/ node' \in {"best_effort", "reflection"} /\ mode # "best_effort"
    BY <1>14 DEF EvaluateAnswer, RouteAfterAnswerEvaluation, planVars
  <2> QED
    BY <1>1, <1>2, <1>3, <2>1, Closer
<1>15. CASE ReflectOnAnswer
  <2>1. /\ node = "reflection" /\ UNCHANGED <<completed, route>>
        /\ \/ node' \in {"generator", "replanner"}
           \/ node' = "retriever" /\ route # "plan_execute"
    BY <1>15 DEF ReflectOnAnswer, planVars
  <2>2. reflections' = reflections + 1
    BY <1>15 DEF ReflectOnAnswer
  <2>3. Len(completed) \in Nat
    BY DEF PlanInv
  <2>4. Loops' = Loops - 4
    BY <2>1, <2>2, <2>3, LimitsAssumption DEF Loops, IInv, Typed
  <2> QED
    BY <1>1, <1>2, <2>1, <2>4, Closer
<1>16. CASE EnterBestEffort
  <2>1. node = "best_effort" /\ node' \in {"finalize_answer", "generator"} /\ mode' = "best_effort"
    BY <1>16 DEF EnterBestEffort
  <2> QED
    BY <1>1, <1>2, <2>1, Closer
<1>17. CASE FinalizeInsufficientEvidence \/ FinalizeAnswer
  <2>1. \/ node = "fallback_answer" /\ node' = "finalize_answer"
        \/ node = "finalize_answer" /\ node' = "end"
    BY <1>17 DEF FinalizeInsufficientEvidence, FinalizeAnswer
  <2> QED
    BY <1>1, <1>2, <2>1, Closer
<1> QED
  BY <1>4, <1>5, <1>6, <1>7, <1>8, <1>9, <1>10, <1>11, <1>12, <1>13, <1>14, <1>15, <1>16, <1>17
     DEF NodeStep

LEMMA MeasuredStep ==
  ASSUME IInv, PlanInv, Measured, IInv', PlanInv', [Next]_vars
  PROVE  Measured'
<1>1. Loops \in Nat
  BY LoopsTyped
<1>2. UNCHANGED <<node, completed, reflections, mode, route>> => Remaining' = Remaining
  BY DEF Remaining, Loops
<1>3. CASE NewTurn
  <2>1. node' = "initialize_turn" /\ supersteps' = 0
    BY <1>3 DEF NewTurn
  <2>2. Remaining' = Longest
    BY <2>1 DEF Remaining
  <2> QED
    BY <2>1, <2>2, LongestTyped DEF Measured, Nodes
<1>4. CASE Resume \/ RunEnds
  <2>1. UNCHANGED <<node, completed, reflections, mode, route>> /\ supersteps' \in {supersteps, 0}
    BY <1>4 DEF Resume, RunEnds, planVars
  <2>2. Remaining \in Nat
    BY <1>1, LongestTyped DEF Remaining, Measured, Nodes
  <2>3. supersteps' \in Nat /\ supersteps' <= supersteps /\ supersteps \in Nat
    BY <2>1 DEF Measured
  <2>4. Remaining' = Remaining /\ supersteps + Remaining <= Longest
    BY <1>2, <2>1 DEF Measured
  <2>5. supersteps' + Remaining' <= Longest
    BY <2>2, <2>3, <2>4, NoFurther, LongestTyped
  <2> QED
    BY <2>1, <2>3, <2>5 DEF Measured
<1>5. CASE UNCHANGED vars
  BY <1>2, <1>5 DEF vars, runVars, planVars, Measured
<1> QED
  BY <1>3, <1>4, <1>5, NodeStepMeasured DEF Next

-----------------------------------------------------------------------------
(* Types.                                                                  *)

OtherTypes ==
  /\ running \in BOOLEAN
  /\ route \in {"none", "general_chat", "react", "plan_execute"}
  /\ knowledge \in BOOLEAN
  /\ index \in Nat
  /\ grade \in {"none", "sufficient", "insufficient"}
  /\ draft \in Drafts
  /\ evaluation \in {"none", "ungrounded", "incomplete", "complete"}
  /\ judged \in BOOLEAN
  /\ replans \in Nat

LEMMA TypesStep ==
  ASSUME IInv, PlanInv, OtherTypes, [Next]_vars
  PROVE  OtherTypes'
<1>1. NoDraft \in Drafts /\ Refusal \in Drafts /\ ModelDrafts \subseteq Drafts
      /\ [text |-> "answer", cited |-> {}, matches |-> TRUE] \in Drafts
  BY DEF NoDraft, Refusal, ModelDrafts, Drafts
<1> USE DEF OtherTypes, GoTo
<1>2. CASE NewTurn \/ Resume \/ RunEnds
  BY <1>2 DEF NewTurn, Resume, RunEnds, planVars, evidenceVars, draftVars
<1>3. CASE InitializeTurn
  BY <1>1, <1>3 DEF InitializeTurn
<1>4. CASE RouteQuestion
  BY <1>4 DEF RouteQuestion, NormalizedRoute, planVars, evidenceVars, draftVars
<1>5. CASE GeneralChat
  BY <1>1, <1>5 DEF GeneralChat, planVars
<1>6. CASE RunReactAgent
  <2>1. grade' \in {"none", "sufficient", "insufficient"}
    BY <1>6 DEF RunReactAgent, Grade
  <2>2. draft' \in Drafts /\ judged' = FALSE
        /\ UNCHANGED <<route, knowledge, index, evaluation, replans>> /\ running' \in BOOLEAN
    BY <1>1, <1>6 DEF RunReactAgent, planVars
  <2> QED
    BY <2>1, <2>2
<1>7. CASE PlanQuestion
  BY <1>7 DEF PlanQuestion, evidenceVars, draftVars
<1>8. CASE SelectNextStep
  <2>1. index' \in Nat
    BY <1>8, PlanSets DEF SelectNextStep, PlanInv
  <2> QED
    BY <1>8, <2>1 DEF SelectNextStep, draftVars
<1>9. CASE RetrieveChunks
  <2>1. grade' \in {"none", "sufficient", "insufficient"}
    BY <1>9 DEF RetrieveChunks, Grade
  <2> QED
    BY <1>9, <2>1 DEF RetrieveChunks, planVars, draftVars
<1>10. CASE CompleteCurrentStep
  BY <1>10 DEF CompleteCurrentStep, draftVars
<1>11. CASE Replan
  BY <1>11 DEF Replan, evidenceVars, draftVars
<1>12. CASE GenerateAnswer
  BY <1>1, <1>12 DEF GenerateAnswer, planVars, evidenceVars
<1>13. CASE EvaluateAnswer
  BY <1>13 DEF EvaluateAnswer, planVars, evidenceVars
<1>14. CASE ReflectOnAnswer
  BY <1>1, <1>14 DEF ReflectOnAnswer, planVars, evidenceVars, draftVars
<1>15. CASE EnterBestEffort
  BY <1>1, <1>15 DEF EnterBestEffort, planVars, evidenceVars, draftVars
<1>16. CASE FinalizeInsufficientEvidence
  BY <1>1, <1>16 DEF FinalizeInsufficientEvidence, planVars, evidenceVars
<1>17. CASE FinalizeAnswer
  BY <1>17 DEF FinalizeAnswer, planVars, evidenceVars, draftVars
<1>18. CASE UNCHANGED vars
  BY <1>18 DEF vars, runVars, planVars, evidenceVars, draftVars
<1> QED
  BY <1>2, <1>3, <1>4, <1>5, <1>6, <1>7, <1>8, <1>9, <1>10, <1>11, <1>12, <1>13, <1>14, <1>15,
     <1>16, <1>17, <1>18 DEF Next, NodeStep

-----------------------------------------------------------------------------
(* Revisions.                                                              *)

\* The nodes from which a turn may come to the replanner without completing a step.
Looking ==
  \/ node \in {"replanner", "reflection"}
  \/ node \in {"generator", "answer_evaluator"} /\ mode # "best_effort"

\* A plan that was revised has a step to complete before it is looked at again.
Revised ==
  /\ replans < MaxPlanSteps
  /\ replans <= Len(completed)
  /\ Looking /\ route = "plan_execute" => replans < Len(completed)

\* What is pending, in a state and in the next.
LEMMA PendingAfter == PlanInv => Pending = (Len(completed) + 1)..Len(plan)
BY PlanSets

LEMMA PendingNext == (PlanInv => Pending = (Len(completed) + 1)..Len(plan))'
BY PendingAfter, PTL

\* What leaves the counts alone has to keep to the nodes.
LEMMA SameRevisions ==
  ASSUME Revised, UNCHANGED <<replans, completed>>,
         Looking' /\ route' = "plan_execute" => Looking /\ route = "plan_execute"
  PROVE  Revised'
BY DEF Revised

LEMMA ReplanRevised ==
  ASSUME IInv, PlanInv, PlanInv', OtherTypes, Revised, Replan
  PROVE  Revised'
<1>1. node = "replanner" /\ route = "plan_execute" /\ completed' = completed
  BY DEF Replan, At, IInv, RouteOfNode
<1>2. replans \in Nat /\ Len(completed) \in Nat /\ replans < Len(completed)
  BY <1>1 DEF OtherTypes, PlanInv, Revised, Looking
<1>3. CASE UNCHANGED <<plan, replans>>
  BY <1>1, <1>2, <1>3 DEF Revised
<1>4. ASSUME NEW revised \in Revisions, plan' = Kept \o revised, replans' = replans + 1
      PROVE  Revised'
  <2> DEFINE m == Len(completed)
             n == Len(revised)
  <2>1. PICK k \in 1..MaxPlanSteps : revised \in [1..k -> StepIds]
    BY DEF Revisions
  <2>2. revised \in Seq(StepIds) /\ n \in Nat /\ n > 0 /\ m + n <= MaxPlanSteps
    BY <2>1, CompletedCounted, LimitsAssumption DEF Revisions
  <2>3. plan' = completed \o revised
    BY <1>4, KeptIsCompleted
  <2>4. Len(plan') = m + n /\ Len(completed') = m
    BY <1>1, <2>2, <2>3 DEF PlanInv
  <2>5. Pending' # {}
    <3>1. Pending' = (Len(completed') + 1)..Len(plan')
      BY PendingNext, LimitsAssumption
    <3>2. m \in Nat /\ n \in Nat /\ n > 0
      BY <1>2, <2>2
    <3> HIDE DEF m, n
    <3>3. m + n \in (m + 1)..(m + n)
      BY <3>2
    <3> QED
      BY <2>4, <3>1, <3>3
  <2>6. node' = "executor_select"
    BY <2>5 DEF Replan, GoTo, RouteAfterReplan
  <2> QED
    BY <1>1, <1>2, <1>4, <2>2, <2>6, LimitsAssumption DEF Revised, Looking
<1> QED
  BY <1>3, <1>4 DEF Replan

LEMMA RevisedStep ==
  ASSUME IInv, PlanInv, OtherTypes, Revised, PlanInv', [Next]_vars
  PROVE  Revised'
<1>1. replans \in Nat /\ Len(completed) \in Nat
  BY DEF OtherTypes, PlanInv
<1> USE DEF At, GoTo, Looking
<1>2. CASE NewTurn \/ Resume \/ RunEnds
  BY <1>2, SameRevisions DEF NewTurn, Resume, RunEnds, planVars
<1>3. CASE InitializeTurn
  <2>1. replans' = 0 /\ completed' = <<>> /\ node' = "router"
    BY <1>3 DEF InitializeTurn
  <2> QED
    BY <2>1, LimitsAssumption DEF Revised
<1>4. CASE RouteQuestion
  BY <1>4, SameRevisions DEF RouteQuestion, planVars
<1>5. CASE GeneralChat
  BY <1>5, SameRevisions DEF GeneralChat, planVars
<1>6. CASE RunReactAgent
  <2>1. route' # "plan_execute"
    BY <1>6 DEF RunReactAgent, IInv, RouteOfNode
  <2> QED
    BY <1>6, <2>1, SameRevisions DEF RunReactAgent, planVars
<1>7. CASE PlanQuestion \/ SelectNextStep
  BY <1>7, SameRevisions DEF PlanQuestion, SelectNextStep
<1>8. CASE RetrieveChunks
  <2>1. route' = "plan_execute" => node' \in {"finalize_answer", "best_effort", "executor_complete"}
    BY <1>8 DEF RetrieveChunks, RouteAfterRetrieval
  <2> QED
    BY <1>8, <2>1, SameRevisions DEF RetrieveChunks, planVars
<1>9. CASE CompleteCurrentStep
  <2>1. Len(completed') = Len(completed) + 1 /\ replans' = replans
    BY <1>9, PlanSets, LimitsAssumption DEF CompleteCurrentStep, StepAvailable, PlanInv
  <2> QED
    BY <1>1, <2>1 DEF Revised
<1>10. CASE Replan
  BY <1>10, ReplanRevised
<1>11. CASE GenerateAnswer
  BY <1>11, SameRevisions DEF GenerateAnswer, planVars
<1>12. CASE EvaluateAnswer
  BY <1>12, SameRevisions DEF EvaluateAnswer, RouteAfterAnswerEvaluation, planVars
<1>13. CASE ReflectOnAnswer
  BY <1>13, SameRevisions DEF ReflectOnAnswer, planVars
<1>14. CASE EnterBestEffort \/ FinalizeInsufficientEvidence \/ FinalizeAnswer
  BY <1>14, SameRevisions DEF EnterBestEffort, FinalizeInsufficientEvidence, FinalizeAnswer,
                              planVars
<1>15. CASE UNCHANGED vars
  BY <1>15, SameRevisions DEF vars, runVars, planVars
<1> QED
  BY <1>2, <1>3, <1>4, <1>5, <1>6, <1>7, <1>8, <1>9, <1>10, <1>11, <1>12, <1>13, <1>14, <1>15
  DEF Next, NodeStep

-----------------------------------------------------------------------------

\* The second invariant.
TurnInv == PlanInv /\ Measured /\ OtherTypes /\ Revised

THEOREM TurnsKept == Spec => []TurnInv
<1>1. Init => TurnInv
  <2>1. NoDraft \in Drafts
    BY DEF NoDraft, Drafts
  <2>2. ASSUME Init PROVE OtherTypes
    <3>1. draft \in Drafts
      BY <2>1, <2>2 DEF Init
    <3> QED
      BY <2>2, <3>1 DEF Init, OtherTypes
  <2>3. ASSUME Init PROVE Revised
    BY <2>3, LimitsAssumption DEF Init, Revised, Looking
  <2> QED
    BY <2>2, <2>3, InitPlan, InitMeasured DEF TurnInv
<1>2. IInv /\ TurnInv /\ IInv' /\ [Next]_vars => TurnInv'
  BY PlanStep, MeasuredStep, TypesStep, RevisedStep DEF TurnInv
<1> QED
  BY <1>1, <1>2, Inductive, PTL DEF Spec

\* The checkpoint keeps its types through every node, retry and resumption.
THEOREM TypeCorrect == Spec => []TypeOK
<1>1. IInv /\ TurnInv => TypeOK
  BY DEF IInv, Typed, TurnInv, PlanInv, Measured, OtherTypes, TypeOK
<1> QED
  BY <1>1, Inductive, TurnsKept, PTL

\* Whatever a replanning model answers, the completed steps stay the beginning of the plan, no
\* step id is used twice, and the plan keeps to MAX_PLAN_STEPS.
THEOREM PlanStaysInOrder == Spec => []PlanInOrder
<1>1. TurnInv => PlanInOrder
  BY DEF TurnInv, PlanInv
<1> QED
  BY <1>1, TurnsKept, PTL

\* Reflections, revisions and retrieval rounds keep to their budgets, for all budgets.
THEOREM BudgetsAreKept == Spec => []BudgetsKept
<1>1. IInv /\ TurnInv => BudgetsKept
  BY DEF IInv, SearchBudgets, TurnInv, Revised, BudgetsKept
<1> QED
  BY <1>1, Inductive, TurnsKept, PTL

\* A turn ends within LangGraph's recursion limit if that leaves four supersteps for each plan
\* step and each reflection, and ten more: chat.py fixes the limit, the settings fix the rest.
THEOREM RunsEndInTime ==
  ASSUME RecursionLimit >= 4 * MaxPlanSteps + 4 * MaxReflections + 10
  PROVE  Spec => []RecursionSuffices
<1>1. IInv /\ TurnInv => RecursionSuffices
  <2> SUFFICES ASSUME IInv, TurnInv, node \in Nodes PROVE supersteps < RecursionLimit
    BY DEF RecursionSuffices
  <2>1. Loops \in Nat
    BY LoopsTyped DEF TurnInv
  <2>2. Remaining \in Nat /\ Remaining >= 1
    <3>1. CASE node = "finalize_answer"
      BY <2>1, <3>1, LongestTyped DEF Remaining
    <3>2. CASE node \in {"fallback_answer", "general_chat"}
      <4>1. Remaining = 2
        BY <2>1, <3>2, LongestTyped DEF Remaining
      <4> QED
        BY <4>1
    <3>3. CASE node = "best_effort"
      BY <2>1, <3>3, LongestTyped DEF Remaining
    <3>4. CASE node = "answer_evaluator"
      BY <2>1, <3>4, LongestTyped DEF Remaining
    <3>5. CASE node = "generator"
      BY <2>1, <3>5, LongestTyped DEF Remaining
    <3>6. CASE node \in {"executor_complete", "reflection"}
      BY <2>1, <3>6, LongestTyped DEF Remaining
    <3>7. CASE node = "retriever"
      BY <2>1, <3>7, LongestTyped DEF Remaining
    <3>8. CASE node = "executor_select"
      BY <2>1, <3>8, LongestTyped DEF Remaining
    <3>9. CASE node \in {"replanner", "planner", "react_adapter"}
      BY <2>1, <3>9, LongestTyped DEF Remaining
    <3>10. CASE node = "router"
      BY <2>1, <3>10, LongestTyped DEF Remaining
    <3>11. CASE node = "initialize_turn"
      BY <2>1, <3>11, LongestTyped DEF Remaining
    <3> QED
      BY <3>1, <3>2, <3>3, <3>4, <3>5, <3>6, <3>7, <3>8, <3>9, <3>10, <3>11 DEF Nodes
  <2>3. supersteps \in Nat /\ supersteps + Remaining <= Longest
    BY DEF TurnInv, Measured
  <2>4. Longest <= RecursionLimit /\ RecursionLimit \in Nat
    BY LimitsAssumption DEF Longest
  <2> QED
    BY <2>2, <2>3, <2>4, LongestTyped
<1> QED
  BY <1>1, Inductive, TurnsKept, PTL
=============================================================================
