-------------------------- MODULE ChatRuntimeProof --------------------------
(***************************************************************************)
(* The safety invariants of module ChatRuntime for any requests, turns and  *)
(* length of a turn: a conversation has one run, and unless a request was   *)
(* admitted, or a superstep saved, by an outdated state an unfinished turn  *)
(* stays resumable, a run executes its own turn only, and an answered turn  *)
(* is not executed again.                                                   *)
(***************************************************************************)
EXTENDS ChatRuntime, TLAPS

\* A request that was admitted and has not started its graph could be admitted now.
StillAdmitted ==
    ~raced => \A r \in Requests : request[r].pc = "start" =>
                  Admits(request[r].kind, StateValues, request[r].turn)

\* A request that asked for something asked for a turn.
AsksForTurn == \A r \in Requests : request[r].pc # "idle" => request[r].turn \in Turns

\* A checkpoint with steps to go is in a turn.
TurnToGo == HasSteps(checkpoint.step) => checkpoint.turn \in Turns

Admission == UnfinishedKeptUnlessRaced /\ RunsOwnTurn /\ AnsweredOnce

\* Admission is not inductive: what was true of the checkpoint when a run was admitted must
\* still be true when its graph starts, which is so because nobody else runs.
IInv == TypeOK /\ RunsExclusive /\ AsksForTurn /\ TurnToGo /\ StillAdmitted /\ Admission

LEMMA StateValuesType == TypeOK => StateValues \in Values
BY DEF TypeOK, StateValues, Values

LEMMA InitIInv == Init => IInv
<1> SUFFICES ASSUME Init PROVE IInv
  OBVIOUS
<1>1. IdleRequest \in RequestStates /\ IdleRequest.pc = "idle"
  BY DEF IdleRequest, RequestStates, Kinds, NoValues, Values
<1>2. TypeOK
  <2>1. raced \in BOOLEAN
    BY DEF Init
  <2>2. checkpoint \in [turn : Turns \union {NoTurn}, step : 0..Steps]
    BY RuntimeAssumption DEF Init
  <2>3. QED
    BY <1>1, <2>1, <2>2 DEF Init, TypeOK
<1>3. RunsExclusive /\ AsksForTurn /\ TurnToGo /\ StillAdmitted
  BY <1>1, RuntimeAssumption
  DEF Init, RunsExclusive, Running, AsksForTurn, TurnToGo, HasSteps, StillAdmitted
<1>4. Admission
  BY <1>1, RuntimeAssumption
  DEF Init, Admission, UnfinishedKeptUnlessRaced, UnfinishedKept, UnfinishedTurns,
      RunsOwnTurn, AnsweredOnce, HasSteps
<1>5. QED
  BY <1>2, <1>3, <1>4 DEF IInv

----------------------------------------------------------------------------
(* Steps that leave the checkpoint alone.                                   *)

\* A request moves to a place where it has no run, and no run is touched.
LEMMA Waiting ==
    ASSUME IInv, NEW r \in Requests, UNCHANGED <<active, graph, late, raced>>,
           ~Running(r),
           NEW state \in RequestStates, request' = [request EXCEPT ![r] = state],
           state.pc \notin {"start", "run"},
           state.pc # "idle" => state.turn \in Turns
    PROVE  IInv'
<1>1. TypeOK'
  BY DEF IInv, TypeOK, graph
<1>2. \A q \in Requests : request'[q] = IF q = r THEN state ELSE request[q]
  BY DEF IInv, TypeOK
<1>3. RunsExclusive' /\ AsksForTurn' /\ TurnToGo'
  BY <1>2 DEF IInv, RunsExclusive, Running, AsksForTurn, TurnToGo, graph
<1>4. StateValues' = StateValues
  BY DEF StateValues, graph
<1>5. StillAdmitted'
  BY <1>2, <1>4 DEF IInv, StillAdmitted, Admits, AdmitsNewTurn, AdmitsResume, Resumable
<1>6. Admission'
  BY <1>2 DEF IInv, Admission, UnfinishedKeptUnlessRaced, UnfinishedKept, UnfinishedTurns,
              RunsOwnTurn, AnsweredOnce, graph
<1>7. QED
  BY <1>1, <1>3, <1>5, <1>6 DEF IInv

LEMMA EnterPreserves ==
    ASSUME IInv, NEW r \in Requests, NEW kind \in Kinds, NEW t \in Turns, Enter(r, kind, t)
    PROVE  IInv'
<1> DEFINE state == [pc |-> "read", kind |-> kind, turn |-> t, values |-> NoValues]
<1>1. state \in RequestStates /\ state.pc = "read" /\ state.turn \in Turns
  BY DEF RequestStates, NoValues, Values
<1>2. ~Running(r)
  BY DEF Enter, Running
<1>3. /\ request' = [request EXCEPT ![r] = state]
      /\ UNCHANGED <<active, graph, late, raced>>
  BY DEF Enter
<1> HIDE DEF state
<1>4. QED
  BY <1>1, <1>2, <1>3, Waiting

LEMMA ReadStatePreserves ==
    ASSUME IInv, NEW r \in Requests, ReadState(r)
    PROVE  IInv'
<1> DEFINE state == [request[r] EXCEPT !.pc = "admit", !.values = StateValues]
<1>1. request[r] \in RequestStates /\ request[r].pc = "read" /\ request[r].turn \in Turns
  BY DEF IInv, TypeOK, AsksForTurn, ReadState
<1>2. state \in RequestStates /\ state.pc = "admit" /\ state.turn = request[r].turn
  BY <1>1, StateValuesType DEF IInv, RequestStates
<1>3. request' = [request EXCEPT ![r] = state]
  BY DEF ReadState
<1>4. ~Running(r) /\ UNCHANGED <<active, graph, late, raced>>
  BY DEF ReadState, Running
<1> HIDE DEF state
<1>5. QED
  BY <1>1, <1>2, <1>3, <1>4, Waiting

LEMMA RejectPreserves ==
    ASSUME IInv, NEW r \in Requests, Reject(r)
    PROVE  IInv'
<1>1. IdleRequest \in RequestStates /\ IdleRequest.pc = "idle"
  BY DEF IdleRequest, RequestStates, Kinds, NoValues, Values
<1>2. ~Running(r) /\ UNCHANGED <<active, graph, late, raced>>
  BY DEF Reject, Running
<1>3. request' = [request EXCEPT ![r] = IdleRequest]
  BY DEF Reject, End
<1>4. QED
  BY <1>1, <1>2, <1>3, Waiting

\* A run is registered only when there is none; it is admitted by the checkpoint as it is,
\* or the admission counts as raced.
LEMMA AcquirePreserves ==
    ASSUME IInv, NEW r \in Requests, Acquire(r)
    PROVE  IInv'
<1>1. /\ request[r].pc = "admit" /\ active = NoRun /\ active' = r
      /\ Admits(request[r].kind, request[r].values, request[r].turn)
      /\ raced' = (raced \/ request[r].values # StateValues)
      /\ request' = [request EXCEPT ![r].pc = "start"]
      /\ UNCHANGED <<checkpoint, asked, answered, late>>
  BY DEF Acquire, Acquirable, Goto, graph
<1>2. request[r] \in RequestStates
  BY DEF IInv, TypeOK
<1>3. /\ request'[r].pc = "start"
      /\ request'[r].kind = request[r].kind
      /\ request'[r].turn = request[r].turn
      /\ request'[r] \in RequestStates
  BY <1>1, <1>2 DEF IInv, TypeOK, RequestStates
<1>4. \A q \in Requests : q # r => request'[q] = request[q]
  BY <1>1 DEF IInv, TypeOK
<1>5. request' \in [Requests -> RequestStates]
  BY <1>1, <1>3, <1>4 DEF IInv, TypeOK
<1>6. raced' \in BOOLEAN
  BY <1>1
<1>7. TypeOK'
  BY <1>1, <1>5, <1>6 DEF IInv, TypeOK
<1>8. RunsExclusive'
  BY <1>1, <1>3, <1>4, RuntimeAssumption DEF IInv, RunsExclusive, Running
<1>9. AsksForTurn' /\ TurnToGo'
  BY <1>1, <1>3, <1>4 DEF IInv, AsksForTurn, TurnToGo
<1>10. StateValues' = StateValues
  BY <1>1 DEF StateValues
<1>11. StillAdmitted'
  <2> SUFFICES ASSUME ~raced', NEW q \in Requests, request'[q].pc = "start"
               PROVE  Admits(request'[q].kind, StateValues', request'[q].turn)
    BY DEF StillAdmitted
  <2>1. q = r
    BY <1>1, <1>4, RuntimeAssumption DEF IInv, RunsExclusive, Running
  <2>2. request[r].values = StateValues
    BY <1>1
  <2>3. QED
    BY <1>1, <1>3, <1>10, <2>1, <2>2
<1>12. Admission'
  BY <1>1, <1>3, <1>4
  DEF IInv, Admission, UnfinishedKeptUnlessRaced, UnfinishedKept, UnfinishedTurns,
      RunsOwnTurn, AnsweredOnce
<1>13. QED
  BY <1>7, <1>8, <1>9, <1>11, <1>12 DEF IInv

----------------------------------------------------------------------------
(* Steps of the run.                                                        *)

\* The run that writes the checkpoint is the only one.
LEMMA OnlyRun ==
    ASSUME IInv, NEW r \in Requests, Running(r)
    PROVE  active = r /\ \A q \in Requests : Running(q) => q = r
BY DEF IInv, RunsExclusive

LEMMA StartGraphPreserves ==
    ASSUME IInv, NEW r \in Requests, StartGraph(r)
    PROVE  IInv'
<1>1. /\ request[r].pc = "start" /\ request[r].turn \in Turns /\ Running(r)
      /\ request' = [request EXCEPT ![r].pc = "run"]
      /\ UNCHANGED <<active, answered, late, raced>>
  BY DEF StartGraph, Goto, IInv, AsksForTurn, Running
<1>2. \A q \in Requests : Running(q) => q = r
  BY <1>1, OnlyRun
<1>3. request[r] \in RequestStates
  BY DEF IInv, TypeOK
<1>4. /\ request'[r].pc = "run"
      /\ request'[r].turn = request[r].turn
      /\ request'[r] \in RequestStates
  BY <1>1, <1>3 DEF IInv, TypeOK, RequestStates
<1>5. \A q \in Requests : q # r => request'[q] = request[q]
  BY <1>1 DEF IInv, TypeOK
<1>6. request' \in [Requests -> RequestStates]
  BY <1>1, <1>4, <1>5 DEF IInv, TypeOK
<1>7. /\ checkpoint' \in [turn : Turns \union {NoTurn}, step : 0..Steps]
      /\ asked' \subseteq Turns
  BY <1>1, RuntimeAssumption DEF StartGraph, IInv, TypeOK
<1>8. TypeOK'
  BY <1>1, <1>6, <1>7 DEF IInv, TypeOK
<1>9. RunsExclusive' /\ AsksForTurn' /\ TurnToGo'
  <2>1. RunsExclusive' /\ AsksForTurn'
    BY <1>1, <1>4, <1>5 DEF IInv, RunsExclusive, Running, AsksForTurn
  <2>2. TurnToGo'
    BY <1>1 DEF IInv, TurnToGo, StartGraph
  <2>3. QED
    BY <2>1, <2>2
<1>10. StillAdmitted'
  BY <1>2, <1>4, <1>5 DEF StillAdmitted, Running
<1>11. ASSUME ~raced
       PROVE  /\ UnfinishedKept'
              /\ checkpoint'.turn = request[r].turn
              /\ HasSteps(checkpoint'.step) => checkpoint'.turn \notin answered
  <2>1. Admits(request[r].kind, StateValues, request[r].turn)
    BY <1>1, <1>11 DEF IInv, StillAdmitted
  <2>2. UnfinishedKept
    BY <1>11 DEF IInv, Admission, UnfinishedKeptUnlessRaced
  <2>3. CASE request[r].kind = "new"
    <3>1. checkpoint'.turn = request[r].turn /\ asked' = asked \union {request[r].turn}
      BY <2>3 DEF StartGraph
    <3>2. request[r].turn \notin answered /\ Resumable(StateValues) = NoTurn
      BY <2>1, <2>3 DEF Admits, AdmitsNewTurn, StateValues
    <3>3. UnfinishedTurns = {}
      BY <2>2, <3>2, RuntimeAssumption
      DEF Resumable, StateValues, UnfinishedKept, UnfinishedTurns, IInv, TypeOK
    <3>4. QED
      BY <1>1, <3>1, <3>2, <3>3 DEF UnfinishedKept, UnfinishedTurns
  <2>4. CASE request[r].kind # "new"
    <3>1. UNCHANGED <<checkpoint, asked>>
      BY <2>4 DEF StartGraph
    <3>2. Resumable(StateValues) = request[r].turn
      BY <2>1, <2>4 DEF Admits, AdmitsResume
    <3>3. checkpoint.turn = request[r].turn /\ checkpoint.turn \notin answered
      BY <1>1, <3>2, RuntimeAssumption DEF Resumable, StateValues
    <3>4. QED
      BY <1>1, <2>2, <3>1, <3>3 DEF UnfinishedKept, UnfinishedTurns
  <2>5. QED
    BY <2>3, <2>4
<1>12. Admission'
  BY <1>1, <1>2, <1>4, <1>5, <1>11
  DEF Admission, UnfinishedKeptUnlessRaced, RunsOwnTurn, AnsweredOnce, Running
<1>13. QED
  BY <1>8, <1>9, <1>10, <1>12 DEF IInv

\* What the graph has saved can be held by a graph that goes on.
LEMMA SavedType ==
    ASSUME IInv, HasSteps(checkpoint.step)
    PROVE  Saved \in HeldStates
BY DEF IInv, TypeOK, TurnToGo, Saved, HeldStates

\* A superstep on a state leads to such a state.
LEMMA AdvanceType ==
    ASSUME NEW g \in HeldStates, Advance(g)
    PROVE  /\ checkpoint' \in [turn : Turns, step : 0..Steps]
           /\ asked' \subseteq Turns
           /\ answered' \subseteq Turns
           /\ Saved' \in HeldStates
<1>1. g.step \in 0..Steps /\ g.step < Steps /\ g.turn \in Turns
  BY DEF Advance, HasSteps, HeldStates
<1>2. checkpoint' \in [turn : Turns, step : 0..Steps]
  BY <1>1, RuntimeAssumption DEF Advance
<1>3. asked' \subseteq Turns /\ answered' \subseteq Turns
  BY <1>1 DEF Advance, HeldStates
<1>4. QED
  BY <1>2, <1>3 DEF Saved, HeldStates

\* A superstep on what is saved keeps the turn of the checkpoint, and answers it only with
\* the last step.
LEMMA AdvanceKeeps ==
    ASSUME IInv, Advance(Saved)
    PROVE  /\ HasSteps(checkpoint.step)
           /\ checkpoint'.turn = checkpoint.turn
           /\ asked' = asked
           /\ answered \subseteq answered'
           /\ HasSteps(checkpoint'.step) => answered' = answered
<1>1. checkpoint.step \in 0..Steps /\ checkpoint.step < Steps
  BY DEF IInv, TypeOK, Advance, HasSteps, Saved
<1>2. /\ checkpoint'.step = checkpoint.step + 1
      /\ checkpoint'.turn = checkpoint.turn
      /\ asked' = asked
      /\ answered' = IF checkpoint.step + 1 = Steps THEN answered \union {checkpoint.turn}
                                                    ELSE answered
  BY DEF Advance, Saved
<1>3. HasSteps(checkpoint'.step) => answered' = answered
  BY <1>1, <1>2, RuntimeAssumption DEF HasSteps
<1>4. QED
  BY <1>1, <1>2, <1>3 DEF HasSteps

\* Nobody waits to start a graph while the checkpoint goes a superstep further.
LEMMA SavingPreserves ==
    ASSUME IInv, Advance(Saved), UNCHANGED <<active, request, raced>>,
           \A q \in Requests : request[q].pc # "start",
           late' \subseteq late \union {Saved'}
    PROVE  IInv'
<1>1. /\ checkpoint' \in [turn : Turns, step : 0..Steps]
      /\ asked' \subseteq Turns /\ answered' \subseteq Turns
      /\ Saved' \in HeldStates
  <2>1. HasSteps(checkpoint.step)
    BY AdvanceKeeps
  <2>2. Saved \in HeldStates
    BY <2>1, SavedType
  <2>3. QED
    BY <2>2, AdvanceType
<1>2. TypeOK'
  BY <1>1 DEF IInv, TypeOK
<1>3. RunsExclusive' /\ AsksForTurn'
  BY DEF IInv, RunsExclusive, Running, AsksForTurn
<1>4. TurnToGo'
  BY <1>1 DEF TurnToGo
<1>5. StillAdmitted'
  BY DEF StillAdmitted
<1>6. Admission'
  <2>1. /\ HasSteps(checkpoint.step)
        /\ checkpoint'.turn = checkpoint.turn /\ asked' = asked /\ answered \subseteq answered'
        /\ HasSteps(checkpoint'.step) => answered' = answered
    BY AdvanceKeeps
  <2>2. UnfinishedKeptUnlessRaced'
    BY <2>1
    DEF IInv, Admission, UnfinishedKeptUnlessRaced, UnfinishedKept, UnfinishedTurns
  <2>3. RunsOwnTurn' /\ AnsweredOnce'
    BY <2>1 DEF IInv, Admission, RunsOwnTurn, AnsweredOnce
  <2>4. QED
    BY <2>2, <2>3 DEF Admission
<1>7. QED
  BY <1>2, <1>3, <1>4, <1>5, <1>6 DEF IInv

LEMMA SuperstepPreserves ==
    ASSUME IInv, NEW r \in Requests, Superstep(r)
    PROVE  IInv'
<1>1. Advance(Saved) /\ request[r].pc = "run" /\ UNCHANGED <<active, request, late, raced>>
  BY DEF Superstep
<1>2. \A q \in Requests : request[q].pc # "start"
  BY <1>1, OnlyRun DEF Running
<1>3. QED
  BY <1>1, <1>2, SavingPreserves

\* A run ends and its entry is removed; its graph may go on.
LEMMA EndRunPreserves ==
    ASSUME IInv, NEW r \in Requests, Running(r), EndRun(r), UNCHANGED <<graph, raced>>,
           late' \subseteq late \union HeldStates
    PROVE  IInv'
<1>1. IdleRequest \in RequestStates /\ IdleRequest.pc = "idle"
  BY DEF IdleRequest, RequestStates, Kinds, NoValues, Values
<1>2. /\ request' = [request EXCEPT ![r] = IdleRequest] /\ active' = NoRun
      /\ UNCHANGED <<checkpoint, asked, answered, raced>>
  BY OnlyRun DEF EndRun, End, Released, graph
<1>3. \A q \in Requests : request'[q] = IF q = r THEN IdleRequest ELSE request[q]
  BY <1>2 DEF IInv, TypeOK
<1>4. \A q \in Requests : ~Running(q)'
  BY <1>1, <1>3, OnlyRun DEF Running
<1>5. TypeOK'
  BY <1>1, <1>2 DEF IInv, TypeOK
<1>6. RunsExclusive'
  BY <1>2, <1>4, RuntimeAssumption DEF RunsExclusive
<1>7. AsksForTurn' /\ TurnToGo'
  BY <1>1, <1>2, <1>3 DEF IInv, AsksForTurn, TurnToGo
<1>8. StillAdmitted'
  BY <1>4 DEF StillAdmitted, Running
<1>9. Admission'
  BY <1>2, <1>4
  DEF IInv, Admission, UnfinishedKeptUnlessRaced, UnfinishedKept, UnfinishedTurns,
      RunsOwnTurn, AnsweredOnce, Running
<1>10. QED
  BY <1>5, <1>6, <1>7, <1>8, <1>9 DEF IInv

LEMMA DisconnectPreserves ==
    ASSUME IInv, NEW r \in Requests, Disconnect(r)
    PROVE  IInv'
<1>1. Running(r) /\ EndRun(r) /\ UNCHANGED <<graph, raced>>
  BY DEF Disconnect, Running
<1>2. late' \subseteq late \union HeldStates
  BY SavedType DEF Disconnect
<1>3. QED
  BY <1>1, <1>2, EndRunPreserves

\* A graph that outlives its run either goes on where everybody stands, with nobody
\* running, or the superstep counts as raced.
LEMMA LateSuperstepPreserves ==
    ASSUME IInv, NEW g \in late, LateSuperstep(g)
    PROVE  IInv'
<1>1. /\ g \in HeldStates /\ Advance(g)
      /\ late' = (late \ {g}) \union {Saved'}
      /\ raced' = (raced \/ active # NoRun \/ g # Saved)
      /\ UNCHANGED <<active, request>>
  BY DEF LateSuperstep, IInv, TypeOK
<1>2. CASE active = NoRun /\ g = Saved
  <2>1. \A q \in Requests : request[q].pc # "start"
    BY <1>2, RuntimeAssumption DEF IInv, RunsExclusive, Running
  <2>2. raced' = raced
    BY <1>1, <1>2 DEF IInv, TypeOK
  <2>3. Advance(Saved) /\ late' \subseteq late \union {Saved'}
    BY <1>1, <1>2
  <2>4. QED
    BY <1>1, <2>1, <2>2, <2>3, SavingPreserves
<1>3. CASE active # NoRun \/ g # Saved
  <2>1. raced' = TRUE
    BY <1>1, <1>3
  <2>2. /\ checkpoint' \in [turn : Turns, step : 0..Steps]
        /\ asked' \subseteq Turns /\ answered' \subseteq Turns
        /\ Saved' \in HeldStates
    BY <1>1, AdvanceType
  <2>3. TypeOK'
    BY <1>1, <2>1, <2>2 DEF IInv, TypeOK
  <2>4. RunsExclusive' /\ AsksForTurn'
    BY <1>1 DEF IInv, RunsExclusive, Running, AsksForTurn
  <2>5. TurnToGo'
    BY <2>2 DEF TurnToGo
  <2>6. StillAdmitted' /\ Admission'
    BY <2>1
    DEF StillAdmitted, Admission, UnfinishedKeptUnlessRaced, RunsOwnTurn, AnsweredOnce
  <2>7. QED
    BY <2>3, <2>4, <2>5, <2>6 DEF IInv
<1>4. QED
  BY <1>2, <1>3

LEMMA LateStopPreserves ==
    ASSUME IInv, NEW g \in late, LateStop(g)
    PROVE  IInv'
<1>1. /\ UNCHANGED <<active, checkpoint, asked, answered, request, raced>>
      /\ late' \subseteq late
  BY DEF LateStop, graph
<1>2. TypeOK' /\ RunsExclusive' /\ AsksForTurn' /\ TurnToGo'
  BY <1>1 DEF IInv, TypeOK, RunsExclusive, Running, AsksForTurn, TurnToGo
<1>3. StateValues' = StateValues
  BY <1>1 DEF StateValues
<1>4. StillAdmitted'
  BY <1>1, <1>3 DEF IInv, StillAdmitted
<1>5. Admission'
  BY <1>1 DEF IInv, Admission, UnfinishedKeptUnlessRaced, UnfinishedKept, UnfinishedTurns,
              RunsOwnTurn, AnsweredOnce
<1>6. QED
  BY <1>2, <1>4, <1>5 DEF IInv

\* A killed server takes its registry and its requests with it.
LEMMA RestartPreserves ==
    ASSUME IInv, Restart
    PROVE  IInv'
<1>1. IdleRequest \in RequestStates /\ IdleRequest.pc = "idle"
  BY DEF IdleRequest, RequestStates, Kinds, NoValues, Values
<1>2. /\ active' = NoRun /\ request' = [r \in Requests |-> IdleRequest] /\ late' = {}
      /\ UNCHANGED <<checkpoint, asked, answered, raced>>
  BY DEF Restart, graph
<1>3. TypeOK'
  BY <1>1, <1>2 DEF IInv, TypeOK
<1>4. RunsExclusive' /\ AsksForTurn' /\ TurnToGo' /\ StillAdmitted'
  BY <1>1, <1>2, RuntimeAssumption
  DEF IInv, RunsExclusive, Running, AsksForTurn, TurnToGo, StillAdmitted
<1>5. Admission'
  BY <1>1, <1>2
  DEF IInv, Admission, UnfinishedKeptUnlessRaced, UnfinishedKept, UnfinishedTurns,
      RunsOwnTurn, AnsweredOnce
<1>6. QED
  BY <1>3, <1>4, <1>5 DEF IInv

----------------------------------------------------------------------------

LEMMA NextPreserves ==
    ASSUME IInv, [Next]_vars
    PROVE  IInv'
<1>1. CASE Restart
  BY <1>1, RestartPreserves
<1>2. ASSUME NEW r \in Requests, RequestStep(r) PROVE IInv'
  <2>1. ASSUME NEW kind \in Kinds, NEW t \in Turns, Enter(r, kind, t) PROVE IInv'
    BY <2>1, EnterPreserves
  <2>2. CASE ReadState(r)
    BY <2>2, ReadStatePreserves
  <2>3. CASE Acquire(r)
    BY <2>3, AcquirePreserves
  <2>4. CASE Reject(r)
    BY <2>4, RejectPreserves
  <2>5. CASE StartGraph(r)
    BY <2>5, StartGraphPreserves
  <2>6. CASE Superstep(r)
    BY <2>6, SuperstepPreserves
  <2>7. CASE Finish(r)
    BY <2>7, EndRunPreserves DEF Finish, Running
  <2>8. CASE StepFails(r)
    BY <2>8, EndRunPreserves DEF StepFails, Running
  <2>9. CASE Disconnect(r)
    BY <2>9, DisconnectPreserves
  <2>10. QED
    BY <1>2, <2>1, <2>2, <2>3, <2>4, <2>5, <2>6, <2>7, <2>8, <2>9 DEF RequestStep, RunStep
<1>3. CASE UNCHANGED vars
  <2>1. UNCHANGED <<active, checkpoint, asked, answered, request, late, raced>>
    BY <1>3 DEF vars, graph
  <2>2. TypeOK' /\ RunsExclusive' /\ AsksForTurn' /\ TurnToGo'
    BY <2>1 DEF IInv, TypeOK, RunsExclusive, Running, AsksForTurn, TurnToGo
  <2>3. StateValues' = StateValues
    BY <2>1 DEF StateValues
  <2>4. StillAdmitted'
    BY <2>1, <2>3 DEF IInv, StillAdmitted
  <2>5. Admission'
    BY <2>1 DEF IInv, Admission, UnfinishedKeptUnlessRaced, UnfinishedKept, UnfinishedTurns,
                RunsOwnTurn, AnsweredOnce
  <2>6. QED
    BY <2>2, <2>4, <2>5 DEF IInv
<1>4. CASE LateStep
  <2>1. ASSUME NEW g \in late, LateSuperstep(g) PROVE IInv'
    BY <2>1, LateSuperstepPreserves
  <2>2. ASSUME NEW g \in late, LateStop(g) PROVE IInv'
    BY <2>2, LateStopPreserves
  <2>3. QED
    BY <1>4, <2>1, <2>2 DEF LateStep
<1>5. QED
  BY <1>1, <1>2, <1>3, <1>4 DEF Next

\* The invariant that the theorems below are read off from holds in every behaviour.
LEMMA Invariance == Spec => []IInv
<1>1. Init => IInv
  BY InitIInv
<1>2. IInv /\ [Next]_vars => IInv'
  BY NextPreserves
<1>3. QED
  BY <1>1, <1>2, PTL DEF Spec

\* Types are kept, for any number of requests and turns.
THEOREM TypeCorrect == Spec => []TypeOK
<1>1. IInv => TypeOK
  BY DEF IInv
<1>2. QED
  BY <1>1, Invariance, PTL

\* A conversation has at most one run, and is busy exactly while that run goes on.
THEOREM OneRun == Spec => []RunsExclusive
<1>1. IInv => RunsExclusive
  BY DEF IInv
<1>2. QED
  BY <1>1, Invariance, PTL

\* Unless a request is admitted, or a superstep saved, by an outdated state, a turn that failed, was disconnected
\* or was cut off by a restart stays resumable.
THEOREM UnfinishedResumable == Spec => []UnfinishedKeptUnlessRaced
<1>1. IInv => UnfinishedKeptUnlessRaced
  BY DEF IInv, Admission
<1>2. QED
  BY <1>1, Invariance, PTL

\* Under the same condition, a run only ever executes the turn it was acquired for.
THEOREM OwnTurn == Spec => []RunsOwnTurn
<1>1. IInv => RunsOwnTurn
  BY DEF IInv, Admission
<1>2. QED
  BY <1>1, Invariance, PTL

\* Under the same condition, no turn is executed once it is answered.
THEOREM NoSecondAnswer == Spec => []AnsweredOnce
<1>1. IInv => AnsweredOnce
  BY DEF IInv, Admission
<1>2. QED
  BY <1>1, Invariance, PTL
=============================================================================
