----------------------------- MODULE ChatRuntime -----------------------------
(***************************************************************************)
(* ChatRuntime (app/api/chat.py) and ConversationRunRegistry, for one       *)
(* conversation: requests to start a turn and to resume one, the run that   *)
(* streams the parent graph, and the checkpoint the graph leaves in         *)
(* PostgreSQL.  Requests are coroutines of one server process: the registry *)
(* never waits, and reading or writing a checkpoint does.  Clients          *)
(* disconnect, nodes raise, and the server may be killed at any point.      *)
(***************************************************************************)
EXTENDS Integers, FiniteSets

CONSTANTS Requests,   \* concurrent requests of the conversation's clients
          Turns,      \* turn ids
          Steps,      \* supersteps of the parent graph in a turn, the last finalize_answer
          MaxLate     \* bound: graphs that outlive their run at a time

NoRun  == "no run"
NoTurn == "no turn"

ASSUME RuntimeAssumption ==
    /\ NoRun \notin Requests
    /\ NoTurn \notin Turns
    /\ Steps \in Nat \ {0}
    /\ MaxLate \in Nat

VARIABLES active,      \* registry: the request whose run is active, or NoRun
          checkpoint,  \* the graph's state: the turn it is in, and how far it is
          asked,       \* turns whose user message is in the checkpoint
          answered,    \* turns whose assistant message is in the checkpoint
          request,     \* each request
          late,        \* what the graphs of released runs that have not stopped yet hold
          raced        \* history: was a request admitted, or a superstep saved, by a state
                       \* no longer true?

graph == <<checkpoint, asked, answered>>
vars  == <<active, graph, request, late, raced>>

Values == [turn : Turns \union {NoTurn}, asked : SUBSET Turns, answered : SUBSET Turns]

StateValues == [turn |-> checkpoint.turn, asked |-> asked, answered |-> answered]

NoValues == [turn |-> NoTurn, asked |-> {}, answered |-> {}]

\* The checkpoint with the turns in it.
Saved == [turn |-> checkpoint.turn, step |-> checkpoint.step,
          asked |-> asked, answered |-> answered]

HeldStates == [turn : Turns, step : 0..Steps, asked : SUBSET Turns, answered : SUBSET Turns]

Kinds == {"new", "resume"}

RequestStates == [pc : {"idle", "read", "admit", "start", "run"}, kind : Kinds,
                  turn : Turns \union {NoTurn}, values : Values]

IdleRequest == [pc |-> "idle", kind |-> "new", turn |-> NoTurn, values |-> NoValues]

Init ==
    /\ active = NoRun
    /\ checkpoint = [turn |-> NoTurn, step |-> Steps]
    /\ asked = {}
    /\ answered = {}
    /\ request = [r \in Requests |-> IdleRequest]
    /\ late = {}
    /\ raced = FALSE

Goto(r, pc) == request' = [request EXCEPT ![r].pc = pc]

\* The request is answered, with a stream or with an error.
End(r) == request' = [request EXCEPT ![r] = IdleRequest]

----------------------------------------------------------------------------
(* Admission: _validate_new_turn, _validate_resume, acquire.                *)

\* A busy conversation is answered with a 409.
Enter(r, kind, t) ==
    /\ request[r].pc = "idle"
    /\ active = NoRun
    /\ request' = [request EXCEPT ![r] =
                       [pc |-> "read", kind |-> kind, turn |-> t, values |-> NoValues]]
    /\ UNCHANGED <<active, graph, late, raced>>

\* aget_state: others may go on before and after the checkpoint is read.
ReadState(r) ==
    /\ request[r].pc = "read"
    /\ request' = [request EXCEPT ![r].pc = "admit", ![r].values = StateValues]
    /\ UNCHANGED <<active, graph, late, raced>>

Resumable(values) ==
    IF values.turn \in values.asked \ values.answered THEN values.turn ELSE NoTurn

\* Mutants: a turn that is answered or asked is accepted again; an unfinished turn is ignored.
AdmitsRepeatedTurn(values, t) == Resumable(values) = NoTurn
AdmitsPastUnfinished(values, t) == t \notin values.answered \union values.asked

AdmitsNewTurn(values, t) ==
    /\ t \notin values.answered \union values.asked
    /\ Resumable(values) = NoTurn

\* Mutant: whatever turn is unfinished is resumed.
AdmitsAnyResume(values, t) == Resumable(values) # NoTurn

AdmitsResume(values, t) == t \notin values.answered /\ Resumable(values) = t

Admits(kind, values, t) ==
    IF kind = "new" THEN AdmitsNewTurn(values, t) ELSE AdmitsResume(values, t)

\* Mutant: acquire does not look for an active run.
AcquirableAlways(run) == TRUE

Acquirable(run) == run = NoRun

Acquire(r) ==
    /\ request[r].pc = "admit"
    /\ Admits(request[r].kind, request[r].values, request[r].turn)
    /\ Acquirable(active)
    /\ active' = r
    /\ raced' = (raced \/ request[r].values # StateValues)
    /\ Goto(r, "start")
    /\ UNCHANGED <<graph, late>>

\* A 409 or a 404; or the checkpoint cannot be read.
Reject(r) ==
    /\ \/ /\ request[r].pc = "admit"
          /\ ~Admits(request[r].kind, request[r].values, request[r].turn) \/ active # NoRun
       \/ request[r].pc = "read"
    /\ End(r)
    /\ UNCHANGED <<active, graph, late, raced>>

----------------------------------------------------------------------------
(* The run: stream and _graph_events.                                       *)

\* Mutant: the run stays registered.
ReleasedNever(r) == active

\* release: the registry's entry is removed if it is this run's.
Released(r) == IF active = r THEN NoRun ELSE active

EndRun(r) == active' = Released(r) /\ End(r)

\* The graph writes a new turn's input to the checkpoint; a resumed turn has none.
StartGraph(r) ==
    /\ request[r].pc = "start"
    /\ IF request[r].kind = "new"
       THEN /\ checkpoint' = [turn |-> request[r].turn, step |-> 0]
            /\ asked' = asked \union {request[r].turn}
       ELSE UNCHANGED <<checkpoint, asked>>
    /\ Goto(r, "run")
    /\ UNCHANGED <<active, answered, late, raced>>

\* Mutant: one superstep too many.
HasStepsOffByOne(step) == step <= Steps

HasSteps(step) == step < Steps

\* The next nodes run on the state g, and their updates are saved.
Advance(g) ==
    /\ HasSteps(g.step)
    /\ checkpoint' = [turn |-> g.turn, step |-> g.step + 1]
    /\ asked' = g.asked
    /\ answered' = IF g.step + 1 = Steps THEN g.answered \union {g.turn} ELSE g.answered

Superstep(r) ==
    /\ request[r].pc = "run"
    /\ Advance(Saved)
    /\ UNCHANGED <<active, request, late, raced>>

\* The graph has ended: the answer of the run's turn is streamed, or there is none and
\* the stream ends with an error.
Finish(r) ==
    /\ request[r].pc = "run" /\ ~HasSteps(checkpoint.step)
    /\ EndRun(r)
    /\ UNCHANGED <<graph, late, raced>>

\* A node raises: the superstep is not saved, and the stream ends with an error.
StepFails(r) ==
    /\ request[r].pc = "run" /\ HasSteps(checkpoint.step)
    /\ EndRun(r)
    /\ UNCHANGED <<graph, late, raced>>

\* The client goes away: the graph's task is cancelled and the run is released, in this
\* order, or the other way round when the stream was suspended in a yield: what closes it
\* releases the run, and the generator of the graph's events is closed after it.
Disconnect(r) ==
    /\ request[r].pc \in {"start", "run"}
    /\ \/ UNCHANGED late
       \/ /\ request[r].pc = "run" /\ HasSteps(checkpoint.step)
          /\ Cardinality(late) < MaxLate
          /\ late' = late \union {Saved}
    /\ EndRun(r)
    /\ UNCHANGED <<graph, raced>>

\* Such a graph saves one more superstep, over whatever the checkpoint is by now.
LateSuperstep(g) ==
    /\ Advance(g)
    /\ late' = (late \ {g}) \union {Saved'}
    /\ raced' = (raced \/ active # NoRun \/ g # Saved)
    /\ UNCHANGED <<active, request>>

LateStop(g) ==
    /\ late' = late \ {g}
    /\ UNCHANGED <<active, graph, request, raced>>

LateStep == \E g \in late : LateSuperstep(g) \/ LateStop(g)

\* The server process is killed and started again.
Restart ==
    /\ late # {} \/ \E r \in Requests : request[r] # IdleRequest
    /\ active' = NoRun
    /\ request' = [r \in Requests |-> IdleRequest]
    /\ late' = {}
    /\ UNCHANGED <<graph, raced>>

----------------------------------------------------------------------------

RunStep(r) == StartGraph(r) \/ Superstep(r) \/ Finish(r)

RequestStep(r) ==
    \/ \E kind \in Kinds, t \in Turns : Enter(r, kind, t)
    \/ ReadState(r) \/ Acquire(r) \/ Reject(r)
    \/ RunStep(r) \/ StepFails(r) \/ Disconnect(r)

Next == Restart \/ LateStep \/ \E r \in Requests : RequestStep(r)

Spec == Init /\ [][Next]_vars

\* A run goes on until it ends.  Clients need not ask for anything.
FairSpec == Spec /\ \A r \in Requests : WF_vars(RunStep(r))

----------------------------------------------------------------------------
(* Properties.                                                              *)

\* The type invariant.
TypeOK ==
    /\ active \in Requests \union {NoRun}
    /\ checkpoint \in [turn : Turns \union {NoTurn}, step : 0..Steps]
    /\ asked \subseteq Turns
    /\ answered \subseteq Turns
    /\ request \in [Requests -> RequestStates]
    /\ late \subseteq HeldStates
    /\ raced \in BOOLEAN

Running(r) == request[r].pc \in {"start", "run"}

\* A conversation has one run at a time, and it is busy exactly while a run is going on:
\* whoever disconnects or fails leaves no entry behind and removes no other's.
RunsExclusive == \A r \in Requests : Running(r) <=> active = r

UnfinishedTurns == asked \ answered

\* A turn that was asked and not answered can be resumed.
UnfinishedKept == UnfinishedTurns \subseteq {checkpoint.turn}

\* Unless a request was admitted, or a superstep saved after its run's release, by an
\* outdated state, an unfinished turn stays resumable, whatever fails, ...
UnfinishedKeptUnlessRaced == ~raced => UnfinishedKept

\* ... a run only executes its own turn, ...
RunsOwnTurn ==
    ~raced => \A r \in Requests : request[r].pc = "run" => checkpoint.turn = request[r].turn

\* ... and a turn that is answered is not executed again.
AnsweredOnce == ~raced => (HasSteps(checkpoint.step) => checkpoint.turn \notin answered)

\* A conversation does not stay busy with a run.
BusyEnds == \A r \in Requests : active = r ~> active # r
=============================================================================
