-------------------------- MODULE ConversationStore --------------------------
(***************************************************************************)
(* The client's store of conversations (stores/conversation.ts, ChatView)   *)
(* against the chat endpoints: the attempt that streams or resumes a turn,  *)
(* Stop, the reconciliation that follows every stream, loads of a           *)
(* conversation's history, and the choice of another conversation while any *)
(* of these is under way.  An aborted request lives on at the server until  *)
(* that notices.  Admission is one step here; ChatRuntime has its races.    *)
(***************************************************************************)
EXTENDS Naturals, Sequences

CONSTANTS MaxAttempts,  \* bound: attempts, numbered in order; a new turn is named for its first
          MaxCreated,   \* bound: conversations created by the user
          MaxTries,     \* reconcileDelays.length
          Tokens,       \* tokens of an answer
          MaxLoads,     \* bound: loads of a history that the user causes
          MaxFailures   \* bound: connections and loads that fail

ASSUME StoreAssumption ==
    /\ MaxAttempts \in Nat \ {0}
    /\ MaxCreated \in Nat \ {0}
    /\ MaxLoads \in Nat
    /\ MaxTries \in Nat \ {0}
    /\ Tokens \in Nat \ {0}
    /\ MaxFailures \in Nat

Attempts      == 1..MaxAttempts
Loads         == 1..MaxLoads
Turns         == Attempts
Conversations == 1..(MaxCreated + MaxAttempts)
None          == 0

VARIABLES conv, turn,   \* each attempt's conversation and turn
          served,       \* each attempt at the server
          sent,         \* how many tokens it sent
          running,      \* registry: the attempt whose run is active in a conversation
          asked,        \* turns whose question is saved
          answered      \* turns whose answer is saved

VARIABLES created,      \* conversations created so far
          listed,       \* conversations of the list
          current,      \* currentConversationId
          shown,        \* status of each turn's assistant message, or "none"
          text,         \* its content
          streaming, activeTurn, resumable,
          activeRun,    \* the run whose events are taken: activeRunId, while there is an execution
          controller,   \* the attempt that abortController belongs to
          attempt,      \* each attempt at the client
          load,         \* refreshConversation
          failures,     \* how much has failed
          loaded,       \* history: is what is shown of the current conversation?
          overtaken,    \* history: was a history applied that does not know of the attempt?
          disturbed,    \* history: turns whose message was replaced while it was streamed
          uncertain     \* history: may the history applied last be out of date?

server   == <<conv, turn, served, sent, running, asked, answered>>
places   == <<created, listed, current>>
messages == <<shown, text>>
turns    == <<activeTurn, activeRun, resumable>>
history  == <<loaded, overtaken, disturbed, uncertain>>
client   == <<places, messages, turns, streaming, controller>>
vars     == <<server, client, attempt, load, failures, history>>

\* GET /conversations/...: the registry is read first, the checkpoint after that.
Reads  == [pc : {"idle", "registry", "answered", "over"}, conv : Conversations \union {None},
           active : Turns \union {None}, answers : SUBSET Turns, resumable : Turns \union {None}]
NoRead == [pc |-> "idle", conv |-> None, active |-> None, answers |-> {}, resumable |-> None]

\* An attempt is streamed, then reconciled, or followed by a refresh.
AttemptStates == [pc : {"none", "open", "wait", "reconcile", "refresh", "over"},
                  tries : 0..MaxTries, read : Reads]
Fresh(pc)     == [pc |-> pc, tries |-> 0, read |-> NoRead]

Whole == [i \in 1..Tokens |-> i]

NothingShown == [t \in Turns |-> "none"]
NoText       == [t \in Turns |-> << >>]

Init ==
    /\ conv = [n \in Attempts |-> None]
    /\ turn = [n \in Attempts |-> None]
    /\ served = [n \in Attempts |-> "unsent"]
    /\ sent = [n \in Attempts |-> 0]
    /\ running = [c \in Conversations |-> None]
    /\ asked = {}
    /\ answered = {}
    /\ created = 1
    /\ listed = {1}
    /\ current = 1
    /\ shown = NothingShown
    /\ text = NoText
    /\ streaming = FALSE
    /\ activeTurn = None
    /\ activeRun = None
    /\ resumable = None
    /\ controller = None
    /\ attempt = [n \in Attempts |-> Fresh("none")]
    /\ load = [l \in Loads |-> NoRead]
    /\ failures = 0
    /\ loaded = TRUE
    /\ overtaken = FALSE
    /\ disturbed = {}
    /\ uncertain = FALSE

----------------------------------------------------------------------------
(* What the server says of a conversation.                                  *)

Sent == {n \in Attempts : served[n] # "unsent"}

Unfinished(c) == LET left == {t \in asked \ answered : conv[t] = c}
                 IN  IF left = {} THEN None ELSE CHOOSE t \in left : TRUE

ReadRegistry(c) == [NoRead EXCEPT !.pc = "registry", !.conv = c,
                                  !.active = IF running[c] = None THEN None ELSE turn[running[c]]]

ReadValues(read) ==
    [read EXCEPT !.pc = "answered", !.answers = {t \in answered : conv[t] = read.conv},
                 !.resumable = IF read.active = None THEN Unfinished(read.conv) ELSE None]

----------------------------------------------------------------------------
(* Showing a history.                                                       *)

Open == {n \in Attempts : attempt[n].pc = "open"}

\* Mutant: an unfinished turn gets no message of its own.
ListedAnswersOnly(read) ==
    [t \in Turns |-> IF t \in read.answers THEN "done" ELSE IF t = read.active THEN "stopping"
                     ELSE "none"]

Listed(read) ==
    [t \in Turns |-> IF t \in read.answers THEN "done" ELSE IF t = read.active THEN "stopping"
                     ELSE IF t = read.resumable THEN "stopped" ELSE "none"]

\* May the server know, or come to know, more than this says?
Outdated(read) ==
    \/ read.resumable # Unfinished(read.conv)
    \/ \E n \in Sent : conv[n] = read.conv /\ served[n] # "ended"

\* applyHistory, with the active turn that is kept of it.
ApplyHistory(read, active) ==
    /\ shown' = Listed(read)
    /\ text' = [t \in Turns |-> IF t \in read.answers THEN Whole ELSE << >>]
    /\ activeTurn' = active
    /\ resumable' = read.resumable
    /\ activeRun' = IF active = None THEN None ELSE activeRun
    /\ loaded' = TRUE
    /\ uncertain' = Outdated(read)
    /\ overtaken' = (overtaken \/ \E n \in Open : turn[n] # active)
    /\ disturbed' = {turn[n] : n \in Open} \intersect {active}

----------------------------------------------------------------------------
(* The user.                                                                *)

CanSend == ~streaming /\ activeTurn = None /\ resumable = None

StartAttempt(n, t) ==
    /\ conv' = [conv EXCEPT ![n] = current]
    /\ turn' = [turn EXCEPT ![n] = t]
    /\ served' = [served EXCEPT ![n] = "asked"]
    /\ shown' = [shown EXCEPT ![t] = "streaming"]
    /\ activeTurn' = t
    /\ activeRun' = None
    /\ resumable' = None
    /\ streaming' = TRUE
    /\ controller' = n
    /\ attempt' = [attempt EXCEPT ![n] = Fresh("open")]
    /\ overtaken' = FALSE
    /\ uncertain' = TRUE
    /\ UNCHANGED <<sent, running, asked, answered, places, text, load, failures,
                   loaded, disturbed>>

NextAttempt(n) == n \in Attempts /\ Sent = 1..(n - 1)

SendMessage == \E n \in Attempts : NextAttempt(n) /\ CanSend /\ StartAttempt(n, n)

\* Mutant: a turn can be resumed while another attempt is going on.
CanResumeAlways == TRUE

CanResume == ~streaming /\ activeTurn = None

\* The button of a message that is stopped.
ResumeTurn ==
    \E n \in Attempts, t \in Turns :
        NextAttempt(n) /\ shown[t] = "stopped" /\ CanResume /\ StartAttempt(n, t)

Goto(n, pc) == [attempt EXCEPT ![n].pc = pc]

\* Mutant: the request is not aborted.
AbortedNever == attempt

\* The abort ends a request; the reconciliation begins at once.
Aborted == IF activeTurn # None /\ controller \in Open THEN Goto(controller, "wait") ELSE attempt

\* stopChat: Stop, or the page is left.
StopChat ==
    /\ activeTurn # None
    /\ shown' = [shown EXCEPT ![activeTurn] = IF @ = "none" THEN @ ELSE "stopping"]
    /\ attempt' = Aborted
    /\ UNCHANGED <<server, places, text, turns, streaming, controller, load, failures,
                   history>>

NewConversation ==
    /\ created' = created + 1
    /\ current' = created'
    /\ shown' = NothingShown
    /\ text' = NoText
    /\ activeTurn' = None
    /\ activeRun' = None
    /\ resumable' = None
    /\ loaded' = TRUE
    /\ uncertain' = FALSE

\* What becomes of the attempt when its conversation is left.
Leaving == IF streaming THEN Aborted ELSE attempt

CreateConversation ==
    /\ created < MaxCreated
    /\ NewConversation
    /\ listed' = listed \union {created'}
    /\ attempt' = Leaving
    /\ UNCHANGED <<server, streaming, controller, load, failures, overtaken, disturbed>>

NextLoad(l) == \A k \in Loads : load[k].pc = "idle" <=> k >= l

\* Choosing the conversation that is shown loads it again.
SelectConversation ==
    \E c \in listed, l \in Loads :
        /\ NextLoad(l)
        /\ current' = c
        /\ activeRun' = None
        /\ load' = [load EXCEPT ![l] = ReadRegistry(c)]
        /\ IF c = current
           THEN UNCHANGED <<shown, attempt, loaded>>
           ELSE /\ shown' = IF streaming /\ activeTurn # None /\ shown[activeTurn] # "none"
                            THEN [shown EXCEPT ![activeTurn] = "stopping"] ELSE shown
                /\ attempt' = Leaving
                /\ loaded' = FALSE
        /\ UNCHANGED <<server, created, listed, text, activeTurn, resumable, streaming,
                       controller, failures, overtaken, disturbed, uncertain>>

\* The page is loaded again: only the list of conversations was stored.
Reload ==
    \E c \in listed, l \in Loads :
        /\ NextLoad(l)
        /\ current' = c
        /\ shown' = NothingShown
        /\ text' = NoText
        /\ activeTurn' = None
        /\ activeRun' = None
        /\ resumable' = None
        /\ streaming' = FALSE
        /\ controller' = None
        /\ attempt' = [n \in Attempts |->
                          IF attempt[n].pc = "none" THEN Fresh("none") ELSE Fresh("over")]
        /\ load' = [k \in Loads |-> IF k < l THEN [NoRead EXCEPT !.pc = "over"]
                                    ELSE IF k = l THEN ReadRegistry(c) ELSE NoRead]
        /\ loaded' = FALSE
        /\ overtaken' = FALSE
        /\ disturbed' = {}
        /\ UNCHANGED <<server, created, listed, failures, uncertain>>

----------------------------------------------------------------------------
(* refreshConversation.                                                     *)

Failing == failures < MaxFailures /\ failures' = failures + 1

RefreshConversation ==
    /\ \E l \in Loads : NextLoad(l) /\ load' = [load EXCEPT ![l] = ReadRegistry(current)]
    /\ UNCHANGED <<server, client, attempt, failures, history>>

LoadRead(l) ==
    /\ load[l].pc = "registry"
    /\ load' = [load EXCEPT ![l] = ReadValues(@)]
    /\ UNCHANGED <<server, client, attempt, failures, history>>

\* Mutant: a history is applied whatever conversation is shown.
WantedAlways(read) == TRUE

Wanted(read) == current = read.conv

LoadAnswered(l) ==
    /\ load[l].pc = "answered"
    /\ load' = [load EXCEPT ![l] = [NoRead EXCEPT !.pc = "over"]]
    /\ IF Wanted(load[l]) THEN ApplyHistory(load[l], load[l].active)
                          ELSE UNCHANGED <<messages, turns, history>>
    /\ UNCHANGED <<server, places, streaming, controller, attempt, failures>>

LoadFails(l) ==
    /\ load[l].pc \in {"registry", "answered"} /\ Failing
    /\ load' = [load EXCEPT ![l] = [NoRead EXCEPT !.pc = "over"]]
    /\ UNCHANGED <<server, client, attempt, history>>

----------------------------------------------------------------------------
(* The stream: admission, and events as they arrive.                        *)

\* The server's answer to a request that is not admitted.
Rejected(n) ==
    LET c == conv[n]
        t == turn[n]
    IN  IF running[c] # None THEN "busy"
        ELSE IF t = n THEN (IF Unfinished(c) # None THEN "requires resume" ELSE "admitted")
        ELSE IF {u \in asked : conv[u] = c} = {} THEN "not found"
        ELSE IF t \in answered /\ conv[t] = c THEN "completed"
        ELSE IF Unfinished(c) # t THEN "requires resume" ELSE "admitted"

Served(n, from, to) == served[n] = from /\ served' = [served EXCEPT ![n] = to]

\* Mutant: the conversation that is removed remains the current one.
RemoveConversationShown(c) ==
    /\ listed' = listed \ {c}
    /\ UNCHANGED <<created, current, messages, turns, loaded, uncertain>>

RemoveConversation(c) ==
    IF current = c
    THEN NewConversation /\ listed' = (listed \ {c}) \union {created'}
    ELSE /\ listed' = listed \ {c}
         /\ UNCHANGED <<created, current, messages, turns, loaded, uncertain>>

EndAttempt(n) ==
    /\ attempt' = [attempt EXCEPT ![n] = Fresh("over")]
    /\ controller' = IF controller = n THEN None ELSE controller
    /\ streaming' = FALSE

\* handleStreamFailure, unless nobody listens any more.
Reject(n) ==
    /\ Served(n, "asked", "ended")
    /\ Rejected(n) # "admitted"
    /\ IF n \notin Open
       THEN UNCHANGED <<client, attempt, history>>
       ELSE IF Rejected(n) = "not found"
            THEN /\ RemoveConversation(conv[n]) /\ EndAttempt(n)
                 /\ UNCHANGED <<overtaken, disturbed>>
            ELSE /\ attempt' = [attempt EXCEPT ![n].pc = "refresh",
                                               ![n].read = ReadRegistry(conv[n])]
                 /\ UNCHANGED <<client, history>>
    /\ UNCHANGED <<conv, turn, sent, running, asked, answered, load, failures>>

\* Does consumeEvent take an event of this run?
Hears(n) ==
    /\ n \in Open /\ current = conv[n] /\ activeTurn = turn[n]
    /\ activeRun = n

BindRun(n) ==
    IF n \in Open /\ current = conv[n] /\ activeTurn = turn[n]
    THEN /\ activeRun' = n
         /\ IF shown[turn[n]] = "none"
            THEN UNCHANGED messages
            ELSE /\ shown' = [shown EXCEPT ![turn[n]] = "streaming"]
                 /\ text' = [text EXCEPT ![turn[n]] = << >>]
    ELSE UNCHANGED <<activeRun, messages>>

\* The run is registered, and its first event is start.
Admit(n) ==
    /\ Served(n, "asked", "started")
    /\ Rejected(n) = "admitted"
    /\ running' = [running EXCEPT ![conv[n]] = n]
    /\ BindRun(n)
    /\ UNCHANGED <<conv, turn, sent, asked, answered, places, streaming, activeTurn, resumable,
                   controller, attempt, load, failures, history>>

\* The graph saves the question, and later the answer.
Save(n) ==
    /\ served[n] = "started"
    /\ IF turn[n] \notin asked
       THEN asked' = asked \union {turn[n]} /\ UNCHANGED <<served, answered>>
       ELSE /\ answered' = answered \union {turn[n]} /\ Served(n, "started", "answered")
            /\ UNCHANGED asked
    /\ UNCHANGED <<conv, turn, sent, running, client, attempt, load, failures, history>>

\* Mutant: the text is replaced by each token.
AppendedLast(t, i) == <<i>>

Appended(t, i) == Append(text[t], i)

Marked(t, status) == [shown EXCEPT ![t] = IF @ = "none" THEN @ ELSE status]

Token(n) ==
    /\ served[n] = "answered" /\ sent[n] < Tokens
    /\ sent' = [sent EXCEPT ![n] = @ + 1]
    /\ IF Hears(n) /\ shown[turn[n]] # "none"
       THEN /\ text' = [text EXCEPT ![turn[n]] = Appended(turn[n], sent[n] + 1)]
            /\ shown' = Marked(turn[n], "streaming")
       ELSE UNCHANGED messages
    /\ UNCHANGED <<conv, turn, served, running, asked, answered, places, streaming, turns,
                   controller, attempt, load, failures, history>>

\* The last event of a stream, done or error.
LastEvent(n, status) ==
    /\ shown' = IF Hears(n) THEN Marked(turn[n], status) ELSE shown
    /\ UNCHANGED <<conv, turn, sent, running, asked, answered, places, streaming, text, turns,
                   controller, attempt, load, failures, history>>

Done(n) == sent[n] = Tokens /\ Served(n, "answered", "closing") /\ LastEvent(n, "done")

\* The graph fails, or the answer cannot be read back.
Fail(n) ==
    /\ sent[n] = 0
    /\ Served(n, "started", "closing") \/ Served(n, "answered", "closing")
    /\ LastEvent(n, "error")

Release(n) ==
    /\ running' = [running EXCEPT ![conv[n]] = IF @ = n THEN None ELSE @]
    /\ sent' = [sent EXCEPT ![n] = 0]

\* The run is released and the stream ends: the client reconciles.
Close(n) ==
    /\ Served(n, "closing", "ended") /\ Release(n)
    /\ attempt' = IF n \in Open THEN Goto(n, "wait") ELSE attempt
    /\ UNCHANGED <<conv, turn, asked, answered, client, load, failures, history>>

\* The server notices that nobody listens.
Disconnect(n) ==
    /\ n \notin Open /\ served[n] \in {"asked", "started", "answered", "closing"}
    /\ served' = [served EXCEPT ![n] = "ended"] /\ Release(n)
    /\ UNCHANGED <<conv, turn, asked, answered, client, attempt, load, failures, history>>

\* The connection breaks: markAttemptError, and the client reconciles.
LoseConnection(n) ==
    /\ n \in Open /\ Failing
    /\ attempt' = Goto(n, "wait")
    /\ shown' = Marked(turn[n], "error")
    /\ uncertain' = TRUE
    /\ UNCHANGED <<server, places, text, turns, streaming, controller, load, loaded, overtaken,
                   disturbed>>

----------------------------------------------------------------------------
(* reconcileTurn, and the refresh after a 409.                              *)

Reconcile(n) ==
    /\ attempt[n].pc = "wait"
    /\ IF attempt[n].tries = MaxTries
       THEN EndAttempt(n)
       ELSE /\ attempt' = [attempt EXCEPT ![n].pc = "reconcile", ![n].tries = @ + 1,
                                          ![n].read = ReadRegistry(conv[n])]
            /\ UNCHANGED <<streaming, controller>>
    /\ UNCHANGED <<server, places, messages, turns, load, failures, history>>

AttemptRead(n) ==
    /\ attempt[n].read.pc = "registry"
    /\ attempt' = [attempt EXCEPT ![n].read = ReadValues(@)]
    /\ UNCHANGED <<server, client, load, failures, history>>

\* finishAttempt.
Kept(read, t) == IF t \in read.answers /\ read.active = t THEN None ELSE read.active

\* Mutant: the delays start again after each read.
TryAgainForever(n) ==
    /\ attempt' = [attempt EXCEPT ![n] = Fresh("wait")]
    /\ UNCHANGED <<streaming, controller>>

TryAgain(n) ==
    /\ attempt' = [attempt EXCEPT ![n].pc = "wait", ![n].read = NoRead]
    /\ UNCHANGED <<streaming, controller>>

Reconciled(n) ==
    /\ attempt[n].pc = "reconcile" /\ attempt[n].read.pc = "answered"
    /\ LET read == attempt[n].read
           kept == Kept(read, turn[n])
       IN  IF ~Wanted(read)
           THEN EndAttempt(n) /\ UNCHANGED <<messages, turns, history>>
           ELSE /\ ApplyHistory(read, kept)
                /\ IF kept = turn[n] THEN TryAgain(n) ELSE EndAttempt(n)
    /\ UNCHANGED <<server, places, load, failures>>

Refreshed(n) ==
    /\ attempt[n].pc = "refresh" /\ attempt[n].read.pc = "answered"
    /\ IF Wanted(attempt[n].read) THEN ApplyHistory(attempt[n].read, attempt[n].read.active)
                                  ELSE UNCHANGED <<messages, turns, history>>
    /\ EndAttempt(n)
    /\ UNCHANGED <<server, places, load, failures>>

AttemptReadFails(n) ==
    /\ attempt[n].pc \in {"reconcile", "refresh"} /\ Failing
    /\ IF attempt[n].pc = "reconcile" THEN TryAgain(n) ELSE EndAttempt(n)
    /\ UNCHANGED <<server, places, messages, turns, load, history>>

----------------------------------------------------------------------------

UserStep == SendMessage \/ ResumeTurn \/ StopChat \/ CreateConversation \/ SelectConversation
            \/ RefreshConversation \/ Reload

RunStep(n) == Admit(n) \/ Reject(n) \/ Save(n) \/ Token(n) \/ Done(n) \/ Fail(n)
              \/ Close(n) \/ Disconnect(n)

LoadStep(l) == LoadRead(l) \/ LoadAnswered(l) \/ LoadFails(l)

AttemptStep(n) == Reconcile(n) \/ AttemptRead(n) \/ Reconciled(n) \/ Refreshed(n)
                  \/ AttemptReadFails(n)

\* The loads are used up: nobody acts any more.
Rest == (\A l \in Loads : load[l].pc = "over") /\ UNCHANGED vars

Next ==
    \/ UserStep
    \/ \E n \in Attempts : RunStep(n) \/ LoseConnection(n) \/ AttemptStep(n)
    \/ \E l \in Loads : LoadStep(l)
    \/ Rest

Spec == Init /\ [][Next]_vars

\* The attempt under way goes on: what it asked the server is answered.  Nothing is
\* asked of the user, nor of runs that nobody listens to.
OngoingStep == \E n \in Attempts : AttemptStep(n) \/ (n \in Open /\ RunStep(n))

FairSpec == Spec /\ WF_vars(OngoingStep)

----------------------------------------------------------------------------
(* Properties.                                                              *)

Statuses == {"none", "streaming", "stopping", "stopped", "done", "error"}

\* The type invariant.
TypeOK ==
    /\ conv \in [Attempts -> Conversations \union {None}]
    /\ turn \in [Attempts -> Turns \union {None}]
    /\ served \in [Attempts -> {"unsent", "asked", "started", "answered", "closing", "ended"}]
    /\ sent \in [Attempts -> 0..Tokens]
    /\ running \in [Conversations -> Attempts \union {None}]
    /\ asked \subseteq Turns /\ answered \subseteq asked
    /\ created \in Conversations /\ current \in listed /\ listed \subseteq 1..created
    /\ shown \in [Turns -> Statuses]
    /\ DOMAIN text = Turns
    /\ streaming \in BOOLEAN
    /\ {activeTurn, activeRun, resumable} \subseteq Attempts \union {None}
    /\ controller \in Attempts \union {None}
    /\ attempt \in [Attempts -> AttemptStates]
    /\ load \in [Loads -> Reads]
    /\ failures \in 0..MaxFailures
    /\ loaded \in BOOLEAN /\ overtaken \in BOOLEAN /\ uncertain \in BOOLEAN
    /\ disturbed \subseteq Turns

\* The page says that it streams exactly while an attempt is under way: no attempt ends
\* the state of its successor, and none goes on unseen.
OneAttempt ==
    LET busy == {n \in Attempts : attempt[n].pc \notin {"none", "over"}}
    IN  busy = IF streaming THEN {controller} ELSE {}

\* What is streamed belongs to what is shown, and Stop reaches it: a stream whose
\* conversation was left has been aborted, unless a history that does not know of the
\* attempt was applied over it.
AttemptShown ==
    \A n \in Open : overtaken \/ (current = conv[n] /\ activeTurn = turn[n])

\* The text shown of a turn is the beginning of its answer, and all of it once it is done,
\* unless its message was replaced while it was streamed.
TextInOrder ==
    \A t \in Turns \ disturbed :
        /\ Len(text[t]) <= Tokens
        /\ \A i \in 1..Len(text[t]) : text[t][i] = i
        /\ shown[t] = "done" => text[t] = Whole

\* Once a conversation's history was applied, only its messages are shown.
ShownBelongs == loaded => \A t \in Turns : shown[t] # "none" => conv[t] = current

\* A turn that was left unfinished is offered for resumption, and its message is there to
\* do it with, unless the history shown may be out of date.
ResumeOffered ==
    loaded /\ ~streaming /\ ~uncertain =>
        /\ resumable = Unfinished(current)
        /\ resumable # None => activeTurn = None /\ shown[resumable] = "stopped"

\* Every attempt ends: an open stream by what its run does, and what follows it because
\* the reconcile delays run out, although an aborted run may stay registered for good.
AttemptsEnd == []<>~streaming
=============================================================================
