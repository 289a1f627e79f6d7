----------------------- MODULE ConversationStoreProof -----------------------
(***************************************************************************)
(* Safety of ConversationStore for any number of attempts, conversations,   *)
(* tries, loads, tokens and failures.                                       *)
(***************************************************************************)
EXTENDS ConversationStore, FiniteSets, FiniteSetTheorems, TLAPS

\* TypeOK, part by part.
ServerOK ==
    /\ conv \in [Attempts -> Conversations \union {None}]
    /\ turn \in [Attempts -> Turns \union {None}]
    /\ served \in [Attempts -> {"unsent", "asked", "started", "answered", "closing", "ended"}]
    /\ sent \in [Attempts -> 0..Tokens]
    /\ running \in [Conversations -> Attempts \union {None}]
    /\ asked \subseteq Turns /\ answered \subseteq asked

PlacesOK == created \in Conversations /\ current \in listed /\ listed \subseteq 1..created

MessagesOK ==
    /\ shown \in [Turns -> Statuses]
    /\ DOMAIN text = Turns
    /\ {activeTurn, activeRun, resumable} \subseteq Attempts \union {None}
    /\ loaded \in BOOLEAN /\ overtaken \in BOOLEAN /\ uncertain \in BOOLEAN
    /\ disturbed \subseteq Turns

AttemptsOK ==
    /\ streaming \in BOOLEAN
    /\ controller \in Attempts \union {None}
    /\ attempt \in [Attempts -> AttemptStates]

LoadsOK == load \in [Loads -> Reads] /\ failures \in 0..MaxFailures

LEMMA TypeParts == TypeOK <=> ServerOK /\ PlacesOK /\ MessagesOK /\ AttemptsOK /\ LoadsOK
BY Zenon DEF TypeOK, ServerOK, PlacesOK, MessagesOK, AttemptsOK, LoadsOK

\* What was sent has a conversation and a turn, and is known to the client.
Begun ==
    \A n \in Attempts :
        /\ served[n] = "unsent" => conv[n] = None /\ attempt[n].pc = "none"
        /\ served[n] # "unsent" => conv[n] \in Conversations /\ turn[n] \in Turns
        /\ attempt[n].pc = "none" => served[n] = "unsent"

\* Conversations beyond MaxCreated replace those found to be gone, by one attempt each.
Ended == {n \in Attempts : served[n] = "ended"}

CreatedBound == created <= MaxCreated + Cardinality(Ended)

----------------------------------------------------------------------------
(* What the operators return.                                               *)

LEMMA Numbers ==
    ASSUME StoreAssumption
    PROVE  None \notin Attempts /\ None \notin Conversations /\ Turns = Attempts
BY DEF StoreAssumption, None, Attempts, Conversations, Turns

LEMMA EndedCounted ==
    ASSUME StoreAssumption
    PROVE  /\ IsFiniteSet(Ended) /\ Cardinality(Ended) \in 0..MaxAttempts
           /\ \A n \in Attempts \ Ended : Cardinality(Ended) < MaxAttempts
<1>1. IsFiniteSet(Attempts) /\ Cardinality(Attempts) = MaxAttempts
  BY FS_Interval DEF Attempts, StoreAssumption
<1>2. Ended \subseteq Attempts
  BY DEF Ended
<1>3. /\ IsFiniteSet(Ended) /\ Cardinality(Ended) <= MaxAttempts
      /\ Cardinality(Ended) = MaxAttempts => Ended = Attempts
  BY <1>1, <1>2, FS_Subset
<1>4. Cardinality(Ended) \in Nat
  BY <1>3, FS_CardinalityType
<1> QED
  BY <1>2, <1>3, <1>4 DEF StoreAssumption

LEMMA NoReadTyped == NoRead \in Reads
BY DEF NoRead, Reads

LEMMA UnfinishedTyped ==
    ASSUME ServerOK, NEW c
    PROVE  /\ Unfinished(c) \in Turns \union {None}
           /\ Unfinished(c) \in Turns => /\ conv[Unfinished(c)] = c
                                         /\ Unfinished(c) \in asked \ answered
<1> DEFINE left == {t \in asked \ answered : conv[t] = c}
<1>1. CASE left = {}
  <2>1. Unfinished(c) = None
    BY <1>1, Zenon DEF Unfinished
  <2> QED
    BY <2>1, <1>1 DEF ServerOK, None, Turns, Attempts
<1>2. CASE left # {}
  <2>1. Unfinished(c) = CHOOSE t \in left : TRUE
    BY <1>2, Zenon DEF Unfinished
  <2>2. Unfinished(c) \in left
    BY <1>2, <2>1
  <2> QED
    BY <2>2 DEF ServerOK
<1> QED
  BY <1>1, <1>2

LEMMA RegistryTyped ==
    ASSUME ServerOK, NEW c \in Conversations
    PROVE  /\ ReadRegistry(c) \in Reads
           /\ ReadRegistry(c).pc = "registry" /\ ReadRegistry(c).conv = c
           /\ ReadRegistry(c).answers = {} /\ ReadRegistry(c).resumable = None
           /\ ReadRegistry(c).active = IF running[c] = None THEN None ELSE turn[running[c]]
<1>1. (IF running[c] = None THEN None ELSE turn[running[c]]) \in Turns \union {None}
  BY DEF ServerOK
<1> QED
  BY <1>1 DEF ReadRegistry, NoRead, Reads

LEMMA ValuesTyped ==
    ASSUME ServerOK, NEW read \in Reads
    PROVE  /\ ReadValues(read) \in Reads
           /\ ReadValues(read).pc = "answered" /\ ReadValues(read).conv = read.conv
           /\ ReadValues(read).active = read.active
           /\ ReadValues(read).answers = {t \in answered : conv[t] = read.conv}
           /\ ReadValues(read).resumable \in {None, Unfinished(read.conv)}
<1>1. Unfinished(read.conv) \in Turns \union {None}
  BY UnfinishedTyped
<1>2. {t \in answered : conv[t] = read.conv} \in SUBSET Turns
  BY DEF ServerOK
<1> QED
  BY <1>1, <1>2 DEF ReadValues, Reads

Pcs == {"none", "open", "wait", "reconcile", "refresh", "over"}

LEMMA FreshTyped ==
    ASSUME StoreAssumption, NEW pc \in Pcs
    PROVE  Fresh(pc) \in AttemptStates /\ Fresh(pc).pc = pc /\ Fresh(pc).read = NoRead
BY NoReadTyped DEF Fresh, AttemptStates, Pcs, StoreAssumption

LEMMA GotoTyped ==
    ASSUME AttemptsOK, NEW n \in Attempts, NEW pc \in Pcs
    PROVE  /\ Goto(n, pc) \in [Attempts -> AttemptStates]
           /\ Goto(n, pc)[n].pc = pc /\ Goto(n, pc)[n].read = attempt[n].read
           /\ \A m \in Attempts \ {n} : Goto(n, pc)[m] = attempt[m]
BY DEF AttemptsOK, Goto, AttemptStates, Pcs

\* An abort ends the request of the controller, and nothing else.
LEMMA AbortedTyped ==
    ASSUME AttemptsOK
    PROVE  /\ Aborted \in [Attempts -> AttemptStates]
           /\ \A n \in Attempts :
                 /\ Aborted[n].read = attempt[n].read
                 /\ Aborted[n].pc = IF activeTurn # None /\ n = controller /\ n \in Open
                                    THEN "wait" ELSE attempt[n].pc
<1>1. CASE activeTurn # None /\ controller \in Open
  <2>1. Aborted = Goto(controller, "wait") /\ controller \in Attempts
    BY <1>1 DEF Aborted, Open
  <2> QED
    BY <1>1, <2>1, GotoTyped DEF Pcs
<1>2. CASE ~(activeTurn # None /\ controller \in Open)
  BY <1>2 DEF Aborted, AttemptsOK
<1> QED
  BY <1>1, <1>2

LEMMA EndTyped ==
    ASSUME StoreAssumption, AttemptsOK, NEW n \in Attempts, EndAttempt(n)
    PROVE  /\ attempt' \in [Attempts -> AttemptStates]
           /\ attempt'[n].pc = "over" /\ attempt'[n].read = NoRead
           /\ \A m \in Attempts \ {n} : attempt'[m] = attempt[m]
           /\ controller' \in {controller, None} /\ streaming' = FALSE
<1>1. Fresh("over") \in AttemptStates /\ Fresh("over").pc = "over" /\ Fresh("over").read = NoRead
  BY FreshTyped DEF Pcs
<1> QED
  BY <1>1 DEF EndAttempt, AttemptsOK

LEMMA AgainTyped ==
    ASSUME AttemptsOK, NEW n \in Attempts, TryAgain(n)
    PROVE  /\ attempt' \in [Attempts -> AttemptStates]
           /\ attempt'[n].pc = "wait" /\ attempt'[n].read = NoRead
           /\ \A m \in Attempts \ {n} : attempt'[m] = attempt[m]
           /\ UNCHANGED <<controller, streaming>>
BY NoReadTyped DEF TryAgain, AttemptsOK, AttemptStates

----------------------------------------------------------------------------
(* Types.                                                                   *)

\* Reading the history again opens no stream.
LEMMA NoneOpened ==
    ASSUME StoreAssumption, AttemptsOK, NEW n \in Attempts
    PROVE  /\ attempt' = Goto(n, "wait") => Open' \subseteq Open
           /\ Reconcile(n) \/ AttemptRead(n) => Open' \subseteq Open
<1>1. ASSUME attempt' = Goto(n, "wait") PROVE Open' \subseteq Open
  BY <1>1, GotoTyped DEF Open, Pcs
<1>2. CASE EndAttempt(n)
  BY <1>2, EndTyped DEF Open
<1>3. ASSUME attempt' = [attempt EXCEPT ![n].pc = "reconcile", ![n].tries = @ + 1,
                                        ![n].read = ReadRegistry(conv[n])]
      PROVE  Open' \subseteq Open
  BY <1>3 DEF Open, AttemptsOK, AttemptStates
<1>4. ASSUME Reconcile(n) PROVE Open' \subseteq Open
  <2>1. CASE attempt[n].tries = MaxTries
    BY <1>2, <1>4, <2>1 DEF Reconcile
  <2>2. CASE attempt[n].tries # MaxTries
    BY <1>3, <1>4, <2>2 DEF Reconcile
  <2> QED
    BY <2>1, <2>2
<1>5. ASSUME AttemptRead(n) PROVE Open' \subseteq Open
  BY <1>5 DEF AttemptRead, Open, AttemptsOK, AttemptStates
<1> QED
  BY <1>1, <1>4, <1>5

LEMMA StartServer ==
    ASSUME StoreAssumption, ServerOK, PlacesOK, NEW n \in Attempts, NEW t \in Turns,
           StartAttempt(n, t)
    PROVE  ServerOK'
BY DEF StartAttempt, ServerOK, PlacesOK, Conversations, StoreAssumption

\* The server's state changes with requests and runs only.
LEMMA ServerStep ==
    ASSUME StoreAssumption, ServerOK, PlacesOK, Begun, [Next]_vars
    PROVE  ServerOK'
<1>1. CASE SendMessage
  <2>1. PICK n \in Attempts : StartAttempt(n, n)
    BY <1>1 DEF SendMessage
  <2> QED
    BY <2>1, StartServer, Numbers
<1>2. CASE ResumeTurn
  BY <1>2, StartServer DEF ResumeTurn
<1>3. ASSUME NEW n \in Attempts, Admit(n) PROVE ServerOK'
  BY <1>3 DEF Admit, Served, ServerOK
<1>4. ASSUME NEW n \in Attempts, Reject(n) PROVE ServerOK'
  BY <1>4 DEF Reject, Served, ServerOK
<1>5. ASSUME NEW n \in Attempts, Save(n) PROVE ServerOK'
  <2>1. turn[n] \in Turns
    BY <1>5 DEF Save, Begun
  <2>2. /\ UNCHANGED <<conv, turn, sent, running>>
        /\ served' = served \/ served' = [served EXCEPT ![n] = "answered"]
    BY <1>5 DEF Save, Served
  <2>3. asked' \subseteq Turns /\ answered' \subseteq asked'
    BY <1>5, <2>1 DEF Save, ServerOK
  <2> QED
    BY <2>2, <2>3 DEF ServerOK
<1>6. ASSUME NEW n \in Attempts, Token(n) PROVE ServerOK'
  BY <1>6 DEF Token, ServerOK, StoreAssumption
<1>7. ASSUME NEW n \in Attempts, Done(n) \/ Fail(n) PROVE ServerOK'
  BY <1>7 DEF Done, Fail, Served, LastEvent, ServerOK
<1>8. ASSUME NEW n \in Attempts, Close(n) \/ Disconnect(n) PROVE ServerOK'
  <2>1. /\ UNCHANGED <<conv, turn, asked, answered>>
        /\ served' = [served EXCEPT ![n] = "ended"]
        /\ running' = [running EXCEPT ![conv[n]] = IF @ = n THEN None ELSE @]
        /\ sent' = [sent EXCEPT ![n] = 0]
    BY <1>8 DEF Close, Disconnect, Served, Release
  <2>2. running' \in [Conversations -> Attempts \union {None}]
    BY <2>1 DEF ServerOK
  <2>3. served' \in [Attempts -> {"unsent", "asked", "started", "answered", "closing", "ended"}]
    BY <2>1 DEF ServerOK
  <2>4. sent' \in [Attempts -> 0..Tokens]
    BY <2>1 DEF ServerOK, StoreAssumption
  <2> QED
    BY <2>1, <2>2, <2>3, <2>4 DEF ServerOK
<1>9. CASE StopChat \/ CreateConversation \/ SelectConversation \/ RefreshConversation \/ Reload
  BY <1>9 DEF StopChat, CreateConversation, SelectConversation, RefreshConversation, Reload,
              server, ServerOK
<1>10. ASSUME NEW l \in Loads, LoadStep(l) PROVE ServerOK'
  BY <1>10 DEF LoadStep, LoadRead, LoadAnswered, LoadFails, server, ServerOK
<1>11. ASSUME NEW n \in Attempts, AttemptStep(n) \/ LoseConnection(n) PROVE ServerOK'
  BY <1>11 DEF AttemptStep, Reconcile, AttemptRead, Reconciled, Refreshed, AttemptReadFails,
               LoseConnection, server, ServerOK
<1>12. CASE UNCHANGED vars
  BY <1>12 DEF vars, server, ServerOK
<1> QED
  BY <1>1, <1>2, <1>3, <1>4, <1>5, <1>6, <1>7, <1>8, <1>9, <1>10, <1>11, <1>12
     DEF Next, UserStep, RunStep, Rest

\* How the attempts and the rows come about.
LEMMA BegunStep ==
    ASSUME StoreAssumption, ServerOK, PlacesOK, AttemptsOK, Begun, [Next]_vars
    PROVE  Begun'
<1>1. ASSUME NEW n \in Attempts, NEW t \in Turns, StartAttempt(n, t) PROVE Begun'
  <2>1. conv'[n] \in Conversations /\ turn'[n] = t /\ served'[n] = "asked"
    BY <1>1 DEF StartAttempt, ServerOK, PlacesOK, Conversations, StoreAssumption
  <2>2. attempt'[n].pc = "open"
    BY <1>1 DEF StartAttempt, AttemptsOK, Fresh
  <2>3. \A m \in Attempts \ {n} : /\ conv'[m] = conv[m] /\ turn'[m] = turn[m]
                                  /\ served'[m] = served[m] /\ attempt'[m] = attempt[m]
    BY <1>1 DEF StartAttempt, ServerOK, AttemptsOK
  <2> QED
    BY <2>1, <2>2, <2>3 DEF Begun
<1>2. CASE SendMessage \/ ResumeTurn
  BY <1>1, <1>2, Numbers DEF SendMessage, ResumeTurn
<1>3. ASSUME UNCHANGED <<conv, turn>>,
             \A n \in Attempts : (served'[n] = "unsent") <=> (served[n] = "unsent"),
             \A n \in Attempts : (attempt'[n].pc = "none") <=> (attempt[n].pc = "none")
      PROVE  Begun'
  BY <1>3 DEF Begun
<1>4. CASE StopChat \/ CreateConversation \/ SelectConversation
  <2>1. UNCHANGED <<conv, turn, served>> /\ attempt' \in {attempt, Aborted}
    BY <1>4 DEF StopChat, CreateConversation, SelectConversation, Leaving, server
  <2>2. \A n \in Attempts : (Aborted[n].pc = "none") <=> (attempt[n].pc = "none")
    BY AbortedTyped DEF Open
  <2> QED
    BY <1>3, <2>1, <2>2
<1>5. CASE Reload
  <2>1. UNCHANGED <<conv, turn, served>>
    BY <1>5 DEF Reload, server
  <2>2. \A n \in Attempts : (attempt'[n].pc = "none") <=> (attempt[n].pc = "none")
    BY <1>5 DEF Reload, Fresh
  <2> QED
    BY <1>3, <2>1, <2>2
<1>6. CASE RefreshConversation \/ \E l \in Loads : LoadStep(l)
  BY <1>3, <1>6 DEF RefreshConversation, LoadStep, LoadRead, LoadAnswered, LoadFails, server
<1>7. ASSUME NEW n \in Attempts, Admit(n) \/ Save(n) \/ Token(n) \/ Done(n) \/ Fail(n)
      PROVE  Begun'
  <2>1. UNCHANGED <<conv, turn, attempt>> /\ served[n] # "unsent"
        /\ (served' = served \/ \E s \in {"started", "answered", "closing"} :
                                   served' = [served EXCEPT ![n] = s])
    BY <1>7 DEF Admit, Save, Token, Done, Fail, Served, LastEvent
  <2>2. \A m \in Attempts : (served'[m] = "unsent") <=> (served[m] = "unsent")
    BY <2>1 DEF ServerOK
  <2> QED
    BY <1>3, <2>1, <2>2
<1>8. ASSUME NEW n \in Attempts, Reject(n) \/ Close(n) \/ Disconnect(n) PROVE Begun'
  <2>1. UNCHANGED <<conv, turn>> /\ served[n] # "unsent" /\ served' = [served EXCEPT ![n] = "ended"]
    BY <1>8 DEF Reject, Close, Disconnect, Served
  <2>2. \A m \in Attempts : (served'[m] = "unsent") <=> (served[m] = "unsent")
    BY <2>1 DEF ServerOK
  <2>3. \A m \in Attempts : (attempt'[m].pc = "none") <=> (attempt[m].pc = "none")
    <3>1. CASE Reject(n)
      BY <3>1, EndTyped DEF Reject, Open, AttemptsOK, AttemptStates
    <3>2. CASE Close(n) \/ Disconnect(n)
      BY <3>2, GotoTyped DEF Close, Disconnect, Open, Pcs
    <3> QED
      BY <1>8, <3>1, <3>2
  <2> QED
    BY <1>3, <2>1, <2>2, <2>3
<1>9. ASSUME NEW n \in Attempts, AttemptStep(n) \/ LoseConnection(n) PROVE Begun'
  <2>1. UNCHANGED <<conv, turn, served>>
    BY <1>9 DEF AttemptStep, Reconcile, AttemptRead, Reconciled, Refreshed, AttemptReadFails,
                LoseConnection, server
  <2>2. \A m \in Attempts : (attempt'[m].pc = "none") <=> (attempt[m].pc = "none")
    <3>1. CASE Reconcile(n) \/ AttemptRead(n) \/ LoseConnection(n)
      BY <3>1 DEF Reconcile, AttemptRead, LoseConnection, EndAttempt, Goto, Fresh, Open,
                  AttemptsOK, AttemptStates
    <3>2. CASE Reconciled(n) \/ Refreshed(n) \/ AttemptReadFails(n)
      <4>1. attempt[n].pc # "none" /\ (EndAttempt(n) \/ TryAgain(n))
        BY <3>2 DEF Reconciled, Refreshed, AttemptReadFails
      <4> QED
        BY <4>1 DEF EndAttempt, TryAgain, Fresh, AttemptsOK, AttemptStates
    <3> QED
      BY <1>9, <3>1, <3>2 DEF AttemptStep
  <2> QED
    BY <1>3, <2>1, <2>2
<1>10. CASE UNCHANGED vars
  BY <1>3, <1>10 DEF vars, server
<1> QED
  BY <1>2, <1>4, <1>5, <1>6, <1>7, <1>8, <1>9, <1>10 DEF Next, UserStep, RunStep, Rest

\* What is ended remains so.
LEMMA EndedStep ==
    ASSUME ServerOK, [Next]_vars
    PROVE  Ended \subseteq Ended'
<1>1. ASSUME NEW m \in Attempts, served[m] = "ended" PROVE served'[m] = "ended"
  <2>1. ASSUME NEW n \in Attempts, NEW t \in Turns, StartAttempt(n, t), n # m
        PROVE  served'[m] = "ended"
    BY <1>1, <2>1 DEF StartAttempt, ServerOK
  <2>2. CASE SendMessage \/ ResumeTurn
    <3>1. PICK n \in Attempts, t \in Attempts : NextAttempt(n) /\ StartAttempt(n, t)
      BY <2>2 DEF SendMessage, ResumeTurn, Turns
    <3>2. n # m
      <4>1. m \in Sent /\ n \notin 1..(n - 1)
        BY <1>1 DEF Sent, Attempts
      <4> QED
        BY <3>1, <4>1 DEF NextAttempt
    <3> QED
      BY <2>1, <3>1, <3>2 DEF Turns
  <2>3. ASSUME NEW n \in Attempts, RunStep(n) PROVE served'[m] = "ended"
    BY <1>1, <2>3 DEF RunStep, Admit, Reject, Save, Token, Done, Fail, Close, Disconnect, Served,
                      ServerOK
  <2>4. CASE StopChat \/ CreateConversation \/ SelectConversation \/ RefreshConversation \/ Reload
    BY <1>1, <2>4 DEF StopChat, CreateConversation, SelectConversation, RefreshConversation,
                      Reload, server
  <2>5. ASSUME NEW l \in Loads, LoadStep(l) PROVE served'[m] = "ended"
    BY <1>1, <2>5 DEF LoadStep, LoadRead, LoadAnswered, LoadFails, server
  <2>6. ASSUME NEW n \in Attempts, AttemptStep(n) \/ LoseConnection(n)
        PROVE  served'[m] = "ended"
    BY <1>1, <2>6 DEF AttemptStep, Reconcile, AttemptRead, Reconciled, Refreshed,
                      AttemptReadFails, LoseConnection, server
  <2>7. CASE UNCHANGED vars
    BY <1>1, <2>7 DEF vars, server
  <2> QED
    BY <2>2, <2>3, <2>4, <2>5, <2>6, <2>7 DEF Next, UserStep, Rest
<1> QED
  BY <1>1 DEF Ended

\* A conversation is created by the user, or in place of one that is gone.
LEMMA PlacesStep ==
    ASSUME StoreAssumption, ServerOK, PlacesOK, CreatedBound, [Next]_vars
    PROVE  PlacesOK' /\ CreatedBound'
<1>1. /\ Ended \subseteq Ended' /\ IsFiniteSet(Ended')
      /\ Cardinality(Ended) \in Nat /\ Cardinality(Ended') \in Nat
      /\ Cardinality(Ended) <= Cardinality(Ended')
  <2>1. IsFiniteSet(Attempts)
    BY FS_Interval DEF Attempts, StoreAssumption
  <2>2. Ended \subseteq Ended' /\ Ended' \subseteq Attempts
    BY EndedStep DEF Ended
  <2> QED
    BY <2>1, <2>2, FS_Subset, FS_CardinalityType
<1>2. created \in Nat /\ created >= 1 /\ MaxCreated \in Nat /\ MaxAttempts \in Nat
  BY DEF PlacesOK, Conversations, StoreAssumption
<1>3. ASSUME UNCHANGED created, current' \in listed', listed' \subseteq listed
      PROVE  PlacesOK' /\ CreatedBound'
  BY <1>1, <1>2, <1>3 DEF PlacesOK, CreatedBound
<1>4. ASSUME created' = created + 1, current' = created', created' \in listed',
             listed' \subseteq listed \union {created'},
             created' <= MaxCreated + Cardinality(Ended'), created' <= MaxCreated + MaxAttempts
      PROVE  PlacesOK' /\ CreatedBound'
  BY <1>1, <1>2, <1>4 DEF PlacesOK, CreatedBound, Conversations
<1>5. CASE CreateConversation
  <2>1. created + 1 <= MaxCreated
    BY <1>2, <1>5 DEF CreateConversation
  <2> QED
    BY <1>1, <1>2, <1>4, <1>5, <2>1 DEF CreateConversation, NewConversation
<1>6. CASE SelectConversation \/ Reload
  BY <1>3, <1>6 DEF SelectConversation, Reload
<1>7. ASSUME NEW n \in Attempts, Reject(n) PROVE PlacesOK' /\ CreatedBound'
  <2>1. CASE UNCHANGED places
    BY <1>3, <2>1 DEF places, PlacesOK
  <2>2. CASE RemoveConversation(conv[n])
    <3>1. CASE current = conv[n]
      <4>1. /\ created' = created + 1 /\ current' = created' /\ created' \in listed'
            /\ listed' \subseteq listed \union {created'}
        BY <2>2, <3>1 DEF RemoveConversation, NewConversation
      <4>2. n \notin Ended /\ Ended' = Ended \union {n}
        BY <1>7 DEF Reject, Served, Ended, ServerOK
      <4>3. Cardinality(Ended') = Cardinality(Ended) + 1 /\ Cardinality(Ended) < MaxAttempts
        BY <4>2, EndedCounted, FS_AddElement
      <4>4. created + 1 <= MaxCreated + Cardinality(Ended')
        BY <1>1, <1>2, <4>3 DEF CreatedBound
      <4>5. created + 1 <= MaxCreated + MaxAttempts
        BY <1>1, <1>2, <4>3, <4>4
      <4> QED
        BY <1>4, <4>1, <4>4, <4>5
    <3>2. CASE current # conv[n]
      BY <1>3, <2>2, <3>2 DEF RemoveConversation, PlacesOK
    <3> QED
      BY <3>1, <3>2
  <2> QED
    BY <1>7, <2>1, <2>2 DEF Reject, client
<1>8. CASE SendMessage \/ ResumeTurn \/ StopChat \/ RefreshConversation
  <2>1. UNCHANGED places
    BY <1>8 DEF SendMessage, ResumeTurn, StartAttempt, StopChat, RefreshConversation, client
  <2> QED
    BY <1>3, <2>1 DEF places, PlacesOK
<1>9. ASSUME NEW n \in Attempts, RunStep(n), ~Reject(n) PROVE PlacesOK' /\ CreatedBound'
  <2>1. UNCHANGED places
    BY <1>9 DEF RunStep, Admit, Save, Token, Done, Fail, LastEvent, Close, Disconnect, client
  <2> QED
    BY <1>3, <2>1 DEF places, PlacesOK
<1>10. ASSUME NEW l \in Loads, LoadStep(l) PROVE PlacesOK' /\ CreatedBound'
  <2>1. UNCHANGED places
    BY <1>10 DEF LoadStep, LoadRead, LoadAnswered, LoadFails, client
  <2> QED
    BY <1>3, <2>1 DEF places, PlacesOK
<1>11. ASSUME NEW n \in Attempts, AttemptStep(n) \/ LoseConnection(n)
       PROVE  PlacesOK' /\ CreatedBound'
  <2>1. UNCHANGED places
    BY <1>11 DEF AttemptStep, Reconcile, AttemptRead, Reconciled, Refreshed, AttemptReadFails,
                 LoseConnection, client
  <2> QED
    BY <1>3, <2>1 DEF places, PlacesOK
<1>12. CASE UNCHANGED vars
  BY <1>3, <1>12 DEF vars, client, places, PlacesOK
<1> QED
  BY <1>5, <1>6, <1>7, <1>8, <1>9, <1>10, <1>11, <1>12 DEF Next, UserStep, Rest

\* An attempt waits, reads and tries again at most MaxTries times.
LEMMA AttemptsStep ==
    ASSUME StoreAssumption, ServerOK, AttemptsOK, Begun, [Next]_vars
    PROVE  AttemptsOK'
<1>1. ASSUME NEW n \in Attempts, NEW t \in Turns, StartAttempt(n, t) PROVE AttemptsOK'
  BY <1>1, FreshTyped DEF StartAttempt, AttemptsOK, Pcs
<1>2. CASE SendMessage \/ ResumeTurn
  BY <1>1, <1>2, Numbers DEF SendMessage, ResumeTurn
<1>3. ASSUME UNCHANGED <<streaming, controller>>, attempt' \in [Attempts -> AttemptStates]
      PROVE  AttemptsOK'
  BY <1>3 DEF AttemptsOK
<1>4. CASE StopChat \/ CreateConversation \/ SelectConversation
  <2>1. UNCHANGED <<streaming, controller>> /\ attempt' \in {attempt, Aborted}
    BY <1>4 DEF StopChat, CreateConversation, SelectConversation, Leaving
  <2> QED
    BY <1>3, <2>1, AbortedTyped DEF AttemptsOK
<1>5. CASE Reload
  BY <1>5, FreshTyped DEF Reload, AttemptsOK, Pcs
<1>6. CASE RefreshConversation \/ \E l \in Loads : LoadStep(l)
  BY <1>3, <1>6 DEF RefreshConversation, LoadStep, LoadRead, LoadAnswered, LoadFails, client,
                    AttemptsOK
<1>7. ASSUME NEW n \in Attempts, EndAttempt(n) PROVE AttemptsOK'
  BY <1>7, EndTyped DEF AttemptsOK
<1>8. ASSUME NEW n \in Attempts, RunStep(n) PROVE AttemptsOK'
  <2>1. CASE UNCHANGED <<streaming, controller, attempt>>
    BY <1>3, <2>1 DEF AttemptsOK
  <2>2. CASE Close(n)
    BY <1>3, <2>2, GotoTyped DEF Close, client, AttemptsOK, Pcs
  <2>3. CASE Reject(n)
    <3>1. CASE attempt' = [attempt EXCEPT ![n].pc = "refresh", ![n].read = ReadRegistry(conv[n])]
               /\ UNCHANGED client
      <4>1. ReadRegistry(conv[n]) \in Reads
        BY <2>3, RegistryTyped DEF Reject, Served, Begun
      <4> QED
        BY <1>3, <3>1, <4>1 DEF AttemptsOK, AttemptStates, client
    <3> QED
      BY <1>7, <2>1, <2>3, <3>1 DEF Reject, client
  <2> QED
    BY <1>8, <2>1, <2>2, <2>3 DEF RunStep, Admit, Save, Token, Done, Fail, LastEvent, Disconnect,
                                  client
<1>9. ASSUME NEW n \in Attempts, Reconcile(n) PROVE AttemptsOK'
  <2>1. CASE attempt[n].tries # MaxTries
    <3>1. ReadRegistry(conv[n]) \in Reads
      BY <1>9, RegistryTyped DEF Reconcile, Begun
    <3>2. attempt[n].tries + 1 \in 0..MaxTries
      BY <2>1 DEF AttemptsOK, AttemptStates, StoreAssumption
    <3>3. attempt' = [attempt EXCEPT ![n].pc = "reconcile", ![n].tries = @ + 1,
                                     ![n].read = ReadRegistry(conv[n])]
          /\ UNCHANGED <<streaming, controller>>
      BY <1>9, <2>1 DEF Reconcile
    <3> QED
      BY <1>3, <3>1, <3>2, <3>3 DEF AttemptsOK, AttemptStates
  <2> QED
    BY <1>7, <1>9, <2>1 DEF Reconcile
<1>10. ASSUME NEW n \in Attempts, AttemptRead(n) PROVE AttemptsOK'
  <2>1. ReadValues(attempt[n].read) \in Reads
    BY ValuesTyped DEF AttemptsOK, AttemptStates
  <2> QED
    BY <1>3, <1>10, <2>1 DEF AttemptRead, client, AttemptsOK, AttemptStates
<1>11. ASSUME NEW n \in Attempts, Reconciled(n) \/ Refreshed(n) \/ AttemptReadFails(n)
       PROVE  AttemptsOK'
  <2>1. EndAttempt(n) \/ TryAgain(n)
    BY <1>11 DEF Reconciled, Refreshed, AttemptReadFails
  <2> QED
    BY <1>3, <1>7, <2>1, AgainTyped
<1>12. ASSUME NEW n \in Attempts, LoseConnection(n) PROVE AttemptsOK'
  BY <1>3, <1>12, GotoTyped DEF LoseConnection, Pcs
<1>13. CASE UNCHANGED vars
  BY <1>3, <1>13 DEF vars, client, AttemptsOK
<1> QED
  BY <1>2, <1>4, <1>5, <1>6, <1>8, <1>9, <1>10, <1>11, <1>12, <1>13 DEF Next, UserStep, AttemptStep,
     Rest

LEMMA LoadsStep ==
    ASSUME StoreAssumption, ServerOK, PlacesOK, LoadsOK, [Next]_vars
    PROVE  LoadsOK'
<1>1. \A c \in listed : c \in Conversations
  BY DEF PlacesOK, Conversations, StoreAssumption
<1>2. \A c \in listed : ReadRegistry(c) \in Reads
  BY <1>1, RegistryTyped
<1>3. [NoRead EXCEPT !.pc = "over"] \in Reads
  BY DEF NoRead, Reads
<1>4. CASE SelectConversation \/ RefreshConversation
  BY <1>2, <1>4 DEF SelectConversation, RefreshConversation, LoadsOK, PlacesOK
<1>5. CASE Reload
  BY <1>2, <1>3, <1>5, NoReadTyped DEF Reload, LoadsOK
<1>6. ASSUME NEW l \in Loads, LoadStep(l) PROVE LoadsOK'
  <2>1. ReadValues(load[l]) \in Reads
    BY ValuesTyped DEF LoadsOK
  <2>2. failures' \in 0..MaxFailures
    BY <1>6 DEF LoadStep, LoadRead, LoadAnswered, LoadFails, Failing, LoadsOK, StoreAssumption
  <2> QED
    BY <1>3, <1>6, <2>1, <2>2 DEF LoadStep, LoadRead, LoadAnswered, LoadFails, LoadsOK
<1>7. ASSUME UNCHANGED load, UNCHANGED failures \/ Failing PROVE LoadsOK'
  BY <1>7 DEF LoadsOK, Failing, StoreAssumption
<1>8. CASE SendMessage \/ ResumeTurn \/ StopChat \/ CreateConversation
  BY <1>7, <1>8 DEF SendMessage, ResumeTurn, StartAttempt, StopChat, CreateConversation
<1>9. ASSUME NEW n \in Attempts, RunStep(n) PROVE LoadsOK'
  BY <1>7, <1>9 DEF RunStep, Admit, Reject, Save, Token, Done, Fail, LastEvent, Close, Disconnect
<1>10. ASSUME NEW n \in Attempts, AttemptStep(n) \/ LoseConnection(n) PROVE LoadsOK'
  BY <1>7, <1>10 DEF AttemptStep, Reconcile, AttemptRead, Reconciled, Refreshed,
                     AttemptReadFails, LoseConnection
<1>11. CASE UNCHANGED vars
  BY <1>7, <1>11 DEF vars
<1> QED
  BY <1>4, <1>5, <1>6, <1>8, <1>9, <1>10, <1>11 DEF Next, UserStep, Rest

LEMMA ApplyTyped ==
    ASSUME ServerOK, MessagesOK, Begun, NEW read, NEW active \in Turns \union {None},
           read.resumable \in Turns \union {None}, ApplyHistory(read, active)
    PROVE  MessagesOK'
<1>1. \A n \in Open : turn[n] \in Turns
  BY DEF Open, Begun
<1>2. shown' \in [Turns -> Statuses] /\ DOMAIN text' = Turns
  BY DEF ApplyHistory, Listed, Statuses
<1>3. {activeTurn', activeRun', resumable'} \subseteq Attempts \union {None}
  BY DEF ApplyHistory, MessagesOK, Turns
<1>4. loaded' \in BOOLEAN /\ overtaken' \in BOOLEAN
  BY DEF ApplyHistory, MessagesOK
<1>5. uncertain' \in BOOLEAN
  BY Zenon DEF ApplyHistory, Outdated
<1>6. disturbed' \subseteq Turns
  BY <1>1 DEF ApplyHistory
<1> QED
  BY <1>2, <1>3, <1>4, <1>5, <1>6 DEF MessagesOK

LEMMA MarkedTyped ==
    ASSUME MessagesOK, NEW t, NEW s \in Statuses
    PROVE  Marked(t, s) \in [Turns -> Statuses]
BY DEF Marked, MessagesOK

LEMMA NewTyped ==
    ASSUME MessagesOK, NewConversation, UNCHANGED <<overtaken, disturbed>>
    PROVE  MessagesOK'
BY DEF NewConversation, MessagesOK, NothingShown, NoText, Statuses

LEMMA MessagesStep ==
    ASSUME StoreAssumption, ServerOK, MessagesOK, AttemptsOK, LoadsOK, Begun, [Next]_vars
    PROVE  MessagesOK'
<1>1. CASE UNCHANGED <<messages, turns, history>>
  BY <1>1 DEF messages, turns, history, MessagesOK
<1>2. ASSUME NEW n \in Attempts, NEW t \in Turns, StartAttempt(n, t) PROVE MessagesOK'
  <2>1. shown' \in [Turns -> Statuses]
    BY <1>2 DEF StartAttempt, MessagesOK, Statuses
  <2> QED
    BY <1>2, <2>1 DEF StartAttempt, MessagesOK, Turns
<1>3. CASE SendMessage \/ ResumeTurn
  BY <1>2, <1>3, Numbers DEF SendMessage, ResumeTurn
<1>4. CASE StopChat
  <2>1. shown' \in [Turns -> Statuses]
    BY <1>4 DEF StopChat, MessagesOK, Statuses
  <2> QED
    BY <1>4, <2>1 DEF StopChat, turns, history, MessagesOK
<1>5. CASE CreateConversation
  BY <1>5, NewTyped DEF CreateConversation
<1>6. CASE SelectConversation
  <2>1. shown' \in [Turns -> Statuses] /\ loaded' \in BOOLEAN
    BY <1>6 DEF SelectConversation, MessagesOK, Statuses
  <2>2. activeRun' = None
        /\ UNCHANGED <<text, activeTurn, resumable, overtaken, disturbed, uncertain>>
    BY <1>6 DEF SelectConversation
  <2> QED
    BY <2>1, <2>2 DEF MessagesOK
<1>7. CASE Reload
  <2>1. NothingShown \in [Turns -> Statuses] /\ DOMAIN NoText = Turns
    BY DEF NothingShown, NoText, Statuses
  <2>2. /\ shown' = NothingShown /\ text' = NoText
        /\ activeTurn' = None /\ activeRun' = None /\ resumable' = None
        /\ loaded' = FALSE /\ overtaken' = FALSE /\ disturbed' = {} /\ UNCHANGED uncertain
    BY <1>7 DEF Reload
  <2> QED
    BY <2>1, <2>2 DEF MessagesOK
<1>8. CASE RefreshConversation
  BY <1>1, <1>8 DEF RefreshConversation, client
<1>9. ASSUME NEW l \in Loads, LoadStep(l) PROVE MessagesOK'
  <2>1. ASSUME LoadAnswered(l), Wanted(load[l]) PROVE MessagesOK'
    <3>1. load[l].active \in Turns \union {None} /\ load[l].resumable \in Turns \union {None}
      BY DEF LoadsOK, Reads
    <3>2. ApplyHistory(load[l], load[l].active)
      BY <2>1 DEF LoadAnswered
    <3> QED
      BY <3>1, <3>2, ApplyTyped
  <2> QED
    BY <1>1, <1>9, <2>1 DEF LoadStep, LoadRead, LoadAnswered, LoadFails, client
<1>10. ASSUME NEW n \in Attempts, Admit(n) PROVE MessagesOK'
  <2>1. activeRun' \in {activeRun, n}
    BY <1>10 DEF Admit, BindRun
  <2>2. shown' \in [Turns -> Statuses] /\ DOMAIN text' = Turns
    BY <1>10 DEF Admit, BindRun, messages, MessagesOK, Statuses
  <2>3. UNCHANGED <<activeTurn, resumable, history>>
    BY <1>10 DEF Admit
  <2> QED
    BY <2>1, <2>2, <2>3 DEF history, MessagesOK
<1>11. ASSUME NEW n \in Attempts, Reject(n) PROVE MessagesOK'
  <2>1. CASE RemoveConversation(conv[n]) /\ UNCHANGED <<overtaken, disturbed>>
    <3>1. CASE current = conv[n]
      BY <2>1, <3>1, NewTyped DEF RemoveConversation
    <3>2. CASE current # conv[n]
      BY <1>1, <2>1, <3>2 DEF RemoveConversation, history
    <3> QED
      BY <3>1, <3>2
  <2> QED
    BY <1>1, <1>11, <2>1 DEF Reject, client
<1>12. ASSUME NEW n \in Attempts, Token(n) PROVE MessagesOK'
  <2>1. shown' \in [Turns -> Statuses] /\ DOMAIN text' = Turns
    BY <1>12, MarkedTyped DEF Token, messages, MessagesOK, Statuses
  <2> QED
    BY <1>12, <2>1 DEF Token, turns, history, MessagesOK
<1>13. ASSUME NEW n \in Attempts, Done(n) \/ Fail(n) PROVE MessagesOK'
  <2>1. shown' \in [Turns -> Statuses]
    BY <1>13, MarkedTyped DEF Done, Fail, LastEvent, MessagesOK, Statuses
  <2> QED
    BY <1>13, <2>1 DEF Done, Fail, LastEvent, turns, history, MessagesOK
<1>14. ASSUME NEW n \in Attempts, Save(n) \/ Close(n) \/ Disconnect(n) PROVE MessagesOK'
  BY <1>1, <1>14 DEF Save, Close, Disconnect, client
<1>15. ASSUME NEW n \in Attempts, LoseConnection(n) PROVE MessagesOK'
  <2>1. shown' \in [Turns -> Statuses]
    BY <1>15, MarkedTyped DEF LoseConnection, Statuses
  <2> QED
    BY <1>15, <2>1 DEF LoseConnection, turns, MessagesOK
<1>16. ASSUME NEW n \in Attempts, Reconcile(n) \/ AttemptRead(n) \/ AttemptReadFails(n)
       PROVE  MessagesOK'
  BY <1>1, <1>16 DEF Reconcile, AttemptRead, AttemptReadFails, client
<1>17. ASSUME NEW n \in Attempts, Reconciled(n) \/ Refreshed(n) PROVE MessagesOK'
  <2> DEFINE read == attempt[n].read
  <2>1. read.active \in Turns \union {None} /\ read.resumable \in Turns \union {None}
    BY DEF AttemptsOK, AttemptStates, Reads
  <2>2. Kept(read, turn[n]) \in Turns \union {None}
    BY <2>1 DEF Kept
  <2>3. \/ UNCHANGED <<messages, turns, history>>
        \/ ApplyHistory(read, read.active) \/ ApplyHistory(read, Kept(read, turn[n]))
    BY <1>17 DEF Reconciled, Refreshed
  <2> QED
    BY <1>1, <2>1, <2>2, <2>3, ApplyTyped
<1>18. CASE UNCHANGED vars
  BY <1>1, <1>18 DEF vars, client
<1> QED
  BY <1>3, <1>4, <1>5, <1>6, <1>7, <1>8, <1>9, <1>10, <1>11, <1>12, <1>13, <1>14, <1>15, <1>16,
     <1>17, <1>18 DEF Next, UserStep, RunStep, AttemptStep, Rest

----------------------------------------------------------------------------
(* One attempt.                                                             *)

Under(n) == attempt[n].pc \notin {"none", "over"}

LEMMA OneUnder ==
    OneAttempt <=> /\ streaming => controller \in Attempts
                   /\ \A n \in Attempts : Under(n) <=> streaming /\ n = controller
<1>1. ASSUME OneAttempt, streaming PROVE controller \in Attempts
  BY <1>1 DEF OneAttempt
<1>2. ASSUME OneAttempt, NEW n \in Attempts PROVE Under(n) <=> streaming /\ n = controller
  BY <1>2 DEF OneAttempt, Under
<1>3. ASSUME streaming => controller \in Attempts,
             \A n \in Attempts : Under(n) <=> streaming /\ n = controller
      PROVE  OneAttempt
  BY <1>3 DEF OneAttempt, Under
<1> QED
  BY <1>1, <1>2, <1>3

\* An attempt that goes on as another kind of attempt is still the only one.
LEMMA GoesOn ==
    ASSUME OneAttempt, UNCHANGED <<streaming, controller>>,
           \A n \in Attempts : Under(n)' <=> Under(n)
    PROVE  OneAttempt'
<1>1. /\ streaming' => controller' \in Attempts
      /\ \A n \in Attempts : Under(n)' <=> streaming' /\ n = controller'
  BY OneUnder
<1> QED
  BY <1>1 DEF OneAttempt, Under

LEMMA EndsAlone ==
    ASSUME StoreAssumption, AttemptsOK, OneAttempt, NEW n \in Attempts, Under(n), EndAttempt(n)
    PROVE  OneAttempt' /\ Open' = {}
<1>1. \A m \in Attempts : ~Under(m)'
  BY EndTyped, OneUnder DEF Under
<1>2. ~streaming'
  BY EndTyped
<1>3. OneAttempt'
  BY <1>1, <1>2 DEF OneAttempt, Under
<1>4. Open' = {}
  BY <1>1 DEF Open, Under
<1> QED
  BY <1>3, <1>4

LEMMA StartsAlone ==
    ASSUME StoreAssumption, AttemptsOK, OneAttempt, ~streaming, NEW n \in Attempts, NEW t,
           StartAttempt(n, t)
    PROVE  OneAttempt' /\ Open' = {n}
<1>1. \A m \in Attempts : ~Under(m)
  BY OneUnder
<1>2. \A m \in Attempts \ {n} : attempt'[m] = attempt[m]
  BY DEF StartAttempt, AttemptsOK
<1>3. attempt'[n].pc = "open"
  BY FreshTyped DEF StartAttempt, AttemptsOK, Pcs
<1>4. streaming' /\ controller' = n
  BY DEF StartAttempt
<1>5. OneAttempt'
  BY <1>1, <1>2, <1>3, <1>4 DEF OneAttempt, Under
<1>6. Open' = {n}
  BY <1>1, <1>2, <1>3 DEF Open, Under
<1> QED
  BY <1>5, <1>6

\* No attempt begins before the last one ended, and what ends one is its own.
LEMMA OneStep ==
    ASSUME StoreAssumption, AttemptsOK, OneAttempt, [Next]_vars
    PROVE  OneAttempt'
<1>1. CASE UNCHANGED <<streaming, controller, attempt>>
  BY <1>1, GoesOn DEF Under
<1>2. CASE SendMessage \/ ResumeTurn
  BY <1>2, StartsAlone DEF SendMessage, ResumeTurn, CanSend, CanResume
<1>3. CASE StopChat \/ CreateConversation \/ SelectConversation
  <2>1. UNCHANGED <<streaming, controller>> /\ attempt' \in {attempt, Aborted}
    BY <1>3 DEF StopChat, CreateConversation, SelectConversation, Leaving
  <2>2. ASSUME attempt' = Aborted, NEW n \in Attempts PROVE Under(n)' <=> Under(n)
    BY <2>2, AbortedTyped DEF Under, Open
  <2> QED
    BY <1>1, <2>1, <2>2, GoesOn
<1>4. CASE Reload
  <2>1. ~streaming' /\ \A n \in Attempts : ~Under(n)'
    BY <1>4, FreshTyped DEF Reload, Under, Pcs
  <2> QED
    BY <2>1 DEF OneAttempt, Under
<1>5. CASE RefreshConversation \/ \E l \in Loads : LoadStep(l)
  BY <1>1, <1>5 DEF RefreshConversation, LoadStep, LoadRead, LoadAnswered, LoadFails, client
<1>6. ASSUME NEW n \in Attempts, Reject(n) PROVE OneAttempt'
  <2>1. CASE attempt' = [attempt EXCEPT ![n].pc = "refresh", ![n].read = ReadRegistry(conv[n])]
             /\ UNCHANGED client /\ n \in Open
    <3>1. \A m \in Attempts : Under(m)' <=> Under(m)
      BY <2>1 DEF Under, Open, AttemptsOK, AttemptStates
    <3> QED
      BY <2>1, <3>1, GoesOn DEF client
  <2>2. CASE n \in Open /\ EndAttempt(n)
    BY <2>2, EndsAlone DEF Open, Under
  <2> QED
    BY <1>1, <1>6, <2>1, <2>2 DEF Reject, client
<1>7. ASSUME NEW n \in Attempts, Close(n) \/ LoseConnection(n) PROVE OneAttempt'
  <2>1. UNCHANGED <<streaming, controller>>
        /\ (UNCHANGED attempt \/ (n \in Open /\ attempt' = Goto(n, "wait")))
    <3>1. CASE Close(n)
      <4>1. UNCHANGED <<streaming, controller>>
        BY <3>1 DEF Close, client
      <4>2. UNCHANGED attempt \/ (n \in Open /\ attempt' = Goto(n, "wait"))
        BY <3>1, Zenon DEF Close
      <4> QED
        BY <4>1, <4>2
    <3>2. CASE LoseConnection(n)
      BY <3>2 DEF LoseConnection
    <3> QED
      BY <1>7, <3>1, <3>2
  <2>2. ASSUME n \in Open, attempt' = Goto(n, "wait"), NEW m \in Attempts
        PROVE  Under(m)' <=> Under(m)
    <3>1. Goto(n, "wait")[n].pc = "wait" /\ \A i \in Attempts \ {n} : Goto(n, "wait")[i] = attempt[i]
      BY GotoTyped DEF Pcs
    <3> QED
      BY <2>2, <3>1 DEF Under, Open
  <2> QED
    BY <1>1, <2>1, <2>2, GoesOn
<1>8. ASSUME NEW n \in Attempts,
             Admit(n) \/ Save(n) \/ Token(n) \/ Done(n) \/ Fail(n) \/ Disconnect(n)
      PROVE  OneAttempt'
  BY <1>1, <1>8 DEF Admit, Save, Token, Done, Fail, LastEvent, Disconnect, client
<1>9. ASSUME NEW n \in Attempts, Under(n), TryAgain(n) PROVE OneAttempt'
  <2>1. \A m \in Attempts : Under(m)' <=> Under(m)
    BY <1>9, AgainTyped DEF Under
  <2> QED
    BY <1>9, <2>1, AgainTyped, GoesOn
<1>10. ASSUME NEW n \in Attempts, Reconciled(n) \/ Refreshed(n) \/ AttemptReadFails(n)
       PROVE  OneAttempt'
  <2>1. Under(n) /\ (EndAttempt(n) \/ TryAgain(n))
    BY <1>10 DEF Reconciled, Refreshed, AttemptReadFails, Under
  <2> QED
    BY <1>9, <2>1, EndsAlone
<1>11. ASSUME NEW n \in Attempts, Reconcile(n) PROVE OneAttempt'
  <2>1. Under(n)
    BY <1>11 DEF Reconcile, Under
  <2>2. CASE ~EndAttempt(n)
    <3>1. /\ UNCHANGED <<streaming, controller>>
          /\ attempt' = [attempt EXCEPT ![n].pc = "reconcile", ![n].tries = @ + 1,
                                        ![n].read = ReadRegistry(conv[n])]
      BY <1>11, <2>2 DEF Reconcile
    <3>2. \A m \in Attempts : Under(m)' <=> Under(m)
      BY <2>1, <3>1 DEF Under, AttemptsOK, AttemptStates
    <3> QED
      BY <3>1, <3>2, GoesOn
  <2> QED
    BY <2>1, <2>2, EndsAlone
<1>12. ASSUME NEW n \in Attempts, AttemptRead(n) PROVE OneAttempt'
  <2>1. \A m \in Attempts : Under(m)' <=> Under(m)
    BY <1>12 DEF AttemptRead, Under, AttemptsOK, AttemptStates
  <2> QED
    BY <1>12, <2>1, GoesOn DEF AttemptRead, client
<1>13. CASE UNCHANGED vars
  BY <1>1, <1>13 DEF vars, client
<1> QED
  BY <1>2, <1>3, <1>4, <1>5, <1>6, <1>7, <1>8, <1>10, <1>11, <1>12, <1>13
     DEF Next, UserStep, RunStep, AttemptStep, Rest

\* The conversation or the turn of an attempt that is streamed does not change under it.
LEMMA ShownKept ==
    ASSUME AttemptShown, Open' \subseteq Open, UNCHANGED <<conv, turn, current, activeTurn>>,
           overtaken => overtaken'
    PROVE  AttemptShown'
BY DEF AttemptShown

\* The attempt is aborted when its conversation is left.
LEMMA LeavesNone ==
    ASSUME StoreAssumption, AttemptsOK, Begun, OneAttempt, AttemptShown, ~overtaken,
           attempt' = Leaving
    PROVE  Open' = {}
<1>1. ASSUME NEW n \in Attempts, attempt[n].pc = "open" PROVE attempt'[n].pc = "wait"
  <2>1. streaming /\ n = controller
    BY <1>1, OneUnder DEF Under
  <2>2. activeTurn # None /\ n \in Open
    BY <1>1, Numbers DEF AttemptShown, Open, Begun
  <2> QED
    BY <2>1, <2>2, AbortedTyped DEF Leaving
<1>2. ASSUME NEW n \in Attempts, attempt'[n].pc = "open" PROVE attempt[n].pc = "open"
  BY <1>2, AbortedTyped DEF Leaving
<1> QED
  BY <1>1, <1>2 DEF Open

LEMMA AttemptShownStep ==
    ASSUME StoreAssumption, ServerOK, AttemptsOK, Begun, OneAttempt, AttemptShown, [Next]_vars
    PROVE  AttemptShown'
<1>1. CASE UNCHANGED <<conv, turn, current, activeTurn, overtaken, attempt>>
  BY <1>1, ShownKept DEF Open
<1>2. ASSUME Open' = {} PROVE AttemptShown'
  BY <1>2 DEF AttemptShown
<1>3. CASE SendMessage \/ ResumeTurn
  <2>1. PICK n \in Attempts, t \in Turns : StartAttempt(n, t) /\ ~streaming
    BY <1>3, Numbers DEF SendMessage, ResumeTurn, CanSend, CanResume
  <2>2. Open' = {n}
    BY <2>1, StartsAlone
  <2>3. conv'[n] = current /\ turn'[n] = t /\ activeTurn' = t /\ UNCHANGED current
    BY <2>1 DEF StartAttempt, places, ServerOK
  <2> QED
    BY <2>2, <2>3 DEF AttemptShown
<1>4. CASE StopChat
  <2>1. UNCHANGED <<conv, turn, current, activeTurn, overtaken>> /\ attempt' = Aborted
    BY <1>4 DEF StopChat, server, places, turns, history
  <2>2. Open' \subseteq Open
    BY <2>1, AbortedTyped DEF Open
  <2> QED
    BY <2>1, <2>2, ShownKept
<1>5. ASSUME attempt' = Leaving, UNCHANGED overtaken PROVE AttemptShown'
  BY <1>2, <1>5, LeavesNone DEF AttemptShown
<1>6. CASE CreateConversation
  BY <1>5, <1>6 DEF CreateConversation
<1>7. CASE SelectConversation
  <2>1. UNCHANGED <<conv, turn, activeTurn, overtaken>>
    BY <1>7 DEF SelectConversation, server
  <2>2. UNCHANGED <<current, attempt>> \/ attempt' = Leaving
    BY <1>7 DEF SelectConversation
  <2> QED
    BY <1>1, <1>5, <2>1, <2>2
<1>8. CASE Reload
  <2>1. Open' = {}
    BY <1>8, FreshTyped DEF Reload, Open, Pcs
  <2> QED
    BY <1>2, <2>1
<1>9. CASE RefreshConversation
  BY <1>1, <1>9 DEF RefreshConversation, server, client, places, turns, history
<1>10. ASSUME NEW l \in Loads, LoadStep(l) PROVE AttemptShown'
  <2>1. UNCHANGED <<conv, turn, current, attempt>>
    BY <1>10 DEF LoadStep, LoadRead, LoadAnswered, LoadFails, server, client, places
  <2>2. ASSUME ApplyHistory(load[l], load[l].active) PROVE AttemptShown'
    <3>1. activeTurn' = load[l].active
          /\ overtaken' = (overtaken \/ \E n \in Open : turn[n] # load[l].active)
      BY <2>2 DEF ApplyHistory
    <3>2. Open' = Open
      BY <2>1 DEF Open
    <3> QED
      BY <2>1, <3>1, <3>2 DEF AttemptShown
  <2>3. CASE UNCHANGED <<activeTurn, overtaken>>
    BY <1>1, <2>1, <2>3
  <2> QED
    BY <1>10, <2>2, <2>3 DEF LoadStep, LoadRead, LoadAnswered, LoadFails, client, turns, history
<1>11. ASSUME NEW n \in Attempts, Reject(n) PROVE AttemptShown'
  <2>1. CASE attempt' = [attempt EXCEPT ![n].pc = "refresh", ![n].read = ReadRegistry(conv[n])]
             /\ UNCHANGED <<client, history>>
    <3>1. Open' \subseteq Open
      BY <2>1 DEF Open, AttemptsOK, AttemptStates
    <3>2. UNCHANGED <<conv, turn, current, activeTurn, overtaken>>
      BY <1>11, <2>1 DEF Reject, client, places, turns, history
    <3> QED
      BY <3>1, <3>2, ShownKept
  <2>2. CASE n \in Open /\ EndAttempt(n)
    BY <1>2, <2>2, EndsAlone DEF Open, Under
  <2>3. CASE UNCHANGED <<client, attempt, history>>
    BY <1>1, <1>11, <2>3 DEF Reject, client, places, turns, history
  <2> QED
    BY <1>11, <2>1, <2>2, <2>3 DEF Reject
<1>12. ASSUME NEW n \in Attempts, Close(n) \/ LoseConnection(n) PROVE AttemptShown'
  <2>1. UNCHANGED <<conv, turn, current, activeTurn, overtaken>>
    BY <1>12 DEF Close, LoseConnection, client, server, places, turns, history
  <2>2. attempt' = Goto(n, "wait") \/ UNCHANGED attempt
    BY <1>12, Zenon DEF Close, LoseConnection
  <2>3. Open' \subseteq Open
    BY <2>2, GotoTyped DEF Open, Pcs
  <2> QED
    BY <2>1, <2>3, ShownKept
<1>13. ASSUME NEW n \in Attempts,
              Admit(n) \/ Save(n) \/ Token(n) \/ Done(n) \/ Fail(n) \/ Disconnect(n)
       PROVE  AttemptShown'
  BY <1>1, <1>13 DEF Admit, Save, Token, Done, Fail, LastEvent, Disconnect, client, places, turns,
                     history
<1>14. ASSUME NEW n \in Attempts, Reconciled(n) \/ Refreshed(n) \/ AttemptReadFails(n)
       PROVE  AttemptShown'
  <2>1. Under(n) /\ n \notin Open /\ (EndAttempt(n) \/ TryAgain(n))
    BY <1>14 DEF Reconciled, Refreshed, AttemptReadFails, Under, Open
  <2>2. Open = {}
    BY <2>1, OneUnder DEF Under, Open
  <2>3. CASE TryAgain(n)
    BY <1>2, <2>2, <2>3, AgainTyped DEF Open
  <2> QED
    BY <1>2, <2>1, <2>3, EndsAlone
<1>15. ASSUME NEW n \in Attempts, Reconcile(n) \/ AttemptRead(n) PROVE AttemptShown'
  <2>1. UNCHANGED <<conv, turn, current, activeTurn, overtaken>>
    BY <1>15 DEF Reconcile, AttemptRead, client, server, places, turns, history
  <2>2. Open' \subseteq Open
    BY <1>15, NoneOpened
  <2> QED
    BY <2>1, <2>2, ShownKept
<1>16. CASE UNCHANGED vars
  BY <1>1, <1>16 DEF vars, server, client, places, turns, history
<1> QED
  BY <1>3, <1>4, <1>6, <1>7, <1>8, <1>9, <1>10, <1>11, <1>12, <1>13, <1>14, <1>15, <1>16
     DEF Next, UserStep, RunStep, AttemptStep, Rest

----------------------------------------------------------------------------
(* What belongs to a conversation.                                          *)

Running == {"started", "answered", "closing"}

\* A run answers a turn of its conversation, and is registered for that.
RunsBelong ==
    /\ \A n \in Attempts : served[n] \in Running => conv[turn[n]] = conv[n]
    /\ \A c \in Conversations :
          running[c] # None => served[running[c]] \in Running /\ conv[running[c]] = c

\* A history that was read tells of turns of its conversation (cv says which they are), and
\* offers one for resumption that is not answered, when none is active.
ReadBelongs(r, cv) ==
    /\ r.pc \in {"registry", "answered"} => r.conv \in Conversations
    /\ \A t \in Turns : t \in r.answers \/ t = r.active \/ t = r.resumable =>
          cv[t] = r.conv /\ r.conv \in Conversations
    /\ r.resumable # None => r.resumable \notin r.answers /\ r.active = None

ReadsBelong ==
    /\ \A l \in Loads : ReadBelongs(load[l], conv)
    /\ \A n \in Attempts : ReadBelongs(attempt[n].read, conv)

\* The conversation of a turn, and the turn of an attempt, are settled when it is sent.
LEMMA Frozen ==
    ASSUME StoreAssumption, ServerOK, Begun, [Next]_vars
    PROVE  /\ \A t \in Attempts : conv[t] \in Conversations => conv'[t] = conv[t]
           /\ \A n \in Attempts : served[n] # "unsent" =>
                 turn'[n] = turn[n] /\ conv'[n] = conv[n] /\ served'[n] # "unsent"
<1>1. CASE SendMessage \/ ResumeTurn
  <2>1. PICK n \in Attempts, t \in Turns : NextAttempt(n) /\ StartAttempt(n, t)
    BY <1>1, Numbers DEF SendMessage, ResumeTurn
  <2>2. served[n] = "unsent"
    <3>1. n \notin 1..(n - 1)
      BY DEF Attempts
    <3> QED
      BY <2>1, <3>1 DEF NextAttempt, Sent
  <2>3. conv[n] \notin Conversations
    BY <2>2, Numbers DEF Begun
  <2>4. \A m \in Attempts \ {n} : conv'[m] = conv[m] /\ turn'[m] = turn[m] /\ served'[m] = served[m]
    BY <2>1 DEF StartAttempt, ServerOK
  <2> QED
    BY <2>2, <2>3, <2>4
<1>2. CASE UNCHANGED <<conv, turn>> /\ \A n \in Attempts : served[n] # "unsent" => served'[n] # "unsent"
  BY <1>2
<1>3. CASE StopChat \/ CreateConversation \/ SelectConversation \/ RefreshConversation \/ Reload
  BY <1>2, <1>3 DEF StopChat, CreateConversation, SelectConversation, RefreshConversation,
                    Reload, server
<1>4. ASSUME NEW l \in Loads, LoadStep(l) PROVE UNCHANGED server
  BY <1>4 DEF LoadStep, LoadRead, LoadAnswered, LoadFails
<1>5. ASSUME NEW n \in Attempts, AttemptStep(n) \/ LoseConnection(n) PROVE UNCHANGED server
  BY <1>5 DEF AttemptStep, Reconcile, AttemptRead, Reconciled, Refreshed, AttemptReadFails,
              LoseConnection
<1>6. ASSUME NEW n \in Attempts, RunStep(n)
      PROVE  UNCHANGED <<conv, turn>> /\ \A m \in Attempts : served[m] # "unsent" => served'[m] # "unsent"
  BY <1>6 DEF RunStep, Admit, Reject, Save, Token, Done, Fail, LastEvent, Close, Disconnect,
              Served, ServerOK
<1>7. CASE UNCHANGED vars
  BY <1>2, <1>7 DEF vars, server
<1> QED
  BY <1>1, <1>2, <1>3, <1>4, <1>5, <1>6, <1>7 DEF Next, UserStep, Rest, server

\* A run is admitted for a turn of its conversation only.
LEMMA Admitted ==
    ASSUME StoreAssumption, ServerOK, Begun, NEW n \in Attempts, served[n] = "asked",
           Rejected(n) = "admitted"
    PROVE  conv[turn[n]] = conv[n]
<1>1. turn[n] = n \/ Unfinished(conv[n]) = turn[n]
  BY DEF Rejected
<1>2. turn[n] \in Turns
  BY DEF Begun
<1> QED
  BY <1>1, <1>2, UnfinishedTyped

LEMMA RunsStep ==
    ASSUME StoreAssumption, ServerOK, Begun, RunsBelong, [Next]_vars
    PROVE  RunsBelong'
<1>1. \A n \in Attempts : served[n] # "unsent" => /\ turn'[n] = turn[n] /\ conv'[n] = conv[n]
                                                  /\ conv[n] \in Conversations
                                                  /\ turn[n] \in Attempts
  BY Frozen, Numbers DEF Begun
<1>2. ASSUME NEW n \in Attempts, served[n] \in Running PROVE conv'[turn'[n]] = conv'[n]
  <2>1. conv[turn[n]] = conv[n] /\ served[n] # "unsent"
    BY <1>2 DEF RunsBelong, Running
  <2> QED
    BY <1>1, <2>1, Frozen
<1>3. ASSUME \A n \in Attempts : served'[n] \in Running => served[n] \in Running,
             \A n \in Attempts : served[n] \in Running =>
                 served'[n] \in Running \/ (running[conv[n]] = n => running'[conv[n]] = None),
             \A c \in Conversations : running'[c] \in {running[c], None}
      PROVE  RunsBelong'
  <2>1. ASSUME NEW c \in Conversations, running'[c] # None
        PROVE  served'[running'[c]] \in Running /\ conv'[running'[c]] = c
    <3>1. /\ running'[c] = running[c] /\ running[c] \in Attempts
          /\ served[running[c]] \in Running /\ conv[running[c]] = c
      BY <1>3, <2>1 DEF RunsBelong, ServerOK
    <3>2. served'[running[c]] \in Running
      BY <1>3, <2>1, <3>1
    <3> QED
      BY <1>1, <3>1, <3>2 DEF Running
  <2> QED
    BY <1>2, <1>3, <2>1 DEF RunsBelong
<1>4. CASE UNCHANGED <<served, running>>
  BY <1>3, <1>4
<1>5. ASSUME NEW n \in Attempts, served[n] \in {"unsent", "asked"}, UNCHANGED running,
             NEW s \in {"asked", "ended"}, served' = [served EXCEPT ![n] = s]
      PROVE  RunsBelong'
  BY <1>3, <1>5 DEF Running, ServerOK
<1>6. CASE SendMessage \/ ResumeTurn
  <2>1. PICK n \in Attempts, t \in Turns : NextAttempt(n) /\ StartAttempt(n, t)
    BY <1>6, Numbers DEF SendMessage, ResumeTurn
  <2>2. served[n] = "unsent"
    <3>1. n \notin 1..(n - 1)
      BY DEF Attempts
    <3> QED
      BY <2>1, <3>1 DEF NextAttempt, Sent
  <2> QED
    BY <1>5, <2>1, <2>2 DEF StartAttempt, Running
<1>7. ASSUME NEW n \in Attempts, Admit(n) PROVE RunsBelong'
  <2>1. /\ served[n] = "asked" /\ served' = [served EXCEPT ![n] = "started"]
        /\ running' = [running EXCEPT ![conv[n]] = n] /\ UNCHANGED <<conv, turn>>
    BY <1>7 DEF Admit, Served
  <2>2. conv[turn[n]] = conv[n]
    BY <1>7, <2>1, Admitted DEF Admit
  <2>3. ASSUME NEW m \in Attempts, served'[m] \in Running PROVE conv'[turn'[m]] = conv'[m]
    BY <2>1, <2>2, <2>3 DEF RunsBelong, ServerOK
  <2>4. ASSUME NEW c \in Conversations, running'[c] # None
        PROVE  served'[running'[c]] \in Running /\ conv'[running'[c]] = c
    <3>1. CASE c = conv[n]
      BY <2>1, <3>1 DEF ServerOK, Running
    <3>2. CASE c # conv[n]
      BY <2>1, <2>4, <3>2 DEF ServerOK, Running, RunsBelong
    <3> QED
      BY <3>1, <3>2
  <2> QED
    BY <2>3, <2>4 DEF RunsBelong
<1>8. ASSUME NEW n \in Attempts, Reject(n) PROVE RunsBelong'
  BY <1>5, <1>8 DEF Reject, Served, Running
<1>9. ASSUME NEW n \in Attempts, Save(n) \/ Done(n) \/ Fail(n) \/ Token(n) PROVE RunsBelong'
  <2>1. /\ UNCHANGED running
        /\ \/ UNCHANGED served
           \/ served[n] \in Running /\ \E s \in Running : served' = [served EXCEPT ![n] = s]
    BY <1>9 DEF Save, Done, Fail, Token, LastEvent, Served, Running
  <2>2. \A m \in Attempts : served'[m] \in Running <=> served[m] \in Running
    BY <2>1 DEF ServerOK
  <2> QED
    BY <1>3, <2>1, <2>2
<1>10. ASSUME NEW n \in Attempts, Close(n) \/ Disconnect(n) PROVE RunsBelong'
  <2>1. /\ served' = [served EXCEPT ![n] = "ended"] /\ Release(n)
    BY <1>10 DEF Close, Disconnect, Served
  <2>2. \A m \in Attempts : served'[m] = IF m = n THEN "ended" ELSE served[m]
    BY <2>1 DEF ServerOK
  <2>3. \A c \in Conversations :
            running'[c] = IF c = conv[n] /\ running[c] = n THEN None ELSE running[c]
    BY <2>1 DEF Release, ServerOK
  <2>4. running[conv[n]] = n => running'[conv[n]] = None
    BY <1>1, <1>10, <2>3 DEF Close, Disconnect, Served
  <2> QED
    BY <1>3, <2>2, <2>3, <2>4 DEF Running
<1>11. CASE StopChat \/ CreateConversation \/ SelectConversation \/ RefreshConversation \/ Reload
  BY <1>4, <1>11 DEF StopChat, CreateConversation, SelectConversation, RefreshConversation,
                     Reload, server
<1>12. ASSUME NEW l \in Loads, LoadStep(l) PROVE RunsBelong'
  BY <1>4, <1>12 DEF LoadStep, LoadRead, LoadAnswered, LoadFails, server
<1>13. ASSUME NEW n \in Attempts, AttemptStep(n) \/ LoseConnection(n) PROVE RunsBelong'
  BY <1>4, <1>13 DEF AttemptStep, Reconcile, AttemptRead, Reconciled, Refreshed,
                     AttemptReadFails, LoseConnection, server
<1>14. CASE UNCHANGED vars
  BY <1>4, <1>14 DEF vars, server
<1> QED
  BY <1>6, <1>7, <1>8, <1>9, <1>10, <1>11, <1>12, <1>13, <1>14 DEF Next, UserStep, RunStep, Rest

LEMMA ReadKept ==
    ASSUME NEW r, NEW cv, NEW cw, ReadBelongs(r, cv), Turns = Attempts,
           \A t \in Attempts : cv[t] \in Conversations => cw[t] = cv[t]
    PROVE  ReadBelongs(r, cw)
BY DEF ReadBelongs

\* Nothing is said before a history is read, or after it was applied.
LEMMA EmptyBelongs ==
    ASSUME StoreAssumption, NEW cv
    PROVE  ReadBelongs(NoRead, cv) /\ ReadBelongs([NoRead EXCEPT !.pc = "over"], cv)
BY Numbers DEF ReadBelongs, NoRead

LEMMA RegistryBelongs ==
    ASSUME StoreAssumption, ServerOK, Begun, RunsBelong, NEW c \in Conversations
    PROVE  ReadBelongs(ReadRegistry(c), conv)
<1> DEFINE r == ReadRegistry(c)
<1>1. /\ r.pc = "registry" /\ r.conv = c /\ r.answers = {} /\ r.resumable = None
      /\ r.active = IF running[c] = None THEN None ELSE turn[running[c]]
  BY RegistryTyped
<1>2. ASSUME r.active \in Turns PROVE conv[r.active] = c
  BY <1>1, <1>2, Numbers DEF RunsBelong, ServerOK
<1>3. ASSUME NEW s, s.pc = "registry", s.conv = c, s.answers = {}, s.resumable = None,
             s.active \in Turns => conv[s.active] = c
      PROVE  ReadBelongs(s, conv)
  BY <1>3, Numbers DEF ReadBelongs
<1> QED
  BY <1>1, <1>2, <1>3

LEMMA ValuesBelong ==
    ASSUME StoreAssumption, ServerOK, NEW r \in Reads, r.pc = "registry", ReadBelongs(r, conv)
    PROVE  ReadBelongs(ReadValues(r), conv)
<1> DEFINE v == ReadValues(r)
<1>1. /\ v.pc = "answered" /\ v.conv = r.conv /\ v.active = r.active
      /\ v.answers = {t \in answered : conv[t] = r.conv}
      /\ v.resumable = None \/ v.resumable = Unfinished(r.conv)
  BY ValuesTyped
<1>2. v.resumable = IF r.active = None THEN Unfinished(r.conv) ELSE None
  BY DEF ReadValues, Reads
<1>3. r.conv \in Conversations
  BY DEF ReadBelongs
<1>4. ASSUME v.resumable # None
      PROVE  /\ v.resumable \in Turns /\ conv[v.resumable] = r.conv
             /\ v.resumable \notin answered /\ r.active = None
  BY <1>1, <1>2, <1>4, UnfinishedTyped
<1>5. ASSUME NEW t \in Turns, t = v.active PROVE conv[t] = r.conv
  BY <1>1, <1>5 DEF ReadBelongs
<1>6. ASSUME NEW s, s.conv = r.conv, s.answers = {t \in answered : conv[t] = r.conv},
             \A t \in Turns : t = s.active \/ t = s.resumable => conv[t] = r.conv,
             s.resumable # None => s.resumable \notin answered /\ s.active = None
      PROVE  ReadBelongs(s, conv)
  BY <1>3, <1>6 DEF ReadBelongs
<1>7. v.resumable # None => v.active = None
  BY <1>1, <1>4
<1> HIDE DEF v
<1>8. ReadBelongs(v, conv)
  BY <1>1, <1>4, <1>5, <1>6, <1>7, Numbers
<1> QED
  BY <1>8 DEF v

\* How a load, and the history that an attempt reads, come about.
Moves(old, new) ==
    \/ new \in {old, NoRead, [NoRead EXCEPT !.pc = "over"]}
    \/ \E c \in Conversations : new = ReadRegistry(c)
    \/ old.pc = "registry" /\ new = ReadValues(old)

LEMMA LoadMoves ==
    ASSUME StoreAssumption, PlacesOK, LoadsOK, [Next]_vars, NEW l \in Loads
    PROVE  Moves(load[l], load'[l])
<1>1. \A c \in listed : c \in Conversations
  BY DEF PlacesOK, Conversations, StoreAssumption
<1>2. CASE UNCHANGED load
  BY <1>2 DEF Moves
<1>3. CASE SelectConversation \/ RefreshConversation
  BY <1>1, <1>3 DEF SelectConversation, RefreshConversation, LoadsOK, PlacesOK, Moves
<1>4. CASE Reload
  BY <1>1, <1>4 DEF Reload, Moves
<1>5. ASSUME NEW k \in Loads, LoadStep(k) PROVE Moves(load[l], load'[l])
  BY <1>5 DEF LoadStep, LoadRead, LoadAnswered, LoadFails, LoadsOK, Moves
<1>6. CASE SendMessage \/ ResumeTurn \/ StopChat \/ CreateConversation
  BY <1>2, <1>6 DEF SendMessage, ResumeTurn, StartAttempt, StopChat, CreateConversation
<1>7. ASSUME NEW n \in Attempts, RunStep(n) PROVE Moves(load[l], load'[l])
  BY <1>2, <1>7 DEF RunStep, Admit, Reject, Save, Token, Done, Fail, LastEvent, Close, Disconnect
<1>8. ASSUME NEW n \in Attempts, AttemptStep(n) \/ LoseConnection(n)
      PROVE  Moves(load[l], load'[l])
  BY <1>2, <1>8 DEF AttemptStep, Reconcile, AttemptRead, Reconciled, Refreshed,
                    AttemptReadFails, LoseConnection
<1>9. CASE UNCHANGED vars
  BY <1>2, <1>9 DEF vars
<1> QED
  BY <1>3, <1>4, <1>5, <1>6, <1>7, <1>8, <1>9 DEF Next, UserStep, Rest

LEMMA AttemptMoves ==
    ASSUME StoreAssumption, ServerOK, AttemptsOK, Begun, [Next]_vars, NEW m \in Attempts
    PROVE  Moves(attempt[m].read, attempt'[m].read)
<1>1. CASE attempt'[m].read = attempt[m].read
  BY <1>1 DEF Moves
<1>2. CASE attempt'[m].read = NoRead
  BY <1>2 DEF Moves
<1>3. CASE SendMessage \/ ResumeTurn
  <2>1. PICK n \in Attempts, t \in Turns : StartAttempt(n, t)
    BY <1>3, Numbers DEF SendMessage, ResumeTurn
  <2>2. attempt'[m] = IF m = n THEN Fresh("open") ELSE attempt[m]
    BY <2>1 DEF StartAttempt, AttemptsOK
  <2> QED
    BY <1>1, <1>2, <2>2, FreshTyped DEF Pcs
<1>4. CASE StopChat \/ CreateConversation \/ SelectConversation
  <2>1. attempt' \in {attempt, Aborted}
    BY <1>4 DEF StopChat, CreateConversation, SelectConversation, Leaving
  <2> QED
    BY <1>1, <2>1, AbortedTyped
<1>5. CASE Reload
  BY <1>2, <1>5, FreshTyped DEF Reload, Pcs
<1>6. CASE RefreshConversation \/ \E l \in Loads : LoadStep(l)
  BY <1>1, <1>6 DEF RefreshConversation, LoadStep, LoadRead, LoadAnswered, LoadFails
<1>7. ASSUME NEW n \in Attempts, EndAttempt(n) \/ TryAgain(n)
      PROVE  Moves(attempt[m].read, attempt'[m].read)
  BY <1>1, <1>2, <1>7, EndTyped, AgainTyped
<1>8. ASSUME NEW n \in Attempts, Reject(n) PROVE Moves(attempt[m].read, attempt'[m].read)
  <2>1. conv[n] \in Conversations
    BY <1>8 DEF Reject, Served, Begun
  <2>2. CASE attempt' = [attempt EXCEPT ![n].pc = "refresh", ![n].read = ReadRegistry(conv[n])]
    BY <1>1, <2>1, <2>2 DEF AttemptsOK, AttemptStates, Moves
  <2> QED
    BY <1>1, <1>7, <1>8, <2>2 DEF Reject
<1>9. ASSUME NEW n \in Attempts, Close(n) \/ LoseConnection(n)
      PROVE  Moves(attempt[m].read, attempt'[m].read)
  <2>1. attempt' = Goto(n, "wait") \/ UNCHANGED attempt
    BY <1>9, Zenon DEF Close, LoseConnection
  <2>2. attempt' = Goto(n, "wait") => attempt'[m].read = attempt[m].read
    <3>1. Goto(n, "wait")[n].read = attempt[n].read
      BY GotoTyped DEF Pcs
    <3>2. m # n => Goto(n, "wait")[m] = attempt[m]
      BY GotoTyped DEF Pcs
    <3> QED
      BY <3>1, <3>2
  <2> QED
    BY <1>1, <2>1, <2>2
<1>10. ASSUME NEW n \in Attempts,
              Admit(n) \/ Save(n) \/ Token(n) \/ Done(n) \/ Fail(n) \/ Disconnect(n)
       PROVE  Moves(attempt[m].read, attempt'[m].read)
  BY <1>1, <1>10 DEF Admit, Save, Token, Done, Fail, LastEvent, Disconnect
<1>11. ASSUME NEW n \in Attempts, Reconcile(n) PROVE Moves(attempt[m].read, attempt'[m].read)
  <2>1. conv[n] \in Conversations
    BY <1>11 DEF Reconcile, Begun
  <2>2. CASE attempt' = [attempt EXCEPT ![n].pc = "reconcile", ![n].tries = @ + 1,
                                        ![n].read = ReadRegistry(conv[n])]
    BY <1>1, <2>1, <2>2 DEF AttemptsOK, AttemptStates, Moves
  <2> QED
    BY <1>7, <1>11, <2>2 DEF Reconcile
<1>12. ASSUME NEW n \in Attempts, AttemptRead(n) PROVE Moves(attempt[m].read, attempt'[m].read)
  <2>1. attempt' = [attempt EXCEPT ![n].read = ReadValues(@)] /\ attempt[n].read.pc = "registry"
    BY <1>12 DEF AttemptRead
  <2>2. CASE m = n
    BY <2>1, <2>2 DEF AttemptsOK, AttemptStates, Moves
  <2>3. CASE m # n
    BY <1>1, <2>1, <2>3 DEF AttemptsOK
  <2> QED
    BY <2>2, <2>3
<1>13. ASSUME NEW n \in Attempts, Reconciled(n) \/ Refreshed(n) \/ AttemptReadFails(n)
       PROVE  Moves(attempt[m].read, attempt'[m].read)
  BY <1>7, <1>13 DEF Reconciled, Refreshed, AttemptReadFails
<1>14. CASE UNCHANGED vars
  BY <1>1, <1>14 DEF vars
<1> QED
  BY <1>3, <1>4, <1>5, <1>6, <1>8, <1>9, <1>10, <1>11, <1>12, <1>13, <1>14
     DEF Next, UserStep, RunStep, AttemptStep, Rest

LEMMA ReadsStep ==
    ASSUME StoreAssumption, ServerOK, PlacesOK, AttemptsOK, LoadsOK, Begun, RunsBelong,
           ReadsBelong, [Next]_vars
    PROVE  ReadsBelong'
<1>1. ASSUME NEW old \in Reads, ReadBelongs(old, conv), NEW new, Moves(old, new)
      PROVE  ReadBelongs(new, conv)
  BY <1>1, EmptyBelongs, RegistryBelongs, ValuesBelong DEF Moves
<1>2. ASSUME NEW r, ReadBelongs(r, conv) PROVE ReadBelongs(r, conv')
  BY <1>2, ReadKept, Frozen, Numbers
<1>3. ASSUME NEW l \in Loads PROVE ReadBelongs(load'[l], conv')
  <2>1. load[l] \in Reads /\ ReadBelongs(load[l], conv) /\ Moves(load[l], load'[l])
    BY LoadMoves DEF LoadsOK, ReadsBelong
  <2> QED
    BY <1>1, <1>2, <2>1
<1>4. ASSUME NEW n \in Attempts PROVE ReadBelongs(attempt'[n].read, conv')
  <2>1. /\ attempt[n].read \in Reads /\ ReadBelongs(attempt[n].read, conv)
        /\ Moves(attempt[n].read, attempt'[n].read)
    BY AttemptMoves DEF AttemptsOK, AttemptStates, ReadsBelong
  <2> QED
    BY <1>1, <1>2, <2>1
<1> QED
  BY <1>3, <1>4 DEF ReadsBelong

----------------------------------------------------------------------------
(* What is shown.                                                           *)

LEMMA BelongsKept ==
    ASSUME StoreAssumption, ServerOK, PlacesOK, Begun, ShownBelongs, [Next]_vars,
           UNCHANGED current, loaded' => loaded,
           \A t \in Turns : shown'[t] # "none" => shown[t] # "none"
    PROVE  ShownBelongs'
<1>1. current \in Conversations
  BY DEF PlacesOK, Conversations, StoreAssumption
<1> QED
  BY <1>1, Frozen, Numbers DEF ShownBelongs

LEMMA ApplyBelongs ==
    ASSUME StoreAssumption, Turns = Attempts, NEW read, ReadBelongs(read, conv), Wanted(read),
           NEW active, ApplyHistory(read, active), UNCHANGED <<conv, current>>
    PROVE  ShownBelongs'
<1>1. ASSUME NEW t \in Turns, shown'[t] # "none" PROVE conv[t] = current
  <2>1. t \in read.answers \/ t = read.active \/ t = read.resumable
    BY <1>1 DEF ApplyHistory, Listed
  <2> QED
    BY <2>1 DEF ReadBelongs, Wanted
<1> QED
  BY <1>1 DEF ShownBelongs

LEMMA MarkedShows ==
    ASSUME MessagesOK, NEW t, NEW s, shown' = Marked(t, s)
    PROVE  \A u \in Turns : shown'[u] # "none" => shown[u] # "none"
BY DEF Marked, MessagesOK

LEMMA NewBelongs ==
    ASSUME NewConversation
    PROVE  ShownBelongs'
BY DEF NewConversation, ShownBelongs, NothingShown

LEMMA ShownBelongsStep ==
    ASSUME StoreAssumption, ServerOK, PlacesOK, MessagesOK, Begun, ReadsBelong,
           ShownBelongs, [Next]_vars
    PROVE  ShownBelongs'
<1>1. CASE UNCHANGED <<current, shown, loaded>>
  BY <1>1, BelongsKept
<1>2. ASSUME NEW n \in Attempts, NEW t \in Turns, StartAttempt(n, t),
             loaded => conv'[t] = current
      PROVE  ShownBelongs'
  <2>1. /\ UNCHANGED <<current, loaded>>
        /\ \A u \in Turns \ {t} : shown'[u] = shown[u]
    BY <1>2 DEF StartAttempt, places, MessagesOK
  <2>2. current \in Conversations
    BY DEF PlacesOK, Conversations, StoreAssumption
  <2> QED
    BY <1>2, <2>1, <2>2, Frozen, Numbers DEF ShownBelongs
<1>3. CASE SendMessage
  <2>1. PICK n \in Attempts : StartAttempt(n, n)
    BY <1>3 DEF SendMessage
  <2>2. conv'[n] = current
    BY <2>1 DEF StartAttempt, ServerOK
  <2> QED
    BY <1>2, <2>1, <2>2, Numbers
<1>4. CASE ResumeTurn
  <2>1. PICK n \in Attempts, t \in Turns : StartAttempt(n, t) /\ shown[t] = "stopped"
    BY <1>4 DEF ResumeTurn
  <2>2. current \in Conversations
    BY DEF PlacesOK, Conversations, StoreAssumption
  <2>3. loaded => conv'[t] = current
    BY <2>1, <2>2, Frozen, Numbers DEF ShownBelongs
  <2> QED
    BY <1>2, <2>1, <2>3
<1>5. CASE StopChat
  <2>1. \A t \in Turns : shown'[t] # "none" => shown[t] # "none"
    BY <1>5 DEF StopChat, MessagesOK
  <2> QED
    BY <1>5, <2>1, BelongsKept DEF StopChat, places, history
<1>6. CASE CreateConversation
  BY <1>6, NewBelongs DEF CreateConversation
<1>7. CASE SelectConversation
  <2>1. CASE UNCHANGED <<current, shown, loaded>>
    BY <1>1, <2>1
  <2>2. CASE loaded' = FALSE
    BY <2>2 DEF ShownBelongs
  <2> QED
    BY <1>7, <2>1, <2>2 DEF SelectConversation
<1>8. CASE Reload
  BY <1>8 DEF Reload, ShownBelongs
<1>9. CASE RefreshConversation
  BY <1>1, <1>9 DEF RefreshConversation, client, places, messages, history
<1>10. ASSUME NEW l \in Loads, LoadStep(l) PROVE ShownBelongs'
  <2>1. UNCHANGED <<conv, current>>
    BY <1>10 DEF LoadStep, LoadRead, LoadAnswered, LoadFails, server, client, places
  <2>2. CASE Wanted(load[l]) /\ ApplyHistory(load[l], load[l].active)
    BY <2>1, <2>2, ApplyBelongs, Numbers DEF ReadsBelong
  <2>3. CASE UNCHANGED <<messages, history>>
    BY <1>1, <2>1, <2>3 DEF messages, history
  <2> QED
    BY <1>10, <2>2, <2>3 DEF LoadStep, LoadRead, LoadAnswered, LoadFails, client
<1>11. ASSUME NEW n \in Attempts, Admit(n) PROVE ShownBelongs'
  <2>1. UNCHANGED <<current, loaded>> /\ BindRun(n)
    BY <1>11 DEF Admit, places, history
  <2>2. \A t \in Turns : shown'[t] # "none" => shown[t] # "none"
    BY <2>1 DEF BindRun, messages, MessagesOK
  <2> QED
    BY <2>1, <2>2, BelongsKept
<1>12. ASSUME NEW n \in Attempts, Reject(n) PROVE ShownBelongs'
  <2>1. CASE RemoveConversation(conv[n])
    BY <1>1, <2>1, NewBelongs DEF RemoveConversation, messages
  <2>2. CASE UNCHANGED <<client, history>>
    BY <1>1, <2>2 DEF client, places, messages, history
  <2> QED
    BY <1>12, <2>1, <2>2 DEF Reject
<1>13. ASSUME NEW n \in Attempts, Token(n) PROVE ShownBelongs'
  <2>1. UNCHANGED <<current, loaded>>
    BY <1>13 DEF Token, places, history
  <2>2. shown' = Marked(turn[n], "streaming") \/ UNCHANGED shown
    BY <1>13 DEF Token, messages
  <2> QED
    BY <1>1, <2>1, <2>2, MarkedShows, BelongsKept
<1>14. ASSUME NEW n \in Attempts, Done(n) \/ Fail(n) \/ LoseConnection(n) PROVE ShownBelongs'
  <2>1. UNCHANGED <<current, loaded>>
    BY <1>14 DEF Done, Fail, LastEvent, LoseConnection, places, history
  <2>2. \/ UNCHANGED shown
        \/ shown' = Marked(turn[n], "done") \/ shown' = Marked(turn[n], "error")
    BY <1>14 DEF Done, Fail, LastEvent, LoseConnection
  <2> QED
    BY <1>1, <2>1, <2>2, MarkedShows, BelongsKept
<1>15. ASSUME NEW n \in Attempts, Save(n) \/ Close(n) \/ Disconnect(n) PROVE ShownBelongs'
  BY <1>1, <1>15 DEF Save, Close, Disconnect, client, places, messages, history
<1>16. ASSUME NEW n \in Attempts, Reconcile(n) \/ AttemptRead(n) \/ AttemptReadFails(n)
       PROVE  ShownBelongs'
  BY <1>1, <1>16 DEF Reconcile, AttemptRead, AttemptReadFails, client, places, messages, history
<1>17. ASSUME NEW n \in Attempts, Reconciled(n) \/ Refreshed(n) PROVE ShownBelongs'
  <2> DEFINE read == attempt[n].read
  <2>1. UNCHANGED <<conv, current>>
    BY <1>17 DEF Reconciled, Refreshed, server, places
  <2>2. CASE Wanted(read) /\ (ApplyHistory(read, read.active)
                              \/ ApplyHistory(read, Kept(read, turn[n])))
    BY <2>1, <2>2, ApplyBelongs, Numbers DEF ReadsBelong
  <2>3. CASE UNCHANGED <<messages, history>>
    BY <1>1, <2>1, <2>3 DEF messages, history
  <2> QED
    BY <1>17, <2>2, <2>3 DEF Reconciled, Refreshed
<1>18. CASE UNCHANGED vars
  BY <1>1, <1>18 DEF vars, client, places, messages, history
<1> QED
  BY <1>3, <1>4, <1>5, <1>6, <1>7, <1>8, <1>9, <1>10, <1>11, <1>12, <1>13, <1>14, <1>15, <1>16,
     <1>17, <1>18 DEF Next, UserStep, RunStep, AttemptStep, Rest

----------------------------------------------------------------------------
(* What is offered.                                                         *)

\* Attempts are made in conversations that were created.
Placed == \A n \in Attempts : served[n] # "unsent" => conv[n] \in 1..created

\* A history that is up to date stays so: nothing is under way in its conversation.
Rested ==
    loaded /\ ~uncertain =>
        /\ \A n \in Attempts : served[n] # "unsent" /\ conv[n] = current => served[n] = "ended"
        /\ resumable = Unfinished(current)
        /\ resumable # None => activeTurn = None /\ shown[resumable] = "stopped"

LEMMA PlacedStep ==
    ASSUME StoreAssumption, ServerOK, PlacesOK, Begun, Placed, [Next]_vars
    PROVE  Placed'
<1>1. created \in Nat /\ created' \in Nat /\ created <= created'
  <2>1. created \in Nat
    BY DEF PlacesOK, Conversations, StoreAssumption
  <2>2. ASSUME UserStep PROVE created' = created \/ created' = created + 1
    <3>1. CASE SendMessage \/ ResumeTurn
      <4>1. PICK n \in Attempts, t \in Turns : StartAttempt(n, t)
        BY <3>1, Numbers DEF SendMessage, ResumeTurn
      <4> QED
        BY <4>1 DEF StartAttempt, places
    <3>2. CASE StopChat \/ CreateConversation \/ SelectConversation
      BY <3>2 DEF StopChat, CreateConversation, NewConversation, SelectConversation, places
    <3>3. CASE RefreshConversation \/ Reload
      BY <3>3 DEF RefreshConversation, Reload, client, places
    <3> QED
      BY <2>2, <3>1, <3>2, <3>3 DEF UserStep
  <2>3. ASSUME NEW n \in Attempts, RunStep(n) \/ LoseConnection(n)
        PROVE  created' = created \/ created' = created + 1
    BY <2>3 DEF RunStep, Admit, Reject, RemoveConversation, NewConversation, Save, Token, Done,
                Fail, LastEvent, Close, Disconnect, LoseConnection, client, places
  <2>4. ASSUME NEW n \in Attempts, AttemptStep(n) PROVE created' = created
    BY <2>4 DEF AttemptStep, Reconcile, AttemptRead, Reconciled, Refreshed, AttemptReadFails,
                client, places
  <2>5. ASSUME NEW l \in Loads, LoadStep(l) PROVE created' = created
    BY <2>5 DEF LoadStep, LoadRead, LoadAnswered, LoadFails, client, places
  <2>6. ASSUME UNCHANGED vars PROVE created' = created
    BY <2>6 DEF vars, client, places
  <2>7. created' = created \/ created' = created + 1
    BY <2>2, <2>3, <2>4, <2>5, <2>6 DEF Next, Rest
  <2> QED
    BY <2>1, <2>7
<1>2. ASSUME NEW n \in Attempts, served[n] # "unsent" PROVE conv'[n] \in 1..created'
  BY <1>1, <1>2, Frozen DEF Placed
<1>3. CASE SendMessage \/ ResumeTurn
  <2>1. PICK n \in Attempts, t \in Turns : StartAttempt(n, t)
    BY <1>3, Numbers DEF SendMessage, ResumeTurn
  <2>2. conv'[n] = current /\ \A m \in Attempts \ {n} : served'[m] = served[m]
    BY <2>1 DEF StartAttempt, ServerOK
  <2>3. current \in 1..created'
    BY <1>1 DEF PlacesOK
  <2> QED
    BY <1>2, <2>2, <2>3 DEF Placed
<1>4. ASSUME \A n \in Attempts : served'[n] # "unsent" => served[n] # "unsent" PROVE Placed'
  BY <1>2, <1>4 DEF Placed
<1>5. ASSUME NEW n \in Attempts, RunStep(n) PROVE Placed'
  <2>1. \A m \in Attempts : served'[m] # "unsent" => served[m] # "unsent"
    BY <1>5 DEF RunStep, Admit, Reject, Save, Token, Done, Fail, LastEvent, Close, Disconnect,
                Served, ServerOK
  <2> QED
    BY <1>4, <2>1
<1>6. CASE StopChat \/ CreateConversation \/ SelectConversation \/ RefreshConversation \/ Reload
  BY <1>4, <1>6 DEF StopChat, CreateConversation, SelectConversation, RefreshConversation,
                    Reload, server
<1>7. ASSUME NEW l \in Loads, LoadStep(l) PROVE Placed'
  BY <1>4, <1>7 DEF LoadStep, LoadRead, LoadAnswered, LoadFails, server
<1>8. ASSUME NEW n \in Attempts, AttemptStep(n) \/ LoseConnection(n) PROVE Placed'
  BY <1>4, <1>8 DEF AttemptStep, Reconcile, AttemptRead, Reconciled, Refreshed,
                    AttemptReadFails, LoseConnection, server
<1>9. CASE UNCHANGED vars
  BY <1>4, <1>9 DEF vars, server
<1> QED
  BY <1>3, <1>5, <1>6, <1>7, <1>8, <1>9 DEF Next, UserStep, Rest

\* The same turns of the conversation are unfinished as before.
SameTurns ==
    {t \in asked' \ answered' : conv'[t] = current} = {t \in asked \ answered : conv[t] = current}

LEMMA RestedKept ==
    ASSUME Rested, SameTurns, UNCHANGED <<current, activeTurn, resumable>>,
           loaded' /\ ~uncertain' => loaded /\ ~uncertain,
           Rested /\ loaded /\ ~uncertain /\ resumable # None =>
               shown'[resumable] = shown[resumable],
           \A n \in Attempts :
               served'[n] # "unsent" /\ conv'[n] = current /\ loaded /\ ~uncertain =>
                   \/ served'[n] = "ended"
                   \/ served[n] \notin {"unsent", "ended"} /\ conv[n] = current
    PROVE  Rested'
<1> DEFINE Any(left) == IF left = {} THEN None ELSE CHOOSE t \in left : TRUE
<1>1. Unfinished(current) = Any({t \in asked \ answered : conv[t] = current})
  BY Zenon DEF Unfinished
<1>2. Unfinished(current)' = Any({t \in asked' \ answered' : conv'[t] = current'})
  BY Zenon DEF Unfinished
<1> HIDE DEF Any
<1>3. Unfinished(current)' = Unfinished(current)
  BY <1>1, <1>2 DEF SameTurns
<1> QED
  BY <1>3 DEF Rested

\* When the server, and what is shown, are as before.
LEMMA RestedSame ==
    ASSUME Rested, UNCHANGED <<conv, asked, answered, current, activeTurn, resumable, shown, loaded>>,
           uncertain => uncertain',
           \A n \in Attempts : served'[n] \in {served[n], "ended"}
    PROVE  Rested'
<1>1. SameTurns
  BY DEF SameTurns
<1>2. \A n \in Attempts :
          served'[n] # "unsent" /\ conv'[n] = current /\ loaded /\ ~uncertain => served'[n] = "ended"
  BY DEF Rested
<1> QED
  BY <1>1, <1>2, RestedKept

LEMMA RestedNew ==
    ASSUME StoreAssumption, ServerOK, PlacesOK, Begun, Placed, NewConversation,
           UNCHANGED <<conv, asked, answered>>,
           \A n \in Attempts : served[n] = "unsent" => served'[n] = "unsent"
    PROVE  Rested'
<1>1. current' = created + 1 /\ current' # None
  BY DEF NewConversation, PlacesOK, Conversations, StoreAssumption, None
<1>2. \A t \in Attempts : conv[t] # current'
  <2>1. created \in Nat
    BY DEF PlacesOK, Conversations, StoreAssumption
  <2>2. ASSUME NEW t \in Attempts, served[t] # "unsent" PROVE conv[t] # current'
    BY <1>1, <2>1, <2>2 DEF Placed
  <2>3. ASSUME NEW t \in Attempts, served[t] = "unsent" PROVE conv[t] # current'
    BY <1>1, <2>3 DEF Begun
  <2> QED
    BY <2>2, <2>3
<1>3. {t \in asked' \ answered' : conv'[t] = current'} = {}
  BY <1>2, Numbers DEF ServerOK
<1>4. Unfinished(current)' = None
  BY <1>3, Zenon DEF Unfinished
<1>5. resumable' = None
  BY DEF NewConversation
<1> QED
  BY <1>2, <1>4, <1>5 DEF Rested

LEMMA RestedApply ==
    ASSUME StoreAssumption, ServerOK, NEW read, ReadBelongs(read, conv), Wanted(read),
           NEW active, active \in {read.active, None}, ApplyHistory(read, active),
           read.resumable \in Turns \union {None}, UNCHANGED <<server, current>>
    PROVE  Rested'
<1>1. /\ resumable' = read.resumable /\ activeTurn' = active /\ uncertain' = Outdated(read)
      /\ shown' = Listed(read) /\ read.conv = current
  BY DEF ApplyHistory, Wanted
<1>2. ASSUME ~uncertain' PROVE read.resumable = Unfinished(current)
  BY <1>1, <1>2 DEF Outdated
<1>3. ASSUME ~uncertain', NEW n \in Attempts, served[n] # "unsent", conv[n] = current
      PROVE  served[n] = "ended"
  BY <1>1, <1>3 DEF Outdated, Sent
<1>4. ASSUME read.resumable # None
      PROVE  activeTurn' = None /\ shown'[resumable'] = "stopped"
  <2>1. read.resumable \notin read.answers /\ read.active = None /\ read.resumable \in Turns
    BY <1>4 DEF ReadBelongs
  <2> QED
    BY <1>1, <1>4, <2>1 DEF Listed
<1>5. Unfinished(current)' = Unfinished(current)
  BY DEF Unfinished, server
<1> QED
  BY <1>1, <1>2, <1>3, <1>4, <1>5 DEF Rested, server

LEMMA RestedStep ==
    ASSUME StoreAssumption, ServerOK, PlacesOK, MessagesOK, AttemptsOK, LoadsOK, Begun, Placed,
           RunsBelong, ReadsBelong, Rested, [Next]_vars
    PROVE  Rested'
<1>1. CASE UNCHANGED server /\ UNCHANGED <<current, activeTurn, resumable, shown, loaded, uncertain>>
  BY <1>1, RestedSame DEF server
<1>2. CASE SendMessage \/ ResumeTurn \/ Reload
  BY <1>2 DEF SendMessage, ResumeTurn, StartAttempt, Reload, Rested
<1>3. CASE StopChat
  <2>1. UNCHANGED <<server, current, activeTurn, resumable, loaded, uncertain>>
        /\ activeTurn # None
    BY <1>3 DEF StopChat, places, turns, history
  <2>2. SameTurns
    BY <2>1 DEF SameTurns, server
  <2>3. ~(loaded /\ ~uncertain /\ resumable # None)
    BY <2>1 DEF Rested
  <2>4. \A n \in Attempts : served'[n] # "unsent" /\ conv'[n] = current /\ loaded /\ ~uncertain =>
            served'[n] = "ended"
    BY <2>1 DEF Rested, server
  <2> QED
    BY <2>1, <2>2, <2>3, <2>4, RestedKept
<1>4. CASE CreateConversation
  <2>1. UNCHANGED <<conv, asked, answered, served>> /\ NewConversation
    BY <1>4 DEF CreateConversation, server
  <2> QED
    BY <2>1, RestedNew
<1>5. CASE SelectConversation
  <2>1. CASE loaded' = FALSE
    BY <2>1 DEF Rested
  <2>2. CASE loaded' # FALSE
    BY <1>1, <1>5, <2>2 DEF SelectConversation
  <2> QED
    BY <2>1, <2>2
<1>6. CASE RefreshConversation
  BY <1>1, <1>6 DEF RefreshConversation, client, places, messages, turns, history
<1>7. ASSUME NEW l \in Loads, LoadStep(l) PROVE Rested'
  <2>1. UNCHANGED <<server, current>>
    BY <1>7 DEF LoadStep, LoadRead, LoadAnswered, LoadFails, client, places
  <2>2. CASE Wanted(load[l]) /\ ApplyHistory(load[l], load[l].active)
    <3>1. load[l].resumable \in Turns \union {None}
      BY DEF LoadsOK, Reads
    <3> QED
      BY <2>1, <2>2, <3>1, RestedApply DEF ReadsBelong
  <2>3. CASE UNCHANGED <<messages, turns, history>>
    BY <1>1, <2>1, <2>3 DEF messages, turns, history
  <2> QED
    BY <1>7, <2>2, <2>3 DEF LoadStep, LoadRead, LoadAnswered, LoadFails, client
<1>8. ASSUME NEW n \in Attempts, Admit(n) PROVE Rested'
  <2>1. /\ served[n] = "asked" /\ \A m \in Attempts \ {n} : served'[m] = served[m]
        /\ UNCHANGED <<conv, asked, answered, current, activeTurn, resumable, loaded, uncertain>>
        /\ BindRun(n)
    BY <1>8 DEF Admit, Served, ServerOK, places, history
  <2>2. loaded /\ ~uncertain => conv[n] # current
    BY <2>1 DEF Rested
  <2>3. conv[n] # current => UNCHANGED shown
    BY <2>1 DEF BindRun, messages
  <2>4. SameTurns
    BY <2>1 DEF SameTurns
  <2>5. \A m \in Attempts : served'[m] # "unsent" /\ conv'[m] = current /\ loaded /\ ~uncertain =>
            served'[m] = "ended"
    BY <2>1, <2>2 DEF Rested
  <2> QED
    BY <2>1, <2>2, <2>3, <2>4, <2>5, RestedKept
<1>9. ASSUME NEW n \in Attempts, Reject(n) PROVE Rested'
  <2>1. /\ UNCHANGED <<conv, asked, answered>> /\ served[n] = "asked"
        /\ \A m \in Attempts : served'[m] = IF m = n THEN "ended" ELSE served[m]
    BY <1>9 DEF Reject, Served, ServerOK
  <2>2. CASE NewConversation
    BY <2>1, <2>2, RestedNew
  <2>3. CASE UNCHANGED <<current, messages, turns, loaded, uncertain>>
    BY <2>1, <2>3, RestedSame DEF messages, turns
  <2> QED
    BY <1>9, <2>2, <2>3 DEF Reject, RemoveConversation, client, places, history
<1>10. ASSUME NEW n \in Attempts, Save(n) PROVE Rested'
  <2>1. /\ served[n] = "started" /\ served'[n] # "ended"
        /\ \A m \in Attempts \ {n} : served'[m] = served[m]
        /\ UNCHANGED <<conv, current, activeTurn, resumable, shown, loaded, uncertain>>
        /\ \A t \in Attempts : t # turn[n] => (t \in asked' \ answered' <=> t \in asked \ answered)
        /\ asked' \ answered' \subseteq Attempts
    BY <1>10, Numbers DEF Save, Served, ServerOK, Begun, client, places, messages, turns, history
  <2>2. loaded /\ ~uncertain => conv[n] # current
    BY <2>1 DEF Rested
  <2>3. conv[turn[n]] = conv[n]
    BY <2>1 DEF RunsBelong, Running
  <2>4. CASE ~(loaded /\ ~uncertain)
    BY <2>1, <2>4 DEF Rested
  <2>5. CASE loaded /\ ~uncertain
    <3>1. SameTurns
      BY <2>1, <2>2, <2>3, <2>5, Numbers DEF SameTurns, ServerOK
    <3>2. \A m \in Attempts : served'[m] # "unsent" /\ conv'[m] = current => served'[m] = "ended"
      BY <2>1, <2>2, <2>5 DEF Rested
    <3> QED
      BY <2>1, <3>1, <3>2, RestedKept
  <2> QED
    BY <2>4, <2>5
<1>11. ASSUME NEW n \in Attempts, Token(n) \/ Done(n) \/ Fail(n) PROVE Rested'
  <2>1. /\ served[n] \in {"started", "answered"}
        /\ \A m \in Attempts \ {n} : served'[m] = served[m]
        /\ UNCHANGED <<conv, asked, answered, current, activeTurn, resumable, loaded, uncertain>>
        /\ Hears(n) \/ UNCHANGED shown
    BY <1>11 DEF Token, Done, Fail, LastEvent, Served, ServerOK, places, messages, turns, history
  <2>2. loaded /\ ~uncertain => conv[n] # current
    BY <2>1 DEF Rested
  <2>3. conv[n] # current => UNCHANGED shown
    BY <2>1 DEF Hears
  <2>4. SameTurns
    BY <2>1 DEF SameTurns
  <2>5. \A m \in Attempts : served'[m] # "unsent" /\ conv'[m] = current /\ loaded /\ ~uncertain =>
            served'[m] = "ended"
    BY <2>1, <2>2 DEF Rested
  <2> QED
    BY <2>1, <2>2, <2>3, <2>4, <2>5, RestedKept
<1>12. ASSUME NEW n \in Attempts, Close(n) \/ Disconnect(n) PROVE Rested'
  <2>1. /\ UNCHANGED <<conv, asked, answered, client, history>>
        /\ \A m \in Attempts : served'[m] \in {served[m], "ended"}
    BY <1>12 DEF Close, Disconnect, Served, ServerOK
  <2> QED
    BY <2>1, RestedSame DEF client, places, messages, turns, history
<1>13. ASSUME NEW n \in Attempts, LoseConnection(n) PROVE Rested'
  BY <1>13 DEF LoseConnection, Rested
<1>14. ASSUME NEW n \in Attempts, Reconcile(n) \/ AttemptRead(n) \/ AttemptReadFails(n)
       PROVE  Rested'
  BY <1>1, <1>14 DEF Reconcile, AttemptRead, AttemptReadFails, client, places, messages, turns,
                     history
<1>15. ASSUME NEW n \in Attempts, Reconciled(n) \/ Refreshed(n) PROVE Rested'
  <2> DEFINE read == attempt[n].read
  <2>1. UNCHANGED <<server, current>>
    BY <1>15 DEF Reconciled, Refreshed, places
  <2>2. read.resumable \in Turns \union {None} /\ ReadBelongs(read, conv)
    BY DEF AttemptsOK, AttemptStates, Reads, ReadsBelong
  <2>3. Kept(read, turn[n]) \in {read.active, None}
    BY DEF Kept
  <2>4. CASE Wanted(read) /\ (ApplyHistory(read, read.active)
                              \/ ApplyHistory(read, Kept(read, turn[n])))
    BY <2>1, <2>2, <2>3, <2>4, RestedApply
  <2>5. CASE UNCHANGED <<messages, turns, history>>
    BY <1>1, <2>1, <2>5 DEF messages, turns, history
  <2> QED
    BY <1>15, <2>4, <2>5 DEF Reconciled, Refreshed
<1>16. CASE UNCHANGED vars
  BY <1>1, <1>16 DEF vars, client, places, messages, turns, history
<1> QED
  BY <1>2, <1>3, <1>4, <1>5, <1>6, <1>7, <1>8, <1>9, <1>10, <1>11, <1>12, <1>13, <1>14, <1>15,
     <1>16 DEF Next, UserStep, RunStep, AttemptStep, Rest

----------------------------------------------------------------------------
(* What is written.                                                         *)

\* The beginnings of an answer.
Beginning(s) == s \in Seq(Nat) /\ Len(s) <= Tokens /\ \A i \in 1..Len(s) : s[i] = i

Texts ==
    \A t \in Turns \ disturbed :
        Beginning(text[t]) /\ (shown[t] = "done" => text[t] = Whole)

\* A run sends while its answer is saved and it is not closed.
Silent == \A n \in Attempts : served[n] \notin {"answered", "closing"} => sent[n] = 0

\* The run that is heard has written what it sent.
Tracks ==
    \A n \in Attempts :
        /\ served[n] \in {"started", "answered"} /\ Hears(n)
        /\ shown[turn[n]] # "none" /\ turn[n] \notin disturbed
        => Len(text[turn[n]]) = sent[n]

LEMMA WholeBegins == StoreAssumption => Beginning(Whole) /\ Beginning(<< >>)
<1> SUFFICES ASSUME StoreAssumption PROVE Beginning(Whole) /\ Beginning(<< >>)
  OBVIOUS
<1>1. Whole \in [1..Tokens -> Nat] /\ Tokens \in Nat
  BY DEF Whole, StoreAssumption
<1>2. Whole \in Seq(Nat) /\ Len(Whole) = Tokens
  BY <1>1
<1> QED
  BY <1>1, <1>2 DEF Beginning, Whole

LEMMA NextBegins ==
    ASSUME NEW s, Beginning(s), NEW k, k = Len(s), k < Tokens, Tokens \in Nat
    PROVE  Beginning(Append(s, k + 1)) /\ Len(Append(s, k + 1)) = k + 1
BY DEF Beginning

LEMMA AllBegun ==
    ASSUME NEW s, Beginning(s), Len(s) = Tokens
    PROVE  s = Whole
<1>1. s = [i \in 1..Len(s) |-> s[i]]
  BY DEF Beginning
<1> QED
  BY <1>1 DEF Beginning, Whole

LEMMA SilentStep ==
    ASSUME StoreAssumption, ServerOK, Silent, [Next]_vars
    PROVE  Silent'
<1>1. CASE UNCHANGED <<served, sent>>
  BY <1>1 DEF Silent
<1>2. CASE SendMessage \/ ResumeTurn
  <2>1. PICK n \in Attempts, t \in Turns : NextAttempt(n) /\ StartAttempt(n, t)
    BY <1>2, Numbers DEF SendMessage, ResumeTurn
  <2>2. served[n] = "unsent"
    <3>1. n \notin 1..(n - 1)
      BY DEF Attempts
    <3> QED
      BY <2>1, <3>1 DEF NextAttempt, Sent
  <2> QED
    BY <2>1, <2>2 DEF StartAttempt, ServerOK, Silent
<1>3. ASSUME NEW n \in Attempts, RunStep(n) PROVE Silent'
  <2>1. CASE Admit(n) \/ Reject(n) \/ Save(n) \/ Done(n) \/ Fail(n)
    BY <2>1 DEF Admit, Reject, Save, Done, Fail, LastEvent, Served, ServerOK, Silent
  <2>2. CASE Token(n)
    BY <2>2 DEF Token, ServerOK, Silent
  <2>3. CASE Close(n) \/ Disconnect(n)
    BY <2>3 DEF Close, Disconnect, Release, Served, ServerOK, Silent
  <2> QED
    BY <1>3, <2>1, <2>2, <2>3 DEF RunStep
<1>4. CASE StopChat \/ CreateConversation \/ SelectConversation \/ RefreshConversation \/ Reload
  BY <1>1, <1>4 DEF StopChat, CreateConversation, SelectConversation, RefreshConversation,
                    Reload, server
<1>5. ASSUME NEW l \in Loads, LoadStep(l) PROVE Silent'
  BY <1>1, <1>5 DEF LoadStep, LoadRead, LoadAnswered, LoadFails, server
<1>6. ASSUME NEW n \in Attempts, AttemptStep(n) \/ LoseConnection(n) PROVE Silent'
  BY <1>1, <1>6 DEF AttemptStep, Reconcile, AttemptRead, Reconciled, Refreshed,
                    AttemptReadFails, LoseConnection, server
<1>7. CASE UNCHANGED vars
  BY <1>1, <1>7 DEF vars, server
<1> QED
  BY <1>2, <1>3, <1>4, <1>5, <1>6, <1>7 DEF Next, UserStep, Rest

\* When nothing is written.
LEMMA TextKept ==
    ASSUME Texts, Tracks, UNCHANGED <<turn, conv, current, activeTurn, text, disturbed>>,
           activeRun' \in {activeRun, None}, None \notin Attempts, Open' \subseteq Open,
           \A t \in Turns : shown'[t] = "done" => shown[t] = "done",
           \A t \in Turns : shown'[t] # "none" => shown[t] # "none",
           \A n \in Attempts : turn[n] \in Turns \/ n \notin Open,
           \A n \in Attempts : served'[n] \in {"started", "answered"} /\ n \in Open /\ activeRun = n =>
               served[n] \in {"started", "answered"} /\ sent'[n] = sent[n]
    PROVE  Texts' /\ Tracks'
<1>1. Texts'
  BY DEF Texts
<1>2. ASSUME NEW n \in Attempts, served'[n] \in {"started", "answered"}, Hears(n)',
             shown'[turn'[n]] # "none", turn'[n] \notin disturbed'
      PROVE  Len(text'[turn'[n]]) = sent'[n]
  <2>1. Hears(n) /\ activeRun = n /\ n \in Open
    BY <1>2 DEF Hears
  <2> QED
    BY <1>2, <2>1 DEF Tracks
<1> QED
  BY <1>1, <1>2 DEF Tracks

\* When no run is heard.
LEMMA TextUnheard ==
    ASSUME Texts, activeRun' = None, None \notin Attempts, UNCHANGED disturbed,
           text' = text \/ (\A t \in Turns : text'[t] = << >>), Beginning(<< >>),
           \A t \in Turns : shown'[t] = "done" => shown[t] = "done" /\ text'[t] = text[t]
    PROVE  Texts' /\ Tracks'
<1>1. Texts'
  BY DEF Texts
<1>2. Tracks'
  BY DEF Tracks, Hears
<1> QED
  BY <1>1, <1>2

LEMMA TextApplied ==
    ASSUME StoreAssumption, NEW read, NEW active, ApplyHistory(read, active), Begun,
           UNCHANGED <<turn, conv>>, Open' \subseteq Open
    PROVE  Texts' /\ Tracks'
<1>1. ASSUME NEW t \in Turns
      PROVE  /\ text'[t] = IF t \in read.answers THEN Whole ELSE << >>
             /\ shown'[t] = "done" => t \in read.answers
  BY DEF ApplyHistory, Listed
<1>2. Texts'
  BY <1>1, WholeBegins DEF Texts
<1>3. ASSUME NEW n \in Attempts, Hears(n)' PROVE turn'[n] \in disturbed'
  <2>1. n \in Open /\ turn[n] = active
    BY <1>3 DEF Hears, ApplyHistory
  <2> QED
    BY <2>1 DEF ApplyHistory
<1> QED
  BY <1>2, <1>3 DEF Tracks

LEMMA TextStep ==
    ASSUME StoreAssumption, ServerOK, MessagesOK, AttemptsOK, Begun, Silent, Texts, Tracks,
           [Next]_vars
    PROVE  Texts' /\ Tracks'
<1> USE Numbers
<1>1. \A n \in Open : turn[n] \in Turns
  BY DEF Open, Begun
<1>2. CASE UNCHANGED <<server, client, history>> /\ Open' \subseteq Open
  BY <1>1, <1>2, TextKept DEF server, client, places, messages, turns, history
<1>3. CASE SendMessage \/ ResumeTurn
  <2>1. PICK n \in Attempts, t \in Turns : StartAttempt(n, t)
    BY <1>3 DEF SendMessage, ResumeTurn
  <2>2. \A u \in Turns : shown'[u] = "done" => shown[u] = "done"
    BY <2>1 DEF StartAttempt, MessagesOK
  <2> QED
    BY <2>1, <2>2, TextUnheard, WholeBegins DEF StartAttempt
<1>4. CASE StopChat
  <2>1. /\ UNCHANGED <<server, current, activeTurn, activeRun, text, disturbed>>
        /\ attempt' = Aborted
    BY <1>4 DEF StopChat, places, turns, history
  <2>2. Open' \subseteq Open
    BY <2>1, AbortedTyped DEF Open
  <2>3. \A t \in Turns : /\ shown'[t] = "done" => shown[t] = "done"
                         /\ shown'[t] # "none" => shown[t] # "none"
    BY <1>4 DEF StopChat, MessagesOK
  <2> QED
    BY <1>1, <2>1, <2>2, <2>3, TextKept DEF server
<1>5. ASSUME NewConversation, UNCHANGED disturbed PROVE Texts' /\ Tracks'
  <2>1. \A t \in Turns : text'[t] = << >> /\ shown'[t] = "none"
    BY <1>5 DEF NewConversation, NoText, NothingShown
  <2> QED
    BY <1>5, <2>1, TextUnheard, WholeBegins DEF NewConversation
<1>6. CASE CreateConversation
  BY <1>5, <1>6 DEF CreateConversation
<1>7. CASE SelectConversation
  <2>1. \A t \in Turns : shown'[t] = "done" => shown[t] = "done"
    BY <1>7 DEF SelectConversation, MessagesOK
  <2> QED
    BY <1>7, <2>1, TextUnheard, WholeBegins DEF SelectConversation
<1>8. CASE Reload
  <2>1. \A t \in Turns : text'[t] = << >> /\ shown'[t] = "none"
    BY <1>8 DEF Reload, NoText, NothingShown
  <2>2. activeRun' = None
    BY <1>8 DEF Reload
  <2> QED
    BY <2>1, <2>2, WholeBegins DEF Texts, Tracks, Hears
<1>9. CASE RefreshConversation
  BY <1>2, <1>9 DEF RefreshConversation, Open
<1>10. ASSUME NEW l \in Loads, LoadStep(l) PROVE Texts' /\ Tracks'
  <2>1. UNCHANGED <<server, places, streaming, controller, attempt>>
    BY <1>10 DEF LoadStep, LoadRead, LoadAnswered, LoadFails, client
  <2>2. CASE ApplyHistory(load[l], load[l].active)
    BY <2>1, <2>2, TextApplied DEF Open, server
  <2>3. CASE UNCHANGED <<messages, turns, history>>
    BY <1>2, <2>1, <2>3 DEF client, Open
  <2> QED
    BY <1>10, <2>2, <2>3 DEF LoadStep, LoadRead, LoadAnswered, LoadFails, client
<1>11. ASSUME NEW n \in Attempts, Admit(n) PROVE Texts' /\ Tracks'
  <2>1. /\ served[n] = "asked" /\ sent[n] = 0 /\ UNCHANGED sent
        /\ \A m \in Attempts \ {n} : served'[m] = served[m]
        /\ UNCHANGED <<turn, conv, current, activeTurn, attempt, disturbed>>
        /\ BindRun(n)
    BY <1>11 DEF Admit, Served, ServerOK, Silent, places, history
  <2>2. CASE activeRun' = n /\ shown' = [shown EXCEPT ![turn[n]] = "streaming"]
             /\ text' = [text EXCEPT ![turn[n]] = << >>]
    <3>1. Texts'
      BY <2>1, <2>2, WholeBegins DEF Texts, MessagesOK
    <3>2. ASSUME NEW m \in Attempts, Hears(m)', m \in Open PROVE Len(text'[turn'[m]]) = sent'[m]
      BY <1>1, <2>1, <2>2, <3>2 DEF Hears, MessagesOK
    <3> QED
      BY <2>1, <3>1, <3>2 DEF Tracks, Hears, Open
  <2>3. CASE activeRun' = n /\ n \in Open /\ shown[turn[n]] = "none" /\ UNCHANGED messages
    BY <2>1, <2>3 DEF Texts, Tracks, Hears, messages
  <2>4. CASE n \notin Open \/ current # conv[n] \/ activeTurn # turn[n]
    <3>1. UNCHANGED <<activeRun, messages>>
      BY <2>1, <2>4 DEF BindRun
    <3>2. Texts'
      BY <2>1, <3>1 DEF Texts, messages
    <3>3. \A m \in Attempts : Hears(m)' => Hears(m) /\ m # n
      BY <2>1, <2>4, <3>1 DEF Hears, Open
    <3> QED
      BY <2>1, <3>1, <3>2, <3>3 DEF Tracks, messages
  <2> QED
    BY <2>1, <2>2, <2>3, <2>4 DEF BindRun
<1>12. ASSUME NEW n \in Attempts, Reject(n) PROVE Texts' /\ Tracks'
  <2>1. /\ served[n] = "asked" /\ served' = [served EXCEPT ![n] = "ended"]
        /\ UNCHANGED <<conv, turn, sent>>
    BY <1>12 DEF Reject, Served
  <2>2. Open' \subseteq Open
    BY <1>12, EndTyped DEF Reject, Open, AttemptsOK, AttemptStates
  <2>3. CASE NewConversation /\ UNCHANGED disturbed
    BY <1>5, <2>3
  <2>4. CASE UNCHANGED <<current, messages, activeTurn, activeRun, disturbed>>
    BY <1>1, <2>1, <2>2, <2>4, TextKept DEF ServerOK, messages
  <2> QED
    BY <1>12, <2>3, <2>4 DEF Reject, RemoveConversation, client, places, turns, history
<1>13. ASSUME NEW n \in Attempts, Save(n) PROVE Texts' /\ Tracks'
  <2>1. /\ UNCHANGED <<conv, turn, sent, client, attempt, history>>
        /\ served[n] = "started" /\ \A m \in Attempts \ {n} : served'[m] = served[m]
    BY <1>13 DEF Save, Served, ServerOK
  <2> QED
    BY <1>1, <2>1, TextKept DEF client, places, messages, turns, history, Open
<1>14. ASSUME NEW n \in Attempts, Token(n) PROVE Texts' /\ Tracks'
  <2>1. /\ served[n] = "answered" /\ sent[n] < Tokens /\ sent'[n] = sent[n] + 1
        /\ \A m \in Attempts \ {n} : sent'[m] = sent[m]
        /\ UNCHANGED <<conv, turn, served, current, activeTurn, activeRun, attempt, disturbed>>
    BY <1>14 DEF Token, ServerOK, places, turns, history
  <2>2. \A m \in Attempts : Hears(m)' <=> Hears(m)
    BY <2>1 DEF Hears, Open
  <2> DEFINE t == turn[n]
  <2>3. CASE Hears(n) /\ shown[t] # "none"
    <3>1. /\ t \in Turns
          /\ text' = [text EXCEPT ![t] = Append(text[t], sent[n] + 1)]
          /\ shown' = [shown EXCEPT ![t] = "streaming"]
      BY <1>1, <1>14, <2>3 DEF Token, Hears, Appended, Marked
    <3>2. t \notin disturbed => Beginning(text[t]) /\ Len(text[t]) = sent[n]
      BY <2>1, <2>3, <3>1 DEF Texts, Tracks
    <3>3. t \notin disturbed => Beginning(text'[t]) /\ Len(text'[t]) = sent'[n]
      BY <2>1, <3>1, <3>2, NextBegins DEF StoreAssumption, MessagesOK
    <3>4. Texts'
      BY <2>1, <3>1, <3>3 DEF Texts, MessagesOK
    <3>5. \A m \in Attempts : Hears(m) => m = n
      BY <2>3 DEF Hears
    <3> QED
      BY <2>1, <2>2, <3>3, <3>4, <3>5 DEF Tracks
  <2>4. CASE ~(Hears(n) /\ shown[t] # "none")
    <3>1. UNCHANGED <<text, shown>>
      BY <1>14, <2>4 DEF Token, messages
    <3>2. Texts'
      BY <2>1, <3>1 DEF Texts
    <3> QED
      BY <2>1, <2>2, <2>4, <3>1, <3>2 DEF Tracks
  <2> QED
    BY <2>3, <2>4
<1>15. ASSUME NEW n \in Attempts, Done(n) \/ Fail(n) PROVE Texts' /\ Tracks'
  <2>1. /\ served[n] \in {"started", "answered"} /\ served' = [served EXCEPT ![n] = "closing"]
        /\ UNCHANGED <<conv, turn, sent, current, activeTurn, activeRun, text, attempt, disturbed>>
    BY <1>15 DEF Done, Fail, LastEvent, Served, places, turns, history
  <2>2. \A u \in Turns : (shown'[u] # "none") <=> (shown[u] # "none")
    BY <1>15 DEF Done, Fail, LastEvent, Marked, MessagesOK
  <2>3. ASSUME NEW u \in Turns \ disturbed, shown'[u] = "done", shown[u] # "done"
        PROVE  text[u] = Whole
    <3>1. Done(n) /\ Hears(n) /\ u = turn[n] /\ shown[u] # "none"
      BY <1>15, <2>3 DEF Done, Fail, LastEvent, Marked, MessagesOK
    <3>2. Beginning(text[u]) /\ Len(text[u]) = Tokens
      BY <2>1, <2>3, <3>1 DEF Texts, Tracks, Done
    <3> QED
      BY <3>2, AllBegun
  <2>4. Texts'
    BY <2>1, <2>3 DEF Texts
  <2>5. \A m \in Attempts : Hears(m)' => Hears(m)
    BY <2>1 DEF Hears, Open
  <2> QED
    BY <1>1, <2>1, <2>2, <2>4, <2>5 DEF Tracks, Hears, ServerOK
<1>16. ASSUME NEW n \in Attempts, Close(n) \/ Disconnect(n) PROVE Texts' /\ Tracks'
  <2>1. /\ UNCHANGED <<conv, turn, client, history>>
        /\ served' = [served EXCEPT ![n] = "ended"] /\ sent' = [sent EXCEPT ![n] = 0]
        /\ (attempt' = Goto(n, "wait") \/ UNCHANGED attempt)
    BY <1>16, Zenon DEF Close, Disconnect, Served, Release
  <2>2. Open' \subseteq Open
    <3>1. CASE UNCHANGED attempt
      BY <3>1 DEF Open
    <3> QED
      BY <2>1, <3>1, NoneOpened
  <2>3. \A m \in Attempts : served'[m] \in {"started", "answered"} =>
                             served'[m] = served[m] /\ sent'[m] = sent[m]
    BY <2>1 DEF ServerOK
  <2> QED
    BY <1>1, <2>1, <2>2, <2>3, TextKept DEF client, places, messages, turns, history
<1>17. ASSUME NEW n \in Attempts, LoseConnection(n) PROVE Texts' /\ Tracks'
  <2>1. /\ UNCHANGED <<server, current, activeTurn, activeRun, text, disturbed>>
        /\ shown' = Marked(turn[n], "error") /\ attempt' = Goto(n, "wait")
    BY <1>17 DEF LoseConnection, places, turns
  <2>2. Open' \subseteq Open
    BY <2>1, NoneOpened
  <2>3. \A t \in Turns : /\ shown'[t] = "done" => shown[t] = "done"
                         /\ shown'[t] # "none" => shown[t] # "none"
    BY <2>1 DEF Marked, MessagesOK
  <2> QED
    BY <1>1, <2>1, <2>2, <2>3, TextKept DEF server
<1>18. ASSUME NEW n \in Attempts, AttemptStep(n), UNCHANGED <<messages, turns, history>>
       PROVE  Texts' /\ Tracks'
  <2>1. UNCHANGED <<server, places>>
    BY <1>18 DEF AttemptStep, Reconcile, AttemptRead, Reconciled, Refreshed, AttemptReadFails,
                 client
  <2>2. Open' \subseteq Open
    <3>1. CASE Reconcile(n) \/ AttemptRead(n)
      BY <3>1, NoneOpened
    <3>2. CASE Reconciled(n) \/ Refreshed(n) \/ AttemptReadFails(n)
      BY <3>2, EndTyped, AgainTyped DEF Reconciled, Refreshed, AttemptReadFails, Open
    <3> QED
      BY <1>18, <3>1, <3>2 DEF AttemptStep
  <2> QED
    BY <1>1, <1>18, <2>1, <2>2, TextKept DEF server, places, messages, turns, history
<1>19. ASSUME NEW n \in Attempts, Reconciled(n) \/ Refreshed(n),
              ~UNCHANGED <<messages, turns, history>>
       PROVE  Texts' /\ Tracks'
  <2>1. \/ ApplyHistory(attempt[n].read, attempt[n].read.active)
        \/ ApplyHistory(attempt[n].read, Kept(attempt[n].read, turn[n]))
    BY <1>19 DEF Reconciled, Refreshed
  <2>2. UNCHANGED server
    BY <1>19 DEF Reconciled, Refreshed
  <2>3. Open' \subseteq Open
    BY <1>19, EndTyped, AgainTyped DEF Reconciled, Refreshed, Open
  <2> QED
    BY <2>1, <2>2, <2>3, TextApplied DEF server
<1>20. ASSUME NEW n \in Attempts, AttemptStep(n) PROVE Texts' /\ Tracks'
  BY <1>18, <1>19, <1>20 DEF AttemptStep, Reconcile, AttemptRead, AttemptReadFails, client
<1>21. CASE UNCHANGED vars
  BY <1>2, <1>21 DEF vars, Open
<1> QED
  BY <1>3, <1>4, <1>6, <1>7, <1>8, <1>9, <1>10, <1>11, <1>12, <1>13, <1>14, <1>15, <1>16, <1>17,
     <1>20, <1>21 DEF Next, UserStep, RunStep, Rest

-----------------------------------------------------------------------------
(* The inductive invariant, and the theorems.                               *)

IInv ==
    /\ ServerOK
    /\ PlacesOK
    /\ MessagesOK
    /\ AttemptsOK
    /\ LoadsOK
    /\ Begun
    /\ CreatedBound
    /\ OneAttempt
    /\ AttemptShown
    /\ RunsBelong
    /\ ReadsBelong
    /\ ShownBelongs
    /\ Placed
    /\ Rested
    /\ Silent
    /\ Texts
    /\ Tracks

LEMMA InitIInv == StoreAssumption /\ Init => IInv
<1> SUFFICES ASSUME StoreAssumption, Init PROVE IInv
  OBVIOUS
<1>1. NoRead \in Reads /\ Fresh("none") \in AttemptStates
  BY NoReadTyped, FreshTyped DEF Pcs
<1>2. Fresh("none").pc = "none" /\ Fresh("none").read = NoRead
  BY DEF Fresh
<1>3. \A n \in Attempts : attempt[n].pc = "none" /\ attempt[n].read = NoRead /\ served[n] = "unsent"
  BY <1>2 DEF Init
<1>4. ServerOK
  BY Numbers DEF Init, ServerOK
<1>5. PlacesOK
  BY DEF Init, PlacesOK, Conversations, StoreAssumption
<1>6. MessagesOK
  BY DEF Init, MessagesOK, Statuses, NothingShown, NoText
<1>7. AttemptsOK
  BY <1>1 DEF Init, AttemptsOK
<1>8. LoadsOK
  BY <1>1, Numbers DEF Init, LoadsOK
<1>9. Begun
  BY <1>3 DEF Init, Begun
<1>10. CreatedBound
  BY EndedCounted, <1>4 DEF Init, CreatedBound, StoreAssumption
<1>11. OneAttempt
  BY <1>3 DEF Init, OneAttempt
<1>12. AttemptShown
  BY <1>3 DEF AttemptShown, Open
<1>13. RunsBelong
  BY <1>3 DEF Init, RunsBelong, Running
<1>14. ReadsBelong
  BY <1>3, EmptyBelongs DEF Init, ReadsBelong
<1>15. ShownBelongs
  BY DEF Init, ShownBelongs, NothingShown
<1>16. Placed
  BY <1>3 DEF Placed
<1>17. Rested
  <2>1. Unfinished(current) = None
    BY DEF Init, Unfinished
  <2> QED
    BY <1>3, <2>1 DEF Init, Rested
<1>18. Silent
  BY DEF Init, Silent
<1>19. Texts
  BY WholeBegins DEF Init, Texts, NoText, NothingShown
<1>20. Tracks
  BY <1>3 DEF Tracks
<1> QED
  BY <1>4, <1>5, <1>6, <1>7, <1>8, <1>9, <1>10, <1>11, <1>12, <1>13, <1>14, <1>15, <1>16,
     <1>17, <1>18, <1>19, <1>20 DEF IInv

LEMMA StepIInv == StoreAssumption /\ IInv /\ [Next]_vars => IInv'
<1> SUFFICES ASSUME StoreAssumption, IInv, [Next]_vars PROVE IInv'
  OBVIOUS
<1>1. /\ ServerOK /\ PlacesOK /\ MessagesOK /\ AttemptsOK /\ LoadsOK /\ Begun /\ CreatedBound
      /\ OneAttempt /\ AttemptShown /\ RunsBelong /\ ReadsBelong /\ ShownBelongs
      /\ Placed /\ Rested /\ Silent /\ Texts /\ Tracks
  BY DEF IInv
<1>2. ServerOK' /\ PlacesOK' /\ CreatedBound' /\ AttemptsOK'
  BY <1>1, ServerStep, PlacesStep, AttemptsStep
<1>3. MessagesOK' /\ LoadsOK' /\ Begun' /\ OneAttempt'
  BY <1>1, MessagesStep, LoadsStep, BegunStep, OneStep
<1>4. AttemptShown' /\ RunsBelong' /\ ReadsBelong' /\ ShownBelongs'
  BY <1>1, AttemptShownStep, RunsStep, ReadsStep, ShownBelongsStep
<1>5. Placed' /\ Rested' /\ Silent' /\ Texts' /\ Tracks'
  BY <1>1, PlacedStep, RestedStep, SilentStep, TextStep
<1> QED
  BY <1>2, <1>3, <1>4, <1>5 DEF IInv

\* All of the invariant's parts hold in every reachable state, whatever the number of attempts,
\* conversations, tries, loads, tokens and failures.
THEOREM Invariance == Spec => []IInv
BY InitIInv, StepIInv, StoreAssumption, PTL DEF Spec

\* The store's fields, the histories it reads and the server's registry keep their types;
\* a conversation the store is in is one that was created.
THEOREM Typed == Spec => []TypeOK
<1>1. IInv => TypeOK
  BY TypeParts DEF IInv
<1> QED
  BY <1>1, Invariance, PTL

\* isStreaming is set exactly while one attempt is streamed or reconciled, and the abort
\* controller kept is that attempt's (sendMessage, resumeTurn and the finally of runAgent).
THEOREM One == Spec => []OneAttempt
<1>1. IInv => OneAttempt
  BY DEF IInv
<1> QED
  BY <1>1, Invariance, PTL

\* The stream that is listened to is that of the conversation and turn shown, so that Stop and
\* a change of conversation reach it, unless a history that missed it was applied meanwhile.
THEOREM Streamed == Spec => []AttemptShown
<1>1. IInv => AttemptShown
  BY DEF IInv
<1> QED
  BY <1>1, Invariance, PTL

\* Tokens are shown in order, none is lost or doubled by reconciling or resuming, and a turn
\* shown as done shows all of its answer.
THEOREM Written == Spec => []TextInOrder
<1>1. IInv => TextInOrder
  BY DEF IInv, Texts, Beginning, TextInOrder
<1> QED
  BY <1>1, Invariance, PTL

\* Answers of one conversation never show in another, however loads, streams and changes of
\* conversation interleave.
THEOREM Belonging == Spec => []ShownBelongs
<1>1. IInv => ShownBelongs
  BY DEF IInv
<1> QED
  BY <1>1, Invariance, PTL

\* When the history shown is known to be the server's, an unfinished turn is offered for
\* resumption and its message is there to do it with.
THEOREM Offered == Spec => []ResumeOffered
<1>1. IInv => ResumeOffered
  BY DEF IInv, Rested, ResumeOffered
<1> QED
  BY <1>1, Invariance, PTL
=============================================================================
