# Ace RAG in TLA+

A verification development for Ace RAG, the retrieval-augmented question answering
service in `src/`: TLA+ modules for its protocols, TLC configurations that check them on
small instances, and TLAPS proofs for every value of the constants.

Paths are relative to the repository, which is checked out as `src/`.

## 1. The system

### Components, their state and their operations

| Component | State | Operations |
| --- | --- | --- |
| Job repository, `app/ingestion/jobs.py` | tables `ingestion_jobs`, `outbox_events` | create, request_cancel, claim, set_stage, mark_ready, mark_cancelled, mark_failed, retry, delete; claim, mark and release events |
| Ingestion worker, `worker.py`, `kernel.py` | the message it handles, the job record it claimed | handle a message: claim, ingest in four stages, settle the job, ack or reject |
| Outbox publisher, `outbox.py`, `mq/rabbitmq.py` | the batch of events it locked | lock, publish, mark or release |
| Document API, `api/documents.py`, `services.py`, `storage/` | files in MinIO | upload, cancel, delete, list |
| Chunk repository, `rag/milvus.py` | chunks per document in Milvus | insert, delete, hybrid search |
| Retrieval cache, `cache/`, `rag/retrieval.py` | index version and results in Redis | search (get, search, set), increment the version |
| Chat runtime, `api/chat.py`, `runtime/run_registry.py` | active run per conversation, in memory; LangGraph's checkpoint in PostgreSQL | start a turn, resume a turn, stream, release, history |
| Answer workflow, `graph/` | the turn's state: plan, evidence, draft, counters | fifteen nodes and their routes |
| Agentic retrieval, `rag/agentic/` | queries, evidence, round | plan, execute, grade, refine, build the context |
| ReAct agent and tools, `agents/`, `tools/` | tool calls of one answer | limited calls of models and tools |
| Context manager, `memory/` | summary | fit messages into a token budget |
| Splitter, parser, embedding, `rag/` | none | sections, chunks, vectors |
| Client stores, `web/src/stores/`, `web/src/utils/sseParser.ts` | messages, streaming state, polled jobs | send, stop, resume, reconcile, poll, cancel, delete |
| Settings, errors, health, migrations, LLM client | none, or set once | wiring |

### How they interact

Uploading stores a file in MinIO and inserts a job row with an outbox event in one
transaction. Each worker process runs a publisher, which locks due events for 30 seconds
and publishes them to RabbitMQ, and a message handler, which claims the job of a message
and works through the stages. Every stage calls a service and then looks for a
cancellation. The handler records the outcome in the row and acknowledges the message;
a retry inserts another outbox event that is due later. Changes of the index are
announced by incrementing a version in Redis, which is part of the keys of cached results.

A chat request validates itself against the conversation's checkpoint, acquires the
conversation's only run, and streams the parent graph; the run is released when the
stream ends, however it ends. LangGraph saves a checkpoint after every superstep, so an
unfinished turn can be resumed from where it was. Nodes of the graph search through the
retrieval cache.

The web client keeps two stores. The knowledge page lists documents and jobs, which are
two requests, and polls the jobs that are active with an interval timer. The chat page
streams one attempt at a time; when its stream ends, however it ends, the store asks for
the conversation's history until that no longer says that the turn is active, and shows
what it got. Histories of other conversations, refreshes and aborted requests may answer
in between.

### What is hard

* *Atomicity.* Nothing spans PostgreSQL, MinIO, Milvus, Redis and RabbitMQ. Every await
  lets others act, and a failure leaves what was done before it.
* *Delivery.* Messages are duplicated (an expired lock, a lost confirmation) and
  redelivered (a lost consumer), and acknowledged although nothing was done.
* *Crashes.* Worker and server processes die between two steps.
* *Clocks.* `available_at` is written with the database's clock and read with the worker's.
* *Stale reads.* The cache reads the version twice; chat admission reads a checkpoint
  and acts later; the client shows answers that are as old as their reading.
* *Budgets.* Loops driven by a language model must end.

What makes each component correct is listed with its module below. `PROJECT.json` lists
the hazards of the code line by line, with the properties that cover them.

## 2. Modules

| Module | What it is |
| --- | --- |
| `JobRepository` | rows, events, and each SQL statement as an operator on one row |
| `Ingestion` | API, publishers, workers, broker, stores; EXTENDS `JobRepository` |
| `JobLifecycle` | abstract specification: the statuses of a job a client may see |
| `RetrievalCache` | searches against changes of the index |
| `ChatRuntime` | requests, the registry and the checkpoint of one conversation |
| `AnswerWorkflow` | the parent graph of a conversation's turns; INSTANCEs `RetrievalContract` |
| `AgenticRetrieval` | the retrieval subgraph, one call at a time |
| `RetrievalContract` | abstract specification: what a call of the subgraph promises |
| `DocumentStore` | the client's documents and jobs; INSTANCEs `JobLifecycle` for the server |
| `ConversationStore` | the client's attempts and histories, with the server's side of them |
| `MCIngestion`, `MCRetrievalCache`, `MCChatRuntime`, `MCAnswerWorkflow`, `MCAgenticRetrieval`, `MCDocumentStore`, `MCConversationStore` | instances for TLC |
| `IngestionAttempts`, `IngestionDelivery` | proofs about `Ingestion` |
| `RetrievalCacheProof`, `ChatRuntimeProof`, `AnswerWorkflowProof`, `AgenticRetrievalProof`, `DocumentStoreProof`, `ConversationStoreProof` | proofs about the others |

### Ingestion

`row[j]` is the job's row. Timestamps are relative to the database's NOW(): `wait` is the
time left until `available_at`, an event's `lock` the time left until `locked_until`, and
`Tick` makes them smaller. `Skew[w]` is a worker's clock minus the database's, so claim
compares `wait` with `Skew[w]`. An outbox event is named by its job and the attempt that
inserted it. `queue[j]` counts the job's messages that are ready: their order does not
matter, as a handler looks at the row only. `chunks[j]` is the set of attempts whose
chunks are in Milvus, so that a document indexed twice can be told from one indexed once.

`worker[w]` is the handler's program counter. One action stands for one await:

| Code | Actions |
| --- | --- |
| `_handle_message`: claim | `Deliver`, `Claim`, `NothingToClaim`, `ClaimFails` |
| `_cancel_if_requested` | `Peek`, `CancelIfRequestedFails` |
| `IngestionKernel.ingest` | `SetStage`, `Work`, `CheckCancel` per stage, `BumpIndexVersion`, `IngestRaises` |
| the `except` clauses, `_cancel`, `_retry_or_fail`, `_fail` | `CleanupChunks`, `RemoveObject`, `Retry`, `MarkFailed`, `MarkCancelled`, `RecordFails` |
| `mark_ready`, ack, reject | `MarkReady`, `Settle` |
| `OutboxPublisher` | `ClaimEvents`, `Publish`, `PublishFails`, `MarkPublished`, `Release`, `AbandonBatch` |
| services behind the API | `StoreUpload`, `CreateJob`, `CreateJobFails`, `RequestCancel`, `DeleteFind`, `DeleteChunks`, `DeleteObject`, `DeleteRow`, `DeleteFails` |
| environment | `ConnectionLost`, `Crash`, `Tick` |

Constant `Faults` says what may go wrong in a run, so that each property is checked under
the faults it is meant to survive and each finding shows the one fault it needs. A
statement that fails is taken to have had no effect. `Work` abstracts parsing, splitting,
embedding and inserting; when the insert fails, the chunks may be stored or not. The
worker takes one message at a time (`ingestion_worker_concurrency` is the prefetch count,
and `run` awaits each handler).

Properties:

* `SingleIngester`, `AttemptsCounted`: claim locks the row, so duplicates never lead to
  two attempts at once, and the attempt number a handler holds is never out of date.
* `NoStrandedJob`: a queued job can still be reached by somebody.
* `NothingLeftBehind`, `ReadyIndexedOnce`: status, chunks and file agree.
* `ObjectKept`: nothing removes the file an attempt still has to read, and no failure of a
  deletion leaves a ready document's chunks without their file.
* `ImplementsLifecycle`: the statuses go through `JobLifecycle`, with
  `status <- row[j].status` and `attempts <- row[j].attempt`; settled jobs stay settled.
  With two processes and a cancelled job they may not: see `Uncontested` in section 4.
* `JobsSettle`: every uploaded document is settled or deleted in the end.

### RetrievalCache

One query is modelled, as keys of different queries never meet. A result is a set of
documents. `get` and `set` are two Redis calls each, and `set` reads the version again.
`clean` is a history variable of a search: whether the index has not changed since it was
read; entries inherit it. A search that a change overtook may store its result under the
version after the change, where it is served until it expires. `CleanHitsCurrent` says
what the version key does achieve, and `DeletedForgotten` that what it does not achieve
ends with the entries' time to live.

### ChatRuntime

One conversation. `checkpoint` is the turn and the number of supersteps done in it, `asked`
and `answered` are the user and assistant messages it holds. A request reads the registry,
then the checkpoint (`ReadState`), then acquires. A run starts the graph, which writes a new
turn's input, and advances it; it ends when the graph has ended, when a node raises, or when
the client is gone. `_graph_events` cancels the graph before `stream` releases the run,
unless the stream is closed while suspended in a `yield`: then the run may be released
first, and the graph go on for a superstep or more. `late` holds what such graphs hold
(`Disconnect`, `LateSuperstep`, `LateStop`). `raced` is a history variable: some request was
acquired although the checkpoint it was admitted by had changed, or a late superstep was
saved over a newer checkpoint or while another run was going on. The properties say what
holds without a race; with one, the model only approximates what the checkpointer keeps of
two graphs. `Steps` stands for the length of a turn: which nodes it has is left to the
answer workflow.

### AgenticRetrieval and RetrievalContract

The subgraph has five nodes; an action is one node with the edge taken after it, and
`supersteps` counts them as LangGraph does. The answers of planner, grader and refiner are
any their schema allows: the grader may claim anything and name any chunk, the refiner may
repeat queries. A query stands for itself after `strip` and `casefold`, which is how the
code compares queries. `found` is a history variable. `RetrievalContract` is what the two
callers of `search` rely on: `ImplementsContract` maps `rounds <- maxRounds`, `result` to
itself and the node to the phase of the call.

### AnswerWorkflow

The fifteen nodes of the parent graph, again one action each with its edge; the variables
are the checkpoint. `NewTurn` is the input of a turn, `RunEnds` whatever ends a run before
the turn (a node raises, the recursion limit, a disconnect), and `Resume` runs the node of
the checkpoint again. A node that raises on its checkpoint is a disabled action: its guard
is what it checks. Searches answer `RetrievalContract!Results`: this is where the two
modules compose. The ReAct agent is up to `MaxToolCalls` such searches with an answer of
its own, and its tools are there only if the route requires the capability.

A draft is told by what the code looks at: whether its text is empty, which ids it cites,
whether its marks match them, so that models may cite chunks that nobody found. A plan
step is its `step_id`. `judged` is a history variable.

* `StatusEarned`: whichever of the five ways leads to `finalize_answer`, the status is
  about the draft that leaves.
* `GeneratorHasEvidence`, `NodesEnabled`: no node meets a state it raises on, or has a
  branch for that is not meant to be taken.
* `PlanInOrder`: what revisions leave alone.
* `BudgetsKept`, `RecursionSuffices`: the loops end, in time for LangGraph.
  `max_replan_count` is no budget but a threshold after an evaluation: plans are revised
  fewer times than they may have steps (`replans < MaxPlanSteps`), as a revision follows a
  completed step that was not the last.
* `TurnResumable` does not hold: the model's citations are first looked at when it is too
  late.

### DocumentStore

The server's rows live as `JobLifecycle` says, with the chunks a worker inserts; the
abstraction that `Ingestion` is shown to implement is the environment here. A request is
sent, read by the server and answered in steps of their own; a deletion that fails after the
chunks were removed leaves a ready job without chunks (`ServeDelete`). `poll.got[j]` is what
the GET of job `j` read, `load` holds the two lists of `loadKnowledge`, `call[j]` is the
user's request about one document.

| Code | Actions |
| --- | --- |
| `ensurePolling`, the interval's callback | `EnsurePolling`, `PollStart` |
| `refreshActiveJobs` | `PollRead`, `PollAnswered`, `PollListRead`, `PollListAnswered`, `PollRejected` |
| `loadKnowledge` | `LoadKnowledge`, `LoadRead`, `LoadAnswered`, `LoadFails` |
| upload, cancel, remove, with the view's handlers | `Ask`, `ServeUpload`, `UploadAnswered`, `UploadFails`, `ServeCancel`, `CancelAnswered`, `ServeDelete`, `DeleteAnswered`, `CallFails` |
| `onMounted`, `onUnmounted`, the refresh button | `Mount`, `Unmount`, `Refresh` |

`missed` and `hidden` are history variables: about which documents the list was wrong when
it was last updated, and which jobs were uploaded after the list that was loaded last had
been read. They name the cases in which what is shown is known to be too old, so that
the properties say that nothing else goes wrong.

* `PollingScheduled`: whichever of the overlapping polls, loads and answers ends last, it
  leaves the timer set while a job shown is active.
* `NothingLost`: an uploaded document stays on the page, as a job and then as a document.
* `DeletedHidden`: no answer that is under way brings a deleted document back.
* `JobsFollowed`: what is shown of an active job changes in the end. It excepts a page that
  is closed, and a poll that asks for a job whose row is gone: `Promise.all` rejects
  whatever the others answer, as often as the timer fires.

### ConversationStore

An attempt is one call of `runAgent`. `attempt[n]` is the client's side of it (`open`: the
stream is read; `wait`, `reconcile`: `reconcileTurn`; `refresh`: the history loaded after a
409), `served[n]`, `sent[n]` and `running` are the server's. An aborted request lives on at
the server until that notices (`Disconnect`). A turn is named for the attempt that began
it. GET of a history reads the registry first and the checkpoint after that, in two steps.
Admission is one step here; its races are `ChatRuntime`'s.

| Code | Actions |
| --- | --- |
| `sendMessage`, `resumeTurn` | `SendMessage`, `ResumeTurn` |
| `stopChat`, `createConversation`, `selectConversation`, loading the page | `StopChat`, `CreateConversation`, `SelectConversation`, `Reload` |
| `refreshConversation` | `RefreshConversation`, `LoadRead`, `LoadAnswered`, `LoadFails` |
| `bindRun`, `consumeEvent` | `Admit`, `Token`, `Done`, `Fail` with `BindRun`, `Hears` |
| `handleStreamFailure`, `markAttemptError` | `Reject`, `LoseConnection` |
| `reconcileTurn`, `finishAttempt`, `applyHistory` | `Reconcile`, `AttemptRead`, `Reconciled`, `Refreshed`, `AttemptReadFails`, `ApplyHistory` |
| the server | `Admit`, `Reject`, `Save`, `Token`, `Done`, `Fail`, `Close`, `Disconnect` |

Four history variables name what an answer that comes too late does: `overtaken` (a
history was applied that does not know of the attempt being streamed), `disturbed` (turns
whose message was replaced while it was streamed), `uncertain` (the history applied last
may be out of date) and `loaded` (the messages shown were put there for the current
conversation).

* `OneAttempt`: no attempt ends its successor's streaming state, none goes on unseen.
* `AttemptShown`: Stop and leaving a conversation reach the stream that is going on.
* `TextInOrder`: reconciling, resuming and streaming neither lose nor double tokens.
* `ShownBelongs`: no answer shows in another conversation than its own.
* `ResumeOffered`: an unfinished turn can be resumed from the page.
* `AttemptsEnd`: the page does not stay busy: an open stream ends with its run, and
  reconciliation ends by itself, although the aborted run may stay registered.

## 3. Runs

| Run | Instance | Shows |
| --- | --- | --- |
| `ingestion_one_worker` | 1 job, 1 process, 2 attempts, crashes, all requests and faults but failing cleanups | `TypeOK`, `NothingLeftBehind`, `ReadyIndexedOnce`, `ImplementsLifecycle` |
| `ingestion_two_workers` | 1 job, 2 processes, one with its clock ahead, duplicated messages | `SingleIngester`, `AttemptsCounted`, `NoStrandedJob` |
| `ingestion_liveness` | 1 job, cancel and delete, failing services | `ObjectKept`, `JobsSettle` |
| `cache` | 1 document, 2 searches, 2 writers, 3 changes, failing Redis | `CleanHitsCurrent`, `DeletedForgotten` |
| `chat` | 2 requests, 2 turns, 2 supersteps, 1 graph outliving its run | `TypeOK`, `RunsExclusive`, `UnfinishedKeptUnlessRaced`, `RunsOwnTurn`, `AnsweredOnce`, `BusyEnds` |
| `retrieval` | 3 queries, 2 chunks, 3 rounds of 2 queries | `NoQueryRepeated`, `EvidenceFound`, `RecursionSuffices`, `ImplementsContract` |
| `workflow` | 1 chunk and a made-up one, plans of 3 steps, 2 replans, 2 reflections, 5 rounds, 3 tool calls of 2 rounds | `TypeOK`, `StatusEarned`, `GeneratorHasEvidence`, `PlanInOrder`, `NodesEnabled`, `BudgetsKept`, `RecursionSuffices` |
| `documents` | 1 job of 1 attempt, deleted when ready or gone, 2 failures | `TypeOK`, `PollingScheduled`, `NothingLost`, `DeletedHidden`, `JobsFollowed` |
| `conversation` | 2 attempts, 2 conversations created by the user, 2 reconciliations of an attempt, 2 tokens, 1 load, 1 failure | `TypeOK`, `OneAttempt`, `AttemptShown`, `TextInOrder`, `ShownBelongs`, `ResumeOffered`, `AttemptsEnd` |

The types of `RetrievalCache` and `AgenticRetrieval` are proved, and no run repeats them.

Then there are the runs that find a disagreement between the code and what it says:

| Run | Violates | What happens |
| --- | --- | --- |
| `ingestion_cancel_lost` | `CancelHonoured` | retry overwrites an accepted cancellation |
| `ingestion_deleted` | `DeletedGone` | deleting races a retry; chunks of a deleted document stay |
| `workflow_stuck` | `TurnResumable` | an answer cites an unknown chunk; every resume raises, and no new turn is accepted |

*Bounds.* One job is enough for the ingestion properties: handlers, events and rows of
different jobs only share the order of messages, on which nothing depends. Two attempts are
the fewest with a retry; the attempt that retries and the last, which fails, are both taken.
`MaxQueued` is the number of copies of a message that can wait at a time, two being enough
for a duplicate that overtakes; `Publish` waits at the bound. `MaxCrashes` bounds deaths of
processes, and `SkewBound` how far clocks differ; a row's `wait` stops falling at
`-SkewBound`, below which no clock tells it apart. In `RetrievalCache`, `MaxChanges` bounds
the changes of the index: three let a document be indexed, deleted and indexed again around
a search, and two searches are enough for one to be overtaken, to store, and to be read by
the other. Documents only meet in a result, which is a set of them, so one is enough. In
`ChatRuntime` the second request is the one that races; turns cannot be asked twice, so
behaviours may stay in a small state space without a bound. `MaxLate` bounds the graphs that
outlive their run; one is enough to overtake, or be overtaken by, another run.

In `AgenticRetrieval`, two queries per round and a third one make it possible to repeat one,
to cut a list and to run out of new ones; three rounds are the default. In `AnswerWorkflow`
three steps let a revision come before, between and after completed steps, and `MaxStepId`
bounds the ids it may come up with, one more than a plan needs. Two replans and two
reflections are the fewest at which either budget can be the one that stops the turn, after
having been used. Three tool calls of two rounds each are one more than `MaxRetrievals`, so
that the ReAct agent overdraws it. A made-up chunk id and a real one are the two kinds the
code tells apart. The run's `RecursionLimit` is 30, the least that suffices for its budgets:
the longest turn takes `4 * MaxPlanSteps + 4 * MaxReflections + 10` supersteps, which is 34
of the code's 80 for its default settings. Nothing in `config.py` relates the two; more than
16 plan steps exceed it.

In `DocumentStore` one job meets every pair of requests about it; what a second one
adds is that a poll rejects for both, which `JobsFollowed` excepts. A load can begin while
another is under way, as a refused request loads everything again; `Loaders` bounds them,
and the run has one. The theorems are for any number of jobs and of overlapping loads. A
document whose deletion was done but not answered is still listed and is deleted again,
hence `Deletable`; the statuses in it are of settled jobs. In `ConversationStore` two
attempts are one and its successor, or one and its resumption. `Conversations` has room
for those that replace a conversation which is found to be gone. One load, besides the
attempts' own reads, is the fewest that can overtake or be overtaken by them; `Reload`
takes it too.

*Deadlock* is checked in every run. In `Ingestion` and `RetrievalCache` it says little, as
time can always pass; what must not get stuck there is stated as `NoStrandedJob`,
`JobsSettle` and `DeletedForgotten`. In the two graphs a run can always be ended from
outside; that no node is stuck is stated as `NodesEnabled`. In `ConversationStore` the
bounds stop the user once the loads are used up, which is not a deadlock of the code: `Rest`
is the step of that state.

*Fairness.* A worker's `while True`, its restart by the process supervisor and the
publisher's loop justify weak fairness of `WorkerStep` and `PublisherStep`; once a DELETE
request began, its coroutine goes on (`DeleteStep`); time passes. No fairness is assumed of
users, faults, or of any single alternative of a step. For liveness the faults are those
that a retry or an expired lock repairs; under `crash` or `postgres`, `JobsSettle` is
false, see the limits. Searches that began go on (`SearchStep`), a run goes
on until it ends (`RunStep`), and clients need not ask for anything. The two graphs' modules
state no fairness: that a run ends is the invariant `RecursionSuffices`, and every node
step counts. On the knowledge page the interval fires, requests are answered or fail, and
jobs are worked on. On the chat page the attempt under way goes on (`OngoingStep`): its
requests are answered, and while its stream is open the run it listens to takes its steps
and ends, as `BusyEnds` says of the server's side. Runs that nobody listens to need not
notice it, and users need not act; that is why, once a stream has ended, `AttemptsEnd`
must rest on `reconcileDelays` running out.

## 4. Proofs

All constants are arbitrary, under the named assumptions of the modules that declare them.

* `IngestionAttempts`: `TypeCorrect`, `Exclusion` and `BoundedAttempts` are
  `Spec => []TypeOK`, `[]SingleIngester` and `[]AttemptsCounted`. `TypeOK` is not
  inductive: that `Claim` does not count beyond `MaxAttempts` needs that a queued job was
  attempted fewer times, that a handler past its claim holds the row's attempt number, and
  that no other handler does. The invariant `IInv` adds these. `DeletedForGood` follows
  from it: no step of anybody gives a deleted job another status.
* What becomes of an attempt is proved in the same module: `LifecycleImplemented` (the
  refinement of `JobLifecycle`), `SettledClean`, `IndexedOnce` and `FilesKept` are
  `ImplementsLifecycle`, `[]NothingLeftBehind`, `[]ReadyIndexedOnce` and `[]ObjectKept`. All
  assume `Uncontested`: there is one worker process, or users cancel nothing. Without it
  they are false of the code. A second message of a job (a redelivery, a publication whose
  confirmation was lost) finds nothing to claim, but `_cancel_if_requested` carries out a
  cancellation that was meant for the attempt under way in the other process; the attempt
  may then insert chunks of a cancelled job, or record `failed` over `cancelled`. `Owned`
  states what the assumption gives: while a handler works on a job, only a user's request
  changes its status. `Clean` says which statuses leave no chunks, that any other row has at
  most those of its last attempt, and that what a handler has removed stays removed until it
  has recorded the outcome; `Indexing`, that an attempt past its insert has its chunks
  there, unless a deletion took them; and `HaveFiles`, that jobs still to be attempted have
  their file. `SettledClean` and `IndexedOnce` exclude the fault `cleanup`, as
  `cleanup_chunks` suppresses every exception and the job is settled all the same;
  `FilesKept` excludes `postgres`, under which a deletion that met the chunks of a
  processing job removes the file and then fails to delete the row. Without any one of these
  assumptions TLC finds a counterexample. For the refinement every step is sorted by
  `NeutralStep`: it changes no status (a stutter), is a request, or is a handler's
  statement, whose effect on the status `RecordEffects` and `HandlerEffects` give.
* `IngestionDelivery`: `NoJobStranded` is `Spec => []NoStrandedJob` when no worker's clock
  is behind the database's (`Skew[w] >= 0`). The argument follows a queued job's event:
  `Fresh` (the event of the current attempt is the newest), `Batched` (what a publisher
  holds is locked or already published), `Timely` (an event is not published before its job
  is available) and `Carriage` (event, message or handler). The assumption is needed: a
  worker whose clock is behind takes the job of its only message for not yet available,
  and acknowledges it. `ActiveJobsCarried` extends it to processing jobs
  (`NoneAbandoned`: some handler is attempting it) and accepted cancellations
  (`CancelCarried`), for any number of workers and every fault but `crash` and
  `postgres`, which abandon a job. It is the safety part of `JobsSettle`; what that
  property adds is that somebody acts.
* `RetrievalCacheProof`: `TypeCorrect` and `HitsCurrent`. The invariant adds that nothing
  is stored under a version to come and that a search no change overtook holds the index.
* `ChatRuntimeProof`: `TypeCorrect`, `OneRun`, `UnfinishedResumable`, `OwnTurn` and
  `NoSecondAnswer`. The invariant adds that an admitted run could still be admitted when
  its graph starts, because nobody else can write the checkpoint meanwhile: a late
  superstep either continues the checkpoint while no run is active, or is a race.

* `AgenticRetrievalProof`: `TypeCorrect`, `QueriesNotRepeated`, `EvidenceIsFound`,
  `RecursionLimitSuffices` and the refinement, `SearchImplementsContract`. The invariant
  ties the supersteps to the rounds (`StepsOfRounds`: three per round, after the
  planner's), says that the executor always has a new query (`NewQueriesAtExecutor`), so
  that every call takes at least one round, and that a sufficient grade has evidence
  (`EvidenceKnown`).
* `AnswerWorkflowProof`: `StatusIsEarned`, `GeneratorGetsEvidence`, `NodesAreEnabled` and
  `BudgetsAreKept`. The invariant says for each node which route leads to it, what evidence
  and which step are there, that only finished answers have a status, and that a reflection
  was within its budget: conditions that no single action establishes where the property
  needs them. On top of it, a second invariant (`TurnInv`) gives `TypeCorrect`,
  `PlanStaysInOrder`, `RunsEndInTime` and the part of `BudgetsAreKept` about revisions:
  `Revised` says that a turn was revised at most once for each completed step. `PlanInv`
  needs that what a revision keeps is exactly the completed steps in their order
  (`KeptIsCompleted`): `Kept` lists the steps that are not pending by their rank, and an
  invariant says that these are a prefix of the plan. `Measured` gives each node the
  supersteps that are left from it (`Remaining`), by the steps not completed and the
  reflections not made; every superstep makes it smaller. `RunsEndInTime` assumes
  `RecursionLimit >= 4 * MaxPlanSteps + 4 * MaxReflections + 10`, which the fixed limit of
  80 does not imply for all settings.
* `DocumentStoreProof`: `Typed`, `Polled`, `Shows` and `Hides`. The invariant adds that
  nothing is known of a job that was not uploaded, that an old answer which says that a
  job is settled is still true or the job is deleted (`AnswersSettled`), and that a deleted job
  has no chunks, as only settled jobs are deleted (`IndexedAlive`): with these an answer,
  however late, can only lag behind.
* `ConversationStoreProof`: `Typed`, `One`, `Streamed`, `Written`, `Belonging` and
  `Offered`. That there is a number left for the conversation which replaces a lost one
  needs `CreatedBound`, which counts the attempts that have ended. `ShownBelongs` needs the same
  of all histories under way (`ReadsBelong`) and of the runs registered (`RunsBelong`).
  `ResumeOffered` needs `Rested`: while the history shown is up to date, no run of its
  conversation is left to change it. `TextInOrder` needs `Tracks`, that what the run being
  heard has sent is what is shown, and `Silent`, that a run which has not begun to answer
  has sent nothing.

Only model-checked: the liveness properties (`JobsSettle`, `DeletedForgotten`, `BusyEnds`,
`JobsFollowed`, `AttemptsEnd`), which are out of the prover's reach, as fairness and
ENABLED are. Every invariant that a passing run checks, and both refinements, are
theorems. `CancelHonoured`, `DeletedGone` and `TurnResumable`, which the repository's own
text promises, are refuted by runs and have none.

## 5. Limits

* Not modelled: what parsing, embedding and ranking compute, authentication (there is
  none), configuration and health endpoints, presentation, deployment.
* A failed PostgreSQL statement has no effect in the model; a commit whose confirmation is
  lost is not modelled. `Claim` followed by `Crash` gives the same rows.
* `DELETE` of a document (`milvus.py:344`) queries, deletes and flushes; `DeleteChunks` is
  these three in one step, and a job has one `DELETE` under way at a time.
* In `ConversationStore`, sending the GET of a history and its reading of the registry are
  one step: a request that arrives later is one that is sent later, but for what the
  client does in between. The checkpoint is read, and the answer applied, in later steps.
* In `DocumentStore` only settled jobs are deleted. That a running attempt inserts chunks
  after its document was deleted is shown by `Ingestion`, in `ingestion_deleted`.
* What the ReAct agent's loop does between its tool calls is not modelled, nor that its
  tool may be refused; `RunReactAgent` allows every combination of results.
* A resumed run enters the subgraph and the ReAct agent from their beginnings, as they have
  no checkpoint of their own.
* That a turn which was admitted by an outdated checkpoint replaces an unfinished one, as
  `UnfinishedKept` would forbid, is shown by no run; `raced` marks those behaviours.
* The registry is per process; settings allow one server process only.
* A worker that dies after its claim leaves the job in processing for good: the redelivered
  message finds nothing to claim. The safety properties are checked with such deaths, and
  `JobsSettle` without them.
* Between a change of the index and the expiry of an entry, a search that the change
  overtook may have stored a result with a deleted document under the new version. The
  properties of `RetrievalCache` say so by their exceptions.
* What the knowledge page's properties except, as the code does not prevent it: the two
  lists of a load are read at different times (`document.ts:77`); a job that is deleted
  rejects the polls of all jobs (`98`); when the list cannot be read after a ready job was
  removed, the document is in neither (`111`); and a poll that ends after the page was
  closed starts the timer again (`118`).
* What the chat page's properties except: a history that was read before an attempt began
  may be applied while it streams (`conversation.ts:384`), after which its events are
  dropped; a history read while it streams replaces its text; reconciliation gives up
  after its last delay, and what is shown may then be out of date until the next load.
  A message of the conversation that was left, while another's history is being loaded, can
  still be resumed: the server answers 404, and the conversation is removed from the list.
* The framing of server-sent events and the numbering of a run's events are not modelled: a
  stream is one TCP connection between two processes, and delivers in order or breaks. Upload
  progress, thinking traces, execution steps and the titles of conversations are left out.
* The context manager chooses messages from its arguments alone, and no route of the graph
  depends on which; parsing, splitting and embedding are data of `Work`. They keep no state.

## 6. Plan

1. `JobRepository`, `Ingestion`, `JobLifecycle` and their proofs: done.
2. `RetrievalCache` and its proof: done.
3. `ChatRuntime` and its proof: done.
4. `AgenticRetrieval`, `RetrievalContract`, `AnswerWorkflow` and their proofs: done.
5. `DocumentStore`, `ConversationStore` and their proofs: done.
6. Proofs of the workflow's types, plans and recursion limit: done.
7. Proofs of the outcomes of attempts, of the refinement of `JobLifecycle`, and of what
   carries an active job: done.
8. Pure algorithms against reference definitions (heading sections and chunk windows, citation
   numbering, fusion of ranked results), and the limits of the ReAct agent's loop, as far as
   they are this repository's code.
