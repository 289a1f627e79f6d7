------------------------------ MODULE Ingestion ------------------------------
(***************************************************************************)
(* The document ingestion pipeline of app/ingestion: the API inserts a job  *)
(* row and an outbox event, a publisher moves events to RabbitMQ, a worker  *)
(* takes one message at a time, parses, splits, embeds and indexes the      *)
(* document, and settles the job.  The services fail, workers die, messages *)
(* are redelivered and duplicated, users cancel jobs and delete documents.  *)
(*                                                                          *)
(* Every await is a point where the others may act, so each call to a       *)
(* service is an action.  A worker process runs one IngestionWorker and one *)
(* OutboxPublisher, and both end with it.                                   *)
(***************************************************************************)
EXTENDS JobRepository, FiniteSets

CONSTANTS Jobs,        \* uploaded documents, one job each
          Workers,     \* worker processes
          Skew,        \* worker's clock minus the database's clock
          Requests,    \* what users ask for beside uploading
          Faults,      \* what may go wrong
          MaxQueued,   \* bound: messages of one job in the queue
          MaxCrashes   \* bound: deaths of worker processes

FaultKinds ==
    { "unavailable",  \* a service an attempt needs cannot be reached
      "document",     \* the document cannot be ingested
      "postgres",     \* PostgreSQL cannot be reached when a result is recorded
      "cleanup",      \* removing chunks or an object fails
      "publish",      \* publishing fails, or its confirmation is lost
      "connection",   \* RabbitMQ drops a consumer whose handler goes on
      "crash" }       \* a worker process dies

NoJob   == "no job"
NoEvent == <<NoJob, 0>>

ASSUME IngestionAssumption ==
    /\ NoJob \notin Jobs
    /\ Skew \in [Workers -> (-SkewBound)..SkewBound]
    /\ Requests \subseteq {"cancel", "delete"}
    /\ Faults \subseteq FaultKinds
    /\ MaxQueued \in Nat \ {0}
    /\ MaxCrashes \in Nat

\* The k-th attempt's retry inserts event <<j, k>>, and the upload <<j, 0>>.
EventIds == Jobs \X (0..(MaxAttempts - 1))

VARIABLES row,      \* ingestion_jobs
          outbox,   \* outbox_events
          object,   \* MinIO: is the uploaded file there?
          chunks,   \* Milvus: the attempts whose chunks of the document are there
          queue,    \* RabbitMQ: messages of each job that are ready for delivery
          dlq,      \* the jobs that have a message in the dead letter queue
          worker,   \* each process's message handler
          pub,      \* each process's outbox publisher
          del,      \* the request deleting the document, if there is one
          crashes   \* how many processes died

db    == <<row, outbox>>
store == <<object, chunks>>
mq    == <<queue, dlq>>
vars  == <<db, store, mq, worker, pub, del, crashes>>

\* An attempt, from the claim to the transaction that records its outcome.
AttemptPcs == {"set_stage", "work", "check", "bump", "mark_ready",
               "retry_cleanup", "retry", "fail_cleanup", "mark_failed"}
CancelPcs  == {"cancel_chunks", "cancel_object", "mark_cancelled"}
WorkerPcs  == {"idle", "claim", "peek", "ack", "reject"} \union AttemptPcs \union CancelPcs

\* attempt = 0 when the handler holds a message it has claimed no job for.
IdleWorker == [pc |-> "idle", job |-> NoJob, attempt |-> 0,
               stage |-> "parsing", unacked |-> FALSE]
Received(j) == [pc |-> "claim", job |-> j, attempt |-> 0,
                stage |-> "parsing", unacked |-> TRUE]
IdlePub    == [phase |-> "publish", batch |-> {}, event |-> NoEvent]

Handlers   == [pc : WorkerPcs, job : Jobs \union {NoJob}, attempt : Attempts,
               stage : Stages, unacked : BOOLEAN]
Publishers == [phase : {"publish", "mark", "release"}, batch : SUBSET EventIds,
               event : EventIds \union {NoEvent}]

Goto(w, pc) == worker' = [worker EXCEPT ![w].pc = pc]

Init ==
    /\ row = [j \in Jobs |-> NoRow]
    /\ outbox = [e \in EventIds |-> NoEventRow]
    /\ object = [j \in Jobs |-> FALSE]
    /\ chunks = [j \in Jobs |-> {}]
    /\ queue = [j \in Jobs |-> 0]
    /\ dlq = {}
    /\ worker = [w \in Workers |-> IdleWorker]
    /\ pub = [w \in Workers |-> IdlePub]
    /\ del = [j \in Jobs |-> "idle"]
    /\ crashes = 0

----------------------------------------------------------------------------
(* The API: DocumentUploadService, request_cancel, DocumentCatalogService.  *)

StoreUpload(j) ==
    /\ row[j].status = "absent" /\ ~object[j]
    /\ object' = [object EXCEPT ![j] = TRUE]
    /\ UNCHANGED <<db, chunks, mq, worker, pub, del, crashes>>

\* The row and its first event are inserted in one transaction.
CreateJob(j) ==
    /\ row[j].status = "absent" /\ object[j]
    /\ row' = [row EXCEPT ![j] = CreatedRow]
    /\ outbox' = [outbox EXCEPT ![<<j, 0>>] = InsertedEvent(0)]
    /\ UNCHANGED <<store, mq, worker, pub, del, crashes>>

\* The insert failed: the object is removed again.  When that fails too, which
\* enqueue suppresses, the object stays as if CreateJob were never tried.
CreateJobFails(j) ==
    /\ "postgres" \in Faults
    /\ row[j].status = "absent" /\ object[j]
    /\ object' = [object EXCEPT ![j] = FALSE]
    /\ UNCHANGED <<db, chunks, mq, worker, pub, del, crashes>>

RequestCancel(j) ==
    /\ "cancel" \in Requests
    /\ CanCancel(row[j])
    /\ row' = [row EXCEPT ![j] = CancelRequestedRow(@)]
    /\ UNCHANGED <<outbox, store, mq, worker, pub, del, crashes>>

\* DELETE /documents/{id}: find the job, delete the chunks, the object, the row.
\* A document whose job is gone has only its chunks deleted.
DeleteFind(j) ==
    /\ "delete" \in Requests
    /\ del[j] = "idle" /\ row[j].status # "absent"
    /\ del' = [del EXCEPT ![j] = IF RowExists(row[j]) THEN "chunks" ELSE "chunks_only"]
    /\ UNCHANGED <<db, store, mq, worker, pub, crashes>>

\* No chunks: 404, and the object and the row are left alone.
DeleteChunks(j) ==
    /\ del[j] \in {"chunks", "chunks_only"}
    /\ chunks' = [chunks EXCEPT ![j] = {}]
    /\ del' = [del EXCEPT ![j] = IF chunks[j] # {} /\ @ = "chunks" THEN "object" ELSE "idle"]
    /\ UNCHANGED <<db, object, mq, worker, pub, crashes>>

DeleteObject(j) ==
    /\ del[j] = "object"
    /\ object' = [object EXCEPT ![j] = FALSE]
    /\ del' = [del EXCEPT ![j] = "row"]
    /\ UNCHANGED <<db, chunks, mq, worker, pub, crashes>>

\* The job's events go with it: ON DELETE CASCADE.
DeleteRow(j) ==
    /\ del[j] = "row"
    /\ row' = [row EXCEPT ![j] = DeletedRow(@)]
    /\ outbox' = [e \in EventIds |-> IF e[1] = j THEN NoEventRow ELSE outbox[e]]
    /\ del' = [del EXCEPT ![j] = "idle"]
    /\ UNCHANGED <<store, mq, worker, pub, crashes>>

\* A step of the request fails and the client gets a 503; what was done stays done.
DeleteFails(j) ==
    /\ del[j] # "idle"
    /\ (IF del[j] = "row" THEN "postgres" ELSE "cleanup") \in Faults
    /\ chunks' \in {chunks, IF del[j] \in {"object", "row"} THEN chunks
                                                           ELSE [chunks EXCEPT ![j] = {}]}
    /\ del' = [del EXCEPT ![j] = "idle"]
    /\ UNCHANGED <<db, object, mq, worker, pub, crashes>>

----------------------------------------------------------------------------
(* OutboxPublisher.run_once, in worker process w.                           *)

\* The SELECT ... FOR UPDATE SKIP LOCKED takes every claimable event (its LIMIT
\* of 20 is above the number of events modelled).
ClaimEvents(w) ==
    LET claimable == {e \in EventIds : CanClaimEvent(outbox[e])}
    IN  /\ pub[w] = IdlePub /\ claimable # {}
        /\ pub' = [pub EXCEPT ![w].batch = claimable]
        /\ outbox' = [e \in EventIds |-> IF e \in claimable THEN LockedEvent(outbox[e])
                                                           ELSE outbox[e]]
        /\ UNCHANGED <<row, store, mq, worker, del, crashes>>

\* Publish and wait for the broker's confirmation.
Publish(w, e) ==
    /\ pub[w].phase = "publish" /\ e \in pub[w].batch
    /\ queue[e[1]] < MaxQueued
    /\ queue' = [queue EXCEPT ![e[1]] = @ + 1]
    /\ pub' = [pub EXCEPT ![w].phase = "mark", ![w].event = e]
    /\ UNCHANGED <<db, store, dlq, worker, del, crashes>>

\* The publish raises; the broker may have accepted the message all the same.
PublishFails(w, e) ==
    /\ "publish" \in Faults
    /\ pub[w].phase = "publish" /\ e \in pub[w].batch
    /\ \/ queue' = queue
       \/ queue[e[1]] < MaxQueued /\ queue' = [queue EXCEPT ![e[1]] = @ + 1]
    /\ pub' = [pub EXCEPT ![w].phase = "release", ![w].event = e]
    /\ UNCHANGED <<db, store, dlq, worker, del, crashes>>

NextEvent(p) == [phase |-> "publish", batch |-> p.batch \ {p.event}, event |-> NoEvent]

MarkPublished(w) ==
    /\ pub[w].phase = "mark"
    /\ outbox' = [outbox EXCEPT ![pub[w].event] = PublishedEvent(@)]
    /\ pub' = [pub EXCEPT ![w] = NextEvent(@)]
    /\ UNCHANGED <<row, store, mq, worker, del, crashes>>

Release(w) ==
    /\ pub[w].phase = "release"
    /\ outbox' = [outbox EXCEPT ![pub[w].event] = ReleasedEvent(@)]
    /\ pub' = [pub EXCEPT ![w] = NextEvent(@)]
    /\ UNCHANGED <<row, store, mq, worker, del, crashes>>

\* No connection to the broker, or mark_published or release raises: run_forever
\* swallows it, and the events left in the batch stay locked until the lock expires.
AbandonBatch(w) ==
    /\ "publish" \in Faults
    /\ pub[w] # IdlePub
    /\ pub' = [pub EXCEPT ![w] = IdlePub]
    /\ UNCHANGED <<db, store, mq, worker, del, crashes>>

----------------------------------------------------------------------------
(* IngestionWorker._handle_message, in worker process w.                    *)

Deliver(w, j) ==
    /\ worker[w].pc = "idle" /\ queue[j] > 0
    /\ queue' = [queue EXCEPT ![j] = @ - 1]
    /\ worker' = [worker EXCEPT ![w] = Received(j)]
    /\ UNCHANGED <<db, store, dlq, pub, del, crashes>>

\* The broker gives w's unacknowledged message to a consumer again.
Redeliver(w) ==
    queue' = IF worker[w].unacked THEN [queue EXCEPT ![worker[w].job] = @ + 1] ELSE queue

\* The handler raises: run() closes the connection, and starts over after a
\* ServiceUnavailableError or ends the process, the publisher with it.
Restart(w) ==
    /\ Redeliver(w)
    /\ worker' = [worker EXCEPT ![w] = IdleWorker]
    /\ pub' \in {pub, [pub EXCEPT ![w] = IdlePub]}
    /\ UNCHANGED <<db, store, dlq, del, crashes>>

Claim(w) ==
    LET j == worker[w].job
    IN  /\ worker[w].pc = "claim" /\ CanClaim(row[j], Skew[w])
        /\ row' = [row EXCEPT ![j] = ClaimedRow(@)]
        /\ worker' = [worker EXCEPT ![w].pc = "set_stage", ![w].stage = "parsing",
                                    ![w].attempt = row[j].attempt + 1]
        /\ UNCHANGED <<outbox, store, mq, pub, del, crashes>>

NothingToClaim(w) ==
    /\ worker[w].pc = "claim" /\ ~CanClaim(row[worker[w].job], Skew[w])
    /\ Goto(w, "peek")
    /\ UNCHANGED <<db, store, mq, pub, del, crashes>>

\* claim raises: the message is rejected with requeue=True.
ClaimFails(w) ==
    /\ "postgres" \in Faults
    /\ worker[w].pc = "claim"
    /\ Restart(w)

\* _cancel_if_requested: a message whose job was cancelled while it was queued.
Peek(w) ==
    /\ worker[w].pc = "peek"
    /\ Goto(w, IF row[worker[w].job].status = "cancel_requested" THEN "cancel_chunks" ELSE "ack")
    /\ UNCHANGED <<db, store, mq, pub, del, crashes>>

\* It suppresses every ApiException, and so a failure to connect also ends in an ack.
CancelIfRequestedFails(w) ==
    /\ "postgres" \in Faults
    /\ \/ worker[w].pc = "peek"
       \/ worker[w].pc = "mark_cancelled" /\ worker[w].attempt = 0
    /\ Goto(w, "ack")
    /\ UNCHANGED <<db, store, mq, pub, del, crashes>>

SetStage(w) ==
    /\ worker[w].pc = "set_stage"
    /\ row' = [row EXCEPT ![worker[w].job] = StageRow(@, worker[w].stage)]
    /\ Goto(w, "work")
    /\ UNCHANGED <<outbox, store, mq, pub, del, crashes>>

\* Read and parse, split, embed, or insert the chunks: what the stage is named after.
Inserted(w) == [chunks EXCEPT ![worker[w].job] = @ \union {worker[w].attempt}]

Work(w) ==
    /\ worker[w].pc = "work"
    /\ worker[w].stage = "parsing" => object[worker[w].job]
    /\ chunks' = IF worker[w].stage = "indexing" THEN Inserted(w) ELSE chunks
    /\ Goto(w, "check")
    /\ UNCHANGED <<db, object, mq, pub, del, crashes>>

NextStage == [parsing |-> "splitting", splitting |-> "embedding", embedding |-> "indexing"]

\* A job whose row is gone counts as not cancelled.
CheckCancel(w) ==
    /\ worker[w].pc = "check"
    /\ IF row[worker[w].job].status = "cancel_requested" THEN Goto(w, "cancel_chunks")
       ELSE IF worker[w].stage = "indexing" THEN Goto(w, "bump")
       ELSE worker' = [worker EXCEPT ![w].pc = "set_stage", ![w].stage = NextStage[@]]
    /\ UNCHANGED <<db, store, mq, pub, del, crashes>>

\* increment_index_version: what readers do with it is module RetrievalCache.
BumpIndexVersion(w) ==
    /\ worker[w].pc = "bump"
    /\ Goto(w, "mark_ready")
    /\ UNCHANGED <<db, store, mq, pub, del, crashes>>

IngestPcs == {"set_stage", "work", "check", "bump"}

\* Mutants of OnUnavailable: no cleanup before the retry; cancel instead of cleanup_chunks.
OnUnavailableNoCleanup == "retry"
OnUnavailableCancel == "cancel_chunks"

OnUnavailable == "retry_cleanup"

\* ingest raises: ServiceUnavailableError is worth another attempt, anything else
\* is not.  A failed insert may have stored the chunks; a missing object is reported
\* as MinIO being unavailable.
IngestRaises(w) ==
    /\ worker[w].pc \in IngestPcs
    /\ \/ /\ \/ "unavailable" \in Faults
             \/ worker[w].pc = "work" /\ worker[w].stage = "parsing" /\ ~object[worker[w].job]
          /\ Goto(w, OnUnavailable)
       \/ "document" \in Faults /\ Goto(w, "fail_cleanup")
    /\ chunks' \in {chunks, IF worker[w].pc = "work" /\ worker[w].stage = "indexing"
                            THEN Inserted(w) ELSE chunks}
    /\ UNCHANGED <<db, object, mq, pub, del, crashes>>

\* Mutant: the return value of mark_ready is ignored.
AfterMarkReadyIgnored(r) == "ack"

AfterMarkReady(r) == IF CanMarkReady(r) THEN "ack" ELSE "cancel_chunks"

MarkReady(w) ==
    LET j == worker[w].job
    IN  /\ worker[w].pc = "mark_ready"
        /\ row' = [row EXCEPT ![j] = IF CanMarkReady(@) THEN ReadyRow(@) ELSE @]
        /\ Goto(w, AfterMarkReady(row[j]))
        /\ UNCHANGED <<outbox, store, mq, pub, del, crashes>>

\* Mutant: a cancelled document's object is not removed.
AfterCleanupKeepObject == [retry_cleanup |-> "retry", fail_cleanup |-> "mark_failed",
                           cancel_chunks |-> "mark_cancelled"]

AfterCleanup == [retry_cleanup |-> "retry", fail_cleanup |-> "mark_failed",
                 cancel_chunks |-> "cancel_object"]

\* cleanup_chunks suppresses every exception: the chunks may stay.
CleanupChunks(w) ==
    /\ worker[w].pc \in DOMAIN AfterCleanup
    /\ \/ chunks' = [chunks EXCEPT ![worker[w].job] = {}]
       \/ "cleanup" \in Faults /\ chunks' = chunks
    /\ Goto(w, AfterCleanup[worker[w].pc])
    /\ UNCHANGED <<db, object, mq, pub, del, crashes>>

\* Mutant: one attempt too many.
AttemptsLeftOffByOne(attempt) == attempt <= MaxAttempts

AttemptsLeft(attempt) == attempt < MaxAttempts

\* _retry_or_fail.  Inserting an event for a job that is gone breaks its foreign key.
Retry(w) ==
    LET j == worker[w].job
        a == worker[w].attempt
    IN  /\ worker[w].pc = "retry"
        /\ IF AttemptsLeft(a)
           THEN /\ RowExists(row[j])
                /\ row' = [row EXCEPT ![j] = RetriedRow(@, a)]
                /\ outbox' = [outbox EXCEPT ![<<j, a>>] = InsertedEvent(RetryDelay(a))]
           ELSE row' = [row EXCEPT ![j] = FailedRow(@)] /\ outbox' = outbox
        /\ Goto(w, "ack")
        /\ UNCHANGED <<store, mq, pub, del, crashes>>

MarkFailed(w) ==
    /\ worker[w].pc = "mark_failed"
    /\ row' = [row EXCEPT ![worker[w].job] = FailedRow(@)]
    /\ Goto(w, "reject")
    /\ UNCHANGED <<outbox, store, mq, pub, del, crashes>>

RemoveObject(w) ==
    /\ worker[w].pc = "cancel_object"
    /\ \/ object' = [object EXCEPT ![worker[w].job] = FALSE]
       \/ "cleanup" \in Faults /\ object' = object
    /\ Goto(w, "mark_cancelled")
    /\ UNCHANGED <<db, chunks, mq, pub, del, crashes>>

MarkCancelled(w) ==
    /\ worker[w].pc = "mark_cancelled"
    /\ row' = [row EXCEPT ![worker[w].job] = CancelledRow(@)]
    /\ Goto(w, "ack")
    /\ UNCHANGED <<outbox, store, mq, pub, del, crashes>>

\* Looking at the row or recording the outcome raises, and nothing catches it: asyncpg's
\* errors on a connection that was established are no ApiExceptions.
RecordFails(w) ==
    /\ \/ /\ "postgres" \in Faults
          /\ worker[w].pc \in {"peek", "mark_ready", "retry", "mark_failed", "mark_cancelled"}
       \/ /\ worker[w].pc = "retry" /\ AttemptsLeft(worker[w].attempt)
          /\ ~RowExists(row[worker[w].job])
    /\ Restart(w)

\* Ack and reject(requeue=False) raise on a connection that was lost meanwhile, and
\* the process ends.
Settle(w) ==
    /\ worker[w].pc \in {"ack", "reject"}
    /\ dlq' = IF worker[w].pc = "reject" /\ worker[w].unacked
              THEN dlq \union {worker[w].job} ELSE dlq
    /\ pub' = IF worker[w].unacked THEN pub ELSE [pub EXCEPT ![w] = IdlePub]
    /\ worker' = [worker EXCEPT ![w] = IdleWorker]
    /\ UNCHANGED <<db, store, queue, del, crashes>>

----------------------------------------------------------------------------
(* What happens to the processes.                                           *)

ConnectionLost(w) ==
    /\ "connection" \in Faults
    /\ worker[w].unacked
    /\ Redeliver(w)
    /\ worker' = [worker EXCEPT ![w].unacked = FALSE]
    /\ UNCHANGED <<db, store, dlq, pub, del, crashes>>

Crash(w) ==
    /\ "crash" \in Faults
    /\ crashes < MaxCrashes
    /\ worker[w] # IdleWorker \/ pub[w] # IdlePub
    /\ Redeliver(w)
    /\ worker' = [worker EXCEPT ![w] = IdleWorker]
    /\ pub' = [pub EXCEPT ![w] = IdlePub]
    /\ crashes' = crashes + 1
    /\ UNCHANGED <<db, store, dlq, del>>

Tick ==
    /\ row' = [j \in Jobs |-> RowTick(row[j])]
    /\ outbox' = [e \in EventIds |-> EventTick(outbox[e])]
    /\ UNCHANGED <<store, mq, worker, pub, del, crashes>>

----------------------------------------------------------------------------

Upload(j) == StoreUpload(j) \/ CreateJob(j)

DeleteStep(j) == DeleteChunks(j) \/ DeleteObject(j) \/ DeleteRow(j)

PublisherStep(w) ==
    \/ ClaimEvents(w) \/ MarkPublished(w) \/ Release(w)
    \/ \E e \in EventIds : Publish(w, e)

Handle(w) ==
    \/ Claim(w) \/ NothingToClaim(w) \/ Peek(w)
    \/ SetStage(w) \/ Work(w) \/ CheckCancel(w) \/ BumpIndexVersion(w) \/ IngestRaises(w)
    \/ MarkReady(w) \/ CleanupChunks(w) \/ Retry(w) \/ MarkFailed(w)
    \/ RemoveObject(w) \/ MarkCancelled(w) \/ RecordFails(w) \/ Settle(w)

WorkerStep(w) == Handle(w) \/ \E j \in Jobs : Deliver(w, j)

Request(j) == Upload(j) \/ RequestCancel(j) \/ DeleteFind(j) \/ DeleteStep(j)

Disruption ==
    \/ \E j \in Jobs : CreateJobFails(j) \/ DeleteFails(j)
    \/ \E w \in Workers : \/ AbandonBatch(w) \/ ClaimFails(w) \/ CancelIfRequestedFails(w)
                          \/ ConnectionLost(w) \/ Crash(w)
                          \/ \E e \in EventIds : PublishFails(w, e)

Next ==
    \/ \E j \in Jobs : Request(j)
    \/ \E w \in Workers : PublisherStep(w) \/ WorkerStep(w)
    \/ Disruption
    \/ Tick

Spec == Init /\ [][Next]_vars

\* Processes are restarted and their loops go on; a started request is carried out;
\* time passes.  Users need not upload, cancel or delete anything.
Fairness ==
    /\ \A w \in Workers : WF_vars(WorkerStep(w)) /\ WF_vars(PublisherStep(w))
    /\ \A j \in Jobs : WF_vars(DeleteStep(j))
    /\ WF_vars(Tick)

FairSpec == Spec /\ Fairness

----------------------------------------------------------------------------
(* Properties.                                                              *)

\* The type invariant.
TypeOK ==
    /\ row \in [Jobs -> Rows]
    /\ outbox \in [EventIds -> Events]
    /\ object \in [Jobs -> BOOLEAN]
    /\ chunks \in [Jobs -> SUBSET (1..MaxAttempts)]
    /\ queue \in [Jobs -> Nat]
    /\ dlq \subseteq Jobs
    /\ worker \in [Workers -> Handlers]
    /\ pub \in [Workers -> Publishers]
    /\ del \in [Jobs -> {"idle", "chunks", "chunks_only", "object", "row"}]
    /\ crashes \in 0..MaxCrashes

Attempting(w) == worker[w].pc \in AttemptPcs

\* No two handlers ever work on an attempt of the same job, although messages are
\* duplicated and redelivered: claim locks the row and only takes queued jobs.
SingleIngester ==
    \A v, w \in Workers :
        Attempting(v) /\ Attempting(w) /\ worker[v].job = worker[w].job => v = w

\* A job is attempted at most MaxAttempts times, and a handler's record of the
\* number, which decides between retrying and failing, is never out of date.
AttemptsCounted ==
    /\ \A j \in Jobs : row[j].attempt <= MaxAttempts
    /\ \A w \in Workers : Attempting(w) => worker[w].attempt = row[worker[w].job].attempt

\* A queued job has an event that is still to be published, a message in the queue, or
\* a handler about to claim it: no crash, lost confirmation or retry strands it.
NoStrandedJob ==
    \A j \in Jobs : row[j].status = "queued" =>
        \/ \E e \in EventIds : e[1] = j /\ outbox[e].state = "pending"
        \/ queue[j] > 0
        \/ \E w \in Workers : worker[w].pc = "claim" /\ worker[w].job = j

\* A failed or cancelled document is not searchable, and a cancelled one's file is gone.
NothingLeftBehind ==
    \A j \in Jobs :
        /\ row[j].status \in {"failed", "cancelled"} => chunks[j] = {}
        /\ row[j].status = "cancelled" => ~object[j]

\* A ready document is indexed by its last attempt and by no other.
ReadyIndexedOnce ==
    \A j \in Jobs : row[j].status = "ready" =>
        /\ chunks[j] \subseteq {row[j].attempt}
        /\ object[j] /\ del[j] # "object" => chunks[j] # {}

\* Until the job settles, or a request deletes the document, its file can be read; and a
\* ready document that can be searched has its file, however far its deletion got, unless
\* it was indexed during that deletion, which has the row left to delete.
ObjectKept ==
    \A j \in Jobs :
        /\ row[j].status \in {"queued", "processing"} /\ del[j] = "idle" => object[j]
        /\ row[j].status = "ready" /\ chunks[j] # {} => object[j] \/ del[j] = "row"

Handling(w, j) == worker[w].pc # "idle" /\ worker[w].job = j

\* Nothing is left of a deleted document once no handler works on it.
DeletedGone ==
    \A j \in Jobs :
        row[j].status = "deleted" /\ (\A w \in Workers : ~Handling(w, j)) =>
            chunks[j] = {} /\ ~object[j]

\* The detailed statuses and attempt counts are those of the abstract life of a job.
Lifecycle == INSTANCE JobLifecycle WITH
    status   <- [j \in Jobs |-> row[j].status],
    attempts <- [j \in Jobs |-> row[j].attempt]

\* One worker process, or any number when nobody cancels, implements the abstract life of
\* a job, whatever fails: settled jobs stay settled, and only a processing job becomes
\* ready.
ImplementsLifecycle == Lifecycle!Spec

\* An accepted cancellation is carried out: the job is not queued for another attempt.
CancelHonoured ==
    [][\A j \in Jobs : row[j].status = "cancel_requested" => row'[j].status # "queued"]_vars

\* Every uploaded document is settled or deleted in the end.
JobsSettle ==
    \A j \in Jobs : row[j].status \in Active ~> row[j].status \in Settled \union {"deleted"}
=============================================================================
