-------------------------- MODULE IngestionAttempts --------------------------
(***************************************************************************)
(* What module Ingestion keeps for any jobs, workers, clocks, faults and    *)
(* bounds: its types, that no two handlers work on attempts of one job, and *)
(* that a job is attempted at most MaxAttempts times.  Where no second      *)
(* handler interferes with a job: that its statuses follow JobLifecycle,    *)
(* and what is left of it in Milvus and MinIO once it is settled.           *)
(***************************************************************************)
EXTENDS Ingestion, TLAPS

----------------------------------------------------------------------------
(* The statements of the repositories keep rows rows.                       *)

LEMMA RowTypes ==
    ASSUME NEW r \in Rows
    PROVE  /\ CancelRequestedRow(r) \in Rows
           /\ ClaimedRow(r) \in Rows
           /\ \A s \in Stages : StageRow(r, s) \in Rows
           /\ ReadyRow(r) \in Rows
           /\ CancelledRow(r) \in Rows
           /\ FailedRow(r) \in Rows
           /\ \A a \in 1..MaxAttempts : RetriedRow(r, a) \in Rows
           /\ DeletedRow(r) \in Rows
           /\ RowTick(r) \in Rows
<1> USE DEF Rows, Statuses, Active, Settled, Stages, NoStage
<1>1. CancelRequestedRow(r) \in Rows
  BY DEF CancelRequestedRow
<1>2. ClaimedRow(r) \in Rows
  BY DEF ClaimedRow
<1>3. ASSUME NEW s \in Stages PROVE StageRow(r, s) \in Rows
  BY DEF StageRow
<1>4. ReadyRow(r) \in Rows
  BY DEF ReadyRow
<1>5. \A s \in Statuses : Finished(r, s) \in Rows
  BY DEF Finished
<1>6. CancelledRow(r) \in Rows /\ FailedRow(r) \in Rows
  BY <1>5 DEF CancelledRow, FailedRow
<1>7. \A a \in 1..MaxAttempts : RetriedRow(r, a) \in Rows
  BY <1>5, RepositoryAssumption DEF RetriedRow
<1>8. DeletedRow(r) \in Rows
  BY DEF DeletedRow
<1>9. RowTick(r) \in Rows
  BY RepositoryAssumption DEF RowTick
<1>10. QED
  BY <1>1, <1>2, <1>3, <1>4, <1>6, <1>7, <1>8, <1>9

LEMMA EventTypes ==
    ASSUME NEW e \in Events
    PROVE  /\ LockedEvent(e) \in Events
           /\ PublishedEvent(e) \in Events
           /\ ReleasedEvent(e) \in Events
           /\ EventTick(e) \in Events
           /\ NoEventRow \in Events
           /\ \A d \in Nat : InsertedEvent(d) \in Events
<1> USE RepositoryAssumption DEF Events, EventStates
<1>1. LockedEvent(e) \in Events
  BY DEF LockedEvent
<1>2. PublishedEvent(e) \in Events
  BY DEF PublishedEvent
<1>3. ReleasedEvent(e) \in Events
  BY DEF ReleasedEvent
<1>4. EventTick(e) \in Events
  <2>1. Earlier(e.wait) \in Nat
    BY DEF Earlier
  <2>2. Earlier(e.lock) \in 0..LockTicks
    BY DEF Earlier
  <2>3. QED
    BY <2>1, <2>2 DEF EventTick
<1>5. NoEventRow \in Events
  BY DEF NoEventRow
<1>6. \A d \in Nat : InsertedEvent(d) \in Events
  BY DEF InsertedEvent
<1>7. QED
  BY <1>1, <1>2, <1>3, <1>4, <1>5, <1>6

----------------------------------------------------------------------------

\* A busy handler has a job; a publisher handles an event of its batch.
Busy ==
    /\ \A w \in Workers : worker[w].pc # "idle" => worker[w].job \in Jobs
    /\ \A w \in Workers : worker[w].unacked => worker[w].pc # "idle"
    /\ \A w \in Workers : pub[w].phase # "publish" => pub[w].event \in pub[w].batch

\* A handler in an attempt holds the current number of a job nobody can claim.
ClaimsHeld ==
    \A w \in Workers : Attempting(w) =>
        /\ worker[w].attempt = row[worker[w].job].attempt
        /\ worker[w].attempt \in 1..MaxAttempts
        /\ row[worker[w].job].status \notin {"absent", "queued"}

\* A job that can be claimed may be attempted once more.
AttemptsRemain ==
    \A j \in Jobs : /\ row[j].attempt <= MaxAttempts
                    /\ row[j].status = "queued" => row[j].attempt < MaxAttempts
                    /\ row[j].status = "absent" => row[j].attempt = 0

IInv == TypeOK /\ Busy /\ ClaimsHeld /\ AttemptsRemain /\ SingleIngester

LEMMA InitIInv == Init => IInv
<1> SUFFICES ASSUME Init PROVE IInv
  OBVIOUS
<1> USE RepositoryAssumption, IngestionAssumption DEF Init
<1>1. TypeOK
  BY EventTypes DEF TypeOK, NoRow, Rows, Statuses, NoStage, NoEventRow, Events, EventStates,
     IdleWorker, WorkerPcs, Attempts, Stages, IdlePub, Handlers, Publishers
<1>2. Busy
  BY DEF Busy, IdleWorker, IdlePub
<1>3. ~\E w \in Workers : Attempting(w)
  BY DEF Attempting, AttemptPcs, IdleWorker
<1>4. AttemptsRemain
  BY DEF AttemptsRemain, NoRow
<1>5. QED
  BY <1>1, <1>2, <1>3, <1>4 DEF IInv, ClaimsHeld, SingleIngester

\* The changes the handlers and publishers make to their own state.
LEMMA HandlerTypes ==
    ASSUME TypeOK, NEW w \in Workers
    PROVE  /\ worker[w] \in Handlers
           /\ \A pc \in WorkerPcs : Goto(w, pc) => worker' \in [Workers -> Handlers]
           /\ IdleWorker \in Handlers
           /\ \A h \in Handlers :
                 worker' = [worker EXCEPT ![w] = h] => worker' \in [Workers -> Handlers]
           /\ \A stage \in Stages :
                 worker' = [worker EXCEPT ![w].pc = "set_stage", ![w].stage = stage]
                     => worker' \in [Workers -> Handlers]
           /\ \A a \in Attempts :
                 worker' = [worker EXCEPT ![w].pc = "set_stage", ![w].stage = "parsing",
                                          ![w].attempt = a]
                     => worker' \in [Workers -> Handlers]
<1>1. worker \in [Workers -> Handlers]
  BY DEF TypeOK
<1>2. ASSUME NEW pc \in WorkerPcs, Goto(w, pc) PROVE worker' \in [Workers -> Handlers]
  BY <1>1, <1>2 DEF Goto, Handlers
<1>3. IdleWorker \in Handlers
  BY RepositoryAssumption DEF IdleWorker, Handlers, WorkerPcs, Attempts, Stages
<1>4. "set_stage" \in WorkerPcs /\ "parsing" \in Stages
  BY DEF WorkerPcs, AttemptPcs, Stages
<1>5. ASSUME NEW stage \in Stages,
             worker' = [worker EXCEPT ![w].pc = "set_stage", ![w].stage = stage]
      PROVE  worker' \in [Workers -> Handlers]
  BY <1>1, <1>4, <1>5 DEF Handlers
<1>6. ASSUME NEW a \in Attempts,
             worker' = [worker EXCEPT ![w].pc = "set_stage", ![w].stage = "parsing",
                                      ![w].attempt = a]
      PROVE  worker' \in [Workers -> Handlers]
  BY <1>1, <1>4, <1>6 DEF Handlers
<1>7. QED
  BY <1>1, <1>2, <1>3, <1>5, <1>6

LEMMA QueueTypes ==
    ASSUME TypeOK, NEW j \in Jobs, queue' = [queue EXCEPT ![j] = @ + 1]
    PROVE  queue' \in [Jobs -> Nat]
  BY DEF TypeOK

LEMMA PublisherTypes ==
    ASSUME TypeOK, NEW w \in Workers
    PROVE  /\ pub[w] \in Publishers
           /\ IdlePub \in Publishers
           /\ NextEvent(pub[w]) \in Publishers
           /\ \A p \in Publishers :
                 pub' = [pub EXCEPT ![w] = p] => pub' \in [Workers -> Publishers]
           /\ \A e \in EventIds, phase \in {"mark", "release"} :
                 pub' = [pub EXCEPT ![w].phase = phase, ![w].event = e]
                     => pub' \in [Workers -> Publishers]
           /\ \A S \in SUBSET EventIds :
                 pub' = [pub EXCEPT ![w].batch = S] => pub' \in [Workers -> Publishers]
<1>1. pub \in [Workers -> Publishers]
  BY DEF TypeOK
<1>2. IdlePub \in Publishers /\ NextEvent(pub[w]) \in Publishers
  BY <1>1 DEF IdlePub, NextEvent, Publishers
<1>3. ASSUME NEW e \in EventIds, NEW phase \in {"mark", "release"},
             pub' = [pub EXCEPT ![w].phase = phase, ![w].event = e]
      PROVE  pub' \in [Workers -> Publishers]
  BY <1>1, <1>3 DEF Publishers
<1>4. ASSUME NEW S \in SUBSET EventIds, pub' = [pub EXCEPT ![w].batch = S]
      PROVE  pub' \in [Workers -> Publishers]
  BY <1>1, <1>4 DEF Publishers
<1>5. QED
  BY <1>1, <1>2, <1>3, <1>4

LEMMA RedeliverType ==
    ASSUME IInv, NEW w \in Workers, Redeliver(w)
    PROVE  queue' \in [Jobs -> Nat]
<1>1. queue \in [Jobs -> Nat]
  BY DEF IInv, TypeOK
<1>2. CASE worker[w].unacked
  <2>1. queue' = [queue EXCEPT ![worker[w].job] = @ + 1]
    BY <1>2 DEF Redeliver
  <2>2. worker[w].job \in Jobs
    BY <1>2 DEF IInv, Busy
  <2>3. QED
    BY <1>1, <2>1, <2>2
<1>3. CASE ~worker[w].unacked
  BY <1>1, <1>3 DEF Redeliver
<1>4. QED
  BY <1>2, <1>3

LEMMA RestartType ==
    ASSUME IInv, NEW w \in Workers, Restart(w)
    PROVE  TypeOK'
<1>1. queue' \in [Jobs -> Nat]
  BY RedeliverType DEF Restart
<1>2. worker' \in [Workers -> Handlers]
  BY HandlerTypes DEF Restart, IInv
<1>3. pub' \in [Workers -> Publishers]
  BY PublisherTypes DEF Restart, IInv, TypeOK
<1>4. QED
  BY <1>1, <1>2, <1>3 DEF Restart, IInv, TypeOK, db, store

\* What an attempt writes: chunks under its number, and a retry's event.
LEMMA AttemptTypes ==
    ASSUME IInv, NEW w \in Workers, Attempting(w)
    PROVE  /\ worker[w].job \in Jobs
           /\ worker[w].attempt \in 1..MaxAttempts
           /\ Inserted(w) \in [Jobs -> SUBSET (1..MaxAttempts)]
           /\ row' = [row EXCEPT ![worker[w].job] = RetriedRow(@, worker[w].attempt)]
                 => row' \in [Jobs -> Rows]
           /\ RetryDelay(worker[w].attempt) \in Nat
<1>1. worker[w].job \in Jobs /\ worker[w].attempt \in 1..MaxAttempts
  BY DEF IInv, Busy, ClaimsHeld, Attempting, AttemptPcs
<1>2. Inserted(w) \in [Jobs -> SUBSET (1..MaxAttempts)]
  BY <1>1 DEF IInv, TypeOK, Inserted
<1>3. row \in [Jobs -> Rows]
  BY DEF IInv, TypeOK
<1>4. QED
  BY <1>1, <1>2, <1>3, RowTypes, RepositoryAssumption

LEMMA TypeStep ==
    ASSUME IInv, [Next]_vars
    PROVE  TypeOK'
<1> USE RepositoryAssumption, IngestionAssumption
    DEF IInv, TypeOK, db, store, mq
<1>1. ASSUME NEW j \in Jobs, StoreUpload(j) PROVE TypeOK'
  BY <1>1 DEF StoreUpload
<1>2. ASSUME NEW j \in Jobs, CreateJob(j) PROVE TypeOK'
  <2>1. CreatedRow \in Rows /\ InsertedEvent(0) \in Events
    BY EventTypes, <1>2 DEF CreatedRow, Rows, Statuses, Active, NoStage, InsertedEvent, Events,
       EventStates
  <2>2. QED
    BY <1>2, <2>1 DEF CreateJob
<1>3. ASSUME NEW j \in Jobs, RequestCancel(j) PROVE TypeOK'
  BY <1>3, RowTypes DEF RequestCancel
<1>4. ASSUME NEW j \in Jobs, DeleteFind(j) PROVE TypeOK'
  BY <1>4 DEF DeleteFind
<1>5. ASSUME NEW j \in Jobs, DeleteChunks(j) PROVE TypeOK'
  BY <1>5 DEF DeleteChunks
<1>6. ASSUME NEW j \in Jobs, DeleteObject(j) PROVE TypeOK'
  BY <1>6 DEF DeleteObject
<1>7. ASSUME NEW j \in Jobs, DeleteRow(j) PROVE TypeOK'
  BY <1>7, RowTypes, EventTypes DEF DeleteRow
<1>8. ASSUME NEW j \in Jobs, CreateJobFails(j) PROVE TypeOK'
  BY <1>8 DEF CreateJobFails
<1>9. ASSUME NEW j \in Jobs, DeleteFails(j) PROVE TypeOK'
  BY <1>9 DEF DeleteFails
<1>10. ASSUME NEW w \in Workers, ClaimEvents(w) PROVE TypeOK'
  <2>1. PICK S \in SUBSET EventIds :
          /\ pub' = [pub EXCEPT ![w].batch = S]
          /\ outbox' = [e \in EventIds |-> IF e \in S THEN LockedEvent(outbox[e]) ELSE outbox[e]]
    BY <1>10 DEF ClaimEvents
  <2>2. pub' \in [Workers -> Publishers]
    BY <2>1, PublisherTypes
  <2>3. outbox' \in [EventIds -> Events]
    BY <2>1, EventTypes
  <2>4. QED
    BY <1>10, <2>2, <2>3 DEF ClaimEvents
<1>11. ASSUME NEW w \in Workers, MarkPublished(w) PROVE TypeOK'
  BY <1>11, EventTypes, PublisherTypes DEF MarkPublished
<1>12. ASSUME NEW w \in Workers, Release(w) PROVE TypeOK'
  BY <1>12, EventTypes, PublisherTypes DEF Release
<1>13. ASSUME NEW w \in Workers, AbandonBatch(w) PROVE TypeOK'
  BY <1>13, PublisherTypes DEF AbandonBatch
<1>14. ASSUME NEW w \in Workers, ClaimFails(w) PROVE TypeOK'
  BY <1>14, RestartType DEF ClaimFails
<1>15. ASSUME NEW w \in Workers, CancelIfRequestedFails(w) PROVE TypeOK'
  BY <1>15, HandlerTypes DEF CancelIfRequestedFails, WorkerPcs, AttemptPcs, CancelPcs
<1>16. ASSUME NEW w \in Workers, ConnectionLost(w) PROVE TypeOK'
  <2>1. queue' \in [Jobs -> Nat]
    BY <1>16, RedeliverType DEF ConnectionLost
  <2>2. worker' \in [Workers -> Handlers]
    BY <1>16, HandlerTypes DEF ConnectionLost, Handlers
  <2>3. QED
    BY <1>16, <2>1, <2>2 DEF ConnectionLost
<1>17. ASSUME NEW w \in Workers, Crash(w) PROVE TypeOK'
  <2>1. queue' \in [Jobs -> Nat]
    BY <1>17, RedeliverType DEF Crash
  <2>2. worker' \in [Workers -> Handlers]
    BY <1>17, HandlerTypes DEF Crash
  <2>3. pub' \in [Workers -> Publishers]
    BY <1>17, PublisherTypes DEF Crash
  <2>4. crashes' \in 0..MaxCrashes
    BY <1>17 DEF Crash
  <2>5. QED
    BY <1>17, <2>1, <2>2, <2>3, <2>4 DEF Crash
<1>18. ASSUME NEW w \in Workers, Claim(w) PROVE TypeOK'
  <2>1. worker[w].job \in Jobs
    BY <1>18 DEF Claim, Busy
  <2>2. row' \in [Jobs -> Rows]
    BY <1>18, <2>1, RowTypes DEF Claim
  <2>3. row[worker[w].job].attempt + 1 \in Attempts
    BY <1>18, <2>1 DEF Claim, CanClaim, AttemptsRemain, Attempts, Rows
  <2>4. worker' \in [Workers -> Handlers]
    BY <1>18, <2>3, HandlerTypes DEF Claim
  <2>5. QED
    BY <1>18, <2>2, <2>4 DEF Claim
<1>19. ASSUME NEW w \in Workers, NothingToClaim(w) PROVE TypeOK'
  BY <1>19, HandlerTypes DEF NothingToClaim, WorkerPcs, AttemptPcs, CancelPcs
<1>20. ASSUME NEW w \in Workers, Peek(w) PROVE TypeOK'
  BY <1>20, HandlerTypes DEF Peek, WorkerPcs, AttemptPcs, CancelPcs
<1>21. ASSUME NEW w \in Workers, SetStage(w) PROVE TypeOK'
  <2>1. worker[w].job \in Jobs /\ worker[w].stage \in Stages
    BY <1>21 DEF SetStage, Busy, Handlers
  <2>2. row' \in [Jobs -> Rows]
    BY <1>21, <2>1, RowTypes DEF SetStage
  <2>3. worker' \in [Workers -> Handlers]
    BY <1>21, HandlerTypes DEF SetStage, WorkerPcs, AttemptPcs
  <2>4. QED
    BY <1>21, <2>2, <2>3 DEF SetStage
<1>22. ASSUME NEW w \in Workers, Work(w) PROVE TypeOK'
  <2>1. Inserted(w) \in [Jobs -> SUBSET (1..MaxAttempts)]
    BY <1>22, AttemptTypes DEF Work, Attempting, AttemptPcs
  <2>2. worker' \in [Workers -> Handlers]
    BY <1>22, HandlerTypes DEF Work, WorkerPcs, AttemptPcs
  <2>3. QED
    BY <1>22, <2>1, <2>2 DEF Work
<1>23. ASSUME NEW w \in Workers, CheckCancel(w) PROVE TypeOK'
  <2>1. ASSUME worker[w].stage # "indexing" PROVE NextStage[worker[w].stage] \in Stages
    BY <2>1 DEF NextStage, Stages, Handlers
  <2>2. worker' \in [Workers -> Handlers]
    <3>1. CASE Goto(w, "cancel_chunks") \/ Goto(w, "bump")
      BY <3>1, HandlerTypes DEF WorkerPcs, AttemptPcs, CancelPcs
    <3>2. CASE /\ worker[w].stage # "indexing"
               /\ worker' = [worker EXCEPT ![w].pc = "set_stage", ![w].stage = NextStage[@]]
      BY <2>1, <3>2, HandlerTypes
    <3>3. QED
      BY <1>23, <3>1, <3>2 DEF CheckCancel
  <2>3. QED
    BY <1>23, <2>2 DEF CheckCancel
<1>24. ASSUME NEW w \in Workers, BumpIndexVersion(w) PROVE TypeOK'
  BY <1>24, HandlerTypes DEF BumpIndexVersion, WorkerPcs, AttemptPcs, CancelPcs
<1>25. ASSUME NEW w \in Workers, IngestRaises(w) PROVE TypeOK'
  <2>1. Inserted(w) \in [Jobs -> SUBSET (1..MaxAttempts)]
    BY <1>25, AttemptTypes DEF IngestRaises, IngestPcs, Attempting, AttemptPcs
  <2>2. worker' \in [Workers -> Handlers]
    BY <1>25, HandlerTypes DEF IngestRaises, OnUnavailable, WorkerPcs, AttemptPcs
  <2>3. chunks' \in [Jobs -> SUBSET (1..MaxAttempts)]
    BY <1>25, <2>1 DEF IngestRaises
  <2>4. QED
    BY <1>25, <2>2, <2>3 DEF IngestRaises
<1>26. ASSUME NEW w \in Workers, MarkReady(w) PROVE TypeOK'
  <2>1. worker[w].job \in Jobs
    BY <1>26 DEF MarkReady, Busy
  <2>2. row' \in [Jobs -> Rows]
    BY <1>26, <2>1, RowTypes DEF MarkReady
  <2>3. worker' \in [Workers -> Handlers]
    BY <1>26, HandlerTypes DEF MarkReady, AfterMarkReady, WorkerPcs, CancelPcs
  <2>4. QED
    BY <1>26, <2>2, <2>3 DEF MarkReady
<1>27. ASSUME NEW w \in Workers, CleanupChunks(w) PROVE TypeOK'
  <2>1. AfterCleanup[worker[w].pc] \in WorkerPcs
    BY <1>27 DEF CleanupChunks, AfterCleanup, WorkerPcs, AttemptPcs, CancelPcs
  <2>2. worker' \in [Workers -> Handlers]
    BY <1>27, <2>1, HandlerTypes DEF CleanupChunks
  <2>3. chunks' \in [Jobs -> SUBSET (1..MaxAttempts)]
    BY <1>27 DEF CleanupChunks
  <2>4. QED
    BY <1>27, <2>2, <2>3 DEF CleanupChunks
<1>28. ASSUME NEW w \in Workers, Retry(w) PROVE TypeOK'
  <2>1. worker[w].job \in Jobs /\ RetryDelay(worker[w].attempt) \in Nat
    BY <1>28, AttemptTypes DEF Retry, Attempting, AttemptPcs
  <2>2. row' \in [Jobs -> Rows]
    <3>1. CASE AttemptsLeft(worker[w].attempt)
      BY <1>28, <3>1, AttemptTypes DEF Retry, Attempting, AttemptPcs
    <3>2. CASE ~AttemptsLeft(worker[w].attempt)
      BY <1>28, <2>1, <3>2, RowTypes DEF Retry
    <3>3. QED
      BY <3>1, <3>2
  <2>3. outbox' \in [EventIds -> Events]
    BY <1>28, <2>1, EventTypes DEF Retry
  <2>4. worker' \in [Workers -> Handlers]
    BY <1>28, HandlerTypes DEF Retry, WorkerPcs
  <2>5. QED
    BY <1>28, <2>2, <2>3, <2>4 DEF Retry
<1>29. ASSUME NEW w \in Workers, MarkFailed(w) PROVE TypeOK'
  BY <1>29, RowTypes, HandlerTypes DEF MarkFailed, WorkerPcs, AttemptPcs, CancelPcs
<1>30. ASSUME NEW w \in Workers, RemoveObject(w) PROVE TypeOK'
  BY <1>30, HandlerTypes DEF RemoveObject, WorkerPcs, AttemptPcs, CancelPcs
<1>31. ASSUME NEW w \in Workers, MarkCancelled(w) PROVE TypeOK'
  BY <1>31, RowTypes, HandlerTypes DEF MarkCancelled, WorkerPcs, AttemptPcs, CancelPcs
<1>32. ASSUME NEW w \in Workers, RecordFails(w) PROVE TypeOK'
  BY <1>32, RestartType DEF RecordFails
<1>33. ASSUME NEW w \in Workers, Settle(w) PROVE TypeOK'
  <2>1. worker[w].job \in Jobs
    BY <1>33 DEF Settle, Busy
  <2>2. dlq' \subseteq Jobs /\ pub' \in [Workers -> Publishers] /\ worker' \in [Workers -> Handlers]
    BY <1>33, <2>1, HandlerTypes, PublisherTypes DEF Settle
  <2>3. QED
    BY <1>33, <2>2 DEF Settle
<1>34. ASSUME NEW w \in Workers, NEW e \in EventIds, Publish(w, e) PROVE TypeOK'
  <2>1. e[1] \in Jobs
    BY <1>34 DEF EventIds
  <2>2. queue' \in [Jobs -> Nat]
    BY <1>34, <2>1, QueueTypes DEF Publish
  <2>3. pub' \in [Workers -> Publishers]
    BY <1>34, PublisherTypes DEF Publish
  <2>4. QED
    BY <1>34, <2>2, <2>3 DEF Publish
<1>35. ASSUME NEW w \in Workers, NEW e \in EventIds, PublishFails(w, e) PROVE TypeOK'
  <2>1. e[1] \in Jobs
    BY <1>35 DEF EventIds
  <2>2. queue' \in [Jobs -> Nat]
    BY <1>35, <2>1, QueueTypes DEF PublishFails
  <2>3. pub' \in [Workers -> Publishers]
    BY <1>35, PublisherTypes DEF PublishFails
  <2>4. QED
    BY <1>35, <2>2, <2>3 DEF PublishFails
<1>36. ASSUME NEW w \in Workers, NEW j \in Jobs, Deliver(w, j) PROVE TypeOK'
  <2>1. queue' \in [Jobs -> Nat]
    BY <1>36 DEF Deliver
  <2>2. Received(j) \in Handlers
    BY <1>36 DEF Received, Handlers, WorkerPcs, Attempts, Stages
  <2>3. QED
    BY <1>36, <2>1, <2>2, HandlerTypes DEF Deliver
<1>37. CASE Tick
  BY <1>37, RowTypes, EventTypes DEF Tick
<1>38. CASE UNCHANGED vars
  BY <1>38 DEF vars
<1>39. QED
  BY <1>1, <1>2, <1>3, <1>4, <1>5, <1>6, <1>7, <1>8, <1>9, <1>10, <1>11, <1>12, <1>13, <1>14, <1>15, <1>16, <1>17, <1>18, <1>19, <1>20, <1>21, <1>22, <1>23, <1>24, <1>25, <1>26, <1>27, <1>28, <1>29, <1>30, <1>31, <1>32, <1>33, <1>34, <1>35, <1>36, <1>37, <1>38
     DEF Next, Request, Upload, DeleteStep, PublisherStep, WorkerStep, Handle, Disruption

----------------------------------------------------------------------------

LEMMA BusyStep ==
    ASSUME IInv, [Next]_vars
    PROVE  Busy'
<1> USE DEF IInv, Busy, TypeOK, Handlers, Publishers
<1>1. CASE UNCHANGED <<worker, pub>>
  BY <1>1
<1>2. ASSUME NEW w \in Workers, PublisherStep(w) \/ AbandonBatch(w) \/ (\E e \in EventIds : PublishFails(w, e))
      PROVE  Busy'
  <2>1. worker' = worker
    BY <1>2 DEF PublisherStep, ClaimEvents, MarkPublished, Release, Publish, PublishFails, AbandonBatch
  <2>2. \A v \in Workers : pub'[v].phase # "publish" => pub'[v].event \in pub'[v].batch
    <3>1. CASE ClaimEvents(w)
      BY <3>1 DEF ClaimEvents, IdlePub
    <3>2. CASE MarkPublished(w) \/ Release(w)
      <4>1. pub' = [pub EXCEPT ![w] = NextEvent(@)] /\ NextEvent(pub[w]).phase = "publish"
        BY <3>2 DEF MarkPublished, Release, NextEvent
      <4>2. QED
        BY <4>1
    <3>3. CASE \E e \in EventIds : Publish(w, e) \/ PublishFails(w, e)
      BY <3>3 DEF Publish, PublishFails
    <3>4. CASE AbandonBatch(w)
      BY <3>4 DEF AbandonBatch, IdlePub
    <3>5. QED
      BY <1>2, <3>1, <3>2, <3>3, <3>4 DEF PublisherStep
  <2>3. QED
    BY <2>1, <2>2
<1>3. ASSUME NEW w \in Workers, NEW j \in Jobs, Deliver(w, j) PROVE Busy'
  BY <1>3 DEF Deliver, Received
<1>4. ASSUME NEW w \in Workers, NEW pc \in WorkerPcs \ {"idle"}, worker[w].pc # "idle", Goto(w, pc),
             UNCHANGED pub
      PROVE  Busy'
  BY <1>4 DEF Goto
<1>5. ASSUME NEW w \in Workers, worker' = [worker EXCEPT ![w] = IdleWorker],
             pub' \in {pub, [pub EXCEPT ![w] = IdlePub]}
      PROVE  Busy'
  BY <1>5 DEF IdleWorker, IdlePub
<1>6. ASSUME NEW w \in Workers, Claim(w) PROVE Busy'
  BY <1>6 DEF Claim
<1>7. ASSUME NEW w \in Workers, CheckCancel(w) PROVE Busy'
  <2>1. CASE \E pc \in WorkerPcs \ {"idle"} : Goto(w, pc)
    BY <1>4, <1>7, <2>1 DEF CheckCancel
  <2>2. CASE worker' = [worker EXCEPT ![w].pc = "set_stage", ![w].stage = NextStage[@]]
    BY <1>7, <2>2 DEF CheckCancel
  <2>3. QED
    BY <1>7, <2>1, <2>2 DEF CheckCancel, WorkerPcs, AttemptPcs, CancelPcs
<1>8. ASSUME NEW w \in Workers, ConnectionLost(w) PROVE Busy'
  BY <1>8 DEF ConnectionLost
<1>9. ASSUME NEW w \in Workers,
             \/ NothingToClaim(w) \/ Peek(w) \/ SetStage(w) \/ Work(w) \/ BumpIndexVersion(w)
             \/ IngestRaises(w) \/ MarkReady(w) \/ CleanupChunks(w) \/ Retry(w) \/ MarkFailed(w)
             \/ RemoveObject(w) \/ MarkCancelled(w) \/ CancelIfRequestedFails(w)
      PROVE  Busy'
  <2>1. \E pc \in WorkerPcs \ {"idle"} : Goto(w, pc)
    BY <1>9 DEF NothingToClaim, Peek, SetStage, Work, BumpIndexVersion, IngestRaises, OnUnavailable,
       MarkReady, AfterMarkReady, CleanupChunks, AfterCleanup, Retry, MarkFailed, RemoveObject,
       MarkCancelled, CancelIfRequestedFails, WorkerPcs, AttemptPcs, CancelPcs
  <2>2. worker[w].pc # "idle" /\ pub' = pub
    BY <1>9 DEF NothingToClaim, Peek, SetStage, Work, BumpIndexVersion, IngestRaises, IngestPcs,
       MarkReady, CleanupChunks, AfterCleanup, Retry, MarkFailed, RemoveObject,
       MarkCancelled, CancelIfRequestedFails
  <2>3. QED
    BY <1>4, <2>1, <2>2
<1>10. ASSUME NEW w \in Workers, ClaimFails(w) \/ RecordFails(w) \/ Settle(w) \/ Crash(w) PROVE Busy'
  BY <1>5, <1>10 DEF ClaimFails, RecordFails, Restart, Settle, Crash
<1>11. CASE \/ \E j \in Jobs : Request(j) \/ CreateJobFails(j) \/ DeleteFails(j)
            \/ Tick \/ UNCHANGED vars
  <2>1. UNCHANGED <<worker, pub>>
    BY <1>11 DEF Request, Upload, StoreUpload, CreateJob, RequestCancel, DeleteFind, DeleteStep,
       DeleteChunks, DeleteObject, DeleteRow, CreateJobFails, DeleteFails, Tick, vars
  <2>2. QED
    BY <1>1, <2>1
<1>12. QED
  BY <1>2, <1>3, <1>6, <1>7, <1>8, <1>9, <1>10, <1>11
     DEF Next, WorkerStep, Handle, Disruption

----------------------------------------------------------------------------
(* Only three steps start an attempt or make a job claimable; every other   *)
(* step is quiet.                                                           *)

Requeue(w) == Retry(w) /\ AttemptsLeft(worker[w].attempt)

\* Attempts go on or end.
QuietWorkers ==
    \A w \in Workers : Attempting(w)' =>
        /\ Attempting(w)
        /\ worker'[w].job = worker[w].job
        /\ worker'[w].attempt = worker[w].attempt

\* No row becomes queued.
QuietTable ==
    \A j \in Jobs :
        /\ row'[j].attempt = row[j].attempt
        /\ row'[j].status # row[j].status => row'[j].status \notin {"absent", "queued"}

Quiet == QuietWorkers /\ QuietTable

LEMMA QuietRows ==
    ASSUME NEW r \in Rows
    PROVE  /\ \A q \in {CancelRequestedRow(r), ReadyRow(r), CancelledRow(r), FailedRow(r),
                        DeletedRow(r), RowTick(r)} :
                 /\ q.attempt = r.attempt
                 /\ q.status # r.status => q.status \notin {"absent", "queued"}
           /\ \A s \in Stages : /\ StageRow(r, s).attempt = r.attempt
                               /\ StageRow(r, s).status = r.status
<1> USE DEF Rows
<1>1. \A q \in {CancelRequestedRow(r), ReadyRow(r), RowTick(r)} :
         q.attempt = r.attempt /\ (q.status # r.status => q.status \notin {"absent", "queued"})
  BY DEF CancelRequestedRow, ReadyRow, RowTick
<1>2. \A q \in {CancelledRow(r), FailedRow(r), DeletedRow(r)} :
         q.attempt = r.attempt /\ (q.status # r.status => q.status \notin {"absent", "queued"})
  BY DEF CancelledRow, FailedRow, DeletedRow, Finished
<1>3. \A s \in Stages : /\ StageRow(r, s).attempt = r.attempt
                       /\ StageRow(r, s).status = r.status
  BY DEF StageRow
<1>4. QED
  BY <1>1, <1>2, <1>3

LEMMA QuietStep ==
    ASSUME IInv, [Next]_vars
    PROVE  \/ Quiet
           \/ \E j \in Jobs : CreateJob(j)
           \/ \E w \in Workers : Claim(w) \/ Requeue(w)
<1>1. worker \in [Workers -> Handlers] /\ row \in [Jobs -> Rows]
  BY DEF IInv, TypeOK
<1>2. ASSUME UNCHANGED worker PROVE QuietWorkers
  BY <1>2 DEF Attempting, QuietWorkers
<1>3. ASSUME UNCHANGED row PROVE QuietTable
  BY <1>3 DEF QuietTable
\* A handler moves on within its attempt or leaves it.
<1>4. ASSUME NEW w \in Workers, NEW pc, Goto(w, pc), pc \in AttemptPcs => Attempting(w)
      PROVE  QuietWorkers
  BY <1>1, <1>4 DEF Goto, Attempting, Handlers, QuietWorkers
<1>5. ASSUME NEW w \in Workers, NEW h \in Handlers, worker' = [worker EXCEPT ![w] = h],
             h.pc \notin AttemptPcs
      PROVE  QuietWorkers
  BY <1>1, <1>5 DEF Attempting, QuietWorkers
<1>6. ASSUME NEW j \in Jobs, NEW q,
             q.attempt = row[j].attempt,
             q.status # row[j].status => q.status \notin {"absent", "queued"},
             row' = [row EXCEPT ![j] = q]
      PROVE  QuietTable
  BY <1>1, <1>6 DEF QuietTable
<1>7. CASE \E j \in Jobs : \/ StoreUpload(j) \/ RequestCancel(j) \/ DeleteFind(j) \/ DeleteStep(j)
                          \/ CreateJobFails(j) \/ DeleteFails(j)
  <2>1. UNCHANGED worker
    BY <1>7 DEF StoreUpload, RequestCancel, DeleteFind, DeleteStep, DeleteChunks, DeleteObject,
       DeleteRow, CreateJobFails, DeleteFails
  <2>2. QuietTable
    <3>1. CASE UNCHANGED row
      BY <1>3, <3>1
    <3>2. ASSUME NEW j \in Jobs, RequestCancel(j) PROVE QuietTable
      BY <1>1, <1>6, <3>2, QuietRows DEF RequestCancel
    <3>3. ASSUME NEW j \in Jobs, DeleteRow(j) PROVE QuietTable
      BY <1>1, <1>6, <3>3, QuietRows DEF DeleteRow
    <3>4. QED
      BY <1>7, <3>1, <3>2, <3>3
         DEF StoreUpload, DeleteFind, DeleteStep, DeleteChunks, DeleteObject, CreateJobFails,
         DeleteFails, db
  <2>3. QED
    BY <1>2, <2>1, <2>2 DEF Quiet
<1>8. CASE \E w \in Workers : \/ PublisherStep(w) \/ AbandonBatch(w)
                             \/ \E e \in EventIds : PublishFails(w, e)
  <2>1. UNCHANGED <<worker, row>>
    BY <1>8 DEF PublisherStep, ClaimEvents, MarkPublished, Release, Publish, PublishFails,
       AbandonBatch, db
  <2>2. QED
    BY <1>2, <1>3, <2>1 DEF Quiet
<1>9. ASSUME NEW w \in Workers,
             \/ ClaimFails(w) \/ RecordFails(w) \/ Settle(w) \/ Crash(w)
             \/ \E j \in Jobs : Deliver(w, j)
      PROVE  Quiet
  <2>1. UNCHANGED row
    BY <1>9 DEF ClaimFails, RecordFails, Restart, Settle, Crash, Deliver, db
  <2>2. \E h \in Handlers : worker' = [worker EXCEPT ![w] = h] /\ h.pc \in {"idle", "claim"}
    <3>1. IdleWorker \in Handlers /\ IdleWorker.pc = "idle"
      BY RepositoryAssumption DEF IdleWorker, Handlers, WorkerPcs, Attempts, Stages
    <3>2. \A j \in Jobs : Received(j) \in Handlers /\ Received(j).pc = "claim"
      BY RepositoryAssumption DEF Received, Handlers, WorkerPcs, Attempts, Stages
    <3>3. QED
      BY <1>9, <3>1, <3>2 DEF ClaimFails, RecordFails, Restart, Settle, Crash, Deliver
  <2>3. QED
    BY <1>3, <1>5, <2>1, <2>2 DEF Quiet, AttemptPcs
<1>10. ASSUME NEW w \in Workers,
              \/ NothingToClaim(w) \/ Peek(w) \/ Work(w) \/ BumpIndexVersion(w) \/ IngestRaises(w)
              \/ CleanupChunks(w) \/ RemoveObject(w) \/ CancelIfRequestedFails(w)
       PROVE  Quiet
  <2>1. UNCHANGED row
    BY <1>10 DEF NothingToClaim, Peek, Work, BumpIndexVersion, IngestRaises, CleanupChunks,
       RemoveObject, CancelIfRequestedFails, db
  <2>2. \E pc : Goto(w, pc) /\ (pc \in AttemptPcs => Attempting(w))
    BY <1>10 DEF NothingToClaim, Peek, Work, BumpIndexVersion, IngestRaises, IngestPcs, CleanupChunks,
       AfterCleanup, RemoveObject, CancelIfRequestedFails, Attempting, AttemptPcs
  <2>3. QED
    BY <1>3, <1>4, <2>1, <2>2 DEF Quiet
<1>11. ASSUME NEW w \in Workers,
              SetStage(w) \/ MarkReady(w) \/ MarkFailed(w) \/ MarkCancelled(w)
       PROVE  Quiet
  <2>1. worker[w].job \in Jobs /\ worker[w].stage \in Stages
    BY <1>1, <1>11 DEF IInv, Busy, Handlers, SetStage, MarkReady, MarkFailed, MarkCancelled
  <2>2. QuietTable
    <3>1. CASE SetStage(w)
      <4>1. /\ StageRow(row[worker[w].job], worker[w].stage).attempt = row[worker[w].job].attempt
            /\ StageRow(row[worker[w].job], worker[w].stage).status = row[worker[w].job].status
        BY <1>1, <2>1, QuietRows
      <4>2. row' = [row EXCEPT ![worker[w].job] = StageRow(row[worker[w].job], worker[w].stage)]
        BY <3>1 DEF SetStage
      <4>3. QED
        BY <1>6, <2>1, <4>1, <4>2
    <3>2. CASE MarkReady(w)
      BY <1>1, <1>6, <2>1, <3>2, QuietRows DEF MarkReady
    <3>3. CASE MarkFailed(w)
      BY <1>1, <1>6, <2>1, <3>3, QuietRows DEF MarkFailed
    <3>4. CASE MarkCancelled(w)
      BY <1>1, <1>6, <2>1, <3>4, QuietRows DEF MarkCancelled
    <3>5. QED
      BY <1>11, <3>1, <3>2, <3>3, <3>4
  <2>3. \E pc : Goto(w, pc) /\ (pc \in AttemptPcs => Attempting(w))
    BY <1>11 DEF SetStage, MarkReady, AfterMarkReady, MarkFailed, MarkCancelled, Attempting, AttemptPcs
  <2>4. QuietWorkers
    BY <1>4, <2>3
  <2>5. QED
    BY <2>2, <2>4 DEF Quiet
<1>12. ASSUME NEW w \in Workers, CheckCancel(w) PROVE Quiet
  BY <1>1, <1>3, <1>12
     DEF CheckCancel, Goto, Quiet, QuietWorkers, Attempting, AttemptPcs, Handlers, db
<1>13. ASSUME NEW w \in Workers, ConnectionLost(w) PROVE Quiet
  BY <1>1, <1>3, <1>13 DEF ConnectionLost, Quiet, QuietWorkers, Attempting, Handlers, db
<1>14. ASSUME NEW w \in Workers, Retry(w), ~AttemptsLeft(worker[w].attempt) PROVE Quiet
  <2>1. worker[w].job \in Jobs
    BY <1>14 DEF IInv, Busy, Retry
  <2>2. QuietTable
    BY <1>1, <1>6, <1>14, <2>1, QuietRows DEF Retry
  <2>3. QuietWorkers
    BY <1>4, <1>14 DEF Retry, AttemptPcs
  <2>4. QED
    BY <2>2, <2>3 DEF Quiet
<1>15. CASE Tick
  BY <1>1, <1>2, <1>15, QuietRows DEF Tick, Quiet, QuietTable
<1>16. CASE UNCHANGED vars
  BY <1>2, <1>3, <1>16 DEF vars, db, Quiet
<1>17. QED
  BY <1>7, <1>8, <1>9, <1>10, <1>11, <1>12, <1>13, <1>14, <1>15, <1>16
     DEF Next, Request, Upload, WorkerStep, Handle, Disruption, Requeue

LEMMA QuietPreserves ==
    ASSUME IInv, Quiet
    PROVE  ClaimsHeld' /\ AttemptsRemain' /\ SingleIngester'
<1>1. ClaimsHeld'
  <2> SUFFICES ASSUME NEW w \in Workers, Attempting(w)'
               PROVE  /\ worker'[w].attempt = row'[worker'[w].job].attempt
                      /\ worker'[w].attempt \in 1..MaxAttempts
                      /\ row'[worker'[w].job].status \notin {"absent", "queued"}
    BY DEF ClaimsHeld
  <2>1. /\ Attempting(w)
        /\ worker'[w].job = worker[w].job
        /\ worker'[w].attempt = worker[w].attempt
    BY DEF Quiet, QuietWorkers
  <2>2. worker[w].job \in Jobs
    BY <2>1 DEF IInv, Busy, Attempting, AttemptPcs
  <2>3. QED
    BY <2>1, <2>2 DEF IInv, ClaimsHeld, Quiet, QuietTable
<1>2. AttemptsRemain'
  BY DEF IInv, AttemptsRemain, Quiet, QuietTable
<1>3. SingleIngester'
  BY DEF IInv, SingleIngester, Quiet, QuietWorkers
<1>4. QED
  BY <1>1, <1>2, <1>3

LEMMA CreateJobPreserves ==
    ASSUME IInv, NEW j \in Jobs, CreateJob(j)
    PROVE  ClaimsHeld' /\ AttemptsRemain' /\ SingleIngester'
<1> USE RepositoryAssumption DEF CreateJob
<1>1. \A w \in Workers : Attempting(w)' = Attempting(w)
  BY DEF Attempting
<1>2. row \in [Jobs -> Rows] /\ CreatedRow.attempt = 0
  BY DEF IInv, TypeOK, CreatedRow
<1>3. \A w \in Workers : Attempting(w) => worker[w].job # j
  BY DEF IInv, ClaimsHeld
<1>4. ClaimsHeld'
  BY <1>1, <1>2, <1>3 DEF IInv, ClaimsHeld
<1>5. AttemptsRemain'
  BY <1>2 DEF IInv, AttemptsRemain, CreatedRow
<1>6. SingleIngester'
  BY <1>1 DEF IInv, SingleIngester
<1>7. QED
  BY <1>4, <1>5, <1>6

\* A queued job has no attempt, so the claim is the only one.
LEMMA ClaimPreserves ==
    ASSUME IInv, NEW w \in Workers, Claim(w)
    PROVE  ClaimsHeld' /\ AttemptsRemain' /\ SingleIngester'
<1> DEFINE j == worker[w].job
<1>1. /\ j \in Jobs
      /\ row \in [Jobs -> Rows]
      /\ worker \in [Workers -> Handlers]
  BY DEF IInv, TypeOK, Busy, Claim
<1>2. row[j].status = "queued" /\ row[j].attempt < MaxAttempts /\ row[j].attempt \in Nat
  BY <1>1 DEF IInv, AttemptsRemain, Claim, CanClaim, Rows
<1>3. \A v \in Workers : Attempting(v) => worker[v].job # j
  BY <1>2 DEF IInv, ClaimsHeld
<1>4. /\ row' = [row EXCEPT ![j] = ClaimedRow(@)]
      /\ ClaimedRow(row[j]).attempt = row[j].attempt + 1
      /\ ClaimedRow(row[j]).status = "processing"
  BY DEF Claim, ClaimedRow
<1>5. /\ worker'[w].job = j
      /\ worker'[w].attempt = row[j].attempt + 1
      /\ \A v \in Workers \ {w} : worker'[v] = worker[v]
  BY <1>1 DEF Claim, Handlers
<1>6. \A v \in Workers \ {w} : Attempting(v)' = Attempting(v)
  BY <1>5 DEF Attempting
<1>7. ClaimsHeld'
  <2>1. /\ worker'[w].attempt = row'[worker'[w].job].attempt
        /\ worker'[w].attempt \in 1..MaxAttempts
        /\ row'[worker'[w].job].status \notin {"absent", "queued"}
    BY <1>1, <1>2, <1>4, <1>5, RepositoryAssumption
  <2>2. ASSUME NEW v \in Workers \ {w}, Attempting(v)'
        PROVE  /\ worker'[v].attempt = row'[worker'[v].job].attempt
               /\ worker'[v].attempt \in 1..MaxAttempts
               /\ row'[worker'[v].job].status \notin {"absent", "queued"}
    BY <1>1, <1>3, <1>4, <1>5, <1>6, <2>2 DEF IInv, ClaimsHeld
  <2>3. QED
    BY <2>1, <2>2 DEF ClaimsHeld
<1>8. AttemptsRemain'
  BY <1>1, <1>2, <1>4, RepositoryAssumption DEF IInv, AttemptsRemain
<1>9. SingleIngester'
  BY <1>3, <1>5, <1>6 DEF IInv, SingleIngester
<1>10. QED
  BY <1>7, <1>8, <1>9

\* The attempt that queues its job again is its only one, and ends with it.
LEMMA RequeuePreserves ==
    ASSUME IInv, NEW w \in Workers, Requeue(w)
    PROVE  ClaimsHeld' /\ AttemptsRemain' /\ SingleIngester'
<1> DEFINE j == worker[w].job
<1>1. /\ Attempting(w)
      /\ j \in Jobs
      /\ row \in [Jobs -> Rows]
      /\ worker \in [Workers -> Handlers]
  BY DEF IInv, TypeOK, Busy, Requeue, Retry, Attempting, AttemptPcs
<1>2. /\ worker' = [worker EXCEPT ![w].pc = "ack"]
      /\ row' = [row EXCEPT ![j] = RetriedRow(@, worker[w].attempt)]
      /\ worker[w].attempt < MaxAttempts
  BY DEF Requeue, Retry, Goto, AttemptsLeft
<1>3. row'[j].attempt = row[j].attempt /\ row'[j].status # "absent"
  BY <1>1, <1>2 DEF RetriedRow, Finished, Rows, Requeue, Retry, RowExists
<1>4. row[j].attempt = worker[w].attempt
  BY <1>1 DEF IInv, ClaimsHeld
<1>5. \A v \in Workers : worker'[v].job = worker[v].job /\ worker'[v].attempt = worker[v].attempt
  BY <1>1, <1>2 DEF Handlers
<1>6. ASSUME NEW v \in Workers, Attempting(v)' PROVE Attempting(v) /\ v # w
  BY <1>1, <1>2, <1>6 DEF Attempting, AttemptPcs, Handlers
<1>7. \A v \in Workers : Attempting(v)' => worker[v].job # j
  <2>1. ASSUME NEW v \in Workers, Attempting(v)', worker[v].job = worker[w].job PROVE FALSE
    <3>1. Attempting(v) /\ v # w
      BY <1>6, <2>1
    <3>2. QED
      BY <1>1, <2>1, <3>1 DEF IInv, SingleIngester
  <2>2. QED
    BY <2>1
<1>8. ClaimsHeld'
  BY <1>1, <1>2, <1>5, <1>6, <1>7 DEF IInv, ClaimsHeld
<1>9. AttemptsRemain'
  BY <1>1, <1>2, <1>3, <1>4 DEF IInv, AttemptsRemain
<1>10. SingleIngester'
  <2>1. ASSUME NEW u \in Workers, NEW v \in Workers, Attempting(u)', Attempting(v)',
               worker'[u].job = worker'[v].job
        PROVE  u = v
    <3>1. Attempting(u) /\ Attempting(v) /\ worker[u].job = worker[v].job
      BY <1>5, <1>6, <2>1
    <3>2. QED
      BY <3>1 DEF IInv, SingleIngester
  <2>2. QED
    BY <2>1 DEF SingleIngester
<1>11. QED
  BY <1>8, <1>9, <1>10

LEMMA NextIInv ==
    ASSUME IInv, [Next]_vars
    PROVE  IInv'
<1>1. TypeOK' /\ Busy'
  BY TypeStep, BusyStep
<1>2. ClaimsHeld' /\ AttemptsRemain' /\ SingleIngester'
  BY QuietStep, QuietPreserves, CreateJobPreserves, ClaimPreserves, RequeuePreserves
<1>3. QED
  BY <1>1, <1>2 DEF IInv

LEMMA SpecIInv == Spec => []IInv
<1>1. Init => IInv
  BY InitIInv
<1>2. IInv /\ [Next]_vars => IInv'
  BY NextIInv
<1>3. QED
  BY <1>1, <1>2, PTL DEF Spec

\* Every variable keeps its type.
THEOREM TypeCorrect == Spec => []TypeOK
<1>1. IInv => TypeOK
  BY DEF IInv
<1>2. QED
  BY <1>1, SpecIInv, PTL

\* A job is never in two attempts at once, whatever is redelivered or published twice.
THEOREM Exclusion == Spec => []SingleIngester
<1>1. IInv => SingleIngester
  BY DEF IInv
<1>2. QED
  BY <1>1, SpecIInv, PTL

\* No job is attempted more than MaxAttempts times, and no handler counts attempts wrong.
THEOREM BoundedAttempts == Spec => []AttemptsCounted
<1>1. IInv => AttemptsCounted
  BY DEF IInv, AttemptsRemain, ClaimsHeld, AttemptsCounted
<1>2. QED
  BY <1>1, SpecIInv, PTL

----------------------------------------------------------------------------
(* What becomes of a job that no second handler interferes with: there is   *)
(* one worker process, or users cancel nothing.  Otherwise a message of the *)
(* job that was delivered twice may carry out the cancellation while the    *)
(* attempt goes on.                                                         *)

Uncontested == (\A v, w \in Workers : v = w) \/ "cancel" \notin Requests

Cancelling(w) == worker[w].pc \in CancelPcs

\* The status of the job that w works on.
Status(w) == row[worker[w].job].status

\* While a handler works on a job, only users change its status.
Owned ==
    /\ \A w \in Workers : Attempting(w) =>
          Status(w) \in {"processing", "cancel_requested", "deleted"}
    /\ \A w \in Workers : Cancelling(w) => Status(w) \in {"cancel_requested", "deleted"}
    /\ \A j \in Jobs : row[j].status = "cancel_requested" => "cancel" \in Requests

SameStatuses ==
    \A j \in Jobs : row'[j].status = row[j].status /\ row'[j].attempt = row[j].attempt

\* No status, file, chunk or request changes, and no handler advances a job.
Neutral ==
    /\ SameStatuses
    /\ UNCHANGED <<object, chunks, del>>
    /\ \A w \in Workers : worker'[w].pc \in AttemptPcs \union CancelPcs =>
          /\ worker'[w].pc = worker[w].pc
          /\ worker'[w].job = worker[w].job
          /\ worker'[w].stage = worker[w].stage

\* The other steps are those of the API and those of a handler that has a claim.
ApiStep(j) ==
    \/ Upload(j) \/ CreateJobFails(j) \/ RequestCancel(j)
    \/ DeleteFind(j) \/ DeleteStep(j) \/ DeleteFails(j)

JobStep(w) ==
    \/ Claim(w) \/ Peek(w) \/ SetStage(w) \/ Work(w) \/ CheckCancel(w) \/ BumpIndexVersion(w)
    \/ IngestRaises(w) \/ MarkReady(w) \/ CleanupChunks(w) \/ Retry(w) \/ MarkFailed(w)
    \/ RemoveObject(w) \/ MarkCancelled(w)

LEMMA NeutralStep ==
    ASSUME IInv, [Next]_vars
    PROVE  \/ Neutral
           \/ \E j \in Jobs : ApiStep(j)
           \/ \E w \in Workers : JobStep(w)
<1>1. row \in [Jobs -> Rows] /\ worker \in [Workers -> Handlers]
  BY DEF IInv, TypeOK
<1>2. ASSUME UNCHANGED <<worker, object, chunks, del>>, SameStatuses PROVE Neutral
  BY <1>2 DEF Neutral
<1>3. ASSUME UNCHANGED row PROVE SameStatuses
  BY <1>3 DEF SameStatuses
<1>4. ASSUME NEW w \in Workers, NEW h \in Handlers, worker' = [worker EXCEPT ![w] = h],
             \/ h.pc \notin AttemptPcs \union CancelPcs
             \/ h = [worker[w] EXCEPT !.unacked = FALSE],
             UNCHANGED <<row, object, chunks, del>>
      PROVE  Neutral
  BY <1>1, <1>3, <1>4 DEF Neutral, Handlers
<1>5. CASE \E w \in Workers : \/ PublisherStep(w) \/ AbandonBatch(w)
                             \/ \E e \in EventIds : PublishFails(w, e)
  BY <1>2, <1>3, <1>5 DEF PublisherStep, ClaimEvents, MarkPublished, Release, Publish, PublishFails,
     AbandonBatch, db, store
<1>6. ASSUME NEW w \in Workers,
             \/ ClaimFails(w) \/ RecordFails(w) \/ Settle(w) \/ Crash(w)
             \/ \E j \in Jobs : Deliver(w, j)
      PROVE  Neutral
  <2>1. UNCHANGED <<row, object, chunks, del>>
    BY <1>6 DEF ClaimFails, RecordFails, Restart, Settle, Crash, Deliver, db, store
  <2>2. \E h \in Handlers : worker' = [worker EXCEPT ![w] = h] /\ h.pc \in {"idle", "claim"}
    <3>1. IdleWorker \in Handlers /\ IdleWorker.pc = "idle"
      BY RepositoryAssumption DEF IdleWorker, Handlers, WorkerPcs, Attempts, Stages
    <3>2. \A j \in Jobs : Received(j) \in Handlers /\ Received(j).pc = "claim"
      BY RepositoryAssumption DEF Received, Handlers, WorkerPcs, Attempts, Stages
    <3>3. QED
      BY <1>6, <3>1, <3>2 DEF ClaimFails, RecordFails, Restart, Settle, Crash, Deliver
  <2>3. QED
    BY <1>4, <2>1, <2>2 DEF AttemptPcs, CancelPcs
<1>7. ASSUME NEW w \in Workers, NothingToClaim(w) \/ CancelIfRequestedFails(w) PROVE Neutral
  <2>1. PICK pc \in {"peek", "ack"} : worker' = [worker EXCEPT ![w].pc = pc]
    BY <1>7 DEF NothingToClaim, CancelIfRequestedFails, Goto
  <2>2. /\ worker' = [worker EXCEPT ![w] = [@ EXCEPT !.pc = pc]]
        /\ [worker[w] EXCEPT !.pc = pc] \in Handlers
        /\ [worker[w] EXCEPT !.pc = pc].pc = pc
    BY <1>1, <2>1 DEF Handlers, WorkerPcs
  <2>3. UNCHANGED <<row, object, chunks, del>>
    BY <1>7 DEF NothingToClaim, CancelIfRequestedFails, db, store
  <2>4. QED
    BY <1>4, <2>2, <2>3 DEF AttemptPcs, CancelPcs
<1>8. ASSUME NEW w \in Workers, ConnectionLost(w) PROVE Neutral
  BY <1>1, <1>3, <1>8 DEF ConnectionLost, Neutral, Handlers, db, store
<1>9. CASE Tick
  <2>1. SameStatuses
    BY <1>1, <1>9 DEF Tick, RowTick, Rows, SameStatuses
  <2>2. QED
    BY <1>2, <1>9, <2>1 DEF Tick, store
<1>10. CASE UNCHANGED vars
  BY <1>2, <1>3, <1>10 DEF vars, db, store
<1>11. QED
  BY <1>5, <1>6, <1>7, <1>8, <1>9, <1>10
     DEF Next, Request, WorkerStep, Handle, Disruption, ApiStep, JobStep

\* What the statements make of a status.
LEMMA StatusesRecorded ==
    ASSUME NEW r \in Rows
    PROVE  /\ CreatedRow.status = "queued" /\ CreatedRow.attempt = 0
           /\ CancelRequestedRow(r).status = "cancel_requested"
           /\ ClaimedRow(r).status = "processing" /\ ClaimedRow(r).attempt = r.attempt + 1
           /\ ReadyRow(r).status = "ready"
           /\ CancelledRow(r).status = IF RowExists(r) THEN "cancelled" ELSE r.status
           /\ FailedRow(r).status = IF RowExists(r) THEN "failed" ELSE r.status
           /\ DeletedRow(r).status = IF RowExists(r) THEN "deleted" ELSE r.status
           /\ \A a \in Nat : RowExists(r) => RetriedRow(r, a).status = "queued"
           /\ \A q \in {CancelRequestedRow(r), ReadyRow(r), CancelledRow(r), FailedRow(r),
                        DeletedRow(r)} : q.attempt = r.attempt
           /\ \A a \in Nat : RetriedRow(r, a).attempt = r.attempt
<1> USE DEF Rows
<1>1. /\ CreatedRow.status = "queued" /\ CreatedRow.attempt = 0
      /\ CancelRequestedRow(r).status = "cancel_requested"
      /\ ClaimedRow(r).status = "processing" /\ ClaimedRow(r).attempt = r.attempt + 1
      /\ ReadyRow(r).status = "ready"
  BY DEF CreatedRow, CancelRequestedRow, ClaimedRow, ReadyRow
<1>2. /\ CancelledRow(r).status = IF RowExists(r) THEN "cancelled" ELSE r.status
      /\ FailedRow(r).status = IF RowExists(r) THEN "failed" ELSE r.status
      /\ DeletedRow(r).status = IF RowExists(r) THEN "deleted" ELSE r.status
  BY DEF CancelledRow, FailedRow, DeletedRow, Finished
<1>3. \A a \in Nat : /\ RowExists(r) => RetriedRow(r, a).status = "queued"
                     /\ RetriedRow(r, a).attempt = r.attempt
  BY DEF RetriedRow, Finished
<1>4. QED
  BY <1>1, <1>2, <1>3, QuietRows

\* The job's status becomes s, and no other row's changes.
Becomes(j, s) ==
    \A k \in Jobs : /\ row'[k].status = IF k = j THEN s ELSE row[k].status
                    /\ row'[k].attempt = row[k].attempt

Claimed(j) ==
    \A k \in Jobs : IF k = j THEN /\ row'[k].status = "processing"
                                  /\ row'[k].attempt = row[k].attempt + 1
                             ELSE row'[k] = row[k]

\* The handler goes on with the job it has.
Moves(w, pc) ==
    /\ worker'[w].pc = pc /\ worker'[w].job = worker[w].job
    /\ \A v \in Workers \ {w} : worker'[v] = worker[v]

LEMMA GotoMoves ==
    ASSUME IInv, NEW w \in Workers, NEW pc, Goto(w, pc)
    PROVE  /\ Moves(w, pc)
           /\ worker'[w].stage = worker[w].stage
           /\ worker'[w].attempt = worker[w].attempt
<1>1. worker \in [Workers -> Handlers]
  BY DEF IInv, TypeOK
<1>2. QED
  BY <1>1 DEF Goto, Moves, Handlers

LEMMA HasJob ==
    ASSUME IInv, NEW w \in Workers, worker[w].pc # "idle"
    PROVE  worker[w].job \in Jobs /\ row[worker[w].job] \in Rows
  BY DEF IInv, TypeOK, Busy

\* The statements that record what became of an attempt.
LEMMA RecordEffects ==
    ASSUME IInv, NEW w \in Workers
    PROVE  /\ Claim(w) => /\ Status(w) = "queued"
                          /\ Claimed(worker[w].job)
                          /\ Moves(w, "set_stage")
           /\ MarkReady(w) =>
                 IF Status(w) = "processing"
                 THEN Becomes(worker[w].job, "ready") /\ Moves(w, "ack")
                 ELSE SameStatuses /\ Moves(w, "cancel_chunks")
           /\ Retry(w) =>
                 /\ Moves(w, "ack")
                 /\ IF AttemptsLeft(worker[w].attempt)
                    THEN RowExists(row[worker[w].job]) /\ Becomes(worker[w].job, "queued")
                    ELSE Becomes(worker[w].job, FailedRow(row[worker[w].job]).status)
           /\ MarkFailed(w) =>
                 /\ Moves(w, "reject")
                 /\ Becomes(worker[w].job, FailedRow(row[worker[w].job]).status)
           /\ MarkCancelled(w) =>
                 /\ Moves(w, "ack")
                 /\ Becomes(worker[w].job, CancelledRow(row[worker[w].job]).status)
<1>1. row \in [Jobs -> Rows] /\ worker \in [Workers -> Handlers]
  BY DEF IInv, TypeOK
<1>2. ASSUME NEW j \in Jobs, NEW q, row' = [row EXCEPT ![j] = q], q.attempt = row[j].attempt
      PROVE  Becomes(j, q.status)
  BY <1>1, <1>2 DEF Becomes
<1>3. ASSUME Claim(w)
      PROVE  /\ Status(w) = "queued"
             /\ Claimed(worker[w].job)
             /\ Moves(w, "set_stage")
  <2>1. worker[w].job \in Jobs /\ row[worker[w].job] \in Rows
    BY <1>3, HasJob DEF Claim
  <2>2. Claimed(worker[w].job)
    BY <1>1, <1>3, <2>1, StatusesRecorded DEF Claim, Claimed
  <2>3. Moves(w, "set_stage")
    BY <1>1, <1>3 DEF Claim, Moves, Handlers
  <2>4. QED
    BY <1>3, <2>2, <2>3 DEF Claim, CanClaim, Status
<1>4. ASSUME MarkReady(w)
      PROVE  IF Status(w) = "processing"
             THEN Becomes(worker[w].job, "ready") /\ Moves(w, "ack")
             ELSE SameStatuses /\ Moves(w, "cancel_chunks")
  <2>1. worker[w].job \in Jobs /\ row[worker[w].job] \in Rows
    BY <1>4, HasJob DEF MarkReady
  <2>2. CASE Status(w) = "processing"
    <3>1. row' = [row EXCEPT ![worker[w].job] = ReadyRow(row[worker[w].job])] /\ Goto(w, "ack")
      BY <1>4, <2>2 DEF MarkReady, CanMarkReady, AfterMarkReady, Status
    <3>2. QED
      BY <1>2, <2>1, <2>2, <3>1, StatusesRecorded, GotoMoves
  <2>3. CASE Status(w) # "processing"
    <3>1. row' = row /\ Goto(w, "cancel_chunks")
      BY <1>1, <1>4, <2>3 DEF MarkReady, CanMarkReady, AfterMarkReady, Status
    <3>2. QED
      BY <2>3, <3>1, GotoMoves DEF SameStatuses
  <2>4. QED
    BY <2>2, <2>3
<1>5. ASSUME Retry(w)
      PROVE  /\ Moves(w, "ack")
             /\ IF AttemptsLeft(worker[w].attempt)
                THEN RowExists(row[worker[w].job]) /\ Becomes(worker[w].job, "queued")
                ELSE Becomes(worker[w].job, FailedRow(row[worker[w].job]).status)
  <2>1. /\ worker[w].job \in Jobs /\ row[worker[w].job] \in Rows
        /\ worker[w].attempt \in Nat
    BY <1>1, <1>5, HasJob, RepositoryAssumption DEF Retry, Handlers, Attempts
  <2>2. CASE AttemptsLeft(worker[w].attempt)
    <3>1. /\ row' = [row EXCEPT ![worker[w].job] = RetriedRow(row[worker[w].job], worker[w].attempt)]
          /\ RowExists(row[worker[w].job])
      BY <1>5, <2>2 DEF Retry
    <3>2. /\ RetriedRow(row[worker[w].job], worker[w].attempt).status = "queued"
          /\ RetriedRow(row[worker[w].job], worker[w].attempt).attempt = row[worker[w].job].attempt
      BY <2>1, <3>1, StatusesRecorded
    <3>3. Becomes(worker[w].job, "queued")
      BY <1>2, <2>1, <3>1, <3>2
    <3>4. QED
      BY <1>5, <2>2, <3>1, <3>3, GotoMoves DEF Retry
  <2>3. CASE ~AttemptsLeft(worker[w].attempt)
    <3>1. FailedRow(row[worker[w].job]).attempt = row[worker[w].job].attempt
      BY <2>1, StatusesRecorded
    <3>2. QED
      BY <1>2, <1>5, <2>1, <2>3, <3>1, GotoMoves DEF Retry
  <2>4. QED
    BY <2>2, <2>3
<1>6. MarkFailed(w) => /\ Moves(w, "reject")
                       /\ Becomes(worker[w].job, FailedRow(row[worker[w].job]).status)
  BY <1>2, HasJob, GotoMoves, StatusesRecorded DEF MarkFailed
<1>7. MarkCancelled(w) => /\ Moves(w, "ack")
                          /\ Becomes(worker[w].job, CancelledRow(row[worker[w].job]).status)
  BY <1>2, HasJob, GotoMoves, StatusesRecorded DEF MarkCancelled
<1>8. QED
  BY <1>3, <1>4, <1>5, <1>6, <1>7

\* What a handler does between the claim and the record.
LEMMA HandlerEffects ==
    ASSUME IInv, NEW w \in Workers
    PROVE  /\ Peek(w) => Moves(w, IF Status(w) = "cancel_requested" THEN "cancel_chunks" ELSE "ack")
           /\ SetStage(w) => Moves(w, "work") /\ worker'[w].stage = worker[w].stage
           /\ Work(w) => Moves(w, "check") /\ worker'[w].stage = worker[w].stage
           /\ CheckCancel(w) =>
                 IF Status(w) = "cancel_requested" THEN Moves(w, "cancel_chunks")
                 ELSE IF worker[w].stage = "indexing" THEN Moves(w, "bump")
                 ELSE Moves(w, "set_stage")
           /\ BumpIndexVersion(w) => Moves(w, "mark_ready")
           /\ IngestRaises(w) => Moves(w, "retry_cleanup") \/ Moves(w, "fail_cleanup")
           /\ CleanupChunks(w) => Moves(w, AfterCleanup[worker[w].pc])
           /\ RemoveObject(w) => Moves(w, "mark_cancelled")
           /\ (\/ Peek(w) \/ SetStage(w) \/ Work(w) \/ CheckCancel(w) \/ BumpIndexVersion(w)
               \/ IngestRaises(w) \/ CleanupChunks(w) \/ RemoveObject(w)) => SameStatuses
<1>1. row \in [Jobs -> Rows] /\ worker \in [Workers -> Handlers]
  BY DEF IInv, TypeOK
<1>2. Peek(w) => Moves(w, IF Status(w) = "cancel_requested" THEN "cancel_chunks" ELSE "ack")
  BY GotoMoves DEF Peek, Status
<1>3. /\ SetStage(w) => Moves(w, "work") /\ worker'[w].stage = worker[w].stage
      /\ Work(w) => Moves(w, "check") /\ worker'[w].stage = worker[w].stage
  BY GotoMoves DEF SetStage, Work
<1>4. ASSUME CheckCancel(w)
      PROVE  IF Status(w) = "cancel_requested" THEN Moves(w, "cancel_chunks")
             ELSE IF worker[w].stage = "indexing" THEN Moves(w, "bump")
             ELSE Moves(w, "set_stage")
  <2>1. CASE worker' = [worker EXCEPT ![w].pc = "set_stage", ![w].stage = NextStage[@]]
    <3>1. Moves(w, "set_stage")
      BY <1>1, <2>1 DEF Moves, Handlers
    <3>2. QED
      BY <1>4, <3>1, GotoMoves DEF CheckCancel, Status
  <2>2. CASE Status(w) = "cancel_requested" \/ worker[w].stage = "indexing"
    BY <1>4, <2>2, GotoMoves DEF CheckCancel, Status
  <2>3. QED
    BY <1>4, <2>1, <2>2 DEF CheckCancel, Status
<1>5. /\ BumpIndexVersion(w) => Moves(w, "mark_ready")
      /\ IngestRaises(w) => Moves(w, "retry_cleanup") \/ Moves(w, "fail_cleanup")
      /\ CleanupChunks(w) => Moves(w, AfterCleanup[worker[w].pc])
      /\ RemoveObject(w) => Moves(w, "mark_cancelled")
  BY GotoMoves DEF BumpIndexVersion, IngestRaises, OnUnavailable, CleanupChunks, RemoveObject
<1>6. ASSUME \/ Peek(w) \/ Work(w) \/ CheckCancel(w) \/ BumpIndexVersion(w) \/ IngestRaises(w)
             \/ CleanupChunks(w) \/ RemoveObject(w)
      PROVE  SameStatuses
  BY <1>6 DEF Peek, Work, CheckCancel, BumpIndexVersion, IngestRaises, CleanupChunks, RemoveObject,
     db, SameStatuses
<1>7. ASSUME SetStage(w) PROVE SameStatuses
  <2>1. worker[w].job \in Jobs /\ worker[w].stage \in Stages
    BY <1>1, <1>7, HasJob DEF SetStage, Handlers
  <2>2. row' = [row EXCEPT ![worker[w].job] = StageRow(@, worker[w].stage)]
    BY <1>7 DEF SetStage
  <2>3. QED
    BY <1>1, <2>1, <2>2, QuietRows DEF SameStatuses
<1>8. QED
  BY <1>2, <1>3, <1>4, <1>5, <1>6, <1>7

\* What the API does to a job.
LEMMA ApiEffects ==
    ASSUME IInv, NEW j \in Jobs
    PROVE  /\ CreateJob(j) => Becomes(j, "queued")
           /\ RequestCancel(j) => Becomes(j, "cancel_requested")
           /\ DeleteRow(j) => Becomes(j, DeletedRow(row[j]).status)
           /\ ApiStep(j) => \/ SameStatuses
                            \/ CreateJob(j) \/ RequestCancel(j) \/ DeleteRow(j)
           /\ ApiStep(j) => worker' = worker
<1>1. row \in [Jobs -> Rows] /\ row[j] \in Rows
  BY DEF IInv, TypeOK
<1>2. ASSUME NEW q, row' = [row EXCEPT ![j] = q], q.attempt = row[j].attempt
      PROVE  Becomes(j, q.status)
  BY <1>1, <1>2 DEF Becomes
<1>3. CreateJob(j) => Becomes(j, "queued")
  <2>1. CreateJob(j) => row[j].attempt = 0
    BY DEF CreateJob, IInv, AttemptsRemain
  <2>2. CreatedRow.status = "queued" /\ CreatedRow.attempt = 0
    BY DEF CreatedRow
  <2>3. QED
    BY <1>2, <2>1, <2>2 DEF CreateJob
<1>4. /\ RequestCancel(j) => Becomes(j, "cancel_requested")
      /\ DeleteRow(j) => Becomes(j, DeletedRow(row[j]).status)
  BY <1>1, <1>2, StatusesRecorded DEF RequestCancel, DeleteRow
<1>5. ApiStep(j) => SameStatuses \/ CreateJob(j) \/ RequestCancel(j) \/ DeleteRow(j)
  BY DEF ApiStep, Upload, StoreUpload, CreateJobFails, DeleteFind, DeleteStep, DeleteChunks,
     DeleteObject, DeleteFails, db, SameStatuses
<1>6. ApiStep(j) => worker' = worker
  BY DEF ApiStep, Upload, StoreUpload, CreateJob, RequestCancel, CreateJobFails, DeleteFind, DeleteStep,
     DeleteChunks, DeleteObject, DeleteRow, DeleteFails
<1>7. QED
  BY <1>3, <1>4, <1>5, <1>6

----------------------------------------------------------------------------

Holding(w) == Attempting(w) \/ Cancelling(w)

\* Two handlers have the same job in hand only when it is deleted.
LEMMA HeldByOne ==
    ASSUME IInv, Uncontested, Owned, NEW v \in Workers, NEW w \in Workers, v # w,
           Holding(v), Holding(w), worker[v].job = worker[w].job
    PROVE  Status(v) = "deleted"
<1>1. Cancelling(v) \/ Cancelling(w)
  BY DEF IInv, SingleIngester, Holding
<1>2. worker[v].job \in Jobs
  BY HasJob DEF Holding, Attempting, Cancelling, AttemptPcs, CancelPcs
<1>3. QED
  BY <1>1, <1>2 DEF Uncontested, Owned, Status

LEMMA OwnedStep ==
    ASSUME IInv, Uncontested, Owned, [Next]_vars
    PROVE  Owned'
<1>1. \A w \in Workers : Holding(w) => worker[w].job \in Jobs
  BY HasJob DEF Holding, Attempting, Cancelling, AttemptPcs, CancelPcs
<1>2. CASE Neutral
  BY <1>1, <1>2 DEF Neutral, SameStatuses, Owned, Holding, Attempting, Cancelling, Status
<1>3. ASSUME NEW j \in Jobs, ApiStep(j) PROVE Owned'
  <2>1. worker' = worker
    BY <1>3, ApiEffects
  <2>2. CASE SameStatuses
    BY <1>1, <2>1, <2>2 DEF SameStatuses, Owned, Holding, Attempting, Cancelling, Status
  <2>3. CASE CreateJob(j)
    <3>1. Becomes(j, "queued") /\ row[j].status = "absent"
      BY <2>3, ApiEffects DEF CreateJob
    <3>2. QED
      BY <1>1, <2>1, <3>1 DEF Becomes, Owned, Holding, Attempting, Cancelling, Status
  <2>4. CASE RequestCancel(j)
    <3>1. Becomes(j, "cancel_requested") /\ "cancel" \in Requests
      BY <2>4, ApiEffects DEF RequestCancel
    <3>2. QED
      BY <1>1, <2>1, <3>1 DEF Becomes, Owned, Holding, Attempting, Cancelling, Status
  <2>5. CASE DeleteRow(j)
    <3>1. Becomes(j, DeletedRow(row[j]).status)
      BY <2>5, ApiEffects
    <3>2. DeletedRow(row[j]).status \in {"deleted", row[j].status}
      BY StatusesRecorded DEF IInv, TypeOK
    <3>3. QED
      BY <1>1, <2>1, <3>1, <3>2 DEF Becomes, Owned, Holding, Attempting, Cancelling, Status
  <2>6. QED
    BY <1>3, <2>2, <2>3, <2>4, <2>5, ApiEffects
\* A handler moves on, and the rows stay.
<1>4. ASSUME NEW w \in Workers, worker[w].pc # "idle", NEW pc, Moves(w, pc), SameStatuses,
             pc \in AttemptPcs => Attempting(w),
             pc \in CancelPcs => Status(w) \in {"cancel_requested", "deleted"}
      PROVE  Owned'
  <2>1. worker[w].job \in Jobs
    BY <1>4, HasJob
  <2>2. /\ Attempting(w)' => Status(w)' \in {"processing", "cancel_requested", "deleted"}
        /\ Cancelling(w)' => Status(w)' \in {"cancel_requested", "deleted"}
    BY <1>4, <2>1 DEF Moves, SameStatuses, Owned, Attempting, Cancelling, Status
  <2>3. ASSUME NEW v \in Workers \ {w}
        PROVE  /\ Attempting(v)' => Status(v)' \in {"processing", "cancel_requested", "deleted"}
               /\ Cancelling(v)' => Status(v)' \in {"cancel_requested", "deleted"}
    BY <1>1, <1>4 DEF Moves, SameStatuses, Owned, Holding, Attempting, Cancelling, Status
  <2>4. \A j \in Jobs : row'[j].status = "cancel_requested" => "cancel" \in Requests
    BY <1>4 DEF SameStatuses, Owned
  <2>5. QED
    BY <2>2, <2>3, <2>4 DEF Owned
\* A handler records a status and has done with the job.
<1>5. ASSUME NEW w \in Workers, NEW pc, NEW s, Holding(w), Moves(w, pc), Becomes(worker[w].job, s),
             pc \notin AttemptPcs \union CancelPcs,
             s # "cancel_requested",
             Status(w) = "deleted" => s = "deleted"
      PROVE  Owned'
  <2>1. ~Attempting(w)' /\ ~Cancelling(w)'
    BY <1>5 DEF Moves, Attempting, Cancelling
  <2>2. ASSUME NEW v \in Workers \ {w}, Holding(v)
        PROVE  Status(v)' = Status(v)
    <3>1. CASE worker[v].job = worker[w].job
      BY <1>1, <1>5, <2>2, <3>1, HeldByOne DEF Moves, Becomes, Status
    <3>2. CASE worker[v].job # worker[w].job
      BY <1>1, <1>5, <2>2, <3>2 DEF Moves, Becomes, Status
    <3>3. QED
      BY <3>1, <3>2
  <2>3. \A v \in Workers \ {w} : /\ Attempting(v)' = Attempting(v)
                                /\ Cancelling(v)' = Cancelling(v)
    BY <1>5 DEF Moves, Attempting, Cancelling
  <2>4. \A j \in Jobs : row'[j].status = "cancel_requested" => "cancel" \in Requests
    BY <1>5 DEF Becomes, Owned
  <2>5. QED
    BY <2>1, <2>2, <2>3, <2>4 DEF Owned, Holding
<1>6. ASSUME NEW w \in Workers, JobStep(w) PROVE Owned'
  <2>1. worker[w].pc # "idle"
    BY <1>6 DEF JobStep, Claim, Peek, SetStage, Work, CheckCancel, BumpIndexVersion, IngestRaises,
       IngestPcs, MarkReady, CleanupChunks, AfterCleanup, Retry, MarkFailed, RemoveObject, MarkCancelled
  <2>2. CASE Claim(w)
    <3>1. Status(w) = "queued" /\ Claimed(worker[w].job) /\ Moves(w, "set_stage")
      BY <2>2, RecordEffects
    <3>2. worker[w].job \in Jobs /\ \A v \in Workers : Holding(v) => worker[v].job # worker[w].job
      BY <2>1, <3>1, HasJob DEF Owned, Holding, Status
    <3>3. /\ ~Cancelling(w)' /\ Status(w)' = "processing"
          /\ \A v \in Workers \ {w} : Holding(v)' => Holding(v) /\ Status(v)' = Status(v)
      BY <1>1, <3>1, <3>2 DEF Moves, Claimed, Attempting, Cancelling, Holding, Status, CancelPcs
    <3>4. \A j \in Jobs : row'[j].status = "cancel_requested" => "cancel" \in Requests
      BY <3>1 DEF Claimed, Owned
    <3>5. \A v \in Workers \ {w} : worker'[v] = worker[v]
      BY <3>1 DEF Moves
    <3>6. QED
      BY <3>3, <3>4, <3>5 DEF Owned, Attempting, Cancelling, Holding, Status
  <2>3. CASE Peek(w) \/ SetStage(w) \/ Work(w) \/ CheckCancel(w) \/ BumpIndexVersion(w)
             \/ IngestRaises(w) \/ CleanupChunks(w) \/ RemoveObject(w)
    <3>1. PICK pc : /\ Moves(w, pc)
                    /\ pc \in AttemptPcs => Attempting(w)
                    /\ pc \in CancelPcs => Cancelling(w) \/ Status(w) = "cancel_requested"
      <4>1. CASE Peek(w) \/ CheckCancel(w)
        BY <4>1, HandlerEffects DEF Peek, CheckCancel, Attempting, AttemptPcs, CancelPcs
      <4>2. CASE SetStage(w) \/ Work(w) \/ BumpIndexVersion(w) \/ IngestRaises(w)
        BY <4>2, HandlerEffects DEF SetStage, Work, BumpIndexVersion, IngestRaises, IngestPcs,
           Attempting, AttemptPcs, CancelPcs
      <4>3. CASE CleanupChunks(w) \/ RemoveObject(w)
        BY <4>3, HandlerEffects DEF CleanupChunks, AfterCleanup, RemoveObject, Attempting, Cancelling,
           AttemptPcs, CancelPcs
      <4>4. QED
        BY <2>3, <4>1, <4>2, <4>3
    <3>2. SameStatuses
      BY <2>3, HandlerEffects
    <3>3. QED
      BY <1>4, <2>1, <3>1, <3>2 DEF Owned
  <2>4. CASE MarkReady(w)
    <3>1. Attempting(w)
      BY <2>4 DEF MarkReady, Attempting, AttemptPcs
    <3>2. CASE Status(w) = "processing"
      BY <1>5, <2>4, <3>1, <3>2, RecordEffects DEF Holding, AttemptPcs, CancelPcs
    <3>3. CASE Status(w) # "processing"
      <4>1. SameStatuses /\ Moves(w, "cancel_chunks")
        BY <2>4, <3>3, RecordEffects
      <4>2. QED
        BY <1>4, <2>1, <3>1, <3>3, <4>1 DEF Owned, AttemptPcs
    <3>4. QED
      BY <3>2, <3>3
  <2>5. CASE Retry(w) \/ MarkFailed(w) \/ MarkCancelled(w)
    <3>1. worker[w].job \in Jobs /\ row[worker[w].job] \in Rows /\ Holding(w)
      BY <2>1, <2>5, HasJob DEF Retry, MarkFailed, MarkCancelled, Holding, Attempting, Cancelling,
         AttemptPcs, CancelPcs
    <3>2. Status(w) = "deleted" <=> ~RowExists(row[worker[w].job])
      BY <3>1 DEF Owned, Holding, RowExists, Status
    <3>3. PICK s : /\ Becomes(worker[w].job, s)
                   /\ s \in {"queued", "failed", "cancelled", "deleted"}
                   /\ Status(w) = "deleted" => s = "deleted"
      BY <2>5, <3>1, <3>2, RecordEffects, StatusesRecorded DEF Status
    <3>4. Moves(w, "ack") \/ Moves(w, "reject")
      BY <2>5, RecordEffects
    <3>5. QED
      BY <1>5, <3>1, <3>3, <3>4 DEF AttemptPcs, CancelPcs
  <2>6. QED
    BY <1>6, <2>2, <2>3, <2>4, <2>5 DEF JobStep
<1>7. QED
  BY <1>2, <1>3, <1>6, NeutralStep

----------------------------------------------------------------------------
(* The refinement of JobLifecycle.                                          *)

LEMMA LifecycleStep ==
    ASSUME IInv, Uncontested, Owned, [Next]_vars
    PROVE  [Lifecycle!Next]_(Lifecycle!vars)
<1> DEFINE status == [j \in Jobs |-> row[j].status]
           attempts == [j \in Jobs |-> row[j].attempt]
           Become(j, from, to) == /\ status[j] \in from
                                  /\ status' = [status EXCEPT ![j] = to]
<1>1. SameStatuses => UNCHANGED <<status, attempts>>
  BY DEF SameStatuses
<1>2. ASSUME NEW j \in Jobs, NEW s, NEW from, Becomes(j, s), row[j].status \in from
      PROVE  Become(j, from, s) /\ UNCHANGED attempts
  BY <1>2 DEF Becomes
<1>3. ASSUME NEW j \in Jobs, NEW s, Becomes(j, s), s = row[j].status
      PROVE  UNCHANGED <<status, attempts>>
  BY <1>3 DEF Becomes
<1>4. UNCHANGED <<status, attempts>> => UNCHANGED Lifecycle!vars
  BY DEF Lifecycle!vars
<1>5. ASSUME NEW j \in Jobs,
             UNCHANGED attempts,
             \/ Become(j, {"absent"}, "queued")
             \/ Become(j, {"queued", "processing"}, "cancel_requested")
             \/ Become(j, {"processing"}, "ready")
             \/ Become(j, {"processing", "cancel_requested"}, "failed")
             \/ Become(j, {"processing", "cancel_requested"}, "queued") /\ attempts[j] < MaxAttempts
             \/ Become(j, {"cancel_requested"}, "cancelled")
             \/ Become(j, {"queued", "processing", "cancel_requested", "ready", "failed", "cancelled"},
                       "deleted")
      PROVE  Lifecycle!Next
  BY <1>5 DEF Lifecycle!Next, Lifecycle!Submit, Lifecycle!RequestCancel, Lifecycle!Finish, Lifecycle!Fail,
     Lifecycle!Retry, Lifecycle!Cancel, Lifecycle!Delete, Lifecycle!Become
<1>6. CASE SameStatuses
  BY <1>1, <1>4, <1>6
<1>7. ASSUME NEW j \in Jobs, CreateJob(j) \/ RequestCancel(j) \/ DeleteRow(j)
      PROVE  [Lifecycle!Next]_(Lifecycle!vars)
  <2> HIDE DEF Become, status, attempts
  <2>1. CASE CreateJob(j)
    BY <1>2, <1>5, <2>1, ApiEffects DEF CreateJob
  <2>2. CASE RequestCancel(j)
    BY <1>2, <1>5, <2>2, ApiEffects DEF RequestCancel, CanCancel
  <2>3. CASE DeleteRow(j)
    <3>1. row[j] \in Rows /\ Becomes(j, DeletedRow(row[j]).status)
      BY <2>3, ApiEffects DEF IInv, TypeOK
    <3>2. CASE RowExists(row[j])
      <4>1. /\ DeletedRow(row[j]).status = "deleted"
            /\ row[j].status \in {"queued", "processing", "cancel_requested", "ready", "failed",
                                  "cancelled"}
        BY <3>1, <3>2, StatusesRecorded DEF Rows, RowExists, Statuses, Active, Settled
      <4>2. QED
        BY <1>2, <1>5, <3>1, <4>1
    <3>3. CASE ~RowExists(row[j])
      BY <1>3, <1>4, <3>1, <3>3, StatusesRecorded
    <3>4. QED
      BY <3>2, <3>3
  <2>4. QED
    BY <1>7, <2>1, <2>2, <2>3
<1>8. ASSUME NEW w \in Workers, worker[w].job \in Jobs, Claim(w) PROVE Lifecycle!Next
  <2>1. Status(w) = "queued" /\ Claimed(worker[w].job)
    BY <1>8, RecordEffects
  <2>2. row[worker[w].job].attempt < MaxAttempts
    BY <1>8, <2>1 DEF IInv, AttemptsRemain, Status
  <2>3. /\ Become(worker[w].job, {"queued"}, "processing")
        /\ attempts[worker[w].job] < MaxAttempts
        /\ attempts' = [attempts EXCEPT ![worker[w].job] = @ + 1]
    BY <1>8, <2>1, <2>2 DEF Claimed, Status
  <2>4. QED
    BY <1>8, <2>3 DEF Lifecycle!Next, Lifecycle!Claim, Lifecycle!Become
<1>9. ASSUME NEW w \in Workers, worker[w].job \in Jobs, MarkReady(w) PROVE [Lifecycle!Next]_(Lifecycle!vars)
  <2> HIDE DEF Become, status, attempts
  <2>1. CASE Status(w) = "processing"
    BY <1>2, <1>5, <1>9, <2>1, RecordEffects DEF Status
  <2>2. CASE Status(w) # "processing"
    BY <1>6, <1>9, <2>2, RecordEffects
  <2>3. QED
    BY <2>1, <2>2
<1>10. ASSUME NEW w \in Workers, worker[w].job \in Jobs, Retry(w) \/ MarkFailed(w)
       PROVE  [Lifecycle!Next]_(Lifecycle!vars)
  <2>1. /\ row[worker[w].job] \in Rows
        /\ row[worker[w].job].status \in {"processing", "cancel_requested", "deleted"}
        /\ row[worker[w].job].attempt = worker[w].attempt
    BY <1>10 DEF IInv, TypeOK, ClaimsHeld, Owned, Retry, MarkFailed, Attempting, AttemptPcs, Status
  <2>2. CASE Retry(w) /\ AttemptsLeft(worker[w].attempt)
    <3>1. /\ row[worker[w].job].status \in {"processing", "cancel_requested"}
          /\ Becomes(worker[w].job, "queued")
      BY <2>1, <2>2, RecordEffects DEF RowExists
    <3>2. attempts[worker[w].job] < MaxAttempts
      BY <1>10, <2>1, <2>2 DEF AttemptsLeft
    <3>3. QED
      <4> HIDE DEF Become, status, attempts
      <4> QED
        BY <1>2, <1>5, <1>10, <3>1, <3>2
  <2>3. CASE ~(Retry(w) /\ AttemptsLeft(worker[w].attempt))
    <3> HIDE DEF Become, status, attempts
    <3>1. Becomes(worker[w].job, FailedRow(row[worker[w].job]).status)
      BY <1>10, <2>3, RecordEffects
    <3>2. CASE row[worker[w].job].status = "deleted"
      <4>1. FailedRow(row[worker[w].job]).status = row[worker[w].job].status
        BY <2>1, <3>2, StatusesRecorded DEF RowExists
      <4>2. QED
        BY <1>3, <1>4, <1>10, <3>1, <4>1
    <3>3. CASE row[worker[w].job].status \in {"processing", "cancel_requested"}
      <4>1. FailedRow(row[worker[w].job]).status = "failed"
        BY <2>1, <3>3, StatusesRecorded DEF RowExists
      <4>2. QED
        BY <1>2, <1>5, <1>10, <3>1, <3>3, <4>1
    <3>4. QED
      BY <2>1, <3>2, <3>3
  <2>4. QED
    BY <2>2, <2>3
<1>11. ASSUME NEW w \in Workers, worker[w].job \in Jobs, MarkCancelled(w)
       PROVE  [Lifecycle!Next]_(Lifecycle!vars)
  <2> HIDE DEF Become, status, attempts
  <2>1. /\ row[worker[w].job] \in Rows
        /\ row[worker[w].job].status \in {"cancel_requested", "deleted"}
    BY <1>11 DEF IInv, TypeOK, Owned, MarkCancelled, Cancelling, CancelPcs, Status
  <2>2. Becomes(worker[w].job, CancelledRow(row[worker[w].job]).status)
    BY <1>11, RecordEffects
  <2>3. CASE row[worker[w].job].status = "deleted"
    <3>1. CancelledRow(row[worker[w].job]).status = row[worker[w].job].status
      BY <2>1, <2>3, StatusesRecorded DEF RowExists
    <3>2. QED
      BY <1>3, <1>4, <1>11, <2>2, <3>1
  <2>4. CASE row[worker[w].job].status = "cancel_requested"
    <3>1. CancelledRow(row[worker[w].job]).status = "cancelled"
      BY <2>1, <2>4, StatusesRecorded DEF RowExists
    <3>2. QED
      BY <1>2, <1>5, <1>11, <2>2, <2>4, <3>1
  <2>5. QED
    BY <2>1, <2>3, <2>4
<1>12. ASSUME NEW w \in Workers, JobStep(w) PROVE [Lifecycle!Next]_(Lifecycle!vars)
  <2>1. CASE Claim(w) \/ MarkReady(w) \/ Retry(w) \/ MarkFailed(w) \/ MarkCancelled(w)
    <3>1. worker[w].job \in Jobs
      BY <2>1, HasJob DEF Claim, MarkReady, Retry, MarkFailed, MarkCancelled
    <3>2. QED
      BY <1>8, <1>9, <1>10, <1>11, <2>1, <3>1
  <2>2. CASE \/ Peek(w) \/ SetStage(w) \/ Work(w) \/ CheckCancel(w) \/ BumpIndexVersion(w)
             \/ IngestRaises(w) \/ CleanupChunks(w) \/ RemoveObject(w)
    BY <1>6, <2>2, HandlerEffects
  <2>3. QED
    BY <1>12, <2>1, <2>2 DEF JobStep
<1>13. QED
  BY <1>6, <1>7, <1>12, NeutralStep, ApiEffects DEF Neutral

LEMMA OwnedInit == Init => Owned
  BY DEF Init, Owned, NoRow, IdleWorker, Attempting, Cancelling, AttemptPcs, CancelPcs

LEMMA SpecOwned ==
    ASSUME Uncontested
    PROVE  Spec => [](IInv /\ Owned)
<1>1. Init => IInv /\ Owned
  BY InitIInv, OwnedInit
<1>2. IInv /\ Owned /\ [Next]_vars => (IInv /\ Owned)'
  BY NextIInv, OwnedStep
<1>3. QED
  BY <1>1, <1>2, PTL DEF Spec

\* One worker process, or any number when nobody cancels, implements the abstract life of
\* a job.
THEOREM LifecycleImplemented ==
    ASSUME Uncontested
    PROVE  Spec => ImplementsLifecycle
<1>1. Init => Lifecycle!Init
  BY DEF Init, NoRow, Lifecycle!Init
<1>2. IInv /\ Owned /\ [Next]_vars => [Lifecycle!Next]_(Lifecycle!vars)
  BY LifecycleStep
<1>3. QED
  BY <1>1, <1>2, SpecOwned, PTL DEF Spec, ImplementsLifecycle, Lifecycle!Spec

----------------------------------------------------------------------------
(* Chunks and files, when removing them does not fail.                      *)

\* A job's chunks are those of its last attempt, and gone once it is not to be searched.
CleanJob(j) ==
    /\ row[j].status \in {"absent", "queued", "failed", "cancelled"} => chunks[j] = {}
    /\ row[j].status \in {"processing", "cancel_requested", "ready"} =>
          chunks[j] \subseteq {row[j].attempt}
    /\ row[j].status = "cancelled" => ~object[j]

CleanedPcs == {"retry", "mark_failed", "cancel_object", "mark_cancelled"}

\* What a handler has removed stays removed until it has recorded the outcome.
CleanHandler(w) ==
    worker[w].pc \in CleanedPcs =>
        \/ Status(w) = "deleted"
        \/ /\ chunks[worker[w].job] = {}
           /\ worker[w].pc = "mark_cancelled" => ~object[worker[w].job]

Clean == (\A j \in Jobs : CleanJob(j)) /\ (\A w \in Workers : CleanHandler(w))

LEMMA CleanInit == Init => Clean
  BY DEF Init, Clean, CleanJob, CleanHandler, CleanedPcs, NoRow, IdleWorker

LEMMA CleanedHolds ==
    ASSUME IInv, NEW w \in Workers
    PROVE  /\ worker[w].pc \in CleanedPcs => Holding(w)
           /\ Holding(w) => worker[w].job \in Jobs
  BY HasJob DEF CleanedPcs, Holding, Attempting, Cancelling, AttemptPcs, CancelPcs

LEMMA CleanStep ==
    ASSUME IInv, Uncontested, Owned, Clean, "cleanup" \notin Faults, [Next]_vars
    PROVE  Clean'
\* No status changes, nothing is inserted, and no file is added to a job that has a row.
<1>1. ASSUME SameStatuses,
             \A k \in Jobs : /\ chunks'[k] \subseteq chunks[k]
                             /\ object'[k] => object[k] \/ row[k].status = "absent",
             \A w \in Workers : worker'[w].pc \in CleanedPcs =>
                /\ worker'[w].job = worker[w].job
                /\ worker[w].job \in Jobs
                /\ \/ worker'[w].pc = worker[w].pc
                   \/ Status(w) = "deleted"
                   \/ /\ chunks'[worker[w].job] = {}
                      /\ worker'[w].pc = "mark_cancelled" => ~object'[worker[w].job]
      PROVE  Clean'
  <2>1. \A j \in Jobs : CleanJob(j)'
    BY <1>1 DEF Clean, CleanJob, SameStatuses
  <2>2. ASSUME NEW w \in Workers, worker'[w].pc \in CleanedPcs
        PROVE  \/ row'[worker'[w].job].status = "deleted"
               \/ /\ chunks'[worker'[w].job] = {}
                  /\ worker'[w].pc = "mark_cancelled" => ~object'[worker'[w].job]
    <3>1. CASE worker'[w].pc = worker[w].pc
      <4>1. worker[w].job \in Jobs /\ worker'[w].job = worker[w].job
        BY <1>1, <2>2
      <4>2. Status(w) # "absent"
        BY <2>2, <3>1, CleanedHolds DEF Owned, Holding
      <4>3. QED
        BY <1>1, <2>2, <3>1, <4>1, <4>2 DEF Clean, CleanHandler, SameStatuses, Status
    <3>2. CASE worker'[w].pc # worker[w].pc
      BY <1>1, <2>2, <3>2 DEF SameStatuses, Status
    <3>3. QED
      BY <3>1, <3>2
  <2>3. QED
    BY <2>1, <2>2 DEF Clean, CleanHandler, Status
<1>2. CASE Neutral
  BY <1>1, <1>2, CleanedHolds DEF Neutral, Holding, Attempting, Cancelling, CleanedPcs, AttemptPcs, CancelPcs
\* A user gives the job another status.
<1>3. ASSUME NEW j \in Jobs, NEW s, Becomes(j, s), UNCHANGED <<worker, object, chunks>>,
             \/ s = "deleted"
             \/ s = "queued" /\ row[j].status = "absent"
             \/ s = "cancel_requested" /\ row[j].status \in {"queued", "processing"}
      PROVE  Clean'
  <2>1. \A k \in Jobs : CleanJob(k)'
    BY <1>3 DEF Clean, CleanJob, Becomes
  <2>2. ASSUME NEW w \in Workers, worker[w].pc \in CleanedPcs
        PROVE  \/ row'[worker[w].job].status = "deleted"
               \/ /\ chunks[worker[w].job] = {}
                  /\ worker[w].pc = "mark_cancelled" => ~object[worker[w].job]
    <3>1. worker[w].job \in Jobs /\ Status(w) # "absent"
      BY <2>2, CleanedHolds DEF Owned, Holding
    <3>2. row'[worker[w].job].status = "deleted" \/ Status(w) # "deleted"
      BY <1>3, <3>1 DEF Becomes, Status
    <3>3. QED
      BY <1>3, <2>2, <3>1, <3>2 DEF Clean, CleanHandler
  <2>3. QED
    BY <1>3, <2>1, <2>2 DEF Clean, CleanHandler, Status
<1>4. ASSUME NEW j \in Jobs, ApiStep(j) PROVE Clean'
  <2>1. worker' = worker /\ object \in [Jobs -> BOOLEAN] /\ chunks \in [Jobs -> SUBSET (1..MaxAttempts)]
    BY <1>4, ApiEffects DEF IInv, TypeOK
  <2>2. CASE CreateJob(j)
    BY <1>3, <2>2, ApiEffects DEF CreateJob, store
  <2>3. CASE RequestCancel(j)
    BY <1>3, <2>3, ApiEffects DEF RequestCancel, CanCancel, store
  <2>4. CASE SameStatuses
    <3>1. \A k \in Jobs : /\ chunks'[k] \subseteq chunks[k]
                          /\ object'[k] => object[k] \/ row[k].status = "absent"
      BY <1>4, <2>1
         DEF ApiStep, Upload, StoreUpload, CreateJob, CreateJobFails, RequestCancel, DeleteFind,
         DeleteStep, DeleteChunks, DeleteObject, DeleteRow, DeleteFails, store
    <3>2. QED
      BY <1>1, <2>1, <2>4, <3>1, CleanedHolds
  <2>5. CASE DeleteRow(j)
    <3>1. Becomes(j, DeletedRow(row[j]).status)
      BY <2>5, ApiEffects
    <3>2. DeletedRow(row[j]).status = IF RowExists(row[j]) THEN "deleted" ELSE row[j].status
      BY StatusesRecorded DEF IInv, TypeOK
    <3>3. DeletedRow(row[j]).status = "deleted" \/ SameStatuses
      BY <3>1, <3>2 DEF Becomes, SameStatuses
    <3>4. QED
      BY <1>3, <2>1, <2>4, <2>5, <3>1, <3>3 DEF DeleteRow, store
  <2>6. QED
    BY <1>4, <2>2, <2>3, <2>4, <2>5, ApiEffects
\* A handler records the outcome and is done with the job.
<1>5. ASSUME NEW w \in Workers, NEW pc, NEW s, Holding(w), Moves(w, pc), pc \notin CleanedPcs,
             Becomes(worker[w].job, s), UNCHANGED <<object, chunks>>,
             \/ s = "deleted"
             \/ s = "ready" /\ Status(w) = "processing"
             \/ s \in {"queued", "failed"} /\ worker[w].pc \in CleanedPcs /\ Status(w) # "deleted"
             \/ s = "cancelled" /\ worker[w].pc = "mark_cancelled" /\ Status(w) # "deleted"
      PROVE  Clean'
  <2>1. PICK j \in Jobs : j = worker[w].job
    BY <1>5, CleanedHolds
  <2>2. CleanJob(j)'
    BY <1>5, <2>1 DEF Clean, CleanJob, CleanHandler, Becomes, CleanedPcs, Status
  <2>3. \A k \in Jobs \ {j} : CleanJob(k)'
    BY <1>5, <2>1 DEF Clean, CleanJob, Becomes
  <2>4. ASSUME NEW v \in Workers, v # w, worker[v].pc \in CleanedPcs
        PROVE  \/ row'[worker[v].job].status = "deleted"
               \/ /\ chunks[worker[v].job] = {}
                  /\ worker[v].pc = "mark_cancelled" => ~object[worker[v].job]
    <3>1. CASE worker[v].job = worker[w].job
      <4>1. Status(w) = "deleted"
        BY <1>5, <2>4, <3>1, CleanedHolds, HeldByOne
      <4>2. QED
        BY <1>5, <2>1, <3>1, <4>1 DEF Becomes
    <3>2. CASE worker[v].job # worker[w].job
      BY <1>5, <2>4, <3>2, CleanedHolds DEF Clean, CleanHandler, Becomes, Status
    <3>3. QED
      BY <3>1, <3>2
  <2>5. \A v \in Workers : CleanHandler(v)'
    BY <1>5, <2>4 DEF CleanHandler, Moves, Status
  <2>6. QED
    BY <2>1, <2>2, <2>3, <2>5 DEF Clean
\* An attempt inserts its chunks.
<1>6. ASSUME NEW w \in Workers, NEW pc, Attempting(w), Moves(w, pc), pc \notin CleanedPcs,
             SameStatuses, chunks' = Inserted(w), object' = object
      PROVE  Clean'
  <2>1. /\ worker[w].job \in Jobs
        /\ worker[w].attempt = row[worker[w].job].attempt
        /\ row[worker[w].job].status \in {"processing", "cancel_requested", "deleted"}
        /\ chunks \in [Jobs -> SUBSET (1..MaxAttempts)]
    BY <1>6, CleanedHolds DEF IInv, TypeOK, ClaimsHeld, Owned, Holding, Status
  <2>2. \A k \in Jobs : chunks'[k] = IF k = worker[w].job THEN chunks[k] \union {row[k].attempt}
                                                        ELSE chunks[k]
    BY <1>6, <2>1 DEF Inserted
  <2>3. \A k \in Jobs : CleanJob(k)'
    BY <1>6, <2>1, <2>2 DEF Clean, CleanJob, SameStatuses
  <2>4. ASSUME NEW v \in Workers, v # w, worker[v].pc \in CleanedPcs
        PROVE  \/ row'[worker[v].job].status = "deleted"
               \/ /\ chunks'[worker[v].job] = {}
                  /\ worker[v].pc = "mark_cancelled" => ~object[worker[v].job]
    <3>1. worker[v].job \in Jobs
      BY <2>4, CleanedHolds
    <3>2. worker[v].job = worker[w].job => Status(w) = "deleted"
      BY <1>6, <2>4, CleanedHolds, HeldByOne DEF Holding
    <3>3. QED
      BY <1>6, <2>1, <2>2, <2>4, <3>1, <3>2 DEF Clean, CleanHandler, SameStatuses, Status
  <2>5. \A v \in Workers : CleanHandler(v)'
    BY <1>6, <2>4 DEF CleanHandler, Moves, Status
  <2>6. QED
    BY <2>3, <2>5 DEF Clean
\* A handler moves on.
<1>7. ASSUME NEW w \in Workers, worker[w].pc # "idle", NEW pc, Moves(w, pc), SameStatuses,
             \A k \in Jobs : chunks'[k] \subseteq chunks[k] /\ (object'[k] => object[k]),
             pc \in CleanedPcs => \/ Status(w) = "deleted"
                                 \/ /\ chunks'[worker[w].job] = {}
                                    /\ pc = "mark_cancelled" => ~object'[worker[w].job]
      PROVE  Clean'
  <2>1. worker[w].job \in Jobs
    BY <1>7, HasJob
  <2>2. ASSUME NEW v \in Workers, worker'[v].pc \in CleanedPcs
        PROVE  /\ worker'[v].job = worker[v].job
               /\ worker[v].job \in Jobs
               /\ \/ worker'[v].pc = worker[v].pc
                  \/ Status(v) = "deleted"
                  \/ /\ chunks'[worker[v].job] = {}
                     /\ worker'[v].pc = "mark_cancelled" => ~object'[worker[v].job]
    <3>1. CASE v = w
      <4>1. worker'[w].pc = pc /\ worker'[w].job = worker[w].job
        BY <1>7 DEF Moves
      <4>2. QED
        BY <1>7, <2>1, <2>2, <3>1, <4>1
    <3>2. CASE v # w
      BY <1>7, <2>2, <3>2, CleanedHolds DEF Moves
    <3>3. QED
      BY <3>1, <3>2
  <2>3. QED
    BY <1>1, <1>7, <2>2
<1>8. ASSUME NEW w \in Workers, JobStep(w) PROVE Clean'
  <2>1. object \in [Jobs -> BOOLEAN] /\ chunks \in [Jobs -> SUBSET (1..MaxAttempts)]
    BY DEF IInv, TypeOK
  <2>2. CASE Claim(w)
    <3>1. /\ Status(w) = "queued" /\ Claimed(worker[w].job) /\ Moves(w, "set_stage")
          /\ UNCHANGED <<object, chunks>>
      BY <2>2, RecordEffects DEF Claim, store
    <3>2. worker[w].job \in Jobs /\ \A v \in Workers : Holding(v) => worker[v].job # worker[w].job
      BY <2>2, <3>1, HasJob DEF Claim, Owned, Holding, Status
    <3>3. \A k \in Jobs : CleanJob(k)'
      BY <3>1, <3>2 DEF Clean, CleanJob, Claimed, Status
    <3>4. ASSUME NEW v \in Workers, v # w, worker[v].pc \in CleanedPcs
          PROVE  \/ row'[worker[v].job].status = "deleted"
                 \/ /\ chunks[worker[v].job] = {}
                    /\ worker[v].pc = "mark_cancelled" => ~object[worker[v].job]
      BY <3>1, <3>2, <3>4, CleanedHolds DEF Clean, CleanHandler, Claimed, Status
    <3>5. \A v \in Workers : CleanHandler(v)'
      BY <3>1, <3>4 DEF CleanHandler, CleanedPcs, Moves, Status
    <3>6. QED
      BY <3>3, <3>5 DEF Clean
  <2>3. CASE \/ Peek(w) \/ SetStage(w) \/ CheckCancel(w) \/ BumpIndexVersion(w)
    <3>1. /\ worker[w].pc # "idle" /\ SameStatuses /\ UNCHANGED <<object, chunks>>
          /\ \E pc : Moves(w, pc) /\ pc \notin CleanedPcs
      <4>1. \E pc : Moves(w, pc) /\ pc \notin CleanedPcs
        BY <2>3, HandlerEffects DEF CleanedPcs
      <4>2. QED
        BY <2>3, <4>1, HandlerEffects DEF Peek, SetStage, CheckCancel, BumpIndexVersion, store
    <3>2. QED
      BY <1>7, <3>1
  <2>4. CASE Work(w) \/ IngestRaises(w)
    <3>1. /\ Attempting(w) /\ worker[w].pc # "idle" /\ object' = object
          /\ chunks' = chunks \/ chunks' = Inserted(w)
      BY <2>4 DEF Work, IngestRaises, IngestPcs, Attempting, AttemptPcs
    <3>2. SameStatuses /\ \E pc : Moves(w, pc) /\ pc \notin CleanedPcs
      BY <2>4, HandlerEffects DEF CleanedPcs
    <3>3. QED
      BY <1>6, <1>7, <3>1, <3>2
  <2>5. CASE CleanupChunks(w)
    <3>1. /\ worker[w].pc \in DOMAIN AfterCleanup
          /\ worker[w].pc # "idle" /\ AfterCleanup[worker[w].pc] # "mark_cancelled"
      BY <2>5 DEF CleanupChunks, AfterCleanup
    <3>2. worker[w].job \in Jobs
      BY <3>1, HasJob
    <3>3. /\ \A k \in Jobs : chunks'[k] \subseteq chunks[k]
          /\ chunks'[worker[w].job] = {} /\ object' = object
      BY <2>1, <2>5, <3>2 DEF CleanupChunks
    <3>4. SameStatuses /\ Moves(w, AfterCleanup[worker[w].pc])
      BY <2>5, HandlerEffects
    <3>5. QED
      BY <1>7, <3>1, <3>3, <3>4
  <2>6. CASE RemoveObject(w)
    <3>1. worker[w].pc = "cancel_object" /\ worker[w].job \in Jobs
      BY <2>6, HasJob DEF RemoveObject
    <3>2. /\ ~object'[worker[w].job] /\ chunks' = chunks
          /\ \A k \in Jobs : object'[k] => object[k]
      BY <2>1, <2>6, <3>1 DEF RemoveObject
    <3>3. SameStatuses /\ Moves(w, "mark_cancelled")
      BY <2>6, HandlerEffects
    <3>4. Status(w) = "deleted" \/ chunks'[worker[w].job] = {}
      BY <3>1, <3>2 DEF Clean, CleanHandler, CleanedPcs
    <3>5. QED
      BY <1>7, <3>1, <3>2, <3>3, <3>4
  <2>7. CASE MarkReady(w)
    <3>1. Holding(w) /\ worker[w].pc # "idle" /\ UNCHANGED <<object, chunks>>
      BY <2>7 DEF MarkReady, Holding, Attempting, AttemptPcs, store
    <3>2. CASE Status(w) = "processing"
      BY <1>5, <2>7, <3>1, <3>2, RecordEffects DEF CleanedPcs
    <3>3. CASE Status(w) # "processing"
      BY <1>7, <2>7, <3>1, <3>3, RecordEffects DEF CleanedPcs
    <3>4. QED
      BY <3>2, <3>3
  <2>8. CASE Retry(w) \/ MarkFailed(w) \/ MarkCancelled(w)
    <3>1. /\ worker[w].pc \in CleanedPcs /\ worker[w].job \in Jobs /\ row[worker[w].job] \in Rows
          /\ Holding(w) /\ UNCHANGED <<object, chunks>>
          /\ MarkCancelled(w) => worker[w].pc = "mark_cancelled"
      BY <2>8, HasJob, CleanedHolds DEF Retry, MarkFailed, MarkCancelled, CleanedPcs, store
    <3>2. Status(w) = "deleted" <=> ~RowExists(row[worker[w].job])
      BY <3>1 DEF Owned, Holding, RowExists, Status
    <3>3. PICK s : /\ Becomes(worker[w].job, s)
                   /\ \/ s = "deleted"
                      \/ s \in {"queued", "failed"} /\ Status(w) # "deleted"
                      \/ s = "cancelled" /\ MarkCancelled(w) /\ Status(w) # "deleted"
      BY <2>8, <3>1, <3>2, RecordEffects, StatusesRecorded DEF Status
    <3>4. Moves(w, "ack") \/ Moves(w, "reject")
      BY <2>8, RecordEffects
    <3>5. QED
      BY <1>5, <3>1, <3>3, <3>4 DEF CleanedPcs
  <2>9. QED
    BY <1>8, <2>2, <2>3, <2>4, <2>5, <2>6, <2>7, <2>8 DEF JobStep
<1>9. QED
  BY <1>2, <1>4, <1>8, NeutralStep

\* A document that was indexed still is, unless its deletion has begun to remove it.
Indexed(j) ==
    row[j].status = "deleted" \/ ~object[j] \/ del[j] = "object" \/ chunks[j] # {}

HasIndexed(w) ==
    \/ worker[w].pc \in {"bump", "mark_ready"}
    \/ worker[w].pc = "check" /\ worker[w].stage = "indexing"

Indexing ==
    /\ \A w \in Workers : HasIndexed(w) => Indexed(worker[w].job)
    /\ \A j \in Jobs : row[j].status = "ready" => Indexed(j)
    /\ \A j \in Jobs : del[j] = "chunks_only" => row[j].status = "deleted"

LEMMA IndexingInit == Init => Indexing
  BY DEF Init, Indexing, HasIndexed, NoRow, IdleWorker

LEMMA IndexingHolds ==
    ASSUME IInv, Owned, NEW w \in Workers, HasIndexed(w)
    PROVE  /\ Holding(w) /\ worker[w].job \in Jobs
           /\ Status(w) \in {"processing", "cancel_requested", "deleted"}
  BY HasJob DEF HasIndexed, Owned, Holding, Attempting, AttemptPcs

LEMMA IndexingStep ==
    ASSUME IInv, Uncontested, Owned, Indexing, "cleanup" \notin Faults, [Next]_vars
    PROVE  Indexing'
\* No job becomes ready, nothing is removed but by a deletion, and handlers go on.
<1>1. ASSUME \A k \in Jobs :
                /\ row'[k].status = "ready" => row[k].status = "ready"
                /\ row[k].status = "deleted" => row'[k].status = "deleted"
                /\ row[k].status # "absent" /\ Indexed(k) => Indexed(k)'
                /\ del'[k] = "chunks_only" => del[k] = "chunks_only" \/ row[k].status = "deleted",
             \A w \in Workers : HasIndexed(w)' => HasIndexed(w) /\ worker'[w].job = worker[w].job
      PROVE  Indexing'
  <2>1. \A w \in Workers : HasIndexed(w)' => Indexed(worker[w].job)'
    BY <1>1, IndexingHolds DEF Indexing, Indexed, Status
  <2>2. QED
    BY <1>1, <2>1 DEF Indexing, Indexed
<1>2. CASE Neutral
  BY <1>1, <1>2 DEF Neutral, SameStatuses, Indexed, HasIndexed, AttemptPcs
<1>3. ASSUME NEW j \in Jobs, ApiStep(j) PROVE Indexing'
  <2>1. /\ object \in [Jobs -> BOOLEAN] /\ chunks \in [Jobs -> SUBSET (1..MaxAttempts)]
        /\ del \in [Jobs -> {"idle", "chunks", "chunks_only", "object", "row"}]
        /\ row[j] \in Rows /\ worker' = worker
    BY <1>3, ApiEffects DEF IInv, TypeOK
  <2>2. ASSUME \A k \in Jobs :
                /\ row'[k].status = "ready" => row[k].status = "ready"
                /\ row[k].status = "deleted" => row'[k].status = "deleted"
                /\ row[k].status # "absent" /\ Indexed(k) => Indexed(k)'
                /\ del'[k] = "chunks_only" => del[k] = "chunks_only" \/ row[k].status = "deleted"
        PROVE  Indexing'
    BY <1>1, <2>1, <2>2 DEF HasIndexed
  <2>3. CASE CreateJob(j)
    <3>1. Becomes(j, "queued") /\ row[j].status = "absent" /\ UNCHANGED <<object, chunks, del>>
      BY <2>3, ApiEffects DEF CreateJob, store
    <3>2. QED
      BY <2>2, <3>1 DEF Becomes, Indexed
  <2>4. CASE RequestCancel(j)
    <3>1. /\ Becomes(j, "cancel_requested") /\ row[j].status \in {"queued", "processing"}
          /\ UNCHANGED <<object, chunks, del>>
      BY <2>4, ApiEffects DEF RequestCancel, CanCancel, store
    <3>2. QED
      BY <2>2, <3>1 DEF Becomes, Indexed
  <2>5. CASE DeleteRow(j)
    <3>1. Becomes(j, DeletedRow(row[j]).status) /\ DeletedRow(row[j]).status \in {"deleted", row[j].status}
      BY <2>1, <2>5, ApiEffects, StatusesRecorded
    <3>2. UNCHANGED <<object, chunks>> /\ del[j] = "row" /\ del' = [del EXCEPT ![j] = "idle"]
      BY <2>5 DEF DeleteRow, store
    <3>3. QED
      BY <2>1, <2>2, <3>1, <3>2 DEF Becomes, Indexed
  <2>6. ASSUME SameStatuses,
               \A k \in Jobs : /\ row[k].status # "absent" /\ Indexed(k) => Indexed(k)'
                               /\ del'[k] = "chunks_only" =>
                                     del[k] = "chunks_only" \/ row[k].status = "deleted"
        PROVE  Indexing'
    BY <2>2, <2>6 DEF SameStatuses
  <2>7. CASE StoreUpload(j) \/ CreateJobFails(j)
    <3>1. /\ SameStatuses /\ row[j].status = "absent" /\ UNCHANGED <<chunks, del>>
          /\ \A k \in Jobs \ {j} : object'[k] = object[k]
      BY <2>1, <2>7 DEF StoreUpload, CreateJobFails, SameStatuses, db
    <3>2. QED
      BY <2>6, <3>1 DEF SameStatuses, Indexed
  <2>8. CASE DeleteFind(j)
    <3>1. /\ SameStatuses /\ del[j] = "idle" /\ row[j].status # "absent" /\ UNCHANGED <<object, chunks>>
          /\ del' = [del EXCEPT ![j] = IF RowExists(row[j]) THEN "chunks" ELSE "chunks_only"]
      BY <2>8 DEF DeleteFind, SameStatuses, db, store
    <3>2. QED
      BY <2>1, <2>6, <3>1 DEF SameStatuses, Indexed, RowExists
  <2>9. CASE DeleteChunks(j)
    <3>1. /\ SameStatuses /\ object' = object
          /\ \A k \in Jobs \ {j} : chunks'[k] = chunks[k] /\ del'[k] = del[k]
      BY <2>1, <2>9 DEF DeleteChunks, SameStatuses, db
    <3>2. /\ del[j] = "chunks" \/ row[j].status = "deleted"
          /\ del'[j] = IF chunks[j] # {} /\ del[j] = "chunks" THEN "object" ELSE "idle"
      BY <2>1, <2>9 DEF DeleteChunks, Indexing
    <3>3. QED
      BY <2>6, <3>1, <3>2 DEF SameStatuses, Indexed
  <2>10. CASE DeleteObject(j)
    <3>1. /\ SameStatuses /\ chunks' = chunks /\ ~object'[j]
          /\ \A k \in Jobs \ {j} : object'[k] = object[k] /\ del'[k] = del[k]
          /\ del'[j] = "row"
      BY <2>1, <2>10 DEF DeleteObject, SameStatuses, db
    <3>2. QED
      BY <2>6, <3>1 DEF SameStatuses, Indexed
  <2>11. CASE DeleteFails(j)
    <3>1. /\ SameStatuses /\ del[j] = "row" /\ UNCHANGED <<object, chunks>>
          /\ \A k \in Jobs \ {j} : del'[k] = del[k]
          /\ del'[j] = "idle"
      BY <2>1, <2>11 DEF DeleteFails, SameStatuses, db
    <3>2. QED
      BY <2>6, <3>1 DEF SameStatuses, Indexed
  <2>12. QED
    BY <1>3, <2>3, <2>4, <2>5, <2>7, <2>8, <2>9, <2>10, <2>11 DEF ApiStep, Upload, DeleteStep
\* A handler moves on, with chunks in the index if it says so.
<1>4. ASSUME NEW w \in Workers, NEW pc, Moves(w, pc),
             \A k \in Jobs :
                /\ row'[k].status = "ready" => row[k].status = "ready"
                /\ row[k].status = "deleted" => row'[k].status = "deleted"
                /\ Indexed(k) => Indexed(k)',
             del' = del,
             HasIndexed(w)' => HasIndexed(w)
      PROVE  Indexing'
  BY <1>1, <1>4 DEF Moves, HasIndexed
\* A handler moves on and the job's status, file and chunks stay, or more chunks appear.
<1>5. ASSUME NEW w \in Workers, NEW pc, Moves(w, pc), SameStatuses, UNCHANGED <<object, del>>,
             \A k \in Jobs : chunks[k] \subseteq chunks'[k],
             HasIndexed(w)' => HasIndexed(w)
      PROVE  Indexing'
  <2>1. \A k \in Jobs : Indexed(k) => Indexed(k)'
    BY <1>5 DEF Indexed, SameStatuses
  <2>2. QED
    BY <1>4, <1>5, <2>1 DEF SameStatuses
<1>6. ASSUME NEW w \in Workers, JobStep(w) PROVE Indexing'
  <2>1. /\ object \in [Jobs -> BOOLEAN] /\ chunks \in [Jobs -> SUBSET (1..MaxAttempts)]
        /\ del' = del
    BY <1>6
       DEF IInv, TypeOK, JobStep, Claim, Peek, SetStage, Work, CheckCancel, BumpIndexVersion,
       IngestRaises, MarkReady, CleanupChunks, Retry, MarkFailed, RemoveObject, MarkCancelled
  <2>2. CASE Claim(w)
    <3>1. /\ Status(w) = "queued" /\ Claimed(worker[w].job) /\ Moves(w, "set_stage")
          /\ UNCHANGED <<object, chunks>>
      BY <2>2, RecordEffects DEF Claim, store
    <3>2. QED
      BY <1>4, <2>1, <3>1 DEF Claimed, Status, Moves, HasIndexed, Indexed
  <2>3. CASE Peek(w) \/ SetStage(w) \/ CheckCancel(w) \/ BumpIndexVersion(w)
    <3>1. SameStatuses /\ UNCHANGED <<object, chunks>>
      BY <2>3, HandlerEffects DEF Peek, SetStage, CheckCancel, BumpIndexVersion, store
    <3>2. PICK pc : Moves(w, pc) /\ (pc \in {"bump", "mark_ready"} => HasIndexed(w)) /\ pc # "check"
      BY <2>3, HandlerEffects DEF CheckCancel, BumpIndexVersion, HasIndexed
    <3>3. HasIndexed(w)' => HasIndexed(w)
      BY <3>2 DEF Moves, HasIndexed
    <3>4. QED
      BY <1>5, <2>1, <3>1, <3>2, <3>3
  <2>4. CASE IngestRaises(w)
    <3>1. PICK pc \in {"retry_cleanup", "fail_cleanup"} : Moves(w, pc)
      BY <2>4, HandlerEffects
    <3>2. /\ ~HasIndexed(w)' /\ SameStatuses /\ object' = object
          /\ \A k \in Jobs : chunks[k] \subseteq chunks'[k]
      BY <2>1, <2>4, <3>1, HandlerEffects DEF IngestRaises, Inserted, Moves, HasIndexed
    <3>3. QED
      BY <1>5, <2>1, <3>1, <3>2
  <2>5. CASE Work(w)
    <3>1. /\ Moves(w, "check") /\ worker'[w].stage = worker[w].stage /\ SameStatuses /\ object' = object
          /\ \A k \in Jobs : chunks[k] \subseteq chunks'[k]
      BY <2>1, <2>5, HandlerEffects DEF Work, Inserted
    <3>2. CASE worker[w].stage # "indexing"
      <4>1. ~HasIndexed(w)'
        BY <3>1, <3>2 DEF Moves, HasIndexed
      <4>2. QED
        BY <1>5, <2>1, <3>1, <4>1
    <3>3. CASE worker[w].stage = "indexing"
      <4>1. PICK j \in Jobs : j = worker[w].job
        BY <2>5, HasJob DEF Work
      <4>2. chunks'[j] # {}
        BY <2>1, <2>5, <3>3, <4>1 DEF Work, Inserted
      <4>3. \A k \in Jobs : Indexed(k) => Indexed(k)'
        BY <2>1, <3>1 DEF Indexed, SameStatuses
      <4>4. ASSUME NEW v \in Workers, HasIndexed(v)' PROVE Indexed(worker[v].job)'
        <5>1. CASE v = w
          BY <3>1, <4>1, <4>2, <5>1 DEF Moves, Indexed
        <5>2. CASE v # w
          <6>1. worker'[v] = worker[v] /\ HasIndexed(v)
            BY <3>1, <4>4, <5>2 DEF Moves, HasIndexed
          <6>2. worker[v].job \in Jobs /\ Indexed(worker[v].job)
            BY <6>1, IndexingHolds DEF Indexing
          <6>3. QED
            BY <4>3, <6>1, <6>2 DEF Indexed
        <5>3. QED
          BY <5>1, <5>2
      <4>5. QED
        BY <2>1, <3>1, <4>3, <4>4 DEF Indexing, Indexed, SameStatuses
    <3>4. QED
      BY <3>2, <3>3
  <2>6. CASE MarkReady(w)
    <3>1. /\ HasIndexed(w) /\ UNCHANGED <<object, chunks>>
      BY <2>6 DEF MarkReady, HasIndexed, store
    <3>2. PICK j \in Jobs : j = worker[w].job
      BY <3>1, IndexingHolds
    <3>3. CASE Status(w) = "processing"
      <4>1. Becomes(j, "ready") /\ Moves(w, "ack") /\ Indexed(j) /\ row[j].status = "processing"
        BY <2>6, <3>1, <3>2, <3>3, RecordEffects DEF Indexing, Status
      <4>2. \A k \in Jobs : Indexed(k) => Indexed(k)'
        BY <2>1, <3>1, <4>1 DEF Becomes, Indexed
      <4>3. \A v \in Workers : HasIndexed(v)' => HasIndexed(v) /\ worker'[v].job = worker[v].job
        BY <4>1 DEF Moves, HasIndexed
      <4>4. \A v \in Workers : HasIndexed(v)' => Indexed(worker[v].job)'
        BY <4>2, <4>3, IndexingHolds DEF Indexing, Indexed
      <4>5. \A k \in Jobs : row'[k].status = "ready" => Indexed(k)'
        BY <4>1, <4>2 DEF Becomes, Indexing, Indexed
      <4>6. QED
        BY <2>1, <4>1, <4>4, <4>5 DEF Indexing, Indexed, Becomes
    <3>4. CASE Status(w) # "processing"
      <4>1. SameStatuses /\ Moves(w, "cancel_chunks")
        BY <2>6, <3>4, RecordEffects
      <4>2. QED
        BY <1>5, <2>1, <3>1, <4>1
    <3>5. QED
      BY <3>3, <3>4
  <2>7. CASE CleanupChunks(w)
    <3>1. Holding(w) /\ ~HasIndexed(w)
      BY <2>7 DEF CleanupChunks, AfterCleanup, Holding, Attempting, Cancelling, AttemptPcs, CancelPcs, HasIndexed
    <3>2. PICK j \in Jobs : j = worker[w].job
      BY <3>1, CleanedHolds
    <3>3. /\ SameStatuses /\ Moves(w, AfterCleanup[worker[w].pc]) /\ object' = object
          /\ AfterCleanup[worker[w].pc] \in {"retry", "mark_failed", "cancel_object"}
          /\ \A k \in Jobs \ {j} : chunks'[k] = chunks[k]
      BY <2>1, <2>7, <3>2, HandlerEffects DEF CleanupChunks, AfterCleanup
    <3>4. \A k \in Jobs \ {j} : Indexed(k) => Indexed(k)'
      BY <2>1, <3>3 DEF SameStatuses, Indexed
    <3>5. row[j].status # "ready"
      BY <3>1, <3>2 DEF Owned, Holding, Status
    <3>6. ASSUME NEW v \in Workers, HasIndexed(v)' PROVE Indexed(worker[v].job)'
      <4>1. v # w /\ worker'[v] = worker[v] /\ HasIndexed(v)
        BY <3>3, <3>6 DEF Moves, HasIndexed
      <4>2. worker[v].job \in Jobs /\ Indexed(worker[v].job) /\ Holding(v)
        BY <4>1, IndexingHolds DEF Indexing
      <4>3. CASE worker[v].job = j
        <5>1. row[j].status = "deleted"
          BY <3>1, <3>2, <4>1, <4>2, <4>3, HeldByOne DEF Status
        <5>2. QED
          BY <3>3, <4>1, <4>3, <5>1 DEF SameStatuses, Indexed
      <4>4. CASE worker[v].job # j
        BY <3>4, <4>1, <4>2, <4>4 DEF Indexed
      <4>5. QED
        BY <4>3, <4>4
    <3>7. QED
      BY <2>1, <3>3, <3>4, <3>5, <3>6 DEF Indexing, Indexed, SameStatuses
  <2>8. CASE RemoveObject(w)
    <3>1. worker[w].pc = "cancel_object" /\ worker[w].job \in Jobs
      BY <2>8, HasJob DEF RemoveObject
    <3>2. chunks' = chunks /\ \A k \in Jobs : object'[k] => object[k]
      BY <2>1, <2>8, <3>1 DEF RemoveObject
    <3>3. SameStatuses /\ Moves(w, "mark_cancelled")
      BY <2>8, HandlerEffects
    <3>4. \A k \in Jobs : Indexed(k) => Indexed(k)'
      BY <2>1, <3>2, <3>3 DEF Indexed, SameStatuses
    <3>5. ~HasIndexed(w)'
      BY <3>3 DEF Moves, HasIndexed
    <3>6. QED
      BY <1>4, <2>1, <3>3, <3>4, <3>5 DEF SameStatuses
  <2>9. CASE Retry(w) \/ MarkFailed(w) \/ MarkCancelled(w)
    <3>1. /\ worker[w].job \in Jobs /\ row[worker[w].job] \in Rows
          /\ Holding(w) /\ UNCHANGED <<object, chunks>>
      BY <2>9, HasJob DEF Retry, MarkFailed, MarkCancelled, Holding, Attempting, Cancelling, AttemptPcs,
         CancelPcs, store
    <3>2. Status(w) = "deleted" <=> ~RowExists(row[worker[w].job])
      BY <3>1 DEF Owned, Holding, RowExists, Status
    <3>3. PICK s : /\ Becomes(worker[w].job, s)
                   /\ s # "ready"
                   /\ Status(w) = "deleted" => s = "deleted"
      BY <2>9, <3>1, <3>2, RecordEffects, StatusesRecorded DEF Status
    <3>4. PICK pc \in {"ack", "reject"} : Moves(w, pc)
      BY <2>9, RecordEffects
    <3>5. ~HasIndexed(w)'
      BY <3>4 DEF Moves, HasIndexed
    <3>6. \A k \in Jobs : /\ row'[k].status = "ready" => row[k].status = "ready"
                          /\ row[k].status = "deleted" => row'[k].status = "deleted"
                          /\ Indexed(k) => Indexed(k)'
      BY <2>1, <3>1, <3>3 DEF Becomes, Indexed, Status
    <3>7. QED
      BY <1>4, <2>1, <3>4, <3>5, <3>6
  <2>10. QED
    BY <1>6, <2>2, <2>3, <2>4, <2>5, <2>6, <2>7, <2>8, <2>9 DEF JobStep
<1>7. QED
  BY <1>2, <1>3, <1>6, NeutralStep

LEMMA SpecClean ==
    ASSUME Uncontested, "cleanup" \notin Faults
    PROVE  Spec => [](Clean /\ Indexing)
<1>1. Init => IInv /\ Owned /\ Clean /\ Indexing
  BY InitIInv, OwnedInit, CleanInit, IndexingInit
<1>2. IInv /\ Owned /\ Clean /\ Indexing /\ [Next]_vars => (IInv /\ Owned /\ Clean /\ Indexing)'
  BY NextIInv, OwnedStep, CleanStep, IndexingStep
<1>3. QED
  BY <1>1, <1>2, PTL DEF Spec

\* A failed or cancelled document is not searchable, and a cancelled one's file is gone, if
\* nobody interferes with its handler and removing succeeds.
THEOREM SettledClean ==
    ASSUME Uncontested, "cleanup" \notin Faults
    PROVE  Spec => []NothingLeftBehind
<1>1. Clean => NothingLeftBehind
  BY DEF Clean, CleanJob, NothingLeftBehind
<1>2. QED
  BY <1>1, SpecClean, PTL

\* A ready document is searchable by the chunks of its last attempt and by no others, under
\* the same conditions: no retry indexes it twice.
THEOREM IndexedOnce ==
    ASSUME Uncontested, "cleanup" \notin Faults
    PROVE  Spec => []ReadyIndexedOnce
<1>1. Clean /\ Indexing => ReadyIndexedOnce
  BY DEF Clean, CleanJob, Indexing, Indexed, ReadyIndexedOnce
<1>2. QED
  BY <1>1, SpecClean, PTL

----------------------------------------------------------------------------
(* Files, when PostgreSQL can be reached.                                   *)

\* The file is there, or a deletion that has removed it goes on to remove the row.
Filed(j) == object[j] \/ del[j] = "row"

HaveFiles ==
    /\ \A j \in Jobs : row[j].status \in {"queued", "processing", "ready"} => Filed(j)
    /\ \A w \in Workers : Attempting(w) => Status(w) = "deleted" \/ Filed(worker[w].job)

LEMMA FilesInit == Init => HaveFiles
  BY DEF Init, HaveFiles, NoRow, IdleWorker, Attempting, AttemptPcs

LEMMA FilesStep ==
    ASSUME IInv, Uncontested, Owned, HaveFiles, "postgres" \notin Faults, [Next]_vars
    PROVE  HaveFiles'
<1>1. \A w \in Workers : Attempting(w) => worker[w].job \in Jobs /\ Status(w) # "absent"
  BY CleanedHolds DEF Owned, Holding
\* No file is removed; a job is queued, processed or ready only as long as it has its file.
<1>2. ASSUME \A k \in Jobs :
                /\ row[k].status # "absent" /\ Filed(k) => Filed(k)' \/ row'[k].status = "deleted"
                /\ row'[k].status \in {"queued", "processing", "ready"} =>
                      row[k].status \in {"queued", "processing", "ready"} \/ Filed(k)'
                /\ row[k].status = "deleted" => row'[k].status = "deleted",
             \A w \in Workers : worker'[w].pc \in AttemptPcs =>
                /\ worker'[w].job = worker[w].job
                /\ \/ worker[w].pc \in AttemptPcs
                   \/ Status(w) = "queued" /\ worker[w].job \in Jobs
      PROVE  HaveFiles'
  <2>1. \A k \in Jobs : row'[k].status \in {"queued", "processing", "ready"} => Filed(k)'
    BY <1>2 DEF HaveFiles
  <2>2. ASSUME NEW w \in Workers, Attempting(w)'
        PROVE  row'[worker'[w].job].status = "deleted" \/ Filed(worker[w].job)'
    <3>1. PICK j \in Jobs : /\ j = worker[w].job /\ worker'[w].job = j
                            /\ row[j].status # "absent"
                            /\ row[j].status = "deleted" \/ Filed(j)
      BY <1>1, <1>2, <2>2 DEF HaveFiles, Attempting, Status
    <3>2. row'[j].status = "deleted" \/ Filed(j)'
      BY <1>2, <3>1
    <3>3. QED
      BY <3>1, <3>2 DEF Filed
  <2>3. QED
    BY <2>1, <2>2 DEF HaveFiles, Filed, Status
<1>3. ASSUME NEW j \in Jobs, ApiStep(j) PROVE HaveFiles'
  <2>1. /\ object \in [Jobs -> BOOLEAN]
        /\ del \in [Jobs -> {"idle", "chunks", "chunks_only", "object", "row"}]
        /\ row[j] \in Rows /\ worker' = worker
    BY <1>3, ApiEffects DEF IInv, TypeOK
  <2>2. ASSUME \A k \in Jobs :
                  /\ row[k].status # "absent" /\ Filed(k) => Filed(k)' \/ row'[k].status = "deleted"
                  /\ row'[k].status \in {"queued", "processing", "ready"} =>
                        row[k].status \in {"queued", "processing", "ready"} \/ Filed(k)'
                  /\ row[k].status = "deleted" => row'[k].status = "deleted"
        PROVE  HaveFiles'
    BY <1>2, <2>1, <2>2
  <2>3. CASE CreateJob(j)
    <3>1. Becomes(j, "queued") /\ row[j].status = "absent" /\ object[j] /\ UNCHANGED <<object, del>>
      BY <2>3, ApiEffects DEF CreateJob, store
    <3>2. QED
      BY <2>2, <3>1 DEF Becomes, Filed
  <2>4. CASE RequestCancel(j)
    <3>1. /\ Becomes(j, "cancel_requested") /\ row[j].status \in {"queued", "processing"}
          /\ UNCHANGED <<object, del>>
      BY <2>4, ApiEffects DEF RequestCancel, CanCancel, store
    <3>2. QED
      BY <2>2, <3>1 DEF Becomes, Filed
  <2>5. CASE DeleteRow(j)
    <3>1. /\ Becomes(j, DeletedRow(row[j]).status)
          /\ DeletedRow(row[j]).status = IF RowExists(row[j]) THEN "deleted" ELSE row[j].status
      BY <2>1, <2>5, ApiEffects, StatusesRecorded
    <3>2. row'[j].status \in {"deleted", "absent"} /\ (row'[j].status = "absent" => row[j].status = "absent")
      BY <3>1 DEF Becomes, RowExists
    <3>3. object' = object /\ del' = [del EXCEPT ![j] = "idle"]
      BY <2>5 DEF DeleteRow, store
    <3>4. QED
      BY <2>1, <2>2, <3>1, <3>2, <3>3 DEF Becomes, RowExists, Filed
  <2>6. ASSUME SameStatuses, \A k \in Jobs : row[k].status # "absent" /\ Filed(k) => Filed(k)'
        PROVE  HaveFiles'
    BY <2>2, <2>6 DEF SameStatuses
  <2>7. CASE StoreUpload(j) \/ DeleteFind(j) \/ DeleteChunks(j) \/ DeleteObject(j) \/ DeleteFails(j)
    <3>1. SameStatuses
      BY <2>7 DEF StoreUpload, DeleteFind, DeleteChunks, DeleteObject, DeleteFails, SameStatuses, db
    <3>2. \A k \in Jobs : row[k].status # "absent" /\ Filed(k) => Filed(k)'
      BY <2>1, <2>7
         DEF StoreUpload, DeleteFind, DeleteChunks, DeleteObject, DeleteFails, Filed, store
    <3>3. QED
      BY <2>6, <3>1, <3>2
  <2>8. ~CreateJobFails(j)
    BY DEF CreateJobFails
  <2>9. QED
    BY <1>3, <2>3, <2>4, <2>5, <2>7, <2>8 DEF ApiStep, Upload, DeleteStep
<1>4. CASE Neutral
  BY <1>1, <1>2, <1>4 DEF Neutral, SameStatuses, Attempting, Filed
\* A handler goes on with a file that stays.
<1>5. ASSUME NEW w \in Workers, worker[w].pc # "idle", NEW pc, Moves(w, pc), UNCHANGED <<object, del>>,
             pc \in AttemptPcs => Attempting(w) \/ Status(w) = "queued",
             \A k \in Jobs :
                /\ row'[k].status \in {"queued", "processing", "ready"} =>
                      row[k].status \in {"queued", "processing", "ready"} \/ Filed(k)
                /\ row[k].status = "deleted" => row'[k].status = "deleted"
      PROVE  HaveFiles'
  <2>1. worker[w].job \in Jobs
    BY <1>5, HasJob
  <2>2. ASSUME NEW v \in Workers, worker'[v].pc \in AttemptPcs
        PROVE  /\ worker'[v].job = worker[v].job
               /\ \/ worker[v].pc \in AttemptPcs
                  \/ Status(v) = "queued" /\ worker[v].job \in Jobs
    <3>1. CASE v = w
      BY <1>5, <2>1, <2>2, <3>1 DEF Moves, Attempting
    <3>2. CASE v # w
      BY <1>5, <2>2, <3>2 DEF Moves
    <3>3. QED
      BY <3>1, <3>2
  <2>3. QED
    BY <1>2, <1>5, <2>2 DEF Filed
<1>6. ASSUME NEW w \in Workers, JobStep(w) PROVE HaveFiles'
  <2>1. object \in [Jobs -> BOOLEAN] /\ row \in [Jobs -> Rows]
    BY DEF IInv, TypeOK
  <2>2. CASE Claim(w)
    <3>1. /\ Status(w) = "queued" /\ Claimed(worker[w].job) /\ Moves(w, "set_stage")
          /\ worker[w].pc # "idle" /\ UNCHANGED <<object, del>>
      BY <2>2, RecordEffects DEF Claim, store
    <3>2. QED
      BY <1>5, <3>1 DEF Claimed, Status
  <2>3. CASE \/ Peek(w) \/ SetStage(w) \/ Work(w) \/ CheckCancel(w) \/ BumpIndexVersion(w)
             \/ IngestRaises(w) \/ CleanupChunks(w)
    <3>1. SameStatuses /\ worker[w].pc # "idle" /\ UNCHANGED <<object, del>>
      BY <2>3, HandlerEffects
         DEF Peek, SetStage, Work, CheckCancel, BumpIndexVersion, IngestRaises, IngestPcs, CleanupChunks,
         AfterCleanup, store
    <3>2. PICK pc : Moves(w, pc) /\ (pc \in AttemptPcs => Attempting(w))
      BY <2>3, HandlerEffects
         DEF Peek, SetStage, Work, CheckCancel, BumpIndexVersion, IngestRaises, IngestPcs, CleanupChunks,
         AfterCleanup, Attempting, AttemptPcs
    <3>3. QED
      BY <1>5, <3>1, <3>2 DEF SameStatuses
  <2>4. CASE RemoveObject(w)
    <3>1. SameStatuses /\ Moves(w, "mark_cancelled") /\ del' = del /\ Cancelling(w)
      BY <2>4, HandlerEffects DEF RemoveObject, Cancelling, CancelPcs
    <3>2. PICK j \in Jobs : j = worker[w].job /\ row[j].status \in {"cancel_requested", "deleted"}
      BY <3>1, CleanedHolds DEF Owned, Holding, Status
    <3>3. \A k \in Jobs \ {j} : Filed(k) => Filed(k)'
      BY <2>1, <2>4, <3>1, <3>2 DEF RemoveObject, Filed
    <3>4. \A k \in Jobs : row'[k].status \in {"queued", "processing", "ready"} => Filed(k)'
      BY <3>1, <3>2, <3>3 DEF HaveFiles, SameStatuses
    <3>5. ASSUME NEW v \in Workers, Attempting(v)'
          PROVE  row'[worker'[v].job].status = "deleted" \/ Filed(worker[v].job)'
      <4>1. v # w /\ worker'[v] = worker[v] /\ Attempting(v)
        BY <3>1, <3>5 DEF Moves, Attempting, AttemptPcs
      <4>2. worker[v].job \in Jobs /\ (row[worker[v].job].status = "deleted" \/ Filed(worker[v].job))
        BY <1>1, <4>1 DEF HaveFiles, Status
      <4>3. CASE worker[v].job = j
        <5>1. row[j].status = "deleted"
          BY <3>1, <3>2, <4>1, <4>3, HeldByOne DEF Holding, Status
        <5>2. QED
          BY <3>1, <4>1, <4>3, <5>1 DEF SameStatuses
      <4>4. CASE worker[v].job # j
        BY <3>1, <3>3, <4>1, <4>2, <4>4 DEF SameStatuses, Filed
      <4>5. QED
        BY <4>3, <4>4
    <3>6. QED
      BY <3>4, <3>5 DEF HaveFiles, Filed, Status
  <2>5. CASE MarkReady(w) \/ Retry(w) \/ MarkFailed(w) \/ MarkCancelled(w)
    <3>1. /\ worker[w].job \in Jobs /\ row[worker[w].job] \in Rows /\ worker[w].pc # "idle"
          /\ Holding(w) /\ UNCHANGED <<object, del>>
          /\ ~MarkCancelled(w) => Attempting(w)
      BY <2>5, HasJob DEF MarkReady, Retry, MarkFailed, MarkCancelled, Holding, Attempting, Cancelling,
         AttemptPcs, CancelPcs, store
    <3>2. Status(w) = "deleted" <=> ~RowExists(row[worker[w].job])
      BY <3>1 DEF Owned, Holding, RowExists, Status
    <3>3. PICK pc \in {"ack", "reject", "cancel_chunks"} : Moves(w, pc)
      BY <2>5, RecordEffects
    <3>4. CASE SameStatuses
      BY <1>5, <3>1, <3>3, <3>4 DEF SameStatuses, AttemptPcs
    <3>5. CASE ~SameStatuses
      <4>1. PICK s : /\ Becomes(worker[w].job, s)
                     /\ Status(w) = "deleted" => s = "deleted"
                     /\ s \in {"queued", "ready"} => Attempting(w)
                     /\ s # "processing"
        BY <2>5, <3>1, <3>2, <3>5, RecordEffects, StatusesRecorded DEF Status
      <4>2. Attempting(w) /\ Status(w) # "deleted" => Filed(worker[w].job)
        BY DEF HaveFiles
      <4>3. QED
        BY <1>5, <3>1, <3>3, <4>1, <4>2 DEF Becomes, Status, AttemptPcs
    <3>6. QED
      BY <3>4, <3>5
  <2>6. QED
    BY <1>6, <2>2, <2>3, <2>4, <2>5 DEF JobStep
<1>7. QED
  BY <1>3, <1>4, <1>6, NeutralStep

\* The file of a job that may still be attempted can be read, and a ready document that can
\* be searched has its file, if nobody interferes and PostgreSQL answers: no retry and no
\* cancellation of another attempt removes it.
THEOREM FilesKept ==
    ASSUME Uncontested, "postgres" \notin Faults
    PROVE  Spec => []ObjectKept
<1>1. Init => IInv /\ Owned /\ HaveFiles
  BY InitIInv, OwnedInit, FilesInit
<1>2. IInv /\ Owned /\ HaveFiles /\ [Next]_vars => (IInv /\ Owned /\ HaveFiles)'
  BY NextIInv, OwnedStep, FilesStep
<1>3. HaveFiles => ObjectKept
  BY DEF HaveFiles, Filed, ObjectKept
<1>4. QED
  BY <1>1, <1>2, <1>3, PTL DEF Spec

----------------------------------------------------------------------------
(* A deleted job stays deleted.                                             *)

\* A late answer, a retry or a record of an attempt never brings back a row that was deleted,
\* whatever is interleaved with the deletion: it finds no row to write.
THEOREM DeletedForGood ==
    Spec => [][\A j \in Jobs : row[j].status = "deleted" => row'[j].status = "deleted"]_vars
<1> DEFINE Stays == \A j \in Jobs : row[j].status = "deleted" => row'[j].status = "deleted"
<1>1. ASSUME IInv, [Next]_vars PROVE Stays
  <2>1. CASE Neutral
    BY <2>1 DEF Neutral, SameStatuses
  <2>2. ASSUME NEW j \in Jobs, NEW s, Becomes(j, s), row[j].status = "deleted" => s = "deleted"
        PROVE  Stays
    BY <2>2 DEF Becomes
  <2>3. ASSUME NEW j \in Jobs, ApiStep(j) PROVE Stays
    <3>1. row[j] \in Rows
      BY <1>1 DEF IInv, TypeOK
    <3>2. CASE SameStatuses
      BY <3>2 DEF SameStatuses
    <3>3. CASE CreateJob(j)
      BY <1>1, <2>2, <3>3, ApiEffects DEF CreateJob
    <3>4. CASE RequestCancel(j)
      BY <1>1, <2>2, <3>4, ApiEffects DEF RequestCancel, CanCancel
    <3>5. CASE DeleteRow(j)
      <4>1. row[j].status = "deleted" => DeletedRow(row[j]).status = "deleted"
        BY <3>1, StatusesRecorded
      <4>2. QED
        BY <1>1, <2>2, <3>5, <4>1, ApiEffects
    <3>6. QED
      BY <1>1, <2>3, <3>2, <3>3, <3>4, <3>5, ApiEffects
  <2>4. ASSUME NEW w \in Workers, JobStep(w) PROVE Stays
    <3>1. CASE \/ Peek(w) \/ SetStage(w) \/ Work(w) \/ CheckCancel(w) \/ BumpIndexVersion(w)
               \/ IngestRaises(w) \/ CleanupChunks(w) \/ RemoveObject(w)
      BY <1>1, <3>1, HandlerEffects DEF SameStatuses
    <3>2. CASE Claim(w) \/ MarkReady(w) \/ Retry(w) \/ MarkFailed(w) \/ MarkCancelled(w)
      <4>1. worker[w].job \in Jobs /\ row[worker[w].job] \in Rows
        BY <1>1, <3>2, HasJob DEF Claim, MarkReady, Retry, MarkFailed, MarkCancelled
      <4>2. Status(w) = "deleted" => ~RowExists(row[worker[w].job])
        BY DEF Status, RowExists
      <4>3. CASE Claim(w)
        BY <1>1, <4>1, <4>3, RecordEffects DEF Claimed, Status
      <4>4. CASE MarkReady(w)
        BY <1>1, <2>2, <4>1, <4>4, RecordEffects DEF SameStatuses, Status
      <4>5. CASE Retry(w) \/ MarkFailed(w) \/ MarkCancelled(w)
        <5>1. Status(w) = "deleted" => /\ FailedRow(row[worker[w].job]).status = "deleted"
                                       /\ CancelledRow(row[worker[w].job]).status = "deleted"
          BY <4>1, <4>2, StatusesRecorded DEF Status
        <5>2. \E s : Becomes(worker[w].job, s) /\ (Status(w) = "deleted" => s = "deleted")
          BY <1>1, <4>2, <4>5, <5>1, RecordEffects
        <5>3. QED
          BY <2>2, <4>1, <5>2 DEF Status
      <4>6. QED
        BY <3>2, <4>3, <4>4, <4>5
    <3>3. QED
      BY <2>4, <3>1, <3>2 DEF JobStep
  <2>5. QED
    BY <1>1, <2>1, <2>3, <2>4, NeutralStep
<1>2. IInv /\ [Next]_vars => [Stays]_vars
  BY <1>1
<1>3. QED
  BY <1>2, SpecIInv, PTL DEF Spec
=============================================================================
