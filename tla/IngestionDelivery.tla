-------------------------- MODULE IngestionDelivery --------------------------
(***************************************************************************)
(* A queued job is never stranded, for any jobs, workers, faults and bounds,*)
(* provided that no worker's clock is behind the database's: claim compares *)
(* available_at, which the database set, with the worker's clock.  Neither  *)
(* is one that is processing or whose cancellation was accepted, unless a   *)
(* process dies or PostgreSQL fails.                                        *)
(***************************************************************************)
EXTENDS IngestionAttempts

Exists(j) == RowExists(row[j])

\* The event that goes with the job's current attempt.
Current(j) == <<j, row[j].attempt>>

\* Events belong to jobs that exist and to attempts that were made, and the event of
\* an attempt that is going on is not there yet.
Fresh ==
    /\ \A e \in EventIds : outbox[e].state # "none" =>
          e[2] <= row[e[1]].attempt /\ RowExists(row[e[1]])
    /\ \A w \in Workers : Attempting(w) /\ worker[w].attempt < MaxAttempts =>
          outbox[Current(worker[w].job)].state = "none"

\* A publisher's events are due, and gone only if their job is.
Batched ==
    \A w \in Workers : \A e \in pub[w].batch :
        /\ outbox[e].wait = 0
        /\ outbox[e].state = "none" => row[e[1]].status = "deleted"

\* A queued job may be claimed when its event may be published, or before.
Timely ==
    /\ \A e \in EventIds : outbox[e].state = "published" => outbox[e].wait = 0
    /\ \A j \in Jobs : row[j].status = "queued" =>
          /\ outbox[Current(j)].state # "none"
          /\ row[j].wait <= outbox[Current(j)].wait

\* A message of the job is in the queue or with a handler that has yet to claim the job.
Carried(j) ==
    \/ queue[j] > 0
    \/ \E w \in Workers : worker[w].pc = "claim" /\ worker[w].job = j /\ worker[w].unacked

\* The event has been accepted by the broker.
Sent(e) ==
    \/ outbox[e].state = "published"
    \/ \E w \in Workers : pub[w].phase = "mark" /\ pub[w].event = e

Carriage == \A j \in Jobs : row[j].status = "queued" /\ Sent(Current(j)) => Carried(j)

DInv == IInv /\ Fresh /\ Batched /\ Timely /\ Carriage

----------------------------------------------------------------------------

LEMMA CurrentEvents ==
    ASSUME IInv
    PROVE  /\ \A j \in Jobs : row[j].status = "queued" => Current(j) \in EventIds
           /\ \A w \in Workers : Attempting(w) /\ worker[w].attempt < MaxAttempts =>
                 /\ Current(worker[w].job) \in EventIds
                 /\ Current(worker[w].job) = <<worker[w].job, worker[w].attempt>>
           /\ \A e \in EventIds : e[1] \in Jobs /\ e = <<e[1], e[2]>> /\ e[2] \in Nat
<1>1. row \in [Jobs -> Rows]
  BY DEF IInv, TypeOK
<1>2. ASSUME NEW j \in Jobs, row[j].status = "queued" PROVE Current(j) \in EventIds
  BY <1>1, <1>2, RepositoryAssumption DEF IInv, AttemptsRemain, Rows, Current, EventIds
<1>3. ASSUME NEW w \in Workers, Attempting(w), worker[w].attempt < MaxAttempts
      PROVE  /\ Current(worker[w].job) \in EventIds
             /\ Current(worker[w].job) = <<worker[w].job, worker[w].attempt>>
  <2>1. /\ worker[w].job \in Jobs
        /\ worker[w].attempt = row[worker[w].job].attempt
        /\ worker[w].attempt \in 1..MaxAttempts
    BY <1>3 DEF IInv, Busy, ClaimsHeld, Attempting, AttemptPcs
  <2>2. QED
    BY <1>3, <2>1, RepositoryAssumption DEF Current, EventIds
<1>4. \A e \in EventIds : e[1] \in Jobs /\ e = <<e[1], e[2]>> /\ e[2] \in Nat
  BY RepositoryAssumption DEF EventIds
<1>5. QED
  BY <1>2, <1>3, <1>4

\* A queued job whose event was sent is due.
LEMMA SentIsDue ==
    ASSUME DInv, NEW j \in Jobs, row[j].status = "queued", Sent(Current(j))
    PROVE  row[j].wait <= 0
<1>1. Current(j) \in EventIds
  BY CurrentEvents DEF DInv
<1>2. outbox[Current(j)].wait = 0
  <2>1. CASE outbox[Current(j)].state = "published"
    BY <1>1, <2>1 DEF DInv, Timely
  <2>2. CASE \E w \in Workers : pub[w].phase = "mark" /\ pub[w].event = Current(j)
    BY <2>2 DEF DInv, IInv, Busy, Batched
  <2>3. QED
    BY <2>1, <2>2 DEF Sent
<1>3. QED
  BY <1>2 DEF DInv, Timely

LEMMA InitDInv == Init => DInv
<1> SUFFICES ASSUME Init PROVE DInv
  OBVIOUS
<1>1. IInv
  BY InitIInv
<1>2. \A e \in EventIds : outbox[e].state = "none"
  BY DEF Init, NoEventRow
<1>3. \A j \in Jobs : row[j].status # "queued"
  BY DEF Init, NoRow
<1>4. \A w \in Workers : ~Attempting(w) /\ pub[w].batch = {}
  BY DEF Init, IdleWorker, IdlePub, Attempting, AttemptPcs
<1>5. QED
  BY <1>1, <1>2, <1>3, <1>4 DEF DInv, Fresh, Batched, Timely, Carriage

----------------------------------------------------------------------------
(* What most steps leave as it is.                                          *)

EventsKept ==
    \A e \in EventIds : /\ outbox'[e].state = outbox[e].state
                        /\ outbox'[e].wait = outbox[e].wait

RowsKept ==
    \A j \in Jobs : /\ row'[j].wait = row[j].wait
                    /\ RowExists(row[j]) => RowExists(row'[j])
                    /\ row[j].status = "deleted" => row'[j].status = "deleted"

PubsKept ==
    \A w \in Workers : /\ pub'[w].batch \subseteq pub[w].batch
                       /\ pub'[w].phase = "mark" => pub'[w] = pub[w]

MessagesKept == \A j \in Jobs : Carried(j) => Carried(j)'

LEMMA FrameStep ==
    ASSUME DInv, IInv', Quiet, EventsKept, RowsKept, PubsKept, MessagesKept
    PROVE  DInv'
<1>1. \A j \in Jobs : /\ row'[j].attempt = row[j].attempt
                      /\ Current(j)' = Current(j)
                      /\ row'[j].status = "queued" => row[j].status = "queued"
  BY DEF Quiet, QuietTable, Current
<1>2. \A j \in Jobs : row[j].status = "queued" => Current(j) \in EventIds
  BY CurrentEvents DEF DInv
<1>3. Fresh'
  <2>1. ASSUME NEW e \in EventIds, outbox'[e].state # "none"
        PROVE  e[2] <= row'[e[1]].attempt /\ RowExists(row'[e[1]])
    <3>1. e[1] \in Jobs
      BY DEF EventIds
    <3>2. e[2] <= row[e[1]].attempt /\ RowExists(row[e[1]])
      BY <2>1 DEF EventsKept, DInv, Fresh
    <3>3. QED
      BY <1>1, <3>1, <3>2 DEF RowsKept
  <2>2. ASSUME NEW w \in Workers, Attempting(w)', worker'[w].attempt < MaxAttempts
        PROVE  outbox'[Current(worker[w].job)'].state = "none"
    <3>1. Attempting(w) /\ worker'[w].job = worker[w].job /\ worker'[w].attempt = worker[w].attempt
      BY <2>2 DEF Quiet, QuietWorkers
    <3>2. worker[w].job \in Jobs /\ Current(worker[w].job) \in EventIds
      BY <2>2, <3>1, CurrentEvents DEF DInv, IInv, Busy, Attempting, AttemptPcs
    <3>3. outbox[Current(worker[w].job)].state = "none"
      BY <2>2, <3>1 DEF DInv, Fresh
    <3>4. Current(worker[w].job)' = Current(worker[w].job)
      BY <1>1, <3>1, <3>2 DEF Current
    <3>5. QED
      BY <1>1, <3>1, <3>2, <3>3, <3>4 DEF EventsKept, Current
  <2>3. QED
    BY <2>1, <2>2 DEF Fresh, Current
<1>4. Batched'
  <2> SUFFICES ASSUME NEW w \in Workers, NEW e \in pub'[w].batch
               PROVE  /\ outbox'[e].wait = 0
                      /\ outbox'[e].state = "none" => row'[e[1]].status = "deleted"
    BY DEF Batched
  <2>1. e \in pub[w].batch /\ e \in EventIds /\ e[1] \in Jobs
    BY DEF PubsKept, DInv, IInv, TypeOK, Publishers, EventIds
  <2>2. QED
    BY <2>1 DEF DInv, Batched, EventsKept, RowsKept
<1>5. Timely'
  BY <1>1, <1>2 DEF DInv, Timely, EventsKept, RowsKept, Current
<1>6. Carriage'
  <2> SUFFICES ASSUME NEW j \in Jobs, row'[j].status = "queued", Sent(Current(j))'
               PROVE  Carried(j)'
    BY DEF Carriage
  <2>1. row[j].status = "queued" /\ Current(j) \in EventIds /\ Current(j)' = Current(j)
    BY <1>1, <1>2
  <2>2. Sent(Current(j))
    BY <2>1 DEF Sent, EventsKept, PubsKept
  <2>3. QED
    BY <2>1, <2>2 DEF DInv, Carriage, MessagesKept
<1>7. QED
  BY <1>3, <1>4, <1>5, <1>6 DEF DInv

LEMMA KeepsMessages ==
    ASSUME IInv, IInv', \A j \in Jobs : queue'[j] >= queue[j],
           \A w \in Workers : worker[w].pc = "claim" /\ worker[w].unacked =>
               worker'[w] = worker[w] \/ queue'[worker[w].job] > 0
    PROVE  MessagesKept
<1> SUFFICES ASSUME NEW j \in Jobs, Carried(j) PROVE Carried(j)'
  BY DEF MessagesKept
<1>1. queue[j] \in Nat /\ queue'[j] \in Nat
  BY DEF IInv, TypeOK
<1>2. CASE queue[j] > 0
  BY <1>1, <1>2 DEF Carried
<1>3. CASE \E w \in Workers : worker[w].pc = "claim" /\ worker[w].job = j /\ worker[w].unacked
  BY <1>3 DEF Carried
<1>4. QED
  BY <1>2, <1>3 DEF Carried

\* A handler's unacknowledged message goes back to the queue when the handler ends.
LEMMA RedeliverKeeps ==
    ASSUME IInv, IInv', NEW w \in Workers, Redeliver(w),
           \A v \in Workers \ {w} : worker'[v] = worker[v]
    PROVE  MessagesKept
<1>1. queue \in [Jobs -> Nat]
  BY DEF IInv, TypeOK
<1>2. CASE worker[w].unacked
  <2>1. worker[w].job \in Jobs /\ queue' = [queue EXCEPT ![worker[w].job] = @ + 1]
    BY <1>2 DEF IInv, Busy, Redeliver
  <2>2. (\A j \in Jobs : queue'[j] >= queue[j]) /\ queue'[worker[w].job] > 0
    BY <1>1, <2>1
  <2>3. QED
    BY <2>2, KeepsMessages
<1>3. CASE ~worker[w].unacked
  <2>1. \A j \in Jobs : queue'[j] >= queue[j]
    BY <1>1, <1>3 DEF Redeliver
  <2>2. QED
    BY <1>3, <2>1, KeepsMessages
<1>4. QED
  BY <1>2, <1>3

Kept == EventsKept /\ RowsKept /\ PubsKept /\ MessagesKept

LEMMA KeptRows ==
    ASSUME NEW r \in Rows
    PROVE  /\ \A q \in {CancelledRow(r), FailedRow(r)} :
                 /\ q.wait = r.wait
                 /\ RowExists(r) => RowExists(q)
                 /\ r.status = "deleted" => q.status = "deleted"
           /\ CanCancel(r) => /\ CancelRequestedRow(r).wait = r.wait
                              /\ RowExists(r) /\ RowExists(CancelRequestedRow(r))
           /\ CanMarkReady(r) => /\ ReadyRow(r).wait = r.wait
                                 /\ RowExists(r) /\ RowExists(ReadyRow(r))
           /\ \A s \in Stages : /\ StageRow(r, s).wait = r.wait
                               /\ StageRow(r, s).status = r.status
<1>1. \A q \in {CancelledRow(r), FailedRow(r)} :
         /\ q.wait = r.wait
         /\ RowExists(r) => RowExists(q)
         /\ r.status = "deleted" => q.status = "deleted"
  BY DEF Rows, CancelledRow, FailedRow, Finished, RowExists
<1>2. CanCancel(r) => /\ CancelRequestedRow(r).wait = r.wait
                      /\ RowExists(r) /\ RowExists(CancelRequestedRow(r))
  BY DEF Rows, CanCancel, CancelRequestedRow, RowExists
<1>3. CanMarkReady(r) => /\ ReadyRow(r).wait = r.wait
                         /\ RowExists(r) /\ RowExists(ReadyRow(r))
  BY DEF Rows, CanMarkReady, ReadyRow, RowExists
<1>4. \A s \in Stages : StageRow(r, s).wait = r.wait /\ StageRow(r, s).status = r.status
  BY DEF Rows, StageRow
<1>5. QED
  BY <1>1, <1>2, <1>3, <1>4

\* The steps that send, receive or use up an event or a message.
Delivering ==
    \/ \E j \in Jobs : CreateJob(j) \/ DeleteRow(j)
    \/ \E w \in Workers : \/ ClaimEvents(w) \/ MarkPublished(w)
                          \/ Claim(w) \/ NothingToClaim(w) \/ Requeue(w)
                          \/ \E e \in EventIds : Publish(w, e)
    \/ Tick

LEMMA KeptStep ==
    ASSUME IInv, IInv', [Next]_vars
    PROVE  Kept \/ Delivering
<1>1. /\ worker \in [Workers -> Handlers] /\ row \in [Jobs -> Rows] /\ queue \in [Jobs -> Nat]
      /\ outbox \in [EventIds -> Events] /\ pub \in [Workers -> Publishers]
  BY DEF IInv, TypeOK
<1>2. ASSUME UNCHANGED <<queue, worker>> PROVE MessagesKept
  BY <1>1, <1>2, KeepsMessages
<1>3. ASSUME UNCHANGED outbox PROVE EventsKept
  BY <1>3 DEF EventsKept
<1>4. ASSUME UNCHANGED row PROVE RowsKept
  BY <1>4 DEF RowsKept
<1>5. ASSUME NEW w \in Workers, pub' \in {pub, [pub EXCEPT ![w] = IdlePub]} PROVE PubsKept
  BY <1>1, <1>5 DEF PubsKept, IdlePub
<1>6. ASSUME UNCHANGED pub PROVE PubsKept
  BY <1>6 DEF PubsKept
<1>7. ASSUME NEW j \in Jobs, NEW q, row' = [row EXCEPT ![j] = q],
             q.wait = row[j].wait,
             RowExists(row[j]) => RowExists(q),
             row[j].status = "deleted" => q.status = "deleted"
      PROVE  RowsKept
  BY <1>1, <1>7 DEF RowsKept
<1>8. CASE \E j \in Jobs : \/ StoreUpload(j) \/ DeleteFind(j) \/ DeleteChunks(j) \/ DeleteObject(j)
                          \/ CreateJobFails(j) \/ DeleteFails(j)
  <2>1. UNCHANGED <<row, outbox, queue, worker, pub>>
    BY <1>8 DEF StoreUpload, DeleteFind, DeleteChunks, DeleteObject, CreateJobFails, DeleteFails, db, mq
  <2>2. QED
    BY <1>2, <1>3, <1>4, <1>6, <2>1 DEF Kept
<1>9. ASSUME NEW j \in Jobs, RequestCancel(j) PROVE Kept
  <2>1. RowsKept
    BY <1>1, <1>7, <1>9, KeptRows DEF RequestCancel, RowExists
  <2>2. QED
    BY <1>2, <1>3, <1>6, <1>9, <2>1 DEF RequestCancel, Kept, mq
<1>10. ASSUME NEW w \in Workers, Release(w) PROVE Kept
  <2>1. EventsKept
    BY <1>1, <1>10 DEF Release, EventsKept, ReleasedEvent, Events
  <2>2. PubsKept
    BY <1>1, <1>10 DEF Release, PubsKept, NextEvent
  <2>3. QED
    BY <1>2, <1>4, <1>10, <2>1, <2>2 DEF Release, Kept, mq
<1>11. ASSUME NEW w \in Workers, AbandonBatch(w) PROVE Kept
  BY <1>2, <1>3, <1>4, <1>5, <1>11 DEF AbandonBatch, Kept, mq, db
<1>12. ASSUME NEW w \in Workers, NEW e \in EventIds, PublishFails(w, e) PROVE Kept
  <2>1. PubsKept
    BY <1>1, <1>12 DEF PublishFails, PubsKept, Publishers
  <2>2. \A j \in Jobs : queue'[j] >= queue[j]
    BY <1>1, <1>12 DEF PublishFails
  <2>3. MessagesKept
    BY <1>12, <2>2, KeepsMessages DEF PublishFails
  <2>4. QED
    BY <1>3, <1>4, <1>12, <2>1, <2>3 DEF PublishFails, Kept, db
<1>13. ASSUME NEW w \in Workers, NEW j \in Jobs, Deliver(w, j) PROVE Kept
  <2>1. /\ worker'[w] = Received(j)
        /\ \A v \in Workers \ {w} : worker'[v] = worker[v]
        /\ \A i \in Jobs \ {j} : queue'[i] = queue[i]
    BY <1>1, <1>13 DEF Deliver
  <2>2. Carried(j)'
    BY <2>1 DEF Carried, Received
  <2>3. ASSUME NEW i \in Jobs \ {j}, Carried(i) PROVE Carried(i)'
    <3>1. CASE queue[i] > 0
      BY <2>1, <3>1 DEF Carried
    <3>2. CASE \E v \in Workers : worker[v].pc = "claim" /\ worker[v].job = i /\ worker[v].unacked
      BY <1>13, <2>1, <3>2 DEF Carried, Deliver
    <3>3. QED
      BY <2>3, <3>1, <3>2 DEF Carried
  <2>4. QED
    BY <1>3, <1>4, <1>6, <1>13, <2>2, <2>3 DEF Deliver, Kept, MessagesKept, db
<1>14. ASSUME NEW w \in Workers, ClaimFails(w) \/ RecordFails(w) PROVE Kept
  <2>1. Restart(w)
    BY <1>14 DEF ClaimFails, RecordFails
  <2>2. MessagesKept
    BY <1>1, <2>1, RedeliverKeeps DEF Restart
  <2>3. QED
    BY <1>3, <1>4, <1>5, <2>1, <2>2 DEF Restart, Kept, db
<1>15. ASSUME NEW w \in Workers, Crash(w) PROVE Kept
  <2>1. MessagesKept
    BY <1>1, <1>15, RedeliverKeeps DEF Crash
  <2>2. QED
    BY <1>3, <1>4, <1>5, <1>15, <2>1 DEF Crash, Kept, db
<1>16. ASSUME NEW w \in Workers, ConnectionLost(w) PROVE Kept
  <2>1. MessagesKept
    BY <1>1, <1>16, RedeliverKeeps DEF ConnectionLost
  <2>2. QED
    BY <1>3, <1>4, <1>6, <1>16, <2>1 DEF ConnectionLost, Kept, db
\* A handler that is past the claim no longer counts as carrying its message.
<1>17. ASSUME NEW w \in Workers, NEW h, worker' = [worker EXCEPT ![w] = h], worker[w].pc # "claim",
              UNCHANGED queue
       PROVE  MessagesKept
  BY <1>1, <1>17, KeepsMessages
<1>18. ASSUME NEW w \in Workers, NEW pc, Goto(w, pc), worker[w].pc # "claim", UNCHANGED queue
       PROVE  MessagesKept
  BY <1>1, <1>18, KeepsMessages DEF Goto
<1>19. ASSUME NEW w \in Workers,
              \/ Peek(w) \/ Work(w) \/ BumpIndexVersion(w) \/ IngestRaises(w)
              \/ CleanupChunks(w) \/ RemoveObject(w) \/ CancelIfRequestedFails(w)
       PROVE  Kept
  <2>1. UNCHANGED <<row, outbox, queue, pub>>
    BY <1>19 DEF Peek, Work, BumpIndexVersion, IngestRaises, CleanupChunks, RemoveObject,
       CancelIfRequestedFails, db, mq
  <2>2. worker[w].pc # "claim" /\ \E pc : Goto(w, pc)
    BY <1>19 DEF Peek, Work, BumpIndexVersion, IngestRaises, IngestPcs, CleanupChunks,
       AfterCleanup, RemoveObject, CancelIfRequestedFails
  <2>3. QED
    BY <1>3, <1>4, <1>6, <1>18, <2>1, <2>2 DEF Kept
<1>20. ASSUME NEW w \in Workers, CheckCancel(w) PROVE Kept
  <2>1. MessagesKept
    BY <1>1, <1>20, KeepsMessages DEF CheckCancel, Goto, mq
  <2>2. QED
    BY <1>3, <1>4, <1>6, <1>20, <2>1 DEF CheckCancel, Kept, db
<1>21. ASSUME NEW w \in Workers, Settle(w) PROVE Kept
  <2>1. MessagesKept
    BY <1>17, <1>21 DEF Settle
  <2>2. QED
    BY <1>3, <1>4, <1>5, <1>21, <2>1 DEF Settle, Kept, db
<1>22. ASSUME NEW w \in Workers,
              \/ SetStage(w) \/ MarkReady(w) \/ MarkFailed(w) \/ MarkCancelled(w)
              \/ Retry(w) /\ ~AttemptsLeft(worker[w].attempt)
       PROVE  Kept
  <2>1. worker[w].job \in Jobs /\ worker[w].stage \in Stages
    BY <1>1, <1>22 DEF IInv, Busy, Handlers, SetStage, MarkReady, MarkFailed, MarkCancelled, Retry
  <2>2. RowsKept
    <3>1. CASE SetStage(w)
      <4>1. /\ StageRow(row[worker[w].job], worker[w].stage).wait = row[worker[w].job].wait
            /\ StageRow(row[worker[w].job], worker[w].stage).status = row[worker[w].job].status
        BY <1>1, <2>1, KeptRows
      <4>2. row' = [row EXCEPT ![worker[w].job] = StageRow(row[worker[w].job], worker[w].stage)]
        BY <3>1 DEF SetStage
      <4>3. QED
        BY <1>7, <2>1, <4>1, <4>2 DEF RowExists
    <3>2. CASE MarkReady(w)
      BY <1>1, <1>7, <2>1, <3>2, KeptRows DEF MarkReady, RowExists
    <3>3. CASE MarkFailed(w) \/ (Retry(w) /\ ~AttemptsLeft(worker[w].attempt))
      BY <1>1, <1>7, <2>1, <3>3, KeptRows DEF MarkFailed, Retry
    <3>4. CASE MarkCancelled(w)
      BY <1>1, <1>7, <2>1, <3>4, KeptRows DEF MarkCancelled
    <3>5. QED
      BY <1>22, <3>1, <3>2, <3>3, <3>4
  <2>3. /\ worker[w].pc # "claim" /\ \E pc : Goto(w, pc)
        /\ UNCHANGED <<outbox, queue, pub>>
    BY <1>22 DEF SetStage, MarkReady, MarkFailed, MarkCancelled, Retry, mq
  <2>4. QED
    BY <1>3, <1>6, <1>18, <2>2, <2>3 DEF Kept
<1>23. CASE UNCHANGED vars
  BY <1>2, <1>3, <1>4, <1>6, <1>23 DEF vars, db, mq, Kept
<1>24. QED
  BY <1>8, <1>9, <1>10, <1>11, <1>12, <1>13, <1>14, <1>15, <1>16, <1>19, <1>20, <1>21, <1>22, <1>23
     DEF Next, Request, Upload, DeleteStep, PublisherStep, WorkerStep, Handle, Disruption,
     Delivering, Requeue

----------------------------------------------------------------------------
(* The delivering steps.                                                    *)

LEMMA CreateJobDelivers ==
    ASSUME DInv, IInv', NEW j \in Jobs, CreateJob(j)
    PROVE  DInv'
<1> USE DEF CreateJob
<1>1. /\ row \in [Jobs -> Rows] /\ outbox \in [EventIds -> Events]
      /\ pub \in [Workers -> Publishers]
      /\ row[j].attempt = 0 /\ row[j].status = "absent"
  BY DEF DInv, IInv, TypeOK, AttemptsRemain
<1>2. /\ <<j, 0>> \in EventIds
      /\ row'[j] = CreatedRow /\ \A i \in Jobs \ {j} : row'[i] = row[i]
      /\ outbox'[<<j, 0>>] = InsertedEvent(0)
      /\ \A e \in EventIds \ {<<j, 0>>} : outbox'[e] = outbox[e]
  BY <1>1, RepositoryAssumption DEF EventIds
<1>3. CreatedRow.attempt = 0 /\ CreatedRow.status = "queued" /\ CreatedRow.wait = 0
  BY DEF CreatedRow
<1>4. InsertedEvent(0).state = "pending" /\ InsertedEvent(0).wait = 0
  BY DEF InsertedEvent
<1>5. \A i \in Jobs : Current(i)' = Current(i)
  BY <1>1, <1>2, <1>3 DEF Current
<1>6. \A e \in EventIds : e[1] = j => outbox[e].state = "none"
  BY <1>1 DEF DInv, Fresh, RowExists
<1>7. \A w \in Workers : \A e \in pub[w].batch : e[1] # j
  BY <1>1, <1>6 DEF DInv, Batched, Publishers
<1>8. \A w \in Workers : Attempting(w) => worker[w].job \in Jobs \ {j}
  BY <1>1 DEF DInv, IInv, ClaimsHeld, Busy, Attempting, AttemptPcs
<1>9. Fresh'
  <2>1. ASSUME NEW e \in EventIds, outbox'[e].state # "none"
        PROVE  e[2] <= row'[e[1]].attempt /\ RowExists(row'[e[1]])
    <3>1. CASE e = <<j, 0>>
      BY <1>2, <1>3, <3>1 DEF RowExists
    <3>2. CASE e # <<j, 0>>
      <4>1. e[1] \in Jobs \ {j}
        BY <1>2, <1>6, <2>1, <3>2 DEF EventIds
      <4>2. QED
        BY <1>2, <2>1, <3>2, <4>1 DEF DInv, Fresh
    <3>3. QED
      BY <3>1, <3>2
  <2>2. ASSUME NEW w \in Workers, Attempting(w), worker[w].attempt < MaxAttempts
        PROVE  outbox'[Current(worker[w].job)].state = "none"
    <3>1. worker[w].job \in Jobs \ {j} /\ Current(worker[w].job) \in EventIds
      BY <1>8, <2>2, CurrentEvents DEF DInv
    <3>2. QED
      BY <1>2, <2>2, <3>1 DEF DInv, Fresh, Current
  <2>3. QED
    BY <1>5, <1>8, <2>1, <2>2 DEF Fresh, Attempting, Current
<1>10. Batched'
  <2> SUFFICES ASSUME NEW w \in Workers, NEW e \in pub[w].batch
               PROVE  /\ outbox'[e].wait = 0
                      /\ outbox'[e].state = "none" => row'[e[1]].status = "deleted"
    BY DEF Batched
  <2>1. e \in EventIds \ {<<j, 0>>} /\ e[1] \in Jobs \ {j}
    BY <1>1, <1>7 DEF Publishers, EventIds
  <2>2. QED
    BY <1>2, <2>1 DEF DInv, Batched
<1>11. Timely'
  <2>1. \A e \in EventIds : outbox'[e].state = "published" => outbox'[e].wait = 0
    BY <1>2, <1>4 DEF DInv, Timely
  <2>2. ASSUME NEW i \in Jobs, row'[i].status = "queued"
        PROVE  /\ outbox'[Current(i)].state # "none"
               /\ row'[i].wait <= outbox'[Current(i)].wait
    <3>1. CASE i = j
      BY <1>1, <1>2, <1>3, <1>4, <3>1 DEF Current
    <3>2. CASE i # j
      <4>1. row[i].status = "queued" /\ Current(i) \in EventIds \ {<<j, 0>>}
        BY <1>2, <2>2, <3>2, CurrentEvents DEF DInv, Current
      <4>2. QED
        BY <1>2, <3>2, <4>1 DEF DInv, Timely
    <3>3. QED
      BY <3>1, <3>2
  <2>3. QED
    BY <1>5, <2>1, <2>2 DEF Timely
<1>12. Carriage'
  <2> SUFFICES ASSUME NEW i \in Jobs, row'[i].status = "queued", Sent(Current(i))'
               PROVE  Carried(i)'
    BY DEF Carriage
  <2>1. i # j
    <3>1. ASSUME i = j PROVE FALSE
      <4>1. Current(i)' = <<j, 0>>
        BY <1>1, <1>5, <3>1 DEF Current
      <4>2. PICK w \in Workers : pub[w].phase = "mark" /\ pub[w].event = <<j, 0>>
        BY <1>2, <1>4, <4>1 DEF Sent
      <4>3. QED
        BY <1>7, <4>2 DEF DInv, IInv, Busy
    <3>2. QED
      BY <3>1
  <2>2. row[i].status = "queued" /\ Current(i) \in EventIds \ {<<j, 0>>} /\ Current(i)' = Current(i)
    BY <1>2, <1>5, <2>1, CurrentEvents DEF DInv, Current
  <2>3. Sent(Current(i))
    BY <1>2, <2>2 DEF Sent
  <2>4. QED
    BY <2>2, <2>3 DEF DInv, Carriage, Carried, mq
<1>13. QED
  BY <1>9, <1>10, <1>11, <1>12 DEF DInv

LEMMA DeleteRowDelivers ==
    ASSUME DInv, IInv', NEW j \in Jobs, DeleteRow(j)
    PROVE  DInv'
<1>1. /\ row \in [Jobs -> Rows] /\ outbox \in [EventIds -> Events]
      /\ pub \in [Workers -> Publishers]
  BY DEF DInv, IInv, TypeOK
<1>2. /\ row' = [row EXCEPT ![j] = DeletedRow(@)]
      /\ outbox' = [e \in EventIds |-> IF e[1] = j THEN NoEventRow ELSE outbox[e]]
      /\ UNCHANGED <<queue, worker, pub>>
  BY DEF DeleteRow, mq
<1>3. /\ row'[j].attempt = row[j].attempt
      /\ row'[j].status \in {"absent", "deleted"}
      /\ row[j].status # "absent" => row'[j].status = "deleted"
  BY <1>1, <1>2 DEF DeletedRow, RowExists, Rows
<1>4. \A i \in Jobs \ {j} : row'[i] = row[i]
  BY <1>1, <1>2
<1>5. \A i \in Jobs : Current(i)' = Current(i)
  BY <1>3, <1>4 DEF Current
<1>6. NoEventRow.state = "none" /\ NoEventRow.wait = 0
  BY DEF NoEventRow
<1>7. Fresh'
  <2>1. ASSUME NEW e \in EventIds, outbox'[e].state # "none"
        PROVE  e[2] <= row'[e[1]].attempt /\ RowExists(row'[e[1]])
    <3>1. e[1] \in Jobs \ {j} /\ outbox'[e] = outbox[e]
      BY <1>2, <1>6, <2>1 DEF EventIds
    <3>2. QED
      BY <1>4, <2>1, <3>1 DEF DInv, Fresh
  <2>2. ASSUME NEW w \in Workers, Attempting(w), worker[w].attempt < MaxAttempts
        PROVE  outbox'[Current(worker[w].job)].state = "none"
    <3>1. Current(worker[w].job) \in EventIds
      BY <2>2, CurrentEvents DEF DInv
    <3>2. QED
      BY <1>2, <1>6, <2>2, <3>1 DEF DInv, Fresh
  <2>3. \A w \in Workers : Attempting(w) => worker[w].job \in Jobs
    BY DEF DInv, IInv, Busy, Attempting, AttemptPcs
  <2>4. QED
    BY <1>2, <1>5, <2>1, <2>2, <2>3 DEF Fresh, Attempting, Current
<1>8. Batched'
  <2> SUFFICES ASSUME NEW w \in Workers, NEW e \in pub[w].batch
               PROVE  /\ outbox'[e].wait = 0
                      /\ outbox'[e].state = "none" => row'[e[1]].status = "deleted"
    BY <1>2 DEF Batched
  <2>1. e \in EventIds /\ e[1] \in Jobs
    BY <1>1 DEF Publishers, EventIds
  <2>2. row[e[1]].status # "absent"
    BY <2>1 DEF DInv, Batched, Fresh, RowExists
  <2>3. CASE e[1] = j
    BY <1>2, <1>3, <1>6, <2>1, <2>2, <2>3
  <2>4. CASE e[1] # j
    BY <1>2, <1>4, <2>1, <2>4 DEF DInv, Batched
  <2>5. QED
    BY <2>3, <2>4
<1>9. Timely' /\ Carriage'
  <2>1. ASSUME NEW i \in Jobs, row'[i].status = "queued"
        PROVE  /\ row[i].status = "queued"
               /\ row'[i] = row[i]
               /\ Current(i) \in EventIds
               /\ Current(i)' = Current(i)
               /\ outbox'[Current(i)] = outbox[Current(i)]
    <3>1. i # j
      BY <1>3, <2>1
    <3>2. row[i].status = "queued" /\ Current(i) \in EventIds
      BY <1>4, <2>1, <3>1, CurrentEvents DEF DInv
    <3>3. QED
      BY <1>2, <1>4, <1>5, <3>1, <3>2 DEF Current
  <2>2. Timely'
    BY <1>2, <1>6, <2>1 DEF DInv, Timely
  <2>3. Carriage'
    <3> SUFFICES ASSUME NEW i \in Jobs, row'[i].status = "queued", Sent(Current(i))'
                 PROVE  Carried(i)'
      BY DEF Carriage
    <3>1. Sent(Current(i))
      BY <1>2, <2>1 DEF Sent
    <3>2. QED
      BY <1>2, <2>1, <3>1 DEF DInv, Carriage, Carried
  <2>4. QED
    BY <2>2, <2>3
<1>10. QED
  BY <1>7, <1>8, <1>9 DEF DInv

\* A publisher's step: what it does to the events and to its own batch keeps the batch
\* due, and an event is marked as published after the broker took it.
LEMMA PublisherDelivers ==
    ASSUME DInv, IInv', UNCHANGED <<row, worker>>,
           \A e \in EventIds : /\ outbox'[e].wait = outbox[e].wait
                               /\ outbox'[e].state = "none" <=> outbox[e].state = "none",
           \A w \in Workers : \A e \in pub'[w].batch : e \in pub[w].batch \/ CanClaimEvent(outbox[e]),
           \A e \in EventIds : Sent(e)' /\ ~Sent(e) => queue'[e[1]] > 0,
           \A e \in EventIds : outbox'[e].state = "published" => outbox[e].wait = 0,
           MessagesKept
    PROVE  DInv'
<1>1. \A i \in Jobs : Current(i)' = Current(i)
  BY DEF Current
<1>2. \A i \in Jobs : row[i].status = "queued" => Current(i) \in EventIds /\ Current(i)[1] = i
  BY CurrentEvents DEF DInv, Current
<1>3. Fresh'
  <2>1. \A e \in EventIds : outbox'[e].state # "none" =>
           e[2] <= row'[e[1]].attempt /\ RowExists(row'[e[1]])
    BY DEF DInv, Fresh
  <2>2. ASSUME NEW w \in Workers, Attempting(w), worker[w].attempt < MaxAttempts
        PROVE  outbox'[Current(worker[w].job)].state = "none"
    <3>1. Current(worker[w].job) \in EventIds
      BY <2>2, CurrentEvents DEF DInv
    <3>2. QED
      BY <2>2, <3>1 DEF DInv, Fresh
  <2>3. QED
    BY <2>1, <2>2 DEF Fresh, Attempting, Current
<1>4. Batched'
  <2> SUFFICES ASSUME NEW w \in Workers, NEW e \in pub'[w].batch
               PROVE  /\ outbox'[e].wait = 0
                      /\ outbox'[e].state = "none" => row'[e[1]].status = "deleted"
    BY DEF Batched
  <2>1. e \in EventIds
    BY DEF IInv, TypeOK, Publishers
  <2>2. QED
    BY <2>1 DEF DInv, Batched, CanClaimEvent
<1>5. Timely'
  BY <1>1, <1>2 DEF DInv, Timely
<1>6. Carriage'
  <2> SUFFICES ASSUME NEW i \in Jobs, row'[i].status = "queued", Sent(Current(i))'
               PROVE  Carried(i)'
    BY DEF Carriage
  <2>1. /\ row[i].status = "queued" /\ Current(i) \in EventIds
        /\ Current(i)[1] = i /\ Current(i)' = Current(i)
    BY <1>1, <1>2
  <2>2. CASE Sent(Current(i))
    BY <2>1, <2>2 DEF DInv, Carriage, MessagesKept
  <2>3. CASE ~Sent(Current(i))
    <3>1. \A e \in EventIds : e = Current(i) => Sent(e)' /\ ~Sent(e)
      BY <2>1, <2>3 DEF Sent
    <3>2. queue'[i] > 0
      BY <2>1, <3>1
    <3>3. QED
      BY <3>2 DEF Carried
  <2>4. QED
    BY <2>2, <2>3
<1>7. QED
  BY <1>3, <1>4, <1>5, <1>6 DEF DInv

LEMMA OutboxDelivers ==
    ASSUME DInv, IInv', NEW w \in Workers,
           ClaimEvents(w) \/ MarkPublished(w) \/ \E e \in EventIds : Publish(w, e)
    PROVE  DInv'
<1>1. /\ outbox \in [EventIds -> Events] /\ pub \in [Workers -> Publishers]
      /\ queue \in [Jobs -> Nat]
  BY DEF DInv, IInv, TypeOK
<1>2. CASE ClaimEvents(w)
  <2>1. PICK S \in SUBSET EventIds :
          /\ \A e \in S : CanClaimEvent(outbox[e])
          /\ pub' = [pub EXCEPT ![w].batch = S]
          /\ outbox' = [e \in EventIds |-> IF e \in S THEN LockedEvent(outbox[e]) ELSE outbox[e]]
    BY <1>2 DEF ClaimEvents
  <2>2. \A e \in EventIds : outbox'[e].state = outbox[e].state /\ outbox'[e].wait = outbox[e].wait
    BY <1>1, <2>1 DEF LockedEvent, Events
  <2>3. \A v \in Workers : \A e \in pub'[v].batch : e \in pub[v].batch \/ CanClaimEvent(outbox[e])
    BY <1>1, <2>1 DEF Publishers
  <2>4. \A v \in Workers : pub'[v].phase = pub[v].phase /\ pub'[v].event = pub[v].event
    BY <1>1, <2>1 DEF Publishers
  <2>5. \A e \in EventIds : Sent(e)' => Sent(e)
    BY <2>2, <2>4 DEF Sent
  <2>6. UNCHANGED <<row, worker, queue>>
    BY <1>2 DEF ClaimEvents, mq
  <2>7. MessagesKept
    BY <2>6 DEF MessagesKept, Carried
  <2>8. \A e \in EventIds : outbox'[e].state = "published" => outbox[e].wait = 0
    BY <2>2 DEF DInv, Timely
  <2>9. QED
    BY <2>2, <2>3, <2>5, <2>6, <2>7, <2>8, PublisherDelivers
<1>3. CASE MarkPublished(w)
  <2>1. /\ pub[w].phase = "mark" /\ pub[w].event \in pub[w].batch /\ pub[w].event \in EventIds
        /\ outbox' = [outbox EXCEPT ![pub[w].event] = PublishedEvent(@)]
        /\ pub' = [pub EXCEPT ![w] = NextEvent(@)]
        /\ UNCHANGED <<row, worker, queue>>
    BY <1>1, <1>3 DEF MarkPublished, mq, DInv, IInv, Busy, Publishers
  <2>2. \A e \in EventIds : /\ outbox'[e].wait = outbox[e].wait
                            /\ outbox'[e].state = "none" <=> outbox[e].state = "none"
                            /\ e # pub[w].event => outbox'[e] = outbox[e]
    BY <1>1, <2>1 DEF PublishedEvent, Events
  <2>3. \A v \in Workers : /\ pub'[v].batch \subseteq pub[v].batch
                           /\ pub'[v].phase = "mark" => pub'[v] = pub[v]
    BY <1>1, <2>1 DEF NextEvent
  <2>4. \A e \in EventIds : Sent(e)' => Sent(e)
    BY <2>1, <2>2, <2>3 DEF Sent
  <2>5. \A e \in EventIds : outbox'[e].state = "published" => outbox[e].wait = 0
    BY <2>1, <2>2 DEF DInv, Timely, Batched
  <2>6. MessagesKept
    BY <2>1 DEF MessagesKept, Carried
  <2>7. QED
    BY <2>1, <2>2, <2>3, <2>4, <2>5, <2>6, PublisherDelivers
<1>4. ASSUME NEW e \in EventIds, Publish(w, e) PROVE DInv'
  <2>1. /\ e[1] \in Jobs /\ queue' = [queue EXCEPT ![e[1]] = @ + 1]
        /\ pub' = [pub EXCEPT ![w].phase = "mark", ![w].event = e]
        /\ UNCHANGED <<row, worker, outbox>>
    BY <1>4 DEF Publish, db, EventIds
  <2>2. queue'[e[1]] > 0 /\ \A j \in Jobs : queue'[j] >= queue[j]
    BY <1>1, <2>1
  <2>3. MessagesKept
    BY <2>1, <2>2, KeepsMessages DEF DInv
  <2>4. \A v \in Workers : /\ pub'[v].batch = pub[v].batch
                           /\ v # w => pub'[v] = pub[v]
                           /\ pub'[v].phase = "mark" => pub'[v].event = e \/ pub'[v] = pub[v]
    BY <1>1, <2>1 DEF Publishers
  <2>5. \A f \in EventIds : Sent(f)' /\ ~Sent(f) => f = e
    BY <2>1, <2>4 DEF Sent
  <2>6. \A f \in EventIds : outbox'[f].state = "published" => outbox[f].wait = 0
    BY <2>1 DEF DInv, Timely
  <2>7. QED
    BY <2>1, <2>2, <2>3, <2>4, <2>5, <2>6, PublisherDelivers
<1>5. QED
  BY <1>2, <1>3, <1>4

LEMMA ClaimDelivers ==
    ASSUME DInv, IInv', NEW w \in Workers, Claim(w)
    PROVE  DInv'
<1> DEFINE j == worker[w].job
<1>1. /\ row \in [Jobs -> Rows] /\ worker \in [Workers -> Handlers]
      /\ worker[w].pc = "claim" /\ j \in Jobs /\ row[j].status = "queued"
  BY DEF DInv, IInv, TypeOK, Busy, Claim, CanClaim
<1>2. /\ row'[j].status = "processing" /\ row'[j].attempt = row[j].attempt + 1
      /\ row[j].attempt \in Nat
      /\ \A i \in Jobs \ {j} : row'[i] = row[i]
  BY <1>1 DEF Claim, ClaimedRow, Rows
<1>3. /\ worker'[w].job = j /\ worker'[w].pc # "claim"
      /\ worker'[w].attempt = row[j].attempt + 1
      /\ \A v \in Workers \ {w} : worker'[v] = worker[v]
  BY <1>1 DEF Claim, Handlers
<1>4. UNCHANGED <<outbox, queue, pub>>
  BY DEF Claim, mq
<1>5. \A i \in Jobs \ {j} : Current(i)' = Current(i)
  BY <1>2 DEF Current
<1>6. Fresh'
  <2>1. ASSUME NEW e \in EventIds, outbox'[e].state # "none"
        PROVE  e[2] <= row'[e[1]].attempt /\ RowExists(row'[e[1]])
    <3>1. e[1] \in Jobs /\ e[2] \in Nat /\ e[2] <= row[e[1]].attempt /\ RowExists(row[e[1]])
      BY <1>4, <2>1, CurrentEvents DEF DInv, Fresh
    <3>2. CASE e[1] = j
      BY <1>2, <3>1, <3>2 DEF RowExists
    <3>3. CASE e[1] # j
      BY <1>2, <3>1, <3>3
    <3>4. QED
      BY <3>2, <3>3
  <2>2. ASSUME NEW v \in Workers \ {w}, Attempting(v)', worker'[v].attempt < MaxAttempts
        PROVE  outbox'[Current(worker[v].job)'].state = "none"
    <3>1. /\ Attempting(v) /\ worker'[v] = worker[v]
          /\ worker[v].job \in Jobs \ {j} /\ Current(worker[v].job) \in EventIds
      BY <1>1, <1>3, <2>2, CurrentEvents
         DEF DInv, IInv, ClaimsHeld, Busy, Attempting, AttemptPcs
    <3>2. outbox[Current(worker[v].job)].state = "none"
      BY <2>2, <3>1 DEF DInv, Fresh
    <3>3. QED
      BY <1>2, <1>4, <3>1, <3>2 DEF Current
  <2>3. ASSUME worker'[w].attempt < MaxAttempts
        PROVE  outbox'[Current(worker[w].job)'].state = "none"
    <3>1. Current(worker[w].job)' = <<j, row[j].attempt + 1>>
      BY <1>2, <1>3 DEF Current
    <3>2. <<j, row[j].attempt + 1>> \in EventIds
      BY <1>1, <1>2, <1>3, <2>3, RepositoryAssumption DEF EventIds
    <3>3. outbox[<<j, row[j].attempt + 1>>].state = "none"
      BY <1>2, <3>2 DEF DInv, Fresh
    <3>4. QED
      BY <1>4, <3>1, <3>3
  <2>4. QED
    BY <2>1, <2>2, <2>3 DEF Fresh
<1>7. Batched'
  BY <1>1, <1>2, <1>4 DEF DInv, IInv, TypeOK, Publishers, EventIds, Batched
<1>8. Timely'
  <2> SUFFICES ASSUME NEW i \in Jobs, row'[i].status = "queued"
               PROVE  /\ outbox'[Current(i)'].state # "none"
                      /\ row'[i].wait <= outbox'[Current(i)'].wait
    BY <1>4 DEF DInv, Timely
  <2>1. i # j
    BY <1>2
  <2>2. QED
    BY <1>2, <1>4, <1>5, <2>1 DEF DInv, Timely
<1>9. Carriage'
  <2> SUFFICES ASSUME NEW i \in Jobs, row'[i].status = "queued", Sent(Current(i))'
               PROVE  Carried(i)'
    BY DEF Carriage
  <2>1. i # j /\ row[i].status = "queued" /\ Current(i)' = Current(i)
    BY <1>2, <1>5
  <2>2. Sent(Current(i))
    BY <1>4, <2>1 DEF Sent
  <2>3. Carried(i)
    BY <2>1, <2>2 DEF DInv, Carriage
  <2>4. QED
    BY <1>3, <1>4, <2>1, <2>3 DEF Carried
<1>10. QED
  BY <1>6, <1>7, <1>8, <1>9 DEF DInv

\* A handler drops the message of a queued job only while the job's event is still due
\* to be sent: this is where a clock that is behind would strand the job.
LEMMA NothingToClaimDelivers ==
    ASSUME DInv, IInv', NEW w \in Workers, Skew[w] >= 0, NothingToClaim(w)
    PROVE  DInv'
<1> DEFINE j == worker[w].job
<1>1. /\ row \in [Jobs -> Rows] /\ worker \in [Workers -> Handlers]
      /\ worker[w].pc = "claim" /\ j \in Jobs /\ Skew[w] \in Int
      /\ ~CanClaim(row[j], Skew[w])
  BY IngestionAssumption, RepositoryAssumption DEF DInv, IInv, TypeOK, Busy, NothingToClaim
<1>2. /\ UNCHANGED <<row, outbox, queue, pub>>
      /\ worker' = [worker EXCEPT ![w].pc = "peek"]
  BY DEF NothingToClaim, Goto, db, mq
<1>3. row[j].status = "queued" => ~Sent(Current(j))
  <2> SUFFICES ASSUME row[j].status = "queued", Sent(Current(j)) PROVE FALSE
    OBVIOUS
  <2>1. row[j].wait <= 0 /\ row[j].wait \in Int
    BY <1>1, SentIsDue DEF Rows
  <2>2. QED
    BY <1>1, <2>1 DEF CanClaim
<1>4. \A v \in Workers : /\ worker'[v].job = worker[v].job
                         /\ worker'[v].attempt = worker[v].attempt
                         /\ v # w => worker'[v] = worker[v]
                         /\ Attempting(v)' => Attempting(v)
  BY <1>1, <1>2 DEF Handlers, Attempting, AttemptPcs
<1>5. Fresh'
  BY <1>2, <1>4 DEF DInv, Fresh, Current
<1>6. Batched' /\ Timely'
  BY <1>2 DEF DInv, Batched, Timely, Current
<1>7. Carriage'
  <2> SUFFICES ASSUME NEW i \in Jobs, row'[i].status = "queued", Sent(Current(i))'
               PROVE  Carried(i)'
    BY DEF Carriage
  <2>1. row[i].status = "queued" /\ Sent(Current(i))
    BY <1>2 DEF Sent, Current
  <2>2. i # j /\ Carried(i)
    BY <1>3, <2>1 DEF DInv, Carriage
  <2>3. QED
    BY <1>2, <1>4, <2>2 DEF Carried
<1>8. QED
  BY <1>5, <1>6, <1>7 DEF DInv

\* The retry's event was not there before, so no publisher can have sent it.
LEMMA RequeueDelivers ==
    ASSUME DInv, IInv', NEW w \in Workers, Requeue(w)
    PROVE  DInv'
<1> DEFINE j == worker[w].job
           a == worker[w].attempt
<1>1. /\ row \in [Jobs -> Rows] /\ worker \in [Workers -> Handlers]
      /\ outbox \in [EventIds -> Events] /\ pub \in [Workers -> Publishers]
      /\ worker[w].pc = "retry" /\ Attempting(w) /\ j \in Jobs /\ a < MaxAttempts
      /\ a = row[j].attempt /\ RowExists(row[j]) /\ RetryDelay(a) \in Nat
  BY AttemptTypes
     DEF DInv, IInv, TypeOK, Busy, ClaimsHeld, Requeue, Retry, AttemptsLeft, Attempting, AttemptPcs
<1>2. /\ Current(j) = <<j, a>> /\ <<j, a>> \in EventIds
      /\ outbox[<<j, a>>].state = "none"
  BY <1>1, CurrentEvents DEF DInv, Fresh, Current
<1>3. /\ row' = [row EXCEPT ![j] = RetriedRow(@, a)]
      /\ outbox' = [outbox EXCEPT ![<<j, a>>] = InsertedEvent(RetryDelay(a))]
      /\ worker' = [worker EXCEPT ![w].pc = "ack"]
      /\ UNCHANGED <<queue, pub>>
  BY DEF Requeue, Retry, Goto, mq
<1>4. /\ row'[j].status = "queued" /\ row'[j].attempt = a /\ row'[j].wait = RetryDelay(a)
      /\ \A i \in Jobs \ {j} : row'[i] = row[i]
  BY <1>1, <1>3 DEF RetriedRow, Finished, Rows
<1>5. /\ outbox'[<<j, a>>].state = "pending" /\ outbox'[<<j, a>>].wait = RetryDelay(a)
      /\ \A e \in EventIds \ {<<j, a>>} : outbox'[e] = outbox[e]
  BY <1>1, <1>2, <1>3 DEF InsertedEvent
<1>6. \A i \in Jobs : Current(i)' = Current(i)
  BY <1>1, <1>4 DEF Current
<1>7. \A v \in Workers : <<j, a>> \notin pub[v].batch
  <2>1. row[j].status # "deleted"
    BY <1>1 DEF RowExists
  <2>2. QED
    BY <1>2, <2>1 DEF DInv, Batched
<1>8. \A v \in Workers : /\ worker'[v].job = worker[v].job
                         /\ worker'[v].attempt = worker[v].attempt
                         /\ worker'[v].pc = "claim" <=> worker[v].pc = "claim"
                         /\ worker'[v].unacked = worker[v].unacked
                         /\ Attempting(v)' => Attempting(v) /\ v # w
  BY <1>1, <1>3 DEF Handlers, Attempting, AttemptPcs
<1>9. Fresh'
  <2>1. ASSUME NEW e \in EventIds, outbox'[e].state # "none"
        PROVE  e[2] <= row'[e[1]].attempt /\ RowExists(row'[e[1]])
    <3>1. CASE e = <<j, a>>
      BY <1>1, <1>4, <3>1 DEF RowExists, Rows
    <3>2. CASE e # <<j, a>>
      <4>1. e[1] \in Jobs /\ e[2] <= row[e[1]].attempt /\ RowExists(row[e[1]])
        BY <1>5, <2>1, <3>2, CurrentEvents DEF DInv, Fresh
      <4>2. QED
        BY <1>1, <1>4, <4>1 DEF RowExists
    <3>3. QED
      BY <3>1, <3>2
  <2>2. ASSUME NEW v \in Workers, Attempting(v)', worker'[v].attempt < MaxAttempts
        PROVE  outbox'[Current(worker[v].job)'].state = "none"
    <3>1. Attempting(v) /\ v # w /\ worker[v].attempt < MaxAttempts
      BY <1>8, <2>2
    <3>2. /\ worker[v].job \in Jobs \ {j} /\ Current(worker[v].job) \in EventIds
          /\ outbox[Current(worker[v].job)].state = "none"
      BY <1>1, <3>1, CurrentEvents
         DEF DInv, IInv, SingleIngester, Fresh, Busy, Attempting, AttemptPcs
    <3>3. Current(worker[v].job)' = Current(worker[v].job)
      BY <1>4, <1>8, <3>2 DEF Current
    <3>4. QED
      BY <1>5, <3>2, <3>3 DEF Current
  <2>3. QED
    BY <1>8, <2>1, <2>2 DEF Fresh
<1>10. Batched'
  <2> SUFFICES ASSUME NEW v \in Workers, NEW e \in pub[v].batch
               PROVE  /\ outbox'[e].wait = 0
                      /\ outbox'[e].state = "none" => row'[e[1]].status = "deleted"
    BY <1>3 DEF Batched
  <2>1. e \in EventIds \ {<<j, a>>} /\ e[1] \in Jobs
    <3>1. e \in EventIds
      BY <1>1 DEF Publishers
    <3>2. QED
      BY <1>7, <3>1, CurrentEvents DEF DInv
  <2>2. QED
    BY <1>1, <1>4, <1>5, <2>1 DEF DInv, Batched, RowExists
<1>11. Timely'
  <2>1. \A e \in EventIds : outbox'[e].state = "published" => outbox'[e].wait = 0
    BY <1>5 DEF DInv, Timely
  <2>2. ASSUME NEW i \in Jobs, row'[i].status = "queued"
        PROVE  /\ outbox'[Current(i)].state # "none"
               /\ row'[i].wait <= outbox'[Current(i)].wait
    <3>1. CASE i = j
      BY <1>1, <1>2, <1>4, <1>5, <3>1
    <3>2. CASE i # j
      <4>1. row[i].status = "queued" /\ Current(i) \in EventIds \ {<<j, a>>}
        BY <1>4, <2>2, <3>2, CurrentEvents DEF DInv, Current
      <4>2. QED
        BY <1>4, <1>5, <3>2, <4>1 DEF DInv, Timely
    <3>3. QED
      BY <3>1, <3>2
  <2>3. QED
    BY <1>6, <2>1, <2>2 DEF Timely
<1>12. Carriage'
  <2> SUFFICES ASSUME NEW i \in Jobs, row'[i].status = "queued", Sent(Current(i))'
               PROVE  Carried(i)'
    BY DEF Carriage
  <2>1. i # j
    <3>1. ASSUME i = j PROVE FALSE
      <4>1. PICK v \in Workers : pub[v].phase = "mark" /\ pub[v].event = <<j, a>>
        BY <1>2, <1>3, <1>5, <1>6, <3>1 DEF Sent
      <4>2. QED
        BY <1>7, <4>1 DEF DInv, IInv, Busy
    <3>2. QED
      BY <3>1
  <2>2. row[i].status = "queued" /\ Current(i) \in EventIds \ {<<j, a>>} /\ Current(i)' = Current(i)
    BY <1>4, <1>6, <2>1, CurrentEvents DEF DInv, Current
  <2>3. Carried(i)
    <3>1. Sent(Current(i))
      BY <1>3, <1>5, <2>2 DEF Sent
    <3>2. QED
      BY <2>2, <3>1 DEF DInv, Carriage
  <2>4. QED
    BY <1>3, <1>8, <2>3 DEF Carried
<1>13. QED
  BY <1>9, <1>10, <1>11, <1>12 DEF DInv

LEMMA TickDelivers ==
    ASSUME DInv, IInv', Tick
    PROVE  DInv'
<1>1. row \in [Jobs -> Rows] /\ outbox \in [EventIds -> Events] /\ pub \in [Workers -> Publishers]
  BY DEF DInv, IInv, TypeOK
<1>2. \A j \in Jobs : /\ row'[j].status = row[j].status /\ row'[j].attempt = row[j].attempt
                      /\ row[j].wait \in Int
                      /\ row'[j].wait = IF row[j].wait > -SkewBound THEN row[j].wait - 1
                                                                   ELSE row[j].wait
  BY <1>1 DEF Tick, RowTick, Rows
<1>3. \A e \in EventIds : /\ outbox'[e].state = outbox[e].state
                          /\ outbox[e].wait \in Nat
                          /\ outbox'[e].wait = Earlier(outbox[e].wait)
  BY <1>1 DEF Tick, EventTick, Events
<1>4. UNCHANGED <<queue, worker, pub>>
  BY DEF Tick, mq
<1>5. \A i \in Jobs : Current(i)' = Current(i)
  BY <1>2 DEF Current
<1>6. Fresh'
  <2>1. \A e \in EventIds : outbox'[e].state # "none" =>
           e[2] <= row'[e[1]].attempt /\ RowExists(row'[e[1]])
    BY <1>2, <1>3 DEF DInv, Fresh, RowExists, EventIds
  <2>2. ASSUME NEW w \in Workers, Attempting(w), worker[w].attempt < MaxAttempts
        PROVE  worker[w].job \in Jobs /\ outbox'[Current(worker[w].job)].state = "none"
    <3>1. worker[w].job \in Jobs /\ Current(worker[w].job) \in EventIds
      BY <2>2, CurrentEvents DEF DInv, IInv, Busy, Attempting, AttemptPcs
    <3>2. QED
      BY <1>3, <2>2, <3>1 DEF DInv, Fresh
  <2>3. QED
    BY <1>2, <1>4, <2>1, <2>2 DEF Fresh, Attempting, Current
<1>7. Batched'
  <2> SUFFICES ASSUME NEW w \in Workers, NEW e \in pub[w].batch
               PROVE  /\ outbox'[e].wait = 0
                      /\ outbox'[e].state = "none" => row'[e[1]].status = "deleted"
    BY <1>4 DEF Batched
  <2>1. e \in EventIds /\ e[1] \in Jobs
    BY <1>1 DEF Publishers, EventIds
  <2>2. QED
    BY <1>2, <1>3, <2>1 DEF DInv, Batched, Earlier
<1>8. Timely'
  <2>1. \A e \in EventIds : outbox'[e].state = "published" => outbox'[e].wait = 0
    BY <1>3 DEF DInv, Timely, Earlier
  <2>2. ASSUME NEW i \in Jobs, row'[i].status = "queued"
        PROVE  /\ outbox'[Current(i)].state # "none"
               /\ row'[i].wait <= outbox'[Current(i)].wait
    <3>1. row[i].status = "queued" /\ Current(i) \in EventIds
      BY <1>2, <2>2, CurrentEvents DEF DInv
    <3>2. row[i].wait <= outbox[Current(i)].wait /\ outbox[Current(i)].state # "none"
      BY <3>1 DEF DInv, Timely
    <3>3. QED
      BY <1>2, <1>3, <3>1, <3>2, RepositoryAssumption DEF Earlier
  <2>3. QED
    BY <1>5, <2>1, <2>2 DEF Timely
<1>9. Carriage'
  <2> SUFFICES ASSUME NEW i \in Jobs, row'[i].status = "queued", Sent(Current(i))'
               PROVE  Carried(i)'
    BY DEF Carriage
  <2>1. row[i].status = "queued" /\ Current(i) \in EventIds
    BY <1>2, CurrentEvents DEF DInv
  <2>2. Sent(Current(i))
    BY <1>3, <1>4, <1>5, <2>1 DEF Sent
  <2>3. QED
    BY <1>4, <2>1, <2>2 DEF DInv, Carriage, Carried
<1>10. QED
  BY <1>6, <1>7, <1>8, <1>9 DEF DInv

----------------------------------------------------------------------------

LEMMA NextDInv ==
    ASSUME DInv, [Next]_vars, \A w \in Workers : Skew[w] >= 0
    PROVE  DInv'
<1>1. IInv /\ IInv'
  BY NextIInv DEF DInv
<1>2. CASE Delivering
  BY <1>1, <1>2, CreateJobDelivers, DeleteRowDelivers, OutboxDelivers, ClaimDelivers,
     NothingToClaimDelivers, RequeueDelivers, TickDelivers DEF Delivering
<1>3. CASE ~Delivering
  <2>1. Kept
    BY <1>1, <1>3, KeptStep
  <2>2. Quiet
    BY <1>1, <1>3, QuietStep DEF Delivering
  <2>3. QED
    BY <1>1, <2>1, <2>2, FrameStep DEF Kept
<1>4. QED
  BY <1>2, <1>3

\* A queued job always has an event to publish, a message, or a handler about to claim it,
\* whatever is lost, duplicated or restarted, if no worker's clock is behind the database's.
THEOREM NoJobStranded ==
    ASSUME \A w \in Workers : Skew[w] >= 0
    PROVE  Spec => []NoStrandedJob
<1>1. Init => DInv
  BY InitDInv
<1>2. DInv /\ [Next]_vars => DInv'
  BY NextDInv
<1>3. DInv => NoStrandedJob
  <2> SUFFICES ASSUME DInv, NEW j \in Jobs, row[j].status = "queued"
               PROVE  \/ \E e \in EventIds : e[1] = j /\ outbox[e].state = "pending"
                      \/ queue[j] > 0
                      \/ \E w \in Workers : worker[w].pc = "claim" /\ worker[w].job = j
    BY DEF NoStrandedJob
  <2>1. Current(j) \in EventIds /\ Current(j)[1] = j
    BY CurrentEvents DEF DInv, Current
  <2>2. outbox[Current(j)].state \in {"pending", "published"}
    BY <2>1 DEF DInv, Timely, IInv, TypeOK, Events, EventStates
  <2>3. CASE outbox[Current(j)].state = "published"
    BY <2>3 DEF DInv, Carriage, Sent, Carried
  <2>4. QED
    BY <2>1, <2>2, <2>3
<1>4. QED
  BY <1>1, <1>2, <1>3, PTL DEF Spec

----------------------------------------------------------------------------
(* A job that is not settled has somebody who will go on with it.           *)

\* The handler's message led it to the job, and it has not done with it.
InHand(w, j) ==
    /\ worker[w].pc \in {"claim", "peek"} \union AttemptPcs \union CancelPcs
    /\ worker[w].job = j

\* The event of the job's current attempt is still to be published.
Unsent(j) ==
    /\ Current(j) \in EventIds
    /\ outbox[Current(j)].state = "pending"
    /\ ~Sent(Current(j))

NoneAbandoned ==
    \A j \in Jobs : row[j].status = "processing" =>
        \E w \in Workers : Attempting(w) /\ worker[w].job = j

CancelCarried ==
    \A j \in Jobs : row[j].status = "cancel_requested" =>
        Unsent(j) \/ queue[j] > 0 \/ \E w \in Workers : InHand(w, j)

\* No process dies, and PostgreSQL answers: otherwise a job that was claimed is abandoned.
Reliable == "crash" \notin Faults /\ "postgres" \notin Faults

\* A handler drops a job only for having nothing to do with it, or if the job is gone.
LEMMA HandlerKept ==
    ASSUME IInv, [Next]_vars, Reliable, NEW w \in Workers, NEW j \in Jobs, InHand(w, j),
           RowExists(row[j])
    PROVE  \/ worker'[w].pc = worker[w].pc /\ worker'[w].job = j
           \/ NothingToClaim(w)
           \/ JobStep(w)
<1> DEFINE Goal == \/ worker'[w].pc = worker[w].pc /\ worker'[w].job = j
                   \/ NothingToClaim(w)
                   \/ JobStep(w)
<1>1. worker \in [Workers -> Handlers] /\ worker[w].job = j
  BY DEF IInv, TypeOK, InHand
<1>2. ASSUME worker'[w] = worker[w] PROVE Goal
  BY <1>1, <1>2
<1>3. CASE \E v \in Workers : \/ PublisherStep(v) \/ AbandonBatch(v)
                             \/ \E e \in EventIds : PublishFails(v, e)
  BY <1>2, <1>3 DEF PublisherStep, ClaimEvents, MarkPublished, Release, Publish, PublishFails,
     AbandonBatch
<1>4. CASE \E i \in Jobs : Request(i) \/ CreateJobFails(i) \/ DeleteFails(i)
  BY <1>2, <1>4 DEF Request, Upload, StoreUpload, CreateJob, RequestCancel, DeleteFind, DeleteStep,
     DeleteChunks, DeleteObject, DeleteRow, CreateJobFails, DeleteFails
<1>5. CASE Tick \/ UNCHANGED vars
  BY <1>2, <1>5 DEF Tick, vars
<1>6. ASSUME NEW v \in Workers \ {w}, NEW h, worker' = [worker EXCEPT ![v] = h] PROVE Goal
  BY <1>1, <1>2, <1>6
<1>7. ASSUME NEW v \in Workers, NEW i \in Jobs, Deliver(v, i) PROVE Goal
  BY <1>6, <1>7 DEF Deliver, InHand, AttemptPcs, CancelPcs
<1>8. ASSUME NEW v \in Workers, RecordFails(v) PROVE Goal
  <2>1. v # w
    BY <1>1, <1>8 DEF RecordFails, Reliable
  <2>2. QED
    BY <1>6, <1>8, <2>1 DEF RecordFails, Restart
<1>9. ASSUME NEW v \in Workers, Settle(v) PROVE Goal
  BY <1>6, <1>9 DEF Settle, InHand, AttemptPcs, CancelPcs
<1>10. ASSUME NEW v \in Workers, ClaimFails(v) \/ CancelIfRequestedFails(v) \/ Crash(v) PROVE Goal
  BY <1>10 DEF ClaimFails, CancelIfRequestedFails, Crash, Reliable
<1>11. ASSUME NEW v \in Workers, ConnectionLost(v) PROVE Goal
  BY <1>1, <1>11 DEF ConnectionLost, Handlers
<1>12. ASSUME NEW v \in Workers, NothingToClaim(v) \/ JobStep(v) PROVE Goal
  <2>1. \A u \in Workers \ {v} : worker'[u] = worker[u]
    BY <1>1, <1>12 DEF NothingToClaim, JobStep, Claim, Peek, SetStage, Work, CheckCancel,
       BumpIndexVersion, IngestRaises, MarkReady, CleanupChunks, Retry, MarkFailed, RemoveObject,
       MarkCancelled, Goto
  <2>2. QED
    BY <1>2, <1>12, <2>1
<1>13. QED
  BY <1>3, <1>4, <1>5, <1>7, <1>8, <1>9, <1>10, <1>11, <1>12
     DEF Next, WorkerStep, Handle, Disruption, JobStep

\* Only a claim makes a job processing, and only a request makes it cancel_requested.
LEMMA ActiveFrom ==
    ASSUME IInv, [Next]_vars, NEW j \in Jobs
    PROVE  /\ row'[j].status = "processing" =>
                 \/ row[j].status = "processing"
                 \/ \E w \in Workers : Claim(w) /\ worker[w].job = j
           /\ row'[j].status = "cancel_requested" =>
                 \/ row[j].status = "cancel_requested" /\ row'[j].attempt = row[j].attempt
                 \/ RequestCancel(j)
<1> DEFINE Kind == /\ row'[j].status = "processing" => row[j].status = "processing"
                   /\ row'[j].status = "cancel_requested" =>
                        row[j].status = "cancel_requested" /\ row'[j].attempt = row[j].attempt
<1>1. ASSUME SameStatuses PROVE Kind
  BY <1>1 DEF SameStatuses
<1>2. ASSUME NEW i \in Jobs, NEW s, Becomes(i, s),
             s \notin {"processing", "cancel_requested"} \/ s = row[i].status
      PROVE  Kind
  BY <1>2 DEF Becomes
<1>3. ASSUME NEW i \in Jobs, ApiStep(i)
      PROVE  Kind \/ (RequestCancel(j) /\ row'[j].status = "cancel_requested")
  <2>1. row[i] \in Rows
    BY DEF IInv, TypeOK
  <2>2. DeletedRow(row[i]).status \in {"deleted", row[i].status}
    BY <2>1, StatusesRecorded
  <2>3. CASE CreateJob(i) \/ DeleteRow(i)
    BY <1>2, <2>2, <2>3, ApiEffects
  <2>4. CASE RequestCancel(i)
    BY <2>4, ApiEffects DEF Becomes
  <2>5. QED
    BY <1>1, <1>3, <2>3, <2>4, ApiEffects
<1>4. ASSUME NEW w \in Workers, JobStep(w)
      PROVE  Kind \/ (Claim(w) /\ worker[w].job = j /\ row'[j].status = "processing")
  <2>1. CASE \/ Peek(w) \/ SetStage(w) \/ Work(w) \/ CheckCancel(w) \/ BumpIndexVersion(w)
             \/ IngestRaises(w) \/ CleanupChunks(w) \/ RemoveObject(w)
    BY <1>1, <2>1, HandlerEffects
  <2>2. CASE Claim(w)
    <3>1. Claimed(worker[w].job)
      BY <2>2, RecordEffects
    <3>2. QED
      BY <2>2, <3>1 DEF Claimed
  <2>3. CASE MarkReady(w) \/ Retry(w) \/ MarkFailed(w) \/ MarkCancelled(w)
    <3>1. worker[w].job \in Jobs /\ row[worker[w].job] \in Rows
      BY <2>3, HasJob DEF MarkReady, Retry, MarkFailed, MarkCancelled
    <3>2. /\ FailedRow(row[worker[w].job]).status \in {"failed", row[worker[w].job].status}
          /\ CancelledRow(row[worker[w].job]).status \in {"cancelled", row[worker[w].job].status}
      BY <3>1, StatusesRecorded
    <3>3. CASE SameStatuses
      BY <1>1, <3>3
    <3>4. CASE ~SameStatuses
      <4>1. \E s : /\ Becomes(worker[w].job, s)
                   /\ s \notin {"processing", "cancel_requested"} \/ s = row[worker[w].job].status
        BY <2>3, <3>2, <3>4, RecordEffects
      <4>2. QED
        BY <1>2, <3>1, <4>1
    <3>5. QED
      BY <3>3, <3>4
  <2>4. QED
    BY <1>4, <2>1, <2>2, <2>3 DEF JobStep
<1>5. ASSUME Neutral PROVE Kind
  BY <1>1, <1>5 DEF Neutral
<1>6. \/ Neutral
      \/ \E i \in Jobs : ApiStep(i)
      \/ \E w \in Workers : JobStep(w)
  BY NeutralStep
<1>7. \/ Kind
      \/ RequestCancel(j) /\ row'[j].status = "cancel_requested"
      \/ \E w \in Workers : Claim(w) /\ worker[w].job = j /\ row'[j].status = "processing"
  <2> HIDE DEF Kind
  <2> QED
    BY <1>3, <1>4, <1>5, <1>6
<1>8. QED
  BY <1>7

\* A step of a handler that does not change the job's status goes on with the job: an
\* attempt, or, once it finds the job cancelled, the cancellation.
LEMMA HandlerGoesOn ==
    ASSUME IInv, NEW w \in Workers, NEW j \in Jobs, InHand(w, j), JobStep(w),
           row[j].status \in {"processing", "cancel_requested"},
           row'[j].status = row[j].status
    PROVE  /\ worker'[w].job = j
           /\ row[j].status = "processing" /\ Attempting(w) => worker'[w].pc \in AttemptPcs
           /\ row[j].status = "cancel_requested" => worker'[w].pc \in AttemptPcs \union CancelPcs
<1>1. row[j] \in Rows /\ worker[w].job = j /\ RowExists(row[j]) /\ Status(w) = row[j].status
  BY DEF IInv, TypeOK, InHand, RowExists, Status
<1>2. ~Claim(w)
  BY <1>1, RecordEffects
<1>3. ~Retry(w) /\ ~MarkFailed(w) /\ ~MarkCancelled(w)
  <2>1. FailedRow(row[j]).status = "failed" /\ CancelledRow(row[j]).status = "cancelled"
    BY <1>1, StatusesRecorded
  <2>2. QED
    BY <1>1, <2>1, RecordEffects DEF Becomes
<1>4. CASE MarkReady(w)
  <2>1. Status(w) = "cancel_requested"
    BY <1>1, <1>4, RecordEffects DEF Becomes
  <2>2. QED
    BY <1>1, <1>4, <2>1, RecordEffects DEF Moves, CancelPcs
<1>5. CASE Peek(w)
  BY <1>1, <1>5, HandlerEffects DEF Peek, Moves, Attempting, AttemptPcs, CancelPcs
<1>6. CASE SetStage(w) \/ Work(w) \/ BumpIndexVersion(w) \/ IngestRaises(w)
  BY <1>1, <1>6, HandlerEffects DEF Moves, AttemptPcs
<1>7. CASE CheckCancel(w)
  BY <1>1, <1>7, HandlerEffects DEF Moves, AttemptPcs, CancelPcs
<1>8. CASE CleanupChunks(w) \/ RemoveObject(w)
  BY <1>1, <1>8, HandlerEffects DEF CleanupChunks, AfterCleanup, RemoveObject, Moves, Attempting,
     AttemptPcs, CancelPcs
<1>9. QED
  BY <1>2, <1>3, <1>4, <1>5, <1>6, <1>7, <1>8 DEF JobStep

LEMMA NoneAbandonedStep ==
    ASSUME IInv, [Next]_vars, Reliable, NoneAbandoned
    PROVE  NoneAbandoned'
<1> SUFFICES ASSUME NEW j \in Jobs, row'[j].status = "processing"
             PROVE  \E w \in Workers : worker'[w].pc \in AttemptPcs /\ worker'[w].job = j
  BY DEF NoneAbandoned, Attempting
<1>1. CASE row[j].status = "processing"
  <2>1. PICK w \in Workers : Attempting(w) /\ worker[w].job = j
    BY <1>1 DEF NoneAbandoned
  <2>2. InHand(w, j) /\ RowExists(row[j]) /\ ~NothingToClaim(w)
    BY <1>1, <2>1 DEF InHand, Attempting, AttemptPcs, RowExists, NothingToClaim
  <2>3. CASE JobStep(w)
    BY <1>1, <2>1, <2>2, <2>3, HandlerGoesOn
  <2>4. CASE worker'[w].pc = worker[w].pc /\ worker'[w].job = j
    BY <2>1, <2>4 DEF Attempting
  <2>5. QED
    BY <2>2, <2>3, <2>4, HandlerKept
<1>2. ASSUME NEW w \in Workers, Claim(w), worker[w].job = j
      PROVE  worker'[w].pc \in AttemptPcs /\ worker'[w].job = j
  BY <1>2, RecordEffects DEF Moves, AttemptPcs
<1>3. QED
  BY <1>1, <1>2, ActiveFrom

\* Messages leave the queue only for a handler that has yet to claim their job.
LEMMA QueueStep ==
    ASSUME IInv, [Next]_vars, NEW j \in Jobs, queue[j] > 0
    PROVE  \/ queue'[j] > 0
           \/ \E w \in Workers : worker'[w].pc = "claim" /\ worker'[w].job = j
<1>1. queue \in [Jobs -> Nat] /\ worker \in [Workers -> Handlers]
  BY DEF IInv, TypeOK
<1>2. ASSUME UNCHANGED queue PROVE queue'[j] > 0
  BY <1>2
<1>3. ASSUME NEW i, queue' = [queue EXCEPT ![i] = @ + 1] PROVE queue'[j] > 0
  BY <1>1, <1>3
<1>4. ASSUME NEW w \in Workers, NEW i \in Jobs, Deliver(w, i)
      PROVE  queue'[j] > 0 \/ (worker'[w].pc = "claim" /\ worker'[w].job = j)
  <2>1. worker'[w] = Received(i) /\ queue' = [queue EXCEPT ![i] = @ - 1]
    BY <1>1, <1>4 DEF Deliver
  <2>2. CASE i = j
    BY <2>1, <2>2 DEF Received
  <2>3. CASE i # j
    BY <1>1, <2>1, <2>3
  <2>4. QED
    BY <2>2, <2>3
<1>5. ASSUME NEW w \in Workers, Redeliver(w) PROVE queue'[j] > 0
  BY <1>2, <1>3, <1>5 DEF Redeliver
<1>6. CASE \E w \in Workers : \/ ClaimFails(w) \/ RecordFails(w) \/ ConnectionLost(w) \/ Crash(w)
  BY <1>5, <1>6 DEF ClaimFails, RecordFails, Restart, ConnectionLost, Crash
<1>7. CASE \E w \in Workers, e \in EventIds : Publish(w, e) \/ PublishFails(w, e)
  BY <1>2, <1>3, <1>7 DEF Publish, PublishFails
<1>8. CASE \E i \in Jobs : Request(i) \/ CreateJobFails(i) \/ DeleteFails(i)
  BY <1>2, <1>8 DEF Request, Upload, StoreUpload, CreateJob, RequestCancel, DeleteFind, DeleteStep,
     DeleteChunks, DeleteObject, DeleteRow, CreateJobFails, DeleteFails, mq
<1>9. CASE \E w \in Workers : \/ ClaimEvents(w) \/ MarkPublished(w) \/ Release(w)
                             \/ AbandonBatch(w) \/ NothingToClaim(w) \/ CancelIfRequestedFails(w)
                             \/ JobStep(w) \/ Settle(w)
  BY <1>2, <1>9 DEF ClaimEvents, MarkPublished, Release, AbandonBatch, NothingToClaim,
     CancelIfRequestedFails, JobStep, Claim, Peek, SetStage, Work, CheckCancel,
     BumpIndexVersion, IngestRaises, MarkReady, CleanupChunks, Retry, MarkFailed, RemoveObject,
     MarkCancelled, Settle, mq
<1>10. CASE Tick \/ UNCHANGED vars
  BY <1>2, <1>10 DEF Tick, vars, mq
<1>11. QED
  BY <1>4, <1>6, <1>7, <1>8, <1>9, <1>10
     DEF Next, PublisherStep, WorkerStep, Handle, Disruption, JobStep

\* The event of a cancelled job is published before it can be forgotten.
LEMMA UnsentStep ==
    ASSUME DInv, [Next]_vars, NEW j \in Jobs, Unsent(j),
           row[j].status = "cancel_requested",
           row'[j].status = "cancel_requested", row'[j].attempt = row[j].attempt
    PROVE  Unsent(j)' \/ queue'[j] > 0
<1> DEFINE c == Current(j)
           Waits == /\ outbox'[c].state = "pending"
                    /\ \A w \in Workers : ~(pub'[w].phase = "mark" /\ pub'[w].event = c)
<1>1. /\ outbox \in [EventIds -> Events] /\ pub \in [Workers -> Publishers]
      /\ queue \in [Jobs -> Nat] /\ row \in [Jobs -> Rows]
      /\ c \in EventIds /\ c[1] = j /\ Current(j)' = c
  BY DEF DInv, IInv, TypeOK, Unsent, Current
<1>2. /\ outbox[c].state = "pending"
      /\ \A w \in Workers : ~(pub[w].phase = "mark" /\ pub[w].event = c)
  BY DEF Unsent, Sent
<1>3. Waits => Unsent(j)'
  BY <1>1 DEF Unsent, Sent
<1>4. ASSUME outbox'[c].state = "pending",
             \A w \in Workers : pub'[w].phase = "mark" => pub'[w] = pub[w]
      PROVE  Waits
  BY <1>2, <1>4
<1>5. CASE Kept
  BY <1>1, <1>2, <1>3, <1>4, <1>5 DEF Kept, EventsKept, PubsKept
<1>6. ASSUME NEW i \in Jobs, CreateJob(i) \/ DeleteRow(i) PROVE Waits
  <2>1. i # j
    <3>1. row[i] \in Rows
      BY <1>1
    <3>2. ~CreateJob(j)
      BY DEF CreateJob
    <3>3. ASSUME DeleteRow(j) PROVE FALSE
      <4>1. DeletedRow(row[j]).status = "deleted"
        BY <1>1, StatusesRecorded DEF RowExists
      <4>2. Becomes(j, DeletedRow(row[j]).status)
        BY <3>3, ApiEffects DEF DInv
      <4>3. QED
        BY <4>1, <4>2 DEF Becomes
    <3>4. QED
      BY <1>6, <3>2, <3>3
  <2>2. outbox'[c] = outbox[c] /\ pub' = pub
    BY <1>1, <1>6, <2>1 DEF CreateJob, DeleteRow
  <2>3. QED
    BY <1>2, <1>4, <2>2
<1>7. ASSUME NEW w \in Workers, ClaimEvents(w) PROVE Waits
  <2>1. outbox'[c].state = "pending"
    BY <1>1, <1>2, <1>7 DEF ClaimEvents, LockedEvent, Events
  <2>2. \A v \in Workers : pub'[v].phase = "mark" => pub'[v] = pub[v]
    BY <1>1, <1>7 DEF ClaimEvents, IdlePub, Publishers
  <2>3. QED
    BY <1>4, <2>1, <2>2
<1>8. ASSUME NEW w \in Workers, MarkPublished(w) PROVE Waits
  <2>1. pub[w].event # c
    BY <1>2, <1>8 DEF MarkPublished
  <2>2. outbox'[c].state = "pending"
    BY <1>1, <1>2, <1>8, <2>1 DEF MarkPublished
  <2>3. \A v \in Workers : pub'[v].phase = "mark" => pub'[v] = pub[v]
    BY <1>1, <1>8 DEF MarkPublished, NextEvent
  <2>4. QED
    BY <1>4, <2>2, <2>3
<1>9. ASSUME NEW w \in Workers, NEW e \in EventIds, Publish(w, e) PROVE Waits \/ queue'[j] > 0
  <2>1. CASE e = c
    BY <1>1, <1>9, <2>1 DEF Publish
  <2>2. CASE e # c
    <3>1. outbox' = outbox /\ pub' = [pub EXCEPT ![w].phase = "mark", ![w].event = e]
      BY <1>9 DEF Publish, db
    <3>2. \A v \in Workers : ~(pub'[v].phase = "mark" /\ pub'[v].event = c)
      BY <1>1, <1>2, <2>2, <3>1 DEF Publishers
    <3>3. QED
      BY <1>2, <3>1, <3>2
  <2>3. QED
    BY <2>1, <2>2
<1>10. ASSUME NEW w \in Workers, Claim(w) \/ NothingToClaim(w) PROVE Waits
  BY <1>2, <1>4, <1>10 DEF Claim, NothingToClaim, db
<1>11. ASSUME NEW w \in Workers, Requeue(w) PROVE Waits
  <2>1. /\ worker[w].pc = "retry" /\ Retry(w) /\ AttemptsLeft(worker[w].attempt)
        /\ outbox' = [outbox EXCEPT ![<<worker[w].job, worker[w].attempt>>] =
                         InsertedEvent(RetryDelay(worker[w].attempt))]
        /\ pub' = pub
    BY <1>11 DEF Requeue, Retry
  <2>2. Becomes(worker[w].job, "queued")
    BY <2>1, RecordEffects DEF DInv
  <2>3. worker[w].job # j
    BY <2>2 DEF Becomes
  <2>4. outbox'[c] = outbox[c]
    BY <1>1, <2>1, <2>3
  <2>5. QED
    BY <1>2, <1>4, <2>1, <2>4
<1>12. ASSUME Tick PROVE Waits
  BY <1>1, <1>2, <1>4, <1>12 DEF Tick, EventTick
<1>13. Kept \/ Delivering
  <2>1. IInv /\ IInv'
    BY NextIInv DEF DInv
  <2>2. QED
    BY <2>1, KeptStep
<1>14. QED
  <2>1. CASE Delivering
    <3> HIDE DEF Waits
    <3> QED
      BY <1>3, <1>6, <1>7, <1>8, <1>9, <1>10, <1>11, <1>12, <2>1 DEF Delivering
  <2>2. QED
    BY <1>5, <1>13, <2>1

LEMMA CancelCarriedStep ==
    ASSUME DInv, [Next]_vars, Reliable, NoneAbandoned, CancelCarried
    PROVE  CancelCarried'
<1> SUFFICES ASSUME NEW j \in Jobs, row'[j].status = "cancel_requested"
             PROVE  Unsent(j)' \/ queue'[j] > 0 \/ \E w \in Workers : InHand(w, j)'
  BY DEF CancelCarried
<1>1. IInv
  BY DEF DInv
\* The cancellation is accepted.
<1>2. CASE RequestCancel(j)
  <2>1. /\ UNCHANGED <<outbox, queue, worker, pub>>
        /\ row'[j].attempt = row[j].attempt
        /\ row[j].status \in {"queued", "processing"}
    BY <1>1, <1>2, ApiEffects DEF RequestCancel, CanCancel, Becomes, mq
  <2>2. Unsent(j)' = Unsent(j) /\ \A w \in Workers : InHand(w, j)' = InHand(w, j)
    BY <2>1 DEF Unsent, Sent, Current, InHand
  <2>3. CASE row[j].status = "processing"
    BY <2>2, <2>3 DEF NoneAbandoned, InHand, Attempting
  <2>4. CASE row[j].status = "queued"
    <3>1. CASE Sent(Current(j))
      <4>1. queue[j] > 0 \/ \E w \in Workers : InHand(w, j)
        BY <2>4, <3>1 DEF DInv, Carriage, Carried, InHand
      <4>2. QED
        BY <2>1, <2>2, <4>1
    <3>2. CASE ~Sent(Current(j))
      <4>1. Current(j) \in EventIds /\ outbox[Current(j)].state = "pending"
        BY <1>1, <2>4, <3>2, CurrentEvents
           DEF DInv, Timely, IInv, TypeOK, Events, EventStates, Sent
      <4>2. QED
        BY <2>2, <3>2, <4>1 DEF Unsent
    <3>3. QED
      BY <3>1, <3>2
  <2>5. QED
    BY <2>1, <2>3, <2>4
<1>3. CASE row[j].status = "cancel_requested" /\ row'[j].attempt = row[j].attempt
  <2>1. CASE Unsent(j)
    BY <1>3, <2>1, UnsentStep
  <2>2. CASE queue[j] > 0
    BY <1>1, <2>2, QueueStep DEF InHand
  <2>3. ASSUME NEW w \in Workers, InHand(w, j) PROVE InHand(w, j)'
    <3>1. RowExists(row[j]) /\ worker[w].job = j
      BY <1>3, <2>3 DEF RowExists, InHand
    <3>2. CASE JobStep(w)
      BY <1>1, <1>3, <2>3, <3>2, HandlerGoesOn DEF InHand
    <3>3. CASE NothingToClaim(w)
      BY <1>1, <3>1, <3>3, GotoMoves DEF NothingToClaim, Moves, InHand
    <3>4. CASE worker'[w].pc = worker[w].pc /\ worker'[w].job = j
      BY <2>3, <3>4 DEF InHand
    <3>5. QED
      BY <1>1, <2>3, <3>1, <3>2, <3>3, <3>4, HandlerKept
  <2>4. QED
    BY <1>3, <2>1, <2>2, <2>3 DEF CancelCarried
<1>4. QED
  BY <1>1, <1>2, <1>3, ActiveFrom

\* While a job is not settled there is an event to publish, a message, or a handler that has
\* it in hand, if processes live and PostgreSQL answers: what JobsSettle then needs is only
\* that somebody acts.
THEOREM ActiveJobsCarried ==
    ASSUME Reliable, \A w \in Workers : Skew[w] >= 0
    PROVE  Spec => [](\A j \in Jobs : row[j].status \in Active =>
                         \/ \E e \in EventIds : e[1] = j /\ outbox[e].state = "pending"
                         \/ queue[j] > 0
                         \/ \E w \in Workers : InHand(w, j))
<1> DEFINE Care == \A j \in Jobs : row[j].status \in Active =>
                         \/ \E e \in EventIds : e[1] = j /\ outbox[e].state = "pending"
                         \/ queue[j] > 0
                         \/ \E w \in Workers : InHand(w, j)
<1>1. Init => DInv /\ NoneAbandoned /\ CancelCarried
  BY InitDInv DEF Init, NoRow, NoneAbandoned, CancelCarried
<1>2. DInv /\ NoneAbandoned /\ CancelCarried /\ [Next]_vars
         => (DInv /\ NoneAbandoned /\ CancelCarried)'
  BY NextDInv, NoneAbandonedStep, CancelCarriedStep DEF DInv
<1>3. ASSUME DInv, NoneAbandoned, CancelCarried PROVE Care
  <2> SUFFICES ASSUME NEW j \in Jobs, row[j].status \in Active
               PROVE  \/ \E e \in EventIds : e[1] = j /\ outbox[e].state = "pending"
                      \/ queue[j] > 0
                      \/ \E w \in Workers : InHand(w, j)
    OBVIOUS
  <2>1. CASE row[j].status = "queued"
    <3>1. Current(j) \in EventIds /\ Current(j)[1] = j
      BY <1>3, <2>1, CurrentEvents DEF DInv, Current
    <3>2. outbox[Current(j)].state \in {"pending", "published"}
      BY <1>3, <2>1, <3>1 DEF DInv, Timely, IInv, TypeOK, Events, EventStates
    <3>3. CASE outbox[Current(j)].state = "published"
      BY <1>3, <2>1, <3>3 DEF DInv, Carriage, Sent, Carried, InHand
    <3>4. QED
      BY <3>1, <3>2, <3>3
  <2>2. CASE row[j].status = "processing"
    BY <1>3, <2>2 DEF NoneAbandoned, Attempting, InHand
  <2>3. CASE row[j].status = "cancel_requested"
    <3>1. Unsent(j) => \E e \in EventIds : e[1] = j /\ outbox[e].state = "pending"
      BY DEF Unsent, Current
    <3>2. QED
      BY <1>3, <2>3, <3>1 DEF CancelCarried
  <2>4. QED
    BY <2>1, <2>2, <2>3 DEF Active
<1>4. DInv /\ NoneAbandoned /\ CancelCarried => Care
  BY <1>3
<1>5. QED
  BY <1>1, <1>2, <1>4, PTL DEF Spec
=============================================================================
