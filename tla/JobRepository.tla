---------------------------- MODULE JobRepository ----------------------------
(***************************************************************************)
(* The rows of ingestion_jobs and of outbox_events, and what each statement *)
(* of IngestionJobRepository and OutboxRepository (app/ingestion/jobs.py)   *)
(* makes of one row.  A statement is one transaction, so it is one operator *)
(* from rows to rows; the modules that EXTEND this one decide who executes  *)
(* it and when.                                                             *)
(*                                                                          *)
(* Timestamps are kept relative to the database's NOW(): "wait" is the time *)
(* left until available_at (negative once it has passed) and "lock" the time*)
(* left until locked_until.                                                 *)
(***************************************************************************)
EXTENDS Integers

CONSTANTS MaxAttempts,   \* settings.ingestion_max_attempts
          RetryBase,     \* settings.ingestion_retry_base_seconds, in ticks
          LockTicks,     \* the outbox lock's 30 seconds, in ticks
          SkewBound      \* how far a worker's clock may be off, in ticks

Attempts == 0..MaxAttempts

\* delay = base * 2 ** (attempt_count - 1)
RetryDelay(attempt) == RetryBase * 2^(attempt - 1)

ASSUME RepositoryAssumption ==
    /\ MaxAttempts \in Nat \ {0}
    /\ LockTicks \in Nat \ {0}
    /\ SkewBound \in Nat
    /\ \A a \in 1..MaxAttempts : RetryDelay(a) \in Nat

Active   == {"queued", "processing", "cancel_requested"}
Settled  == {"ready", "failed", "cancelled"}
\* "absent" and "deleted" stand for "no row": before the INSERT, after the DELETE.
Statuses == Active \union Settled \union {"absent", "deleted"}

Stages  == {"parsing", "splitting", "embedding", "indexing"}
NoStage == "null"

Rows == [status : Statuses, stage : Stages \union {NoStage},
         attempt : Nat, wait : Int]

NoRow == [status |-> "absent", stage |-> NoStage, attempt |-> 0, wait |-> 0]

RowExists(r) == r.status \notin {"absent", "deleted"}

----------------------------------------------------------------------------
(* Statements on a job's row.                                               *)

CreatedRow == [status |-> "queued", stage |-> NoStage, attempt |-> 0, wait |-> 0]

CanCancel(r) == r.status \in {"queued", "processing"}

CancelRequestedRow(r) == [r EXCEPT !.status = "cancel_requested"]

\* Mutant: a job left in processing may be claimed again.
CanClaimAbandoned(r, skew) == r.status \in {"queued", "processing"} /\ r.wait <= skew

\* available_at is compared with the worker's clock, which is ahead of the
\* database's by skew.
CanClaim(r, skew) == r.status = "queued" /\ r.wait <= skew

ClaimedRow(r) == [status |-> "processing", stage |-> "parsing",
                  attempt |-> r.attempt + 1, wait |-> r.wait]

StageRow(r, stage) ==
    IF r.status = "processing" THEN [r EXCEPT !.stage = stage] ELSE r

\* Mutant: mark_ready without its status guard.
CanMarkReadyUnguarded(r) == RowExists(r)

CanMarkReady(r) == r.status = "processing"

ReadyRow(r) == [r EXCEPT !.status = "ready", !.stage = NoStage]

\* mark_cancelled, mark_failed and retry do not look at the status they replace.
Finished(r, status) ==
    IF RowExists(r) THEN [r EXCEPT !.status = status, !.stage = NoStage] ELSE r

CancelledRow(r) == Finished(r, "cancelled")

FailedRow(r) == Finished(r, "failed")

RetriedRow(r, attempt) == [Finished(r, "queued") EXCEPT !.wait = RetryDelay(attempt)]

DeletedRow(r) == IF RowExists(r) THEN [r EXCEPT !.status = "deleted", !.stage = NoStage]
                                 ELSE r

----------------------------------------------------------------------------
(* Rows of the outbox.                                                      *)

EventStates == {"none", "pending", "published"}

Events == [state : EventStates, wait : Nat, lock : 0..LockTicks]

NoEventRow == [state |-> "none", wait |-> 0, lock |-> 0]

\* Mutant: the retry's event does not get the retry's delay.
InsertedEventNow(delay) == [state |-> "pending", wait |-> 0, lock |-> 0]

InsertedEvent(delay) == [state |-> "pending", wait |-> delay, lock |-> 0]

CanClaimEvent(e) == e.state = "pending" /\ e.wait = 0 /\ e.lock = 0

LockedEvent(e) == [e EXCEPT !.lock = LockTicks]

PublishedEvent(e) ==
    IF e.state = "none" THEN e ELSE [state |-> "published", wait |-> e.wait, lock |-> 0]

ReleasedEvent(e) == [e EXCEPT !.lock = 0]

----------------------------------------------------------------------------
(* One tick of the database's clock.                                        *)

RowTick(r) == [r EXCEPT !.wait = IF @ > -SkewBound THEN @ - 1 ELSE @]

Earlier(n) == IF n > 0 THEN n - 1 ELSE 0

EventTick(e) == [state |-> e.state, wait |-> Earlier(e.wait), lock |-> Earlier(e.lock)]
=============================================================================
