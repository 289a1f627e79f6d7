---------------------------- MODULE JobLifecycle ----------------------------
(***************************************************************************)
(* What a client of GET /document-ingestions may see of its jobs: an        *)
(* abstract specification of their statuses, with no outbox, no messages,   *)
(* no workers and no steps inside an attempt.  Module Ingestion implements  *)
(* it with one worker process, and with any number when nobody cancels.     *)
(***************************************************************************)
EXTENDS Naturals

CONSTANTS Jobs, MaxAttempts

VARIABLES status,    \* what the job's row says
          attempts   \* how often a worker claimed the job

vars == <<status, attempts>>

Init ==
    /\ status = [j \in Jobs |-> "absent"]
    /\ attempts = [j \in Jobs |-> 0]

Become(j, from, to) ==
    /\ status[j] \in from
    /\ status' = [status EXCEPT ![j] = to]

Submit(j) == Become(j, {"absent"}, "queued") /\ UNCHANGED attempts

Claim(j) ==
    /\ Become(j, {"queued"}, "processing")
    /\ attempts[j] < MaxAttempts
    /\ attempts' = [attempts EXCEPT ![j] = @ + 1]

RequestCancel(j) == Become(j, {"queued", "processing"}, "cancel_requested") /\ UNCHANGED attempts

Finish(j) == Become(j, {"processing"}, "ready") /\ UNCHANGED attempts

\* An attempt that failed does not look for a cancellation before it records that.
Fail(j) == Become(j, {"processing", "cancel_requested"}, "failed") /\ UNCHANGED attempts

Retry(j) ==
    /\ Become(j, {"processing", "cancel_requested"}, "queued")
    /\ attempts[j] < MaxAttempts
    /\ UNCHANGED attempts

Cancel(j) == Become(j, {"cancel_requested"}, "cancelled") /\ UNCHANGED attempts

Delete(j) ==
    /\ Become(j, {"queued", "processing", "cancel_requested", "ready", "failed", "cancelled"},
              "deleted")
    /\ UNCHANGED attempts

Next ==
    \E j \in Jobs :
        \/ Submit(j) \/ Claim(j) \/ RequestCancel(j) \/ Finish(j) \/ Fail(j)
        \/ Retry(j) \/ Cancel(j) \/ Delete(j)

Spec == Init /\ [][Next]_vars
=============================================================================
