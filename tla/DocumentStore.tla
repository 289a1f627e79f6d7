---------------------------- MODULE DocumentStore ----------------------------
(***************************************************************************)
(* The client's store of documents and ingestion jobs (stores/document.ts)  *)
(* with the page that uses it (KnowledgeView.vue), against a server whose   *)
(* jobs live as JobLifecycle says.  A request is sent, read by the server   *)
(* and answered in three steps: anything may happen in between, so answers  *)
(* are as old as their reading.  Documents are deleted once their jobs are  *)
(* settled: what a running attempt inserts after a deletion is the concern  *)
(* of module Ingestion.                                                     *)
(***************************************************************************)
EXTENDS Naturals

CONSTANTS Jobs,         \* uploaded documents, one job each
          MaxAttempts,  \* attempts of a job
          Deletable,    \* job statuses in which a user deletes a listed document: settled ones
          Loaders,      \* bound: calls of loadKnowledge that are under way at a time
          MaxFailures   \* bound: requests that fail

VARIABLES status, attempts,  \* server: the jobs' rows
          indexed            \* server: documents with chunks in Milvus

Server == INSTANCE JobLifecycle

Active   == {"queued", "processing", "cancel_requested"}
Statuses == Active \union {"ready", "failed", "cancelled", "absent", "deleted"}
NotShown == "not shown"

ASSUME StoreAssumption ==
    /\ MaxAttempts \in Nat \ {0}
    /\ Deletable \subseteq Statuses \ Active
    /\ MaxFailures \in Nat

VARIABLES documents,      \* the documents listed on the page
          ingestionJobs,  \* the status shown of each job
          listError,      \* is an error shown?
          loading,        \* is the refresh button disabled?
          pollingTimer,   \* is the interval timer set?
          mounted,        \* is the page open?
          poll,           \* refreshActiveJobs
          load,           \* the calls of loadKnowledge
          call,           \* the user's request about each document
          missed,         \* history: documents about which the list was wrong when last updated
          hidden,         \* history: jobs uploaded after the list that was loaded last was read
          failures        \* how many requests failed

server == <<status, attempts, indexed>>
client == <<documents, ingestionJobs, listError, loading, pollingTimer, mounted>>
history == <<missed, hidden>>
vars   == <<server, client, poll, load, call, history, failures>>

Shown == [Jobs -> Active \union {"failed", NotShown}]

\* GET /documents: what the server read.
Unread   == [read |-> FALSE, docs |-> {}]
Listings == [read : BOOLEAN, docs : SUBSET Jobs]

\* got[j]: what the GET of job j answered.  "pending" is an unanswered one.
NoneAsked == [j \in Jobs |-> "unasked"]
IdlePoll  == [pc |-> "idle", got |-> NoneAsked, list |-> Unread]
Polls     == [pc : {"idle", "jobs", "documents"},
              got : [Jobs -> Statuses \union {"unasked", "pending"}], list : Listings]

NothingShown == [j \in Jobs |-> NotShown]
NoJobs       == [j \in Jobs |-> "absent"]
IdleLoad     == [pc |-> "idle", list |-> Unread, jobsRead |-> FALSE, jobs |-> NoJobs]
Loads        == [pc : {"idle", "lists"}, list : Listings, jobsRead : BOOLEAN,
                 jobs : [Jobs -> Statuses]]

Calls == {"new", "upload", "uploaded",              \* POST /documents
          "none", "cancel", "cancelled", "waiting", \* POST .../cancel, at most once
          "delete", "deleted", "refused", "gone"}   \* DELETE /documents/...

Init ==
    /\ Server!Init
    /\ indexed = {}
    /\ documents = {}
    /\ ingestionJobs = NothingShown
    /\ listError = FALSE
    /\ loading = FALSE
    /\ pollingTimer = FALSE
    /\ mounted = FALSE
    /\ poll = IdlePoll
    /\ load = [l \in Loaders |-> IdleLoad]
    /\ call = [j \in Jobs |-> "new"]
    /\ missed = {}
    /\ hidden = {}
    /\ failures = 0

----------------------------------------------------------------------------
(* The server's side: a worker, as JobLifecycle allows, with its chunks.    *)

\* Chunks are inserted before a job is ready, and cleaned up when it ends otherwise.
Insert(j) ==
    /\ status[j] = "processing" /\ j \notin indexed
    /\ indexed' = indexed \union {j}
    /\ UNCHANGED <<status, attempts>>

WorkerStep(j) ==
    /\ \/ Insert(j)
       \/ Server!Claim(j) /\ UNCHANGED indexed
       \/ j \in indexed /\ Server!Finish(j) /\ UNCHANGED indexed
       \/ (Server!Fail(j) \/ Server!Retry(j) \/ Server!Cancel(j)) /\ indexed' = indexed \ {j}
    /\ UNCHANGED <<client, poll, load, call, history, failures>>

\* A request fails, or something the server needs for it.
Failing == failures < MaxFailures /\ failures' = failures + 1

\* GET /documents and GET /document-ingestions.
ReadDocuments(list) == [list EXCEPT !.read = TRUE, !.docs = indexed]

\* Mutant: a job that is being cancelled is left out.
VisibleUncancelled(rows) ==
    [j \in Jobs |-> IF rows[j] \in {"queued", "processing", "failed"} THEN rows[j] ELSE NotShown]

\* The jobs listed, when these are the rows.
Visible(rows) ==
    [j \in Jobs |-> IF rows[j] \in Active \union {"failed"} THEN rows[j] ELSE NotShown]

\* Where a list of documents differs from the server's.
Wrong(docs) == (docs \ indexed) \union (indexed \ docs)

----------------------------------------------------------------------------
(* Polling.                                                                 *)

ActiveJobs(shown) == {j \in Jobs : shown[j] \in Active}

\* Mutant: the timer is left alone.
EnsurePollingNever(shown) == pollingTimer

\* ensurePolling, with the jobs it finds.
EnsurePolling(shown) == ActiveJobs(shown) # {}

\* The interval fires: nothing is done while a poll is going on.
PollStart ==
    /\ pollingTimer /\ poll.pc = "idle"
    /\ LET asked == ActiveJobs(ingestionJobs)
       IN  IF asked = {}
           THEN pollingTimer' = FALSE /\ UNCHANGED poll
           ELSE /\ poll' = [IdlePoll EXCEPT !.pc = "jobs",
                                !.got = [j \in Jobs |-> IF j \in asked THEN "pending" ELSE "unasked"]]
                /\ UNCHANGED pollingTimer
    /\ UNCHANGED <<server, documents, ingestionJobs, listError, loading, mounted, load, call, history,
                   failures>>

PollRead(j) ==
    /\ poll.pc = "jobs" /\ poll.got[j] = "pending"
    /\ poll' = [poll EXCEPT !.got[j] = status[j]]
    /\ UNCHANGED <<server, client, load, call, history, failures>>

\* Mutant: jobs that are ready are not removed.
MergedKeepsReady(got) ==
    [j \in Jobs |-> IF got[j] = "unasked" THEN ingestionJobs[j]
                    ELSE IF got[j] = "cancelled" THEN NotShown ELSE got[j]]

\* The jobs shown after the answers: ready and cancelled ones are removed.
Merged(got) ==
    [j \in Jobs |-> IF got[j] = "unasked" THEN ingestionJobs[j]
                    ELSE IF got[j] \in {"ready", "cancelled"} THEN NotShown ELSE got[j]]

\* Mutant: the documents are not loaded again.
ListNeededNever(got) == FALSE

ListNeeded(got) == \E j \in Jobs : got[j] = "ready"

\* Mutant: the flag is not reset.
EndPollNever == UNCHANGED poll

EndPoll == poll' = IdlePoll

PollAnswered ==
    /\ poll.pc = "jobs"
    /\ \A j \in Jobs : poll.got[j] \notin {"pending", "deleted"}
    /\ ingestionJobs' = Merged(poll.got)
    /\ IF ListNeeded(poll.got)
       THEN /\ poll' = [IdlePoll EXCEPT !.pc = "documents"]
            /\ UNCHANGED <<listError, pollingTimer>>
       ELSE /\ EndPoll
            /\ listError' = FALSE
            /\ pollingTimer' = EnsurePolling(ingestionJobs')
    /\ UNCHANGED <<server, documents, loading, mounted, load, call, history, failures>>

PollListRead ==
    /\ poll.pc = "documents" /\ ~poll.list.read
    /\ poll' = [poll EXCEPT !.list = ReadDocuments(@)]
    /\ UNCHANGED <<server, client, load, call, history, failures>>

PollListAnswered ==
    /\ poll.pc = "documents" /\ poll.list.read
    /\ documents' = poll.list.docs
    /\ missed' = Wrong(poll.list.docs)
    /\ EndPoll
    /\ listError' = FALSE
    /\ pollingTimer' = EnsurePolling(ingestionJobs)
    /\ UNCHANGED <<server, ingestionJobs, loading, mounted, load, call, hidden, failures>>

\* A request failed, or a job is gone (404): Promise.all rejects whatever the others say.
PollRejected ==
    /\ poll.pc # "idle"
    /\ \/ (\E j \in Jobs : poll.got[j] = "deleted") /\ UNCHANGED failures
       \/ Failing
    /\ listError' = TRUE
    /\ EndPoll
    /\ pollingTimer' = EnsurePolling(ingestionJobs)
    /\ missed' = IF poll.pc = "documents" THEN Wrong(documents) ELSE missed
    /\ UNCHANGED <<server, documents, ingestionJobs, loading, mounted, load, call, hidden>>

----------------------------------------------------------------------------
(* loadKnowledge.                                                           *)

LoadKnowledge ==
    /\ \E l \in Loaders :
          load[l].pc = "idle" /\ load' = [load EXCEPT ![l] = [IdleLoad EXCEPT !.pc = "lists"]]
    /\ listError' = FALSE
    /\ loading' = TRUE

LoadRead(l) ==
    /\ load[l].pc = "lists"
    /\ \/ ~load[l].list.read /\ load' = [load EXCEPT ![l].list = ReadDocuments(@)]
       \/ ~load[l].jobsRead /\ load' = [load EXCEPT ![l].jobsRead = TRUE, ![l].jobs = status]
    /\ UNCHANGED <<server, client, poll, call, history, failures>>

EndLoad(l) ==
    /\ load' = [load EXCEPT ![l] = IdleLoad]
    /\ loading' = FALSE
    /\ pollingTimer' = EnsurePolling(ingestionJobs')

LoadAnswered(l) ==
    /\ load[l].list.read /\ load[l].jobsRead
    /\ documents' = load[l].list.docs
    /\ ingestionJobs' = Visible(load[l].jobs)
    /\ missed' = Wrong(load[l].list.docs)
    /\ hidden' = {j \in Jobs : load[l].jobs[j] = "absent" /\ status[j] # "absent"}
    /\ EndLoad(l)
    /\ UNCHANGED <<server, listError, mounted, poll, call, failures>>

LoadFails(l) ==
    /\ load[l].pc = "lists" /\ Failing
    /\ listError' = TRUE
    /\ missed' = Wrong(documents)
    /\ UNCHANGED ingestionJobs
    /\ EndLoad(l)
    /\ UNCHANGED <<server, documents, mounted, poll, call, hidden>>

----------------------------------------------------------------------------
(* The user and the page, one request about a document at a time.           *)

Mount ==
    /\ ~mounted /\ mounted' = TRUE
    /\ LoadKnowledge
    /\ UNCHANGED <<server, documents, ingestionJobs, pollingTimer, poll, call, history, failures>>

Unmount ==
    /\ mounted /\ mounted' = FALSE
    /\ pollingTimer' = FALSE
    /\ UNCHANGED <<server, documents, ingestionJobs, listError, loading, poll, load, call, history,
                   failures>>

Refresh ==
    /\ mounted /\ ~loading
    /\ LoadKnowledge
    /\ UNCHANGED <<server, documents, ingestionJobs, pollingTimer, mounted, poll, call, history,
                   failures>>

Calling(j, from, to) == call[j] = from /\ call' = [call EXCEPT ![j] = to]

Ask(j) ==
    /\ mounted
    /\ \/ Calling(j, "new", "upload")
       \/ ingestionJobs[j] \in {"queued", "processing"} /\ Calling(j, "none", "cancel")
       \/ /\ j \in documents /\ status[j] \in Deletable
          /\ \E from \in {"none", "waiting"} : Calling(j, from, "delete")
    /\ UNCHANGED <<server, client, poll, load, history, failures>>

ServeUpload(j) ==
    /\ Calling(j, "upload", "uploaded")
    /\ Server!Submit(j)
    /\ UNCHANGED <<indexed, client, poll, load, history, failures>>

\* A job that is being cancelled already is answered as it is.
ServeCancel(j) ==
    /\ \/ Calling(j, "cancel", "cancelled") /\ Server!RequestCancel(j)
       \/ /\ status[j] = "cancel_requested" /\ Calling(j, "cancel", "cancelled")
          /\ UNCHANGED <<status, attempts>>
       \/ /\ status[j] \notin Active /\ Calling(j, "cancel", "refused")
          /\ UNCHANGED <<status, attempts>>
    /\ UNCHANGED <<indexed, client, poll, load, history, failures>>

\* The chunks are deleted, then the file and the row; when one of these cannot be (a 503),
\* the job is left without its chunks.  Without chunks there is nothing to delete (a 404).
ServeDelete(j) ==
    /\ \/ /\ j \in indexed /\ Calling(j, "delete", "deleted")
          /\ indexed' = indexed \ {j} /\ Server!Delete(j) /\ UNCHANGED failures
       \/ j \notin indexed /\ Calling(j, "delete", "refused") /\ UNCHANGED <<server, failures>>
       \/ /\ j \in indexed /\ Calling(j, "delete", "refused") /\ Failing
          /\ indexed' = indexed \ {j} /\ UNCHANGED <<status, attempts>>
    /\ UNCHANGED <<client, poll, load, history>>

MergeJob(j, s) ==
    /\ ingestionJobs' = [ingestionJobs EXCEPT ![j] = s]
    /\ pollingTimer' = EnsurePolling(ingestionJobs')

UploadAnswered(j) ==
    /\ Calling(j, "uploaded", "none")
    /\ MergeJob(j, "queued")
    /\ hidden' = hidden \ {j}
    /\ UNCHANGED <<server, documents, listError, loading, mounted, poll, load, missed, failures>>

CancelAnswered(j) ==
    /\ Calling(j, "cancelled", "waiting")
    /\ MergeJob(j, "cancel_requested")
    /\ UNCHANGED <<server, documents, listError, loading, mounted, poll, load, history, failures>>

\* Mutant: remove does not touch the list.
WithoutNothing(docs, j) == docs

Without(docs, j) == docs \ {j}

DeleteAnswered(j) ==
    /\ Calling(j, "deleted", "gone")
    /\ documents' = Without(documents, j)
    /\ missed' = missed \ {j}
    /\ UNCHANGED <<server, ingestionJobs, listError, loading, pollingTimer, mounted, poll, load, hidden,
                   failures>>

\* An upload that failed, or whose answer was lost, is only shown as failed.
UploadFails(j) ==
    /\ Failing
    /\ \/ Calling(j, "upload", "new") /\ UNCHANGED hidden
       \/ Calling(j, "uploaded", "none") /\ hidden' = hidden \union {j}
    /\ UNCHANGED <<server, client, poll, load, missed>>

\* The page loads everything again after a refusal, or when a request fails.
CallFails(j) ==
    /\ \/ Calling(j, "refused", "none") /\ UNCHANGED failures
       \/ Failing /\ \E c \in {"cancel", "cancelled", "delete", "deleted"} : Calling(j, c, "none")
    /\ LoadKnowledge
    /\ UNCHANGED <<server, documents, ingestionJobs, pollingTimer, mounted, poll, history>>

----------------------------------------------------------------------------

PollStep == (\E j \in Jobs : PollRead(j)) \/ PollAnswered \/ PollListRead \/ PollListAnswered
            \/ PollRejected

LoadStep(l) == LoadRead(l) \/ LoadAnswered(l) \/ LoadFails(l)

CallStep(j) == \/ ServeUpload(j) \/ ServeCancel(j) \/ ServeDelete(j)
               \/ UploadAnswered(j) \/ CancelAnswered(j) \/ DeleteAnswered(j)
               \/ UploadFails(j) \/ CallFails(j)

Next ==
    \/ PollStart \/ PollStep
    \/ \E l \in Loaders : LoadStep(l)
    \/ Mount \/ Unmount \/ Refresh
    \/ \E j \in Jobs : WorkerStep(j) \/ Ask(j) \/ CallStep(j)

Spec == Init /\ [][Next]_vars

\* The interval fires, requests are answered, jobs are worked on.  The user need not act.
FairSpec ==
    /\ Spec
    /\ WF_vars(PollStart) /\ WF_vars(PollStep)
    /\ \A l \in Loaders : WF_vars(LoadStep(l))
    /\ \A j \in Jobs : WF_vars(WorkerStep(j)) /\ WF_vars(CallStep(j))

----------------------------------------------------------------------------
(* Properties.                                                              *)

\* The type invariant.
TypeOK ==
    /\ status \in [Jobs -> Statuses]
    /\ attempts \in [Jobs -> 0..MaxAttempts]
    /\ indexed \subseteq Jobs
    /\ documents \subseteq Jobs
    /\ ingestionJobs \in Shown
    /\ listError \in BOOLEAN /\ loading \in BOOLEAN /\ pollingTimer \in BOOLEAN /\ mounted \in BOOLEAN
    /\ poll \in Polls
    /\ load \in [Loaders -> Loads]
    /\ call \in [Jobs -> Calls]
    /\ missed \subseteq Jobs /\ hidden \subseteq Jobs
    /\ failures \in 0..MaxFailures

\* While the page is open, a job shown as active is polled: whichever of the overlapping
\* polls, loads and answers ended last, it left the timer set, or one is going on that will
\* look at the timer when it ends.
PollingScheduled ==
    mounted /\ ActiveJobs(ingestionJobs) # {} =>
        pollingTimer \/ poll.pc # "idle" \/ \E l \in Loaders : load[l].pc = "lists"

Answered(j) == call[j] \notin {"new", "upload", "uploaded"}

\* A job whose upload was answered is shown until it settles, unless a list without it was
\* read before the upload and shown after it.
ActiveShown ==
    \A j \in Jobs : Answered(j) /\ status[j] \in Active =>
        j \in hidden \/ ingestionJobs[j] # NotShown

\* A document whose deletion was answered does not come back, unless a list with it was
\* read before the deletion and shown after it.
DeletedHidden == \A j \in Jobs : call[j] = "gone" => j \in missed \/ j \notin documents

\* A document that is ready, with its chunks, is listed, or its job is still followed, or
\* the list is being read for it, or the list was wrong when it was last updated: it had
\* been read before the document was indexed, or could not be read.
ReadyListed ==
    \A j \in Jobs : Answered(j) /\ status[j] = "ready" /\ j \in indexed =>
        \/ j \in documents \union missed \union hidden
        \/ ingestionJobs[j] \in Active
        \/ poll.pc = "documents"

\* What was uploaded is not lost from the page, neither while it is ingested nor after that.
NothingLost == ActiveShown /\ ReadyListed

\* What is shown of a job that is under way is brought up to date while the page is open,
\* unless a job whose row is gone is asked for as well: all answers are thrown away then.
JobsFollowed ==
    \A j \in Jobs : ingestionJobs[j] \in Active ~>
        \/ ~mounted
        \/ ingestionJobs[j] \notin Active
        \/ \E k \in ActiveJobs(ingestionJobs) : status[k] = "deleted"
=============================================================================
