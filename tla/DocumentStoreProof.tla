------------------------- MODULE DocumentStoreProof -------------------------
(***************************************************************************)
(* The invariants of DocumentStore hold for any number of documents, of      *)
(* attempts and failures, and of loads that overlap.                        *)
(***************************************************************************)
EXTENDS DocumentStore, TLAPS

\* What the client, the polls and the loads know of a job that was never uploaded: nothing.
NothingKnown ==
    \A j \in Jobs : status[j] = "absent" =>
        /\ call[j] \in {"new", "upload"}
        /\ ingestionJobs[j] = NotShown
        /\ poll.got[j] = "unasked"
        /\ \A l \in Loaders : load[l].jobs[j] = "absent"

\* A job is read by a poll once it was uploaded.
PolledOnce == \A j \in Jobs : poll.got[j] # "absent"

\* What an old answer says is settled stays so until it is deleted.
Settled(s, now) == s \in {"ready", "failed", "cancelled", "deleted"} => now \in {s, "deleted"}

AnswersSettled ==
    \A j \in Jobs :
        /\ Settled(ingestionJobs[j], status[j])
        /\ Settled(poll.got[j], status[j])
        /\ \A l \in Loaders : Settled(load[l].jobs[j], status[j])

\* Where nothing is deleted but what is settled, a deleted job has no chunks.
IndexedAlive ==
    \A j \in Jobs :
        /\ status[j] = "deleted" => j \notin indexed
        /\ call[j] \in {"deleted", "gone"} => status[j] = "deleted"

IInv == /\ TypeOK /\ NothingKnown /\ PolledOnce /\ AnswersSettled /\ IndexedAlive
        /\ PollingScheduled /\ ActiveShown /\ DeletedHidden /\ ReadyListed

----------------------------------------------------------------------------

\* The jobs a poll asks for.
LEMMA AskedTyped ==
    ASSUME NEW g \in [Jobs -> {"unasked", "pending"}]
    PROVE  [IdlePoll EXCEPT !.pc = "jobs", !.got = g] \in Polls
BY DEF IdlePoll, Polls, Listings, Unread, NoneAsked

\* What becomes of the loads when one begins, reads or ends.
LEMMA LoadBegun ==
    ASSUME TypeOK, LoadKnowledge
    PROVE  /\ load' \in [Loaders -> Loads] /\ listError' \in BOOLEAN /\ loading' \in BOOLEAN
           /\ \A l \in Loaders, i \in Jobs : load'[l].jobs[i] \in {load[l].jobs[i], "absent"}
           /\ \E l \in Loaders : load'[l].pc = "lists"
<1> DEFINE Begun == [IdleLoad EXCEPT !.pc = "lists"]
<1>1. PICK l \in Loaders : load' = [load EXCEPT ![l] = Begun]
  BY DEF LoadKnowledge
<1>2. Begun \in Loads /\ Begun.pc = "lists" /\ \A i \in Jobs : Begun.jobs[i] = "absent"
  BY DEF IdleLoad, Loads, Listings, Unread, NoJobs, Statuses
<1>3. listError' \in BOOLEAN /\ loading' \in BOOLEAN
  BY DEF LoadKnowledge
<1> HIDE DEF Begun
<1> QED
  BY <1>1, <1>2, <1>3 DEF TypeOK

LEMMA LoadReads ==
    ASSUME TypeOK, NEW l \in Loaders, LoadRead(l)
    PROVE  /\ load' \in [Loaders -> Loads]
           /\ \A k \in Loaders : load'[k].pc = load[k].pc
           /\ \A k \in Loaders, i \in Jobs : load'[k].jobs[i] \in {load[k].jobs[i], status[i]}
<1>1. load[l] \in Loads /\ status \in [Jobs -> Statuses] /\ indexed \subseteq Jobs
  BY DEF TypeOK
<1>2. CASE load' = [load EXCEPT ![l].list = ReadDocuments(@)]
  <2>1. load' = [load EXCEPT ![l] = [load[l] EXCEPT !.list = ReadDocuments(load[l].list)]]
    BY <1>2
  <2>2. [load[l] EXCEPT !.list = ReadDocuments(load[l].list)] \in Loads
    BY <1>1 DEF Loads, Listings, ReadDocuments
  <2> QED
    BY <1>1, <2>1, <2>2 DEF TypeOK, Loads
<1>3. CASE load' = [load EXCEPT ![l].jobsRead = TRUE, ![l].jobs = status]
  <2>1. load' = [load EXCEPT ![l] = [load[l] EXCEPT !.jobsRead = TRUE, !.jobs = status]]
    BY <1>3 DEF TypeOK
  <2>2. [load[l] EXCEPT !.jobsRead = TRUE, !.jobs = status] \in Loads
    BY <1>1 DEF Loads
  <2> QED
    BY <1>1, <2>1, <2>2 DEF TypeOK, Loads
<1> QED
  BY <1>2, <1>3 DEF LoadRead

LEMMA LoadEnds ==
    ASSUME TypeOK, NEW l \in Loaders, EndLoad(l)
    PROVE  /\ load' \in [Loaders -> Loads] /\ loading' \in BOOLEAN
           /\ \A k \in Loaders, i \in Jobs : load'[k].jobs[i] \in {load[k].jobs[i], "absent"}
<1>1. IdleLoad \in Loads /\ \A i \in Jobs : IdleLoad.jobs[i] = "absent"
  BY DEF IdleLoad, Loads, Listings, Unread, NoJobs, Statuses
<1> QED
  BY <1>1 DEF EndLoad, TypeOK

\* A job's row becomes what a row may be.
LEMMA BecomeTyped ==
    ASSUME status \in [Jobs -> Statuses], NEW j \in Jobs, NEW from, NEW to \in Statuses,
           Server!Become(j, from, to)
    PROVE  status' \in [Jobs -> Statuses]
BY DEF Server!Become

\* Each step keeps the types.
LEMMA TypeStep ==
    ASSUME StoreAssumption, TypeOK, NothingKnown, PolledOnce, [Next]_vars
    PROVE  TypeOK'
<1> USE DEF TypeOK, Shown, Polls, Loads, Listings, Unread, NothingShown, NoJobs, NoneAsked,
       Statuses, Active, Calls, server, client, history
<1>1. ASSUME PollStart PROVE TypeOK'
  <2> DEFINE g == [j \in Jobs |-> IF j \in ActiveJobs(ingestionJobs) THEN "pending"
                                   ELSE "unasked"]
  <2>3. g \in [Jobs -> {"unasked", "pending"}]
    OBVIOUS
  <2>4. UNCHANGED poll \/ poll' = [IdlePoll EXCEPT !.pc = "jobs", !.got = g]
    BY <1>1, Zenon DEF PollStart
  <2> HIDE DEF g
  <2>5. poll' \in Polls
    BY AskedTyped, <2>3, <2>4
  <2> QED
    BY <1>1, <2>5 DEF PollStart
<1>2. ASSUME NEW j \in Jobs, PollRead(j) PROVE TypeOK'
  BY <1>2 DEF PollRead
<1>3. ASSUME PollAnswered PROVE TypeOK'
  <2>1. ASSUME NEW j \in Jobs
        PROVE  Merged(poll.got)[j] \in Active \union {"failed", NotShown}
    BY <1>3 DEF PollAnswered, Merged, PolledOnce
  <2>2. Merged(poll.got) = [j \in Jobs |-> Merged(poll.got)[j]]
    BY DEF Merged
  <2>3. ingestionJobs' \in Shown
    BY <1>3, <2>1, <2>2 DEF PollAnswered
  <2>4. poll' \in Polls
    <3>1. IdlePoll \in Polls /\ [IdlePoll EXCEPT !.pc = "documents"] \in Polls
      BY DEF IdlePoll
    <3>2. poll' = IdlePoll \/ poll' = [IdlePoll EXCEPT !.pc = "documents"]
      BY <1>3, Zenon DEF PollAnswered, EndPoll
    <3> QED
      BY <3>1, <3>2
  <2>5. listError' \in BOOLEAN /\ pollingTimer' \in BOOLEAN
    BY <1>3 DEF PollAnswered, EnsurePolling
  <2> QED
    BY <1>3, <2>3, <2>4, <2>5 DEF PollAnswered
<1>4. ASSUME PollListRead PROVE TypeOK'
  BY <1>4 DEF PollListRead, ReadDocuments
<1>5. ASSUME PollListAnswered PROVE TypeOK'
  BY <1>5 DEF PollListAnswered, EndPoll, IdlePoll, EnsurePolling, Wrong
<1>6. ASSUME PollRejected PROVE TypeOK'
  BY <1>6 DEF PollRejected, EndPoll, IdlePoll, EnsurePolling, Wrong, Failing
<1>7. ASSUME NEW l \in Loaders, LoadRead(l) PROVE TypeOK'
  BY <1>7, LoadReads DEF LoadRead
<1>8. ASSUME NEW l \in Loaders, LoadAnswered(l) PROVE TypeOK'
  BY <1>8, LoadEnds DEF LoadAnswered, EndLoad, EnsurePolling, Wrong, Visible
<1>9. ASSUME NEW l \in Loaders, LoadFails(l) PROVE TypeOK'
  <2>1. load' \in [Loaders -> Loads] /\ loading' \in BOOLEAN
    BY <1>9, LoadEnds DEF LoadFails
  <2>2. failures' \in 0..MaxFailures
    BY <1>9, StoreAssumption DEF LoadFails, Failing
  <2>3. missed' \subseteq Jobs /\ pollingTimer' \in BOOLEAN /\ listError' \in BOOLEAN
    BY <1>9 DEF LoadFails, Wrong, EndLoad, EnsurePolling
  <2> QED
    BY <1>9, <2>1, <2>2, <2>3 DEF LoadFails
<1>10. ASSUME Mount PROVE TypeOK'
  BY <1>10, LoadBegun DEF Mount
<1>11. ASSUME Unmount PROVE TypeOK'
  BY <1>11 DEF Unmount
<1>12. ASSUME Refresh PROVE TypeOK'
  BY <1>12, LoadBegun DEF Refresh
<1>13. ASSUME NEW j \in Jobs, WorkerStep(j) PROVE TypeOK'
  <2>1. indexed' \subseteq Jobs
    BY <1>13 DEF WorkerStep, Insert
  <2>3. status' \in [Jobs -> Statuses]
    <3>1. CASE UNCHANGED status
      BY <3>1
    <3>2. CASE Server!Claim(j) \/ Server!Finish(j) \/ Server!Fail(j) \/ Server!Retry(j)
               \/ Server!Cancel(j)
      BY <3>2, BecomeTyped DEF Server!Claim, Server!Finish, Server!Fail, Server!Retry,
             Server!Cancel
    <3> QED
      BY <1>13, <3>1, <3>2 DEF WorkerStep, Insert
  <2>2. attempts' \in [Jobs -> 0..MaxAttempts]
    <3>1. CASE UNCHANGED attempts
      BY <3>1
    <3>2. CASE Server!Claim(j)
      BY <3>2, StoreAssumption DEF Server!Claim, StoreAssumption
    <3> QED
      BY <1>13, <3>1, <3>2 DEF WorkerStep, Insert, Server!Finish, Server!Fail, Server!Retry,
             Server!Cancel
  <2> QED
    BY <1>13, <2>1, <2>2, <2>3 DEF WorkerStep
<1>14. ASSUME NEW j \in Jobs, Ask(j) PROVE TypeOK'
  BY <1>14 DEF Ask, Calling
<1>15. ASSUME NEW j \in Jobs, ServeUpload(j) PROVE TypeOK'
  BY <1>15 DEF ServeUpload, Calling, Server!Claim, Server!Finish, Server!Fail, Server!Retry,
         Server!Cancel, Server!Submit, Server!RequestCancel, Server!Delete, Server!Become
<1>16. ASSUME NEW j \in Jobs, ServeCancel(j) PROVE TypeOK'
  <2>1. status' \in [Jobs -> Statuses] /\ UNCHANGED attempts
    BY <1>16 DEF ServeCancel, Server!RequestCancel, Server!Become
  <2>2. call' \in [Jobs -> Calls]
    BY <1>16 DEF ServeCancel, Calling
  <2> QED
    BY <1>16, <2>1, <2>2 DEF ServeCancel
<1>17. ASSUME NEW j \in Jobs, ServeDelete(j) PROVE TypeOK'
  <2>1. call' \in [Jobs -> Calls]
    BY <1>17 DEF ServeDelete, Calling
  <2>3. indexed' \subseteq Jobs /\ failures' \in 0..MaxFailures
    BY <1>17, StoreAssumption DEF ServeDelete, Failing
  <2>2. status' \in [Jobs -> Statuses] /\ attempts' \in [Jobs -> 0..MaxAttempts]
    BY <1>17 DEF ServeDelete, Server!Delete, Server!Become
  <2> QED
    BY <1>17, <2>1, <2>2, <2>3 DEF ServeDelete
<1>18. ASSUME NEW j \in Jobs, UploadAnswered(j) PROVE TypeOK'
  BY <1>18 DEF UploadAnswered, Calling, MergeJob, EnsurePolling
<1>19. ASSUME NEW j \in Jobs, CancelAnswered(j) PROVE TypeOK'
  BY <1>19 DEF CancelAnswered, Calling, MergeJob, EnsurePolling
<1>20. ASSUME NEW j \in Jobs, DeleteAnswered(j) PROVE TypeOK'
  BY <1>20 DEF DeleteAnswered, Calling, Without
<1>21. ASSUME NEW j \in Jobs, UploadFails(j) PROVE TypeOK'
  BY <1>21 DEF UploadFails, Calling, Failing
<1>22. ASSUME NEW j \in Jobs, CallFails(j) PROVE TypeOK'
  <2>1. load' \in [Loaders -> Loads] /\ listError' \in BOOLEAN /\ loading' \in BOOLEAN
    BY <1>22, LoadBegun DEF CallFails
  <2>2. call' \in [Jobs -> Calls] /\ failures' \in 0..MaxFailures
    BY <1>22 DEF CallFails, Calling, Failing, StoreAssumption
  <2> QED
    BY <1>22, <2>1, <2>2 DEF CallFails
<1>23. CASE UNCHANGED vars
  BY <1>23 DEF vars
<1> QED
  BY <1>1, <1>2, <1>3, <1>4, <1>5, <1>6, <1>7, <1>8, <1>9, <1>10, <1>11, <1>12, <1>13, <1>14,
         <1>15, <1>16, <1>17, <1>18, <1>19, <1>20, <1>21, <1>22, <1>23 DEF Next, PollStep,
         LoadStep, CallStep

\* Rows are not unmade, and what is settled stays so until it is deleted.
Later(s, t) ==
    /\ s # "absent" => t # "absent"
    /\ s \in {"ready", "failed", "cancelled", "deleted"} => t \in {s, "deleted"}

\* The server's steps.
ServerStep(j) == WorkerStep(j) \/ ServeUpload(j) \/ ServeCancel(j) \/ ServeDelete(j)

LEMMA BecomeLater ==
    ASSUME NEW j \in Jobs, TypeOK, NEW from, NEW to,
           Server!Become(j, from, to), \A s \in from : Later(s, to)
    PROVE  \A i \in Jobs : Later(status[i], status'[i])
BY DEF Server!Become, Later, TypeOK

LEMMA RowsMove ==
    ASSUME NEW j \in Jobs, TypeOK, ServerStep(j)
    PROVE  \A i \in Jobs : Later(status[i], status'[i])
<1>1. CASE UNCHANGED status
  BY <1>1 DEF Later, TypeOK
<1>2. CASE Server!Claim(j) \/ Server!Retry(j) \/ Server!RequestCancel(j) \/ Server!Submit(j)
  BY <1>2, BecomeLater DEF Server!Claim, Server!Retry, Server!RequestCancel, Server!Submit, Later
<1>3. CASE Server!Finish(j) \/ Server!Fail(j) \/ Server!Cancel(j) \/ Server!Delete(j)
  BY <1>3, BecomeLater DEF Server!Finish, Server!Fail, Server!Cancel, Server!Delete, Later
<1> QED
  BY <1>1, <1>2, <1>3 DEF ServerStep, WorkerStep, Insert, ServeUpload, ServeCancel, ServeDelete,
                           server

\* A poll asks for jobs that are shown as active.
LEMMA PollStarts ==
    ASSUME PollStart, TypeOK, NEW j \in Jobs
    PROVE  \/ poll'.got[j] = poll.got[j]
           \/ poll'.got[j] = "unasked"
           \/ poll'.got[j] = "pending" /\ ingestionJobs[j] \in Active
<1> DEFINE g == [k \in Jobs |-> IF k \in ActiveJobs(ingestionJobs) THEN "pending" ELSE "unasked"]
<1>1. UNCHANGED poll \/ poll' = [IdlePoll EXCEPT !.pc = "jobs", !.got = g]
  BY Zenon DEF PollStart
<1>2. [IdlePoll EXCEPT !.pc = "jobs", !.got = g].got = g
  BY DEF IdlePoll
<1>3. g[j] = IF j \in ActiveJobs(ingestionJobs) THEN "pending" ELSE "unasked"
  OBVIOUS
<1>4. j \in ActiveJobs(ingestionJobs) => ingestionJobs[j] \in Active
  BY DEF ActiveJobs
<1> QED
  BY <1>1, <1>2, <1>3, <1>4, Zenon

\* What the answers of a poll change.
LEMMA PollAnswers ==
    ASSUME PollAnswered, TypeOK, NEW j \in Jobs
    PROVE  /\ ingestionJobs'[j] = IF poll.got[j] = "unasked" THEN ingestionJobs[j]
                                  ELSE IF poll.got[j] \in {"ready", "cancelled"} THEN NotShown
                                  ELSE poll.got[j]
           /\ poll'.got[j] = "unasked"
<1>1. ingestionJobs'[j] = Merged(poll.got)[j]
  BY DEF PollAnswered
<1>2. Merged(poll.got)[j] = IF poll.got[j] = "unasked" THEN ingestionJobs[j]
                            ELSE IF poll.got[j] \in {"ready", "cancelled"} THEN NotShown
                            ELSE poll.got[j]
  BY DEF Merged
<1>3. IdlePoll.got[j] = "unasked" /\ [IdlePoll EXCEPT !.pc = "documents"].got[j] = "unasked"
  BY DEF IdlePoll, NoneAsked
<1>4. poll' = IdlePoll \/ poll' = [IdlePoll EXCEPT !.pc = "documents"]
  BY DEF PollAnswered, EndPoll
<1> QED
  BY <1>1, <1>2, <1>3, <1>4

LEMMA SettledLater ==
    ASSUME NEW s, NEW now \in Statuses, NEW t, Settled(s, now), Later(now, t),
           now = "absent" => s \notin {"ready", "cancelled", "deleted", "failed"}
    PROVE  Settled(s, t)
BY DEF Settled, Later, Statuses, Active

\* What the answer to an upload or a cancel changes.
LEMMA Merging ==
    ASSUME TypeOK, NEW j \in Jobs, UploadAnswered(j) \/ CancelAnswered(j)
    PROVE  /\ UNCHANGED <<status, indexed, documents, missed, poll, load>>
           /\ ingestionJobs'[j] \in {"queued", "cancel_requested"}
           /\ \A i \in Jobs \ {j} : /\ call'[i] = call[i]
                                    /\ ingestionJobs'[i] = ingestionJobs[i]
                                    /\ i \in hidden => i \in hidden'
<1>1. UNCHANGED <<status, indexed, documents, missed, poll, load>>
  BY DEF UploadAnswered, CancelAnswered, server, history
<1>2. \A i \in Jobs \ {j} : call'[i] = call[i]
  BY DEF UploadAnswered, CancelAnswered, Calling, TypeOK
<1>3. PICK s \in {"queued", "cancel_requested"} : ingestionJobs' = [ingestionJobs EXCEPT ![j] = s]
  BY DEF UploadAnswered, CancelAnswered, MergeJob
<1>4. ingestionJobs'[j] = s /\ \A i \in Jobs \ {j} : ingestionJobs'[i] = ingestionJobs[i]
  BY <1>3 DEF TypeOK, Shown
<1>5. \A i \in Jobs \ {j} : i \in hidden => i \in hidden'
  BY DEF UploadAnswered, CancelAnswered, history
<1> QED
  BY <1>1, <1>2, <1>3, <1>4, <1>5

\* Nothing was known of a job that is not there, and nothing is found out.
LEMMA KnownLater ==
    ASSUME TypeOK, NothingKnown, UNCHANGED <<call, ingestionJobs, poll, load>>,
           \A i \in Jobs : Later(status[i], status'[i])
    PROVE  NothingKnown'
<1>1. \A i \in Jobs : status'[i] = "absent" => status[i] = "absent"
  BY DEF Later
<1> QED
  BY <1>1 DEF NothingKnown

\* What is answered was uploaded.
LEMMA KnownMerging ==
    ASSUME TypeOK, NothingKnown, NEW j \in Jobs, UploadAnswered(j) \/ CancelAnswered(j)
    PROVE  NothingKnown'
<1>1. status[j] # "absent"
  BY DEF UploadAnswered, CancelAnswered, Calling, NothingKnown
<1> QED
  BY <1>1, Merging DEF NothingKnown

\* A request about a document that was not uploaded is its upload.
LEMMA CallsKnown ==
    ASSUME TypeOK, NothingKnown, NEW j \in Jobs, NEW from, NEW to, Calling(j, from, to),
           from \in {"new", "upload"} => to \in {"new", "upload"} \/ status'[j] # "absent",
           \A i \in Jobs : status'[i] = "absent" => status[i] = "absent"
    PROVE  \A i \in Jobs : status'[i] = "absent" => call'[i] \in {"new", "upload"}
<1>1. /\ call[j] = from /\ call'[j] = to
      /\ \A i \in Jobs : i # j => call'[i] = call[i]
  BY DEF TypeOK, Calling
<1>2. \A i \in Jobs : status[i] = "absent" => call[i] \in {"new", "upload"}
  BY DEF NothingKnown
<1> QED
  BY <1>1, <1>2

\* When the requests are all that changes.
LEMMA CallsOnly ==
    ASSUME TypeOK, NothingKnown, NEW j \in Jobs, NEW from, NEW to, Calling(j, from, to),
           from \in {"new", "upload"} => to \in {"new", "upload"} \/ status'[j] # "absent",
           \A i \in Jobs : status'[i] = "absent" => status[i] = "absent",
           UNCHANGED ingestionJobs, poll'.got = poll.got,
           \A l \in Loaders, i \in Jobs : load'[l].jobs[i] \in {load[l].jobs[i], "absent"}
    PROVE  NothingKnown'
<1>1. \A i \in Jobs : status'[i] = "absent" => call'[i] \in {"new", "upload"}
  BY CallsKnown
<1> QED
  BY <1>1 DEF NothingKnown

\* Nothing is known of a job before it is uploaded.
LEMMA KnownStep ==
    ASSUME TypeOK, NothingKnown, PolledOnce, [Next]_vars
    PROVE  NothingKnown'
<1>1. ASSUME PollStart PROVE NothingKnown'
  <2>1. UNCHANGED <<status, call, ingestionJobs, load>>
    BY <1>1 DEF PollStart, server
  <2>2. ASSUME NEW i \in Jobs, status[i] = "absent" PROVE poll'.got[i] = "unasked"
    <3>1. ingestionJobs[i] = NotShown /\ poll.got[i] = "unasked"
      BY <2>2 DEF NothingKnown
    <3> QED
      BY <1>1, <3>1, PollStarts DEF NotShown, Active
  <2> QED
    BY <2>1, <2>2 DEF NothingKnown
<1>2. ASSUME NEW j \in Jobs, PollRead(j) PROVE NothingKnown'
  BY <1>2 DEF PollRead,
         TypeOK, Shown, Polls, Loads, Listings, Unread, NoJobs, NoneAsked, Active, server,
         client, NothingKnown, PolledOnce, NotShown
<1>3. ASSUME PollAnswered PROVE NothingKnown'
  <2>1. UNCHANGED <<status, call, load>>
    BY <1>3 DEF PollAnswered, server
  <2>2. \A i \in Jobs : poll'.got[i] = "unasked"
    BY <1>3, PollAnswers
  <2>3. \A i \in Jobs : poll.got[i] = "unasked" => ingestionJobs'[i] = ingestionJobs[i]
    BY <1>3 DEF PollAnswered, Merged
  <2> QED
    BY <2>1, <2>2, <2>3 DEF NothingKnown
<1>4. ASSUME PollListRead PROVE NothingKnown'
  BY <1>4 DEF PollListRead, ReadDocuments,
         TypeOK, Shown, Polls, Loads, Listings, Unread, NoJobs, NoneAsked, Active, server,
         client, NothingKnown, PolledOnce, NotShown
<1>5. ASSUME PollListAnswered PROVE NothingKnown'
  BY <1>5 DEF PollListAnswered, EndPoll, IdlePoll, EnsurePolling, Wrong,
         TypeOK, Shown, Polls, Loads, Listings, Unread, NoJobs, NoneAsked, Active, server,
         client, NothingKnown, PolledOnce, NotShown
<1>6. ASSUME PollRejected PROVE NothingKnown'
  BY <1>6 DEF PollRejected, EndPoll, IdlePoll, EnsurePolling, Wrong, Failing,
         TypeOK, Shown, Polls, Loads, Listings, Unread, NoJobs, NoneAsked, Active, server,
         client, NothingKnown, PolledOnce, NotShown
<1>7. ASSUME NEW l \in Loaders, LoadRead(l) PROVE NothingKnown'
  <2>1. UNCHANGED <<status, call, ingestionJobs, poll>>
    BY <1>7 DEF LoadRead, server, client
  <2>2. \A k \in Loaders, i \in Jobs : load'[k].jobs[i] \in {load[k].jobs[i], status[i]}
    BY <1>7, LoadReads
  <2> QED
    BY <2>1, <2>2 DEF NothingKnown
<1>8. ASSUME NEW l \in Loaders, LoadAnswered(l) PROVE NothingKnown'
  <2>1. UNCHANGED <<status, call, poll>> /\ ingestionJobs' = Visible(load[l].jobs)
    BY <1>8 DEF LoadAnswered, server
  <2>2. \A i \in Jobs : load[l].jobs[i] = "absent" => ingestionJobs'[i] = NotShown
    BY <2>1 DEF Visible, Active
  <2>3. \A k \in Loaders, i \in Jobs : load'[k].jobs[i] \in {load[k].jobs[i], "absent"}
    BY <1>8, LoadEnds DEF LoadAnswered
  <2> QED
    BY <2>1, <2>2, <2>3 DEF NothingKnown
<1>9. ASSUME NEW l \in Loaders, LoadFails(l) PROVE NothingKnown'
  <2>1. UNCHANGED <<status, call, ingestionJobs, poll>>
    BY <1>9 DEF LoadFails, server
  <2>2. \A k \in Loaders, i \in Jobs : load'[k].jobs[i] \in {load[k].jobs[i], "absent"}
    BY <1>9, LoadEnds DEF LoadFails
  <2> QED
    BY <2>1, <2>2 DEF NothingKnown
<1>10. ASSUME Mount PROVE NothingKnown'
  <2>1. UNCHANGED <<status, call, ingestionJobs, poll>>
    BY <1>10 DEF Mount, server
  <2>2. \A k \in Loaders, i \in Jobs : load'[k].jobs[i] \in {load[k].jobs[i], "absent"}
    BY <1>10, LoadBegun DEF Mount
  <2> QED
    BY <2>1, <2>2 DEF NothingKnown
<1>11. ASSUME Unmount PROVE NothingKnown'
  BY <1>11 DEF Unmount,
         TypeOK, Shown, Polls, Loads, Listings, Unread, NoJobs, NoneAsked, Active, server,
         client, NothingKnown, PolledOnce, NotShown
<1>12. ASSUME Refresh PROVE NothingKnown'
  <2>1. UNCHANGED <<status, call, ingestionJobs, poll>>
    BY <1>12 DEF Refresh, server
  <2>2. \A k \in Loaders, i \in Jobs : load'[k].jobs[i] \in {load[k].jobs[i], "absent"}
    BY <1>12, LoadBegun DEF Refresh
  <2> QED
    BY <2>1, <2>2 DEF NothingKnown
<1>13. ASSUME NEW j \in Jobs, WorkerStep(j) PROVE NothingKnown'
  <2>1. UNCHANGED <<call, ingestionJobs, poll, load>>
    BY <1>13 DEF WorkerStep, client
  <2>2. \A i \in Jobs : Later(status[i], status'[i])
    BY <1>13, RowsMove DEF ServerStep
  <2> QED
    BY <2>1, <2>2, KnownLater
<1>14. ASSUME NEW j \in Jobs, Ask(j) PROVE NothingKnown'
  <2>1. PICK from \in Calls, to \in Calls :
            Calling(j, from, to) /\ (from \in {"new", "upload"} => to = "upload")
    BY <1>14 DEF Ask, Calls
  <2>2. UNCHANGED <<status, ingestionJobs, poll, load>>
    BY <1>14 DEF Ask, server, client
  <2> QED
    BY <2>1, <2>2, CallsOnly
<1>15. ASSUME NEW j \in Jobs, ServeUpload(j) PROVE NothingKnown'
  <2>1. Calling(j, "upload", "uploaded") /\ status'[j] = "queued"
    BY <1>15 DEF ServeUpload, Server!Submit, Server!Become, TypeOK
  <2>2. \A i \in Jobs : status'[i] = "absent" => status[i] = "absent"
    BY <1>15, RowsMove DEF ServerStep, Later
  <2>3. UNCHANGED <<ingestionJobs, poll, load>>
    BY <1>15 DEF ServeUpload, client
  <2> QED
    BY <2>1, <2>2, <2>3, CallsOnly
<1>16. ASSUME NEW j \in Jobs, ServeCancel(j) PROVE NothingKnown'
  <2>1. PICK from \in Calls, to \in Calls :
            Calling(j, from, to) /\ from \notin {"new", "upload"}
    BY <1>16 DEF ServeCancel, Calls
  <2>2. \A i \in Jobs : status'[i] = "absent" => status[i] = "absent"
    BY <1>16, RowsMove DEF ServerStep, Later
  <2>3. UNCHANGED <<ingestionJobs, poll, load>>
    BY <1>16 DEF ServeCancel, client
  <2> QED
    BY <2>1, <2>2, <2>3, CallsOnly
<1>17. ASSUME NEW j \in Jobs, ServeDelete(j) PROVE NothingKnown'
  <2>1. PICK from \in Calls, to \in Calls :
            Calling(j, from, to) /\ from \notin {"new", "upload"}
    BY <1>17 DEF ServeDelete, Calls
  <2>2. \A i \in Jobs : status'[i] = "absent" => status[i] = "absent"
    BY <1>17, RowsMove DEF ServerStep, Later
  <2>3. UNCHANGED <<ingestionJobs, poll, load>>
    BY <1>17 DEF ServeDelete, client
  <2> QED
    BY <2>1, <2>2, <2>3, CallsOnly
<1>18. ASSUME NEW j \in Jobs, UploadAnswered(j) PROVE NothingKnown'
  BY <1>18, KnownMerging
<1>19. ASSUME NEW j \in Jobs, CancelAnswered(j) PROVE NothingKnown'
  BY <1>19, KnownMerging
<1>20. ASSUME NEW j \in Jobs, DeleteAnswered(j) PROVE NothingKnown'
  BY <1>20 DEF DeleteAnswered, Calling, Without,
         TypeOK, Shown, Polls, Loads, Listings, Unread, NoJobs, NoneAsked, Active, server,
         client, NothingKnown, PolledOnce, NotShown
<1>21. ASSUME NEW j \in Jobs, UploadFails(j) PROVE NothingKnown'
  <2>1. PICK from \in Calls, to \in Calls :
            Calling(j, from, to) /\ (from \in {"new", "upload"} => to = "new")
    BY <1>21 DEF UploadFails, Calls
  <2>2. UNCHANGED <<status, ingestionJobs, poll, load>>
    BY <1>21 DEF UploadFails, server, client
  <2> QED
    BY <2>1, <2>2, CallsOnly
<1>22. ASSUME NEW j \in Jobs, CallFails(j) PROVE NothingKnown'
  <2>1. PICK from \in Calls, to \in Calls :
            Calling(j, from, to) /\ from \notin {"new", "upload"}
    BY <1>22 DEF CallFails, Calls
  <2>2. UNCHANGED <<status, ingestionJobs, poll>>
    BY <1>22 DEF CallFails, server
  <2>3. \A l \in Loaders, i \in Jobs : load'[l].jobs[i] \in {load[l].jobs[i], "absent"}
    BY <1>22, LoadBegun DEF CallFails
  <2> QED
    BY <2>1, <2>2, <2>3, CallsOnly
<1>23. CASE UNCHANGED vars
  BY <1>23 DEF vars,
         TypeOK, Shown, Polls, Loads, Listings, Unread, NoJobs, NoneAsked, Active, server,
         client, NothingKnown, PolledOnce, NotShown
<1> QED
  BY <1>1, <1>2, <1>3, <1>4, <1>5, <1>6, <1>7, <1>8, <1>9, <1>10, <1>11, <1>12, <1>13, <1>14,
         <1>15, <1>16, <1>17, <1>18, <1>19, <1>20, <1>21, <1>22, <1>23 DEF Next, PollStep,
         LoadStep, CallStep

\* A poll never reads a job that is not there yet.
LEMMA PolledStep ==
    ASSUME TypeOK, NothingKnown, PolledOnce, [Next]_vars
    PROVE  PolledOnce'
<1> USE DEF TypeOK, Shown, Polls, Loads, Listings, Unread, NothingShown, NoJobs, NoneAsked,
       Statuses, Active, server, client, history, NothingKnown, PolledOnce, NotShown
<1>1. ASSUME PollStart PROVE PolledOnce'
  BY <1>1, PollStarts DEF PollStart
<1>2. ASSUME NEW j \in Jobs, PollRead(j) PROVE PolledOnce'
  BY <1>2 DEF PollRead
<1>3. ASSUME PollAnswered PROVE PolledOnce'
  BY <1>3, PollAnswers DEF PollAnswered
<1>4. ASSUME PollListRead PROVE PolledOnce'
  BY <1>4 DEF PollListRead, ReadDocuments
<1>5. ASSUME PollListAnswered PROVE PolledOnce'
  BY <1>5 DEF PollListAnswered, EndPoll, IdlePoll, EnsurePolling, Wrong
<1>6. ASSUME PollRejected PROVE PolledOnce'
  BY <1>6 DEF PollRejected, EndPoll, IdlePoll, EnsurePolling, Wrong, Failing
<1>7. ASSUME NEW l \in Loaders, LoadRead(l) PROVE PolledOnce'
  BY <1>7, LoadReads DEF LoadRead
<1>8. ASSUME NEW l \in Loaders, LoadAnswered(l) PROVE PolledOnce'
  BY <1>8, LoadEnds DEF LoadAnswered, EndLoad, EnsurePolling, Wrong, Visible
<1>9. ASSUME NEW l \in Loaders, LoadFails(l) PROVE PolledOnce'
  BY <1>9, LoadEnds DEF LoadFails, EndLoad, EnsurePolling, Wrong, Failing
<1>10. ASSUME Mount PROVE PolledOnce'
  BY <1>10, LoadBegun DEF Mount
<1>11. ASSUME Unmount PROVE PolledOnce'
  BY <1>11 DEF Unmount
<1>12. ASSUME Refresh PROVE PolledOnce'
  BY <1>12, LoadBegun DEF Refresh
<1>13. ASSUME NEW j \in Jobs, WorkerStep(j) PROVE PolledOnce'
  BY <1>13 DEF WorkerStep, Insert, Server!Claim, Server!Finish, Server!Fail, Server!Retry,
         Server!Cancel, Server!Submit, Server!RequestCancel, Server!Delete, Server!Become
<1>14. ASSUME NEW j \in Jobs, Ask(j) PROVE PolledOnce'
  BY <1>14 DEF Ask, Calling
<1>15. ASSUME NEW j \in Jobs, ServeUpload(j) PROVE PolledOnce'
  BY <1>15 DEF ServeUpload, Calling, Server!Claim, Server!Finish, Server!Fail, Server!Retry,
         Server!Cancel, Server!Submit, Server!RequestCancel, Server!Delete, Server!Become
<1>16. ASSUME NEW j \in Jobs, ServeCancel(j) PROVE PolledOnce'
  BY <1>16 DEF ServeCancel, Calling, Server!Claim, Server!Finish, Server!Fail, Server!Retry,
         Server!Cancel, Server!Submit, Server!RequestCancel, Server!Delete, Server!Become
<1>17. ASSUME NEW j \in Jobs, ServeDelete(j) PROVE PolledOnce'
  BY <1>17 DEF ServeDelete, Calling, Server!Claim, Server!Finish, Server!Fail, Server!Retry,
         Server!Cancel, Server!Submit, Server!RequestCancel, Server!Delete, Server!Become
<1>18. ASSUME NEW j \in Jobs, UploadAnswered(j) PROVE PolledOnce'
  BY <1>18 DEF UploadAnswered, Calling, MergeJob, EnsurePolling
<1>19. ASSUME NEW j \in Jobs, CancelAnswered(j) PROVE PolledOnce'
  BY <1>19 DEF CancelAnswered, Calling, MergeJob, EnsurePolling
<1>20. ASSUME NEW j \in Jobs, DeleteAnswered(j) PROVE PolledOnce'
  BY <1>20 DEF DeleteAnswered, Calling, Without
<1>21. ASSUME NEW j \in Jobs, UploadFails(j) PROVE PolledOnce'
  BY <1>21 DEF UploadFails, Calling, Failing
<1>22. ASSUME NEW j \in Jobs, CallFails(j) PROVE PolledOnce'
  BY <1>22, LoadBegun DEF CallFails, Calling, Failing
<1>23. CASE UNCHANGED vars
  BY <1>23 DEF vars
<1> QED
  BY <1>1, <1>2, <1>3, <1>4, <1>5, <1>6, <1>7, <1>8, <1>9, <1>10, <1>11, <1>12, <1>13, <1>14,
         <1>15, <1>16, <1>17, <1>18, <1>19, <1>20, <1>21, <1>22, <1>23 DEF Next, PollStep,
         LoadStep, CallStep

\* What the answer to a delete changes.
LEMMA Removing ==
    ASSUME TypeOK, NEW j \in Jobs, DeleteAnswered(j)
    PROVE  /\ UNCHANGED <<status, indexed, ingestionJobs, hidden, poll>>
           /\ documents' = documents \ {j} /\ missed' = missed \ {j}
           /\ call[j] = "deleted"
           /\ \A i \in Jobs \ {j} : call'[i] = call[i]
<1>1. /\ UNCHANGED <<status, indexed, ingestionJobs, hidden, poll>>
      /\ documents' = documents \ {j} /\ missed' = missed \ {j}
  BY DEF DeleteAnswered, Without, server
<1>2. call[j] = "deleted" /\ \A i \in Jobs \ {j} : call'[i] = call[i]
  BY DEF DeleteAnswered, Calling, TypeOK
<1> QED
  BY <1>1, <1>2

LEMMA MergingSettled ==
    ASSUME TypeOK, AnswersSettled, NEW j \in Jobs, UploadAnswered(j) \/ CancelAnswered(j)
    PROVE  AnswersSettled'
<1>1. ASSUME NEW i \in Jobs PROVE Settled(ingestionJobs'[i], status[i])
  <2>1. CASE i = j
    BY <2>1, Merging DEF Settled
  <2>2. CASE i # j
    BY <2>2, Merging DEF AnswersSettled
  <2> QED
    BY <2>1, <2>2
<1> QED
  BY <1>1, Merging DEF AnswersSettled

\* What a load reads is as settled as the row.
LEMMA LoadReadsSettled ==
    ASSUME TypeOK, AnswersSettled, NEW l \in Loaders, LoadRead(l)
    PROVE  \A k \in Loaders, i \in Jobs : Settled(load'[k].jobs[i], status[i])
<1>1. ASSUME NEW k \in Loaders, NEW i \in Jobs PROVE Settled(load'[k].jobs[i], status[i])
  <2>1. load'[k].jobs[i] \in {load[k].jobs[i], status[i]}
    BY LoadReads
  <2>2. Settled(load[k].jobs[i], status[i])
    BY DEF AnswersSettled
  <2>3. Settled(status[i], status[i])
    BY DEF Settled
  <2> QED
    BY <2>1, <2>2, <2>3
<1> QED
  BY <1>1

\* What is settled stays so while rows move.
LEMMA SettledMoves ==
    ASSUME TypeOK, NothingKnown, AnswersSettled, UNCHANGED <<ingestionJobs, poll, load>>,
           \A i \in Jobs : Later(status[i], status'[i])
    PROVE  AnswersSettled'
<1>1. ASSUME NEW i \in Jobs, NEW a, Settled(a, status[i]), status[i] = "absent" =>
             a \in {"absent", "unasked", NotShown}
      PROVE  Settled(a, status'[i])
  BY <1>1, SettledLater DEF TypeOK, NotShown
<1>2. \A i \in Jobs : Settled(ingestionJobs[i], status'[i])
  BY <1>1 DEF AnswersSettled, NothingKnown
<1>3. \A i \in Jobs : Settled(poll.got[i], status'[i])
  BY <1>1 DEF AnswersSettled, NothingKnown
<1>4. \A l \in Loaders, i \in Jobs : Settled(load[l].jobs[i], status'[i])
  BY <1>1 DEF AnswersSettled, NothingKnown
<1> QED
  BY <1>2, <1>3, <1>4 DEF AnswersSettled

\* No old answer contradicts how a job settled.
LEMMA SettledStep ==
    ASSUME TypeOK, NothingKnown, AnswersSettled, [Next]_vars
    PROVE  AnswersSettled'
<1> USE DEF TypeOK, Shown, Polls, Loads, Listings, Unread, NothingShown, NoJobs, NoneAsked,
       Statuses, Active, server, client, history, AnswersSettled, Settled, NothingKnown, NotShown
<1>1. ASSUME PollStart PROVE AnswersSettled'
  BY <1>1, PollStarts DEF PollStart
<1>2. ASSUME NEW j \in Jobs, PollRead(j) PROVE AnswersSettled'
  <2>1. UNCHANGED <<status, ingestionJobs, load>>
    BY <1>2 DEF PollRead
  <2>2. ASSUME NEW i \in Jobs PROVE poll'.got[i] \in {poll.got[i], status[i]}
    BY <1>2 DEF PollRead
  <2>3. ASSUME NEW i \in Jobs PROVE Settled(poll'.got[i], status[i])
    BY <2>2 DEF AnswersSettled, Settled
  <2> QED
    BY <2>1, <2>3
<1>3. ASSUME PollAnswered PROVE AnswersSettled'
  BY <1>3, PollAnswers DEF PollAnswered
<1>4. ASSUME PollListRead PROVE AnswersSettled'
  BY <1>4 DEF PollListRead, ReadDocuments
<1>5. ASSUME PollListAnswered PROVE AnswersSettled'
  BY <1>5 DEF PollListAnswered, EndPoll, IdlePoll, EnsurePolling, Wrong
<1>6. ASSUME PollRejected PROVE AnswersSettled'
  BY <1>6 DEF PollRejected, EndPoll, IdlePoll, EnsurePolling, Wrong, Failing
<1>7. ASSUME NEW l \in Loaders, LoadRead(l) PROVE AnswersSettled'
  <2>1. UNCHANGED <<status, ingestionJobs, poll>>
    BY <1>7 DEF LoadRead
  <2>2. \A k \in Loaders, i \in Jobs : Settled(load'[k].jobs[i], status[i])
    BY <1>7, LoadReadsSettled
  <2> QED
    BY <2>1, <2>2
<1>8. ASSUME NEW l \in Loaders, LoadAnswered(l) PROVE AnswersSettled'
  BY <1>8, LoadEnds DEF LoadAnswered, EndLoad, EnsurePolling, Wrong, Visible
<1>9. ASSUME NEW l \in Loaders, LoadFails(l) PROVE AnswersSettled'
  BY <1>9, LoadEnds DEF LoadFails, EndLoad, EnsurePolling, Wrong, Failing
<1>10. ASSUME Mount PROVE AnswersSettled'
  BY <1>10, LoadBegun DEF Mount
<1>11. ASSUME Unmount PROVE AnswersSettled'
  BY <1>11 DEF Unmount
<1>12. ASSUME Refresh PROVE AnswersSettled'
  BY <1>12, LoadBegun DEF Refresh
<1>13. ASSUME NEW j \in Jobs, WorkerStep(j) PROVE AnswersSettled'
  <2>1. \A i \in Jobs : Later(status[i], status'[i])
    BY <1>13, RowsMove DEF ServerStep
  <2>2. UNCHANGED <<ingestionJobs, poll, load>>
    BY <1>13 DEF WorkerStep
  <2> QED
    BY <2>1, <2>2, SettledMoves
<1>14. ASSUME NEW j \in Jobs, Ask(j) PROVE AnswersSettled'
  BY <1>14 DEF Ask, Calling
<1>15. ASSUME NEW j \in Jobs, ServeUpload(j) PROVE AnswersSettled'
  <2>1. \A i \in Jobs : Later(status[i], status'[i])
    BY <1>15, RowsMove DEF ServerStep
  <2>2. UNCHANGED <<ingestionJobs, poll, load>>
    BY <1>15 DEF ServeUpload
  <2> QED
    BY <2>1, <2>2, SettledMoves
<1>16. ASSUME NEW j \in Jobs, ServeCancel(j) PROVE AnswersSettled'
  <2>1. \A i \in Jobs : Later(status[i], status'[i])
    BY <1>16, RowsMove DEF ServerStep
  <2>2. UNCHANGED <<ingestionJobs, poll, load>>
    BY <1>16 DEF ServeCancel
  <2> QED
    BY <2>1, <2>2, SettledMoves
<1>17. ASSUME NEW j \in Jobs, ServeDelete(j) PROVE AnswersSettled'
  <2>1. \A i \in Jobs : Later(status[i], status'[i])
    BY <1>17, RowsMove DEF ServerStep
  <2>2. UNCHANGED <<ingestionJobs, poll, load>>
    BY <1>17 DEF ServeDelete
  <2> QED
    BY <2>1, <2>2, SettledMoves
<1>18. ASSUME NEW j \in Jobs, UploadAnswered(j) PROVE AnswersSettled'
  BY <1>18, MergingSettled
<1>19. ASSUME NEW j \in Jobs, CancelAnswered(j) PROVE AnswersSettled'
  BY <1>19, MergingSettled
<1>20. ASSUME NEW j \in Jobs, DeleteAnswered(j) PROVE AnswersSettled'
  BY <1>20 DEF DeleteAnswered, Calling, Without
<1>21. ASSUME NEW j \in Jobs, UploadFails(j) PROVE AnswersSettled'
  BY <1>21 DEF UploadFails, Calling, Failing
<1>22. ASSUME NEW j \in Jobs, CallFails(j) PROVE AnswersSettled'
  BY <1>22, LoadBegun DEF CallFails, Calling, Failing
<1>23. CASE UNCHANGED vars
  BY <1>23 DEF vars
<1> QED
  BY <1>1, <1>2, <1>3, <1>4, <1>5, <1>6, <1>7, <1>8, <1>9, <1>10, <1>11, <1>12, <1>13, <1>14,
         <1>15, <1>16, <1>17, <1>18, <1>19, <1>20, <1>21, <1>22, <1>23 DEF Next, PollStep,
         LoadStep, CallStep

\* The index holds what the rows say is ready, and nothing of what was deleted.
LEMMA AliveStep ==
    ASSUME TypeOK, IndexedAlive, NothingKnown, [Next]_vars
    PROVE  IndexedAlive'
<1> USE DEF TypeOK, Shown, Polls, Loads, Listings, Unread, NothingShown, NoJobs, NoneAsked,
       Statuses, Active, server, client, history, IndexedAlive, NothingKnown
<1>1. ASSUME PollStart PROVE IndexedAlive'
  BY <1>1 DEF PollStart, IdlePoll, ActiveJobs
<1>2. ASSUME NEW j \in Jobs, PollRead(j) PROVE IndexedAlive'
  BY <1>2 DEF PollRead
<1>3. ASSUME PollAnswered PROVE IndexedAlive'
  BY <1>3 DEF PollAnswered, Merged, ListNeeded, EndPoll, IdlePoll, EnsurePolling, ActiveJobs
<1>4. ASSUME PollListRead PROVE IndexedAlive'
  BY <1>4 DEF PollListRead, ReadDocuments
<1>5. ASSUME PollListAnswered PROVE IndexedAlive'
  BY <1>5 DEF PollListAnswered, EndPoll, IdlePoll, EnsurePolling, Wrong
<1>6. ASSUME PollRejected PROVE IndexedAlive'
  BY <1>6 DEF PollRejected, EndPoll, IdlePoll, EnsurePolling, Wrong, Failing
<1>7. ASSUME NEW l \in Loaders, LoadRead(l) PROVE IndexedAlive'
  BY <1>7, LoadReads DEF LoadRead
<1>8. ASSUME NEW l \in Loaders, LoadAnswered(l) PROVE IndexedAlive'
  BY <1>8, LoadEnds DEF LoadAnswered, EndLoad, EnsurePolling, Wrong, Visible
<1>9. ASSUME NEW l \in Loaders, LoadFails(l) PROVE IndexedAlive'
  BY <1>9, LoadEnds DEF LoadFails, EndLoad, EnsurePolling, Wrong, Failing
<1>10. ASSUME Mount PROVE IndexedAlive'
  BY <1>10, LoadBegun DEF Mount
<1>11. ASSUME Unmount PROVE IndexedAlive'
  BY <1>11 DEF Unmount
<1>12. ASSUME Refresh PROVE IndexedAlive'
  BY <1>12, LoadBegun DEF Refresh
<1>13. ASSUME NEW j \in Jobs, WorkerStep(j) PROVE IndexedAlive'
  BY <1>13 DEF WorkerStep, Insert, Server!Claim, Server!Finish, Server!Fail, Server!Retry,
         Server!Cancel, Server!Submit, Server!RequestCancel, Server!Delete, Server!Become
<1>14. ASSUME NEW j \in Jobs, Ask(j) PROVE IndexedAlive'
  BY <1>14 DEF Ask, Calling
<1>15. ASSUME NEW j \in Jobs, ServeUpload(j) PROVE IndexedAlive'
  BY <1>15 DEF ServeUpload, Calling, Server!Claim, Server!Finish, Server!Fail, Server!Retry,
         Server!Cancel, Server!Submit, Server!RequestCancel, Server!Delete, Server!Become
<1>16. ASSUME NEW j \in Jobs, ServeCancel(j) PROVE IndexedAlive'
  BY <1>16 DEF ServeCancel, Calling, Server!Claim, Server!Finish, Server!Fail, Server!Retry,
         Server!Cancel, Server!Submit, Server!RequestCancel, Server!Delete, Server!Become
<1>17. ASSUME NEW j \in Jobs, ServeDelete(j) PROVE IndexedAlive'
  BY <1>17 DEF ServeDelete, Calling, Server!Claim, Server!Finish, Server!Fail, Server!Retry,
         Server!Cancel, Server!Submit, Server!RequestCancel, Server!Delete, Server!Become
<1>18. ASSUME NEW j \in Jobs, UploadAnswered(j) PROVE IndexedAlive'
  BY <1>18 DEF UploadAnswered, Calling, MergeJob, EnsurePolling
<1>19. ASSUME NEW j \in Jobs, CancelAnswered(j) PROVE IndexedAlive'
  BY <1>19 DEF CancelAnswered, Calling, MergeJob, EnsurePolling
<1>20. ASSUME NEW j \in Jobs, DeleteAnswered(j) PROVE IndexedAlive'
  BY <1>20 DEF DeleteAnswered, Calling, Without
<1>21. ASSUME NEW j \in Jobs, UploadFails(j) PROVE IndexedAlive'
  BY <1>21 DEF UploadFails, Calling, Failing
<1>22. ASSUME NEW j \in Jobs, CallFails(j) PROVE IndexedAlive'
  BY <1>22, LoadBegun DEF CallFails, Calling, Failing
<1>23. CASE UNCHANGED vars
  BY <1>23 DEF vars
<1> QED
  BY <1>1, <1>2, <1>3, <1>4, <1>5, <1>6, <1>7, <1>8, <1>9, <1>10, <1>11, <1>12, <1>13, <1>14,
         <1>15, <1>16, <1>17, <1>18, <1>19, <1>20, <1>21, <1>22, <1>23 DEF Next, PollStep,
         LoadStep, CallStep

\* Every way to change the jobs shown ends with a look at the timer.
LEMMA PollingStep ==
    ASSUME TypeOK, PollingScheduled, [Next]_vars
    PROVE  PollingScheduled'
<1> USE DEF TypeOK, Polls, Loads, server, client, history, PollingScheduled, ActiveJobs
<1>1. ASSUME PollStart PROVE PollingScheduled'
  BY <1>1 DEF PollStart, IdlePoll, ActiveJobs
<1>2. ASSUME NEW j \in Jobs, PollRead(j) PROVE PollingScheduled'
  BY <1>2 DEF PollRead
<1>3. ASSUME PollAnswered PROVE PollingScheduled'
  BY <1>3 DEF PollAnswered, Merged, ListNeeded, EndPoll, IdlePoll, EnsurePolling, ActiveJobs
<1>4. ASSUME PollListRead PROVE PollingScheduled'
  BY <1>4 DEF PollListRead, ReadDocuments
<1>5. ASSUME PollListAnswered PROVE PollingScheduled'
  BY <1>5 DEF PollListAnswered, EndPoll, IdlePoll, EnsurePolling, Wrong
<1>6. ASSUME PollRejected PROVE PollingScheduled'
  BY <1>6 DEF PollRejected, EndPoll, IdlePoll, EnsurePolling, Wrong, Failing
<1>7. ASSUME NEW l \in Loaders, LoadRead(l) PROVE PollingScheduled'
  BY <1>7, LoadReads DEF LoadRead
<1>8. ASSUME NEW l \in Loaders, LoadAnswered(l) PROVE PollingScheduled'
  BY <1>8, LoadEnds DEF LoadAnswered, EndLoad, EnsurePolling, Wrong, Visible
<1>9. ASSUME NEW l \in Loaders, LoadFails(l) PROVE PollingScheduled'
  BY <1>9, LoadEnds DEF LoadFails, EndLoad, EnsurePolling, Wrong, Failing
<1>10. ASSUME Mount PROVE PollingScheduled'
  BY <1>10, LoadBegun DEF Mount
<1>11. ASSUME Unmount PROVE PollingScheduled'
  BY <1>11 DEF Unmount
<1>12. ASSUME Refresh PROVE PollingScheduled'
  BY <1>12, LoadBegun DEF Refresh
<1>13. ASSUME NEW j \in Jobs, WorkerStep(j) PROVE PollingScheduled'
  BY <1>13 DEF WorkerStep, Insert, Server!Claim, Server!Finish, Server!Fail, Server!Retry,
         Server!Cancel, Server!Submit, Server!RequestCancel, Server!Delete, Server!Become
<1>14. ASSUME NEW j \in Jobs, Ask(j) PROVE PollingScheduled'
  BY <1>14 DEF Ask, Calling
<1>15. ASSUME NEW j \in Jobs, ServeUpload(j) PROVE PollingScheduled'
  BY <1>15 DEF ServeUpload, Calling, Server!Claim, Server!Finish, Server!Fail, Server!Retry,
         Server!Cancel, Server!Submit, Server!RequestCancel, Server!Delete, Server!Become
<1>16. ASSUME NEW j \in Jobs, ServeCancel(j) PROVE PollingScheduled'
  BY <1>16 DEF ServeCancel, Calling, Server!Claim, Server!Finish, Server!Fail, Server!Retry,
         Server!Cancel, Server!Submit, Server!RequestCancel, Server!Delete, Server!Become
<1>17. ASSUME NEW j \in Jobs, ServeDelete(j) PROVE PollingScheduled'
  BY <1>17 DEF ServeDelete, Calling, Server!Claim, Server!Finish, Server!Fail, Server!Retry,
         Server!Cancel, Server!Submit, Server!RequestCancel, Server!Delete, Server!Become
<1>18. ASSUME NEW j \in Jobs, UploadAnswered(j) PROVE PollingScheduled'
  BY <1>18 DEF UploadAnswered, Calling, MergeJob, EnsurePolling
<1>19. ASSUME NEW j \in Jobs, CancelAnswered(j) PROVE PollingScheduled'
  BY <1>19 DEF CancelAnswered, Calling, MergeJob, EnsurePolling
<1>20. ASSUME NEW j \in Jobs, DeleteAnswered(j) PROVE PollingScheduled'
  BY <1>20 DEF DeleteAnswered, Calling, Without
<1>21. ASSUME NEW j \in Jobs, UploadFails(j) PROVE PollingScheduled'
  BY <1>21 DEF UploadFails, Calling, Failing
<1>22. ASSUME NEW j \in Jobs, CallFails(j) PROVE PollingScheduled'
  BY <1>22, LoadBegun DEF CallFails, Calling, Failing
<1>23. CASE UNCHANGED vars
  BY <1>23 DEF vars
<1> QED
  BY <1>1, <1>2, <1>3, <1>4, <1>5, <1>6, <1>7, <1>8, <1>9, <1>10, <1>11, <1>12, <1>13, <1>14,
         <1>15, <1>16, <1>17, <1>18, <1>19, <1>20, <1>21, <1>22, <1>23 DEF Next, PollStep,
         LoadStep, CallStep

\* An upload is answered once.
LEMMA AnswersKept ==
    ASSUME TypeOK, NEW j \in Jobs, NEW from, NEW to, Calling(j, from, to),
           from \in {"new", "upload", "uploaded"} => to \in {"new", "upload", "uploaded"}
    PROVE  \A i \in Jobs : call'[i] \notin {"new", "upload", "uploaded"} => Answered(i)
BY DEF TypeOK, Calling, Answered

\* What is shown of the jobs is right for later rows as well.
LEMMA ActiveKept ==
    ASSUME TypeOK, NothingKnown, ActiveShown,
           \A i \in Jobs : call'[i] \notin {"new", "upload", "uploaded"} => Answered(i),
           \A i \in Jobs : Later(status[i], status'[i]),
           UNCHANGED <<ingestionJobs, hidden>>
    PROVE  ActiveShown'
<1>1. ASSUME NEW i \in Jobs, Answered(i), status'[i] \in Active
      PROVE  status[i] \in Active
  BY <1>1 DEF TypeOK, NothingKnown, Answered, Later, Statuses, Active
<1> QED
  BY <1>1 DEF ActiveShown, Answered

\* A job is not lost from the page while it is going on.
LEMMA ActiveStep ==
    ASSUME TypeOK, AnswersSettled, NothingKnown, PolledOnce, ActiveShown, [Next]_vars
    PROVE  ActiveShown'
<1>1. ASSUME PollStart PROVE ActiveShown'
  BY <1>1 DEF PollStart, IdlePoll, ActiveJobs,
         TypeOK, Polls, Loads, server, client, history, ActiveShown, Answered, AnswersSettled,
         Settled, NothingKnown, PolledOnce, NotShown, Active, Statuses, Shown
<1>2. ASSUME NEW j \in Jobs, PollRead(j) PROVE ActiveShown'
  BY <1>2 DEF PollRead,
         TypeOK, Polls, Loads, server, client, history, ActiveShown, Answered, AnswersSettled,
         Settled, NothingKnown, PolledOnce, NotShown, Active, Statuses, Shown
<1>3. ASSUME PollAnswered PROVE ActiveShown'
  BY <1>3 DEF PollAnswered, Merged, ListNeeded, EndPoll, IdlePoll, EnsurePolling, ActiveJobs,
         TypeOK, Polls, Loads, server, client, history, ActiveShown, Answered, AnswersSettled,
         Settled, NothingKnown, PolledOnce, NotShown, Active, Statuses, Shown
<1>4. ASSUME PollListRead PROVE ActiveShown'
  BY <1>4 DEF PollListRead, ReadDocuments,
         TypeOK, Polls, Loads, server, client, history, ActiveShown, Answered, AnswersSettled,
         Settled, NothingKnown, PolledOnce, NotShown, Active, Statuses, Shown
<1>5. ASSUME PollListAnswered PROVE ActiveShown'
  BY <1>5 DEF PollListAnswered, EndPoll, IdlePoll, EnsurePolling, Wrong,
         TypeOK, Polls, Loads, server, client, history, ActiveShown, Answered, AnswersSettled,
         Settled, NothingKnown, PolledOnce, NotShown, Active, Statuses, Shown
<1>6. ASSUME PollRejected PROVE ActiveShown'
  BY <1>6 DEF PollRejected, EndPoll, IdlePoll, EnsurePolling, Wrong, Failing,
         TypeOK, Polls, Loads, server, client, history, ActiveShown, Answered, AnswersSettled,
         Settled, NothingKnown, PolledOnce, NotShown, Active, Statuses, Shown
<1>7. ASSUME NEW l \in Loaders, LoadRead(l) PROVE ActiveShown'
  BY <1>7, LoadReads DEF LoadRead,
         TypeOK, Polls, Loads, server, client, history, ActiveShown, Answered, AnswersSettled,
         Settled, NothingKnown, PolledOnce, NotShown, Active, Statuses, Shown
<1>8. ASSUME NEW l \in Loaders, LoadAnswered(l) PROVE ActiveShown'
  <2>1. UNCHANGED <<status, call>>
    BY <1>8 DEF LoadAnswered, server
  <2>2. ASSUME NEW i \in Jobs, status[i] \in Active, i \notin hidden'
        PROVE  ingestionJobs'[i] # NotShown
    <3>1. Settled(load[l].jobs[i], status[i]) /\ load[l].jobs[i] \in Statuses
      BY DEF AnswersSettled, TypeOK, Loads
    <3>2. load[l].jobs[i] # "absent"
      BY <1>8, <2>2 DEF LoadAnswered, Active
    <3>3. load[l].jobs[i] \in Active
      BY <2>2, <3>1, <3>2 DEF Settled, Statuses, Active
    <3>4. ingestionJobs'[i] = load[l].jobs[i]
      BY <1>8, <3>3 DEF LoadAnswered, Visible
    <3> QED
      BY <3>3, <3>4 DEF Active, NotShown
  <2> QED
    BY <2>1, <2>2 DEF ActiveShown, Answered
<1>9. ASSUME NEW l \in Loaders, LoadFails(l) PROVE ActiveShown'
  BY <1>9, LoadEnds DEF LoadFails, EndLoad, EnsurePolling, Wrong, Failing,
         TypeOK, Polls, Loads, server, client, history, ActiveShown, Answered, AnswersSettled,
         Settled, NothingKnown, PolledOnce, NotShown, Active, Statuses, Shown
<1>10. ASSUME Mount PROVE ActiveShown'
  BY <1>10, LoadBegun DEF Mount,
         TypeOK, Polls, Loads, server, client, history, ActiveShown, Answered, AnswersSettled,
         Settled, NothingKnown, PolledOnce, NotShown, Active, Statuses, Shown
<1>11. ASSUME Unmount PROVE ActiveShown'
  BY <1>11 DEF Unmount,
         TypeOK, Polls, Loads, server, client, history, ActiveShown, Answered, AnswersSettled,
         Settled, NothingKnown, PolledOnce, NotShown, Active, Statuses, Shown
<1>12. ASSUME Refresh PROVE ActiveShown'
  BY <1>12, LoadBegun DEF Refresh,
         TypeOK, Polls, Loads, server, client, history, ActiveShown, Answered, AnswersSettled,
         Settled, NothingKnown, PolledOnce, NotShown, Active, Statuses, Shown
<1>13. ASSUME NEW j \in Jobs, WorkerStep(j) PROVE ActiveShown'
  <2>1. \A i \in Jobs : Later(status[i], status'[i])
    BY <1>13, RowsMove DEF ServerStep
  <2>2. UNCHANGED <<ingestionJobs, hidden>>
    BY <1>13 DEF WorkerStep, client, history
  <2>3. \A i \in Jobs : call'[i] \notin {"new", "upload", "uploaded"} => Answered(i)
    BY <1>13 DEF WorkerStep, Answered
  <2> QED
    BY <2>1, <2>2, <2>3, ActiveKept
<1>14. ASSUME NEW j \in Jobs, Ask(j) PROVE ActiveShown'
  <2>1. PICK from \in Calls, to \in Calls :
            /\ Calling(j, from, to)
            /\ from \in {"new", "upload", "uploaded"} => to \in {"new", "upload", "uploaded"}
    BY <1>14 DEF Ask, Calls
  <2>2. \A i \in Jobs : Later(status[i], status'[i])
    BY <1>14 DEF Ask, server, Later
  <2>3. UNCHANGED <<ingestionJobs, hidden>>
    BY <1>14 DEF Ask, client, history
  <2>4. \A i \in Jobs : call'[i] \notin {"new", "upload", "uploaded"} => Answered(i)
    BY <2>1, AnswersKept
  <2> QED
    BY <2>2, <2>3, <2>4, ActiveKept
<1>15. ASSUME NEW j \in Jobs, ServeUpload(j) PROVE ActiveShown'
  <2>1. /\ UNCHANGED <<documents, ingestionJobs, missed, hidden, poll>>
        /\ call' = [call EXCEPT ![j] = "uploaded"]
        /\ Server!Submit(j)
    BY <1>15 DEF ServeUpload, Calling, client, history
  <2>2. call'[j] = "uploaded" /\ \A i \in Jobs : i # j => call'[i] = call[i]
    BY <2>1 DEF TypeOK
  <2>3. \A i \in Jobs : i # j => status'[i] = status[i]
    BY <2>1 DEF Server!Submit, Server!Become, TypeOK
  <2> QED
    BY <2>1, <2>2, <2>3 DEF ActiveShown, Answered
<1>16. ASSUME NEW j \in Jobs, ServeCancel(j) PROVE ActiveShown'
  <2>1. PICK from \in Calls, to \in Calls :
            /\ Calling(j, from, to)
            /\ from \in {"new", "upload", "uploaded"} => to \in {"new", "upload", "uploaded"}
    BY <1>16 DEF ServeCancel, Calls
  <2>2. \A i \in Jobs : Later(status[i], status'[i])
    BY <1>16, RowsMove DEF ServerStep
  <2>3. UNCHANGED <<ingestionJobs, hidden>>
    BY <1>16 DEF ServeCancel, client, history
  <2>4. \A i \in Jobs : call'[i] \notin {"new", "upload", "uploaded"} => Answered(i)
    BY <2>1, AnswersKept
  <2> QED
    BY <2>2, <2>3, <2>4, ActiveKept
<1>17. ASSUME NEW j \in Jobs, ServeDelete(j) PROVE ActiveShown'
  <2>1. PICK from \in Calls, to \in Calls :
            /\ Calling(j, from, to)
            /\ from \in {"new", "upload", "uploaded"} => to \in {"new", "upload", "uploaded"}
    BY <1>17 DEF ServeDelete, Calls
  <2>2. \A i \in Jobs : Later(status[i], status'[i])
    BY <1>17, RowsMove DEF ServerStep
  <2>3. UNCHANGED <<ingestionJobs, hidden>>
    BY <1>17 DEF ServeDelete, client, history
  <2>4. \A i \in Jobs : call'[i] \notin {"new", "upload", "uploaded"} => Answered(i)
    BY <2>1, AnswersKept
  <2> QED
    BY <2>2, <2>3, <2>4, ActiveKept
<1>18. ASSUME NEW j \in Jobs, UploadAnswered(j) PROVE ActiveShown'
  BY <1>18, Merging DEF ActiveShown, Answered, NotShown
<1>19. ASSUME NEW j \in Jobs, CancelAnswered(j) PROVE ActiveShown'
  BY <1>19, Merging DEF ActiveShown, Answered, NotShown
<1>20. ASSUME NEW j \in Jobs, DeleteAnswered(j) PROVE ActiveShown'
  <2>1. call'[j] = "gone" /\ Answered(j)
    BY <1>20 DEF DeleteAnswered, Calling, TypeOK, Answered
  <2> QED
    BY <1>20, <2>1, Removing DEF ActiveShown, Answered
<1>21. ASSUME NEW j \in Jobs, UploadFails(j) PROVE ActiveShown'
  <2>1. UNCHANGED <<status, documents, ingestionJobs, poll, missed>>
    BY <1>21 DEF UploadFails, server, client
  <2>2. CASE Calling(j, "upload", "new") /\ UNCHANGED hidden
    <3>1. \A i \in Jobs : call'[i] \notin {"new", "upload", "uploaded"} => Answered(i)
      BY <2>2, AnswersKept
    <3>2. \A i \in Jobs : Later(status[i], status'[i])
      BY <2>1 DEF Later
    <3> QED
      BY <2>1, <2>2, <3>1, <3>2, ActiveKept
  <2>3. CASE Calling(j, "uploaded", "none") /\ hidden' = hidden \union {j}
    <3>1. \A i \in Jobs \ {j} : call'[i] = call[i]
      BY <2>3 DEF Calling, TypeOK
    <3> QED
      BY <2>1, <2>3, <3>1 DEF ActiveShown, Answered
  <2> QED
    BY <1>21, <2>2, <2>3 DEF UploadFails
<1>22. ASSUME NEW j \in Jobs, CallFails(j) PROVE ActiveShown'
  <2>1. PICK from \in Calls, to \in Calls :
            /\ Calling(j, from, to)
            /\ from \in {"new", "upload", "uploaded"} => to \in {"new", "upload", "uploaded"}
    BY <1>22 DEF CallFails, Calls
  <2>2. \A i \in Jobs : Later(status[i], status'[i])
    BY <1>22 DEF CallFails, server, Later
  <2>3. UNCHANGED <<ingestionJobs, hidden>>
    BY <1>22 DEF CallFails, history
  <2>4. \A i \in Jobs : call'[i] \notin {"new", "upload", "uploaded"} => Answered(i)
    BY <2>1, AnswersKept
  <2> QED
    BY <2>2, <2>3, <2>4, ActiveKept
<1>23. CASE UNCHANGED vars
  BY <1>23 DEF vars,
         TypeOK, Polls, Loads, server, client, history, ActiveShown, Answered, AnswersSettled,
         Settled, NothingKnown, PolledOnce, NotShown, Active, Statuses, Shown
<1> QED
  BY <1>1, <1>2, <1>3, <1>4, <1>5, <1>6, <1>7, <1>8, <1>9, <1>10, <1>11, <1>12, <1>13, <1>14,
         <1>15, <1>16, <1>17, <1>18, <1>19, <1>20, <1>21, <1>22, <1>23 DEF Next, PollStep,
         LoadStep, CallStep

\* A deleted document comes back only with a list that was wrong.
LEMMA DeletedStep ==
    ASSUME TypeOK, IndexedAlive, NothingKnown, DeletedHidden, [Next]_vars
    PROVE  DeletedHidden'
<1> USE DEF TypeOK, Polls, Loads, server, client, history, DeletedHidden, IndexedAlive,
       NothingKnown
<1>1. ASSUME PollStart PROVE DeletedHidden'
  BY <1>1 DEF PollStart, IdlePoll, ActiveJobs
<1>2. ASSUME NEW j \in Jobs, PollRead(j) PROVE DeletedHidden'
  BY <1>2 DEF PollRead
<1>3. ASSUME PollAnswered PROVE DeletedHidden'
  BY <1>3 DEF PollAnswered, Merged, ListNeeded, EndPoll, IdlePoll, EnsurePolling, ActiveJobs
<1>4. ASSUME PollListRead PROVE DeletedHidden'
  BY <1>4 DEF PollListRead, ReadDocuments
<1>5. ASSUME PollListAnswered PROVE DeletedHidden'
  BY <1>5 DEF PollListAnswered, EndPoll, IdlePoll, EnsurePolling, Wrong
<1>6. ASSUME PollRejected PROVE DeletedHidden'
  BY <1>6 DEF PollRejected, EndPoll, IdlePoll, EnsurePolling, Wrong, Failing
<1>7. ASSUME NEW l \in Loaders, LoadRead(l) PROVE DeletedHidden'
  BY <1>7, LoadReads DEF LoadRead
<1>8. ASSUME NEW l \in Loaders, LoadAnswered(l) PROVE DeletedHidden'
  BY <1>8, LoadEnds DEF LoadAnswered, EndLoad, EnsurePolling, Wrong, Visible
<1>9. ASSUME NEW l \in Loaders, LoadFails(l) PROVE DeletedHidden'
  BY <1>9, LoadEnds DEF LoadFails, EndLoad, EnsurePolling, Wrong, Failing
<1>10. ASSUME Mount PROVE DeletedHidden'
  BY <1>10, LoadBegun DEF Mount
<1>11. ASSUME Unmount PROVE DeletedHidden'
  BY <1>11 DEF Unmount
<1>12. ASSUME Refresh PROVE DeletedHidden'
  BY <1>12, LoadBegun DEF Refresh
<1>13. ASSUME NEW j \in Jobs, WorkerStep(j) PROVE DeletedHidden'
  BY <1>13 DEF WorkerStep, Insert, Server!Claim, Server!Finish, Server!Fail, Server!Retry,
         Server!Cancel, Server!Submit, Server!RequestCancel, Server!Delete, Server!Become
<1>14. ASSUME NEW j \in Jobs, Ask(j) PROVE DeletedHidden'
  BY <1>14 DEF Ask, Calling
<1>15. ASSUME NEW j \in Jobs, ServeUpload(j) PROVE DeletedHidden'
  BY <1>15 DEF ServeUpload, Calling, Server!Claim, Server!Finish, Server!Fail, Server!Retry,
         Server!Cancel, Server!Submit, Server!RequestCancel, Server!Delete, Server!Become
<1>16. ASSUME NEW j \in Jobs, ServeCancel(j) PROVE DeletedHidden'
  BY <1>16 DEF ServeCancel, Calling, Server!Claim, Server!Finish, Server!Fail, Server!Retry,
         Server!Cancel, Server!Submit, Server!RequestCancel, Server!Delete, Server!Become
<1>17. ASSUME NEW j \in Jobs, ServeDelete(j) PROVE DeletedHidden'
  BY <1>17 DEF ServeDelete, Calling, Server!Claim, Server!Finish, Server!Fail, Server!Retry,
         Server!Cancel, Server!Submit, Server!RequestCancel, Server!Delete, Server!Become
<1>18. ASSUME NEW j \in Jobs, UploadAnswered(j) PROVE DeletedHidden'
  BY <1>18 DEF UploadAnswered, Calling, MergeJob, EnsurePolling
<1>19. ASSUME NEW j \in Jobs, CancelAnswered(j) PROVE DeletedHidden'
  BY <1>19 DEF CancelAnswered, Calling, MergeJob, EnsurePolling
<1>20. ASSUME NEW j \in Jobs, DeleteAnswered(j) PROVE DeletedHidden'
  BY <1>20 DEF DeleteAnswered, Calling, Without
<1>21. ASSUME NEW j \in Jobs, UploadFails(j) PROVE DeletedHidden'
  BY <1>21 DEF UploadFails, Calling, Failing
<1>22. ASSUME NEW j \in Jobs, CallFails(j) PROVE DeletedHidden'
  BY <1>22, LoadBegun DEF CallFails, Calling, Failing
<1>23. CASE UNCHANGED vars
  BY <1>23 DEF vars
<1> QED
  BY <1>1, <1>2, <1>3, <1>4, <1>5, <1>6, <1>7, <1>8, <1>9, <1>10, <1>11, <1>12, <1>13, <1>14,
         <1>15, <1>16, <1>17, <1>18, <1>19, <1>20, <1>21, <1>22, <1>23 DEF Next, PollStep,
         LoadStep, CallStep

LEMMA ListedKept ==
    ASSUME TypeOK, NothingKnown, AnswersSettled, ActiveShown, ReadyListed,
           \A i \in Jobs : call'[i] \notin {"new", "upload", "uploaded"} => Answered(i),
           \A i \in Jobs : Later(status[i], status'[i]),
           \A i \in indexed' : status[i] = "ready" => i \in indexed,
           UNCHANGED <<documents, ingestionJobs, missed, hidden>>, poll'.pc = poll.pc
    PROVE  ReadyListed'
<1>1. ASSUME NEW i \in Jobs, Answered(i), status'[i] = "ready"
      PROVE  status[i] = "ready" \/ status[i] \in Active
  BY <1>1 DEF TypeOK, NothingKnown, Answered, Later, Statuses, Active
<1>2. ASSUME NEW i \in Jobs, Answered(i), status[i] \in Active
      PROVE  i \in hidden \/ ingestionJobs[i] \in Active
  BY <1>2 DEF TypeOK, Shown, ActiveShown, AnswersSettled, Settled, Active
<1> QED
  BY <1>1, <1>2 DEF ReadyListed, Answered

\* A document that becomes ready moves from the jobs to the documents.
LEMMA ListedStep ==
    ASSUME TypeOK, AnswersSettled, IndexedAlive, NothingKnown, PolledOnce,
           ActiveShown, ReadyListed, [Next]_vars
    PROVE  ReadyListed'
<1>1. ASSUME PollStart PROVE ReadyListed'
  BY <1>1 DEF PollStart, IdlePoll, ActiveJobs,
         TypeOK, Polls, Loads, server, client, history, ReadyListed, ActiveShown, Answered,
         AnswersSettled, Settled, NothingKnown, PolledOnce, NotShown, Active, Statuses, Shown,
         IndexedAlive
<1>2. ASSUME NEW j \in Jobs, PollRead(j) PROVE ReadyListed'
  BY <1>2 DEF PollRead,
         TypeOK, Polls, Loads, server, client, history, ReadyListed, ActiveShown, Answered,
         AnswersSettled, Settled, NothingKnown, PolledOnce, NotShown, Active, Statuses, Shown,
         IndexedAlive
<1>3. ASSUME PollAnswered PROVE ReadyListed'
  <2>1. ASSUME NEW i \in Jobs, Answered(i), status[i] = "ready",
               ingestionJobs[i] \in Active \/ i \in documents \union missed \union hidden
        PROVE  \/ i \in documents \union missed \union hidden
               \/ ingestionJobs'[i] \in Active \/ poll'.pc = "documents"
    <3>1. CASE poll.got[i] = "ready"
      BY <1>3, <2>1, <3>1 DEF PollAnswered, ListNeeded, IdlePoll, TypeOK, Polls
    <3>2. CASE poll.got[i] # "ready"
      <4>1. poll.got[i] \in Active \union {"unasked"}
        BY <1>3, <2>1, <3>2 DEF PollAnswered, PolledOnce, AnswersSettled, Settled, TypeOK, Polls,
                                Statuses, Active
      <4> QED
        BY <1>3, <2>1, <4>1, PollAnswers DEF Active
    <3> QED
      BY <3>1, <3>2
  <2>2. UNCHANGED <<status, indexed, call, documents, missed, hidden>> /\ poll.pc = "jobs"
    BY <1>3 DEF PollAnswered, server, history
  <2> QED
    BY <2>1, <2>2 DEF ReadyListed, Answered
<1>4. ASSUME PollListRead PROVE ReadyListed'
  BY <1>4 DEF PollListRead, ReadDocuments,
         TypeOK, Polls, Loads, server, client, history, ReadyListed, ActiveShown, Answered,
         AnswersSettled, Settled, NothingKnown, PolledOnce, NotShown, Active, Statuses, Shown,
         IndexedAlive
<1>5. ASSUME PollListAnswered PROVE ReadyListed'
  BY <1>5 DEF PollListAnswered, EndPoll, IdlePoll, EnsurePolling, Wrong,
         TypeOK, Polls, Loads, server, client, history, ReadyListed, ActiveShown, Answered,
         AnswersSettled, Settled, NothingKnown, PolledOnce, NotShown, Active, Statuses, Shown,
         IndexedAlive
<1>6. ASSUME PollRejected PROVE ReadyListed'
  BY <1>6 DEF PollRejected, EndPoll, IdlePoll, EnsurePolling, Wrong, Failing,
         TypeOK, Polls, Loads, server, client, history, ReadyListed, ActiveShown, Answered,
         AnswersSettled, Settled, NothingKnown, PolledOnce, NotShown, Active, Statuses, Shown,
         IndexedAlive
<1>7. ASSUME NEW l \in Loaders, LoadRead(l) PROVE ReadyListed'
  BY <1>7, LoadReads DEF LoadRead,
         TypeOK, Polls, Loads, server, client, history, ReadyListed, ActiveShown, Answered,
         AnswersSettled, Settled, NothingKnown, PolledOnce, NotShown, Active, Statuses, Shown,
         IndexedAlive
<1>8. ASSUME NEW l \in Loaders, LoadAnswered(l) PROVE ReadyListed'
  BY <1>8, LoadEnds DEF LoadAnswered, EndLoad, EnsurePolling, Wrong, Visible,
         TypeOK, Polls, Loads, server, client, history, ReadyListed, ActiveShown, Answered,
         AnswersSettled, Settled, NothingKnown, PolledOnce, NotShown, Active, Statuses, Shown,
         IndexedAlive
<1>9. ASSUME NEW l \in Loaders, LoadFails(l) PROVE ReadyListed'
  BY <1>9, LoadEnds DEF LoadFails, EndLoad, EnsurePolling, Wrong, Failing,
         TypeOK, Polls, Loads, server, client, history, ReadyListed, ActiveShown, Answered,
         AnswersSettled, Settled, NothingKnown, PolledOnce, NotShown, Active, Statuses, Shown,
         IndexedAlive
<1>10. ASSUME Mount PROVE ReadyListed'
  BY <1>10, LoadBegun DEF Mount,
         TypeOK, Polls, Loads, server, client, history, ReadyListed, ActiveShown, Answered,
         AnswersSettled, Settled, NothingKnown, PolledOnce, NotShown, Active, Statuses, Shown,
         IndexedAlive
<1>11. ASSUME Unmount PROVE ReadyListed'
  BY <1>11 DEF Unmount,
         TypeOK, Polls, Loads, server, client, history, ReadyListed, ActiveShown, Answered,
         AnswersSettled, Settled, NothingKnown, PolledOnce, NotShown, Active, Statuses, Shown,
         IndexedAlive
<1>12. ASSUME Refresh PROVE ReadyListed'
  BY <1>12, LoadBegun DEF Refresh,
         TypeOK, Polls, Loads, server, client, history, ReadyListed, ActiveShown, Answered,
         AnswersSettled, Settled, NothingKnown, PolledOnce, NotShown, Active, Statuses, Shown,
         IndexedAlive
<1>13. ASSUME NEW j \in Jobs, WorkerStep(j) PROVE ReadyListed'
  <2>1. \A i \in Jobs : Later(status[i], status'[i])
    BY <1>13, RowsMove DEF ServerStep
  <2>2. UNCHANGED <<documents, ingestionJobs, missed, hidden>> /\ poll'.pc = poll.pc
    BY <1>13 DEF WorkerStep, client, history
  <2>3. \A i \in Jobs : call'[i] \notin {"new", "upload", "uploaded"} => Answered(i)
    BY <1>13 DEF WorkerStep, Answered
  <2>4. \A i \in indexed' : status[i] = "ready" => i \in indexed
    BY <1>13 DEF WorkerStep, Insert
  <2> QED
    BY <2>1, <2>2, <2>3, <2>4, ListedKept
<1>14. ASSUME NEW j \in Jobs, Ask(j) PROVE ReadyListed'
  <2>1. PICK from \in Calls, to \in Calls :
            /\ Calling(j, from, to)
            /\ from \in {"new", "upload", "uploaded"} => to \in {"new", "upload", "uploaded"}
    BY <1>14 DEF Ask, Calls
  <2>2. \A i \in Jobs : Later(status[i], status'[i])
    BY <1>14 DEF Ask, server, Later
  <2>3. UNCHANGED <<documents, ingestionJobs, missed, hidden>> /\ poll'.pc = poll.pc
    BY <1>14 DEF Ask, client, history
  <2>4. \A i \in Jobs : call'[i] \notin {"new", "upload", "uploaded"} => Answered(i)
    BY <2>1, AnswersKept
  <2>5. \A i \in indexed' : status[i] = "ready" => i \in indexed
    BY <1>14 DEF Ask, server
  <2> QED
    BY <2>2, <2>3, <2>4, <2>5, ListedKept
<1>15. ASSUME NEW j \in Jobs, ServeUpload(j) PROVE ReadyListed'
  <2>1. /\ UNCHANGED <<indexed, documents, ingestionJobs, missed, hidden, poll>>
        /\ call' = [call EXCEPT ![j] = "uploaded"]
        /\ Server!Submit(j)
    BY <1>15 DEF ServeUpload, Calling, client, history
  <2>2. call'[j] = "uploaded" /\ \A i \in Jobs : i # j => call'[i] = call[i]
    BY <2>1 DEF TypeOK
  <2>3. \A i \in Jobs : i # j => status'[i] = status[i]
    BY <2>1 DEF Server!Submit, Server!Become, TypeOK
  <2> QED
    BY <2>1, <2>2, <2>3 DEF ReadyListed, Answered
<1>16. ASSUME NEW j \in Jobs, ServeCancel(j) PROVE ReadyListed'
  <2>1. PICK from \in Calls, to \in Calls :
            /\ Calling(j, from, to)
            /\ from \in {"new", "upload", "uploaded"} => to \in {"new", "upload", "uploaded"}
    BY <1>16 DEF ServeCancel, Calls
  <2>2. \A i \in Jobs : Later(status[i], status'[i])
    BY <1>16, RowsMove DEF ServerStep
  <2>3. UNCHANGED <<documents, ingestionJobs, missed, hidden>> /\ poll'.pc = poll.pc
    BY <1>16 DEF ServeCancel, client, history
  <2>4. \A i \in Jobs : call'[i] \notin {"new", "upload", "uploaded"} => Answered(i)
    BY <2>1, AnswersKept
  <2>5. \A i \in indexed' : status[i] = "ready" => i \in indexed
    BY <1>16 DEF ServeCancel
  <2> QED
    BY <2>2, <2>3, <2>4, <2>5, ListedKept
<1>17. ASSUME NEW j \in Jobs, ServeDelete(j) PROVE ReadyListed'
  <2>1. PICK from \in Calls, to \in Calls :
            /\ Calling(j, from, to)
            /\ from \in {"new", "upload", "uploaded"} => to \in {"new", "upload", "uploaded"}
    BY <1>17 DEF ServeDelete, Calls
  <2>2. \A i \in Jobs : Later(status[i], status'[i])
    BY <1>17, RowsMove DEF ServerStep
  <2>3. UNCHANGED <<documents, ingestionJobs, missed, hidden>> /\ poll'.pc = poll.pc
    BY <1>17 DEF ServeDelete, client, history
  <2>4. \A i \in Jobs : call'[i] \notin {"new", "upload", "uploaded"} => Answered(i)
    BY <2>1, AnswersKept
  <2>5. \A i \in indexed' : status[i] = "ready" => i \in indexed
    BY <1>17 DEF ServeDelete, server
  <2> QED
    BY <2>2, <2>3, <2>4, <2>5, ListedKept
<1>18. ASSUME NEW j \in Jobs, UploadAnswered(j) PROVE ReadyListed'
  <2>1. ReadyListed
    OBVIOUS
  <2> QED
    BY <1>18, <2>1, Merging DEF ReadyListed, Answered, Active
<1>19. ASSUME NEW j \in Jobs, CancelAnswered(j) PROVE ReadyListed'
  <2>1. ReadyListed
    OBVIOUS
  <2> QED
    BY <1>19, <2>1, Merging DEF ReadyListed, Answered, Active
<1>20. ASSUME NEW j \in Jobs, DeleteAnswered(j) PROVE ReadyListed'
  <2>1. status[j] = "deleted"
    BY <1>20, Removing DEF IndexedAlive
  <2> QED
    BY <1>20, <2>1, Removing DEF ReadyListed, Answered
<1>21. ASSUME NEW j \in Jobs, UploadFails(j) PROVE ReadyListed'
  <2>1. UNCHANGED <<status, indexed, documents, ingestionJobs, poll, missed>>
    BY <1>21 DEF UploadFails, server, client
  <2>2. CASE Calling(j, "upload", "new") /\ UNCHANGED hidden
    <3>1. \A i \in Jobs : call'[i] \notin {"new", "upload", "uploaded"} => Answered(i)
      BY <2>2, AnswersKept
    <3>2. \A i \in Jobs : Later(status[i], status'[i])
      BY <2>1 DEF Later
    <3> QED
      BY <2>1, <2>2, <3>1, <3>2, ListedKept
  <2>3. CASE Calling(j, "uploaded", "none") /\ hidden' = hidden \union {j}
    <3>1. \A i \in Jobs \ {j} : call'[i] = call[i]
      BY <2>3 DEF Calling, TypeOK
    <3> QED
      BY <2>1, <2>3, <3>1 DEF ReadyListed, Answered
  <2> QED
    BY <1>21, <2>2, <2>3 DEF UploadFails
<1>22. ASSUME NEW j \in Jobs, CallFails(j) PROVE ReadyListed'
  <2>1. PICK from \in Calls, to \in Calls :
            /\ Calling(j, from, to)
            /\ from \in {"new", "upload", "uploaded"} => to \in {"new", "upload", "uploaded"}
    BY <1>22 DEF CallFails, Calls
  <2>2. \A i \in Jobs : Later(status[i], status'[i])
    BY <1>22 DEF CallFails, server, Later
  <2>3. UNCHANGED <<documents, ingestionJobs, missed, hidden>> /\ poll'.pc = poll.pc
    BY <1>22 DEF CallFails, history
  <2>4. \A i \in Jobs : call'[i] \notin {"new", "upload", "uploaded"} => Answered(i)
    BY <2>1, AnswersKept
  <2>5. \A i \in indexed' : status[i] = "ready" => i \in indexed
    BY <1>22 DEF CallFails, server
  <2> QED
    BY <2>2, <2>3, <2>4, <2>5, ListedKept
<1>23. CASE UNCHANGED vars
  BY <1>23 DEF vars,
         TypeOK, Polls, Loads, server, client, history, ReadyListed, ActiveShown, Answered,
         AnswersSettled, Settled, NothingKnown, PolledOnce, NotShown, Active, Statuses, Shown,
         IndexedAlive
<1> QED
  BY <1>1, <1>2, <1>3, <1>4, <1>5, <1>6, <1>7, <1>8, <1>9, <1>10, <1>11, <1>12, <1>13, <1>14,
         <1>15, <1>16, <1>17, <1>18, <1>19, <1>20, <1>21, <1>22, <1>23 DEF Next, PollStep,
         LoadStep, CallStep

LEMMA InitIInv == StoreAssumption /\ Init => IInv
<1> SUFFICES ASSUME StoreAssumption, Init PROVE IInv
  OBVIOUS
<1> USE DEF Init, Server!Init, NothingShown, NoJobs, NoneAsked, IdlePoll, IdleLoad, Unread
<1>1. TypeOK
  <2>1. status \in [Jobs -> Statuses] /\ ingestionJobs \in Shown /\ call \in [Jobs -> Calls]
    BY DEF Statuses, Shown, Calls
  <2>2. attempts \in [Jobs -> 0..MaxAttempts] /\ failures \in 0..MaxFailures
    BY DEF StoreAssumption
  <2>3. poll \in Polls
    BY DEF Polls, Listings
  <2>4. load \in [Loaders -> Loads]
    BY DEF Loads, Listings, Statuses
  <2> QED
    BY <2>1, <2>2, <2>3, <2>4 DEF TypeOK
<1>2. NothingKnown /\ PolledOnce /\ AnswersSettled /\ IndexedAlive
  BY DEF NothingKnown, PolledOnce, AnswersSettled, Settled, IndexedAlive, NotShown
<1>3. PollingScheduled /\ ActiveShown /\ DeletedHidden /\ ReadyListed
  BY DEF PollingScheduled, ActiveShown, DeletedHidden, ReadyListed, Answered
<1> QED
  BY <1>1, <1>2, <1>3 DEF IInv

LEMMA StepIInv == StoreAssumption /\ IInv /\ [Next]_vars => IInv'
BY TypeStep, KnownStep, PolledStep, SettledStep, AliveStep, PollingStep, ActiveStep, DeletedStep,
   ListedStep DEF IInv

THEOREM Invariance == Spec => []IInv
BY InitIInv, StepIInv, StoreAssumption, PTL DEF Spec

\* The store keeps its types: only jobs that are going on or failed are ever shown as jobs.
THEOREM Typed == Spec => []TypeOK
BY Invariance, PTL DEF IInv

\* Whichever of the overlapping polls, loads and answers ends last, active jobs are polled.
THEOREM Polled == Spec => []PollingScheduled
BY Invariance, PTL DEF IInv

\* An uploaded document is not lost from the page while it is ingested, nor once it is
\* ready, unless a list was shown that had been read too early, or could not be read.
THEOREM Shows == Spec => []NothingLost
BY Invariance, PTL DEF IInv, NothingLost

\* A deleted document does not come back but with a list read before.
THEOREM Hides == Spec => []DeletedHidden
BY Invariance, PTL DEF IInv
=============================================================================
