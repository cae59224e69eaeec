--------------------------- MODULE DownloadQueue ---------------------------
(***************************************************************************)
(* The download queue of a Drone: app/transfer/download_manager.py with    *)
(* the batches of transfer/transfer_batch.py.                              *)
(*                                                                         *)
(* A pool of workers takes jobs that requests and retries enqueue, while   *)
(* the user cancels, pauses and resumes jobs and the queue.  Each block    *)
(* under the manager's lock is one action; a transfer, the bell entries,   *)
(* which are written outside the lock, and what follows a completed ROM    *)
(* are steps of their own, and the Drone may crash between any two.        *)
(***************************************************************************)
EXTENDS Naturals, Sequences, FiniteSets

CONSTANTS
  Worker,    \* the pool
  Request,   \* the user's requests that select assets, each one a batch
  Bulk,      \* the requests that write the queue once, at their end
  NoBatch,
  MaxJob,    \* bound: jobs ever enqueued
  Setting    \* the settings the queue is put in, see SettingAssumption

Job == 1 .. MaxJob
Batch == Request \cup Job      \* a retried job is a batch of its own
Terminal == {"completed", "failed", "cancelled"}    \* "skipped" is like "completed"

ASSUME QueueAssumption ==
  /\ Bulk \subseteq Request /\ MaxJob \in Nat
  /\ NoBatch \notin Batch /\ Request \cap Job = {}

\* command, reconnect, crash, jobs, size: bounds on the user's commands, on the
\* reconnects, the crashes, the jobs enqueued and those of one request.
\* workers: the pool that DRONE_DOWNLOAD_CONCURRENCY gives.  requests: the
\* requests that come.  artwork: whether a ROM may bring artwork.
ASSUME SettingAssumption ==
  Setting \subseteq [command : Nat, reconnect : Nat, crash : Nat, jobs : 0 .. MaxJob, size : Nat,
                     workers : SUBSET Worker, requests : SUBSET Request, artwork : SUBSET BOOLEAN]

VARIABLES
  jobs,      \* _jobs, in the order they were enqueued
  created,   \* how many jobs have been enqueued
  event,     \* the jobs whose cancellation event is set
  paused,    \* the queue is paused
  worker,    \* what each worker does
  request,   \* how far each request is
  batches,   \* _batches
  outbox,    \* bell entries that have left the lock
  bell,      \* the entries of each batch that are in the bell
  depth,     \* _persist_defer_depth
  dirty,     \* _persist_dirty
  stored,    \* the saved queue
  left       \* the setting, with what is left of its bounds

queue == <<jobs, created, event, paused>>
saving == <<depth, dirty, stored>>
telling == <<batches, outbox, bell>>
vars == <<queue, worker, request, telling, saving, left>>

-----------------------------------------------------------------------------
(* Jobs.                                                                   *)

NoJob == [status |-> "none", pause |-> FALSE, cancel |-> FALSE, later |-> FALSE,
          art |-> FALSE, batch |-> NoBatch]
NewJob(art, batch) == [NoJob EXCEPT !.status = "queued", !.art = art, !.batch = batch]

Status(j) == jobs[j].status
Running(j) == Status(j) = "downloading"

\* The first job a worker may take: those that reconnect wait out their delay.
Takeable == {j \in Job : Status(j) = "queued" /\ ~jobs[j].later}
First(js) == CHOOSE j \in js : \A k \in js : j <= k

Idle == [pc |-> "idle", job |-> 0, completed |-> FALSE]

-----------------------------------------------------------------------------
(* Saving the queue.  While a bulk request runs, it is only marked dirty.   *)

Save(js, stop, d) ==
  IF d > 0 THEN dirty' = TRUE /\ UNCHANGED stored
  ELSE stored' = [jobs |-> js, paused |-> stop] /\ UNCHANGED dirty

Persist == Save(jobs', paused', depth) /\ UNCHANGED depth

-----------------------------------------------------------------------------
(* Batches.                                                                 *)

NoneSelected == [live |-> FALSE, selected |-> 0, recorded |-> {}, counted |-> 0,
                 sealed |-> FALSE, started |-> FALSE, finished |-> FALSE]
OpenBatch == [NoneSelected EXCEPT !.live = TRUE]

\* Mutant: a job that is reported again is counted again.
RecordAgain(b, js) == [b EXCEPT !.recorded = @ \cup js, !.counted = @ + Cardinality(js)]

\* record_outcome: one job counts once.
RecordOutcome(b, js) ==
  [b EXCEPT !.recorded = @ \cup js, !.counted = @ + Cardinality(js \ b.recorded)]

\* _batch_events_locked: what is due, and the batch once it is told.
DueStart(b) == b.sealed /\ ~b.started /\ b.selected > 0
DueFinish(b) == b.sealed /\ ~b.finished /\ b.selected > 0 /\ b.counted >= b.selected
\* started_event and finished_event, without their wording.
Entry(id, what) == [batch |-> id, what |-> what]
Entries(id, b) ==
  (IF DueStart(b) THEN <<Entry(id, "started")>> ELSE <<>>)
    \o (IF DueFinish(b) THEN <<Entry(id, "finished")>> ELSE <<>>)
Told(b) ==
  IF ~b.sealed THEN b
  ELSE [b EXCEPT !.started = TRUE, !.finished = @ \/ DueFinish(b),
                 !.live = ~b.finished /\ ~DueFinish(b) /\ b.selected > 0]

\* The batches become bs and tell what is due; the entries leave the lock.
Tell(bs) ==
  /\ batches' = [id \in Batch |-> Told(bs[id])]
  /\ outbox' = outbox \cup ({Entries(id, bs[id]) : id \in Batch} \ {<<>>})
  /\ UNCHANGED bell

\* The outcome of the jobs js, as they are now, in the batches that still live.
Outcomes(js) ==
  [id \in Batch |-> IF batches[id].live
                    THEN RecordOutcome(batches[id], {j \in js : jobs'[j].batch = id})
                    ELSE batches[id]]
Settle(js) == Tell(Outcomes(js))

\* _emit_batch_events: each list in its order, one list before or after another.
Emit ==
  /\ \E list \in outbox :
       /\ bell' = [bell EXCEPT ![Head(list).batch] = Append(@, Head(list).what)]
       /\ outbox' = (outbox \ {list}) \cup ({Tail(list)} \ {<<>>})
  /\ UNCHANGED <<queue, worker, request, batches, saving, left>>

-----------------------------------------------------------------------------
(* Workers.                                                                 *)

\* _worker: selection and start in one block.
Claim(w) ==
  /\ w \in left.workers /\ worker[w].pc = "idle" /\ ~paused /\ Takeable # {}
  /\ LET j == First(Takeable)
     IN  /\ jobs' = [jobs EXCEPT ![j].status = "downloading"]
         /\ worker' = [worker EXCEPT ![w] = [Idle EXCEPT !.pc = "fetch", !.job = j]]
  /\ UNCHANGED <<created, event, paused, request, telling, left>>
  /\ Persist

\* progress, every few seconds.
Progress(w) ==
  /\ worker[w].pc = "fetch"
  /\ Save(jobs, paused, depth)
  /\ UNCHANGED <<queue, worker, request, telling, depth, left>>

\* How a transfer leaves its job; it is saved with what follows.
Land(w, job) ==
  /\ jobs' = [jobs EXCEPT ![worker[w].job] = job]
  /\ worker' = [worker EXCEPT ![w].pc = "settle"]
  /\ UNCHANGED <<created, event, paused, request, telling, saving>>

Parked(job) == [job EXCEPT !.status = "paused", !.pause = FALSE]

Complete(w) ==
  /\ worker[w].pc = "fetch"
  /\ Land(w, [jobs[worker[w].job] EXCEPT !.status = "completed"]) /\ UNCHANGED left

\* DownloadCancelled: the transfer saw the event.
Stopped(w) ==
  LET job == jobs[worker[w].job]
  IN  /\ worker[w].pc = "fetch" /\ worker[w].job \in event
      /\ Land(w, IF job.pause THEN Parked(job) ELSE [job EXCEPT !.status = "cancelled"])
      /\ UNCHANGED left

\* Any other error, permanent or not.
Broken(w) ==
  LET job == jobs[worker[w].job]
  IN  /\ worker[w].pc = "fetch"
      /\ IF job.pause THEN Land(w, Parked(job)) /\ UNCHANGED left
         ELSE \/ Land(w, [job EXCEPT !.status = "failed"]) /\ UNCHANGED left
              \/ /\ ~job.cancel /\ left.reconnect > 0
                 /\ Land(w, [job EXCEPT !.status = "queued", !.later = TRUE])
                 /\ left' = [left EXCEPT !.reconnect = @ - 1]

\* The finally block: a job that is terminal by now is counted and reported.
Finally(w) ==
  LET j == worker[w].job
  IN  /\ worker[w].pc = "settle"
      /\ UNCHANGED queue
      /\ IF Status(j) \in Terminal THEN Settle({j}) ELSE UNCHANGED telling
      /\ worker' = [worker EXCEPT ![w].pc = "report", ![w].completed = Status(j) = "completed"]
      /\ UNCHANGED <<request, left>>
      /\ Persist

\* A job at the end of the queue.
Add(job) ==
  /\ created < left.jobs /\ created' = created + 1
  /\ jobs' = [jobs EXCEPT ![created + 1] = job]

\* A completed ROM brings its artwork, which belongs to no batch.
Report(w) ==
  /\ worker[w].pc = "report"
  /\ worker' = [worker EXCEPT ![w] = Idle]
  /\ UNCHANGED paused
  /\ IF worker[w].completed /\ jobs[worker[w].job].art /\ created < left.jobs
     THEN Add(NewJob(FALSE, NoBatch)) /\ Persist
     ELSE UNCHANGED <<jobs, created, saving>>
  /\ UNCHANGED <<event, request, telling, left>>

\* A reconnect delay is over.
Elapse(j) ==
  /\ jobs[j].later
  /\ jobs' = [jobs EXCEPT ![j].later = FALSE]
  /\ UNCHANGED <<created, event, paused, worker, request, telling, saving, left>>

-----------------------------------------------------------------------------
(* Requests.                                                                *)

Begin(r) ==
  /\ request[r] = "idle" /\ r \in left.requests
  /\ request' = [request EXCEPT ![r] = "open"]
  /\ batches' = [batches EXCEPT ![r] = OpenBatch]
  /\ depth' = IF r \in Bulk THEN depth + 1 ELSE depth
  /\ UNCHANGED <<queue, worker, outbox, bell, dirty, stored, left>>

Enqueue(r) ==
  /\ request[r] = "open" /\ batches[r].selected < left.size
  /\ \E art \in left.artwork : Add(NewJob(art, r))
  /\ batches' = [batches EXCEPT ![r].selected = @ + 1]
  /\ UNCHANGED <<event, paused, worker, request, outbox, bell, left>>
  /\ Persist

\* Mutant: an inner end forgets that something is to be written.
FlushForgets(r) ==
  /\ request[r] = "open" /\ r \in Bulk
  /\ request' = [request EXCEPT ![r] = "flushed"]
  /\ depth' = depth - 1 /\ dirty' = FALSE
  /\ stored' = IF depth = 1 /\ dirty THEN [jobs |-> jobs, paused |-> paused] ELSE stored
  /\ UNCHANGED <<queue, worker, telling, left>>

\* The end of batch_persistence.
Flush(r) ==
  /\ request[r] = "open" /\ r \in Bulk
  /\ request' = [request EXCEPT ![r] = "flushed"]
  /\ depth' = depth - 1
  /\ IF depth = 1 /\ dirty THEN stored' = [jobs |-> jobs, paused |-> paused] /\ dirty' = FALSE
     ELSE UNCHANGED <<dirty, stored>>
  /\ UNCHANGED <<queue, worker, telling, left>>

Seal(r) ==
  /\ request[r] = IF r \in Bulk THEN "flushed" ELSE "open"
  /\ request' = [request EXCEPT ![r] = "done"]
  /\ Tell([batches EXCEPT ![r].sealed = TRUE])
  /\ UNCHANGED <<queue, worker, saving, left>>

-----------------------------------------------------------------------------
(* The user.                                                                *)

Command ==
  /\ left.command > 0 /\ left' = [left EXCEPT !.command = @ - 1]
  /\ UNCHANGED <<worker, request>>

\* What no worker runs is cancelled at once.
CancelledNow(job) == [job EXCEPT !.status = "cancelled", !.cancel = TRUE, !.pause = FALSE]

\* Mutant: a waiting job is cancelled behind its batch's back.
CancelSilently(j) ==
  /\ Status(j) \in {"queued", "paused", "downloading"}
  /\ event' = event \cup {j}
  /\ jobs' = [jobs EXCEPT ![j] = IF Running(j) THEN [@ EXCEPT !.cancel = TRUE] ELSE CancelledNow(@)]
  /\ UNCHANGED <<created, paused, telling>>
  /\ Persist /\ Command

Cancel(j) ==
  /\ Status(j) \in {"queued", "paused", "downloading"}
  /\ event' = event \cup {j}
  /\ jobs' = [jobs EXCEPT ![j] = IF Running(j) THEN [@ EXCEPT !.cancel = TRUE] ELSE CancelledNow(@)]
  /\ IF Running(j) THEN UNCHANGED telling ELSE Settle({j})
  /\ UNCHANGED <<created, paused>>
  /\ Persist /\ Command

\* Mutant: a job under way is parked at once, its worker still to notice.
PauseJobAtOnce(j) ==
  /\ Status(j) \in {"queued", "downloading"}
  /\ jobs' = [jobs EXCEPT ![j].status = "paused", ![j].later = FALSE]
  /\ event' = IF Running(j) THEN event \cup {j} ELSE event
  /\ UNCHANGED <<created, paused, telling>>
  /\ Persist /\ Command

PauseJob(j) ==
  /\ Status(j) \in {"queued", "downloading"}
  /\ IF Running(j)
     THEN /\ jobs' = [jobs EXCEPT ![j].pause = TRUE]
          /\ event' = event \cup {j}
     ELSE /\ jobs' = [jobs EXCEPT ![j].status = "paused", ![j].later = FALSE]
          /\ UNCHANGED event
  /\ UNCHANGED <<created, paused, telling>>
  /\ Persist /\ Command

\* The event of the job stays as it is.
ResumeJob(j) ==
  /\ Status(j) = "paused"
  /\ jobs' = [jobs EXCEPT ![j].status = "queued", ![j].pause = FALSE]
  /\ UNCHANGED <<created, event, paused, telling>>
  /\ Persist /\ Command

\* A copy of the job, that keeps a pause request and a reconnect delay, in a
\* batch of its own.
Retry(j) ==
  /\ Status(j) \in {"failed", "cancelled"}
  /\ Add([jobs[j] EXCEPT !.status = "queued", !.cancel = FALSE, !.batch = created + 1])
  /\ Tell([batches EXCEPT ![created + 1] = [OpenBatch EXCEPT !.selected = 1, !.sealed = TRUE]])
  /\ UNCHANGED <<event, paused>>
  /\ Persist /\ Command

PauseQueue(stop) ==
  /\ paused # stop /\ paused' = stop
  /\ UNCHANGED <<jobs, created, event, telling>>
  /\ Persist /\ Command

ClearQueue ==
  LET waiting == {j \in Job : Status(j) = "queued"}
  IN  /\ waiting # {}
      /\ jobs' = [j \in Job |-> IF j \in waiting
                                THEN [jobs[j] EXCEPT !.status = "cancelled", !.cancel = TRUE]
                                ELSE jobs[j]]
      /\ event' = event \cup waiting
      /\ Settle(waiting)
      /\ UNCHANGED <<created, paused>>
      /\ Persist /\ Command

-----------------------------------------------------------------------------
(* A crash, and the restart that follows it.                                *)

NothingStored == [jobs |-> [j \in Job |-> NoJob], paused |-> FALSE]

\* Mutant: what ran is still taken to run.
RestoredAsItWas(job) ==
  IF job.cancel /\ job.status \in {"queued", "downloading"} THEN [job EXCEPT !.status = "cancelled"] ELSE job

\* _restore_state: what ran runs again, unless it was to be cancelled.
Restored(job) ==
  IF job.status \notin {"queued", "downloading"} THEN job
  ELSE IF job.cancel THEN [job EXCEPT !.status = "cancelled"]
  ELSE [job EXCEPT !.status = "queued"]

Crash ==
  /\ left.crash > 0 /\ left' = [left EXCEPT !.crash = @ - 1]
  /\ jobs' = [j \in Job |-> Restored(stored.jobs[j])]
  /\ paused' = stored.paused
  /\ stored' = [jobs |-> jobs', paused |-> paused']
  /\ event' = {} /\ depth' = 0 /\ dirty' = FALSE
  /\ worker' = [w \in Worker |-> Idle]
  /\ request' = [r \in Request |-> IF request[r] = "idle" THEN "idle" ELSE "done"]
  /\ batches' = [id \in Batch |-> NoneSelected]
  /\ outbox' = {}
  /\ UNCHANGED <<created, bell>>

-----------------------------------------------------------------------------

Init ==
  /\ jobs = NothingStored.jobs /\ created = 0 /\ event = {} /\ paused = FALSE
  /\ worker = [w \in Worker |-> Idle]
  /\ request = [r \in Request |-> "idle"]
  /\ batches = [id \in Batch |-> NoneSelected]
  /\ outbox = {} /\ bell = [id \in Batch |-> <<>>]
  /\ depth = 0 /\ dirty = FALSE /\ stored = NothingStored
  /\ left \in Setting

\* What a worker does next, and what it may do meanwhile.
Proceed(w) == Claim(w) \/ Complete(w) \/ Stopped(w) \/ Broken(w) \/ Finally(w) \/ Report(w)
Working(w) == Proceed(w) \/ Progress(w)

Requesting(r) == Begin(r) \/ Enqueue(r) \/ Flush(r) \/ Seal(r)

Next ==
  \/ \E w \in Worker : Working(w)
  \/ \E r \in Request : Requesting(r)
  \/ \E j \in Job : Elapse(j) \/ Cancel(j) \/ PauseJob(j) \/ ResumeJob(j) \/ Retry(j)
  \/ \E stop \in BOOLEAN : PauseQueue(stop)
  \/ ClearQueue \/ Emit \/ Crash

Spec == Init /\ [][Next]_vars

\* The threads of the process go on; a transfer ends, by itself or by a timeout;
\* a delay elapses.  The user has no obligation.  Weak fairness of Proceed, of
\* the end of a request, of Emit and of Elapse, with the enabling conditions
\* spelt out.
CanProceed(w) == w \in left.workers /\ (worker[w].pc # "idle" \/ (~paused /\ Takeable # {}))

FairSpec ==
  /\ Spec
  /\ \A w \in Worker : <>[]CanProceed(w) => []<><<Proceed(w)>>_vars
  /\ <>[](\E r \in Request : request[r] \in {"open", "flushed"})
       => []<><<\E r \in Request : Flush(r) \/ Seal(r)>>_vars
  /\ <>[](outbox # {}) => []<><<Emit>>_vars
  /\ <>[](\E j \in Job : jobs[j].later) => []<><<\E j \in Job : Elapse(j)>>_vars

-----------------------------------------------------------------------------
(* Properties.                                                             *)

TypeOK ==
  /\ created \in 0 .. MaxJob /\ event \subseteq Job /\ paused \in BOOLEAN
  /\ \A js \in {jobs, stored.jobs} : js \in [Job ->
       [status : {"none", "queued", "downloading", "paused"} \cup Terminal, pause : BOOLEAN,
        cancel : BOOLEAN, later : BOOLEAN, art : BOOLEAN, batch : Batch \cup {NoBatch}]]
  /\ worker \in [Worker -> [pc : {"idle", "fetch", "settle", "report"}, job : 0 .. MaxJob, completed : BOOLEAN]]
  /\ request \in [Request -> {"idle", "open", "flushed", "done"}]
  /\ depth \in Nat /\ dirty \in BOOLEAN

\* A job that is downloading has one worker that transfers it, and no other job
\* has any: two workers never write the same file for one job.
OneWorkerPerJob ==
  /\ \A j \in Job : Running(j) => \E w \in Worker : worker[w].pc = "fetch" /\ worker[w].job = j
  /\ \A w \in Worker : worker[w].pc = "fetch" =>
       /\ Running(worker[w].job)
       /\ \A v \in Worker : worker[v].pc = "fetch" /\ worker[v].job = worker[w].job => v = w

\* Once no bulk request is under way, what the user asked for is saved: a
\* cancelled job is not run by the next start, a parked one does not start by
\* itself, and no job is forgotten.
AckedIsSaved ==
  depth = 0 =>
    \A j \in Job :
      /\ jobs[j].cancel => stored.jobs[j].cancel
      /\ Status(j) # "none" => stored.jobs[j].status # "none"
      /\ jobs[j].pause => stored.jobs[j].pause
      /\ paused = stored.paused

\* What the queue promises of every job: one worker at most has it, and what its
\* user was told of it is saved.
JobsAreKept == OneWorkerPerJob /\ AckedIsSaved

Count(seq, x) == Cardinality({i \in DOMAIN seq : seq[i] = x})

\* A batch tells its start and its end at most once, and its end only when all
\* its jobs have ended.
BatchesTellTheTruth ==
  \A id \in Batch :
    /\ \A what \in {"started", "finished"} : Count(bell[id], what) <= 1
    /\ batches[id].finished => \A j \in Job : jobs[j].batch = id => Status(j) \in Terminal

\* A batch whose jobs have all ended says so, if the Drone does not crash.
BatchesFinish ==
  \A id \in Batch :
    (/\ left.crash = 0 /\ batches[id].sealed /\ batches[id].selected > 0
     /\ \A j \in Job : jobs[j].batch = id => Status(j) \in Terminal)
      ~> Count(bell[id], "finished") = 1

\* A queued job is transferred, fails or is parked: no restart leaves one that
\* ran without a worker, no stale event or wake-up loses one.  Sources that come
\* and go for ever (more reconnects than left.reconnect) are outside it.
QueueDrains ==
  \A j \in Job : Status(j) = "queued" ~> (paused \/ Status(j) \in Terminal \cup {"paused", "none"})

\* "but lands in 'paused' instead of 'cancelled' so resume_job can re-run it"
\* (download_manager.py:903-904): a job is cancelled only when that was asked.
CancelledOnlyOnRequest == \A j \in Job : Status(j) = "cancelled" => jobs[j].cancel
=============================================================================
