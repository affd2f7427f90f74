------------------------------ MODULE EvalJobs ------------------------------
(***************************************************************************)
(* One asynchronous evaluation job of the platform, from the request that  *)
(* creates it to the worker that evaluates its items:                      *)
(*                                                                         *)
(*   - the API process that creates the row and dispatches the job         *)
(*     (app/api/routes/jobs.py, app/services/job_service.py,               *)
(*     app/services/redis_queue.py);                                       *)
(*   - API requests that cancel it, or ask for its quality gate;           *)
(*   - the arq queue, which delivers the job at least once (external);     *)
(*   - the worker processes that run process_evaluation_job                *)
(*     (app/worker.py).                                                    *)
(*                                                                         *)
(* They share a PostgreSQL row and table (row, runs) and two Redis keys    *)
(* (state, progress) that no transaction covers.  An action is one access  *)
(* to one of the two stores together with the local steps around it, so    *)
(* every interleaving of the accesses is a behaviour.  Every key and row   *)
(* is per job id: jobs share nothing but the workers' time, and one job is *)
(* modelled.                                                               *)
(***************************************************************************)
EXTENDS Naturals, Sequences, FiniteSets

CONSTANTS
  Workers,       \* worker processes; the task never awaits, one job at a time each
  Clients,       \* API requests that cancel the job
  Askers,        \* API requests for the job's quality gate
  None,          \* an absent Redis key, a NULL column, no lock holder
  NumItems,      \* items of the batch (the schema demands at least one)
  MaxTries,      \* WORKER_MAX_RETRIES, arq's max_tries
  MaxRetries,    \* max_retries of process_evaluation_job
  DatabaseFails, \* database calls may raise, not only Redis calls
  MaxCrashes,    \* bound: worker processes killed
  MaxFaults,     \* bound: database or Redis calls that raise
  MaxOverruns,   \* bound: in-progress locks that expire under a running task
  MaxEvictions   \* bound: Redis keys that expire or are evicted

ASSUME SetsAssumption == None \notin Workers /\ IsFiniteSet(Workers)
ASSUME SizesAssumption ==
  /\ NumItems \in Nat \ {0}
  /\ MaxTries \in Nat \ {0}
  /\ MaxRetries \in Nat \ {0} /\ DatabaseFails \in BOOLEAN
  /\ MaxCrashes \in Nat /\ MaxFaults \in Nat /\ MaxOverruns \in Nat /\ MaxEvictions \in Nat

Statuses == {"queued", "running", "completed", "failed", "cancelled"}
Terminal == {"completed", "failed", "cancelled"}
Items    == 1 .. NumItems

ASSUME StateAssumption == None \notin Statuses   \* an absent key is no status

VARIABLES
  row,        \* the evaluation_jobs row, or None before the insert
  runs,       \* the evaluation_runs rows of this job, named by attempt and item
  state,      \* Redis llm_eval:jobs:state:{id}, or None
  progress,   \* Redis llm_eval:jobs:progress:{id}, or None
  arq,        \* arq's queue entry, in-progress lock and delivery counter
  submitter,  \* control state of the request that submits the job
  client,     \* the cancel and the quality gate requests
  worker,     \* the worker processes
  budget,     \* crashes, faults, overruns and evictions used up
  late        \* history: items a worker committed under a standing cancel flag

database == <<row, runs>>
redis    == <<state, progress>>
vars == <<row, runs, state, progress, arq, submitter, client, worker, budget, late>>

Counts  == [completed : 0 .. NumItems, failed : 0 .. NumItems]
Run(t, i) == [try |-> t, item |-> i]
Batches == [try : 1 .. MaxTries, results : Seq({"completed", "failed"})]
Rows    == [status : Statuses, completed : 0 .. NumItems, failed : 0 .. NumItems,
            batch : Batches \cup {None}]

ASSUME RowAssumption   == None \notin Rows      \* an absent row is no row
ASSUME BatchAssumption == None \notin Batches   \* NULL is no list of results

WorkerPcs == {"idle", "load", "mark_running", "publish_running", "check", "cancel_row",
              "publish_cancelled", "item", "progress", "complete", "publish_completed",
              "except_row", "except_state", "return", "raise"}
ClientPcs == {"idle", "overlay", "get", "set", "mark", "acked", "refused", "error",
              "gate", "gate_failed"}
Requests  == Clients \cup Askers

ArqRecords    == [queued : BOOLEAN, lock : Workers \cup {None}, tries : 0 .. MaxTries]
ClientRecords == [pc : ClientPcs, loaded : Rows \cup {None}, seen : Counts \cup {None}]
WorkerRecords == [pc : WorkerPcs, try : 0 .. MaxTries, loaded : Statuses,
                  completed : 0 .. NumItems, failed : 0 .. NumItems,
                  results : Seq({"completed", "failed"})]
Budgets       == [crashes : 0 .. MaxCrashes, faults : 0 .. MaxFaults,
                  overruns : 0 .. MaxOverruns, evictions : 0 .. MaxEvictions]

TypeOK ==
  /\ row \in Rows \cup {None}
  /\ runs \subseteq [try : 1 .. MaxTries, item : Items]
  /\ state \in Statuses \cup {None}
  /\ progress \in Counts \cup {None}
  /\ arq \in ArqRecords
  /\ submitter \in {"create", "enqueue", "publish", "done", "error"}
  /\ client \in [Requests -> ClientRecords]
  /\ worker \in [Workers -> WorkerRecords]
  /\ budget \in Budgets
  /\ late \in [Workers -> Nat]

\* A worker that holds nothing of an attempt yet.
Blank(pc, t) == [pc |-> pc, try |-> t, loaded |-> "queued", completed |-> 0, failed |-> 0,
                 results |-> << >>]
Asleep == Blank("idle", 0)

Init ==
  /\ row = None
  /\ runs = {}
  /\ state = None
  /\ progress = None
  /\ arq = [queued |-> FALSE, lock |-> None, tries |-> 0]
  /\ submitter = "create"
  /\ client = [c \in Requests |-> [pc |-> "idle", loaded |-> None, seen |-> None]]
  /\ worker = [w \in Workers |-> Asleep]
  /\ budget = [crashes |-> 0, faults |-> 0, overruns |-> 0, evictions |-> 0]
  /\ late = [w \in Workers |-> 0]

-----------------------------------------------------------------------------
(***************************************************************************)
(* Failures.  A database or Redis call may raise (both clients time out);  *)
(* the write it carried may have been applied or not.                      *)
(***************************************************************************)
Fault == /\ budget.faults < MaxFaults
         /\ budget' = [budget EXCEPT !.faults = @ + 1]
DatabaseFault == DatabaseFails /\ Fault

\* set_job_state: one SET of the whole value.  late counts items committed while
\* the key stands at "cancelled", so any other value resets it.
SetJobState(s) ==
  /\ state' = s
  /\ late' = IF s = "cancelled" THEN late ELSE [w \in Workers |-> 0]

\* set_job_state raises; the SET may have reached Redis.
TornSetJobState(s) == SetJobState(s) \/ UNCHANGED <<state, late>>

Move(w, pc) == worker' = [worker EXCEPT ![w].pc = pc]

\* Re-raise below max_retries, swallow the exception from there on.
Leave(w) == IF worker[w].try < MaxRetries THEN "raise" ELSE "return"

\* Worker w commits newRow and goes on at next, or the commit raises.  A session with a failed
\* commit raises until it is rolled back, and the outer handler does not roll back: its own
\* query raises, and neither the row nor Redis learns of the failure.
CommitRow(w, newRow, next) ==
  /\ \/ row' = newRow /\ Move(w, next) /\ UNCHANGED budget
     \/ DatabaseFault /\ row' \in {row, newRow} /\ Move(w, Leave(w))
  /\ UNCHANGED <<runs, redis, arq, submitter, client, late>>

\* Worker w publishes state s in Redis and goes on at next, or the call raises and
\* it goes on at handler.
Publish(w, s, next, handler) ==
  /\ \/ SetJobState(s) /\ Move(w, next) /\ UNCHANGED budget
     \/ Fault /\ TornSetJobState(s) /\ Move(w, handler)
  /\ UNCHANGED <<database, progress, arq, submitter, client>>

-----------------------------------------------------------------------------
(***************************************************************************)
(* The request that submits the job.                                       *)
(***************************************************************************)
Create ==
  /\ submitter = "create"
  /\ LET created == [status |-> "queued", completed |-> 0, failed |-> 0, batch |-> None]
     IN \/ row' = created /\ submitter' = "enqueue" /\ UNCHANGED budget
        \/ DatabaseFault /\ row' \in {row, created} /\ submitter' = "error"
  /\ UNCHANGED <<runs, redis, arq, client, worker, late>>

\* dispatch_job, first half: the job becomes visible to the workers.
Enqueue ==
  /\ submitter = "enqueue"
  /\ \/ arq' = [arq EXCEPT !.queued = TRUE] /\ submitter' = "publish" /\ UNCHANGED budget
     \/ /\ Fault
        /\ arq' \in {arq, [arq EXCEPT !.queued = TRUE]}
        /\ submitter' = "error"
  /\ UNCHANGED <<database, redis, client, worker, late>>

\* dispatch_job, second half: "queued" is published after the job can be running.
PublishQueued ==
  /\ submitter = "publish"
  /\ \/ SetJobState("queued") /\ submitter' = "done" /\ UNCHANGED budget
     \/ Fault /\ TornSetJobState("queued") /\ submitter' = "error"
  /\ UNCHANGED <<database, progress, arq, client, worker>>

-----------------------------------------------------------------------------
(***************************************************************************)
(* The request that cancels the job.  loaded is the row as its session     *)
(* read it, seen the progress laid over it: assigning to the ORM object    *)
(* makes the overlaid columns dirty, and the commit in mark_job_failed     *)
(* writes them with the status.                                            *)
(***************************************************************************)
ClientGoes(c, pc) == client' = [client EXCEPT ![c].pc = pc]

\* get_job, the query.  The list route shows job ids as soon as the row is committed.
ReadRow(c) ==
  /\ client[c].pc = "idle"
  /\ row # None
  /\ client' = [client EXCEPT ![c] = [pc |-> "overlay", loaded |-> row, seen |-> None]]
  /\ UNCHANGED <<database, redis, arq, submitter, worker, budget, late>>

\* get_job, the two Redis reads (a read that raises counts as an absent key), and
\* the 409 for a status that is already terminal.
Overlay(c) ==
  /\ client[c].pc = "overlay"
  /\ \E s \in {state, None}, p \in {progress, None} :
       /\ IF s = state /\ p = progress THEN UNCHANGED budget ELSE Fault
       /\ LET status == IF s = None THEN client[c].loaded.status ELSE s
          IN client' = [client EXCEPT
               ![c].pc = IF status \in Terminal THEN "refused" ELSE "get",
               ![c].seen = p]
  /\ UNCHANGED <<database, redis, arq, submitter, worker, late>>

\* redis_queue.cancel_job, the GET and its check.
CancelGet(c) ==
  /\ client[c].pc = "get"
  /\ \/ /\ ClientGoes(c, IF state \in Terminal \cup {None} THEN "refused" ELSE "set")
        /\ UNCHANGED budget
     \/ Fault /\ ClientGoes(c, "error")
  /\ UNCHANGED <<database, redis, arq, submitter, worker, late>>

\* redis_queue.cancel_job, the SET: whatever the key holds by now is overwritten.
CancelSet(c) ==
  /\ client[c].pc = "set"
  /\ \/ SetJobState("cancelled") /\ ClientGoes(c, "mark") /\ UNCHANGED budget
     \/ Fault /\ TornSetJobState("cancelled") /\ ClientGoes(c, "error")
  /\ UNCHANGED <<database, progress, arq, submitter, worker>>

\* The columns mark_job_failed's commit writes into the row: a column is written when
\* its value differs from the one the session loaded.
MarkedFailed(loaded, seen) ==
  [row EXCEPT
     !.status = IF loaded.status = "failed" THEN @ ELSE "failed",
     !.completed = IF seen = None \/ seen.completed = loaded.completed
                     THEN @ ELSE seen.completed,
     !.failed = IF seen = None \/ seen.failed = loaded.failed THEN @ ELSE seen.failed]

\* job_service.mark_job_failed; the 200 response follows.
MarkFailed(c) ==
  /\ client[c].pc = "mark"
  /\ LET marked == MarkedFailed(client[c].loaded, client[c].seen)
     IN \/ row' = marked /\ ClientGoes(c, "acked") /\ UNCHANGED budget
        \/ DatabaseFault /\ row' \in {row, marked} /\ ClientGoes(c, "error")
  /\ UNCHANGED <<runs, redis, arq, submitter, worker, late>>

-----------------------------------------------------------------------------
(***************************************************************************)
(* The request for the quality gate of a completed job.  It reads the row, *)
(* then Redis, so the status it acts on may be newer than the results.     *)
(***************************************************************************)
\* get_job, the query.  (The answer does not depend on the counters: they are blanked out.)
AskGate(c) ==
  /\ client[c].pc = "idle"
  /\ row # None
  /\ LET loaded == [row EXCEPT !.completed = 0, !.failed = 0]
     IN client' = [client EXCEPT ![c] = [pc |-> "gate", loaded |-> loaded, seen |-> None]]
  /\ UNCHANGED <<database, redis, arq, submitter, worker, budget, late>>

\* The Redis read laid over the row; thresholds are checked against the completed items of
\* batch_results, and without any the answer is "fail" with no checks.  A caller with any
\* other answer may ask again.
AnswerGate(c) ==
  /\ client[c].pc = "gate"
  /\ \E s \in {state, None} :
       /\ IF s = state THEN UNCHANGED budget ELSE Fault
       /\ LET job == client[c].loaded
              status == IF s = None THEN job.status ELSE s
              checked == job.batch # None
                         /\ \E i \in DOMAIN job.batch.results : job.batch.results[i] = "completed"
              next == IF status = "completed" /\ ~checked THEN "gate_failed" ELSE "idle"
          IN client' = [client EXCEPT ![c] = [pc |-> next, loaded |-> None, seen |-> None]]
  /\ UNCHANGED <<database, redis, arq, submitter, worker, late>>

-----------------------------------------------------------------------------
(***************************************************************************)
(* arq (external): the queue entry stays until an attempt has finished, an *)
(* expiring in-progress lock keeps other workers away meanwhile.           *)
(***************************************************************************)
Pick(w) ==
  /\ worker[w].pc = "idle"
  /\ arq.queued /\ arq.lock = None /\ arq.tries < MaxTries
  /\ arq' = [arq EXCEPT !.lock = w, !.tries = @ + 1]
  /\ worker' = [worker EXCEPT ![w] = Blank("load", arq.tries + 1)]
  /\ late' = [late EXCEPT ![w] = 0]
  /\ UNCHANGED <<database, redis, submitter, client, budget>>

\* Past max_tries arq drops the job without calling the function.
GiveUp ==
  /\ arq.queued /\ arq.lock = None /\ arq.tries = MaxTries
  /\ arq' = [arq EXCEPT !.queued = FALSE]
  /\ UNCHANGED <<database, redis, submitter, client, worker, budget, late>>

\* The function returned: entry and lock are deleted, whoever holds the lock.
FinishTask(w) ==
  /\ worker[w].pc = "return"
  /\ arq' = [arq EXCEPT !.queued = FALSE, !.lock = None]
  /\ worker' = [worker EXCEPT ![w] = Asleep]
  /\ UNCHANGED <<database, redis, submitter, client, budget, late>>

\* The function raised: "arq will retry" says the worker; arq's own rule for a plain
\* exception is to finish the job.  Either may happen.
TaskRaised(w) ==
  /\ worker[w].pc = "raise"
  /\ \E again \in {arq.queued, FALSE} : arq' = [arq EXCEPT !.queued = again, !.lock = None]
  /\ worker' = [worker EXCEPT ![w] = Asleep]
  /\ UNCHANGED <<database, redis, submitter, client, budget, late>>

\* The lock of a dead worker expires; that of a running one only when the task, which
\* job_timeout cannot interrupt, outlives it.
LockExpires ==
  /\ arq.lock # None
  /\ arq' = [arq EXCEPT !.lock = None]
  /\ IF worker[arq.lock].pc = "idle"
       THEN UNCHANGED budget
       ELSE /\ budget.overruns < MaxOverruns
            /\ budget' = [budget EXCEPT !.overruns = @ + 1]
  /\ UNCHANGED <<database, redis, submitter, client, worker, late>>

-----------------------------------------------------------------------------
(***************************************************************************)
(* process_evaluation_job.  An exception of Redis anywhere in its body     *)
(* continues at "except_row"; for one of the database see CommitRow.       *)
(***************************************************************************)
\* Mutant of Load: only a cancelled job is skipped.
LoadUnlessCancelled(w) ==
  /\ worker[w].pc = "load"
  /\ \/ /\ row.status = "cancelled"
        /\ Move(w, "return")
        /\ UNCHANGED budget
     \/ /\ row.status # "cancelled"
        /\ worker' = [worker EXCEPT ![w].pc = "mark_running", ![w].loaded = row.status]
        /\ UNCHANGED budget
     \/ DatabaseFault /\ (Move(w, "except_row") \/ Move(w, Leave(w)))
  /\ UNCHANGED <<database, redis, arq, submitter, client, late>>

\* The idempotency checks.  (Rows are never deleted: "not found" cannot happen.)  A query that
\* gets no connection leaves the session usable, one that fails on a connection does not.
Load(w) ==
  /\ worker[w].pc = "load"
  /\ \/ /\ row.status \in {"completed", "cancelled"}
        /\ Move(w, "return")
        /\ UNCHANGED budget
     \/ /\ row.status \notin {"completed", "cancelled"}
        /\ worker' = [worker EXCEPT ![w].pc = "mark_running", ![w].loaded = row.status]
        /\ UNCHANGED budget
     \/ DatabaseFault /\ (Move(w, "except_row") \/ Move(w, Leave(w)))
  /\ UNCHANGED <<database, redis, arq, submitter, client, late>>

\* job.status = RUNNING; the ORM writes the column unless the row already had it.
MarkRunning(w) ==
  /\ worker[w].pc = "mark_running"
  /\ CommitRow(w, [row EXCEPT !.status = IF worker[w].loaded = "running" THEN @ ELSE "running"],
               "publish_running")

PublishRunning(w) ==
  /\ worker[w].pc = "publish_running"
  /\ Publish(w, "running", "check", "except_row")

\* Mutant of CheckCancelled: the flag is read before the first item only.
CheckCancelledOnce(w) ==
  /\ worker[w].pc = "check"
  /\ \/ /\ Move(w, IF state = "cancelled" /\ worker[w].results = << >> THEN "cancel_row" ELSE "item")
        /\ UNCHANGED budget
     \/ Fault /\ Move(w, "except_row")
  /\ UNCHANGED <<database, redis, arq, submitter, client, late>>

\* _is_cancelled, before each item.  Before the first, the row is read again for its items,
\* which may fail as the query in Load may.
CheckCancelled(w) ==
  /\ worker[w].pc = "check"
  /\ \/ Move(w, IF state = "cancelled" THEN "cancel_row" ELSE "item") /\ UNCHANGED budget
     \/ Fault /\ Move(w, "except_row")
     \/ worker[w].results = << >> /\ DatabaseFault /\ Move(w, Leave(w))
  /\ UNCHANGED <<database, redis, arq, submitter, client, late>>

CancelRow(w) ==
  /\ worker[w].pc = "cancel_row"
  /\ CommitRow(w, [row EXCEPT !.status = "cancelled"], "publish_cancelled")

PublishCancelled(w) ==
  /\ worker[w].pc = "publish_cancelled"
  /\ Publish(w, "cancelled", "return", "except_row")

\* A worker's local state once an item has been evaluated, or has failed.
Tally(me, outcome) ==
  [me EXCEPT !.pc = "progress",
             !.completed = IF outcome = "completed" THEN @ + 1 ELSE @,
             !.failed = IF outcome = "failed" THEN @ + 1 ELSE @,
             !.results = Append(@, outcome)]

\* One transaction: the counters, and the run unless the item failed.
SaveItem(w, me, outcome) ==
  /\ row' = [row EXCEPT !.completed = me.completed, !.failed = me.failed]
  /\ runs' = IF outcome = "completed" THEN runs \cup {Run(me.try, Len(me.results))} ELSE runs
  /\ late' = IF state = "cancelled" THEN [late EXCEPT ![w] = @ + 1] ELSE late

\* Mutant of Item: a commit that raises is swallowed with the item's own exceptions.
ItemCommitSwallowed(w) ==
  /\ worker[w].pc = "item"
  /\ \E outcome \in {"completed", "failed"} :
       LET me == Tally(worker[w], outcome)
       IN /\ worker' = [worker EXCEPT ![w] = me]
          /\ \/ SaveItem(w, me, outcome) /\ UNCHANGED budget
             \/ DatabaseFault /\ UNCHANGED <<row, runs, late>>
  /\ UNCHANGED <<redis, arq, submitter, client>>

\* Mutant of Item: the counters are committed before the run.
ItemInTwoCommits(w) ==
  /\ worker[w].pc = "item"
  /\ \E outcome \in {"completed", "failed"} :
       LET me == Tally(worker[w], outcome)
       IN \/ /\ SaveItem(w, me, outcome)
             /\ worker' = [worker EXCEPT ![w] = me]
             /\ UNCHANGED budget
          \/ /\ DatabaseFault
             /\ row' = [row EXCEPT !.completed = me.completed, !.failed = me.failed]
             /\ UNCHANGED <<runs, late>>
             /\ Move(w, Leave(w))
  /\ UNCHANGED <<redis, arq, submitter, client>>

Item(w) ==
  /\ worker[w].pc = "item"
  /\ \E outcome \in {"completed", "failed"} :
       LET me == Tally(worker[w], outcome)
       IN \/ /\ SaveItem(w, me, outcome)
             /\ worker' = [worker EXCEPT ![w] = me]
             /\ UNCHANGED budget
          \/ /\ DatabaseFault
             /\ SaveItem(w, me, outcome) \/ UNCHANGED <<row, runs, late>>
             /\ Move(w, Leave(w))
  /\ UNCHANGED <<redis, arq, submitter, client>>

\* Mutant of PublishProgress: the loop runs one item too far.
PublishProgressPastEnd(w) ==
  /\ worker[w].pc = "progress"
  /\ progress' = [completed |-> worker[w].completed, failed |-> worker[w].failed]
  /\ Move(w, IF Len(worker[w].results) > NumItems THEN "complete" ELSE "check")
  /\ UNCHANGED <<database, state, arq, submitter, client, budget, late>>

\* set_job_progress; then the next item, or the end of the loop.
PublishProgress(w) ==
  /\ worker[w].pc = "progress"
  /\ LET counts == [completed |-> worker[w].completed, failed |-> worker[w].failed]
     IN \/ /\ progress' = counts
           /\ Move(w, IF Len(worker[w].results) = NumItems THEN "complete" ELSE "check")
           /\ UNCHANGED budget
        \/ Fault /\ progress' \in {progress, counts} /\ Move(w, "except_row")
  /\ UNCHANGED <<database, state, arq, submitter, client, late>>

\* Mutant of Complete: a commit that raises is swallowed, and the job is announced.
CompleteSwallowed(w) ==
  /\ worker[w].pc = "complete"
  /\ LET done == [row EXCEPT !.status = "completed",
                             !.batch = [try |-> worker[w].try, results |-> worker[w].results]]
     IN \/ row' = done /\ UNCHANGED budget
        \/ DatabaseFault /\ row' \in {row, done}
  /\ Move(w, "publish_completed")
  /\ UNCHANGED <<runs, redis, arq, submitter, client, late>>

Complete(w) ==
  /\ worker[w].pc = "complete"
  /\ CommitRow(w, [row EXCEPT !.status = "completed",
                              !.batch = [try |-> worker[w].try, results |-> worker[w].results]],
               "publish_completed")

PublishCompleted(w) ==
  /\ worker[w].pc = "publish_completed"
  /\ Publish(w, "completed", "return", "except_row")

\* Mutant of FailRow: the handler tells Redis of the failure, and forgets the row.
FailRowForgotten(w) ==
  /\ worker[w].pc = "except_row"
  /\ Move(w, "except_state")
  /\ UNCHANGED <<database, redis, arq, submitter, client, budget, late>>

\* The outer handler marks the row; an exception of its own skips the Redis write.
FailRow(w) ==
  /\ worker[w].pc = "except_row"
  /\ CommitRow(w, [row EXCEPT !.status = "failed"], "except_state")

PublishFailed(w) ==
  /\ worker[w].pc = "except_state"
  /\ Publish(w, "failed", Leave(w), Leave(w))

-----------------------------------------------------------------------------
(***************************************************************************)
(* The environment.                                                        *)
(***************************************************************************)
Crash(w) ==
  /\ worker[w].pc # "idle"
  /\ budget.crashes < MaxCrashes
  /\ budget' = [budget EXCEPT !.crashes = @ + 1]
  /\ worker' = [worker EXCEPT ![w] = Asleep]
  /\ UNCHANGED <<database, redis, arq, submitter, client, late>>

\* The 24 hour TTL, or allkeys-lru under memory pressure.
Evict ==
  /\ budget.evictions < MaxEvictions
  /\ budget' = [budget EXCEPT !.evictions = @ + 1]
  /\ \/ state # None /\ SetJobState(None) /\ UNCHANGED progress
     \/ progress # None /\ progress' = None /\ UNCHANGED <<state, late>>
  /\ UNCHANGED <<database, arq, submitter, client, worker>>

-----------------------------------------------------------------------------
Submit == Create \/ Enqueue \/ PublishQueued

Cancel(c) == ReadRow(c) \/ Overlay(c) \/ CancelGet(c) \/ CancelSet(c) \/ MarkFailed(c)

Process(w) ==
  \/ Load(w) \/ MarkRunning(w) \/ PublishRunning(w)
  \/ CheckCancelled(w) \/ CancelRow(w) \/ PublishCancelled(w)
  \/ Item(w) \/ PublishProgress(w)
  \/ Complete(w) \/ PublishCompleted(w)
  \/ FailRow(w) \/ PublishFailed(w)

Deliver(w) == Pick(w) \/ FinishTask(w) \/ TaskRaised(w)

Next ==
  \/ Submit
  \/ \E c \in Clients : Cancel(c)
  \/ \E c \in Askers : AskGate(c) \/ AnswerGate(c)
  \/ \E w \in Workers : Process(w) \/ Deliver(w) \/ Crash(w)
  \/ GiveUp \/ LockExpires \/ Evict

Spec == Init /\ [][Next]_vars

\* The worker service runs: arq delivers what is queued, a task that is not killed goes
\* on, and the lock of a dead worker expires.  Nothing is assumed of the API requests.
DeadLockExpires == LockExpires /\ worker[arq.lock].pc = "idle"
Fairness == /\ \A w \in Workers : WF_vars(Process(w)) /\ WF_vars(Deliver(w))
            /\ WF_vars(DeadLockExpires)
            /\ WF_vars(GiveUp)
FairSpec == Spec /\ Fairness

-----------------------------------------------------------------------------
(***************************************************************************)
(* Properties.                                                             *)
(***************************************************************************)
\* Once written, batch_results accounts for every item of the batch, and names exactly
\* the runs its attempt committed: an item is reported "completed" iff its run is in the
\* database.  (worker.py collects the list in memory across one transaction per item,
\* with rollbacks, crashes and other attempts in between.)
BatchIsExact ==
  row # None /\ row.batch # None =>
    /\ Len(row.batch.results) = NumItems
    /\ \A i \in Items : row.batch.results[i] = "completed" <=> Run(row.batch.try, i) \in runs

\* Cooperative cancellation: while the flag stands at "cancelled" in Redis, no attempt
\* commits more than the one item it may have in hand.
CancelBound == \A w \in Workers : late[w] <= 1

\* "One transaction per item: persists the new EvaluationRun and the updated job counters
\* atomically": completed_items is the number of runs some one attempt committed.
CountersMatchRuns ==
  row # None => \E t \in 0 .. MaxTries :
                  row.completed = Cardinality({r \in runs : r.try = t})

\* A row that says "completed" is final: it keeps its status and no run is added to the job.
CompletedStays ==
  [][row # None /\ row.status = "completed" => row'.status = "completed" /\ runs' = runs]_vars

\* "Idempotency: skip if already completed or cancelled": as long as no store access has
\* raised and no lock has expired under a running task, redelivery of a completed job, after
\* any crash, changes neither its status nor its runs.
RedeliveryIsIdempotent ==
  [][row # None /\ row.status = "completed" /\ budget'.faults = 0 /\ budget'.overruns = 0
       => row'.status = "completed" /\ runs' = runs]_vars

\* A dispatched job ends, for good, in a terminal status, whatever crashes and exceptions of
\* Redis hit its attempts, as long as they are fewer than the tries.
Settles == arq.queued ~> [](row # None /\ row.status \in Terminal)

\* Redis never runs ahead of the database: while it says "completed", which get_job lays over
\* whatever the row says, the results are in the row, after any exception, crash, redelivery
\* and cancellation.
CompletedMeansPublished == state = "completed" => row # None /\ row.batch # None

\* The quality gate of a completed job speaks of its results.  It answers "fail" without
\* checks only when none of its items completed, or when the request has read the row before
\* the results were committed and Redis after that: asked again it finds them.
GateFailsForCause ==
  [][\A c \in Askers : client[c].pc = "gate" /\ client'[c].pc = "gate_failed" =>
       /\ row.batch # None
       /\ client[c].loaded.batch # None =>
            \A i \in Items : client[c].loaded.batch.results[i] = "failed"]_vars

\* The job keeps the promise of ResultLedger: what the row publishes are the runs one attempt
\* has committed, whichever attempts, redeliveries and rollbacks wrote them.
Published ==
  IF row = None \/ row.batch = None THEN None
  ELSE [try  |-> row.batch.try,
        done |-> {i \in Items : row.batch.results[i] = "completed"}]
Results == INSTANCE ResultLedger WITH Attempts <- 1 .. MaxTries, committed <- runs,
                                      published <- Published
KeepsLedger == Results!Spec

\* A cancel request that was answered with 200 is honoured: the job does not complete
\* after it.
CancelHonoured ==
  [][(\E c \in Clients : client[c].pc = "acked") /\ row.status # "completed"
       => row'.status # "completed"]_vars
=============================================================================
