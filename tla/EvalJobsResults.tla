-------------------------- MODULE EvalJobsResults --------------------------
(***************************************************************************)
(* What the readers of a job are told of its results: Redis never runs     *)
(* ahead of the row, the quality gate fails only for a cause, the job      *)
(* implements ResultLedger, and without cancel requests the counters are   *)
(* the runs and redelivery changes nothing.                                *)
(***************************************************************************)
EXTENDS EvalJobsProofs, FiniteSetTheorems

-----------------------------------------------------------------------------
(***************************************************************************)
(* The writes of the row.  Only Complete touches batch_results, and the    *)
(* insert happens once, before any other write.                            *)
(***************************************************************************)
Born == submitter = "create" => row = None

HasBatch == row \in Rows /\ row.batch # None

\* A step that is not the end of an attempt's loop leaves batch_results alone.
KeepsBatch ==
  \/ row' = row
  \/ row = None /\ row' \in Rows /\ row'.batch = None /\ row'.status = "queued"
  \/ /\ row \in Rows /\ row' \in Rows /\ row'.batch = row.batch
     /\ row'.status \in {row.status, "running", "failed", "cancelled"}

\* The insert of the row.
LEMMA CreateBatch == TInv /\ TInv' /\ Born /\ Create => KeepsBatch /\ Born'
<1> SUFFICES ASSUME TInv, TInv', Born, Create PROVE KeepsBatch /\ Born'
  OBVIOUS
<1> DEFINE created == [status |-> "queued", completed |-> 0, failed |-> 0, batch |-> None]
<1>1. /\ submitter = "create" /\ row = None
      /\ submitter' \in {"enqueue", "error"}
      /\ row' = row \/ row' = created
  BY DEF Create, Born
<1>2. created \in Rows
  BY SizesAssumption DEF Rows, Statuses
<1> QED
  BY <1>1, <1>2 DEF KeepsBatch, Born

\* The worker goes on to publish its progress, or leaves the task.
LEMMA ItemMoves ==
  ASSUME TInv, NEW w \in Workers, Item(w)
  PROVE  /\ worker'[w].pc \in {"progress", "return", "raise"}
         /\ \A v \in Workers \ {w} : worker'[v] = worker[v]
<1>1. /\ worker \in [Workers -> WorkerRecords] /\ worker[w] \in WorkerRecords
      /\ Fits(worker[w]) /\ worker[w].pc = "item"
  BY DEF TInv, TypeOK, Position, Item
<1>2. CASE Move(w, Leave(w))
  BY <1>1, <1>2 DEF Move, Leave, WorkerRecords
<1>3. ASSUME NEW outcome \in {"completed", "failed"},
             worker' = [worker EXCEPT ![w] = Tally(worker[w], outcome)]
      PROVE  /\ worker'[w].pc \in {"progress", "return", "raise"}
             /\ \A v \in Workers \ {w} : worker'[v] = worker[v]
  BY <1>1, <1>3, TallyFits
<1> QED
  BY <1>2, <1>3 DEF Item

\* The other writes of the row, by the workers and by the cancel requests.
LEMMA WriteBatch ==
  ASSUME TInv, TInv', [Next]_vars, ~Create, \A w \in Workers : ~Complete(w)
  PROVE  KeepsBatch
<1>1. ASSUME NEW c \in Clients, MarkFailed(c) PROVE KeepsBatch
  <2>1. row \in Rows /\ row' \in {row, MarkedFailed(client[c].loaded, client[c].seen)}
    BY <1>1 DEF MarkFailed, TInv, RowThere, Requests
  <2>2. CASE row' = MarkedFailed(client[c].loaded, client[c].seen)
    <3>1. /\ MarkedFailed(client[c].loaded, client[c].seen).batch = row.batch
          /\ MarkedFailed(client[c].loaded, client[c].seen).status \in {row.status, "failed"}
      BY <2>1 DEF MarkedFailed, Rows
    <3>2. row' \in Rows
      <4>1. client[c].seen = None \/ client[c].seen \in Counts
        BY DEF TInv, TypeOK, ClientRecords, Requests
      <4> QED
        BY <2>1, <2>2, <4>1 DEF MarkedFailed, Rows, Counts, Statuses
    <3> QED
      BY <2>1, <2>2, <3>1, <3>2 DEF KeepsBatch
  <2> QED
    BY <2>1, <2>2 DEF KeepsBatch
<1>2. ASSUME NEW w \in Workers, Process(w) PROVE KeepsBatch
  <2>1. CASE MarkRunning(w) \/ CancelRow(w) \/ FailRow(w)
    <3>1. row \in Rows
      BY <2>1, RowOfWork DEF MarkRunning, CancelRow, FailRow
    <3>2. \/ row' = row
          \/ \E s \in {row.status, "running", "cancelled", "failed"} :
               row' = [row EXCEPT !.status = s]
      BY <2>1 DEF MarkRunning, CancelRow, FailRow, CommitRow
    <3>3. \A s \in {row.status, "running", "cancelled", "failed"} :
            /\ [row EXCEPT !.status = s] \in Rows
            /\ [row EXCEPT !.status = s].batch = row.batch
            /\ [row EXCEPT !.status = s].status = s
      BY <3>1 DEF Rows, Statuses
    <3> QED
      BY <3>1, <3>2, <3>3 DEF KeepsBatch
  <2>2. CASE Item(w)
    <3>1. row \in Rows /\ worker'[w].pc # "idle"
      <4>1. worker[w].pc = "item"
        BY <2>2 DEF Item
      <4>2. row \in Rows
        BY <4>1, RowOfWork
      <4> QED
        BY <2>2, <4>2, ItemMoves
    <3>2. \/ row' = row
          \/ \E a, b : row' = [row EXCEPT !.completed = a, !.failed = b]
      BY <2>2 DEF Item, SaveItem
    <3>3. row' \in Rows
      BY <3>1 DEF TInv, RowThere
    <3>4. row' = row \/ (row'.batch = row.batch /\ row'.status = row.status)
      BY <3>1, <3>2 DEF Rows
    <3> QED
      BY <3>1, <3>3, <3>4 DEF KeepsBatch
  <2>3. CASE \/ Load(w) \/ PublishRunning(w) \/ CheckCancelled(w) \/ PublishCancelled(w)
             \/ PublishProgress(w) \/ PublishCompleted(w) \/ PublishFailed(w)
    BY <2>3 DEF Load, PublishRunning, CheckCancelled, PublishCancelled, PublishProgress,
                PublishCompleted, PublishFailed, Publish, database, KeepsBatch
  <2> QED
    BY <1>2, <2>1, <2>2, <2>3 DEF Process
<1>3. CASE UNCHANGED row
  BY <1>3 DEF KeepsBatch
<1>4. \/ UNCHANGED row
      \/ \E c \in Clients : MarkFailed(c)
      \/ \E w \in Workers : Process(w)
  <2>1. CASE UNCHANGED vars
    BY <2>1 DEF vars
  <2>2. CASE Submit
    BY <2>2 DEF Submit, Enqueue, PublishQueued, database
  <2>3. ASSUME NEW c \in Clients, Cancel(c) PROVE UNCHANGED row \/ MarkFailed(c)
    BY <2>3 DEF Cancel, ReadRow, Overlay, CancelGet, CancelSet, database
  <2>4. ASSUME NEW c \in Askers, AskGate(c) \/ AnswerGate(c) PROVE UNCHANGED row
    BY <2>4 DEF AskGate, AnswerGate, database
  <2>5. ASSUME NEW w \in Workers, Deliver(w) \/ Crash(w) PROVE UNCHANGED row
    BY <2>5 DEF Deliver, Pick, FinishTask, TaskRaised, Crash, database
  <2>6. CASE GiveUp \/ LockExpires \/ Evict
    BY <2>6 DEF GiveUp, LockExpires, Evict, database
  <2> QED
    BY <2>1, <2>2, <2>3, <2>4, <2>5, <2>6 DEF Next
<1> QED
  BY <1>1, <1>2, <1>3, <1>4

\* The insert comes first.
LEMMA StepBorn == TInv /\ TInv' /\ Born /\ [Next]_vars => Born'
<1> SUFFICES ASSUME TInv, TInv', Born, [Next]_vars, submitter' = "create" PROVE row' = None
  BY DEF Born
<1>1. CASE Submit
  BY <1>1 DEF Submit, Create, Enqueue, PublishQueued
<1>2. CASE ~Submit
  <2>1. submitter = "create" /\ row = None
    <3>1. submitter' = submitter
      BY <1>2 DEF Next, vars, Cancel, ReadRow, Overlay, CancelGet, CancelSet, MarkFailed, AskGate,
         AnswerGate, Process, Load, MarkRunning, PublishRunning, CheckCancelled, CancelRow,
         PublishCancelled, Item, PublishProgress, Complete, PublishCompleted, FailRow,
         PublishFailed, CommitRow, Publish, Deliver, Pick, FinishTask, TaskRaised, Crash,
         GiveUp, LockExpires, Evict
    <3> QED
      BY <3>1 DEF Born
  <2>2. /\ \A w \in Workers : worker[w].pc = "idle"
        /\ ~Create
    BY <1>2, <2>1, RowAssumption DEF TInv, RowThere, Submit
  <2>3. \A w \in Workers : ~Complete(w)
    BY <2>2 DEF Complete
  <2>4. KeepsBatch
    BY <2>2, <2>3, WriteBatch
  <2>5. row' # None => submitter' # "create"
    <3>1. CASE \E c \in Clients : MarkFailed(c)
      BY <2>1, <3>1, RowAssumption DEF MarkFailed, TInv, RowThere, Requests
    <3>2. CASE ~\E c \in Clients : MarkFailed(c)
      <4>1. UNCHANGED row
        BY <1>2, <2>2, <3>2 DEF Next, vars, Cancel, ReadRow, Overlay, CancelGet, CancelSet,
           AskGate, AnswerGate, Process, Load, MarkRunning, PublishRunning, CheckCancelled,
           CancelRow, PublishCancelled, Item, PublishProgress, Complete, PublishCompleted,
           FailRow, PublishFailed, Deliver, Pick, FinishTask, TaskRaised, Crash,
           GiveUp, LockExpires, Evict, database
      <4> QED
        BY <2>1, <4>1
    <3> QED
      BY <3>1, <3>2
  <2> QED
    BY <2>5
<1> QED
  BY <1>1, <1>2
-----------------------------------------------------------------------------
(***************************************************************************)
(* What Redis and the loaded rows say.  Told holds because every one that  *)
(* says "completed" was written after the results: the worker publishes    *)
(* the state after its commit, and nothing takes results out of the row.   *)
(***************************************************************************)
Loaded(job) ==
  /\ job.status = "completed" => job.batch # None
  /\ job.batch # None => HasBatch /\ Len(job.batch.results) = NumItems

Told ==
  /\ Born
  /\ state = "completed" => HasBatch
  /\ \A w \in Workers : worker[w].pc = "publish_completed" => HasBatch
  /\ row \in Rows /\ row.status = "completed" => row.batch # None
  /\ \A c \in Requests : client[c].loaded \in Rows => Loaded(client[c].loaded)
  /\ \A c \in Requests : client[c].pc = "gate" => client[c].loaded \in Rows

\* Results stay in the row once they are there.
LEMMA BatchStays == TInv /\ TInv' /\ Born /\ [Next]_vars => KeepsBatch \/ \E w \in Workers : Complete(w)
  BY CreateBatch, WriteBatch

\* The end of the loop puts results and status into the row together.
LEMMA CompleteWrites ==
  ASSUME TInv, NEW w \in Workers, Complete(w)
  PROVE  /\ worker[w].pc = "complete" /\ Len(worker[w].results) = NumItems
         /\ row \in Rows /\ runs' = runs
         /\ \/ row' = row /\ \E pc \in {"return", "raise"} : Move(w, pc)
            \/ /\ row' \in Rows /\ row'.status = "completed"
               /\ row'.batch = [try |-> worker[w].try, results |-> worker[w].results]
               /\ row'.batch # None
               /\ \E pc \in {"publish_completed", "return", "raise"} : Move(w, pc)
<1> DEFINE me    == worker[w]
           batch == [try |-> me.try, results |-> me.results]
<1>1. /\ me \in WorkerRecords /\ me.pc = "complete" /\ Len(me.results) = NumItems
      /\ me.try \in 1 .. MaxTries
      /\ row \in Rows
  <2>1. me.pc = "complete" /\ me \in WorkerRecords /\ Fits(me)
    BY DEF Complete, TInv, TypeOK, Position
  <2>2. me.try \in 1 .. MaxTries
    BY <2>1, SizesAssumption DEF Fits, WorkerRecords
  <2> QED
    BY <2>1, <2>2, RowOfWork DEF Fits
<1>2. batch \in Batches /\ batch # None
  BY <1>1, BatchAssumption DEF Batches, WorkerRecords
<1>3. /\ runs' = runs
      /\ \/ row' = row /\ \E pc \in {"return", "raise"} : Move(w, pc)
         \/ /\ row' = [row EXCEPT !.status = "completed", !.batch = batch]
            /\ \E pc \in {"publish_completed", "return", "raise"} : Move(w, pc)
  BY DEF Complete, CommitRow, Leave
<1> HIDE DEF batch
<1>4. /\ [row EXCEPT !.status = "completed", !.batch = batch] \in Rows
      /\ [row EXCEPT !.status = "completed", !.batch = batch].status = "completed"
      /\ [row EXCEPT !.status = "completed", !.batch = batch].batch = batch
  BY <1>1, <1>2 DEF Rows, Statuses
<1> QED
  BY <1>1, <1>2, <1>3, <1>4 DEF batch

\* What a request has loaded of the job: a row that was there, counters aside.
Keeps(c) == /\ client'[c].loaded = client[c].loaded
            /\ client'[c].pc = "gate" => client[c].pc = "gate"
            /\ client'[c].pc = "gate_failed" => client[c].pc = "gate_failed"

Reads(c) == /\ row \in Rows /\ row' = row
            /\ client'[c].loaded \in Rows
            /\ client'[c].loaded.status = row.status /\ client'[c].loaded.batch = row.batch
            /\ client'[c].pc # "gate_failed"

Answers(c) == client'[c].loaded = None /\ client'[c].pc # "gate" /\ AnswerGate(c)

\* What any step does to a request: it stays, reads the row, or answers from what it read.
LEMMA LoadedSteps ==
  ASSUME TInv, [Next]_vars, NEW c \in Requests
  PROVE  Keeps(c) \/ Reads(c) \/ Answers(c)
<1> USE DEF TInv, TypeOK
<1>1. ASSUME NEW d \in Clients, Cancel(d) PROVE Keeps(c) \/ Reads(c)
  <2>0. d \in Requests
    BY DEF Requests
  <2>1. CASE ReadRow(d)
    BY <2>0, <2>1 DEF ReadRow, database, Keeps, Reads
  <2>2. CASE Overlay(d)
    BY <2>0, <2>2 DEF Overlay, ClientRecords, Keeps
  <2>3. CASE CancelGet(d) \/ CancelSet(d) \/ MarkFailed(d)
    BY <2>0, <2>3 DEF CancelGet, CancelSet, MarkFailed, ClientGoes, ClientRecords, Keeps
  <2> QED
    BY <1>1, <2>1, <2>2, <2>3 DEF Cancel
<1>2. ASSUME NEW d \in Askers, AskGate(d) PROVE Keeps(c) \/ Reads(c)
  <2> DEFINE loaded == [row EXCEPT !.completed = 0, !.failed = 0]
  <2>1. row \in Rows /\ loaded.status = row.status /\ loaded.batch = row.batch
    BY <1>2 DEF AskGate, Rows
  <2>2. loaded \in Rows
    <3>1. 0 \in 0 .. NumItems
      BY SizesAssumption
    <3> QED
      BY <2>1, <3>1 DEF Rows
  <2>3. row' = row /\ client' = [client EXCEPT ![d] = [pc |-> "gate", loaded |-> loaded, seen |-> None]]
    BY <1>2 DEF AskGate, database
  <2> HIDE DEF loaded
  <2> QED
    BY <2>1, <2>2, <2>3 DEF Keeps, Reads
<1>3. ASSUME NEW d \in Askers, AnswerGate(d) PROVE Keeps(c) \/ Answers(c)
  <2>1. PICK pc \in {"idle", "gate_failed"} :
          client' = [client EXCEPT ![d] = [pc |-> pc, loaded |-> None, seen |-> None]]
    BY <1>3 DEF AnswerGate
  <2> QED
    BY <1>3, <2>1 DEF Keeps, Answers
<1>4. CASE UNCHANGED client
  BY <1>4 DEF Keeps
<1>5. \/ UNCHANGED client
      \/ \E d \in Clients : Cancel(d)
      \/ \E d \in Askers : AskGate(d) \/ AnswerGate(d)
  BY DEF Next, vars, Submit, Create, Enqueue, PublishQueued, Process, Load, MarkRunning,
     PublishRunning, CheckCancelled, CancelRow, PublishCancelled, Item, PublishProgress, Complete,
     PublishCompleted, FailRow, PublishFailed, CommitRow, Publish, Deliver, Pick, FinishTask,
     TaskRaised, Crash, GiveUp, LockExpires, Evict
<1> QED
  BY <1>1, <1>2, <1>3, <1>4, <1>5

\* Who says "completed" after a step: someone who said so before, or a worker that has
\* committed the results.
LEMMA Announcements ==
  ASSUME TInv, [Next]_vars
  PROVE  /\ state' = "completed" =>
              state = "completed" \/ \E w \in Workers : worker[w].pc = "publish_completed"
         /\ \A w \in Workers : worker'[w].pc = "publish_completed" =>
              worker[w].pc = "publish_completed" \/ Complete(w)
<1> USE DEF TInv, TypeOK
<1>1. state' = "completed" =>
        state = "completed" \/ \E w \in Workers : worker[w].pc = "publish_completed"
  <2>1. ASSUME NEW s \in (Statuses \cup {None}) \ {"completed"}, SetJobState(s) \/ TornSetJobState(s)
        PROVE  state' = "completed" => state = "completed"
    BY <2>1 DEF SetJobState, TornSetJobState
  <2>2. CASE Submit
    BY <2>1, <2>2 DEF Submit, Create, Enqueue, PublishQueued, redis, Statuses
  <2>3. ASSUME NEW c \in Clients, Cancel(c) PROVE state' = "completed" => state = "completed"
    BY <2>1, <2>3 DEF Cancel, ReadRow, Overlay, CancelGet, CancelSet, MarkFailed, redis, Statuses
  <2>4. ASSUME NEW w \in Workers, Process(w), ~PublishCompleted(w)
        PROVE  state' = "completed" => state = "completed"
    <3>1. \/ UNCHANGED state
          \/ PublishRunning(w) \/ PublishCancelled(w) \/ PublishFailed(w)
      BY <2>4 DEF Process, Load, MarkRunning, CheckCancelled, CancelRow, Item, PublishProgress,
                  Complete, FailRow, CommitRow, redis
    <3> QED
      BY <2>1, <3>1 DEF PublishRunning, PublishCancelled, PublishFailed, Publish, Statuses
  <2>5. CASE \E w \in Workers : PublishCompleted(w)
    BY <2>5 DEF PublishCompleted
  <2>6. CASE Evict
    BY <2>1, <2>6, StateAssumption DEF Evict, Statuses
  <2>7. CASE UNCHANGED state
    BY <2>7
  <2> QED
    BY <2>2, <2>3, <2>4, <2>5, <2>6, <2>7 DEF Next, vars, redis, AskGate, AnswerGate, Deliver,
       Pick, FinishTask, TaskRaised, Crash, GiveUp, LockExpires
<1>2. ASSUME NEW w \in Workers, NEW v \in Workers, Process(v),
             worker'[w].pc = "publish_completed"
      PROVE  worker[w].pc = "publish_completed" \/ Complete(w)
  <2>1. CASE Item(v)
    BY <1>2, <2>1, ItemMoves
  <2>2. CASE Load(v)
    BY <1>2, <2>2 DEF Load, Move, Leave, WorkerRecords
  <2>3. CASE Complete(v)
    BY <1>2, <2>3 DEF Complete, CommitRow, Move, Leave, WorkerRecords
  <2>4. CASE \/ MarkRunning(v) \/ PublishRunning(v) \/ CheckCancelled(v) \/ CancelRow(v)
             \/ PublishCancelled(v) \/ PublishProgress(v) \/ PublishCompleted(v) \/ FailRow(v)
             \/ PublishFailed(v)
    <3>1. \E pc \in WorkerPcs \ {"publish_completed"} : Move(v, pc)
      BY <2>4 DEF MarkRunning, PublishRunning, CheckCancelled, CancelRow, PublishCancelled,
         PublishProgress, PublishCompleted, FailRow, PublishFailed, CommitRow, Publish, Leave,
         WorkerPcs
    <3> QED
      BY <1>2, <3>1 DEF Move, WorkerRecords
  <2> QED
    BY <1>2, <2>1, <2>2, <2>3, <2>4 DEF Process
<1>3. ASSUME NEW w \in Workers, NEW v \in Workers, Deliver(v) \/ Crash(v),
             worker'[w].pc = "publish_completed"
      PROVE  worker[w].pc = "publish_completed"
  BY <1>3 DEF Deliver, Pick, FinishTask, TaskRaised, Crash, Asleep, Blank
<1>4. UNCHANGED worker \/ \E v \in Workers : Process(v) \/ Deliver(v) \/ Crash(v)
  BY DEF Next, vars, Submit, Create, Enqueue, PublishQueued, Cancel, ReadRow, Overlay,
     CancelGet, CancelSet, MarkFailed, AskGate, AnswerGate, GiveUp, LockExpires, Evict
<1> QED
  BY <1>1, <1>2, <1>3, <1>4

\* Told is inductive, next to what is known of the row's own results.
LEMMA StepTold == LInv /\ LInv' /\ Told /\ [Next]_vars => Told'
<1> SUFFICES ASSUME LInv, LInv', Told, [Next]_vars PROVE Told'
  OBVIOUS
<1> USE DEF LInv
<1>1. Born'
  BY StepBorn DEF Told
<1>2. HasBatch => HasBatch'
  <2>1. ASSUME NEW w \in Workers, Complete(w) PROVE HasBatch => HasBatch'
    BY <2>1, CompleteWrites DEF HasBatch
  <2>2. KeepsBatch /\ HasBatch => HasBatch'
    BY RowAssumption DEF KeepsBatch, HasBatch
  <2> QED
    BY <2>1, <2>2, BatchStays DEF Told
<1>3. \A w \in Workers : worker'[w].pc = "publish_completed" => HasBatch'
  <2>1. ASSUME NEW w \in Workers, Complete(w), worker'[w].pc = "publish_completed"
        PROVE  HasBatch'
    <3>1. worker[w] \in WorkerRecords /\ worker \in [Workers -> WorkerRecords]
      BY DEF TInv, TypeOK
    <3>2. ASSUME NEW pc \in {"return", "raise"}, Move(w, pc) PROVE FALSE
      BY <2>1, <3>1, <3>2 DEF Move, WorkerRecords
    <3> QED
      BY <2>1, <3>2, CompleteWrites DEF HasBatch
  <2> QED
    BY <1>2, <2>1, Announcements DEF Told
<1>4. state' = "completed" => HasBatch'
  BY <1>2, Announcements DEF Told
<1>5. row' \in Rows /\ row'.status = "completed" => row'.batch # None
  <2>1. ASSUME NEW w \in Workers, Complete(w), row' \in Rows, row'.status = "completed"
        PROVE  row'.batch # None
    BY <2>1, CompleteWrites DEF Told
  <2>2. KeepsBatch /\ row' \in Rows /\ row'.status = "completed" => row'.batch # None
    BY RowAssumption DEF KeepsBatch, Told
  <2> QED
    BY <2>1, <2>2, BatchStays DEF Told
<1>6. ASSUME NEW c \in Requests, client'[c].loaded \in Rows
      PROVE  Loaded(client[c].loaded)'
  <2>1. CASE Keeps(c)
    BY <1>2, <1>6, <2>1 DEF Told, Loaded, Keeps
  <2>2. CASE Answers(c)
    BY <1>6, <2>2, RowAssumption DEF Answers
  <2>3. CASE Reads(c)
    BY <2>3, RowAssumption DEF Told, Loaded, HasBatch, BatchIsExact, Reads
  <2> QED
    BY <2>1, <2>2, <2>3, LoadedSteps
<1>7. ASSUME NEW c \in Requests, client'[c].pc = "gate" PROVE client'[c].loaded \in Rows
  BY <1>7, LoadedSteps DEF Told, Keeps, Reads, Answers
<1> QED
  BY <1>1, <1>3, <1>4, <1>5, <1>6, <1>7 DEF Told

\* The initial state: nobody has said anything.
LEMMA InitTold == Init => LInv /\ Told
<1> SUFFICES ASSUME Init PROVE LInv /\ Told
  OBVIOUS
<1>1. Numbers /\ Ledger /\ Sealed /\ BatchIsExact
  BY RowAssumption DEF Init, Numbers, Ledger, Sealed, BatchIsExact, Asleep, Blank, Attempting
<1>2. Told
  BY RowAssumption, StateAssumption DEF Init, Told, Born, Asleep, Blank, Statuses
<1> QED
  BY <1>1, <1>2, InitTypes DEF LInv

\* Whatever is interrupted, repeated or cancelled: once Redis calls the job completed, which
\* is what every reader is told, its results are in the database.
THEOREM CompletedIsPublished == Spec => []CompletedMeansPublished
<1>1. LInv /\ Told /\ [Next]_vars => (LInv /\ Told)'
  <2>1. LInv /\ [Next]_vars => LInv'
    BY StepTypes, StepKeeps DEF LInv
  <2> QED
    BY <2>1, StepTold
<1>2. Told => CompletedMeansPublished
  BY RowAssumption DEF Told, HasBatch, CompletedMeansPublished
<1> QED
  BY <1>1, <1>2, InitTold, PTL DEF Spec

\* A request that is told "completed" and finds nothing to check: its row has no completed
\* item, or is older than the results.
LEMMA StepGate ==
  ASSUME LInv, Told, [Next]_vars, NEW c \in Askers,
         client[c].pc = "gate", client'[c].pc = "gate_failed"
  PROVE  /\ row.batch # None
         /\ client[c].loaded.batch # None =>
              \A i \in Items : client[c].loaded.batch.results[i] = "failed"
<1> DEFINE job == client[c].loaded
<1>1. /\ AnswerGate(c)
      /\ job \in Rows /\ Loaded(job)
  <2>1. c \in Requests
    BY DEF Requests
  <2> QED
    BY <2>1, LoadedSteps DEF Keeps, Reads, Answers, LInv, Told
<1>2. /\ state = "completed" \/ job.status = "completed"
      /\ job.batch # None =>
           \A i \in DOMAIN job.batch.results : job.batch.results[i] # "completed"
  <2>1. client \in [Requests -> ClientRecords] /\ c \in Requests
    BY DEF LInv, TInv, TypeOK, Requests
  <2> HIDE DEF job
  <2> QED
    BY <1>1, <2>1 DEF AnswerGate, job
<1>3. row.batch # None
  BY <1>1, <1>2 DEF Told, Loaded, HasBatch
<1>4. ASSUME job.batch # None, NEW i \in Items PROVE job.batch.results[i] = "failed"
  <2>1. /\ job.batch.results \in Seq({"completed", "failed"})
        /\ Len(job.batch.results) = NumItems
    BY <1>1, <1>4 DEF Rows, Batches, Loaded
  <2> QED
    BY <1>2, <1>4, <2>1 DEF Items
<1> QED
  BY <1>3, <1>4

\* The quality gate answers "fail" without checks only when no item completed, or when the
\* request has read the row before the results that are there by now.
THEOREM GateIsExplained == Spec => GateFailsForCause
<1>1. LInv /\ Told /\ [Next]_vars => (LInv /\ Told)'
  <2>1. LInv /\ [Next]_vars => LInv'
    BY StepTypes, StepKeeps DEF LInv
  <2> QED
    BY <2>1, StepTold
<1>2. LInv /\ Told /\ [Next]_vars =>
        [\A c \in Askers : client[c].pc = "gate" /\ client'[c].pc = "gate_failed" =>
           /\ row.batch # None
           /\ client[c].loaded.batch # None =>
                \A i \in Items : client[c].loaded.batch.results[i] = "failed"]_vars
  BY StepGate
<1> QED
  BY <1>1, <1>2, InitTold, PTL DEF Spec, GateFailsForCause

-----------------------------------------------------------------------------
(***************************************************************************)
(* The job implements ResultLedger: Item commits or stutters, Complete     *)
(* publishes or stutters, every other step stutters.  The order of the     *)
(* items comes from Ledger, the right of an attempt to write from Sealed,  *)
(* and what is published from BatchIsExact.                                *)
(***************************************************************************)
\* A step that leaves the batch results of the row leaves what is published.
LEMMA KeepsPublished == TInv /\ KeepsBatch => Published' = Published
  BY RowAssumption DEF KeepsBatch, Published

\* An attempt under way may still write.
LEMMA AttemptIsOpen ==
  ASSUME LInv, NEW w \in Workers, worker[w].pc \in Attempting
  PROVE  Results!Open(worker[w].try)
  BY DEF LInv, TInv, TypeOK, Sealed, Results!Open, Published

\* An item's transaction adds the run of its attempt and item, or none.
LEMMA ItemCommits ==
  ASSUME LInv, NEW w \in Workers, Item(w)
  PROVE  runs' = runs \/ \E i \in Items : /\ worker[w].try \in 1 .. MaxTries
                                          /\ i = Len(worker[w].results) + 1
                                          /\ runs' = runs \cup {Run(worker[w].try, i)}
<1> DEFINE me == worker[w]
<1>1. me \in WorkerRecords /\ Fits(me) /\ me.pc = "item"
  BY DEF Item, LInv, TInv, TypeOK, Position
<1>2. PICK outcome \in {"completed", "failed"} :
        runs' = runs \/ SaveItem(w, Tally(me, outcome), outcome)
  BY DEF Item
<1> DEFINE next == Tally(me, outcome)
<1>3. /\ next.try = me.try /\ next.try \in 1 .. MaxTries
      /\ Len(next.results) = Len(me.results) + 1 /\ Len(next.results) \in Items
  BY <1>1, TallyFits
<1> HIDE DEF next
<1> QED
  BY <1>2, <1>3 DEF SaveItem, next

\* The run an attempt adds is the last of its own.
LEMMA RunIsLast ==
  ASSUME LInv, NEW w \in Workers, worker[w].pc = "item", NEW r \in runs, r.try = worker[w].try
  PROVE  r.item < Len(worker[w].results) + 1
<1>1. Ledgered(worker[w], runs)
  BY DEF LInv, Ledger, Attempting
<1>2. r.item \in Items /\ r = Run(r.try, r.item)
  BY DEF LInv, TInv, TypeOK, Run
<1>3. Len(worker[w].results) \in Nat
  BY DEF LInv, TInv, TypeOK, WorkerRecords
<1>4. r.item <= Len(worker[w].results)
  BY <1>1, <1>2 DEF Ledgered
<1> QED
  BY <1>2, <1>3, <1>4 DEF Items

\* Every step of the job is a step of its promise, or a stutter.
LEMMA StepLedger ==
  LInv /\ LInv' /\ Born /\ [Next]_vars => [Results!Next]_<<runs, Published>>
<1> SUFFICES ASSUME LInv, LInv', Born, [Next]_vars, ~UNCHANGED <<runs, Published>>
             PROVE  Results!Next
  OBVIOUS
<1> USE DEF LInv
<1>1. ASSUME NEW w \in Workers, Complete(w) PROVE Results!Next
  <2> DEFINE t == worker[w].try
             batch == [try |-> t, results |-> worker[w].results]
  <2>1. /\ runs' = runs
        /\ worker[w].pc = "complete"
        /\ row' = row \/ (row' \in Rows /\ row'.batch = batch /\ row'.batch # None)
    BY <1>1, CompleteWrites
  <2>2. t \in 1 .. MaxTries
    BY <2>1, SizesAssumption DEF TInv, TypeOK, Position, Fits, WorkerRecords
  <2>3. row' \in Rows /\ row'.batch = batch /\ row'.batch # None
    BY <2>1 DEF Published
  <2>4. Published' = [try |-> t, done |-> {i \in Items : batch.results[i] = "completed"}]
    BY <2>3, RowAssumption DEF Published
  <2>5. \A i \in Items : batch.results[i] = "completed" <=> Run(t, i) \in runs
    BY <2>1, <2>3, RowAssumption DEF BatchIsExact
  <2>6. Published' = [try |-> t, done |-> {i \in Items : [try |-> t, item |-> i] \in runs}]
    <3> HIDE DEF t, batch
    <3> QED
      BY <2>4, <2>5 DEF Run
  <2>7. Results!Publish(t)
    <3>1. Results!Open(t)
      BY <2>1, AttemptIsOpen DEF Attempting
    <3> HIDE DEF t
    <3> QED
      BY <2>1, <2>6, <3>1 DEF Results!Publish
  <2> QED
    BY <2>2, <2>7 DEF Results!Next
<1>2. CASE \A w \in Workers : ~Complete(w)
  <2>1. Published' = Published
    BY <1>2, CreateBatch, WriteBatch, KeepsPublished
  <2>2. ASSUME NEW w \in Workers, Item(w) PROVE Results!Next
    <3>1. PICK i \in Items : /\ worker[w].try \in 1 .. MaxTries
                             /\ i = Len(worker[w].results) + 1
                             /\ runs' = runs \cup {Run(worker[w].try, i)}
      BY <2>1, <2>2, ItemCommits
    <3>2. worker[w].pc = "item"
      BY <2>2 DEF Item
    <3>3. Results!Open(worker[w].try)
      BY <3>2, AttemptIsOpen DEF Attempting
    <3>4. \A r \in runs : r.try = worker[w].try => r.item < i
      BY <3>1, <3>2, RunIsLast
    <3>5. Results!Commit(worker[w].try, i)
      BY <2>1, <3>1, <3>3, <3>4 DEF Results!Commit, Run
    <3> QED
      BY <3>1, <3>5 DEF Results!Next
  <2>3. \E w \in Workers : Item(w)
    <3>1. runs' = runs \/ \E w \in Workers : Item(w)
      BY DEF Next, vars, database, Submit, Create, Enqueue, PublishQueued, Cancel, ReadRow, Overlay,
         CancelGet, CancelSet, MarkFailed, AskGate, AnswerGate, Process, Load, MarkRunning,
         PublishRunning, CheckCancelled, CancelRow, PublishCancelled, PublishProgress, Complete,
         PublishCompleted, FailRow, PublishFailed, CommitRow, Publish, Deliver, Pick, FinishTask,
         TaskRaised, Crash, GiveUp, LockExpires, Evict
    <3> QED
      BY <2>1, <3>1
  <2> QED
    BY <2>2, <2>3
<1> QED
  BY <1>1, <1>2

\* Seen through its runs and its published results, the job is a ledger: an attempt commits
\* in the order of the items, what is published is what it committed, and it then stops.
THEOREM KeepsResultLedger == Spec => KeepsLedger
<1>1. Init => Results!Init
  BY DEF Init, Results!Init, Published
<1>2. LInv /\ Told /\ [Next]_vars => (LInv /\ Told)'
  <2>1. LInv /\ [Next]_vars => LInv'
    BY StepTypes, StepKeeps DEF LInv
  <2> QED
    BY <2>1, StepTold
<1>3. (LInv /\ Told) /\ (LInv /\ Told)' /\ [Next]_vars => [Results!Next]_<<runs, Published>>
  BY StepLedger DEF Told
<1> QED
  BY <1>1, <1>2, <1>3, InitTold, PTL DEF Spec, KeepsLedger, Results!Spec

-----------------------------------------------------------------------------
(***************************************************************************)
(* What holds of a job that nobody cancels.  A cancel request writes the   *)
(* row from what it has loaded, so neither theorem below is true with one: *)
(* the counters it writes may be stale, and a completed row may become     *)
(* "failed".                                                               *)
(*                                                                         *)
(* The counters.  A worker counts in memory, across one transaction per    *)
(* item: what makes its count the number of its runs is that the two grow  *)
(* in one transaction, and that nobody else has its attempt's number.      *)
(***************************************************************************)
RunsOf(t) == {r \in runs : r.try = t}

Counted ==
  \A w \in Workers : worker[w].pc \in Attempting =>
    worker[w].completed = Cardinality(RunsOf(worker[w].try))

KInv == LInv /\ Born /\ IsFiniteSet(runs) /\ Counted /\ CountersMatchRuns

\* A worker whose count this step leaves alone.
Still(v) ==
  worker'[v].pc \in Attempting =>
    /\ worker[v].pc \in Attempting
    /\ worker'[v].try = worker[v].try /\ worker'[v].completed = worker[v].completed

KeepsCount ==
  /\ runs' = runs
  /\ row' = row \/ (row \in Rows /\ row' \in Rows /\ row'.completed = row.completed)

\* A step that writes neither runs nor counters keeps both invariants.
LEMMA StillKeeps ==
  ASSUME KInv, KeepsCount, \A v \in Workers : Still(v)
  PROVE  IsFiniteSet(runs') /\ Counted' /\ CountersMatchRuns'
<1>1. IsFiniteSet(runs')
  BY DEF KInv, KeepsCount
<1>2. Counted'
  <2>1. ASSUME NEW v \in Workers, worker'[v].pc \in Attempting
        PROVE  worker'[v].completed = Cardinality({r \in runs' : r.try = worker'[v].try})
    BY <2>1 DEF Still, KInv, KeepsCount, Counted, RunsOf
  <2> QED
    BY <2>1 DEF Counted, RunsOf
<1>3. CountersMatchRuns'
  <2>1. SUFFICES ASSUME row' # None
                 PROVE  \E t \in 0 .. MaxTries :
                          row'.completed = Cardinality({r \in runs : r.try = t})
    BY DEF CountersMatchRuns, KeepsCount
  <2>2. row # None /\ row'.completed = row.completed
    BY <2>1, RowAssumption DEF KeepsCount
  <2> QED
    BY <2>2 DEF KInv, CountersMatchRuns
<1> QED
  BY <1>1, <1>2, <1>3

\* A worker that only changes place is still, unless it enters an attempt.
LEMMA MoveStill ==
  ASSUME TInv, NEW w \in Workers, NEW pc \in WorkerPcs, Move(w, pc),
         pc \in Attempting => worker[w].pc \in Attempting
  PROVE  \A v \in Workers : Still(v)
<1>1. /\ worker'[w] = [worker[w] EXCEPT !.pc = pc]
      /\ \A v \in Workers \ {w} : worker'[v] = worker[v]
      /\ worker[w] \in WorkerRecords
  BY MoveTypes DEF TInv, TypeOK
<1>2. /\ worker'[w].pc = pc /\ worker'[w].try = worker[w].try
      /\ worker'[w].completed = worker[w].completed
  BY <1>1 DEF WorkerRecords
<1> QED
  BY <1>1, <1>2 DEF Still

\* The insert: no attempt, no run, and a counter at zero.
LEMMA CreateCounts ==
  ASSUME KInv, Create PROVE IsFiniteSet(runs') /\ Counted' /\ CountersMatchRuns'
<1>1. /\ runs' = runs /\ worker' = worker
      /\ row' = row \/ row'.completed = 0
  BY DEF Create
<1>2. CASE row' = row
  BY <1>1, <1>2, StillKeeps DEF KeepsCount, Still
<1>3. CASE row'.completed = 0
  <2>1. RunsOf(0) = {}
    BY SizesAssumption DEF KInv, LInv, TInv, TypeOK, RunsOf
  <2>2. 0 \in 0 .. MaxTries /\ Cardinality(RunsOf(0)) = 0
    BY <2>1, SizesAssumption, FS_EmptySet
  <2>3. CountersMatchRuns'
    BY <1>1, <1>3, <2>2 DEF CountersMatchRuns, RunsOf
  <2>4. Counted'
    BY <1>1 DEF KInv, Counted, RunsOf
  <2> QED
    BY <1>1, <2>3, <2>4 DEF KInv
<1> QED
  BY <1>1, <1>2, <1>3

\* A new attempt has counted nothing and has no run.
LEMMA PickCounts ==
  ASSUME KInv, NEW w \in Workers, Pick(w)
  PROVE  IsFiniteSet(runs') /\ Counted' /\ CountersMatchRuns'
<1> DEFINE t == arq.tries + 1
<1>1. /\ UNCHANGED <<row, runs>>
      /\ arq.tries \in Nat
      /\ worker'[w] = Blank("load", t)
      /\ \A v \in Workers \ {w} : worker'[v] = worker[v]
  BY DEF Pick, database, KInv, LInv, TInv, TypeOK, ArqRecords
<1>2. worker'[w].try = t /\ worker'[w].completed = 0
  BY <1>1 DEF Blank
<1>3. \A r \in runs : r.try \in Nat /\ r.try < t
  BY <1>1, SizesAssumption DEF KInv, LInv, Numbers, TInv, TypeOK
<1>4. RunsOf(t) = {} /\ Cardinality(RunsOf(t)) = 0
  <2>1. RunsOf(t) = {}
    BY <1>1, <1>3 DEF RunsOf
  <2> QED
    BY <2>1, FS_EmptySet
<1>5. Counted'
  <2>1. ASSUME NEW v \in Workers, worker'[v].pc \in Attempting
        PROVE  worker'[v].completed = Cardinality({r \in runs' : r.try = worker'[v].try})
    <3>1. CASE v = w
      BY <1>1, <1>2, <1>4, <3>1 DEF RunsOf
    <3>2. CASE v # w
      BY <1>1, <2>1, <3>2 DEF KInv, Counted, RunsOf
    <3> QED
      BY <3>1, <3>2
  <2> QED
    BY <2>1 DEF Counted, RunsOf
<1>6. CountersMatchRuns'
  BY <1>1 DEF KInv, CountersMatchRuns
<1> QED
  BY <1>1, <1>5, <1>6 DEF KInv

\* One item more: the counter of the row, the count of the worker and the runs of its attempt
\* stay equal, whatever other attempts have committed.
LEMMA ItemCounts ==
  ASSUME KInv, NEW w \in Workers, Item(w)
  PROVE  IsFiniteSet(runs') /\ Counted' /\ CountersMatchRuns'
<1> DEFINE me == worker[w]
<1>1. /\ me \in WorkerRecords /\ Fits(me) /\ me.pc = "item"
      /\ me.try \in 1 .. MaxTries /\ MaxTries \in Nat
      /\ me.completed \in Nat
      /\ me.completed = Cardinality(RunsOf(me.try))
      /\ row \in Rows
      /\ worker \in [Workers -> WorkerRecords]
  <2>1. me.pc = "item"
    BY DEF Item
  <2>2. me \in WorkerRecords /\ Fits(me) /\ worker \in [Workers -> WorkerRecords]
    BY DEF KInv, LInv, TInv, TypeOK, Position
  <2>3. me.try \in 1 .. MaxTries /\ MaxTries \in Nat /\ me.completed \in Nat
    BY <2>1, <2>2, SizesAssumption DEF Fits, WorkerRecords
  <2>4. me.completed = Cardinality(RunsOf(me.try))
    BY <2>1 DEF KInv, Counted, Attempting
  <2> QED
    BY <2>1, <2>2, <2>3, <2>4, RowOfWork DEF KInv, LInv
<1>2. PICK outcome \in {"completed", "failed"} :
        LET next == Tally(me, outcome)
        IN \/ SaveItem(w, next, outcome)
              /\ (worker' = [worker EXCEPT ![w] = next] \/ Move(w, Leave(w)))
           \/ UNCHANGED <<row, runs, late>> /\ Move(w, Leave(w))
  BY DEF Item
<1> DEFINE next == Tally(me, outcome)
           new  == Run(me.try, Len(next.results))
<1>3. /\ next.pc = "progress" /\ next.try = me.try
      /\ Len(next.results) \in Items
      /\ Len(next.results) = Len(me.results) + 1
      /\ next.completed = IF outcome = "completed" THEN me.completed + 1 ELSE me.completed
  <2>1. next.completed = IF outcome = "completed" THEN me.completed + 1 ELSE me.completed
    BY <1>1 DEF Tally, WorkerRecords
  <2> QED
    BY <1>1, <2>1, TallyFits
<1>4. CASE UNCHANGED <<row, runs, late>> /\ Move(w, Leave(w))
  BY <1>1, <1>4, MoveStill, StillKeeps DEF KeepsCount, Leave, WorkerPcs, Attempting, KInv, LInv
<1>5. CASE /\ SaveItem(w, next, outcome)
           /\ worker' = [worker EXCEPT ![w] = next] \/ Move(w, Leave(w))
  <2>1. /\ worker'[w].pc \in Attempting => worker'[w] = next
        /\ \A v \in Workers \ {w} : worker'[v] = worker[v]
    <3>1. CASE worker' = [worker EXCEPT ![w] = next]
      BY <1>1, <3>1
    <3>2. CASE Move(w, Leave(w))
      BY <1>1, <3>2 DEF Move, Leave, WorkerRecords, Attempting
    <3> QED
      BY <1>5, <3>1, <3>2
  <2>2. /\ runs' = IF outcome = "completed" THEN runs \cup {new} ELSE runs
        /\ new.try = me.try
    BY <1>3, <1>5 DEF SaveItem, Run
  <2>3. row'.completed = next.completed
    <3>1. row' = [row EXCEPT !.completed = next.completed, !.failed = next.failed]
      BY <1>5 DEF SaveItem
    <3> HIDE DEF next
    <3> QED
      BY <1>1, <3>1 DEF Rows
  <2>4. IsFiniteSet(runs')
    <3>1. IsFiniteSet(runs)
      BY DEF KInv
    <3> HIDE DEF new
    <3> QED
      BY <2>2, <3>1, FS_AddElement
  <2>5. next.completed = Cardinality({r \in runs' : r.try = me.try})
    <3>1. CASE outcome = "failed"
      BY <1>1, <1>3, <2>2, <3>1 DEF RunsOf
    <3>2. CASE outcome = "completed"
      <4>1. new \notin runs
        <5>1. Ledgered(me, runs)
          BY <1>1 DEF KInv, LInv, Ledger, Attempting
        <5>2. ~(Len(next.results) <= Len(me.results))
          BY <1>1, <1>3 DEF WorkerRecords
        <5> QED
          BY <1>3, <5>1, <5>2 DEF Ledgered
      <4>2. IsFiniteSet(RunsOf(me.try))
        <5>1. RunsOf(me.try) \subseteq runs /\ IsFiniteSet(runs)
          BY DEF RunsOf, KInv
        <5> QED
          BY <5>1, FS_Subset
      <4>3. /\ {r \in runs' : r.try = me.try} = RunsOf(me.try) \cup {new}
            /\ new \notin RunsOf(me.try)
        <5> HIDE DEF new
        <5> QED
          BY <2>2, <3>2, <4>1 DEF RunsOf
      <4>4. Cardinality(RunsOf(me.try) \cup {new}) = Cardinality(RunsOf(me.try)) + 1
        <5> HIDE DEF new, me
        <5> QED
          BY <4>2, <4>3, FS_AddElement
      <4>5. next.completed = me.completed + 1
        BY <1>3, <3>2
      <4> HIDE DEF new, me, next
      <4> QED
        BY <1>1, <4>3, <4>4, <4>5
    <3> QED
      BY <3>1, <3>2
  <2>6. Counted'
    <3>1. ASSUME NEW v \in Workers, worker'[v].pc \in Attempting
          PROVE  worker'[v].completed = Cardinality({r \in runs' : r.try = worker'[v].try})
      <4>1. CASE v = w
        BY <1>3, <2>1, <2>5, <3>1, <4>1
      <4>2. CASE v # w
        <5>1. worker'[v] = worker[v] /\ worker[v].try # me.try
          BY <1>1, <2>1, <3>1, <4>2 DEF KInv, LInv, Numbers, Attempting
        <5>2. {r \in runs' : r.try = worker[v].try} = RunsOf(worker[v].try)
          <6> HIDE DEF new
          <6> QED
            BY <2>2, <5>1 DEF RunsOf
        <5> QED
          BY <3>1, <5>1, <5>2 DEF KInv, Counted
      <4> QED
        BY <4>1, <4>2
    <3> QED
      BY <3>1 DEF Counted, RunsOf
  <2>7. CountersMatchRuns'
    <3>1. me.try \in 0 .. MaxTries
      BY <1>1
    <3> QED
      BY <2>3, <2>5, <3>1 DEF CountersMatchRuns
  <2> QED
    BY <2>4, <2>6, <2>7
<1> QED
  BY <1>2, <1>4, <1>5

\* The other accesses of a worker to the stores.
LEMMA ProcessCounts ==
  ASSUME KInv, TInv', NEW w \in Workers, Process(w)
  PROVE  IsFiniteSet(runs') /\ Counted' /\ CountersMatchRuns'
<1> USE DEF KInv, LInv
<1>1. ASSUME KeepsCount,
             \E pc \in WorkerPcs : /\ Move(w, pc)
                                   /\ pc \in Attempting => worker[w].pc \in Attempting
      PROVE  IsFiniteSet(runs') /\ Counted' /\ CountersMatchRuns'
  BY <1>1, MoveStill, StillKeeps
<1>2. CASE Load(w)
  <2>1. KeepsCount /\ worker[w].pc = "load"
    BY <1>2 DEF Load, database, KeepsCount
  <2>2. CASE \E pc \in {"return", "raise", "except_row"} : Move(w, pc)
    BY <1>1, <2>1, <2>2 DEF WorkerPcs, Attempting
  <2>3. CASE worker' = [worker EXCEPT ![w].pc = "mark_running", ![w].loaded = row.status]
    <3>1. \A v \in Workers : Still(v)
      BY <2>1, <2>3 DEF TInv, TypeOK, WorkerRecords, Still, Attempting
    <3> QED
      BY <2>1, <3>1, StillKeeps
  <2> QED
    BY <1>2, <2>2, <2>3 DEF Load, Leave
<1>3. CASE MarkRunning(w) \/ CancelRow(w) \/ FailRow(w)
  <2>1. /\ worker[w].pc \in {"mark_running", "cancel_row", "except_row"}
        /\ runs' = runs
        /\ row' = row \/ \E s : row' = [row EXCEPT !.status = s]
    BY <1>3 DEF MarkRunning, CancelRow, FailRow, CommitRow
  <2>2. PICK pc \in WorkerPcs \ {"idle"} :
          Move(w, pc) /\ (pc \in Attempting => worker[w].pc \in Attempting)
    BY <1>3 DEF MarkRunning, CancelRow, FailRow, CommitRow, Leave, WorkerPcs, Attempting
  <2>3. row \in Rows
    BY <2>1, RowOfWork
  <2>4. row' \in Rows
    <3>1. worker'[w].pc # "idle"
      BY <2>2 DEF Move, TInv, TypeOK, WorkerRecords
    <3> QED
      BY <3>1 DEF TInv, RowThere
  <2>5. row'.completed = row.completed
    BY <2>1, <2>3 DEF Rows
  <2> QED
    BY <1>1, <2>1, <2>2, <2>3, <2>4, <2>5 DEF KeepsCount
<1>6. CASE Complete(w)
  <2> DEFINE batch == [try |-> worker[w].try, results |-> worker[w].results]
  <2>1. /\ row \in Rows /\ runs' = runs
        /\ row' = row \/ row' \in Rows
        /\ \E pc \in {"publish_completed", "return", "raise"} : Move(w, pc)
    BY <1>6, CompleteWrites
  <2>2. row' = row \/ row' = [row EXCEPT !.status = "completed", !.batch = batch]
    BY <1>6 DEF Complete, CommitRow
  <2> HIDE DEF batch
  <2>3. row'.completed = row.completed
    BY <2>1, <2>2 DEF Rows
  <2> QED
    BY <1>1, <2>1, <2>3 DEF KeepsCount, WorkerPcs, Attempting
<1>4. CASE PublishRunning(w) \/ PublishCancelled(w) \/ PublishCompleted(w) \/ PublishFailed(w)
  <2>1. KeepsCount
    BY <1>4 DEF PublishRunning, PublishCancelled, PublishCompleted, PublishFailed, Publish,
                database, KeepsCount
  <2>2. \E pc \in WorkerPcs : Move(w, pc) /\ (pc \in Attempting => worker[w].pc \in Attempting)
    BY <1>4 DEF PublishRunning, PublishCancelled, PublishCompleted, PublishFailed, Publish,
                Leave, WorkerPcs, Attempting
  <2> QED
    BY <1>1, <2>1, <2>2
<1>5. CASE CheckCancelled(w) \/ PublishProgress(w)
  <2>1. KeepsCount /\ worker[w].pc \in {"check", "progress"}
    BY <1>5 DEF CheckCancelled, PublishProgress, database, KeepsCount
  <2>2. \E pc \in WorkerPcs : Move(w, pc)
    BY <1>5 DEF CheckCancelled, PublishProgress, Leave, WorkerPcs
  <2> QED
    BY <1>1, <2>1, <2>2 DEF Attempting
<1> QED
  BY <1>2, <1>3, <1>4, <1>5, <1>6, ItemCounts DEF Process

\* Without cancel requests every step keeps the counters exact.
LEMMA StepCounts ==
  ASSUME Clients = {}, KInv, TInv', [Next]_vars
  PROVE  IsFiniteSet(runs') /\ Counted' /\ CountersMatchRuns'
<1>1. CASE UNCHANGED <<row, runs>> /\ \A v \in Workers : Still(v)
  BY <1>1, StillKeeps DEF KeepsCount
<1>2. CASE \/ UNCHANGED vars \/ Enqueue \/ PublishQueued
           \/ \E c \in Askers : AskGate(c) \/ AnswerGate(c)
           \/ GiveUp \/ LockExpires \/ Evict
  <2>1. UNCHANGED <<row, runs, worker>>
    BY <1>2 DEF vars, Enqueue, PublishQueued, AskGate, AnswerGate, GiveUp, LockExpires, Evict,
                database
  <2> QED
    BY <1>1, <2>1 DEF Still
<1>3. ASSUME NEW w \in Workers, FinishTask(w) \/ TaskRaised(w) \/ Crash(w)
      PROVE  IsFiniteSet(runs') /\ Counted' /\ CountersMatchRuns'
  <2>1. UNCHANGED <<row, runs>> /\ worker' = [worker EXCEPT ![w] = Asleep]
    BY <1>3 DEF FinishTask, TaskRaised, Crash, database
  <2>2. \A v \in Workers : Still(v)
    BY <2>1 DEF KInv, LInv, TInv, TypeOK, Still, Asleep, Blank, Attempting
  <2> QED
    BY <1>1, <2>1, <2>2
<1> QED
  BY <1>2, <1>3, CreateCounts, PickCounts, ProcessCounts DEF Next, Submit, Deliver

\* One transaction per item: in a job nobody cancels, completed_items of the row is at any
\* time the number of runs one attempt has committed, whatever crashes, failed commits,
\* redeliveries and concurrent attempts there were.
THEOREM CountersAreExact == ASSUME Clients = {} PROVE Spec => []CountersMatchRuns
<1>1. Init => KInv
  <2>1. Init => Numbers /\ Ledger /\ Sealed /\ BatchIsExact /\ Born
    BY RowAssumption DEF Init, Numbers, Ledger, Sealed, BatchIsExact, Asleep, Blank, Attempting,
       Born
  <2>2. Init => IsFiniteSet(runs) /\ Counted /\ CountersMatchRuns
    BY FS_EmptySet DEF Init, Counted, Asleep, Blank, Attempting, CountersMatchRuns
  <2> QED
    BY <2>1, <2>2, InitTypes DEF LInv, KInv
<1>2. KInv /\ [Next]_vars => KInv'
  <2> SUFFICES ASSUME KInv, [Next]_vars PROVE KInv'
    OBVIOUS
  <2>1. TInv'
    BY StepTypes DEF KInv, LInv
  <2>2. LInv' /\ Born'
    BY <2>1, StepKeeps, StepBorn DEF KInv, LInv
  <2>3. IsFiniteSet(runs') /\ Counted' /\ CountersMatchRuns'
    BY <2>1, StepCounts
  <2> QED
    BY <2>2, <2>3 DEF KInv
<1>3. KInv => CountersMatchRuns
  BY DEF KInv
<1> QED
  BY <1>1, <1>2, <1>3, PTL DEF Spec

-----------------------------------------------------------------------------
(***************************************************************************)
(* Redelivery.  While no call has raised and no lock has expired under a   *)
(* running task, arq's lock keeps the attempts apart, and the attempt that *)
(* finds the row completed leaves at once.                                 *)
(***************************************************************************)
Calm == budget.faults = 0 /\ budget.overruns = 0

Exclusive == Calm => \A w \in Workers : worker[w].pc # "idle" => arq.lock = w

\* Where an attempt at a completed job can be.
Settled == {"idle", "load", "publish_completed", "return"}
DoneWorkers ==
  Calm /\ row # None /\ row.status = "completed" => \A w \in Workers : worker[w].pc \in Settled

RInv == TInv /\ Born /\ Exclusive /\ DoneWorkers

\* A call that raises ends the calm.
LEMMA FaultEndsCalm == TypeOK /\ Fault => ~Calm'
<1> SUFFICES ASSUME TypeOK, Fault PROVE budget'.faults # 0
  BY DEF Calm
<1>1. budget.faults \in Nat /\ budget'.faults = budget.faults + 1
  BY SizesAssumption DEF TypeOK, Fault, Budgets
<1> QED
  BY <1>1

\* A calm step of the task: a completed job is left at once, and a job becomes completed
\* only by the worker that goes on to announce it.
LEMMA ProcessCalm ==
  ASSUME TInv, NEW w \in Workers, Process(w), Calm'
  PROVE  /\ Calm
         /\ worker[w].pc # "idle" /\ UNCHANGED <<arq, submitter>>
         /\ \A v \in Workers \ {w} : worker'[v] = worker[v]
         /\ worker[w].pc \in Settled /\ row.status = "completed" =>
              row' = row /\ runs' = runs /\ worker'[w].pc \in Settled
         /\ row.status # "completed" =>
              row'.status # "completed" \/ worker'[w].pc = "publish_completed"
<1> USE DEF TInv
<1>1. ~Fault /\ worker \in [Workers -> WorkerRecords]
  BY FaultEndsCalm DEF TypeOK
<1>2. CASE Load(w)
  BY <1>1, <1>2 DEF Load, DatabaseFault, database, Move, WorkerRecords, Settled, Calm
<1>3. CASE MarkRunning(w) \/ CancelRow(w) \/ FailRow(w)
  <2>1. row \in Rows
    BY <1>3, RowOfWork DEF MarkRunning, CancelRow, FailRow
  <2>2. CASE MarkRunning(w)
    BY <1>1, <2>1, <2>2 DEF MarkRunning, CommitRow, DatabaseFault, Move, WorkerRecords, Settled,
       Calm, Rows
  <2>3. CASE CancelRow(w)
    BY <1>1, <2>1, <2>3 DEF CancelRow, CommitRow, DatabaseFault, Move, WorkerRecords, Settled,
       Calm, Rows
  <2>4. CASE FailRow(w)
    BY <1>1, <2>1, <2>4 DEF FailRow, CommitRow, DatabaseFault, Move, WorkerRecords, Settled,
       Calm, Rows
  <2> QED
    BY <1>3, <2>2, <2>3, <2>4
<1>4. CASE Complete(w)
  BY <1>1, <1>4 DEF Complete, CommitRow, DatabaseFault, Move, WorkerRecords, Settled, Calm
<1>5. CASE PublishRunning(w) \/ PublishCancelled(w) \/ PublishCompleted(w) \/ PublishFailed(w)
  BY <1>1, <1>5 DEF PublishRunning, PublishCancelled, PublishCompleted, PublishFailed, Publish,
     database, Move, WorkerRecords, Settled, Calm
<1>6. CASE CheckCancelled(w) \/ PublishProgress(w)
  BY <1>1, <1>6 DEF CheckCancelled, PublishProgress, DatabaseFault, database, Move, WorkerRecords,
     Settled, Calm
<1>7. CASE Item(w)
  <2>1. worker[w].pc = "item" /\ UNCHANGED <<arq, submitter, budget>>
    BY <1>1, <1>7 DEF Item, DatabaseFault
  <2>2. row \in Rows
    BY <2>1, RowOfWork
  <2>3. row'.status = row.status
    <3>1. PICK outcome \in {"completed", "failed"} :
            row' = row \/ SaveItem(w, Tally(worker[w], outcome), outcome)
      BY <1>7 DEF Item
    <3> DEFINE a == Tally(worker[w], outcome).completed
               b == Tally(worker[w], outcome).failed
    <3>2. row' = row \/ row' = [row EXCEPT !.completed = a, !.failed = b]
      BY <3>1 DEF SaveItem
    <3> HIDE DEF a, b
    <3> QED
      BY <2>2, <3>2 DEF Rows
  <2>4. \A v \in Workers \ {w} : worker'[v] = worker[v]
    BY <1>7, ItemMoves
  <2> QED
    BY <2>1, <2>3, <2>4 DEF Settled, Calm
<1> QED
  BY <1>2, <1>3, <1>4, <1>5, <1>6, <1>7 DEF Process

\* Without cancel requests, a calm step leaves the status and the runs of a completed job.
LEMMA CalmStep ==
  ASSUME Clients = {}, RInv, [Next]_vars, Calm', row # None, row.status = "completed"
  PROVE  row' = row /\ runs' = runs
<1> USE DEF RInv
<1>1. CASE UNCHANGED <<row, runs>>
  BY <1>1
<1>2. CASE Create
  BY <1>2 DEF Create, Born
<1>3. ASSUME NEW w \in Workers, Process(w) PROVE row' = row /\ runs' = runs
  BY <1>3, ProcessCalm DEF DoneWorkers
<1>4. CASE \/ UNCHANGED vars \/ Enqueue \/ PublishQueued \/ GiveUp \/ LockExpires \/ Evict
           \/ \E c \in Askers : AskGate(c) \/ AnswerGate(c)
  BY <1>1, <1>4 DEF vars, Enqueue, PublishQueued, AskGate, AnswerGate, GiveUp, LockExpires, Evict,
     database
<1>5. CASE \E w \in Workers : Deliver(w) \/ Crash(w)
  BY <1>1, <1>5 DEF Deliver, Pick, FinishTask, TaskRaised, Crash, database
<1> QED
  BY <1>2, <1>3, <1>4, <1>5 DEF Next, Submit

\* A step that is none of the task's: calm before and after, the lock is taken by a worker that
\* starts, given up by one that leaves, and expires only for one that is dead.
LEMMA OtherCalm ==
  ASSUME Clients = {}, RInv, TInv', [Next]_vars, \A w \in Workers : ~Process(w), Calm'
  PROVE  /\ Calm /\ Exclusive'
         /\ \A w \in Workers : worker'[w].pc \in Settled \/ worker'[w] = worker[w]
         /\ row' # None /\ row'.status = "completed" => row # None /\ row.status = "completed"
<1> USE DEF RInv, TInv, TypeOK, ArqRecords
<1>1. ~Fault
  BY FaultEndsCalm
<1>2. CASE \/ UNCHANGED vars \/ Submit \/ Evict \/ GiveUp
           \/ \E c \in Askers : AskGate(c) \/ AnswerGate(c)
  <2>1. /\ UNCHANGED worker /\ arq'.lock = arq.lock
        /\ row' = row \/ row'.status = "queued"
    BY <1>2 DEF vars, Submit, Create, Enqueue, PublishQueued, Evict, GiveUp, AskGate, AnswerGate,
       database
  <2>2. Calm
    BY <1>1, <1>2 DEF vars, Submit, Create, Enqueue, PublishQueued, DatabaseFault, Evict, GiveUp,
       AskGate, AnswerGate, Calm, Budgets
  <2> QED
    BY <2>1, <2>2 DEF Exclusive
<1>3. ASSUME NEW w \in Workers, Pick(w) PROVE
        /\ Calm /\ Exclusive'
        /\ \A v \in Workers : worker'[v].pc \in Settled \/ worker'[v] = worker[v]
        /\ row' = row
  <2>1. /\ UNCHANGED <<row, budget>> /\ arq.lock = None /\ arq'.lock = w
        /\ worker'[w].pc = "load" /\ \A v \in Workers \ {w} : worker'[v] = worker[v]
    BY <1>3 DEF Pick, database, Blank
  <2>2. Calm
    BY <2>1 DEF Calm
  <2>3. \A v \in Workers : worker[v].pc = "idle"
    BY <2>1, <2>2, SetsAssumption DEF Exclusive
  <2> QED
    BY <2>1, <2>2, <2>3 DEF Exclusive, Settled
<1>4. ASSUME NEW w \in Workers, FinishTask(w) \/ TaskRaised(w) \/ Crash(w) PROVE
        /\ Calm /\ Exclusive'
        /\ \A v \in Workers : worker'[v].pc \in Settled \/ worker'[v] = worker[v]
        /\ row' = row
  <2>1. /\ row' = row /\ worker[w].pc # "idle"
        /\ worker'[w].pc = "idle" /\ \A v \in Workers \ {w} : worker'[v] = worker[v]
    BY <1>4 DEF FinishTask, TaskRaised, Crash, database, Asleep, Blank
  <2>2. Calm
    BY <1>4 DEF FinishTask, TaskRaised, Crash, Calm, Budgets
  <2>3. \A v \in Workers \ {w} : worker[v].pc = "idle"
    BY <2>1, <2>2 DEF Exclusive
  <2> QED
    BY <2>1, <2>2, <2>3 DEF Exclusive, Settled
<1>5. CASE LockExpires
  <2>1. UNCHANGED <<row, worker>> /\ arq.lock \in Workers
    BY <1>5 DEF LockExpires, database
  <2>2. worker[arq.lock].pc = "idle" /\ Calm
    <3>1. CASE worker[arq.lock].pc = "idle"
      BY <1>5, <3>1 DEF LockExpires, Calm
    <3>2. CASE worker[arq.lock].pc # "idle"
      <4>1. budget.overruns \in Nat /\ budget'.overruns = budget.overruns + 1
        BY <1>5, <3>2, SizesAssumption DEF LockExpires, Budgets
      <4> QED
        BY <4>1 DEF Calm
    <3> QED
      BY <3>1, <3>2
  <2>3. \A v \in Workers : worker[v].pc = "idle"
    BY <2>2 DEF Exclusive
  <2> QED
    BY <2>1, <2>2, <2>3 DEF Exclusive
<1>6. \/ UNCHANGED vars \/ Submit \/ Evict \/ GiveUp \/ LockExpires
      \/ \E c \in Askers : AskGate(c) \/ AnswerGate(c)
      \/ \E w \in Workers : Pick(w) \/ FinishTask(w) \/ TaskRaised(w) \/ Crash(w)
  BY DEF Next, Deliver
<1> QED
  BY <1>2, <1>3, <1>4, <1>5, <1>6

\* Without cancel requests, the lock keeps attempts apart in the calm, and a completed job has
\* no attempt past its first query.
LEMMA StepCalm ==
  ASSUME Clients = {}, RInv, TInv', [Next]_vars
  PROVE  Exclusive' /\ DoneWorkers'
<1> SUFFICES ASSUME Calm' PROVE Exclusive' /\ DoneWorkers'
  BY DEF Exclusive, DoneWorkers
<1>1. CASE \E w \in Workers : Process(w)
  <2>1. PICK w \in Workers : Process(w)
    BY <1>1
  <2>2. /\ Calm
        /\ worker[w].pc # "idle" /\ UNCHANGED <<arq, submitter>>
        /\ \A v \in Workers \ {w} : worker'[v] = worker[v]
        /\ worker[w].pc \in Settled /\ row.status = "completed" => worker'[w].pc \in Settled
        /\ row.status # "completed" =>
             row'.status # "completed" \/ worker'[w].pc = "publish_completed"
    BY <2>1, ProcessCalm DEF RInv
  <2>3. arq.lock = w /\ \A v \in Workers \ {w} : worker[v].pc = "idle"
    BY <2>2 DEF RInv, Exclusive
  <2>4. row # None
    BY <2>2, RowOfWork, RowAssumption DEF RInv
  <2> QED
    BY <2>2, <2>3, <2>4 DEF RInv, Exclusive, DoneWorkers, Settled
<1>2. CASE \A w \in Workers : ~Process(w)
  BY <1>2, OtherCalm DEF RInv, DoneWorkers
<1> QED
  BY <1>1, <1>2

\* "Idempotency: skip if already completed or cancelled": in a job nobody cancels, redelivery
\* after any number of crashes, to any number of workers, changes neither the status nor the
\* runs of a completed job, as long as no call has raised and no lock has expired early.
THEOREM CompletedIsFinal == ASSUME Clients = {} PROVE Spec => RedeliveryIsIdempotent
<1>1. Init => RInv
  <2>1. Init => Born /\ Exclusive /\ DoneWorkers
    BY DEF Init, Born, Exclusive, DoneWorkers, Asleep, Blank
  <2> QED
    BY <2>1, InitTypes DEF RInv
<1>2. RInv /\ [Next]_vars => RInv'
  BY StepTypes, StepBorn, StepCalm DEF RInv
<1>3. RInv /\ [Next]_vars
        => [row # None /\ row.status = "completed" /\ budget'.faults = 0 /\ budget'.overruns = 0
              => row'.status = "completed" /\ runs' = runs]_vars
  BY CalmStep DEF Calm
<1> QED
  BY <1>1, <1>2, <1>3, PTL DEF Spec, RedeliveryIsIdempotent
=============================================================================
