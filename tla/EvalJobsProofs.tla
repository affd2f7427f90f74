--------------------------- MODULE EvalJobsProofs ---------------------------
(***************************************************************************)
(* What holds of EvalJobs for any number of workers, cancel requests,      *)
(* items, tries, crashes, faults, overruns and evictions.                  *)
(***************************************************************************)
EXTENDS EvalJobs, TLAPS

-----------------------------------------------------------------------------
(***************************************************************************)
(* Type correctness.  TypeOK is not inductive: that the counters stay      *)
(* below NumItems follows from where in its loop a worker is, and that the *)
(* row can be updated from its existence.                                  *)
(***************************************************************************)
\* The row was inserted before anyone holds its id.
RowThere ==
  \/ row \in Rows
  \/ /\ submitter \in {"create", "error"}
     /\ ~arq.queued
     /\ \A w \in Workers : worker[w].pc = "idle"
     /\ \A c \in Requests : client[c].pc = "idle"

\* A worker's local counters add up to the items it has behind it.
Fits(me) ==
  LET n == Len(me.results)
  IN /\ me.completed + me.failed = n
     /\ me.pc # "idle" => me.try >= 1
     /\ me.pc \in {"load", "mark_running", "publish_running"} => n = 0
     /\ me.pc \in {"check", "item", "cancel_row"} => n < NumItems
     /\ me.pc = "complete" => n = NumItems
     /\ n <= NumItems
Position == \A w \in Workers : Fits(worker[w])

TInv == TypeOK /\ RowThere /\ Position

\* The initial state: no row, no runs, every worker asleep.
THEOREM InitTypes == Init => TInv
<1> SUFFICES ASSUME Init PROVE TInv
  OBVIOUS
<1>1. TypeOK
  BY SizesAssumption DEF Init, TypeOK, Asleep, Blank, Statuses, WorkerPcs, ClientPcs,
     ArqRecords, ClientRecords, WorkerRecords, Budgets
<1>2. RowThere
  BY DEF Init, RowThere, Asleep, Blank
<1>3. Position
  <2>1. ASSUME NEW w \in Workers
        PROVE  /\ worker[w].pc = "idle" /\ worker[w].results = << >>
               /\ worker[w].completed = 0 /\ worker[w].failed = 0
    BY DEF Init, Asleep, Blank
  <2>2. ASSUME NEW w \in Workers PROVE Fits(worker[w])
    <3>1. Len(worker[w].results) = 0 /\ 0 <= NumItems
      BY <2>1, SizesAssumption
    <3> QED
      BY <2>1, <3>1 DEF Fits
  <2> QED
    BY <2>2 DEF Position
<1> QED
  BY <1>1, <1>2, <1>3 DEF TInv

\* A call that raises spends one unit of the fault budget.
LEMMA FaultTypes == TypeOK /\ Fault => budget' \in Budgets
<1> SUFFICES ASSUME TypeOK, Fault PROVE budget' \in Budgets
  OBVIOUS
<1>1. budget.faults + 1 \in 0 .. MaxFaults
  BY SizesAssumption DEF TypeOK, Fault, Budgets
<1>2. budget' = [budget EXCEPT !.faults = budget.faults + 1]
  BY DEF Fault
<1> QED
  BY <1>1, <1>2 DEF TypeOK, Budgets

\* set_job_state, raising or not, leaves Redis well typed.
LEMMA StateTypes ==
  ASSUME TypeOK, NEW s \in Statuses \cup {None}, TornSetJobState(s) \/ SetJobState(s)
  PROVE  state' \in Statuses \cup {None} /\ late' \in [Workers -> Nat]
  BY DEF TypeOK, TornSetJobState, SetJobState

\* A worker's change of control state keeps its other fields.
LEMMA MoveTypes ==
  ASSUME TypeOK, NEW w \in Workers, NEW pc \in WorkerPcs, Move(w, pc)
  PROVE  /\ worker' \in [Workers -> WorkerRecords]
         /\ worker'[w] = [worker[w] EXCEPT !.pc = pc]
         /\ \A v \in Workers \ {w} : worker'[v] = worker[v]
  BY DEF TypeOK, Move, WorkerRecords

\* A request's change of control state keeps its other fields.
LEMMA ClientGoesTypes ==
  ASSUME TypeOK, NEW c \in Requests, NEW pc \in ClientPcs, ClientGoes(c, pc)
  PROVE  /\ client' \in [Requests -> ClientRecords]
         /\ client'[c] = [client[c] EXCEPT !.pc = pc]
         /\ \A d \in Requests \ {c} : client'[d] = client[d]
  BY DEF TypeOK, ClientGoes, ClientRecords

\* The request that creates and dispatches the job keeps TInv.
LEMMA SubmitTypes == TInv /\ Submit => TInv'
<1> SUFFICES ASSUME TInv, Submit PROVE TInv'
  OBVIOUS
<1> USE DEF TInv
<1>1. CASE Create
  <2> DEFINE created == [status |-> "queued", completed |-> 0, failed |-> 0, batch |-> None]
  <2>1. created \in Rows
    BY SizesAssumption DEF Rows, Statuses
  <2> HIDE DEF created
  <2>2. /\ row' = row \/ row' = created
        /\ submitter' = "error" \/ (submitter' = "enqueue" /\ row' = created)
        /\ UNCHANGED <<runs, state, progress, arq, client, worker, late>>
        /\ budget' \in Budgets
    BY <1>1, FaultTypes DEF Create, DatabaseFault, redis, created, TypeOK
  <2> QED
    BY <1>1, <2>1, <2>2 DEF Create, TypeOK, RowThere, Position
<1>2. CASE Enqueue
  <2>1. /\ UNCHANGED <<row, runs, state, progress, client, worker, late>>
        /\ arq' \in ArqRecords
        /\ budget' \in Budgets
        /\ submitter' \in {"publish", "error"}
    BY <1>2, FaultTypes DEF Enqueue, database, redis, TypeOK, ArqRecords
  <2> QED
    BY <1>2, <2>1 DEF Enqueue, TypeOK, RowThere, Position
<1>3. CASE PublishQueued
  <2>1. /\ UNCHANGED <<row, runs, progress, arq, client, worker>>
        /\ state' \in Statuses \cup {None} /\ late' \in [Workers -> Nat]
        /\ budget' \in Budgets
        /\ submitter' \in {"done", "error"}
    BY <1>3, FaultTypes, StateTypes DEF PublishQueued, database, TypeOK, Statuses
  <2> QED
    BY <1>3, <2>1 DEF PublishQueued, TypeOK, RowThere, Position
<1> QED
  BY <1>1, <1>2, <1>3 DEF Submit

\* A cancel request keeps TInv: the row it marks is the one it loaded, overlaid.
LEMMA CancelTypes == ASSUME TInv, NEW c \in Requests, Cancel(c) PROVE TInv'
<1> USE DEF TInv
<1>1. CASE ReadRow(c)
  <2>1. /\ UNCHANGED <<row, runs, state, progress, arq, submitter, worker, budget, late>>
        /\ row \in Rows
        /\ [pc |-> "overlay", loaded |-> row, seen |-> None] \in ClientRecords
    BY <1>1 DEF ReadRow, database, redis, TypeOK, ClientPcs, ClientRecords
  <2> QED
    BY <1>1, <2>1 DEF ReadRow, TypeOK, RowThere, Position
<1>2. CASE Overlay(c)
  <2>1. /\ UNCHANGED <<row, runs, state, progress, arq, submitter, worker, late>>
        /\ budget' \in Budgets
        /\ client[c].pc # "idle"
    BY <1>2, FaultTypes DEF Overlay, database, redis, TypeOK
  <2>2. PICK pc \in {"refused", "get"}, p \in Counts \cup {None} :
          client' = [client EXCEPT ![c].pc = pc, ![c].seen = p]
    BY <1>2 DEF Overlay, TypeOK
  <2>3. client' \in [Requests -> ClientRecords]
    BY <2>2 DEF TypeOK, ClientRecords, ClientPcs
  <2>4. \A d \in Requests : client[d].pc = "idle" => client'[d].pc = "idle"
    BY <2>1, <2>2 DEF TypeOK, ClientRecords
  <2> QED
    BY <2>1, <2>3, <2>4 DEF TypeOK, RowThere, Position
<1>3. CASE CancelGet(c)
  <2>1. /\ UNCHANGED <<row, runs, state, progress, arq, submitter, worker, late>>
        /\ budget' \in Budgets
        /\ client[c].pc # "idle"
    BY <1>3, FaultTypes DEF CancelGet, database, redis, TypeOK
  <2>2. PICK pc \in {"refused", "set", "error"} : ClientGoes(c, pc)
    BY <1>3 DEF CancelGet
  <2>3. client' \in [Requests -> ClientRecords]
    BY <2>2, ClientGoesTypes DEF ClientPcs
  <2>4. \A d \in Requests : client[d].pc = "idle" => client'[d].pc = "idle"
    BY <2>1, <2>2 DEF TypeOK, ClientRecords, ClientGoes
  <2> QED
    BY <2>1, <2>3, <2>4 DEF TypeOK, RowThere, Position
<1>4. CASE CancelSet(c)
  <2>1. /\ UNCHANGED <<row, runs, progress, arq, submitter, worker>>
        /\ budget' \in Budgets
        /\ client[c].pc # "idle"
        /\ state' \in Statuses \cup {None} /\ late' \in [Workers -> Nat]
    BY <1>4, FaultTypes, StateTypes DEF CancelSet, database, TypeOK, Statuses
  <2>2. PICK pc \in {"mark", "error"} : ClientGoes(c, pc)
    BY <1>4 DEF CancelSet
  <2>3. client' \in [Requests -> ClientRecords]
    BY <2>2, ClientGoesTypes DEF ClientPcs
  <2>4. \A d \in Requests : client[d].pc = "idle" => client'[d].pc = "idle"
    BY <2>1, <2>2 DEF TypeOK, ClientRecords, ClientGoes
  <2> QED
    BY <2>1, <2>3, <2>4 DEF TypeOK, RowThere, Position
<1>5. CASE MarkFailed(c)
  <2>1. /\ UNCHANGED <<runs, state, progress, arq, submitter, worker, late>>
        /\ budget' \in Budgets
        /\ client[c].pc # "idle"
        /\ row' \in {row, MarkedFailed(client[c].loaded, client[c].seen)}
    BY <1>5, FaultTypes DEF MarkFailed, DatabaseFault, redis, TypeOK
  <2>2. row \in Rows
    BY <2>1 DEF RowThere
  <2>3. MarkedFailed(client[c].loaded, client[c].seen) \in Rows
    <3>1. client[c].seen = None \/ client[c].seen \in Counts
      BY DEF TypeOK, ClientRecords
    <3> QED
      BY <2>2, <3>1 DEF MarkedFailed, Rows, Counts, Statuses
  <2>4. PICK pc \in {"acked", "error"} : ClientGoes(c, pc)
    BY <1>5 DEF MarkFailed
  <2>5. client' \in [Requests -> ClientRecords]
    BY <2>4, ClientGoesTypes DEF ClientPcs
  <2>6. \A d \in Requests : client[d].pc = "idle" => client'[d].pc = "idle"
    BY <2>1, <2>4 DEF TypeOK, ClientRecords, ClientGoes
  <2> QED
    BY <2>1, <2>2, <2>3, <2>5, <2>6 DEF TypeOK, RowThere, Position
<1> QED
  BY <1>1, <1>2, <1>3, <1>4, <1>5 DEF Cancel

\* A request for the quality gate keeps TInv: it writes nothing but its own state.
LEMMA GateTypes ==
  ASSUME TInv, NEW c \in Requests, AskGate(c) \/ AnswerGate(c) PROVE TInv'
<1> USE DEF TInv
<1>1. CASE AskGate(c)
  <2> DEFINE loaded == [row EXCEPT !.completed = 0, !.failed = 0]
  <2>1. row \in Rows
    BY <1>1 DEF AskGate, TypeOK
  <2>2. loaded \in Rows
    <3>1. 0 \in 0 .. NumItems
      BY SizesAssumption
    <3> QED
      BY <2>1, <3>1 DEF Rows
  <2> HIDE DEF loaded
  <2>4. /\ UNCHANGED <<row, runs, state, progress, arq, submitter, worker, budget, late>>
        /\ client' = [client EXCEPT ![c] = [pc |-> "gate", loaded |-> loaded, seen |-> None]]
    BY <1>1 DEF AskGate, database, redis, loaded
  <2>3. client' \in [Requests -> ClientRecords]
    BY <2>2, <2>4 DEF TypeOK, ClientRecords, ClientPcs
  <2> QED
    BY <2>1, <2>3, <2>4 DEF TypeOK, RowThere, Position
<1>2. CASE AnswerGate(c)
  <2>1. /\ UNCHANGED <<row, runs, state, progress, arq, submitter, worker, late>>
        /\ budget' \in Budgets
        /\ client[c].pc # "idle"
    BY <1>2, FaultTypes DEF AnswerGate, database, redis, TypeOK
  <2>2. PICK pc \in {"idle", "gate_failed"} :
          client' = [client EXCEPT ![c] = [pc |-> pc, loaded |-> None, seen |-> None]]
    BY <1>2 DEF AnswerGate
  <2>3. client' \in [Requests -> ClientRecords]
    BY <2>2 DEF TypeOK, ClientRecords, ClientPcs
  <2> QED
    BY <2>1, <2>3 DEF TypeOK, RowThere, Position
<1> QED
  BY <1>1, <1>2

\* What a step of worker w has to show: the rest of the state is left alone.
LEMMA WorkerFrame ==
  ASSUME TInv, NEW w \in Workers,
         row' \in Rows, runs' \subseteq [try : 1 .. MaxTries, item : Items],
         state' \in Statuses \cup {None}, progress' \in Counts \cup {None}, arq' \in ArqRecords,
         UNCHANGED <<submitter, client>>,
         worker' \in [Workers -> WorkerRecords], Fits(worker'[w]),
         \A v \in Workers \ {w} : worker'[v] = worker[v],
         budget' \in Budgets, late' \in [Workers -> Nat]
  PROVE  TInv'
<1>1. TypeOK' /\ RowThere'
  BY DEF TInv, TypeOK, RowThere
<1>2. Position'
  BY DEF TInv, Position
<1> QED
  BY <1>1, <1>2 DEF TInv

\* The place a worker moves to must fit the items it has behind it.
CanMove(w, pc) == pc \in WorkerPcs /\ Fits([worker[w] EXCEPT !.pc = pc])

\* Handlers and ends of the task ask nothing of the items.
LEMMA CanLeave ==
  ASSUME TInv, NEW w \in Workers, worker[w].pc # "idle",
         NEW pc \in {"except_row", "except_state", "return", "raise", "publish_completed",
                     "publish_cancelled"}
  PROVE  CanMove(w, pc)
<1>1. worker[w] \in WorkerRecords /\ Fits(worker[w])
  BY DEF TInv, TypeOK, Position
<1> QED
  BY <1>1 DEF CanMove, Fits, WorkerPcs, WorkerRecords

\* A commit of a worker, raising or not, keeps TInv if the new row is well typed.
LEMMA CommitRowTypes ==
  ASSUME TInv, NEW w \in Workers, worker[w].pc # "idle", NEW newRow \in Rows,
         NEW next, CanMove(w, next), CommitRow(w, newRow, next)
  PROVE  TInv'
<1>1. row \in Rows
  BY DEF TInv, RowThere
<1>2. PICK pc \in {next, Leave(w)} : Move(w, pc) /\ CanMove(w, pc)
  <2>1. CanMove(w, Leave(w))
    BY CanLeave DEF Leave
  <2> QED
    BY <2>1 DEF CommitRow
<1>3. /\ worker' \in [Workers -> WorkerRecords]
      /\ Fits(worker'[w])
      /\ \A v \in Workers \ {w} : worker'[v] = worker[v]
  BY <1>2, MoveTypes DEF CanMove, TInv
<1>4. /\ row' \in Rows
      /\ budget' \in Budgets
      /\ UNCHANGED <<runs, state, progress, arq, submitter, client, late>>
  BY <1>1, FaultTypes DEF CommitRow, DatabaseFault, redis, TInv, TypeOK
<1> QED
  BY <1>3, <1>4, WorkerFrame DEF TInv, TypeOK

\* A Redis write of a worker, raising or not, keeps TInv.
LEMMA PublishTypes ==
  ASSUME TInv, NEW w \in Workers, worker[w].pc # "idle", NEW s \in Statuses,
         NEW next, NEW handler, CanMove(w, next), CanMove(w, handler),
         Publish(w, s, next, handler)
  PROVE  TInv'
<1>1. row \in Rows
  BY DEF TInv, RowThere
<1>2. PICK pc \in {next, handler} : Move(w, pc)
  BY DEF Publish
<1>3. /\ worker' \in [Workers -> WorkerRecords]
      /\ Fits(worker'[w])
      /\ \A v \in Workers \ {w} : worker'[v] = worker[v]
  BY <1>2, MoveTypes DEF CanMove, TInv
<1>4. /\ state' \in Statuses \cup {None} /\ late' \in [Workers -> Nat]
      /\ budget' \in Budgets
      /\ UNCHANGED <<row, runs, progress, arq, submitter, client>>
  BY FaultTypes, StateTypes DEF Publish, database, TInv, TypeOK
<1> QED
  BY <1>1, <1>3, <1>4, WorkerFrame DEF TInv, TypeOK

\* An item more keeps the counters in step with the results.
LEMMA TallyFits ==
  ASSUME NEW me \in WorkerRecords, Fits(me), me.pc = "item",
         NEW outcome \in {"completed", "failed"}
  PROVE  /\ Tally(me, outcome) \in WorkerRecords
         /\ Fits(Tally(me, outcome))
         /\ Tally(me, outcome).pc = "progress"
         /\ Tally(me, outcome).try = me.try
         /\ Tally(me, outcome).results = Append(me.results, outcome)
         /\ Len(Tally(me, outcome).results) = Len(me.results) + 1
         /\ Len(Tally(me, outcome).results) \in Items
         /\ Tally(me, outcome).try \in 1 .. MaxTries
<1> DEFINE done    == IF outcome = "completed" THEN me.completed + 1 ELSE me.completed
           bad     == IF outcome = "failed" THEN me.failed + 1 ELSE me.failed
           results == Append(me.results, outcome)
           next    == Tally(me, outcome)
<1>1. /\ me.completed \in Nat /\ me.failed \in Nat
      /\ me.results \in Seq({"completed", "failed"})
      /\ me.completed + me.failed = Len(me.results)
      /\ Len(me.results) \in Nat
      /\ Len(me.results) < NumItems
      /\ me.try \in 1 .. MaxTries
      /\ NumItems \in Nat
  BY SizesAssumption DEF Fits, WorkerRecords
<1>2. /\ results \in Seq({"completed", "failed"})
      /\ Len(results) = Len(me.results) + 1
      /\ Len(results) \in Items
  BY <1>1 DEF Items
<1>3. /\ done \in 0 .. NumItems /\ bad \in 0 .. NumItems
      /\ done + bad = Len(results)
  <2>1. ASSUME NEW c \in Nat, NEW f \in Nat, NEW n \in Nat, c + f = n, n < NumItems
        PROVE  /\ c + 1 \in 0 .. NumItems /\ f \in 0 .. NumItems /\ (c + 1) + f = n + 1
               /\ c \in 0 .. NumItems /\ f + 1 \in 0 .. NumItems /\ c + (f + 1) = n + 1
    BY <2>1, SizesAssumption
  <2>2. CASE outcome = "completed"
    <3>1. done = me.completed + 1 /\ bad = me.failed
      BY <2>2
    <3> HIDE DEF done, bad, results
    <3> QED
      BY <1>1, <1>2, <2>1, <3>1
  <2>3. CASE outcome = "failed"
    <3>1. done = me.completed /\ bad = me.failed + 1
      BY <2>3
    <3> HIDE DEF done, bad, results
    <3> QED
      BY <1>1, <1>2, <2>1, <3>1
  <2> QED
    BY <2>2, <2>3
<1>4. next = [me EXCEPT !.pc = "progress", !.completed = done, !.failed = bad,
                        !.results = results]
  BY DEF Tally
<1> HIDE DEF next, done, bad, results
<1>5. /\ next \in WorkerRecords
      /\ next.pc = "progress" /\ next.try = me.try /\ next.results = results
      /\ next.completed = done /\ next.failed = bad
  BY <1>2, <1>3, <1>4 DEF WorkerRecords, WorkerPcs
<1>6. Fits(next)
  BY <1>1, <1>2, <1>3, <1>5 DEF Fits, Items
<1> QED
  BY <1>1, <1>2, <1>5, <1>6 DEF next, results

\* Every step of process_evaluation_job keeps TInv.
LEMMA ProcessTypes == ASSUME TInv, NEW w \in Workers, Process(w) PROVE TInv'
<1> DEFINE me == worker[w]
<1>1. /\ me \in WorkerRecords /\ Fits(me)
      /\ me.pc # "idle"
      /\ row \in Rows
      /\ NumItems \in Nat /\ NumItems > 0
  <2>1. me.pc # "idle"
    BY DEF Process, Load, MarkRunning, PublishRunning, CheckCancelled, CancelRow,
           PublishCancelled, Item, PublishProgress, Complete, PublishCompleted, FailRow,
           PublishFailed
  <2> QED
    BY <2>1, SizesAssumption DEF TInv, TypeOK, Position, RowThere
<1>2. \A pc \in {"except_row", "except_state", "return", "raise", "publish_completed",
                 "publish_cancelled"} : CanMove(w, pc)
  BY <1>1, CanLeave
<1>3. CASE Load(w)
  <2>1. /\ UNCHANGED <<row, runs, state, progress, arq, submitter, client, late>>
        /\ budget' \in Budgets
    BY <1>3, FaultTypes DEF Load, DatabaseFault, database, redis, TInv, TypeOK
  <2>2. CASE \E pc \in {"return", "raise", "except_row"} : Move(w, pc)
    <3>1. /\ worker' \in [Workers -> WorkerRecords]
          /\ Fits(worker'[w])
          /\ \A v \in Workers \ {w} : worker'[v] = worker[v]
      BY <1>2, <2>2, MoveTypes DEF CanMove, TInv
    <3> QED
      BY <1>1, <2>1, <3>1, WorkerFrame DEF TInv, TypeOK
  <2>3. CASE worker' = [worker EXCEPT ![w].pc = "mark_running", ![w].loaded = row.status]
    <3>1. /\ worker' \in [Workers -> WorkerRecords]
          /\ worker'[w] = [me EXCEPT !.pc = "mark_running", !.loaded = row.status]
          /\ \A v \in Workers \ {w} : worker'[v] = worker[v]
      BY <1>1, <2>3 DEF TInv, TypeOK, WorkerRecords, WorkerPcs, Rows
    <3>2. Len(me.results) = 0
      BY <1>1, <1>3 DEF Load, Fits
    <3>3. Fits(worker'[w])
      BY <1>1, <3>1, <3>2 DEF Fits, WorkerRecords
    <3> QED
      BY <1>1, <2>1, <3>1, <3>3, WorkerFrame DEF TInv, TypeOK
  <2> QED
    BY <1>3, <2>2, <2>3 DEF Load, Leave
<1>4. CASE MarkRunning(w)
  <2>1. [row EXCEPT !.status = IF me.loaded = "running" THEN @ ELSE "running"] \in Rows
    BY <1>1 DEF Rows, Statuses
  <2>2. CanMove(w, "publish_running")
    BY <1>1, <1>4 DEF MarkRunning, CanMove, Fits, WorkerPcs, WorkerRecords
  <2> QED
    BY <1>1, <1>2, <1>4, <2>1, <2>2, CommitRowTypes DEF MarkRunning
<1>5. CASE PublishRunning(w)
  <2>1. CanMove(w, "check")
    BY <1>1, <1>5 DEF PublishRunning, CanMove, Fits, WorkerPcs, WorkerRecords
  <2> QED
    BY <1>1, <1>2, <1>5, <2>1, PublishTypes DEF PublishRunning, Statuses
<1>6. CASE CheckCancelled(w)
  <2>1. /\ UNCHANGED <<row, runs, state, progress, arq, submitter, client, late>>
        /\ budget' \in Budgets
    BY <1>6, FaultTypes DEF CheckCancelled, DatabaseFault, database, redis, TInv, TypeOK
  <2>2. PICK pc \in {"cancel_row", "item", "except_row", "raise", "return"} : Move(w, pc)
    BY <1>6 DEF CheckCancelled, Leave
  <2>3. CanMove(w, "cancel_row") /\ CanMove(w, "item")
    BY <1>1, <1>6 DEF CheckCancelled, CanMove, Fits, WorkerPcs, WorkerRecords
  <2>4. /\ worker' \in [Workers -> WorkerRecords]
        /\ Fits(worker'[w])
        /\ \A v \in Workers \ {w} : worker'[v] = worker[v]
    BY <1>2, <2>2, <2>3, MoveTypes DEF CanMove, TInv
  <2> QED
    BY <1>1, <2>1, <2>4, WorkerFrame DEF TInv, TypeOK
<1>7. CASE CancelRow(w)
  <2>1. [row EXCEPT !.status = "cancelled"] \in Rows
    BY <1>1 DEF Rows, Statuses
  <2> QED
    BY <1>1, <1>2, <1>7, <2>1, CommitRowTypes DEF CancelRow
<1>8. CASE PublishCancelled(w)
  BY <1>1, <1>2, <1>8, PublishTypes DEF PublishCancelled, Statuses
<1>9. CASE Item(w)
  <2>1. PICK outcome \in {"completed", "failed"} :
          LET next == Tally(me, outcome)
          IN \/ /\ SaveItem(w, next, outcome)
                /\ worker' = [worker EXCEPT ![w] = next]
                /\ UNCHANGED budget
             \/ /\ DatabaseFault
                /\ SaveItem(w, next, outcome) \/ UNCHANGED <<row, runs, late>>
                /\ Move(w, Leave(w))
    BY <1>9 DEF Item
  <2> DEFINE next == Tally(me, outcome)
  <2>2. /\ next \in WorkerRecords /\ Fits(next)
        /\ Len(next.results) \in Items /\ next.try \in 1 .. MaxTries
    BY <1>1, <1>9, TallyFits DEF Item
  <2>3. /\ row' \in Rows /\ runs' \subseteq [try : 1 .. MaxTries, item : Items]
        /\ late' \in [Workers -> Nat]
    <3>1. [row EXCEPT !.completed = next.completed, !.failed = next.failed] \in Rows
      BY <1>1, <2>2 DEF Rows, WorkerRecords
    <3>2. Run(next.try, Len(next.results)) \in [try : 1 .. MaxTries, item : Items]
      BY <2>2 DEF Run
    <3> HIDE DEF me, next
    <3>3. SaveItem(w, next, outcome) \/ UNCHANGED <<row, runs, late>>
      BY <2>1 DEF next
    <3>4. row' \in Rows
      BY <1>1, <3>1, <3>3 DEF SaveItem
    <3>5. runs' \subseteq [try : 1 .. MaxTries, item : Items]
      BY <3>2, <3>3 DEF SaveItem, TInv, TypeOK
    <3>6. late' \in [Workers -> Nat]
      BY <3>3 DEF SaveItem, TInv, TypeOK
    <3> QED
      BY <3>4, <3>5, <3>6
  <2>4. /\ UNCHANGED <<state, progress, arq, submitter, client>>
        /\ budget' \in Budgets
    BY <1>9, <2>1, FaultTypes DEF Item, DatabaseFault, redis, TInv, TypeOK
  <2>5. /\ worker' \in [Workers -> WorkerRecords]
        /\ Fits(worker'[w])
        /\ \A v \in Workers \ {w} : worker'[v] = worker[v]
    <3>1. CASE worker' = [worker EXCEPT ![w] = next]
      BY <2>2, <3>1 DEF TInv, TypeOK
    <3>2. CASE Move(w, Leave(w))
      BY <1>2, <3>2, MoveTypes DEF CanMove, Leave, TInv
    <3> QED
      BY <2>1, <3>1, <3>2
  <2> QED
    BY <2>3, <2>4, <2>5, WorkerFrame DEF TInv, TypeOK
<1>10. CASE PublishProgress(w)
  <2>1. [completed |-> me.completed, failed |-> me.failed] \in Counts
    BY <1>1 DEF WorkerRecords, Counts
  <2>2. /\ UNCHANGED <<row, runs, state, arq, submitter, client, late>>
        /\ budget' \in Budgets
        /\ progress' \in Counts \cup {None}
    BY <1>10, <2>1, FaultTypes DEF PublishProgress, database, TInv, TypeOK
  <2>3. PICK pc \in {"complete", "check", "except_row"} :
          /\ Move(w, pc)
          /\ pc = "complete" => Len(me.results) = NumItems
          /\ pc = "check" => Len(me.results) # NumItems
    BY <1>10 DEF PublishProgress
  <2>4. CanMove(w, pc)
    <3>1. me.results \in Seq({"completed", "failed"}) /\ Len(me.results) \in Nat
      BY <1>1 DEF WorkerRecords
    <3> QED
      BY <1>1, <1>10, <2>3, <3>1 DEF PublishProgress, CanMove, Fits, WorkerPcs, WorkerRecords
  <2>5. /\ worker' \in [Workers -> WorkerRecords]
        /\ Fits(worker'[w])
        /\ \A v \in Workers \ {w} : worker'[v] = worker[v]
    BY <2>3, <2>4, MoveTypes DEF CanMove, TInv
  <2> QED
    BY <1>1, <2>2, <2>5, WorkerFrame DEF TInv, TypeOK
<1>11. CASE Complete(w)
  <2>1. [try |-> me.try, results |-> me.results] \in Batches
    BY <1>1 DEF Batches, Fits, WorkerRecords
  <2>2. [row EXCEPT !.status = "completed",
                    !.batch = [try |-> me.try, results |-> me.results]] \in Rows
    BY <1>1, <2>1 DEF Rows, Statuses
  <2> QED
    BY <1>1, <1>2, <1>11, <2>2, CommitRowTypes DEF Complete
<1>12. CASE PublishCompleted(w)
  BY <1>1, <1>2, <1>12, PublishTypes DEF PublishCompleted, Statuses
<1>13. Leave(w) \in {"return", "raise"}
  BY DEF Leave
<1>14. CASE FailRow(w)
  <2>1. [row EXCEPT !.status = "failed"] \in Rows
    BY <1>1 DEF Rows, Statuses
  <2> QED
    BY <1>1, <1>2, <1>13, <1>14, <2>1, CommitRowTypes DEF FailRow
<1>15. CASE PublishFailed(w)
  BY <1>1, <1>2, <1>13, <1>15, PublishTypes DEF PublishFailed, Statuses
<1> QED
  BY <1>3, <1>4, <1>5, <1>6, <1>7, <1>8, <1>9, <1>10, <1>11, <1>12, <1>14, <1>15 DEF Process

\* A worker at the start of an attempt is well typed.
LEMMA BlankTypes ==
  ASSUME NEW pc \in WorkerPcs, NEW t \in 0 .. MaxTries PROVE Blank(pc, t) \in WorkerRecords
  BY SizesAssumption DEF Blank, WorkerRecords, Statuses

\* So is a worker between two attempts.
LEMMA AsleepFits == Asleep \in WorkerRecords /\ Fits(Asleep)
<1>1. Asleep \in WorkerRecords
  BY BlankTypes, SizesAssumption DEF Asleep, WorkerPcs
<1>2. Len(Asleep.results) = 0 /\ Asleep.completed = 0 /\ Asleep.failed = 0
      /\ Asleep.pc = "idle"
  BY DEF Asleep, Blank
<1> QED
  BY <1>1, <1>2, SizesAssumption DEF Fits

\* A live worker, or one about to pick, has a row to work on.
LEMMA RowOfWork ==
  ASSUME TInv, NEW w \in Workers, worker[w].pc # "idle" \/ arq.queued
  PROVE  row \in Rows
  BY DEF TInv, RowThere

\* arq's deliveries keep TInv.
LEMMA DeliverTypes == ASSUME TInv, NEW w \in Workers, Deliver(w) PROVE TInv'
<1>1. row \in Rows
  BY RowOfWork DEF Deliver, Pick, FinishTask, TaskRaised
<1>2. CASE Pick(w)
  <2> DEFINE picked == Blank("load", arq.tries + 1)
  <2>1. arq.tries + 1 \in 1 .. MaxTries
    BY <1>2, SizesAssumption DEF Pick, TInv, TypeOK, ArqRecords
  <2>2. picked \in WorkerRecords /\ Fits(picked)
    <3>1. /\ picked \in WorkerRecords
          /\ picked.pc = "load" /\ picked.try = arq.tries + 1
          /\ picked.results = << >> /\ picked.completed = 0 /\ picked.failed = 0
      BY <2>1, BlankTypes DEF Blank, WorkerPcs
    <3>2. Len(picked.results) = 0
      BY <3>1
    <3> HIDE DEF picked
    <3> QED
      BY <2>1, <3>1, <3>2, SizesAssumption DEF Fits
  <2>3. arq' \in ArqRecords
    <3>1. arq \in ArqRecords /\ arq' = [arq EXCEPT !.lock = w, !.tries = arq.tries + 1]
      BY <1>2 DEF Pick, TInv, TypeOK
    <3>2. arq.tries + 1 \in 0 .. MaxTries
      BY <2>1
    <3> QED
      BY <3>1, <3>2 DEF ArqRecords
  <2>4. /\ UNCHANGED <<row, runs, state, progress, submitter, client, budget>>
        /\ worker' = [worker EXCEPT ![w] = picked]
        /\ late' \in [Workers -> Nat]
    BY <1>2 DEF Pick, database, redis, TInv, TypeOK
  <2> HIDE DEF picked
  <2>5. /\ worker' \in [Workers -> WorkerRecords]
        /\ Fits(worker'[w])
        /\ \A v \in Workers \ {w} : worker'[v] = worker[v]
    BY <2>2, <2>4 DEF TInv, TypeOK
  <2> QED
    BY <1>1, <2>3, <2>4, <2>5, WorkerFrame DEF TInv, TypeOK
<1>3. CASE FinishTask(w) \/ TaskRaised(w)
  <2>1. /\ UNCHANGED <<row, runs, state, progress, submitter, client, budget, late>>
        /\ worker' = [worker EXCEPT ![w] = Asleep]
    BY <1>3 DEF FinishTask, TaskRaised, database, redis
  <2>2. arq' \in ArqRecords
    BY <1>3 DEF FinishTask, TaskRaised, TInv, TypeOK, ArqRecords
  <2>3. /\ worker' \in [Workers -> WorkerRecords]
        /\ Fits(worker'[w])
        /\ \A v \in Workers \ {w} : worker'[v] = worker[v]
    BY <2>1, AsleepFits DEF TInv, TypeOK
  <2> QED
    BY <1>1, <2>1, <2>2, <2>3, WorkerFrame DEF TInv, TypeOK
<1> QED
  BY <1>2, <1>3 DEF Deliver

\* So does the death of a worker.
LEMMA CrashTypes == ASSUME TInv, NEW w \in Workers, Crash(w) PROVE TInv'
<1>1. row \in Rows
  BY RowOfWork DEF Crash
<1>2. /\ UNCHANGED <<row, runs, state, progress, arq, submitter, client, late>>
      /\ worker' = [worker EXCEPT ![w] = Asleep]
  BY DEF Crash, database, redis
<1>3. budget' \in Budgets
  <2>1. budget.crashes + 1 \in 0 .. MaxCrashes
    BY SizesAssumption DEF Crash, TInv, TypeOK, Budgets
  <2> QED
    BY <2>1 DEF Crash, TInv, TypeOK, Budgets
<1>4. /\ worker' \in [Workers -> WorkerRecords]
      /\ Fits(worker'[w])
      /\ \A v \in Workers \ {w} : worker'[v] = worker[v]
  BY <1>2, AsleepFits DEF TInv, TypeOK
<1> QED
  BY <1>1, <1>2, <1>3, <1>4, WorkerFrame DEF TInv, TypeOK

\* So do expiring locks and keys, and the end of the tries.
LEMMA EnvironmentTypes == TInv /\ (GiveUp \/ LockExpires \/ Evict) => TInv'
<1> SUFFICES ASSUME TInv, GiveUp \/ LockExpires \/ Evict PROVE TInv'
  OBVIOUS
<1> USE DEF TInv
<1>1. CASE GiveUp
  <2>1. /\ UNCHANGED <<row, runs, state, progress, submitter, client, worker, budget, late>>
        /\ arq' = [arq EXCEPT !.queued = FALSE]
    BY <1>1 DEF GiveUp, database, redis
  <2> QED
    BY <2>1 DEF TypeOK, ArqRecords, RowThere, Position
<1>2. CASE LockExpires
  <2>1. /\ UNCHANGED <<row, runs, state, progress, submitter, client, worker, late>>
        /\ arq' = [arq EXCEPT !.lock = None]
    BY <1>2 DEF LockExpires, database, redis
  <2>2. budget' \in Budgets
    <3>1. budget.overruns < MaxOverruns => budget.overruns + 1 \in 0 .. MaxOverruns
      BY SizesAssumption DEF TypeOK, Budgets
    <3> QED
      BY <1>2, <3>1 DEF LockExpires, TypeOK, Budgets
  <2> QED
    BY <2>1, <2>2 DEF TypeOK, ArqRecords, RowThere, Position
<1>3. CASE Evict
  <2>1. /\ UNCHANGED <<row, runs, arq, submitter, client, worker>>
        /\ state' \in Statuses \cup {None} /\ late' \in [Workers -> Nat]
        /\ progress' \in Counts \cup {None}
    BY <1>3, StateTypes DEF Evict, database, TypeOK
  <2>2. budget' \in Budgets
    <3>1. budget.evictions < MaxEvictions => budget.evictions + 1 \in 0 .. MaxEvictions
      BY SizesAssumption DEF TypeOK, Budgets
    <3> QED
      BY <1>3, <3>1 DEF Evict, TypeOK, Budgets
  <2> QED
    BY <2>1, <2>2 DEF TypeOK, RowThere, Position
<1> QED
  BY <1>1, <1>2, <1>3

\* TInv is inductive.
LEMMA StepTypes == TInv /\ [Next]_vars => TInv'
<1> SUFFICES ASSUME TInv, [Next]_vars PROVE TInv'
  OBVIOUS
<1>1. CASE UNCHANGED vars
  BY <1>1 DEF vars, TInv, TypeOK, RowThere, Position
<1>2. CASE Next
  BY <1>2, SubmitTypes, CancelTypes, GateTypes, ProcessTypes, DeliverTypes, CrashTypes, EnvironmentTypes
     DEF Next, Requests
<1> QED
  BY <1>1, <1>2

\* Every reachable state is well typed: in particular no counter of the row, of Redis or
\* of a worker exceeds the number of items, and no attempt number exceeds MaxTries.
THEOREM TypeCorrect == Spec => []TypeOK
<1>1. TInv => TypeOK
  BY DEF TInv
<1> QED
  BY <1>1, InitTypes, StepTypes, PTL DEF Spec

-----------------------------------------------------------------------------
(***************************************************************************)
(* Cooperative cancellation.  CancelBound is not inductive: a worker that  *)
(* has committed its one item under the flag must be kept from the next    *)
(* one, which the check before each item does while the flag stands.       *)
(***************************************************************************)
Flagged ==
  \A w \in Workers :
    /\ late[w] <= 1
    /\ state # "cancelled" => late[w] = 0
    /\ state = "cancelled" /\ worker[w].pc = "item" => late[w] = 0

CInv == TInv /\ Flagged

\* Setting the key keeps the invariant as long as no worker newly enters an item.
LEMMA FlagFrame ==
  ASSUME CInv, NEW s, SetJobState(s) \/ UNCHANGED <<state, late>>,
         \A v \in Workers : worker'[v].pc = "item" => worker[v].pc = "item"
  PROVE  Flagged'
  BY DEF CInv, TInv, TypeOK, Flagged, SetJobState

\* A worker that moves anywhere but to an item leaves the others where they are.
LEMMA MoveAway ==
  ASSUME TInv, NEW w \in Workers,
         \/ \E pc \in WorkerPcs \ {"item"} : Move(w, pc)
         \/ worker' = [worker EXCEPT ![w] = Asleep]
         \/ worker' = [worker EXCEPT ![w].pc = "mark_running", ![w].loaded = row.status]
         \/ \E t \in 0 .. MaxTries : worker' = [worker EXCEPT ![w] = Blank("load", t)]
  PROVE  \A v \in Workers : worker'[v].pc = "item" => worker[v].pc = "item"
<1> USE DEF TInv, TypeOK
<1>1. CASE \E pc \in WorkerPcs \ {"item"} : Move(w, pc)
  BY <1>1 DEF Move, WorkerRecords
<1>2. CASE worker' = [worker EXCEPT ![w] = Asleep]
  BY <1>2 DEF Asleep, Blank
<1>3. CASE worker' = [worker EXCEPT ![w].pc = "mark_running", ![w].loaded = row.status]
  BY <1>3 DEF WorkerRecords
<1>4. CASE \E t \in 0 .. MaxTries : worker' = [worker EXCEPT ![w] = Blank("load", t)]
  BY <1>4 DEF Blank
<1> QED
  BY <1>1, <1>2, <1>3, <1>4

\* A step of process_evaluation_job keeps Flagged: the flag is read before each item.
LEMMA ProcessFlagged == ASSUME CInv, NEW w \in Workers, Process(w) PROVE Flagged'
<1> USE DEF CInv
<1>1. CASE Load(w)
  <2>1. UNCHANGED <<state, late>>
    BY <1>1 DEF Load, redis
  <2>2. \/ \E pc \in {"return", "raise", "except_row"} : Move(w, pc)
        \/ worker' = [worker EXCEPT ![w].pc = "mark_running", ![w].loaded = row.status]
    BY <1>1 DEF Load, Leave
  <2> QED
    BY <2>1, <2>2, MoveAway, FlagFrame DEF WorkerPcs
<1>2. CASE MarkRunning(w) \/ CancelRow(w) \/ Complete(w) \/ FailRow(w)
  <2>1. UNCHANGED <<state, late>>
    BY <1>2 DEF MarkRunning, CancelRow, Complete, FailRow, CommitRow, redis
  <2>2. \E pc \in WorkerPcs \ {"item"} : Move(w, pc)
    BY <1>2 DEF MarkRunning, CancelRow, Complete, FailRow, CommitRow, Leave, WorkerPcs
  <2> QED
    BY <2>1, <2>2, MoveAway, FlagFrame
<1>3. CASE PublishRunning(w) \/ PublishCancelled(w) \/ PublishCompleted(w) \/ PublishFailed(w)
  <2>1. \E s \in Statuses : SetJobState(s) \/ UNCHANGED <<state, late>>
    BY <1>3 DEF PublishRunning, PublishCancelled, PublishCompleted, PublishFailed, Publish,
                TornSetJobState, Statuses
  <2>2. \E pc \in WorkerPcs \ {"item"} : Move(w, pc)
    BY <1>3 DEF PublishRunning, PublishCancelled, PublishCompleted, PublishFailed, Publish,
                Leave, WorkerPcs
  <2> QED
    BY <2>1, <2>2, MoveAway, FlagFrame
<1>4. CASE CheckCancelled(w)
  <2>1. UNCHANGED <<state, late>>
    BY <1>4 DEF CheckCancelled, redis
  <2>2. \/ state # "cancelled"
        \/ \E pc \in WorkerPcs \ {"item"} : Move(w, pc)
    BY <1>4 DEF CheckCancelled, Leave, WorkerPcs
  <2> QED
    BY <2>1, <2>2, MoveAway, FlagFrame DEF Flagged
<1>5. CASE Item(w)
  <2>1. worker \in [Workers -> WorkerRecords] /\ worker[w] \in WorkerRecords /\ Fits(worker[w])
    BY DEF TInv, TypeOK, Position
  <2>2. /\ worker[w].pc = "item"
        /\ \/ late' = (IF state = "cancelled" THEN [late EXCEPT ![w] = @ + 1] ELSE late)
           \/ late' = late
        /\ state' = state
    BY <1>5 DEF Item, SaveItem, redis
  <2>3. /\ worker'[w].pc # "item"
        /\ \A v \in Workers \ {w} : worker'[v] = worker[v]
    <3>1. CASE Move(w, Leave(w))
      BY <2>1, <3>1 DEF Move, Leave, WorkerRecords
    <3>2. ASSUME NEW outcome \in {"completed", "failed"},
                 worker' = [worker EXCEPT ![w] = Tally(worker[w], outcome)]
          PROVE  worker'[w].pc # "item" /\ \A v \in Workers \ {w} : worker'[v] = worker[v]
      BY <2>1, <2>2, <3>2, TallyFits
    <3> QED
      BY <1>5, <3>1, <3>2 DEF Item
  <2> QED
    BY <2>2, <2>3 DEF Flagged, TInv, TypeOK
<1>6. CASE PublishProgress(w)
  <2>1. UNCHANGED <<state, late>>
    BY <1>6 DEF PublishProgress
  <2>2. \E pc \in WorkerPcs \ {"item"} : Move(w, pc)
    BY <1>6 DEF PublishProgress, WorkerPcs
  <2> QED
    BY <2>1, <2>2, MoveAway, FlagFrame
<1> QED
  BY <1>1, <1>2, <1>3, <1>4, <1>5, <1>6 DEF Process

\* Flagged is preserved by every step.
LEMMA StepFlagged == CInv /\ [Next]_vars => Flagged'
<1> SUFFICES ASSUME CInv, [Next]_vars PROVE Flagged'
  OBVIOUS
<1>1. ASSUME UNCHANGED worker, \E s : SetJobState(s) \/ UNCHANGED <<state, late>>
      PROVE  Flagged'
  BY <1>1, FlagFrame
<1>2. CASE UNCHANGED vars
  BY <1>1, <1>2 DEF vars
<1>3. CASE Submit
  BY <1>1, <1>3 DEF Submit, Create, Enqueue, PublishQueued, TornSetJobState, redis
<1>4. CASE \/ \E c \in Clients : Cancel(c)
           \/ \E c \in Askers : AskGate(c) \/ AnswerGate(c)
  BY <1>1, <1>4 DEF Cancel, ReadRow, Overlay, CancelGet, CancelSet, MarkFailed,
                    AskGate, AnswerGate, TornSetJobState, redis
<1>5. CASE \E w \in Workers : Process(w)
  BY <1>5, ProcessFlagged
<1>6. ASSUME NEW w \in Workers, Deliver(w) \/ Crash(w) PROVE Flagged'
  <2>1. CASE Pick(w)
    <3>1. \A v \in Workers : worker'[v].pc = "item" => worker[v].pc = "item"
      <4>1. arq.tries + 1 \in 0 .. MaxTries
        BY <2>1, SizesAssumption DEF Pick, CInv, TInv, TypeOK, ArqRecords
      <4> QED
        BY <2>1, <4>1, MoveAway DEF Pick, CInv
    <3>2. state' = state /\ late' = [late EXCEPT ![w] = 0]
      BY <2>1 DEF Pick, redis
    <3> QED
      BY <3>1, <3>2 DEF CInv, TInv, TypeOK, Flagged
  <2>2. CASE FinishTask(w) \/ TaskRaised(w) \/ Crash(w)
    <3>1. /\ UNCHANGED <<state, late>>
          /\ worker' = [worker EXCEPT ![w] = Asleep]
      BY <2>2 DEF FinishTask, TaskRaised, Crash, redis
    <3> QED
      BY <3>1, MoveAway, FlagFrame DEF CInv
  <2> QED
    BY <1>6, <2>1, <2>2 DEF Deliver
<1>7. CASE GiveUp \/ LockExpires \/ Evict
  BY <1>1, <1>7 DEF GiveUp, LockExpires, Evict, redis
<1> QED
  BY <1>2, <1>3, <1>4, <1>5, <1>6, <1>7 DEF Next

\* Once the cancellation flag stands in Redis, every attempt commits at most the one item
\* it had in hand, however many items, workers, retries and failures there are.
THEOREM CancellationIsBounded == Spec => []CancelBound
<1>1. Init => CInv
  <2>1. Init => Flagged
    BY DEF Init, Flagged
  <2> QED
    BY <2>1, InitTypes DEF CInv
<1>2. CInv /\ [Next]_vars => CInv'
  BY StepTypes, StepFlagged DEF CInv
<1>3. CInv => CancelBound
  BY DEF CInv, Flagged, CancelBound
<1> QED
  BY <1>1, <1>2, <1>3, PTL DEF Spec

-----------------------------------------------------------------------------
(***************************************************************************)
(* The batch results.  BatchIsExact is about the row; what makes it true   *)
(* is that an attempt still under way has its own runs in the database and *)
(* no others under its number (Ledger), that no two attempts share a       *)
(* number (Numbers), and that the attempt whose results the row holds adds *)
(* no run any more (Sealed).                                               *)
(***************************************************************************)
Attempting == {"load", "mark_running", "publish_running", "check", "item", "progress",
               "complete"}

Numbers ==
  /\ \A w \in Workers : worker[w].try <= arq.tries
  /\ \A r \in runs : r.try <= arq.tries
  /\ row \in Rows /\ row.batch # None => row.batch.try <= arq.tries
  /\ \A v, w \in Workers :
       v # w /\ worker[v].pc # "idle" /\ worker[w].pc # "idle" => worker[v].try # worker[w].try

\* The runs under attempt me's number are those its results call completed.
Ledgered(me, rs) ==
  \A i \in Items : Run(me.try, i) \in rs <=> i <= Len(me.results) /\ me.results[i] = "completed"

Ledger == \A w \in Workers : worker[w].pc \in Attempting => Ledgered(worker[w], runs)

Sealed ==
  row \in Rows /\ row.batch # None =>
    \A w \in Workers : worker[w].pc \in Attempting => worker[w].try # row.batch.try

LInv == TInv /\ Numbers /\ Ledger /\ Sealed /\ BatchIsExact

\* A step that adds no run, writes no batch results and starts no attempt.
Resumes(v) ==
  /\ worker[v].pc # "idle"
  /\ worker'[v].try = worker[v].try /\ worker'[v].results = worker[v].results
  /\ worker'[v].pc \in Attempting => worker[v].pc \in Attempting

Quiet ==
  /\ runs' = runs /\ arq'.tries = arq.tries
  /\ row' \in Rows => row'.batch = None \/ (row \in Rows /\ row'.batch = row.batch)
  /\ \A v \in Workers : worker'[v] = worker[v] \/ worker'[v] = Asleep \/ Resumes(v)

\* A step that leaves runs and results alone, and starts no attempt, keeps LInv.
LEMMA QuietKeeps == ASSUME LInv, TInv', Quiet PROVE LInv'
<1>1. \A v \in Workers : worker'[v].pc \in Attempting =>
        /\ worker[v].pc \in Attempting
        /\ worker'[v].try = worker[v].try /\ worker'[v].results = worker[v].results
  BY DEF Quiet, Resumes, Asleep, Blank, Attempting
<1>2. \A v \in Workers : worker'[v].pc # "idle" =>
        worker[v].pc # "idle" /\ worker'[v].try = worker[v].try
  BY DEF Quiet, Resumes, Asleep, Blank
<1>3. Numbers'
  <2>1. \A v \in Workers : worker'[v].try <= arq'.tries
    <3>1. arq'.tries = arq.tries /\ arq.tries \in Nat
      BY DEF Quiet, LInv, TInv, TypeOK, ArqRecords
    <3>2. Asleep.try = 0
      BY DEF Asleep, Blank
    <3>3. \A v \in Workers : worker'[v].try = worker[v].try \/ worker'[v].try = 0
      BY <3>2 DEF Quiet, Resumes
    <3>4. \A v \in Workers : worker[v].try <= arq.tries
      BY DEF LInv, Numbers
    <3> QED
      BY <3>1, <3>3, <3>4
  <2> QED
    BY <1>2, <2>1 DEF Quiet, LInv, Numbers
<1>4. Ledger'
  BY <1>1 DEF Quiet, LInv, Ledger, Ledgered
<1>5. Sealed'
  BY <1>1 DEF Quiet, LInv, Sealed
<1>6. BatchIsExact'
  BY RowAssumption DEF Quiet, LInv, BatchIsExact, TInv, TypeOK
<1> QED
  BY <1>3, <1>4, <1>5, <1>6 DEF LInv

\* A change of control state that does not re-enter an attempt is a resumption.
LEMMA MoveResumes ==
  ASSUME TInv, NEW w \in Workers, worker[w].pc # "idle", NEW pc \in WorkerPcs, Move(w, pc),
         pc \in Attempting => worker[w].pc \in Attempting
  PROVE  \A v \in Workers : worker'[v] = worker[v] \/ Resumes(v)
<1>1. worker[w] \in WorkerRecords
  BY DEF TInv, TypeOK
<1> QED
  <2>1. /\ worker'[w] = [worker[w] EXCEPT !.pc = pc]
        /\ \A v \in Workers \ {w} : worker'[v] = worker[v]
    BY MoveTypes DEF TInv
  <2>2. /\ worker'[w].pc = pc /\ worker'[w].try = worker[w].try
        /\ worker'[w].results = worker[w].results
    BY <1>1, <2>1 DEF WorkerRecords
  <2> QED
    BY <2>1, <2>2 DEF Resumes

\* A new attempt has a number of its own and no run yet.
LEMMA PickKeeps == ASSUME LInv, TInv', NEW w \in Workers, Pick(w) PROVE LInv'
<1> DEFINE t == arq.tries + 1
<1>1. /\ UNCHANGED <<row, runs>>
      /\ arq.tries \in Nat /\ arq'.tries = t
      /\ worker'[w] = Blank("load", t)
      /\ \A v \in Workers \ {w} : worker'[v] = worker[v]
      /\ worker \in [Workers -> WorkerRecords]
  BY DEF Pick, database, LInv, TInv, TypeOK, ArqRecords
<1>2. /\ worker'[w].pc = "load" /\ worker'[w].try = t
      /\ worker'[w].results = << >> /\ Len(worker'[w].results) = 0
  BY <1>1 DEF Blank
<1>3. \A v \in Workers : worker[v].try \in Nat /\ worker[v].try < t
  BY <1>1 DEF LInv, Numbers, WorkerRecords
<1>4. \A r \in runs : r.try \in Nat /\ r.try < t
  BY <1>1, SizesAssumption DEF LInv, Numbers, TInv, TypeOK
<1>5. row \in Rows /\ row.batch # None => row.batch.try \in Nat /\ row.batch.try < t
  BY <1>1 DEF LInv, Numbers, Rows, Batches
<1>6. Numbers'
  <2>1. \A v \in Workers : worker'[v].try <= arq'.tries
    BY <1>1, <1>2, <1>3
  <2>2. \A r \in runs' : r.try <= arq'.tries
    BY <1>1, <1>4
  <2>3. row' \in Rows /\ row'.batch # None => row'.batch.try <= arq'.tries
    BY <1>1, <1>5
  <2>4. \A u, v \in Workers :
          u # v /\ worker'[u].pc # "idle" /\ worker'[v].pc # "idle"
            => worker'[u].try # worker'[v].try
    BY <1>1, <1>2, <1>3 DEF LInv, Numbers
  <2> QED
    BY <2>1, <2>2, <2>3, <2>4 DEF Numbers
<1>7. Ledger'
  <2>1. \A i \in Items : Run(t, i) \notin runs
    BY <1>4 DEF Run
  <2>2. Ledgered(worker'[w], runs)
    BY <1>2, <2>1 DEF Ledgered, Items
  <2> QED
    BY <1>1, <2>2 DEF LInv, Ledger
<1>8. Sealed'
  BY <1>1, <1>2, <1>5 DEF LInv, Sealed
<1>9. BatchIsExact'
  BY <1>1 DEF LInv, BatchIsExact
<1> QED
  BY <1>6, <1>7, <1>8, <1>9 DEF LInv

\* One item more: the run set and the results of its attempt grow together.
LEMMA ItemKeeps == ASSUME LInv, TInv', NEW w \in Workers, Item(w) PROVE LInv'
<1> DEFINE me == worker[w]
<1>1. /\ me \in WorkerRecords /\ Fits(me) /\ me.pc = "item"
      /\ row \in Rows
      /\ worker \in [Workers -> WorkerRecords]
      /\ me.try \in Nat /\ me.try <= arq.tries
      /\ arq' = arq
  <2>1. me.pc = "item" /\ arq' = arq
    BY DEF Item
  <2>2. me \in WorkerRecords /\ Fits(me) /\ worker \in [Workers -> WorkerRecords]
    BY DEF LInv, TInv, TypeOK, Position
  <2>3. me.try \in Nat /\ me.try <= arq.tries
    BY <2>2 DEF LInv, Numbers, WorkerRecords
  <2> QED
    BY <2>1, <2>2, <2>3, RowOfWork DEF LInv
<1>2. PICK outcome \in {"completed", "failed"} :
        LET next == Tally(me, outcome)
        IN /\ \/ SaveItem(w, next, outcome)
              \/ UNCHANGED <<row, runs, late>> /\ Move(w, Leave(w))
           /\ worker' = [worker EXCEPT ![w] = next] \/ Move(w, Leave(w))
  BY DEF Item
<1> DEFINE next == Tally(me, outcome)
<1>3. /\ next.pc = "progress" /\ next.try = me.try
      /\ next.results = Append(me.results, outcome)
      /\ Len(next.results) = Len(me.results) + 1
      /\ Len(next.results) \in Items
  BY <1>1, TallyFits
<1>4. CASE UNCHANGED <<row, runs, late>> /\ Move(w, Leave(w))
  <2>1. \A v \in Workers : worker'[v] = worker[v] \/ Resumes(v)
    BY <1>1, <1>4, MoveResumes DEF Leave, WorkerPcs, Attempting, LInv
  <2> QED
    BY <1>1, <1>4, <2>1, QuietKeeps DEF Quiet
<1>5. CASE SaveItem(w, next, outcome)
  <2>1. /\ worker'[w].try = me.try
        /\ worker'[w].pc # "idle"
        /\ worker'[w].pc \in Attempting => worker'[w] = next
        /\ \A v \in Workers \ {w} : worker'[v] = worker[v]
    <3>1. CASE worker' = [worker EXCEPT ![w] = next]
      BY <1>1, <1>3, <3>1
    <3>2. CASE Move(w, Leave(w))
      BY <1>1, <3>2 DEF Move, Leave, WorkerRecords, Attempting
    <3> QED
      BY <1>2, <3>1, <3>2
  <2>2. /\ row' \in Rows /\ row'.batch = row.batch
        /\ \A r \in runs' : r \in runs \/ r = Run(me.try, Len(next.results))
        /\ runs' = IF outcome = "completed" THEN runs \cup {Run(me.try, Len(next.results))}
                                            ELSE runs
    <3>1. row' \in Rows
      BY <2>1 DEF TInv, RowThere
    <3>2. row' = [row EXCEPT !.completed = next.completed, !.failed = next.failed]
      BY <1>5 DEF SaveItem
    <3>3. row'.batch = row.batch
      <4> HIDE DEF next
      <4> QED
        BY <1>1, <3>2 DEF Rows
    <3> QED
      BY <1>3, <1>5, <3>1, <3>3 DEF SaveItem
  <2>3. Numbers'
    <3>1. \A r \in runs' : r.try <= arq'.tries
      BY <1>1, <2>2 DEF Run, LInv, Numbers
    <3> QED
      BY <1>1, <2>1, <2>2, <3>1 DEF LInv, Numbers
  <2>4. Ledger'
    <3>1. ASSUME NEW v \in Workers, v # w, worker'[v].pc \in Attempting
          PROVE  Ledgered(worker'[v], runs')
      <4>1. worker[v].try # me.try
        BY <1>1, <2>1, <3>1 DEF LInv, Numbers, Attempting
      <4>2. \A i \in Items : Run(worker[v].try, i) \in runs' <=> Run(worker[v].try, i) \in runs
        BY <2>2, <4>1 DEF Run
      <4> QED
        BY <2>1, <3>1, <4>2 DEF LInv, Ledger, Ledgered
    <3>2. Ledgered(next, runs')
      <4>1. Ledgered(me, runs)
        BY <1>1 DEF LInv, Ledger, Attempting
      <4>2. SUFFICES ASSUME NEW i \in Items
                     PROVE  Run(me.try, i) \in runs'
                              <=> i <= Len(next.results) /\ next.results[i] = "completed"
        BY <1>3 DEF Ledgered
      <4>3. me.results \in Seq({"completed", "failed"}) /\ Len(me.results) \in Nat
        BY <1>1 DEF WorkerRecords
      <4>4. CASE i = Len(me.results) + 1
        <5>1. next.results[i] = outcome
          BY <1>3, <4>3, <4>4
        <5>2. Run(me.try, i) \notin runs
          BY <4>1, <4>3, <4>4 DEF Ledgered
        <5> QED
          BY <1>3, <2>2, <4>4, <5>1, <5>2
      <4>5. CASE i # Len(me.results) + 1
        <5>1. Run(me.try, i) # Run(me.try, Len(next.results))
          BY <1>3, <4>5 DEF Run
        <5>2. i <= Len(me.results) => next.results[i] = me.results[i]
          BY <1>3, <4>3 DEF Items
        <5>3. i <= Len(next.results) <=> i <= Len(me.results)
          BY <1>3, <4>3, <4>5 DEF Items
        <5> HIDE DEF next, me
        <5> QED
          BY <2>2, <4>1, <5>1, <5>2, <5>3 DEF Ledgered
      <4> QED
        BY <4>4, <4>5
    <3> QED
      BY <2>1, <3>1, <3>2 DEF Ledger
  <2>5. Sealed'
    BY <1>1, <2>1, <2>2 DEF LInv, Sealed, Attempting
  <2>6. BatchIsExact'
    <3>1. CASE row.batch = None
      BY <2>2, <3>1 DEF BatchIsExact
    <3>2. CASE row.batch # None
      <4>1. row.batch.try # me.try
        BY <1>1, <3>2 DEF LInv, Sealed, Attempting
      <4>2. \A i \in Items : Run(row.batch.try, i) \in runs' <=> Run(row.batch.try, i) \in runs
        BY <2>2, <4>1 DEF Run
      <4> QED
        BY <1>1, <2>2, <3>2, <4>2, RowAssumption DEF LInv, BatchIsExact
    <3> QED
      BY <3>1, <3>2
  <2> QED
    BY <2>3, <2>4, <2>5, <2>6 DEF LInv
<1> QED
  BY <1>2, <1>4, <1>5

\* The row takes the results of an attempt that has all its items behind it and now ends.
LEMMA CompleteKeeps == ASSUME LInv, TInv', NEW w \in Workers, Complete(w) PROVE LInv'
<1> DEFINE me    == worker[w]
           batch == [try |-> me.try, results |-> me.results]
<1>1. /\ me \in WorkerRecords /\ me.pc = "complete" /\ Len(me.results) = NumItems
      /\ row \in Rows
      /\ me.try <= arq.tries
  BY RowOfWork DEF Complete, LInv, TInv, TypeOK, Position, Fits, Numbers
<1>2. /\ UNCHANGED <<runs, arq>>
      /\ row' = row \/ row' = [row EXCEPT !.status = "completed", !.batch = batch]
      /\ \E pc \in {"publish_completed", "return", "raise"} : Move(w, pc)
  BY DEF Complete, CommitRow, Leave
<1>3. /\ \A v \in Workers : worker'[v] = worker[v] \/ Resumes(v)
      /\ worker'[w].pc \notin Attempting /\ worker'[w].pc # "idle"
      /\ \A v \in Workers \ {w} : worker'[v] = worker[v]
      /\ worker'[w].try = me.try
  <2>1. PICK pc \in {"publish_completed", "return", "raise"} : Move(w, pc)
    BY <1>2
  <2>2. pc \in WorkerPcs /\ pc \notin Attempting
    BY DEF WorkerPcs, Attempting
  <2>3. \A v \in Workers : worker'[v] = worker[v] \/ Resumes(v)
    BY <1>1, <2>1, <2>2, MoveResumes DEF LInv
  <2>4. worker'[w] = [me EXCEPT !.pc = pc] /\ \A v \in Workers \ {w} : worker'[v] = worker[v]
    BY <2>1, <2>2, MoveTypes DEF LInv, TInv
  <2>5. worker'[w].pc = pc /\ worker'[w].try = me.try
    BY <1>1, <2>4 DEF WorkerRecords
  <2> QED
    BY <2>2, <2>3, <2>4, <2>5
<1>4. CASE row' = row
  BY <1>2, <1>3, <1>4, QuietKeeps DEF Quiet
<1>5. CASE row' = [row EXCEPT !.status = "completed", !.batch = batch]
  <2>1. row' \in Rows /\ row'.batch = batch /\ batch.try = me.try /\ batch.results = me.results
    <3>1. row' \in Rows
      BY <1>3 DEF TInv, RowThere
    <3>2. row'.batch = batch
      <4> HIDE DEF batch
      <4> QED
        BY <1>1, <1>5 DEF Rows
    <3> QED
      BY <3>1, <3>2
  <2>2. Numbers'
    BY <1>1, <1>2, <1>3, <2>1 DEF Resumes, LInv, Numbers
  <2>3. Ledger'
    BY <1>2, <1>3 DEF LInv, Ledger, Ledgered
  <2>4. Sealed'
    <3>1. \A v \in Workers \ {w} : worker'[v].pc \in Attempting => worker'[v].try # me.try
      BY <1>1, <1>3 DEF LInv, Numbers, Attempting
    <3> QED
      BY <1>3, <2>1, <3>1 DEF Sealed
  <2>5. BatchIsExact'
    <3>1. Ledgered(me, runs)
      BY <1>1 DEF LInv, Ledger, Attempting
    <3>2. \A i \in Items : i <= NumItems
      BY SizesAssumption DEF Items
    <3> HIDE DEF me, batch
    <3> QED
      BY <1>1, <1>2, <2>1, <3>1, <3>2 DEF BatchIsExact, Ledgered
  <2> QED
    BY <2>2, <2>3, <2>4, <2>5 DEF LInv
<1> QED
  BY <1>2, <1>4, <1>5

\* Every other access of a worker to the stores leaves runs and results alone.
LEMMA ProcessKeeps == ASSUME LInv, TInv', NEW w \in Workers, Process(w) PROVE LInv'
<1> USE DEF LInv
<1>1. ASSUME runs' = runs, arq' = arq,
             row' \in Rows => row \in Rows /\ row'.batch = row.batch,
             worker[w].pc # "idle",
             \E pc \in WorkerPcs : /\ Move(w, pc)
                                   /\ pc \in Attempting => worker[w].pc \in Attempting
      PROVE  LInv'
  BY <1>1, MoveResumes, QuietKeeps DEF Quiet
<1>2. CASE Load(w)
  <2>1. worker[w].pc = "load" /\ UNCHANGED <<row, runs, arq>>
    BY <1>2 DEF Load, database
  <2>2. row \in Rows
    BY <2>1, RowOfWork
  <2>3. CASE \E pc \in {"return", "raise", "except_row"} : Move(w, pc)
    BY <1>1, <2>1, <2>2, <2>3 DEF WorkerPcs, Attempting
  <2>4. CASE worker' = [worker EXCEPT ![w].pc = "mark_running", ![w].loaded = row.status]
    <3>1. \A v \in Workers : worker'[v] = worker[v] \/ Resumes(v)
      BY <2>1, <2>4 DEF TInv, TypeOK, WorkerRecords, Resumes, Attempting
    <3> QED
      BY <2>1, <2>2, <3>1, QuietKeeps DEF Quiet
  <2> QED
    BY <1>2, <2>3, <2>4 DEF Load, Leave
<1>3. CASE MarkRunning(w) \/ CancelRow(w) \/ FailRow(w)
  <2>1. /\ worker[w].pc \in {"mark_running", "cancel_row", "except_row"}
        /\ runs' = runs /\ arq' = arq
    BY <1>3 DEF MarkRunning, CancelRow, FailRow, CommitRow
  <2>2. row \in Rows
    BY <2>1, RowOfWork
  <2>3. row' = row \/ \E s : row' = [row EXCEPT !.status = s]
    BY <1>3 DEF MarkRunning, CancelRow, FailRow, CommitRow
  <2>4. row'.batch = row.batch
    BY <2>2, <2>3 DEF Rows
  <2>5. \E pc \in WorkerPcs : Move(w, pc) /\ (pc \in Attempting => worker[w].pc \in Attempting)
    BY <1>3 DEF MarkRunning, CancelRow, FailRow, CommitRow, Leave, WorkerPcs, Attempting
  <2> QED
    BY <1>1, <2>1, <2>2, <2>4, <2>5
<1>4. CASE PublishRunning(w) \/ PublishCancelled(w) \/ PublishCompleted(w) \/ PublishFailed(w)
  <2>1. /\ worker[w].pc # "idle"
        /\ UNCHANGED <<row, runs, arq>>
    BY <1>4 DEF PublishRunning, PublishCancelled, PublishCompleted, PublishFailed, Publish,
                database
  <2>2. row \in Rows
    BY <2>1, RowOfWork
  <2>3. \E pc \in WorkerPcs : Move(w, pc) /\ (pc \in Attempting => worker[w].pc \in Attempting)
    BY <1>4 DEF PublishRunning, PublishCancelled, PublishCompleted, PublishFailed, Publish,
                Leave, WorkerPcs, Attempting
  <2> QED
    BY <1>1, <2>1, <2>2, <2>3
<1>5. CASE CheckCancelled(w) \/ PublishProgress(w)
  <2>1. /\ worker[w].pc \in {"check", "progress"}
        /\ UNCHANGED <<row, runs, arq>>
    BY <1>5 DEF CheckCancelled, PublishProgress, database
  <2>2. row \in Rows
    BY <2>1, RowOfWork
  <2>3. \E pc \in WorkerPcs : Move(w, pc)
    BY <1>5 DEF CheckCancelled, PublishProgress, Leave, WorkerPcs
  <2> QED
    BY <1>1, <2>1, <2>2, <2>3 DEF Attempting
<1> QED
  BY <1>2, <1>3, <1>4, <1>5, ItemKeeps, CompleteKeeps DEF Process

\* LInv is preserved by every step.
LEMMA StepKeeps == LInv /\ TInv' /\ [Next]_vars => LInv'
<1> SUFFICES ASSUME LInv, TInv', [Next]_vars PROVE LInv'
  OBVIOUS
<1>1. ASSUME UNCHANGED <<runs, worker>>, arq'.tries = arq.tries,
             row' \in Rows => row'.batch = None \/ (row \in Rows /\ row'.batch = row.batch)
      PROVE  LInv'
  BY <1>1, QuietKeeps DEF Quiet
<1>2. CASE UNCHANGED vars
  BY <1>1, <1>2 DEF vars
<1>3. CASE Submit
  <2>1. CASE Create
    BY <1>1, <2>1 DEF Create
  <2>2. CASE Enqueue
    <3>1. UNCHANGED <<row, runs, worker>> /\ arq'.tries = arq.tries
      BY <2>2 DEF Enqueue, database, LInv, TInv, TypeOK, ArqRecords
    <3> QED
      BY <1>1, <3>1
  <2>3. CASE PublishQueued
    BY <1>1, <2>3 DEF PublishQueued, database
  <2> QED
    BY <1>3, <2>1, <2>2, <2>3 DEF Submit
<1>4. ASSUME NEW c \in Clients, Cancel(c) PROVE LInv'
  <2>1. CASE ReadRow(c) \/ Overlay(c) \/ CancelGet(c) \/ CancelSet(c)
    BY <1>1, <2>1 DEF ReadRow, Overlay, CancelGet, CancelSet, database
  <2>2. CASE MarkFailed(c)
    <3>1. /\ UNCHANGED <<runs, worker, arq>>
          /\ row \in Rows
          /\ row' \in {row, MarkedFailed(client[c].loaded, client[c].seen)}
      BY <2>2 DEF MarkFailed, LInv, TInv, RowThere, redis, Requests
    <3>2. MarkedFailed(client[c].loaded, client[c].seen).batch = row.batch
      BY <3>1 DEF MarkedFailed, Rows
    <3>3. row'.batch = row.batch
      BY <3>1, <3>2
    <3> QED
      BY <1>1, <3>1, <3>3
  <2> QED
    BY <1>4, <2>1, <2>2 DEF Cancel
<1>5. ASSUME NEW w \in Workers, FinishTask(w) \/ TaskRaised(w) \/ Crash(w) PROVE LInv'
  <2>1. /\ UNCHANGED <<row, runs>>
        /\ worker' = [worker EXCEPT ![w] = Asleep]
        /\ arq'.tries = arq.tries
    BY <1>5 DEF FinishTask, TaskRaised, Crash, database, LInv, TInv, TypeOK, ArqRecords
  <2>2. \A v \in Workers : worker'[v] = worker[v] \/ worker'[v] = Asleep
    BY <2>1 DEF LInv, TInv, TypeOK
  <2> QED
    BY <2>1, <2>2, QuietKeeps DEF Quiet
<1>6. CASE GiveUp \/ LockExpires \/ Evict
  <2>1. UNCHANGED <<row, runs, worker>> /\ arq'.tries = arq.tries
    BY <1>6 DEF GiveUp, LockExpires, Evict, database, LInv, TInv, TypeOK, ArqRecords
  <2> QED
    BY <1>1, <2>1
<1>7. ASSUME NEW c \in Askers, AskGate(c) \/ AnswerGate(c) PROVE LInv'
  BY <1>1, <1>7 DEF AskGate, AnswerGate, database
<1> QED
  BY <1>2, <1>3, <1>4, <1>5, <1>6, <1>7, ProcessKeeps, PickKeeps DEF Next, Deliver

\* Whatever retries, redeliveries, concurrent attempts, rollbacks and cancellations hit the
\* job, its batch results account for all items and agree with the runs in the database.
THEOREM BatchResultsAreExact == Spec => []BatchIsExact
<1>1. Init => LInv
  <2>1. Init => Numbers /\ Ledger /\ Sealed /\ BatchIsExact
    BY RowAssumption DEF Init, Numbers, Ledger, Sealed, BatchIsExact, Asleep, Blank, Attempting
  <2> QED
    BY <2>1, InitTypes DEF LInv
<1>2. LInv /\ [Next]_vars => LInv'
  BY StepTypes, StepKeeps DEF LInv
<1>3. LInv => BatchIsExact
  BY DEF LInv
<1> QED
  BY <1>1, <1>2, <1>3, PTL DEF Spec
=============================================================================
