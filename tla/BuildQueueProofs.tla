-------------------------- MODULE BuildQueueProofs --------------------------
(* Proofs about BuildQueue, for any sets of processes, instances and cancel *)
(* calls and any number of slots.                                           *)
(*                                                                          *)
(* The slots: the inductive invariant IInv adds to the types (1) what a     *)
(* thread in the middle of run() knows: its process lives and its task      *)
(* exists, (2) the two directions of "held is the slot row of the run":     *)
(* every held slot is the run's row, and every row of a live process is     *)
(* held by its run.                                                         *)
(*                                                                          *)
(* The rows of build_tasks, and what cancel() says of the builds: RecInv    *)
(* adds to IInv (1) that the tokens of the runs are distinct and the oldest *)
(* come first, (2) that the instance lock lets one run in, (3) for every    *)
(* run, how far its task, its row and its control point may lie apart       *)
(* (RunRec), and (4) what a call of cancel that was answered in its own     *)
(* process has left behind.                                                 *)
EXTENDS BuildQueue, FiniteSetTheorems, TLAPS

(***************************************************************************)
(* The slots.                                                              *)
(***************************************************************************)

RunInv ==
    \A r \in Run : pc[r] # "idle" => Pid(r) \in alive /\ mem[r] \in Task

(* No slot yet, or none any more. *)
NoSlotPc == {"idle", "persistQ", "try0", "check0", "markQ", "wait", "check1"}

SlotInv ==
    /\ \A r \in Run : pc[r] \in HoldingPc => held[r] # NoSlot
    /\ \A r \in Run : pc[r] \in NoSlotPc => held[r] = NoSlot
    /\ \A r \in Run : held[r] # NoSlot =>
          /\ Pid(r) \in alive
          /\ slots[held[r]] = [inst |-> Of(r), pid |-> Pid(r)]
    /\ NoSlotLeak

IInv == TypeOK /\ RunInv /\ SlotInv

-----------------------------------------------------------------------------
(* Types of the gate's operators                                            *)

(* upsert_build_task leaves a well-formed row. *)
LEMMA UpsertedType ==
    ASSUME NEW row \in Row \cup {NoRow}, NEW tok \in Token, NEW status \in Status,
           NEW owner \in Proc, NEW req \in BOOLEAN, NEW replace \in BOOLEAN
    PROVE  Upserted(row, tok, status, owner, req, replace) \in Row \cup {NoRow}
  <1>1. tok # NoTok
    BY DEF Token, NoTok
  <1>2. CASE row.tok = tok
    <2>1. row \in Row
      BY <1>1, <1>2 DEF NoRow
    <2>2. (row.req \/ req) \in BOOLEAN
      BY <2>1 DEF Row
    <2>3. [row EXCEPT !.status = status, !.owner = owner, !.req = @ \/ req] \in Row
      BY <2>1, <2>2 DEF Row
    <2> QED BY <1>2, <2>3 DEF Upserted
  <1>3. CASE row.tok # tok
    BY <1>3 DEF Row, Upserted
  <1> QED BY <1>2, <1>3

(* update_build_task with a status leaves a well-formed row. *)
LEMMA UpdatedType ==
    ASSUME NEW row \in Row \cup {NoRow}, NEW tok, NEW status \in Status, NEW req \in BOOLEAN
    PROVE  Updated(row, tok, status, req) \in Row \cup {NoRow}
  <1>1. CASE row \in Row
    BY <1>1 DEF Row, Updated
  <1>2. CASE row = NoRow
    BY <1>2 DEF Updated, NoRow
  <1> QED BY <1>1, <1>2

(* update_build_task with a worker leaves a well-formed row. *)
LEMMA WithWorkerType ==
    ASSUME NEW row \in Row \cup {NoRow}, NEW tok, NEW wk \in Token \cup {NoTok}
    PROVE  WithWorker(row, tok, wk) \in Row \cup {NoRow}
  BY DEF WithWorker, Row, NoRow, Token, NoTok

(* _reclaim_dead leaves well-formed rows and collects workers of rows. *)
LEMMA LiveRowType ==
    ASSUME NEW row \in Row \cup {NoRow}, NEW live
    PROVE  LiveRow(row, live) \in Row \cup {NoRow}
  <1>1. CASE row \in Row
    BY <1>1 DEF Row, Status, Terminal, LiveRow
  <1>2. CASE row = NoRow
    BY <1>2 DEF LiveRow, Orphaned, NoRow, Active
  <1> QED BY <1>1, <1>2

(* The workers collected by _reclaim_dead are workers of builds. *)
LEMMA OrphanWorkersType ==
    ASSUME NEW rs \in [Inst -> Row \cup {NoRow}], NEW live
    PROVE  OrphanWorkers(rs, live) \subseteq Token
  BY DEF OrphanWorkers, Orphaned, Row, NoRow, NoTok, Active

(* A signal leaves the workers well-typed. *)
LEMMA KilledType ==
    ASSUME TypeOK, NEW ts
    PROVE  Killed(ts) \in [Token -> {"none", "running", "exited", "killed"}]
  BY DEF TypeOK, Killed

(* _persist_task, when it writes and when it raises. *)
LEMMA PersistType ==
    ASSUME TypeOK, NEW r \in Run, mem[r] \in Task, NEW status \in Status,
           NEW req \in BOOLEAN, NEW replace \in BOOLEAN,
           TryPersist(r, status, req, replace)
    PROVE  rows' \in [Inst -> Row \cup {NoRow}] /\ dbFails' \in 0 .. MaxDbFail
  <1>1. CASE Persist(r, status, req, replace)
    BY UpsertedType, <1>1 DEF TypeOK, Run, Of, Pid, Task, TokOf, Persist
  <1>2. CASE PersistFails
    BY <1>2, QueueAssumption DEF PersistFails, TypeOK
  <1> QED BY <1>1, <1>2 DEF TryPersist

(* Changing the fields of an existing task. *)
LEMMA MemType ==
    ASSUME TypeOK, NEW r \in Run, mem[r] \in Task, NEW s \in Status, NEW b \in BOOLEAN,
           \/ mem' = [mem EXCEPT ![r].status = s]
           \/ mem' = [mem EXCEPT ![r].status = s, ![r].req = b]
    PROVE  /\ mem' \in [Run -> Task \cup {NoTask}]
           /\ mem'[r] \in Task
           /\ \A q \in Run : q # r => mem'[q] = mem[q]
BY DEF Task, TypeOK

(* _finish_task_local(task, "cancelled") keeps the task and its row well-typed. *)
LEMMA FinishCancelledType ==
    ASSUME TypeOK, NEW r \in Run, mem[r] \in Task, FinishCancelled(r)
    PROVE  /\ mem' \in [Run -> Task \cup {NoTask}]
           /\ mem'[r] \in Task
           /\ \A q \in Run : q # r => mem'[q] = mem[q]
           /\ rows' \in [Inst -> Row \cup {NoRow}]
           /\ dbFails' \in 0 .. MaxDbFail
BY PersistType, MemType DEF Task, CancelRequested, FinishCancelled, Status, Terminal

-----------------------------------------------------------------------------
(* What a step that only moves a thread preserves                           *)

(* A thread that moves inside run() keeps its process and its task. *)
LEMMA GotoRun ==
    ASSUME IInv, NEW r \in Run, NEW l \in RunPc, Goto(r, l), alive' = alive,
           Pid(r) \in alive, mem'[r] \in Task,
           \A q \in Run : q # r => mem'[q] = mem[q]
    PROVE  RunInv' /\ pc' \in [Run -> RunPc]
  BY DEF IInv, TypeOK, RunInv, Goto, Pid

(* A move that changes no slot keeps the slot invariant, if it is to a place
   where the run holds a slot as it did. *)
LEMMA GotoSlot ==
    ASSUME IInv, NEW r \in Run, NEW l \in RunPc, Goto(r, l),
           UNCHANGED <<slots, held, alive>>,
           l \in HoldingPc => held[r] # NoSlot,
           l \in NoSlotPc => held[r] = NoSlot
    PROVE  SlotInv'
BY DEF IInv, TypeOK, Goto, SlotInv, NoSlotLeak

(* A step beside run() keeps the slot invariant. *)
LEMMA SameSlot ==
    ASSUME SlotInv, UNCHANGED <<slots, held, alive, pc>>
    PROVE  SlotInv'
  BY DEF SlotInv, NoSlotLeak

(* A thread in the middle of run(), its process and its task. *)
LEMMA AtTask ==
    ASSUME IInv, NEW r \in Run, NEW l, At(r, l), l # "idle"
    PROVE  /\ Pid(r) \in alive /\ mem[r] \in Task /\ pc[r] = l
           /\ Pid(r) \in Proc /\ Of(r) \in Inst /\ TokOf(r) \in Token
           /\ mem[r].req \in BOOLEAN /\ rows[Of(r)] \in Row \cup {NoRow}
  BY DEF IInv, TypeOK, RunInv, At, Run, Pid, Of, TokOf, Task

-----------------------------------------------------------------------------
(* run(): the queue                                                         *)

(* _register_task preserves the invariant. *)
LEMMA RegisterInv ==
    ASSUME IInv, NEW r \in Run, Register(r)
    PROVE  IInv'
  <1>1. Pid(r) \in alive /\ pc[r] = "idle" /\ lastTok + 1 \in Token /\ lastTok' \in 0 .. MaxBuild
    BY GateAssumption DEF Register, At, IInv, TypeOK, Token
  <1>2. [tok |-> lastTok + 1, status |-> "queued", req |-> FALSE] \in Task
    BY <1>1 DEF Task, Status, Active
  <1>3. mem' \in [Run -> Task \cup {NoTask}] /\ mem'[r] \in Task
           /\ \A q \in Run : q # r => mem'[q] = mem[q]
    BY <1>2 DEF Register, IInv, TypeOK
  <1>4. "persistQ" \in RunPc /\ "persistQ" \notin HoldingPc
    BY DEF RunPc, HoldingPc, BuilderPc
  <1>5. RunInv' /\ pc' \in [Run -> RunPc]
    BY <1>1, <1>3, <1>4, GotoRun DEF Register
  <1>6. TypeOK'
    BY <1>1, <1>3, <1>5 DEF Register, IInv, TypeOK, gate
  <1>7. SlotInv'
    BY <1>1, <1>4, GotoSlot DEF IInv, SlotInv, NoSlotPc, Register, gate
  <1> QED BY <1>5, <1>6, <1>7 DEF IInv

(* _try_acquire that commits: the new row goes to a slot that no live run   *)
(* holds, because the reclaim keeps the rows of live processes.             *)
LEMMA AcquireInv ==
    ASSUME IInv, NEW r \in Run, NEW l, At(r, l), l \in {"try0", "wait"}, Acquire(r)
    PROVE  IInv'
  <1> DEFINE sl == LiveSlots(slots, alive)
  <1>1. /\ Pid(r) \in alive /\ mem[r] \in Task /\ pc[r] = l
        /\ Pid(r) \in Proc /\ Of(r) \in Inst
    BY AtTask
  <1>2. PICK s \in Slot : /\ s \in FreeSlots(sl)
                         /\ slots' = [sl EXCEPT ![s] = [inst |-> Of(r), pid |-> Pid(r)]]
                         /\ held' = [held EXCEPT ![r] = s]
    BY DEF Acquire, IsNextSlot
  <1>3. /\ rows' = [i \in Inst |-> LiveRow(rows[i], alive)]
        /\ kills' = [kills EXCEPT ![Pid(r)] = @ \cup OrphanWorkers(rows, alive)]
        /\ Goto(r, "drain")
        /\ UNCHANGED <<alive, lastTok, mem, fin, flag, hub, worker, canc, dbFails>>
    BY DEF Acquire
  <1>4. held[r] = NoSlot
    BY <1>1 DEF IInv, SlotInv, NoSlotPc
  <1>5. "drain" \in RunPc /\ "drain" \in HoldingPc /\ "drain" \notin NoSlotPc
    BY DEF RunPc, HoldingPc, BuilderPc, NoSlotPc
  <1>6. RunInv' /\ pc' \in [Run -> RunPc]
    BY <1>1, <1>3, <1>5, GotoRun
  <1>7. sl \in [Slot -> Holder \cup {Free}] /\ [inst |-> Of(r), pid |-> Pid(r)] \in Holder
    BY <1>1 DEF IInv, TypeOK, LiveSlots, Holder
  <1>8. TypeOK'
    BY <1>2, <1>7, <1>3, LiveRowType, <1>1, OrphanWorkersType, <1>6 DEF IInv, TypeOK
  <1>9. SlotInv'
    <2>1. \A q \in Run : held'[q] = IF q = r THEN s ELSE held[q]
      BY <1>2 DEF IInv, TypeOK
    <2>2. \A q \in Run : pc'[q] = IF q = r THEN "drain" ELSE pc[q]
      BY <1>3 DEF IInv, TypeOK, Goto
    <2>3. sl[s] = Free /\ Free.pid \notin alive
      BY <1>2, GateAssumption DEF FreeSlots, Free, IInv, TypeOK
    <2>4. \A t \in Slot : slots'[t] = IF t = s THEN [inst |-> Of(r), pid |-> Pid(r)]
                                    ELSE sl[t]
      BY <1>2, <1>7
    <2>5. \A t \in Slot : slots[t].pid \in alive => sl[t] = slots[t]
      BY DEF LiveSlots
    <2>6. \A t \in Slot : sl[t].pid \in alive => sl[t] = slots[t]
      BY <2>3 DEF LiveSlots
    <2>7. \A q \in Run : q # r /\ held[q] # NoSlot =>
             /\ Pid(q) \in alive
             /\ held[q] # s
             /\ slots'[held[q]] = [inst |-> Of(q), pid |-> Pid(q)]
      BY <2>5, <2>3, <2>4 DEF IInv, SlotInv, TypeOK
    <2>8. s # NoSlot /\ slots'[s] = [inst |-> Of(r), pid |-> Pid(r)]
      BY <1>2, <2>4, GateAssumption DEF Slot, NoSlot
    <2>9. NoSlotLeak'
      <3> SUFFICES ASSUME NEW t \in Slot, slots'[t].pid \in alive
                   PROVE  held'[<<slots'[t].pid, slots'[t].inst>>] = t
        BY <1>3 DEF NoSlotLeak
      <3>1. CASE t = s
        BY <3>1, <2>8, <2>1 DEF Run, Pid, Of
      <3>2. CASE t # s
        <4>1. slots'[t] = slots[t]
          BY <3>2, <2>4, <2>6
        <4>2. held[<<slots[t].pid, slots[t].inst>>] = t
          BY <4>1 DEF IInv, SlotInv, NoSlotLeak
        <4>3. <<slots[t].pid, slots[t].inst>> \in Run
          BY <4>1, GateAssumption DEF IInv, TypeOK, Run, Holder, Free
        <4>4. <<slots[t].pid, slots[t].inst>> # r
          BY <4>2, <1>4 DEF Slot, NoSlot
        <4> QED BY <4>1, <4>2, <4>3, <4>4, <2>1
      <3> QED BY <3>1, <3>2
    <2> QED BY <1>1, <1>3, <1>5, <2>1, <2>2, <2>7, <2>8, <2>9 DEF IInv, SlotInv
  <1> QED BY <1>6, <1>8, <1>9 DEF IInv

(* The statuses the code writes. *)
LEMMA Statuses ==
    /\ "queued" \in Status /\ "building" \in Status /\ "cancelling" \in Status
    /\ "success" \in Status /\ "failed" \in Status /\ "cancelled" \in Status
    /\ "cancel_failed" \in Status
  BY DEF Status, Active, Terminal

(* Where a thread stands tells whether it holds a slot. *)
LEMMA PcKinds ==
    /\ RunPc = HoldingPc \cup RaisePc \cup NoSlotPc
    /\ NoSlotPc = {"idle", "persistQ", "try0", "check0", "markQ", "wait", "check1"}
    /\ RaisePc = {"exceptC", "except", "release"}
    /\ HoldingPc = {"builder", "spawned", "cmd", "cmdDone", "drain", "claimed", "persistB",
                    "enter", "finish", "persistS", "lost"}
  BY DEF RunPc, HoldingPc, BuilderPc, RaisePc, NoSlotPc

(* A step of run() that keeps the slots, moves its thread from l to m and   *)
(* writes at most its own task and the row of its instance.                 *)
LEMMA MoveInv ==
    ASSUME IInv, NEW r \in Run, NEW l, NEW m \in RunPc, At(r, l), l # "idle", Goto(r, m),
           UNCHANGED <<alive, slots, held, lastTok, canc>>,
           mem' \in [Run -> Task \cup {NoTask}], mem'[r] \in Task,
           \A q \in Run : q # r => mem'[q] = mem[q],
           rows' \in [Inst -> Row \cup {NoRow}],
           fin' \subseteq Token,
           flag' \in [Run -> BOOLEAN],
           hub' \in [Run -> Token \cup {NoTok}],
           kills' \in [Proc -> SUBSET Token],
           worker' \in [Token -> {"none", "running", "exited", "killed"}],
           dbFails' \in 0 .. MaxDbFail,
           m \in HoldingPc => l \in HoldingPc,
           m \in NoSlotPc => l \in NoSlotPc
    PROVE  IInv'
BY AtTask, GotoRun, GotoSlot DEF IInv, TypeOK, SlotInv

(* The types a step leaves alone, and those of the values it may write. *)
LEMMA OldTypes ==
    ASSUME IInv
    PROVE  /\ TypeOK
           /\ mem \in [Run -> Task \cup {NoTask}] /\ rows \in [Inst -> Row \cup {NoRow}]
           /\ fin \subseteq Token /\ flag \in [Run -> BOOLEAN]
           /\ hub \in [Run -> Token \cup {NoTok}] /\ kills \in [Proc -> SUBSET Token]
           /\ worker \in [Token -> {"none", "running", "exited", "killed"}]
           /\ dbFails \in 0 .. MaxDbFail
  BY DEF IInv, TypeOK

(* _try_acquire without a free slot collects well-typed kills. *)
LEMMA NoSlotLeftType ==
    ASSUME IInv, NEW r \in Run, NoSlotLeft(r)
    PROVE  kills' \in [Proc -> SUBSET Token]
  BY OrphanWorkersType DEF NoSlotLeft, IInv, TypeOK, Run, Pid

(* The wait for a slot (acquire, its polling and its time-out) preserves the
   invariant. *)
LEMMA QueueStepInv ==
    ASSUME IInv, NEW r \in Run, QueueStep(r)
    PROVE  IInv'
  <1> USE OldTypes, Statuses, PcKinds
  <1>1. CASE PersistQueued(r)
    BY <1>1, AtTask, PersistType, MoveInv DEF PersistQueued
  <1>2. CASE TryAcquire0(r)
    BY <1>2, AcquireInv, AtTask, NoSlotLeftType, MoveInv DEF TryAcquire0, gate
  <1>3. CASE CheckQueued(r)
    BY <1>3, AtTask, FinishCancelledType, MoveInv DEF CheckQueued
  <1>4. CASE MarkQueued(r)
    BY <1>4, AtTask, PersistType, MoveInv DEF MarkQueued
  <1>5. CASE WaitForSlot(r)
    BY <1>5, AcquireInv, AtTask, NoSlotLeftType, MoveInv DEF WaitForSlot, gate
  <1>6. CASE CheckTimeout(r)
    <2>1. At(r, "check1")
      BY <1>6 DEF CheckTimeout
    <2>2. mem[r] \in Task /\ mem[r].req \in BOOLEAN /\ TokOf(r) \in Token
      BY <2>1, AtTask
    <2>3. /\ mem' \in [Run -> Task \cup {NoTask}] /\ mem'[r] \in Task
          /\ \A q \in Run : q # r => mem'[q] = mem[q]
          /\ rows' \in [Inst -> Row \cup {NoRow}]
          /\ dbFails' \in 0 .. MaxDbFail
      <3>1. CASE FinishCancelled(r)
        BY <3>1, <2>2, FinishCancelledType
      <3>2. CASE /\ mem' = [mem EXCEPT ![r].status = "failed"]
                 /\ TryPersist(r, "failed", mem[r].req, FALSE)
        <4> FALSE \in BOOLEAN
          OBVIOUS
        <4>1. rows' \in [Inst -> Row \cup {NoRow}] /\ dbFails' \in 0 .. MaxDbFail
          BY <3>2, <2>2, PersistType
        <4> QED BY <4>1, <3>2, <2>2, MemType
      <3> QED BY <1>6, <3>1, <3>2 DEF CheckTimeout
    <2> QED BY <1>6, <2>1, <2>2, <2>3, MoveInv DEF CheckTimeout
  <1>7. CASE DrainKills(r)
    BY <1>7, AtTask, KilledType, MoveInv DEF DrainKills, gate
  <1> QED BY <1>1, <1>2, <1>3, <1>4, <1>5, <1>6, <1>7 DEF QueueStep

-----------------------------------------------------------------------------
(* run(): the build and its end                                             *)

(* exit_build_context keeps the hub well-typed. *)
LEMMA ExitContextType ==
    ASSUME IInv, NEW r \in Run, ExitContext(r)
    PROVE  flag' \in [Run -> BOOLEAN] /\ hub' \in [Run -> Token \cup {NoTok}]
  BY OldTypes DEF ExitContext

(* _persist_worker and _clear_worker keep the rows well-typed. *)
LEMMA WithWorkerRows ==
    ASSUME IInv, NEW r \in Run, NEW tok, NEW wk \in Token \cup {NoTok},
           rows' = [rows EXCEPT ![Of(r)] = WithWorker(@, tok, wk)]
    PROVE  rows' \in [Inst -> Row \cup {NoRow}]
  BY OldTypes, WithWorkerType DEF Run, Of

(* The builder, its command and the end of the build preserve the invariant. *)
LEMMA BuildStepInv ==
    ASSUME IInv, NEW r \in Run, BuildStep(r) \/ SpawnWorker(r) \/ CommandTimeout(r)
    PROVE  IInv'
  <1> USE OldTypes, Statuses, PcKinds
  <1>1. CASE StartBuilding(r)
    BY <1>1, AtTask, FinishCancelledType, MoveInv, MemType DEF StartBuilding
  <1>2. CASE PersistBuilding(r)
    BY <1>2, AtTask, PersistType, MoveInv, QueueAssumption DEF PersistBuilding, TryPersist,
           PersistFails
  <1>3. CASE PersistLost(r)
    BY <1>3, AtTask, FinishCancelledType, MoveInv DEF PersistLost
  <1>4. CASE EnterContext(r)
    BY <1>4, AtTask, OldTypes, MoveInv DEF EnterContext, gate, local
  <1>5. CASE RegisterWorker(r)
    BY <1>5, AtTask, OldTypes, WithWorkerRows, MoveInv DEF RegisterWorker, gate, local
  <1>6. CASE KillWorker(r) \/ CommandTimeout(r)
    BY <1>6, KilledType, SameSlot DEF KillWorker, CommandTimeout, IInv, TypeOK, RunInv, gate,
           local
  <1>7. CASE CommandEnds(r)
    BY <1>7, AtTask, OldTypes, WithWorkerRows, MoveInv DEF CommandEnds, gate, local
  <1>8. CASE CommandResult(r)
    BY <1>8, AtTask, ExitContextType, MoveInv DEF CommandResult, gate
  <1>9. CASE BuilderEnds(r)
    BY <1>9, AtTask, ExitContextType, MoveInv DEF BuilderEnds, gate
  <1>10. CASE FinishBuild(r)
    BY <1>10, AtTask, FinishCancelledType, MoveInv, MemType DEF FinishBuild
  <1>11. CASE PersistSuccess(r)
    BY <1>11, AtTask, PersistType, MoveInv, QueueAssumption DEF PersistSuccess, TryPersist,
           PersistFails
  <1>12. CASE SpawnWorker(r)
    BY <1>12, AtTask, OldTypes, MoveInv DEF SpawnWorker, gate, local
  <1> QED BY <1>1, <1>2, <1>3, <1>4, <1>5, <1>6, <1>7, <1>8, <1>9, <1>10, <1>11, <1>12
          DEF BuildStep

(* The finally clause: the run's own row goes, every other row stays.       *)
LEMMA ReleaseSlotInv ==
    ASSUME IInv, NEW r \in Run, ReleaseSlot(r)
    PROVE  IInv'
  <1> USE OldTypes, PcKinds
  <1> DEFINE whole == mem[r].status \in {"cancelled", "cancel_failed"}
  <1>1. At(r, "release")
    BY DEF ReleaseSlot
  <1>2. /\ Pid(r) \in alive /\ mem[r] \in Task /\ TokOf(r) \in Token /\ pc[r] = "release"
        /\ Pid(r) \in Proc /\ Of(r) \in Inst
    BY <1>1, AtTask
  <1>3. /\ slots' = Released(slots, held[r], Of(r), Pid(r), whole)
        /\ held' = [held EXCEPT ![r] = NoSlot]
        /\ fin' = fin \cup {TokOf(r)}
        /\ Goto(r, "idle")
        /\ UNCHANGED <<alive, rows, lastTok, mem, flag, hub, kills, worker, canc, dbFails>>
    BY DEF ReleaseSlot
  <1>4. RunInv' /\ pc' \in [Run -> RunPc]
    BY <1>2, <1>3, GotoRun
  <1>5. slots' \in [Slot -> Holder \cup {Free}] /\ held' \in [Run -> Slot \cup {NoSlot}]
    BY <1>3 DEF TypeOK, Released
  <1>6. TypeOK'
    BY <1>2, <1>3, <1>4, <1>5 DEF TypeOK
  <1>7. SlotInv'
    <2>1. \A q \in Run : held'[q] = IF q = r THEN NoSlot ELSE held[q]
      BY <1>3 DEF TypeOK
    <2>2. \A q \in Run : pc'[q] = IF q = r THEN "idle" ELSE pc[q]
      BY <1>3 DEF TypeOK, Goto
    <2>3. \A t \in Slot : slots'[t] =
             IF slots[t].pid = Pid(r) /\ (t = held[r] \/ (whole /\ slots[t].inst = Of(r)))
             THEN Free ELSE slots[t]
      BY <1>3 DEF Released
    <2>4. \A q \in Run : q # r /\ held[q] # NoSlot =>
             Pid(q) \in alive /\ slots'[held[q]] = [inst |-> Of(q), pid |-> Pid(q)]
      <3> SUFFICES ASSUME NEW q \in Run, q # r, held[q] # NoSlot
                   PROVE  /\ Pid(q) \in alive
                          /\ slots'[held[q]] = [inst |-> Of(q), pid |-> Pid(q)]
        OBVIOUS
      <3>1. Pid(q) \in alive /\ held[q] \in Slot
               /\ slots[held[q]] = [inst |-> Of(q), pid |-> Pid(q)]
        BY DEF IInv, SlotInv, TypeOK
      <3>2. ~(Pid(q) = Pid(r) /\ Of(q) = Of(r))
        BY DEF Run, Pid, Of
      <3>3. ~(Pid(q) = Pid(r) /\ held[q] = held[r])
        <4> SUFFICES ASSUME Pid(q) = Pid(r), held[q] = held[r]
                     PROVE  FALSE
          OBVIOUS
        <4>1. slots[held[q]] = [inst |-> Of(r), pid |-> Pid(r)]
          BY DEF IInv, SlotInv
        <4> QED BY <3>1, <3>2, <4>1
      <3> QED BY <3>1, <3>2, <3>3, <2>3
    <2>5. NoSlotLeak'
      BY <1>3, <2>3, GateAssumption, <2>1 DEF NoSlotLeak, Free, TypeOK, IInv, SlotInv, Run,
             Holder, Pid
    <2> QED BY <1>3, <2>1, <2>2, <2>4, <2>5 DEF IInv, SlotInv
  <1> QED BY <1>4, <1>6, <1>7 DEF IInv

(* The except and finally clauses of run() preserve the invariant. *)
LEMMA EndStepInv ==
    ASSUME IInv, NEW r \in Run, EndStep(r)
    PROVE  IInv'
  <1> USE OldTypes, Statuses, PcKinds
  <1>1. CASE OnCancelled(r)
    <2>1. At(r, "exceptC")
      BY <1>1 DEF OnCancelled
    <2>2. mem[r] \in Task /\ mem[r].req \in BOOLEAN
      BY <2>1, AtTask
    <2>3. rows' \in [Inst -> Row \cup {NoRow}] /\ dbFails' \in 0 .. MaxDbFail
      BY <1>1, <2>2, PersistType DEF OnCancelled
    <2>4. /\ mem' \in [Run -> Task \cup {NoTask}] /\ mem'[r] \in Task
          /\ \A q \in Run : q # r => mem'[q] = mem[q]
      BY <1>1, <2>2, MemType DEF OnCancelled
    <2> QED BY <1>1, <2>1, <2>3, <2>4, MoveInv DEF OnCancelled
  <1>2. CASE OnError(r)
    <2> DEFINE st == IF mem[r].status \in {"cancelled", "cancelling"} THEN "cancelled"
                     ELSE "failed"
    <2>1. At(r, "except") /\ st \in Status
      BY <1>2 DEF OnError
    <2>2. mem[r] \in Task /\ mem[r].req \in BOOLEAN
      BY <2>1, AtTask
    <2>3. mem' = [mem EXCEPT ![r].status = st] /\ TryPersist(r, st, mem[r].req, FALSE)
      BY <1>2 DEF OnError
    <2> HIDE DEF st
    <2>4. rows' \in [Inst -> Row \cup {NoRow}] /\ dbFails' \in 0 .. MaxDbFail
      BY <2>1, <2>2, <2>3, PersistType
    <2>5. /\ mem' \in [Run -> Task \cup {NoTask}] /\ mem'[r] \in Task
          /\ \A q \in Run : q # r => mem'[q] = mem[q]
      BY <2>1, <2>2, <2>3, MemType
    <2> QED BY <1>2, <2>1, <2>4, <2>5, MoveInv DEF OnError
  <1>3. CASE ReleaseSlot(r)
    BY <1>3, ReleaseSlotInv
  <1> QED BY <1>1, <1>2, <1>3 DEF EndStep

-----------------------------------------------------------------------------
(* cancel()                                                                 *)

(* A step that leaves the slots and the threads of run() alone. *)
LEMMA AsideInv ==
    ASSUME IInv,
           UNCHANGED <<alive, slots, lastTok, pc, held, fin, hub, kills>>,
           mem' \in [Run -> Task \cup {NoTask}],
           \A r \in Run : mem[r] \in Task => mem'[r] \in Task,
           rows' \in [Inst -> Row \cup {NoRow}],
           flag' \in [Run -> BOOLEAN],
           worker' \in [Token -> {"none", "running", "exited", "killed"}],
           canc' \in [Cancels -> CancelRec],
           dbFails' \in 0 .. MaxDbFail
    PROVE  IInv'
BY SameSlot DEF IInv, TypeOK, RunInv

(* A call of cancel is made by a run's process, for the run's instance. *)
LEMMA CancelTypes ==
    ASSUME IInv, NEW c \in Cancels
    PROVE  /\ c[1] \in Run /\ Inst_(c) \in Inst /\ canc[c] \in CancelRec
           /\ rows[Inst_(c)] \in Row \cup {NoRow} /\ TaskOf(c) \in Task \cup {NoTask}
           /\ canc \in [Cancels -> CancelRec]
           /\ canc[c].tok \in Token \cup {NoTok} /\ canc[c].seen \in Token \cup {NoTok}
           /\ canc[c].prev \in Status \cup {"none"}
           /\ canc[c].outcome \in Outcome
  BY QueueAssumption DEF IInv, TypeOK, Run, Of, Inst_, TaskOf, CancelRec

(* The bookkeeping of a call: moving on, and reporting its outcome. *)
LEMMA CancelRecType ==
    ASSUME IInv, NEW c \in Cancels, NEW l \in CancelPc, NEW o \in Outcome,
           Step(c, l) \/ Report(c, o)
    PROVE  canc' \in [Cancels -> CancelRec]
BY CancelTypes DEF CancelPc, CancelRec, Step, Report

(* The outcomes and the places of a call of cancel. *)
LEMMA CancelWords ==
    /\ "cancelled" \in Outcome /\ "already_done" \in Outcome /\ "cancel_failed" \in Outcome
    /\ "noop" \in Outcome
    /\ CancelPc = {"start", "hub", "signal", "wait", "read", "mark", "markRow",
                   "xread", "xqueued", "xmark", "xsignal", "xpoll", "done", "dead"}
    /\ \A status : TerminalOutcome(status) \in Outcome
BY DEF Outcome, TerminalOutcome, CancelPc

(* An update of a row by a canceller leaves well-formed rows. *)
LEMMA UpdatedRows ==
    ASSUME IInv, NEW i \in Inst, NEW tok, NEW status \in Status, NEW req \in BOOLEAN,
           rows' = [rows EXCEPT ![i] = Updated(@, tok, status, req)]
    PROVE  rows' \in [Inst -> Row \cup {NoRow}]
  BY OldTypes, UpdatedType

(* The calls answered by the process that runs the build. *)
LEMMA LocalCancelInv ==
    ASSUME IInv, NEW c \in Cancels, LocalCancel(c)
    PROVE  IInv'
  <1> USE OldTypes, Statuses
  <1>1. /\ c[1] \in Run /\ Inst_(c) \in Inst /\ canc[c] \in CancelRec
        /\ TaskOf(c) \in Task \cup {NoTask} /\ canc \in [Cancels -> CancelRec]
        /\ TRUE \in BOOLEAN /\ FALSE \in BOOLEAN
    BY CancelTypes
  <1>2. CASE CancelFinished(c)
    <2>1. TaskOf(c) \in Task
      BY <1>1, <1>2 DEF CancelFinished, NoTask, Terminal
    <2>2. [canc[c] EXCEPT !.pc = "done", !.tok = TaskOf(c).tok, !.prev = TaskOf(c).status,
                          !.outcome = TerminalOutcome(TaskOf(c).status)] \in CancelRec
      BY <1>1, <2>1, CancelWords DEF CancelRec, Task
    <2>3. canc' \in [Cancels -> CancelRec]
      BY <1>1, <1>2, <2>2 DEF CancelFinished
    <2> QED BY <1>2, <2>3, AsideInv DEF CancelFinished, gate, local
  <1>3. CASE CancelQueued(c)
    <2>1. TaskOf(c) \in Task
      BY <1>1, <1>3 DEF CancelQueued, NoTask
    <2>2. [canc[c] EXCEPT !.pc = "done", !.tok = TaskOf(c).tok, !.prev = "queued",
                          !.outcome = "cancelled"] \in CancelRec
      BY <1>1, <2>1, CancelWords DEF CancelRec, Task
    <2>3. canc' \in [Cancels -> CancelRec]
      BY <1>1, <1>3, <2>2 DEF CancelQueued
    <2>4. rows' \in [Inst -> Row \cup {NoRow}] /\ dbFails' \in 0 .. MaxDbFail
      BY <1>1, <1>3, <2>1, PersistType DEF CancelQueued, TaskOf
    <2>5. /\ mem' \in [Run -> Task \cup {NoTask}] /\ mem'[c[1]] \in Task
          /\ \A q \in Run : q # c[1] => mem'[q] = mem[q]
      BY <1>1, <1>3, <2>1, MemType DEF CancelQueued, TaskOf
    <2> QED BY <1>3, <2>3, <2>4, <2>5, AsideInv DEF CancelQueued
  <1>4. CASE CancelBuilding(c)
    <2>1. TaskOf(c) \in Task
      BY <1>1, <1>4 DEF CancelBuilding, NoTask
    <2>2. [canc[c] EXCEPT !.pc = "hub", !.tok = TaskOf(c).tok, !.prev = TaskOf(c).status]
             \in CancelRec
      BY <1>1, <2>1, CancelWords DEF CancelRec, Task
    <2>3. canc' \in [Cancels -> CancelRec]
      BY <1>1, <1>4, <2>2 DEF CancelBuilding
    <2>4. CASE /\ mem' = [mem EXCEPT ![c[1]].status = "cancelling", ![c[1]].req = TRUE]
               /\ TryPersist(c[1], "cancelling", TRUE, FALSE)
      BY <1>1, <2>4, <2>1, PersistType, MemType, <1>4, <2>3, AsideInv DEF TaskOf, CancelBuilding
    <2>5. CASE UNCHANGED <<mem, rows, dbFails>>
      BY <1>4, <2>3, <2>5, AsideInv DEF CancelBuilding
    <2> QED BY <1>4, <2>4, <2>5 DEF CancelBuilding
  <1>5. CASE HubCancel(c)
    BY <1>5, CancelWords, CancelRecType, KilledType, AsideInv DEF HubCancel, gate
  <1>6. CASE SignalRow(c)
    BY <1>6, CancelWords, CancelRecType, KilledType, AsideInv DEF SignalRow, gate, local
  <1>7. CASE BuildFinished(c) \/ WaitTimeout(c)
    BY <1>7, CancelWords, CancelRecType, AsideInv DEF BuildFinished, WaitTimeout, gate, local
  <1>8. CASE ReadFinal(c)
    <2>1. TaskOf(c).tok \in Token \cup {NoTok}
      BY <1>1 DEF Task, NoTask
    <2>2. /\ [canc[c] EXCEPT !.pc = "done", !.outcome = "cancelled"] \in CancelRec
          /\ [canc[c] EXCEPT !.pc = "done", !.outcome = "already_done"] \in CancelRec
          /\ [canc[c] EXCEPT !.pc = "mark", !.seen = TaskOf(c).tok] \in CancelRec
      BY <1>1, <2>1, CancelWords DEF CancelRec
    <2>3. canc' \in [Cancels -> CancelRec]
      BY <1>1, <1>8, <2>2 DEF ReadFinal
    <2> QED BY <1>8, <2>3, AsideInv DEF ReadFinal, gate, local
  <1>9. CASE MarkCancelFailed(c)
    <2>1. canc' \in [Cancels -> CancelRec]
      BY <1>9, CancelWords, CancelRecType DEF MarkCancelFailed
    <2> DEFINE st == IF TaskOf(c).tok = canc[c].seen /\ TaskOf(c).status = "cancelling"
                     THEN "cancel_failed" ELSE TaskOf(c).status
    <2>2. mem' = [mem EXCEPT ![c[1]].status = st]
      BY <1>9 DEF MarkCancelFailed, TaskOf
    <2>3. CASE TaskOf(c) \in Task
      <3>1. st \in Status
        BY <2>3 DEF Task
      <3> HIDE DEF st
      <3>2. /\ mem' \in [Run -> Task \cup {NoTask}] /\ mem'[c[1]] \in Task
            /\ \A q \in Run : q # c[1] => mem'[q] = mem[q]
        BY <1>1, <2>2, <2>3, <3>1, MemType DEF TaskOf
      <3> QED BY <1>9, <2>1, <3>2, AsideInv DEF MarkCancelFailed, gate
    <2>4. CASE TaskOf(c) = NoTask
      <3>1. st = NoTask.status
        BY <2>4 DEF NoTask
      <3>2. [NoTask EXCEPT !.status = NoTask.status] = NoTask
        BY DEF NoTask
      <3>3. mem' = mem
        BY <1>1, <2>2, <2>4, <3>1, <3>2 DEF TaskOf
      <3> QED BY <1>9, <2>1, <3>3, AsideInv DEF MarkCancelFailed, gate
    <2> QED BY <1>1, <2>3, <2>4
  <1>10. CASE MarkRowFailed(c)
    BY <1>10, CancelWords, CancelRecType, <1>1, UpdatedRows, AsideInv DEF MarkRowFailed, local
  <1> QED BY <1>2, <1>3, <1>4, <1>5, <1>6, <1>7, <1>8, <1>9, <1>10 DEF LocalCancel

(* The calls that find the build in another process. *)
LEMMA RemoteCancelInv ==
    ASSUME IInv, NEW c \in Cancels, RemoteCancel(c)
    PROVE  IInv'
  <1> USE OldTypes, Statuses
  <1>1. /\ c[1] \in Run /\ Inst_(c) \in Inst /\ canc[c] \in CancelRec
        /\ rows[Inst_(c)] \in Row \cup {NoRow} /\ canc \in [Cancels -> CancelRec]
        /\ TRUE \in BOOLEAN /\ FALSE \in BOOLEAN
    BY CancelTypes
  <1>2. CASE CancelElsewhere(c)
    BY <1>2, CancelWords, CancelRecType, AsideInv DEF CancelElsewhere, gate, local
  <1>3. CASE ReadRow(c)
    <2> DEFINE row == rows[Inst_(c)]
    <2>1. CASE row = NoRow
      <3>1. [canc[c] EXCEPT !.pc = "done", !.outcome = "noop"] \in CancelRec
        BY <1>1, CancelWords DEF CancelRec
      <3>2. canc' = [canc EXCEPT ![c] = [@ EXCEPT !.pc = "done", !.outcome = "noop"]]
        BY <1>3, <2>1 DEF ReadRow, NoRow, Terminal
      <3>3. canc' \in [Cancels -> CancelRec]
        BY <1>1, <3>1, <3>2
      <3> QED BY <1>3, <3>3, AsideInv DEF ReadRow, gate, local
    <2>2. CASE row # NoRow
      BY <1>1, <2>2, CancelWords, <1>3, AsideInv DEF Row, CancelRec, CancelPc, ReadRow, row, gate,
             local
    <2> QED BY <2>1, <2>2
  <1>4. CASE CancelQueuedRow(c)
    BY <1>4, CancelWords, CancelRecType, <1>1, UpdatedRows, AsideInv DEF CancelQueuedRow, local
  <1>5. CASE MarkRowCancelling(c)
    BY <1>5, CancelWords, CancelRecType, <1>1, UpdatedRows, AsideInv DEF MarkRowCancelling, local
  <1>6. CASE SignalWorker(c)
    BY <1>6, KilledType, CancelWords, CancelRecType, <1>1, UpdatedRows, AsideInv DEF SignalWorker,
           local
  <1>7. CASE PollRow(c)
    BY <1>7, CancelWords, CancelRecType, AsideInv DEF PollRow, gate, local
  <1>8. CASE PollTimeout(c)
    BY <1>8, CancelWords, CancelRecType, <1>1, UpdatedRows, AsideInv DEF PollTimeout, local
  <1> QED BY <1>2, <1>3, <1>4, <1>5, <1>6, <1>7, <1>8 DEF RemoteCancel

-----------------------------------------------------------------------------
(* The environment, and the theorems                                        *)

(* A process dies: its runs hold nothing any more, its slot rows stay, but  *)
(* they are no longer the rows of a live process.                           *)
LEMMA CrashInv ==
    ASSUME IInv, NEW p \in Proc, Crash(p)
    PROVE  IInv'
  <1>1. /\ alive' = alive \ {p}
        /\ mem' = [r \in Run |-> IF Pid(r) = p THEN NoTask ELSE mem[r]]
        /\ pc' = [r \in Run |-> IF Pid(r) = p THEN "idle" ELSE pc[r]]
        /\ held' = [r \in Run |-> IF Pid(r) = p THEN NoSlot ELSE held[r]]
        /\ flag' = [r \in Run |-> Pid(r) # p /\ flag[r]]
        /\ hub' = [r \in Run |-> IF Pid(r) = p THEN NoTok ELSE hub[r]]
        /\ kills' = [kills EXCEPT ![p] = {}]
        /\ canc' = [c \in Cancels |-> IF Pid(c[1]) = p /\ canc[c].pc # "done"
                                      THEN [canc[c] EXCEPT !.pc = "dead"] ELSE canc[c]]
        /\ UNCHANGED <<slots, rows, lastTok, fin, worker, dbFails>>
    BY DEF Crash, gate
  <1>2. TypeOK'
    <2>1. alive' \subseteq Proc /\ mem' \in [Run -> Task \cup {NoTask}]
             /\ held' \in [Run -> Slot \cup {NoSlot}]
             /\ hub' \in [Run -> Token \cup {NoTok}] /\ kills' \in [Proc -> SUBSET Token]
      BY <1>1 DEF IInv, TypeOK
    <2>2. pc' \in [Run -> RunPc]
      BY <1>1 DEF IInv, TypeOK, RunPc
    <2>3. flag' \in [Run -> BOOLEAN]
      BY <1>1 DEF IInv, TypeOK
    <2>4. canc' \in [Cancels -> CancelRec]
      <3>1. \A c \in Cancels : canc[c] \in CancelRec
        BY CancelTypes
      <3>2. \A c \in Cancels : [canc[c] EXCEPT !.pc = "dead"] \in CancelRec
        BY <3>1, CancelWords DEF CancelRec
      <3> QED BY <1>1, <3>1, <3>2
    <2> QED BY <1>1, <2>1, <2>2, <2>3, <2>4 DEF IInv, TypeOK
  <1>3. RunInv'
    BY <1>1 DEF IInv, RunInv
  <1>4. SlotInv'
    BY PcKinds, <1>1, GateAssumption DEF NoSlotLeak, IInv, SlotInv, TypeOK, Run, Holder, Free, Pid
  <1> QED BY <1>2, <1>3, <1>4 DEF IInv

(* The initial state satisfies the inductive invariant. *)
LEMMA InitInv == Init => IInv
BY GateAssumption, QueueAssumption, PcKinds DEF NewCancel, CancelRec, CancelPc, Outcome, Init,
       TypeOK, RunPc, RunInv, SlotInv, NoSlotLeak, Free, IInv

(* Every step of every thread, canceller, worker and crash preserves it. *)
LEMMA NextInv == IInv /\ [Next]_vars => IInv'
BY QueueStepInv, BuildStepInv, EndStepInv, LocalCancelInv, RemoteCancelInv, RegisterInv, OldTypes,
   SameSlot, CrashInv DEF RunStep, CancelStep, WorkerExits, IInv, TypeOK, RunInv, gate, local,
       vars, Next, EnvStep

(* The inductive invariant holds in every reachable state of the queue. *)
THEOREM Invariant == Spec => []IInv
  BY InitInv, NextInv, PTL DEF Spec

(* Every table, task and thread keeps its type (build_queue.py). *)
THEOREM TypeCorrect == Spec => []TypeOK
  <1>1. IInv => TypeOK
    BY DEF IInv
  <1> QED BY <1>1, Invariant, PTL

(* No reclaim of dead holders and no release of another run takes the slot  *)
(* of a running build away (_reclaim_dead, release).                        *)
THEOREM SlotsKept == Spec => []SlotKept
  <1>1. IInv => SlotKept
    BY DEF IInv, SlotInv, SlotKept
  <1> QED BY <1>1, Invariant, PTL

(* Whatever a cancel, a timeout or an error did, an idle live process       *)
(* occupies no slot: run() releases on every way out.                       *)
THEOREM NoLeak == Spec => []NoSlotLeak
  <1>1. IInv => NoSlotLeak
    BY DEF IInv, SlotInv
  <1> QED BY <1>1, Invariant, PTL

-----------------------------------------------------------------------------
(* The slots as permits                                                     *)

Holders == {r \in Run : held[r] # NoSlot}

(* Two runs that hold slots hold different ones, so no more runs than slots *)
(* hold one.                                                                *)
LEMMA HoldersBounded ==
    ASSUME IInv
    PROVE  IsFiniteSet(Holders) /\ Cardinality(Holders) <= Concurrency
  <1> DEFINE f == [r \in Holders |-> held[r]]
  <1>1. f \in Injection(Holders, Slot)
    <2>1. f \in [Holders -> Slot]
      BY DEF IInv, TypeOK, Holders
    <2>2. ASSUME NEW q \in Holders, NEW r \in Holders, f[q] = f[r]
          PROVE  q = r
      <3>1. [inst |-> Of(q), pid |-> Pid(q)] = [inst |-> Of(r), pid |-> Pid(r)]
        BY <2>2 DEF Holders, IInv, SlotInv
      <3>2. Of(q) = Of(r) /\ Pid(q) = Pid(r)
        BY <3>1
      <3> QED BY <3>2 DEF Holders, Run, Of, Pid
    <2> QED BY <2>1, <2>2 DEF Injection, IsInjective
  <1>2. IsFiniteSet(Slot) /\ Cardinality(Slot) = Concurrency
    BY GateAssumption, FS_Interval DEF Slot
  <1> HIDE DEF f
  <1> QED BY <1>1, <1>2, FS_Injection

(* buildConcurrency bounds the builders of all processes: who builds holds  *)
(* a slot.                                                                  *)
THEOREM BuildersStayBounded == Spec => []BuildersBounded
  <1>1. IInv => BuildersBounded
    BY HoldersBounded, FS_Subset, FS_CardinalityType, GateAssumption DEF Holders, HoldingPc, IInv,
           SlotInv, BuildersBounded
  <1> QED BY <1>1, Invariant, PTL

(* All that is said of the slots holds for every number of processes,       *)
(* instances, builds and slots (build_queue.py acquire, release,            *)
(* _reclaim_dead).                                                          *)
THEOREM SlotsStaySafe == Spec => []SlotsAreSafe
  <1>1. TypeOK /\ SlotKept /\ BuildersBounded /\ NoSlotLeak <=> SlotsAreSafe
    BY DEF SlotsAreSafe
  <1> QED BY <1>1, TypeCorrect, SlotsKept, BuildersStayBounded, NoLeak, PTL

(* Only _try_acquire gives a slot, one at a time, to a run without one.     *)
LEMMA HoldersStep ==
    ASSUME IInv, [Next]_vars
    PROVE  Holders' \subseteq Holders
           \/ \E r \in Run : r \notin Holders /\ Holders' = Holders \cup {r}
  <1>1. CASE UNCHANGED held
    BY <1>1 DEF Holders
  <1>2. ASSUME NEW r \in Run, QueueStep(r), held' # held
        PROVE  r \notin Holders /\ Holders' = Holders \cup {r}
    <2>1. Acquire(r) /\ (At(r, "try0") \/ At(r, "wait"))
      BY <1>2 DEF QueueStep, PersistQueued, TryAcquire0, CheckQueued, MarkQueued,
                  WaitForSlot, CheckTimeout, DrainKills
    <2>2. PICK s \in Slot : held' = [held EXCEPT ![r] = s]
      BY <2>1 DEF Acquire
    <2>3. held[r] = NoSlot /\ s # NoSlot
      BY <2>1, GateAssumption DEF At, IInv, SlotInv, NoSlotPc, Slot, NoSlot
    <2> QED BY <2>2, <2>3 DEF Holders, IInv, TypeOK
  <1>3. ASSUME NEW r \in Run, BuildStep(r) PROVE UNCHANGED held
    BY <1>3 DEF BuildStep, StartBuilding, PersistBuilding, PersistLost, EnterContext,
                RegisterWorker, KillWorker, CommandEnds, CommandResult, BuilderEnds,
                FinishBuild, PersistSuccess, local
  <1>4. ASSUME NEW r \in Run, EndStep(r) PROVE Holders' \subseteq Holders
    BY <1>4 DEF OnCancelled, OnError, Holders, ReleaseSlot, IInv, TypeOK, EndStep
  <1>5. ASSUME NEW c \in Cancels, LocalCancel(c) PROVE UNCHANGED held
    BY <1>5 DEF LocalCancel, CancelFinished, CancelQueued, CancelBuilding, HubCancel,
                SignalRow, BuildFinished, WaitTimeout, ReadFinal, MarkCancelFailed,
                MarkRowFailed, local
  <1>6. ASSUME NEW c \in Cancels, RemoteCancel(c) PROVE UNCHANGED held
    BY <1>6 DEF RemoteCancel, CancelElsewhere, ReadRow, CancelQueuedRow, MarkRowCancelling,
                SignalWorker, PollRow, PollTimeout, local
  <1>7. ASSUME NEW p \in Proc, Crash(p) PROVE Holders' \subseteq Holders
    BY <1>7 DEF Crash, Holders
  <1>8. CASE EnvStep
    BY <1>1, <1>7, <1>8 DEF Register, SpawnWorker, CommandTimeout, local, WorkerExits, EnvStep
  <1>9. CASE \E r \in Run : RunStep(r)
    BY <1>9, <1>1, <1>2, <1>3, <1>4 DEF RunStep
  <1>10. CASE \E c \in Cancels : CancelStep(c)
    BY <1>10, <1>1, <1>5, <1>6 DEF CancelStep
  <1>11. CASE UNCHANGED vars
    BY <1>11, <1>1 DEF vars
  <1> QED BY <1>8, <1>9, <1>10, <1>11 DEF Next

(* The semaphore counts with its own instance of Cardinality. *)
LEMMA SameCardinality == \A S : Permits!Cardinality(S) = Cardinality(S)
  BY DEF Permits!Cardinality, Cardinality

(* The gate implements the semaphore: the slot table, its reclaim of dead   *)
(* holders and the releases of run() hand out Concurrency permits.          *)
THEOREM GateImplementsSemaphore == Spec => GateIsSemaphore
  <1>1. Init => Permits!SemInit
    BY DEF Init, Permits!SemInit
  <1>2. IInv => IsFiniteSet(Holders) /\ Cardinality(Holders) <= Concurrency
    BY HoldersBounded
  <1>3. IInv' => IsFiniteSet(Holders)' /\ (Cardinality(Holders) <= Concurrency)'
    BY <1>2, PTL
  <1>4. IInv /\ IInv' /\ [Next]_vars => [Permits!SemNext]_Holders
    <2> SUFFICES ASSUME IInv, IInv', [Next]_vars
                 PROVE  Permits!SemNext
      OBVIOUS
    <2>1. CASE Holders' \subseteq Holders
      BY <2>1 DEF Permits!GiveBack, Holders, Permits!SemNext
    <2>2. CASE \E r \in Run : r \notin Holders /\ Holders' = Holders \cup {r}
      <3>1. PICK r \in Run : r \notin Holders /\ Holders' = Holders \cup {r}
        BY <2>2
      <3>2. IsFiniteSet(Holders) /\ Cardinality(Holders') <= Concurrency
        BY <1>3, HoldersBounded
      <3>3. Cardinality(Holders') = Cardinality(Holders) + 1
               /\ Cardinality(Holders) \in Nat
        BY <3>1, <3>2, FS_AddElement, FS_CardinalityType
      <3>4. Cardinality(Holders) < Concurrency
        BY <3>2, <3>3, GateAssumption
      <3>5. Permits!Grant(r)
        BY <3>1, <3>4, SameCardinality DEF Permits!Grant, Holders
      <3> QED BY <3>5 DEF Permits!SemNext
    <2> QED BY <2>1, <2>2, HoldersStep
  <1>5. (Permits!SemInit /\ [][Permits!SemNext]_Holders) => GateIsSemaphore
    BY DEF GateIsSemaphore, Permits!SemSpec, Holders
  <1> QED BY <1>1, <1>4, <1>5, Invariant, PTL DEF Spec

(***************************************************************************)
(* The rows of build_tasks.                                                *)
(***************************************************************************)

(* The builder is about to run, runs or has returned: the row was written.  *)
BuiltPc == {"enter", "builder", "spawned", "cmd", "cmdDone", "finish", "persistS"}

(* The task is over, and its exception or result is on its way out. *)
OutPc == {"except", "exceptC", "release", "idle"}

TokenInv ==
    /\ \A r \in Run : TokOf(r) <= lastTok
    /\ \A r, q \in Run : TokOf(r) # NoTok /\ TokOf(r) = TokOf(q) => r = q
    /\ \A i \in Inst : rows[i].tok <= lastTok
    /\ \A c \in Cancels : canc[c].tok <= lastTok
    /\ \A t \in Token : t > lastTok => worker[t] = "none"

LockInv ==
    /\ \A r, q \in Run : Of(r) = Of(q) /\ pc[r] # "idle" /\ pc[q] # "idle" => r = q
    /\ \A r \in Run : Pid(r) \notin alive => mem[r] = NoTask

WorkInv ==
    \A r \in Run : TokOf(r) # NoTok /\ worker[TokOf(r)] = "running" => pc[r] \in {"spawned", "cmd"}

(* A call of cancel, on this instance, has looked at this build. *)
Asked(i, tok) == \E c \in Cancels : Inst_(c) = i /\ canc[c].tok = tok

(* The row names the build of the task. *)
Owns(task, row) == task.tok # NoTok /\ row.tok = task.tok

(* The task of a run that stands at l. *)
TaskOk(l, task, asked) ==
    /\ l \in {"idle", "release"} /\ task # NoTask => task.status \in Terminal
    /\ l = "persistQ" => task.status \in {"queued", "cancelled"}
    /\ l = "persistS" => task.status = "success"
    /\ l \in BuiltPc \cup {"persistB"} /\ l # "persistS" =>
          task.status \in {"building", "cancelling", "cancel_failed"}
    /\ task.status = "cancelling" => task.req
    /\ task.req => asked

(* The task and the row of its instance; p is the process, clean says that  *)
(* no _persist_task has failed.                                             *)
RowOk(l, task, row, p, asked, clean) ==
    /\ l = "persistQ" =>
          \/ row.tok < task.tok
          \/ Owns(task, row) /\ row.status = "cancelled"
    /\ Owns(task, row) => row.owner = p /\ (row.req => asked)
    /\ l \in BuiltPc => Owns(task, row) /\ row.status # "queued"
    /\ Owns(task, row) /\ row.status = "success" =>
          l \in {"idle", "release"} /\ task.status = "success" /\ (clean => ~row.req)
    /\ Owns(task, row) /\ l \in {"idle", "release"} /\ task.status = "success" =>
          row.status = "success"
    /\ l = "persistS" /\ row.status = "building" => ~row.req
    /\ clean /\ l \in BuiltPc /\ task.req => row.req \/ row.status \in Terminal
    /\ Owns(task, row) /\ l \notin OutPc /\ row.status \in {"cancelling", "cancelled"} => asked

RunOk(l, task, row, p, asked, clean) ==
    TaskOk(l, task, asked) /\ RowOk(l, task, row, p, asked, clean)

RunRec(r) == RunOk(pc[r], mem[r], RowOf(r), Pid(r), Asked(Of(r), TokOf(r)), dbFails = 0)

(* A row by itself. *)
MarkRec(i) ==
    /\ rows[i].req => rows[i].owner \notin alive \/ Asked(i, rows[i].tok)
    /\ rows[i].status = "success" /\ dbFails = 0 => ~rows[i].req

(* The build can no longer end as a success that is reported. *)
Hopeless(task, row) ==
    \/ task.status = "cancelled" \/ task.req
    \/ Owns(task, row) /\ row.status \in {"failed", "cancelled", "cancel_failed"}

(* A call, answered in its process, that found its build not yet a success. *)
Early(call) ==
    call.own = NoProc /\ call.tok # NoTok
      /\ call.prev \in {"queued", "building", "cancelling", "cancelled"}

(* A call by itself. *)
CallOk(call) ==
    /\ call.pc \in {"start", "xread"} => call.tok = NoTok
    /\ call.pc \in {"hub", "signal", "wait", "read", "mark", "markRow"} =>
          call.prev \in {"building", "cancelling"} /\ call.tok # NoTok
    /\ call.pc \in {"xqueued", "xmark", "xsignal", "xpoll"} => call.own # NoProc
    /\ call.pc # "done" => call.outcome = "none"
    /\ call.outcome = "cancelled" /\ call.own = NoProc => Early(call)

(* A call and the build it found. *)
CallRec(c) ==
    /\ CallOk(canc[c])
    /\ Early(canc[c]) /\ canc[c].prev = "queued" /\ canc[c].tok = TokOf(c[1]) =>
          mem[c[1]].status = "cancelled"
    /\ \A r \in Run : Early(canc[c]) /\ Inst_(c) = Of(r) /\ canc[c].tok = TokOf(r)
                        /\ pc[r] # "idle" => Hopeless(mem[r], RowOf(r))
    /\ dbFails = 0 /\ Early(canc[c]) /\ canc[c].tok = rows[Inst_(c)].tok =>
          rows[Inst_(c)].status # "success"

RecInv ==
    /\ TokenInv /\ LockInv /\ WorkInv
    /\ \A r \in Run : RunRec(r)
    /\ \A i \in Inst : MarkRec(i)
    /\ \A c \in Cancels : CallRec(c)
-----------------------------------------------------------------------------
(* One step of a run, on its task and its row                               *)

(* What a step that finds <<task, row>> and leaves <<task2, row2>> keeps: a  *)
(* cancelled or hopeless build stays so, only a hopeful one becomes a       *)
(* success, and a closed row keeps its status or gives way to a newer build. *)
Keeps(task, row, task2, row2, clean2) ==
    /\ task.status = "cancelled" => task2.status = "cancelled"
    /\ Hopeless(task, row) => Hopeless(task2, row2)
    /\ Owns(task, row2) /\ row2.status = "success" =>
          \/ Owns(task, row) /\ row.status = "success"
          \/ ~clean2 \/ ~Hopeless(task, row)
    /\ row.status \in Terminal => row2.status = row.status \/ row2.tok > row.tok

(* The row after _persist_task: untouched if the upsert is refused, else    *)
(* the run's, with the status asked for.                                    *)
Written(row, row2, tok, status, owner, req) ==
    /\ row2 \in Row /\ row2.tok = tok /\ row2.status = status /\ row2.owner = owner
    /\ row2.req <=> req \/ (row.tok = tok /\ row.req)

Upsert(row, row2, tok, status, owner, req) ==
    \/ ~UpsertOk(row, tok, status, FALSE) /\ row2 = row
    \/ UpsertOk(row, tok, status, FALSE) /\ Written(row, row2, tok, status, owner, req)

UpsertNew(row, row2, tok, status, owner, req) ==
    \/ ~UpsertOk(row, tok, status, TRUE) /\ row2 = row
    \/ UpsertOk(row, tok, status, TRUE) /\ Written(row, row2, tok, status, owner, req)

LEMMA UpsertedShape ==
    ASSUME NEW row \in Row \cup {NoRow}, NEW tok \in Token, NEW status \in Status,
           NEW owner \in Proc, NEW req \in BOOLEAN, NEW replace \in BOOLEAN
    PROVE  IF UpsertOk(row, tok, status, replace)
           THEN Written(row, Upserted(row, tok, status, owner, req, replace), tok, status, owner,
                        req)
           ELSE Upserted(row, tok, status, owner, req, replace) = row
  <1>1. CASE ~UpsertOk(row, tok, status, replace)
    BY <1>1 DEF Upserted
  <1>2. CASE UpsertOk(row, tok, status, replace) /\ row.tok = tok
    <2>1. row \in Row /\ row.req \in BOOLEAN
      BY <1>2 DEF Row, NoRow, Token, NoTok
    <2>2. [row EXCEPT !.status = status, !.owner = owner, !.req = @ \/ req] \in Row
      BY <2>1 DEF Row
    <2> QED BY <1>2, <2>1, <2>2 DEF Upserted, Written, Row
  <1>3. CASE UpsertOk(row, tok, status, replace) /\ row.tok # tok
    BY <1>3 DEF Row, Upserted, Written
  <1> QED BY <1>1, <1>2, <1>3

(* The transition table, entry by entry. *)
LEMMA Table ==
    /\ Transitions["queued"] = {"queued", "building", "cancelled", "failed"}
    /\ Transitions["building"] = {"building", "cancelling", "cancelled", "success", "failed"}
    /\ Transitions["cancelling"] = {"cancelling", "cancelled", "cancel_failed"}
    /\ Transitions["success"] = {"success"} /\ Transitions["failed"] = {"failed"}
    /\ Transitions["cancelled"] = {"cancelled"}
    /\ Transitions["cancel_failed"] = {"cancel_failed"}
  BY DEF Transitions

(* The queued row replaces the row of an older build. *)
LEMMA PersistQueuedOk ==
    ASSUME NEW task \in Task, NEW row \in Row \cup {NoRow}, NEW p \in Proc,
           NEW asked \in BOOLEAN, NEW clean \in BOOLEAN, NEW clean2 \in BOOLEAN,
           clean2 => clean, RunOk("persistQ", task, row, p, asked, clean),
           NEW row2, row2 = row \/ UpsertNew(row, row2, task.tok, "queued", p, task.req)
    PROVE  /\ RunOk("try0", task, row2, p, asked, clean2)
           /\ Keeps(task, row, task, row2, clean2)
  BY Table DEF Upsert, UpsertNew, Written, UpsertOk, Task, Row, NoRow, Token, NoTok, Terminal,
         Active, Status, RunOk, TaskOk, RowOk, Owns, BuiltPc, OutPc, Keeps, Hopeless

(* The moves of run() that write neither the task nor the row. *)
Moves == {<<"try0", "check0">>, <<"try0", "drain">>, <<"check0", "markQ">>, <<"wait", "drain">>,
          <<"wait", "check1">>, <<"drain", "claimed">>, <<"persistB", "lost">>,
          <<"enter", "builder">>, <<"builder", "spawned">>, <<"spawned", "cmd">>, <<"cmd", "cmd">>,
          <<"cmd", "cmdDone">>, <<"cmdDone", "builder">>, <<"cmdDone", "exceptC">>,
          <<"cmdDone", "except">>, <<"builder", "finish">>, <<"builder", "except">>,
          <<"persistS", "lost">>, <<"release", "idle">>, <<"markQ", "wait">>}

(* A step that only moves the thread, or records its worker in the row. *)
LEMMA MoveOk ==
    ASSUME NEW task \in Task, NEW row \in Row \cup {NoRow}, NEW p \in Proc,
           NEW asked \in BOOLEAN, NEW clean \in BOOLEAN, NEW clean2 \in BOOLEAN,
           clean2 => clean,
           NEW l, NEW m, <<l, m>> \in Moves, RunOk(l, task, row, p, asked, clean),
           NEW row2 \in Row \cup {NoRow}, row2.tok = row.tok, row2.status = row.status,
           row2.owner = row.owner, row2.req = row.req
    PROVE  /\ RunOk(m, task, row2, p, asked, clean2)
           /\ Keeps(task, row, task, row2, clean2)
  BY Table DEF Upsert, UpsertNew, Written, UpsertOk, Task, Row, NoRow, Token, NoTok, Terminal,
         Active, Status, RunOk, TaskOk, RowOk, Owns, BuiltPc, OutPc, Keeps, Hopeless, Moves

(* _mark_queued after acquire() found no slot at once. *)
LEMMA MarkQueuedOk ==
    ASSUME NEW task \in Task, NEW row \in Row \cup {NoRow}, NEW p \in Proc,
           NEW asked \in BOOLEAN, NEW clean \in BOOLEAN, NEW clean2 \in BOOLEAN,
           clean2 => clean,
           RunOk("markQ", task, row, p, asked, clean), task.status # "cancelled",
           NEW row2, row2 = row \/ Upsert(row, row2, task.tok, "queued", p, task.req)
    PROVE  /\ RunOk("wait", task, row2, p, asked, clean2)
           /\ Keeps(task, row, task, row2, clean2)
  BY Table DEF Upsert, UpsertNew, Written, UpsertOk, Task, Row, NoRow, Token, NoTok, Terminal,
         Active, Status, RunOk, TaskOk, RowOk, Owns, BuiltPc, OutPc, Keeps, Hopeless

(* _cancel_pending, from the values of the task and of the row. *)
Pending(task, row) ==
    task.status \in {"cancelled", "cancelling"} \/ CancelRequested(row, task.tok)

(* _finish_task_local(task, "cancelled"), before the builder or after it. *)
LEMMA FinishCancelledOk ==
    ASSUME NEW task \in Task, NEW row \in Row \cup {NoRow}, NEW p \in Proc,
           NEW asked \in BOOLEAN, NEW clean \in BOOLEAN, NEW clean2 \in BOOLEAN,
           clean2 => clean,
           NEW l \in {"check0", "check1", "claimed", "finish", "lost"},
           RunOk(l, task, row, p, asked, clean), NEW req \in BOOLEAN,
           req <=> task.req \/ CancelRequested(row, task.tok),
           NEW task2 \in Task, task2.tok = task.tok, task2.status = "cancelled", task2.req = req,
           NEW row2, \/ row2 = row /\ ~clean2
                     \/ Upsert(row, row2, task.tok, "cancelled", p, req)
    PROVE  /\ RunOk("except", task2, row2, p, asked, clean2)
           /\ Keeps(task, row, task2, row2, clean2)
  BY Table DEF Upsert, UpsertNew, Written, UpsertOk, Task, Row, NoRow, Token, NoTok, Terminal,
         Active, Status, RunOk, TaskOk, RowOk, Owns, BuiltPc, OutPc, Keeps, Hopeless, CancelRequested

(* _mark_timeout: no slot came in time and nobody cancelled. *)
LEMMA TimeoutOk ==
    ASSUME NEW task \in Task, NEW row \in Row \cup {NoRow}, NEW p \in Proc,
           NEW asked \in BOOLEAN, NEW clean \in BOOLEAN, NEW clean2 \in BOOLEAN,
           clean2 => clean,
           RunOk("check1", task, row, p, asked, clean), ~Pending(task, row),
           NEW task2 \in Task, task2.tok = task.tok, task2.status = "failed",
           task2.req = task.req,
           NEW row2, row2 = row \/ Upsert(row, row2, task.tok, "failed", p, task.req)
    PROVE  /\ RunOk("except", task2, row2, p, asked, clean2)
           /\ Keeps(task, row, task2, row2, clean2)
  BY Table DEF Upsert, UpsertNew, Written, UpsertOk, Task, Row, NoRow, Token, NoTok, Terminal,
         Active, Status, RunOk, TaskOk, RowOk, Owns, BuiltPc, OutPc, Keeps, Hopeless, Pending,
         CancelRequested

(* The slot is there and nobody cancelled: the task is building. *)
LEMMA ClaimOk ==
    ASSUME NEW task \in Task, NEW row \in Row \cup {NoRow}, NEW p \in Proc,
           NEW asked \in BOOLEAN, NEW clean \in BOOLEAN, NEW clean2 \in BOOLEAN,
           clean2 => clean,
           RunOk("claimed", task, row, p, asked, clean), ~Pending(task, row),
           NEW task2 \in Task, task2.tok = task.tok, task2.status = "building",
           task2.req = task.req
    PROVE  /\ RunOk("persistB", task2, row, p, asked, clean2)
           /\ Keeps(task, row, task2, row, clean2)
  BY Table DEF Upsert, UpsertNew, Written, UpsertOk, Task, Row, NoRow, Token, NoTok, Terminal,
         Active, Status, RunOk, TaskOk, RowOk, Owns, BuiltPc, OutPc, Keeps, Hopeless, Pending,
         CancelRequested

(* _persist_task("building") was accepted: the builder may run. *)
LEMMA PersistBuildingOk ==
    ASSUME NEW task \in Task, NEW row \in Row \cup {NoRow}, NEW p \in Proc,
           NEW asked \in BOOLEAN, NEW clean \in BOOLEAN, NEW clean2 \in BOOLEAN,
           clean2 => clean,
           RunOk("persistB", task, row, p, asked, clean),
           UpsertOk(row, task.tok, "building", FALSE),
           NEW row2, Upsert(row, row2, task.tok, "building", p, task.req)
    PROVE  /\ RunOk("enter", task, row2, p, asked, clean2)
           /\ Keeps(task, row, task, row2, clean2)
  BY Table DEF Upsert, UpsertNew, Written, UpsertOk, Task, Row, NoRow, Token, NoTok, Terminal,
         Active, Status, RunOk, TaskOk, RowOk, Owns, BuiltPc, OutPc, Keeps, Hopeless

(* The builder returned and nobody cancelled. *)
LEMMA FinishOk ==
    ASSUME NEW task \in Task, NEW row \in Row \cup {NoRow}, NEW p \in Proc,
           NEW asked \in BOOLEAN, NEW clean \in BOOLEAN, NEW clean2 \in BOOLEAN,
           clean2 => clean,
           RunOk("finish", task, row, p, asked, clean), ~Pending(task, row),
           NEW task2 \in Task, task2.tok = task.tok, task2.status = "success",
           task2.req = task.req
    PROVE  /\ RunOk("persistS", task2, row, p, asked, clean2)
           /\ Keeps(task, row, task2, row, clean2)
  BY Table DEF Upsert, UpsertNew, Written, UpsertOk, Task, Row, NoRow, Token, NoTok, Terminal,
         Active, Status, RunOk, TaskOk, RowOk, Owns, BuiltPc, OutPc, Keeps, Hopeless, Pending,
         CancelRequested

(* _persist_task("success") was accepted: run() returns the result. *)
LEMMA PersistSuccessOk ==
    ASSUME NEW task \in Task, NEW row \in Row \cup {NoRow}, NEW p \in Proc,
           NEW asked \in BOOLEAN, NEW clean \in BOOLEAN, NEW clean2 \in BOOLEAN,
           clean2 => clean,
           RunOk("persistS", task, row, p, asked, clean),
           UpsertOk(row, task.tok, "success", FALSE),
           NEW row2, Upsert(row, row2, task.tok, "success", p, task.req)
    PROVE  /\ RunOk("release", task, row2, p, asked, clean2)
           /\ Keeps(task, row, task, row2, clean2)
  BY Table DEF Upsert, UpsertNew, Written, UpsertOk, Task, Row, NoRow, Token, NoTok, Terminal,
         Active, Status, RunOk, TaskOk, RowOk, Owns, BuiltPc, OutPc, Keeps, Hopeless

(* except BuildCancelled and except Exception. *)
LEMMA RaiseOk ==
    ASSUME NEW task \in Task, NEW row \in Row \cup {NoRow}, NEW p \in Proc,
           NEW asked \in BOOLEAN, NEW clean \in BOOLEAN, NEW clean2 \in BOOLEAN,
           clean2 => clean,
           NEW l \in {"except", "exceptC"}, RunOk(l, task, row, p, asked, clean),
           NEW s \in {"cancelled", "failed"}, task.status = "cancelled" => s = "cancelled",
           NEW task2 \in Task, task2.tok = task.tok, task2.status = s, task2.req = task.req,
           NEW row2, row2 = row \/ Upsert(row, row2, task.tok, s, p, task.req)
    PROVE  /\ RunOk("release", task2, row2, p, asked, clean2)
           /\ Keeps(task, row, task2, row2, clean2)
  BY Table DEF Upsert, UpsertNew, Written, UpsertOk, Task, Row, NoRow, Token, NoTok, Terminal,
         Active, Status, RunOk, TaskOk, RowOk, Owns, BuiltPc, OutPc, Keeps, Hopeless

(* Certain, where a lemma speaks of a condition. *)
Yes == TRUE

(* cancel() of a queued task in its own process. *)
LEMMA CancelQueuedOk ==
    ASSUME NEW task \in Task, NEW row \in Row \cup {NoRow}, NEW p \in Proc,
           NEW asked \in BOOLEAN, NEW clean \in BOOLEAN, NEW clean2 \in BOOLEAN,
           clean2 => clean,
           NEW l \in RunPc, RunOk(l, task, row, p, asked, clean), task.status = "queued",
           NEW task2 \in Task, task2.tok = task.tok, task2.status = "cancelled", task2.req,
           NEW row2, \/ row2 = row /\ ~clean2
                     \/ Upsert(row, row2, task.tok, "cancelled", p, Yes)
    PROVE  /\ RunOk(l, task2, row2, p, Yes, clean2)
           /\ Keeps(task, row, task2, row2, clean2)
  BY Table DEF Yes, Upsert, UpsertNew, Written, UpsertOk, Task, Row, NoRow, Token, NoTok,
         Terminal, Active, Status, RunOk, TaskOk, RowOk, Owns, BuiltPc, OutPc, Keeps, Hopeless

(* cancel() of a building task in its own process. *)
LEMMA CancelBuildingOk ==
    ASSUME NEW task \in Task, NEW row \in Row \cup {NoRow}, NEW p \in Proc,
           NEW asked \in BOOLEAN, NEW clean \in BOOLEAN, NEW clean2 \in BOOLEAN,
           clean2 => clean,
           NEW l \in RunPc, RunOk(l, task, row, p, asked, clean), task.status = "building",
           NEW task2 \in Task, task2.tok = task.tok, task2.status = "cancelling", task2.req,
           NEW row2, \/ row2 = row /\ ~clean2
                     \/ Upsert(row, row2, task.tok, "cancelling", p, Yes)
    PROVE  /\ RunOk(l, task2, row2, p, Yes, clean2)
           /\ Keeps(task, row, task2, row2, clean2)
  BY Table DEF Yes, Upsert, UpsertNew, Written, UpsertOk, Task, Row, NoRow, Token, NoTok,
         Terminal, Active, Status, RunOk, TaskOk, RowOk, Owns, BuiltPc, OutPc, Keeps, Hopeless, NoTask

(* cancel() gave up waiting for its build. *)
LEMMA CancelGivenUpOk ==
    ASSUME NEW task \in Task, NEW row \in Row \cup {NoRow}, NEW p \in Proc,
           NEW asked \in BOOLEAN, NEW clean \in BOOLEAN, NEW clean2 \in BOOLEAN,
           clean2 => clean,
           NEW l \in RunPc, RunOk(l, task, row, p, asked, clean), task.status = "cancelling",
           NEW task2 \in Task, task2.tok = task.tok, task2.status = "cancel_failed",
           task2.req = task.req
    PROVE  /\ RunOk(l, task2, row, p, asked, clean2)
           /\ Keeps(task, row, task2, row, clean2)
  BY Table DEF Upsert, UpsertNew, Written, UpsertOk, Task, Row, NoRow, Token, NoTok, Terminal,
         Active, Status, RunOk, TaskOk, RowOk, Owns, BuiltPc, OutPc, Keeps, Hopeless

(* A cancel, or the reclaim of a dead owner, closes the row.                *)
LEMMA CloseRowOk ==
    ASSUME NEW task \in Task \cup {NoTask}, NEW row \in Row \cup {NoRow}, NEW p \in Proc,
           NEW asked \in BOOLEAN, NEW asked2 \in BOOLEAN,
           NEW clean \in BOOLEAN, NEW clean2 \in BOOLEAN,
           clean2 => clean, asked /\ task.tok # NoTok => asked2,
           NEW l, RunOk(l, task, row, p, asked, clean),
           NEW row2 \in Row \cup {NoRow}, row2.tok = row.tok, row2.owner = row.owner,
           \/ row2.status = row.status /\ row2.req = row.req
           \/ /\ row.status \in Active \cup {row2.status}
              /\ row2.status \in {"cancelling", "cancelled"}
              /\ row.req => row2.req
              /\ Owns(task, row) => asked2
           \/ /\ row.status \in Active /\ row2.status = "cancel_failed"
              /\ row2.req = row.req
    PROVE  /\ RunOk(l, task, row2, p, asked2, clean2)
           /\ Keeps(task, row, task, row2, clean2)
  BY DEF Task, NoTask, Row, NoRow, Token, NoTok, Terminal, Active, Status, RunOk, TaskOk, RowOk,
         Owns, BuiltPc, OutPc, Keeps, Hopeless

(* The row of an instance goes to another build: a run that is over has no  *)
(* part in it any more.                                                     *)
LEMMA IdleOk ==
    ASSUME NEW task \in Task \cup {NoTask}, NEW row \in Row \cup {NoRow}, NEW p \in Proc,
           NEW asked \in BOOLEAN, NEW asked2 \in BOOLEAN,
           NEW clean \in BOOLEAN, NEW clean2 \in BOOLEAN,
           clean2 => clean, asked /\ task.tok # NoTok => asked2,
           RunOk("idle", task, row, p, asked, clean),
           NEW row2 \in Row \cup {NoRow}, row2.tok # task.tok
    PROVE  RunOk("idle", task, row2, p, asked2, clean2)
  BY DEF Task, NoTask, Row, NoRow, Token, NoTok, RunOk, TaskOk, RowOk, Owns, BuiltPc, OutPc

-----------------------------------------------------------------------------
(* One step of a run, and everybody else                                    *)

(* A call that looks, or has looked, at this build. *)
AskedNow(i, tok) == \E c \in Cancels : Inst_(c) = i /\ canc'[c].tok = tok

(* A cancel closes the row i, or the reclaim of its dead owner does; or the *)
(* step leaves it alone, its worker excepted.                               *)
Closing(i) ==
    LET old == rows[i]
        new == rows'[i] IN
    /\ new.tok = old.tok /\ new.owner = old.owner
    /\ \/ new.status = old.status /\ new.req = old.req
       \/ /\ old.status \in Active \cup {new.status}
          /\ new.status \in {"cancelling", "cancelled"}
          /\ old.req => new.req
          /\ old.owner \notin alive \/ AskedNow(i, old.tok)
       \/ /\ old.status \in Active /\ new.status = "cancel_failed"
          /\ new.req = old.req

(* A call of cancel looks once at a build of its instance. *)
CallsLook ==
    \A c \in Cancels :
        \/ canc'[c].tok = canc[c].tok
        \/ canc[c].tok = NoTok /\ canc'[c].tok \in {TokOf(c[1]), rows[Inst_(c)].tok}

(* A signal ends workers, a worker that ended stays so. *)
WorkersEnd ==
    \A t \in Token :
        /\ worker'[t] = "running" => worker[t] = "running"
        /\ worker[t] = "none" => worker'[t] = "none"

(* Of the workers that still run, the one of r has its command at l. *)
Works(r, l) ==
    /\ \A t \in Token \ {TokOf(r)} :
          /\ worker'[t] = "running" => worker[t] = "running"
          /\ worker[t] = "none" => worker'[t] = "none"
    /\ TokOf(r) # NoTok /\ worker'[TokOf(r)] = "running" => l \in {"spawned", "cmd"}

(* Only the run r, its task, the row of its instance and calls of cancel    *)
(* change, besides rows that are closed.                                    *)
Acts(r) ==
    /\ UNCHANGED <<alive, lastTok>>
    /\ \A q \in Run \ {r} : mem'[q] = mem[q] /\ pc'[q] = pc[q]
    /\ mem'[r].tok = mem[r].tok /\ (mem[r] = NoTask => mem'[r] = NoTask)
    /\ pc[r] = "idle" => pc'[r] = "idle"
    /\ \A i \in Inst : \/ Closing(i)
                       \/ i = Of(r) /\ pc[r] # "idle" /\ rows'[i].tok = TokOf(r)
    /\ RunRec(r)'
    /\ Keeps(mem[r], RowOf(r), mem'[r], RowOf(r)', (dbFails = 0)')
    /\ dbFails' = 0 => dbFails = 0
    /\ CallsLook /\ Works(r, pc'[r])

(* The types of what the frame speaks of. *)
LEMMA RunTypes ==
    ASSUME IInv, NEW r \in Run
    PROVE  /\ Pid(r) \in Proc /\ Of(r) \in Inst /\ pc[r] \in RunPc
           /\ mem[r] \in Task \cup {NoTask} /\ TokOf(r) \in Nat
           /\ RowOf(r) \in Row \cup {NoRow} /\ RowOf(r).tok \in Nat
           /\ Asked(Of(r), TokOf(r)) \in BOOLEAN /\ (dbFails = 0) \in BOOLEAN
           /\ lastTok \in Nat
  <1>1. /\ Pid(r) \in Proc /\ Of(r) \in Inst /\ pc[r] \in RunPc
        /\ mem[r] \in Task \cup {NoTask} /\ RowOf(r) \in Row \cup {NoRow}
        /\ lastTok \in Nat
    BY GateAssumption DEF IInv, TypeOK, Run, Pid, Of, RowOf
  <1>2. TokOf(r) \in Nat /\ RowOf(r).tok \in Nat
    BY <1>1, GateAssumption DEF TokOf, Task, NoTask, Row, NoRow, Token, NoTok
  <1> QED BY <1>1, <1>2 DEF Asked

LEMMA AskedGrows ==
    ASSUME CallsLook, NEW i, NEW tok, tok # NoTok, Asked(i, tok)
    PROVE  AskedNow(i, tok)
  BY DEF CallsLook, Asked, AskedNow, Inst_

(* A run that does not move and whose row is at most closed. *)
LEMMA StillOk ==
    ASSUME IInv, IInv', RecInv, CallsLook, dbFails' = 0 => dbFails = 0,
           NEW r \in Run, mem'[r] = mem[r], pc'[r] = pc[r], Closing(Of(r))
    PROVE  /\ RunRec(r)'
           /\ Keeps(mem[r], RowOf(r), mem'[r], RowOf(r)', (dbFails = 0)')
  <1> DEFINE row  == RowOf(r)
             row2 == rows'[Of(r)]
             asked == Asked(Of(r), TokOf(r))
             asked2 == AskedNow(Of(r), TokOf(r))
             clean == dbFails = 0
             clean2 == dbFails' = 0
  <1>1. /\ mem[r] \in Task \cup {NoTask} /\ Pid(r) \in Proc /\ row \in Row \cup {NoRow}
        /\ asked \in BOOLEAN /\ clean \in BOOLEAN
    BY RunTypes
  <1>2. row2 \in Row \cup {NoRow} /\ asked2 \in BOOLEAN /\ clean2 \in BOOLEAN
    BY RunTypes DEF IInv, TypeOK, Run, Of, AskedNow
  <1>3. TokOf(r)' = TokOf(r) /\ TokOf(r) = mem[r].tok
    BY DEF TokOf
  <1>4. (clean2 => clean) /\ (asked /\ mem[r].tok # NoTok => asked2)
    BY <1>3, AskedGrows
  <1>5. RunOk(pc[r], mem[r], row, Pid(r), asked, clean)
    BY DEF RecInv, RunRec
  <1>6. Owns(mem[r], row) => row.owner \in alive
    BY <1>5 DEF RunOk, RowOk, RecInv, LockInv, Owns, NoTask
  <1>7. /\ row2.tok = row.tok /\ row2.owner = row.owner
        /\ \/ row2.status = row.status /\ row2.req = row.req
           \/ /\ row.status \in Active \cup {row2.status}
              /\ row2.status \in {"cancelling", "cancelled"}
              /\ row.req => row2.req
              /\ Owns(mem[r], row) => asked2
           \/ /\ row.status \in Active /\ row2.status = "cancel_failed"
              /\ row2.req = row.req
    BY <1>6 DEF RowOf, Owns, TokOf, Closing
  <1> HIDE DEF row, row2, asked, asked2, clean, clean2
  <1>8. /\ RunOk(pc[r], mem[r], row2, Pid(r), asked2, clean2)
        /\ Keeps(mem[r], row, mem[r], row2, clean2)
    BY <1>1, <1>2, <1>4, <1>5, <1>7, CloseRowOk, SMTT(40)
  <1>9. Asked(Of(r), TokOf(r))' = asked2
    BY <1>3 DEF Asked, AskedNow, asked2, Of, Inst_
  <1>10. RowOf(r)' = row2 /\ Pid(r)' = Pid(r) /\ (dbFails = 0)' = clean2
    BY DEF RowOf, row2, clean2, Of, Pid
  <1> QED BY <1>8, <1>9, <1>10 DEF RunRec, row

(* The tokens stay distinct and known, the lock lets no other run in, and   *)
(* no worker survives its command.                                          *)
LEMMA ActsOrder ==
    ASSUME IInv, IInv', RecInv, NEW r \in Run, Acts(r)
    PROVE  TokenInv' /\ LockInv' /\ WorkInv'
  <1>1. \A q \in Run : TokOf(q)' = TokOf(q) /\ TokOf(q) \in Nat
    BY RunTypes DEF Acts, TokOf
  <1>2. \A i \in Inst : rows'[i].tok \in {rows[i].tok, TokOf(r)}
    BY DEF Acts, Closing
  <1>3. \A c \in Cancels : c[1] \in Run /\ Inst_(c) \in Inst
    BY CancelTypes
  <1>4. \A c \in Cancels : canc'[c].tok \in {canc[c].tok, TokOf(c[1]), rows[Inst_(c)].tok}
    BY DEF Acts, CallsLook
  <1>5. TokenInv'
    BY <1>1, <1>2, <1>3, <1>4, RunTypes, GateAssumption DEF Acts, RecInv, TokenInv, Token, Works,
           TokOf
  <1>6. LockInv'
    BY DEF Acts, RecInv, LockInv, Of, Pid
  <1>7. WorkInv'
    <2> SUFFICES ASSUME NEW q \in Run, TokOf(q)' # NoTok, worker'[TokOf(q)'] = "running"
                 PROVE  pc'[q] \in {"spawned", "cmd"}
      BY DEF WorkInv, TokOf
    <2>1. TokOf(q) \in Token /\ TokOf(q)' = TokOf(q)
      BY <1>1 DEF IInv, TypeOK, TokOf, Task, NoTask
    <2>2. CASE q = r
      BY <2>1, <2>2 DEF Acts, Works
    <2>3. CASE q # r
      BY <2>1, <2>3 DEF RecInv, TokenInv, Token, NoTok, Acts, Works, WorkInv
    <2> QED BY <2>2, <2>3
  <1> QED BY <1>5, <1>6, <1>7

(* The runs beside the one that moves: those of its instance are over.      *)
LEMMA ActsRuns ==
    ASSUME IInv, IInv', RecInv, NEW r \in Run, Acts(r)
    PROVE  /\ \A q \in Run : RunRec(q)'
           /\ \A q \in Run : q # r /\ pc[q] # "idle" => Closing(Of(q))
  <1>1. \A q \in Run : q # r /\ pc[q] # "idle" => Closing(Of(q))
    BY RunTypes DEF RecInv, LockInv, Acts
  <1>2. ASSUME NEW q \in Run, q # r
        PROVE  RunRec(q)'
    <2>1. mem'[q] = mem[q] /\ pc'[q] = pc[q] /\ CallsLook /\ (dbFails' = 0 => dbFails = 0)
             /\ Of(q) \in Inst
      BY <1>2, RunTypes DEF Acts
    <2>2. CASE Closing(Of(q))
      BY <2>1, <2>2, StillOk
    <2>3. CASE ~Closing(Of(q))
      <3> DEFINE row2 == rows'[Of(q)]
                 asked == Asked(Of(q), TokOf(q))
                 asked2 == AskedNow(Of(q), TokOf(q))
                 clean == dbFails = 0
                 clean2 == dbFails' = 0
      <3>1. Of(q) = Of(r) /\ pc[q] = "idle" /\ row2.tok = TokOf(r) /\ pc[r] # "idle"
        BY <1>1, <1>2, <2>1, <2>3 DEF Acts
      <3>2. mem[r] \in Task /\ TokOf(r) \in Token
        BY <3>1 DEF IInv, RunInv, TokOf, Task
      <3>3. row2.tok # mem[q].tok
        BY <1>2, <3>1, <3>2 DEF RecInv, TokenInv, TokOf, Token, NoTok
      <3>4. /\ mem[q] \in Task \cup {NoTask} /\ RowOf(q) \in Row \cup {NoRow} /\ Pid(q) \in Proc
            /\ asked \in BOOLEAN /\ clean \in BOOLEAN
        BY RunTypes
      <3>5. row2 \in Row \cup {NoRow} /\ asked2 \in BOOLEAN /\ clean2 \in BOOLEAN
        BY <2>1 DEF IInv, TypeOK, AskedNow
      <3>6. (clean2 => clean) /\ (asked /\ mem[q].tok # NoTok => asked2)
        BY <2>1, AskedGrows DEF TokOf
      <3>7. RunOk("idle", mem[q], RowOf(q), Pid(q), asked, clean)
        BY <3>1 DEF RecInv, RunRec
      <3> HIDE DEF row2, asked, asked2, clean, clean2
      <3>8. RunOk("idle", mem[q], row2, Pid(q), asked2, clean2)
        BY <3>3, <3>4, <3>5, <3>6, <3>7, IdleOk
      <3>9. /\ Asked(Of(q), TokOf(q))' = asked2 /\ RowOf(q)' = row2 /\ Pid(q)' = Pid(q)
            /\ (dbFails = 0)' = clean2
        BY <2>1 DEF Asked, AskedNow, asked2, Of, Inst_, RowOf, row2, clean2, Pid, TokOf
      <3> QED BY <2>1, <3>1, <3>8, <3>9 DEF RunRec
    <2> QED BY <2>2, <2>3
  <1> QED BY <1>1, <1>2 DEF Acts

(* A closed row keeps its status until a newer build takes it. *)
Closed(i) ==
    rows[i].status \in Terminal /\ rows'[i] # rows[i] =>
        rows'[i].tok > rows[i].tok \/ rows'[i].status = rows[i].status

(* The rows: a cancel mark has its reason, and what is closed stays. *)
LEMMA ActsRows ==
    ASSUME IInv, IInv', RecInv, NEW r \in Run, Acts(r), NEW i \in Inst
    PROVE  MarkRec(i)' /\ Closed(i)
  <1> DEFINE old == rows[i]
             new == rows'[i]
  <1>1. /\ old \in Row \cup {NoRow} /\ new \in Row \cup {NoRow}
        /\ alive' = alive /\ (dbFails' = 0 => dbFails = 0)
    BY DEF IInv, TypeOK, Acts
  <1>2. MarkRec(i)
    BY DEF RecInv
  <1>3. CASE Closing(i)
    <2>1. new.req => old.owner \notin alive \/ AskedNow(i, old.tok)
      <3>1. old.req => old.tok # NoTok
        BY <1>1 DEF Row, NoRow, Token, NoTok
      <3>2. old.req => old.owner \notin alive \/ AskedNow(i, old.tok)
        BY <1>2, <3>1, AskedGrows DEF MarkRec, Acts
      <3> QED BY <1>3, <3>2 DEF Closing
    <2>2. new.tok = old.tok /\ new.owner = old.owner
      BY <1>3 DEF Closing
    <2>3. new.status = "success" => old.status = "success" /\ new.req = old.req
      BY <1>3 DEF Closing
    <2>4. AskedNow(i, old.tok) => Asked(i, rows[i].tok)'
      BY <2>2 DEF Asked, AskedNow, Inst_, Of
    <2>5. MarkRec(i)'
      BY <1>1, <1>2, <2>1, <2>2, <2>3, <2>4 DEF MarkRec
    <2>6. Closed(i)
      BY <1>3 DEF Closed, Closing, Active, Terminal
    <2> QED BY <2>5, <2>6
  <1>4. CASE ~Closing(i)
    <2>1. i = Of(r) /\ pc[r] # "idle" /\ new.tok = TokOf(r)
      BY <1>4 DEF Acts
    <2>2. TokOf(r) \in Token /\ TokOf(r)' = TokOf(r)
      BY <2>1 DEF IInv, RunInv, TokOf, Task, Acts
    <2>3. Owns(mem'[r], new) /\ new = RowOf(r)'
      BY <2>1, <2>2 DEF Owns, TokOf, Token, NoTok, RowOf, Of
    <2>4. RowOk(pc'[r], mem'[r], new, Pid(r), Asked(Of(r), TokOf(r))', dbFails' = 0)
      BY <2>3 DEF Acts, RunRec, RunOk, Pid
    <2>5. /\ new.req => Asked(Of(r), TokOf(r))'
          /\ new.status = "success" /\ dbFails' = 0 => ~new.req
      BY <2>3, <2>4 DEF RowOk
    <2>6. Asked(Of(r), TokOf(r))' => Asked(i, rows[i].tok)'
      BY <2>1, <2>2 DEF Asked, Inst_, Of, TokOf
    <2>7. MarkRec(i)'
      BY <2>5, <2>6 DEF MarkRec
    <2>8. Closed(i)
      BY <2>1 DEF Acts, Keeps, Closed, RowOf, Of
    <2> QED BY <2>7, <2>8
  <1> QED BY <1>3, <1>4

(* The step of the call, if any, looks at no other build. *)
SameLook(c) ==
    canc'[c].tok = canc[c].tok /\ canc'[c].prev = canc[c].prev /\ canc'[c].own = canc[c].own

(* The calls that have looked at their build before, or look at none now. *)
LEMMA ActsCalls ==
    ASSUME IInv, IInv', RecInv, NEW r \in Run, Acts(r),
           NEW c \in Cancels, SameLook(c), CallOk(canc'[c])
    PROVE  CallRec(c)'
  <1>1. c[1] \in Run /\ Inst_(c) \in Inst /\ Inst_(c) = Of(c[1]) /\ Inst_(c)' = Inst_(c)
    BY CancelTypes DEF Inst_, Of
  <1>2. Early(canc'[c]) <=> Early(canc[c])
    BY DEF SameLook, Early
  <1>3. \A q \in Run : TokOf(q)' = TokOf(q)
    BY DEF Acts, TokOf
  <1>4. /\ Early(canc'[c]) /\ canc'[c].prev = "queued" /\ canc'[c].tok = TokOf(c[1])' =>
              mem'[c[1]].status = "cancelled"
    BY <1>1, <1>2, <1>3 DEF Acts, Keeps, RecInv, CallRec, SameLook
  <1>5. ASSUME NEW q \in Run, Early(canc'[c]), Inst_(c) = Of(q), canc'[c].tok = TokOf(q)',
               pc'[q] # "idle"
        PROVE  Hopeless(mem'[q], RowOf(q)')
    BY <1>5, <1>2, <1>3, ActsRuns, StillOk DEF Acts, RecInv, CallRec, SameLook, Keeps
  <1>6. ASSUME dbFails' = 0, Early(canc'[c]), canc'[c].tok = rows'[Inst_(c)].tok
        PROVE  rows'[Inst_(c)].status # "success"
    BY <1>2, <1>6, <1>1 DEF Acts, RecInv, CallRec, Closing, SameLook, RowOf, Of, Owns, TokOf,
           Early, Keeps
  <1> QED BY <1>1, <1>4, <1>5, <1>6 DEF CallRec, Inst_, Of

-----------------------------------------------------------------------------
(* The steps of run()                                                       *)

AskedOf(r) == Asked(Of(r), TokOf(r))
Clean      == dbFails = 0

(* The run r moves to l and leaves this task and this row. *)
Own(r, l, task, row) ==
    /\ UNCHANGED <<alive, lastTok, canc>>
    /\ pc' = [pc EXCEPT ![r] = l]
    /\ mem' = [mem EXCEPT ![r] = task]
    /\ rows' = [rows EXCEPT ![Of(r)] = row]

(* A run that stands at l, with what the invariant says of it. *)
LEMMA AtRec ==
    ASSUME IInv, RecInv, NEW r \in Run, NEW l, At(r, l), l # "idle"
    PROVE  /\ pc[r] = l /\ RunOk(l, mem[r], RowOf(r), Pid(r), AskedOf(r), Clean)
           /\ mem[r] \in Task /\ RowOf(r) \in Row \cup {NoRow} /\ Pid(r) \in Proc
           /\ TokOf(r) = mem[r].tok /\ TokOf(r) \in Token
           /\ AskedOf(r) \in BOOLEAN /\ Clean \in BOOLEAN /\ Clean' \in BOOLEAN
           /\ mem[r].req \in BOOLEAN /\ Of(r) \in Inst
  <1>1. pc[r] = l /\ RunOk(l, mem[r], RowOf(r), Pid(r), AskedOf(r), Clean)
    BY DEF At, RecInv, RunRec, AskedOf, Clean
  <1> QED BY <1>1, AtTask DEF AskedOf, Asked, Clean, RowOf, TokOf

(* _persist_task, which never replaces a generation but when it queues one. *)
Store(r, status, req)    == Persist(r, status, req, FALSE)
StoreNew(r, status, req) == Persist(r, status, req, TRUE)
TryStore(r, status, req) == Store(r, status, req) \/ PersistFails

(* _persist_task on the row of the run: it writes, is refused or raises. *)
LEMMA PersistShape ==
    ASSUME IInv, NEW r \in Run, mem[r] \in Task, NEW status \in Status, NEW req \in BOOLEAN
    PROVE  /\ Store(r, status, req) =>
                \E row2 \in Row \cup {NoRow} :
                   /\ rows' = [rows EXCEPT ![Of(r)] = row2] /\ Clean' = Clean
                   /\ Upsert(RowOf(r), row2, mem[r].tok, status, Pid(r), req)
           /\ StoreNew(r, status, req) =>
                \E row2 \in Row \cup {NoRow} :
                   /\ rows' = [rows EXCEPT ![Of(r)] = row2] /\ Clean' = Clean
                   /\ UpsertNew(RowOf(r), row2, mem[r].tok, status, Pid(r), req)
           /\ PersistFails => /\ rows' = [rows EXCEPT ![Of(r)] = RowOf(r)]
                              /\ ~Clean'
  <1>1. /\ RowOf(r) \in Row \cup {NoRow} /\ mem[r].tok \in Token /\ Pid(r) \in Proc
        /\ rows \in [Inst -> Row \cup {NoRow}] /\ Of(r) \in Inst /\ RowOf(r) = rows[Of(r)]
        /\ dbFails \in Nat
    BY QueueAssumption DEF IInv, TypeOK, Run, Of, Pid, Task, RowOf
  <1>2. ASSUME NEW replace \in BOOLEAN, Persist(r, status, req, replace)
        PROVE  \E row2 \in Row \cup {NoRow} :
                  /\ rows' = [rows EXCEPT ![Of(r)] = row2] /\ Clean' = Clean
                  /\ IF UpsertOk(RowOf(r), mem[r].tok, status, replace)
                     THEN Written(RowOf(r), row2, mem[r].tok, status, Pid(r), req)
                     ELSE row2 = RowOf(r)
    <2> DEFINE row2 == Upserted(RowOf(r), mem[r].tok, status, Pid(r), req, replace)
    <2>1. row2 \in Row \cup {NoRow}
      BY <1>1, UpsertedType
    <2>2. IF UpsertOk(RowOf(r), mem[r].tok, status, replace)
          THEN Written(RowOf(r), row2, mem[r].tok, status, Pid(r), req)
          ELSE row2 = RowOf(r)
      BY <1>1, UpsertedShape
    <2>3. rows' = [rows EXCEPT ![Of(r)] = row2] /\ Clean' = Clean
      BY <1>1, <1>2 DEF Persist, TokOf, Clean
    <2> QED BY <2>1, <2>2, <2>3
  <1>3. ASSUME PersistFails
        PROVE  rows' = [rows EXCEPT ![Of(r)] = RowOf(r)] /\ ~Clean'
    BY <1>1, <1>3 DEF PersistFails, Clean
  <1>4. ASSUME Store(r, status, req)
        PROVE  \E row2 \in Row \cup {NoRow} :
                  /\ rows' = [rows EXCEPT ![Of(r)] = row2] /\ Clean' = Clean
                  /\ Upsert(RowOf(r), row2, mem[r].tok, status, Pid(r), req)
    BY <1>4, <1>2 DEF Store, Upsert
  <1>5. ASSUME StoreNew(r, status, req)
        PROVE  \E row2 \in Row \cup {NoRow} :
                  /\ rows' = [rows EXCEPT ![Of(r)] = row2] /\ Clean' = Clean
                  /\ UpsertNew(RowOf(r), row2, mem[r].tok, status, Pid(r), req)
    BY <1>5, <1>2 DEF StoreNew, UpsertNew
  <1> QED BY <1>3, <1>4, <1>5

LEMMA TryStoreShape ==
    ASSUME IInv, NEW r \in Run, mem[r] \in Task, NEW status \in Status, NEW req \in BOOLEAN,
           TryStore(r, status, req)
    PROVE  \E row2 \in Row \cup {NoRow} :
              /\ rows' = [rows EXCEPT ![Of(r)] = row2] /\ (Clean' => Clean)
              /\ row2.tok = mem[r].tok \/ row2 = RowOf(r)
              /\ \/ row2 = RowOf(r) /\ ~Clean'
                 \/ Upsert(RowOf(r), row2, mem[r].tok, status, Pid(r), req)
  <1>1. CASE Store(r, status, req)
    <2>1. PICK row2 \in Row \cup {NoRow} :
             /\ rows' = [rows EXCEPT ![Of(r)] = row2] /\ Clean' = Clean
             /\ Upsert(RowOf(r), row2, mem[r].tok, status, Pid(r), req)
      BY <1>1, PersistShape
    <2>2. row2.tok = mem[r].tok \/ row2 = RowOf(r)
      BY <2>1 DEF Upsert, Written
    <2> QED BY <2>1, <2>2
  <1>2. CASE PersistFails
    BY <1>2, PersistShape, RunTypes
  <1> QED BY <1>1, <1>2 DEF TryStore

(* A step beside the commands, or one that ends them. *)
LEMMA EndWorks ==
    ASSUME IInv, RecInv, NEW r \in Run, NEW l, WorkersEnd,
           pc[r] \in {"spawned", "cmd"} =>
              l \in {"spawned", "cmd"} \/ worker'[TokOf(r)] # "running"
    PROVE  Works(r, l)
BY DEF IInv, TypeOK, TokOf, Task, NoTask, RecInv, WorkInv, WorkersEnd, Works

(* What a run does to its own task and row is all that happens. *)
LEMMA OwnActs ==
    ASSUME IInv, IInv', RecInv, NEW r \in Run, NEW l, NEW task \in Task, NEW row,
           Pid(r) \in alive, pc[r] # "idle", task.tok = mem[r].tok,
           \/ row.tok = mem[r].tok
           \/ /\ row.tok = RowOf(r).tok /\ row.status = RowOf(r).status
              /\ row.owner = RowOf(r).owner /\ row.req = RowOf(r).req,
           Own(r, l, task, row), Clean' => Clean, Works(r, l),
           RunOk(l, task, row, Pid(r), AskedOf(r), Clean'),
           Keeps(mem[r], RowOf(r), task, row, Clean')
    PROVE  Acts(r)
  <1>1. /\ Of(r) \in Inst /\ pc \in [Run -> RunPc] /\ mem \in [Run -> Task \cup {NoTask}]
        /\ rows \in [Inst -> Row \cup {NoRow}]
    BY RunTypes DEF IInv, TypeOK
  <1>2. /\ alive' = alive /\ lastTok' = lastTok /\ canc' = canc
        /\ pc'[r] = l /\ mem'[r] = task /\ rows'[Of(r)] = row
        /\ \A q \in Run \ {r} : mem'[q] = mem[q] /\ pc'[q] = pc[q]
        /\ \A i \in Inst \ {Of(r)} : rows'[i] = rows[i]
    BY <1>1 DEF Own
  <1>3. mem[r] # NoTask
    BY DEF IInv, RunInv, Task, NoTask, Token, NoTok
  <1>4. \A i \in Inst : \/ Closing(i)
                        \/ i = Of(r) /\ pc[r] # "idle" /\ rows'[i].tok = TokOf(r)
    BY <1>1, <1>2 DEF Closing, TokOf, RowOf
  <1>5. /\ RowOf(r)' = row /\ Pid(r)' = Pid(r) /\ AskedOf(r)' = AskedOf(r)
    BY <1>2 DEF RowOf, Pid, Of, AskedOf, Asked, Inst_, TokOf
  <1>6. RunRec(r)'
    BY <1>2, <1>5 DEF RunRec, AskedOf, Clean
  <1>7. Keeps(mem[r], RowOf(r), mem'[r], RowOf(r)', (dbFails = 0)')
    BY <1>2, <1>5 DEF Clean
  <1>8. CallsLook
    BY <1>2 DEF CallsLook
  <1> QED BY <1>2, <1>3, <1>4, <1>6, <1>7, <1>8 DEF Acts, Clean

(* A run that only moves, or writes its worker into the row or out of it. *)
LEMMA MoveActs ==
    ASSUME IInv, IInv', RecInv, NEW r \in Run, NEW l, NEW m, At(r, l), l # "idle",
           <<l, m>> \in Moves, Goto(r, m), UNCHANGED <<alive, lastTok, canc, mem, dbFails>>,
           \/ UNCHANGED rows
           \/ \E wk : rows' = [rows EXCEPT ![Of(r)] = WithWorker(@, TokOf(r), wk)],
           Works(r, m)
    PROVE  Acts(r)
  <1>1. /\ pc[r] = l /\ RunOk(l, mem[r], RowOf(r), Pid(r), AskedOf(r), Clean)
        /\ mem[r] \in Task /\ RowOf(r) \in Row \cup {NoRow} /\ Pid(r) \in Proc
        /\ AskedOf(r) \in BOOLEAN /\ Clean \in BOOLEAN /\ Clean' \in BOOLEAN /\ Of(r) \in Inst
    BY AtRec
  <1>2. /\ rows \in [Inst -> Row \cup {NoRow}] /\ rows' \in [Inst -> Row \cup {NoRow}]
        /\ mem \in [Run -> Task \cup {NoTask}] /\ RowOf(r) = rows[Of(r)]
    BY DEF IInv, TypeOK, RowOf
  <1> DEFINE row == rows'[Of(r)]
  <1>3. /\ rows' = [rows EXCEPT ![Of(r)] = row] /\ row \in Row \cup {NoRow}
        /\ row.tok = RowOf(r).tok /\ row.status = RowOf(r).status
        /\ row.owner = RowOf(r).owner /\ row.req = RowOf(r).req
    BY <1>1, <1>2 DEF WithWorker, Row, NoRow
  <1>4. Own(r, m, mem[r], row)
    BY <1>2, <1>3 DEF Own, Goto
  <1>5. Clean' => Clean
    BY DEF Clean
  <1> HIDE DEF row
  <1>6. /\ RunOk(m, mem[r], row, Pid(r), AskedOf(r), Clean')
        /\ Keeps(mem[r], RowOf(r), mem[r], row, Clean')
    BY <1>1, <1>3, <1>5, MoveOk
  <1> QED BY <1>1, <1>3, <1>4, <1>5, <1>6, OwnActs DEF At

(* _finish_task_local(task, "cancelled"), wherever run() calls it. *)
LEMMA FinishActs ==
    ASSUME IInv, IInv', RecInv, NEW r \in Run,
           NEW l \in {"check0", "check1", "claimed", "finish", "lost"}, At(r, l),
           FinishCancelled(r), Goto(r, "except"), UNCHANGED <<alive, lastTok, canc, worker>>
    PROVE  Acts(r)
  <1> DEFINE req == mem[r].req \/ CancelRequested(RowOf(r), TokOf(r))
             task2 == [mem[r] EXCEPT !.status = "cancelled", !.req = req]
  <1>1. /\ pc[r] = l /\ RunOk(l, mem[r], RowOf(r), Pid(r), AskedOf(r), Clean)
        /\ mem[r] \in Task /\ RowOf(r) \in Row \cup {NoRow} /\ Pid(r) \in Proc
        /\ AskedOf(r) \in BOOLEAN /\ Clean \in BOOLEAN /\ Clean' \in BOOLEAN
        /\ mem[r].req \in BOOLEAN /\ TokOf(r) = mem[r].tok
    BY AtRec
  <1>2. req \in BOOLEAN /\ (req <=> mem[r].req \/ CancelRequested(RowOf(r), mem[r].tok))
    BY <1>1 DEF CancelRequested
  <1>3. mem' = [mem EXCEPT ![r] = task2] /\ TryStore(r, "cancelled", req)
    BY DEF FinishCancelled, TryPersist, TryStore, Store
  <1> HIDE DEF req
  <1>4. /\ task2 \in Task /\ task2.tok = mem[r].tok /\ task2.status = "cancelled"
        /\ task2.req = req
    BY <1>1, <1>2, Statuses DEF Task
  <1> HIDE DEF task2
  <1>5. PICK row2 \in Row \cup {NoRow} :
           /\ rows' = [rows EXCEPT ![Of(r)] = row2] /\ (Clean' => Clean)
           /\ row2.tok = mem[r].tok \/ row2 = RowOf(r)
           /\ \/ row2 = RowOf(r) /\ ~Clean'
              \/ Upsert(RowOf(r), row2, mem[r].tok, "cancelled", Pid(r), req)
    BY <1>1, <1>2, <1>3, Statuses, TryStoreShape
  <1>7. /\ RunOk("except", task2, row2, Pid(r), AskedOf(r), Clean')
        /\ Keeps(mem[r], RowOf(r), task2, row2, Clean')
    <2>1. mem[r] \in Task /\ RowOf(r) \in Row \cup {NoRow} /\ Pid(r) \in Proc
      BY <1>1
    <2>2. AskedOf(r) \in BOOLEAN /\ Clean \in BOOLEAN /\ Clean' \in BOOLEAN /\ req \in BOOLEAN
      BY <1>1, <1>2
    <2>3. RunOk(l, mem[r], RowOf(r), Pid(r), AskedOf(r), Clean) /\ (Clean' => Clean)
      BY <1>1, <1>5
    <2>4. \/ row2 = RowOf(r) /\ ~Clean'
          \/ Upsert(RowOf(r), row2, mem[r].tok, "cancelled", Pid(r), req)
      BY <1>5
    <2> QED BY <1>2, <1>4, <2>1, <2>2, <2>3, <2>4, FinishCancelledOk, SMTT(60)
  <1>8. Own(r, "except", task2, row2)
    BY <1>3, <1>5 DEF Own, Goto
  <1>9. Works(r, "except")
    BY <1>1, EndWorks DEF WorkersEnd
  <1> QED BY <1>1, <1>4, <1>5, <1>7, <1>8, <1>9, OwnActs DEF At

(* _try_acquire: the reclaim closes rows of the dead, never the run's own.  *)
LEMMA AcquireActs ==
    ASSUME IInv, IInv', RecInv, NEW r \in Run, NEW l \in {"try0", "wait"}, At(r, l), Acquire(r)
    PROVE  Acts(r)
  <1>1. /\ pc[r] = l /\ RunOk(l, mem[r], RowOf(r), Pid(r), AskedOf(r), Clean)
        /\ mem[r] \in Task /\ RowOf(r) \in Row \cup {NoRow} /\ Pid(r) \in Proc
        /\ AskedOf(r) \in BOOLEAN /\ Clean \in BOOLEAN /\ Clean' \in BOOLEAN /\ Of(r) \in Inst
    BY AtRec
  <1>2. /\ rows' = [i \in Inst |-> LiveRow(rows[i], alive)] /\ Goto(r, "drain")
        /\ UNCHANGED <<alive, lastTok, mem, worker, canc, dbFails>>
    BY DEF Acquire
  <1>3. \A i \in Inst : Closing(i)
    <2> SUFFICES ASSUME NEW i \in Inst PROVE Closing(i)
      OBVIOUS
    <2>1. rows'[i] = LiveRow(rows[i], alive) /\ rows[i] \in Row \cup {NoRow}
      BY <1>2 DEF IInv, TypeOK
    <2> QED BY <2>1 DEF Closing, LiveRow, Orphaned, Row, NoRow
  <1> DEFINE row2 == rows'[Of(r)]
  <1>4. /\ row2 \in Row \cup {NoRow} /\ row2.tok = RowOf(r).tok /\ row2.owner = RowOf(r).owner
        /\ \/ row2.status = RowOf(r).status /\ row2.req = RowOf(r).req
           \/ /\ RowOf(r).status \in Active /\ row2.status = "cancelled" /\ row2.req
              /\ RowOf(r).owner \notin alive
    BY <1>1, <1>2 DEF RowOf, IInv, TypeOK, LiveRow, Orphaned, Row, NoRow
  <1>5. Owns(mem[r], RowOf(r)) => RowOf(r).owner \in alive
    BY <1>1 DEF RunOk, RowOk, At
  <1>6. (Clean' => Clean) /\ RowOf(r)' = row2 /\ AskedOf(r)' = AskedOf(r) /\ Pid(r)' = Pid(r)
    BY <1>2 DEF Clean, RowOf, AskedOf, Asked, TokOf, Of, Inst_, Pid
  <1> HIDE DEF row2
  <1>7. /\ RunOk(l, mem[r], row2, Pid(r), AskedOf(r), Clean')
        /\ Keeps(mem[r], RowOf(r), mem[r], row2, Clean')
    BY <1>1, <1>4, <1>5, <1>6, CloseRowOk
  <1>8. RunOk("drain", mem[r], row2, Pid(r), AskedOf(r), Clean')
    BY <1>1, <1>4, <1>7, MoveOk DEF Moves
  <1>9. pc'[r] = "drain" /\ \A q \in Run \ {r} : pc'[q] = pc[q]
    BY <1>2 DEF Goto, IInv, TypeOK
  <1>10. RunRec(r)' /\ Keeps(mem[r], RowOf(r), mem'[r], RowOf(r)', (dbFails = 0)')
    BY <1>2, <1>6, <1>7, <1>8, <1>9 DEF RunRec, AskedOf, Clean
  <1>11. CallsLook /\ Works(r, pc'[r])
    BY <1>1, <1>2, EndWorks DEF CallsLook, WorkersEnd
  <1> QED BY <1>1, <1>2, <1>3, <1>9, <1>10, <1>11 DEF Acts

(* A run that changes its task and tries to write its row. *)
LEMMA StoreActs ==
    ASSUME IInv, IInv', RecInv, NEW r \in Run, NEW l, NEW m, At(r, l),
           l \notin {"idle", "spawned", "cmd"},
           NEW task2 \in Task, task2.tok = mem[r].tok, mem' = [mem EXCEPT ![r] = task2],
           NEW status \in Status, NEW req \in BOOLEAN, TryStore(r, status, req),
           Goto(r, m), UNCHANGED <<alive, lastTok, canc, worker>>,
           \A row2 \in Row \cup {NoRow} :
              /\ Clean' => Clean
              /\ \/ row2 = RowOf(r) /\ ~Clean'
                 \/ Upsert(RowOf(r), row2, mem[r].tok, status, Pid(r), req)
              => /\ RunOk(m, task2, row2, Pid(r), AskedOf(r), Clean')
                 /\ Keeps(mem[r], RowOf(r), task2, row2, Clean')
    PROVE  Acts(r)
  <1>1. pc[r] = l /\ mem[r] \in Task
    BY AtRec
  <1>2. PICK row2 \in Row \cup {NoRow} :
           /\ rows' = [rows EXCEPT ![Of(r)] = row2] /\ (Clean' => Clean)
           /\ row2.tok = mem[r].tok \/ row2 = RowOf(r)
           /\ \/ row2 = RowOf(r) /\ ~Clean'
              \/ Upsert(RowOf(r), row2, mem[r].tok, status, Pid(r), req)
    BY <1>1, TryStoreShape
  <1>3. /\ RunOk(m, task2, row2, Pid(r), AskedOf(r), Clean')
        /\ Keeps(mem[r], RowOf(r), task2, row2, Clean')
    BY <1>2
  <1>4. Own(r, m, task2, row2) /\ Works(r, m)
    BY <1>1, <1>2, EndWorks DEF Own, Goto, WorkersEnd
  <1> QED BY <1>1, <1>2, <1>3, <1>4, OwnActs DEF At

(* A run that only changes its task. *)
LEMMA TaskActs ==
    ASSUME IInv, IInv', RecInv, NEW r \in Run, NEW l, NEW m, At(r, l),
           l \notin {"idle", "spawned", "cmd"},
           NEW task2 \in Task, task2.tok = mem[r].tok, mem' = [mem EXCEPT ![r] = task2],
           Goto(r, m), UNCHANGED <<alive, lastTok, canc, worker, rows, dbFails>>,
           RunOk(m, task2, RowOf(r), Pid(r), AskedOf(r), Clean'),
           Keeps(mem[r], RowOf(r), task2, RowOf(r), Clean')
    PROVE  Acts(r)
  <1>1. pc[r] = l /\ mem[r] \in Task
    BY AtRec
  <1>2. rows' = [rows EXCEPT ![Of(r)] = RowOf(r)]
    BY DEF IInv, TypeOK, RowOf
  <1>3. Own(r, m, task2, RowOf(r)) /\ Works(r, m) /\ (Clean' => Clean)
    BY <1>1, <1>2, EndWorks DEF Own, Goto, WorkersEnd, Clean
  <1> QED BY <1>1, <1>3, OwnActs DEF At

LEMMA PendingIs ==
    ASSUME NEW r \in Run
    PROVE  CancelPending(r) <=> Pending(mem[r], RowOf(r))
  BY DEF CancelPending, Pending, TokOf

(* A task that gets another status, its token and mark kept. *)
LEMMA StatusTask ==
    ASSUME NEW task \in Task, NEW s \in Status
    PROVE  /\ [task EXCEPT !.status = s] \in Task /\ [task EXCEPT !.status = s].tok = task.tok
           /\ [task EXCEPT !.status = s].status = s /\ [task EXCEPT !.status = s].req = task.req
  BY DEF Task

(* Registration is over: the steps up to the slot. *)
LEMMA QueueActs ==
    ASSUME IInv, IInv', RecInv, NEW r \in Run, QueueStep(r)
    PROVE  Acts(r) /\ UNCHANGED canc
  <1>0. ASSUME worker' = worker, NEW l, At(r, l), l \notin {"spawned", "cmd"}, NEW m
        PROVE  Works(r, m)
    BY <1>0, EndWorks DEF WorkersEnd, At
  <1>1. CASE PersistQueued(r)
    <2>1. At(r, "persistQ") /\ Goto(r, "try0") /\ UNCHANGED <<alive, lastTok, mem, canc, worker>>
      BY <1>1 DEF PersistQueued
    <2>2. /\ pc[r] = "persistQ"
          /\ RunOk("persistQ", mem[r], RowOf(r), Pid(r), AskedOf(r), Clean)
          /\ mem[r] \in Task /\ RowOf(r) \in Row \cup {NoRow} /\ Pid(r) \in Proc
          /\ AskedOf(r) \in BOOLEAN /\ Clean \in BOOLEAN /\ Clean' \in BOOLEAN
          /\ mem[r].req \in BOOLEAN
      BY <2>1, AtRec
    <2>3. StoreNew(r, "queued", mem[r].req) \/ PersistFails
      BY <1>1 DEF PersistQueued, TryPersist, StoreNew
    <2>4. \E row2 \in Row \cup {NoRow} :
             /\ rows' = [rows EXCEPT ![Of(r)] = row2] /\ (Clean' => Clean)
             /\ row2.tok = mem[r].tok \/ row2 = RowOf(r)
             /\ \/ row2 = RowOf(r)
                \/ UpsertNew(RowOf(r), row2, mem[r].tok, "queued", Pid(r), mem[r].req)
      <3>1. CASE StoreNew(r, "queued", mem[r].req)
        <4>1. PICK row2 \in Row \cup {NoRow} :
                /\ rows' = [rows EXCEPT ![Of(r)] = row2] /\ Clean' = Clean
                /\ UpsertNew(RowOf(r), row2, mem[r].tok, "queued", Pid(r), mem[r].req)
          BY <2>2, <3>1, Statuses, PersistShape
        <4>2. row2.tok = mem[r].tok \/ row2 = RowOf(r)
          BY <4>1 DEF UpsertNew, Written
        <4> QED BY <4>1, <4>2
      <3>2. CASE PersistFails
        BY <2>2, <3>2, Statuses, PersistShape
      <3> QED BY <2>3, <3>1, <3>2
    <2>5. PICK row2 \in Row \cup {NoRow} :
             /\ rows' = [rows EXCEPT ![Of(r)] = row2] /\ (Clean' => Clean)
             /\ row2.tok = mem[r].tok \/ row2 = RowOf(r)
             /\ \/ row2 = RowOf(r)
                \/ UpsertNew(RowOf(r), row2, mem[r].tok, "queued", Pid(r), mem[r].req)
      BY <2>4
    <2>6. /\ RunOk("try0", mem[r], row2, Pid(r), AskedOf(r), Clean')
          /\ Keeps(mem[r], RowOf(r), mem[r], row2, Clean')
      BY <2>2, <2>5, PersistQueuedOk, ZenonT(60)
    <2>7. mem' = [mem EXCEPT ![r] = mem[r]]
      BY <2>1 DEF IInv, TypeOK
    <2>8. Own(r, "try0", mem[r], row2) /\ Works(r, "try0")
      BY <1>0, <2>1, <2>5, <2>7 DEF Own, Goto
    <2> QED BY <2>1, <2>2, <2>5, <2>6, <2>8, OwnActs DEF At
  <1>2. CASE TryAcquire0(r)
    BY <1>2, AcquireActs, <1>0, MoveActs DEF TryAcquire0, Acquire, gate, Moves
  <1>3. CASE CheckQueued(r)
    BY <1>3, FinishActs, <1>0, MoveActs DEF CheckQueued, Moves
  <1>4. CASE MarkQueued(r)
    <2>1. At(r, "markQ") /\ Goto(r, "wait") /\ UNCHANGED <<alive, lastTok, canc, worker, mem>>
      BY <1>4 DEF MarkQueued
    <2>2. CASE mem[r].status = "cancelled"
      BY <1>4, <2>2, <1>0, <2>1, MoveActs DEF MarkQueued, Moves
    <2>3. CASE mem[r].status # "cancelled"
      <3>1. /\ RunOk("markQ", mem[r], RowOf(r), Pid(r), AskedOf(r), Clean)
            /\ mem[r] \in Task /\ RowOf(r) \in Row \cup {NoRow} /\ Pid(r) \in Proc
            /\ AskedOf(r) \in BOOLEAN /\ Clean \in BOOLEAN /\ Clean' \in BOOLEAN
            /\ mem[r].req \in BOOLEAN
        BY <2>1, AtRec
      <3>2. TryStore(r, "queued", mem[r].req)
        BY <1>4, <2>3 DEF MarkQueued, TryPersist, TryStore, Store
      <3>3. mem' = [mem EXCEPT ![r] = mem[r]]
        BY <2>1 DEF IInv, TypeOK
      <3>4. \A row2 \in Row \cup {NoRow} :
              /\ Clean' => Clean
              /\ \/ row2 = RowOf(r) /\ ~Clean'
                 \/ Upsert(RowOf(r), row2, mem[r].tok, "queued", Pid(r), mem[r].req)
              => /\ RunOk("wait", mem[r], row2, Pid(r), AskedOf(r), Clean')
                 /\ Keeps(mem[r], RowOf(r), mem[r], row2, Clean')
        BY <2>3, <3>1, MarkQueuedOk, SMTT(40)
      <3> QED BY <2>1, <3>1, <3>2, <3>3, <3>4, Statuses, StoreActs
    <2> QED BY <2>2, <2>3
  <1>5. CASE WaitForSlot(r)
    BY <1>5, AcquireActs, <1>0, MoveActs DEF WaitForSlot, Acquire, gate, Moves
  <1>6. CASE CheckTimeout(r)
    <2>1. At(r, "check1") /\ Goto(r, "except") /\ UNCHANGED <<alive, lastTok, canc, worker>>
      BY <1>6 DEF CheckTimeout
    <2>2. CASE FinishCancelled(r)
      BY <2>1, <2>2, FinishActs
    <2>3. CASE ~FinishCancelled(r)
      <3> DEFINE task2 == [mem[r] EXCEPT !.status = "failed"]
      <3>1. /\ RunOk("check1", mem[r], RowOf(r), Pid(r), AskedOf(r), Clean)
            /\ mem[r] \in Task /\ RowOf(r) \in Row \cup {NoRow} /\ Pid(r) \in Proc
            /\ AskedOf(r) \in BOOLEAN /\ Clean \in BOOLEAN /\ Clean' \in BOOLEAN
            /\ mem[r].req \in BOOLEAN
        BY <2>1, AtRec
      <3>2. /\ ~Pending(mem[r], RowOf(r)) /\ mem' = [mem EXCEPT ![r] = task2]
            /\ TryStore(r, "failed", mem[r].req)
        BY <1>6, <2>3, PendingIs DEF CheckTimeout, TryPersist, TryStore, Store
      <3>3. /\ task2 \in Task /\ task2.tok = mem[r].tok /\ task2.status = "failed"
            /\ task2.req = mem[r].req
        BY <3>1, Statuses, StatusTask
      <3> HIDE DEF task2
      <3>4. \A row2 \in Row \cup {NoRow} :
              /\ Clean' => Clean
              /\ \/ row2 = RowOf(r) /\ ~Clean'
                 \/ Upsert(RowOf(r), row2, mem[r].tok, "failed", Pid(r), mem[r].req)
              => /\ RunOk("except", task2, row2, Pid(r), AskedOf(r), Clean')
                 /\ Keeps(mem[r], RowOf(r), task2, row2, Clean')
        BY <3>1, <3>2, <3>3, TimeoutOk
      <3> QED BY <2>1, <3>1, <3>2, <3>3, <3>4, Statuses, StoreActs
    <2> QED BY <2>2, <2>3
  <1>7. CASE DrainKills(r)
    BY <1>7, EndWorks, MoveActs DEF DrainKills, gate, Killed, WorkersEnd, At, Moves
  <1> QED BY <1>1, <1>2, <1>3, <1>4, <1>5, <1>6, <1>7 DEF QueueStep

(* The task becomes the run's, and the builder runs and returns. *)
LEMMA TaskStepActs ==
    ASSUME IInv, IInv', RecInv, NEW r \in Run,
           \/ StartBuilding(r) \/ PersistBuilding(r) \/ PersistLost(r)
           \/ FinishBuild(r) \/ PersistSuccess(r)
    PROVE  Acts(r) /\ UNCHANGED canc
  <1>0. ASSUME worker' = worker, NEW l, At(r, l), l \notin {"spawned", "cmd"}, NEW m
        PROVE  Works(r, m)
    BY <1>0, EndWorks DEF WorkersEnd, At
  <1>1. CASE StartBuilding(r)
    <2>1. At(r, "claimed") /\ UNCHANGED <<alive, lastTok, canc, worker>>
      BY <1>1 DEF StartBuilding
    <2>2. CASE FinishCancelled(r) /\ Goto(r, "except")
      BY <2>1, <2>2, FinishActs
    <2>3. CASE ~(FinishCancelled(r) /\ Goto(r, "except"))
      <3> DEFINE task2 == [mem[r] EXCEPT !.status = "building"]
      <3>1. /\ RunOk("claimed", mem[r], RowOf(r), Pid(r), AskedOf(r), Clean)
            /\ mem[r] \in Task /\ RowOf(r) \in Row \cup {NoRow} /\ Pid(r) \in Proc
            /\ AskedOf(r) \in BOOLEAN /\ Clean \in BOOLEAN /\ Clean' \in BOOLEAN
            /\ mem[r].req \in BOOLEAN
        BY <2>1, AtRec
      <3>2. /\ ~Pending(mem[r], RowOf(r)) /\ mem' = [mem EXCEPT ![r] = task2]
            /\ Goto(r, "persistB") /\ UNCHANGED <<rows, dbFails>>
        BY <1>1, <2>3, PendingIs DEF StartBuilding
      <3>3. /\ task2 \in Task /\ task2.tok = mem[r].tok /\ task2.status = "building"
            /\ task2.req = mem[r].req
        BY <3>1, Statuses, StatusTask
      <3> HIDE DEF task2
      <3>4. Clean' => Clean
        BY <3>2 DEF Clean
      <3>5. /\ RunOk("persistB", task2, RowOf(r), Pid(r), AskedOf(r), Clean')
            /\ Keeps(mem[r], RowOf(r), task2, RowOf(r), Clean')
        BY <3>1, <3>2, <3>3, <3>4, ClaimOk
      <3> QED BY <2>1, <3>2, <3>3, <3>5, TaskActs
    <2> QED BY <2>2, <2>3
  <1>2. CASE PersistBuilding(r)
    <2>1. At(r, "persistB") /\ UNCHANGED <<alive, lastTok, canc, worker, mem>>
      BY <1>2 DEF PersistBuilding
    <2>2. mem' = [mem EXCEPT ![r] = mem[r]]
      BY <2>1 DEF IInv, TypeOK
    <2>3. CASE UpsertOk(RowOf(r), mem[r].tok, "building", FALSE) /\ Store(r, "building", mem[r].req)
                 /\ Goto(r, "enter")
      <3>1. /\ RunOk("persistB", mem[r], RowOf(r), Pid(r), AskedOf(r), Clean)
            /\ mem[r] \in Task /\ RowOf(r) \in Row \cup {NoRow} /\ Pid(r) \in Proc
            /\ AskedOf(r) \in BOOLEAN /\ Clean \in BOOLEAN /\ Clean' \in BOOLEAN
            /\ mem[r].req \in BOOLEAN
        BY <2>1, AtRec
      <3>2. PICK row2 \in Row \cup {NoRow} :
              /\ rows' = [rows EXCEPT ![Of(r)] = row2] /\ Clean' = Clean
              /\ Upsert(RowOf(r), row2, mem[r].tok, "building", Pid(r), mem[r].req)
        BY <2>3, <3>1, Statuses, PersistShape
      <3>3. row2.tok = mem[r].tok \/ row2 = RowOf(r)
        BY <3>2 DEF Upsert, Written
      <3>4. /\ RunOk("enter", mem[r], row2, Pid(r), AskedOf(r), Clean')
            /\ Keeps(mem[r], RowOf(r), mem[r], row2, Clean')
        BY <2>3, <3>1, <3>2, PersistBuildingOk, ZenonT(60)
      <3>5. Own(r, "enter", mem[r], row2) /\ Works(r, "enter")
        BY <1>0, <2>1, <2>2, <2>3, <3>2 DEF Own, Goto
      <3> QED BY <2>1, <3>1, <3>2, <3>3, <3>4, <3>5, OwnActs DEF At
    <2>4. CASE ~(UpsertOk(RowOf(r), mem[r].tok, "building", FALSE) /\ Store(r, "building", mem[r].req)
                   /\ Goto(r, "enter"))
      <3>1. /\ RunOk("persistB", mem[r], RowOf(r), Pid(r), AskedOf(r), Clean)
            /\ mem[r] \in Task /\ RowOf(r) \in Row \cup {NoRow} /\ Pid(r) \in Proc
            /\ AskedOf(r) \in BOOLEAN /\ Clean \in BOOLEAN /\ Clean' \in BOOLEAN
            /\ mem[r].req \in BOOLEAN
        BY <2>1, AtRec
      <3>2. Goto(r, "lost") /\ (UNCHANGED <<rows, dbFails>> \/ PersistFails)
        BY <1>2, <2>4 DEF PersistBuilding, Store, TokOf
      <3>3. rows' = [rows EXCEPT ![Of(r)] = RowOf(r)] /\ (Clean' => Clean)
        BY <3>1, Statuses, PersistShape, <3>2 DEF IInv, TypeOK, RowOf, Clean
      <3>4. <<"persistB", "lost">> \in Moves
        BY DEF Moves
      <3>5. /\ RunOk("lost", mem[r], RowOf(r), Pid(r), AskedOf(r), Clean')
            /\ Keeps(mem[r], RowOf(r), mem[r], RowOf(r), Clean')
        BY <3>1, <3>3, <3>4, MoveOk
      <3>6. Own(r, "lost", mem[r], RowOf(r)) /\ Works(r, "lost")
        BY <1>0, <2>1, <2>2, <3>2, <3>3 DEF Own, Goto
      <3> QED BY <2>1, <3>1, <3>3, <3>5, <3>6, OwnActs DEF At
    <2> QED BY <2>3, <2>4
  <1>3. CASE PersistLost(r)
    BY <1>3, FinishActs DEF PersistLost
  <1>4. CASE FinishBuild(r)
    <2>1. At(r, "finish") /\ UNCHANGED <<alive, lastTok, canc, worker>>
      BY <1>4 DEF FinishBuild
    <2>2. CASE FinishCancelled(r) /\ Goto(r, "except")
      BY <2>1, <2>2, FinishActs
    <2>3. CASE ~(FinishCancelled(r) /\ Goto(r, "except"))
      <3> DEFINE task2 == [mem[r] EXCEPT !.status = "success"]
      <3>1. /\ RunOk("finish", mem[r], RowOf(r), Pid(r), AskedOf(r), Clean)
            /\ mem[r] \in Task /\ RowOf(r) \in Row \cup {NoRow} /\ Pid(r) \in Proc
            /\ AskedOf(r) \in BOOLEAN /\ Clean \in BOOLEAN /\ Clean' \in BOOLEAN
            /\ mem[r].req \in BOOLEAN
        BY <2>1, AtRec
      <3>2. /\ ~Pending(mem[r], RowOf(r)) /\ mem' = [mem EXCEPT ![r] = task2]
            /\ Goto(r, "persistS") /\ UNCHANGED <<rows, dbFails>>
        BY <1>4, <2>3, PendingIs DEF FinishBuild
      <3>3. /\ task2 \in Task /\ task2.tok = mem[r].tok /\ task2.status = "success"
            /\ task2.req = mem[r].req
        BY <3>1, Statuses, StatusTask
      <3> HIDE DEF task2
      <3>4. Clean' => Clean
        BY <3>2 DEF Clean
      <3>5. /\ RunOk("persistS", task2, RowOf(r), Pid(r), AskedOf(r), Clean')
            /\ Keeps(mem[r], RowOf(r), task2, RowOf(r), Clean')
        BY <3>1, <3>2, <3>3, <3>4, FinishOk
      <3> QED BY <2>1, <3>2, <3>3, <3>5, TaskActs
    <2> QED BY <2>2, <2>3
  <1>5. CASE PersistSuccess(r)
    <2>1. At(r, "persistS") /\ UNCHANGED <<alive, lastTok, canc, worker, mem>>
      BY <1>5 DEF PersistSuccess
    <2>2. mem' = [mem EXCEPT ![r] = mem[r]]
      BY <2>1 DEF IInv, TypeOK
    <2>3. CASE UpsertOk(RowOf(r), mem[r].tok, "success", FALSE) /\ Store(r, "success", mem[r].req)
                 /\ Goto(r, "release")
      <3>1. /\ RunOk("persistS", mem[r], RowOf(r), Pid(r), AskedOf(r), Clean)
            /\ mem[r] \in Task /\ RowOf(r) \in Row \cup {NoRow} /\ Pid(r) \in Proc
            /\ AskedOf(r) \in BOOLEAN /\ Clean \in BOOLEAN /\ Clean' \in BOOLEAN
            /\ mem[r].req \in BOOLEAN
        BY <2>1, AtRec
      <3>2. PICK row2 \in Row \cup {NoRow} :
              /\ rows' = [rows EXCEPT ![Of(r)] = row2] /\ Clean' = Clean
              /\ Upsert(RowOf(r), row2, mem[r].tok, "success", Pid(r), mem[r].req)
        BY <2>3, <3>1, Statuses, PersistShape
      <3>3. row2.tok = mem[r].tok \/ row2 = RowOf(r)
        BY <3>2 DEF Upsert, Written
      <3>4. /\ RunOk("release", mem[r], row2, Pid(r), AskedOf(r), Clean')
            /\ Keeps(mem[r], RowOf(r), mem[r], row2, Clean')
        BY <2>3, <3>1, <3>2, PersistSuccessOk, ZenonT(60)
      <3>5. Own(r, "release", mem[r], row2) /\ Works(r, "release")
        BY <1>0, <2>1, <2>2, <2>3, <3>2 DEF Own, Goto
      <3> QED BY <2>1, <3>1, <3>2, <3>3, <3>4, <3>5, OwnActs DEF At
    <2>4. CASE ~(UpsertOk(RowOf(r), mem[r].tok, "success", FALSE) /\ Store(r, "success", mem[r].req)
                   /\ Goto(r, "release"))
      <3>1. /\ RunOk("persistS", mem[r], RowOf(r), Pid(r), AskedOf(r), Clean)
            /\ mem[r] \in Task /\ RowOf(r) \in Row \cup {NoRow} /\ Pid(r) \in Proc
            /\ AskedOf(r) \in BOOLEAN /\ Clean \in BOOLEAN /\ Clean' \in BOOLEAN
            /\ mem[r].req \in BOOLEAN
        BY <2>1, AtRec
      <3>2. Goto(r, "lost") /\ (UNCHANGED <<rows, dbFails>> \/ PersistFails)
        BY <1>5, <2>4 DEF PersistSuccess, Store, TokOf
      <3>3. rows' = [rows EXCEPT ![Of(r)] = RowOf(r)] /\ (Clean' => Clean)
        BY <3>1, Statuses, PersistShape, <3>2 DEF IInv, TypeOK, RowOf, Clean
      <3>4. <<"persistS", "lost">> \in Moves
        BY DEF Moves
      <3>5. /\ RunOk("lost", mem[r], RowOf(r), Pid(r), AskedOf(r), Clean')
            /\ Keeps(mem[r], RowOf(r), mem[r], RowOf(r), Clean')
        BY <3>1, <3>3, <3>4, MoveOk
      <3>6. Own(r, "lost", mem[r], RowOf(r)) /\ Works(r, "lost")
        BY <1>0, <2>1, <2>2, <3>2, <3>3 DEF Own, Goto
      <3> QED BY <2>1, <3>1, <3>3, <3>5, <3>6, OwnActs DEF At
    <2> QED BY <2>3, <2>4
  <1> QED BY <1>1, <1>2, <1>3, <1>4, <1>5

(* The context of the builder, its command and its end. *)
LEMMA CommandActs ==
    ASSUME IInv, IInv', RecInv, NEW r \in Run,
           \/ EnterContext(r) \/ SpawnWorker(r) \/ RegisterWorker(r) \/ KillWorker(r)
           \/ CommandTimeout(r) \/ CommandEnds(r) \/ CommandResult(r) \/ BuilderEnds(r)
    PROVE  Acts(r) /\ UNCHANGED canc
  <1>0. ASSUME worker' = worker, NEW l, At(r, l), l \notin {"spawned", "cmd"}, NEW m
        PROVE  Works(r, m)
    BY <1>0, EndWorks DEF WorkersEnd, At
  <1>1. CASE EnterContext(r)
    BY <1>1, <1>0, MoveActs DEF EnterContext, gate, Moves
  <1>2. CASE SpawnWorker(r)
    BY <1>2, MoveActs DEF SpawnWorker, gate, Moves, Works, IInv, TypeOK
  <1>3. CASE RegisterWorker(r)
    BY <1>3, EndWorks, MoveActs DEF RegisterWorker, Moves, WorkersEnd
  <1>4. CASE KillWorker(r) \/ CommandTimeout(r)
    BY <1>4, EndWorks, MoveActs DEF KillWorker, CommandTimeout, gate, local, Moves, Goto, At,
           IInv, TypeOK, Killed, WorkersEnd
  <1>5. CASE CommandEnds(r)
    BY <1>5, EndWorks, MoveActs DEF CommandEnds, Moves, WorkersEnd
  <1>6. CASE CommandResult(r)
    BY <1>6, <1>0, MoveActs DEF CommandResult, gate, Moves
  <1>7. CASE BuilderEnds(r)
    BY <1>7, <1>0, MoveActs DEF BuilderEnds, gate, Moves
  <1> QED BY <1>1, <1>2, <1>3, <1>4, <1>5, <1>6, <1>7

(* The exceptions and the finally of run(). *)
LEMMA EndActs ==
    ASSUME IInv, IInv', RecInv, NEW r \in Run, EndStep(r)
    PROVE  Acts(r) /\ UNCHANGED canc
  <1>0. ASSUME worker' = worker, NEW l, At(r, l), l \notin {"spawned", "cmd"}, NEW m
        PROVE  Works(r, m)
    BY <1>0, EndWorks DEF WorkersEnd, At
  <1>1. ASSUME NEW l \in {"except", "exceptC"}, At(r, l), NEW s \in {"cancelled", "failed"},
               mem[r].status = "cancelled" => s = "cancelled",
               mem' = [mem EXCEPT ![r].status = s], TryPersist(r, s, mem[r].req, FALSE),
               Goto(r, "release"), UNCHANGED <<alive, lastTok, worker, canc>>
        PROVE  Acts(r)
    <2> DEFINE task2 == [mem[r] EXCEPT !.status = s]
    <2>1. /\ RunOk(l, mem[r], RowOf(r), Pid(r), AskedOf(r), Clean)
          /\ mem[r] \in Task /\ RowOf(r) \in Row \cup {NoRow} /\ Pid(r) \in Proc
          /\ AskedOf(r) \in BOOLEAN /\ Clean \in BOOLEAN /\ Clean' \in BOOLEAN
          /\ mem[r].req \in BOOLEAN
      BY <1>1, AtRec
    <2>2. mem' = [mem EXCEPT ![r] = task2] /\ TryStore(r, s, mem[r].req) /\ s \in Status
      BY <1>1, Statuses DEF TryPersist, TryStore, Store
    <2>3. /\ task2 \in Task /\ task2.tok = mem[r].tok /\ task2.status = s
          /\ task2.req = mem[r].req
      BY <2>1, <2>2, StatusTask
    <2> HIDE DEF task2
    <2>4. \A row2 \in Row \cup {NoRow} :
            /\ Clean' => Clean
            /\ \/ row2 = RowOf(r) /\ ~Clean'
               \/ Upsert(RowOf(r), row2, mem[r].tok, s, Pid(r), mem[r].req)
            => /\ RunOk("release", task2, row2, Pid(r), AskedOf(r), Clean')
               /\ Keeps(mem[r], RowOf(r), task2, row2, Clean')
      BY <1>1, <2>1, <2>3, RaiseOk, SMTT(40)
    <2> QED BY <1>1, <2>1, <2>2, <2>3, <2>4, StoreActs, ZenonT(60)
  <1>2. CASE OnCancelled(r)
    BY <1>1, <1>2 DEF OnCancelled
  <1>3. CASE OnError(r)
    BY <1>1, <1>3 DEF OnError
  <1>4. CASE ReleaseSlot(r)
    BY <1>4, <1>0, MoveActs DEF ReleaseSlot, Moves
  <1> QED BY <1>2, <1>3, <1>4 DEF EndStep

-----------------------------------------------------------------------------
(* The calls of cancel()                                                    *)

(* No run moves: the rows are at most closed, a call looks at a build. *)
LEMMA StillActs ==
    ASSUME IInv, IInv', RecInv, NEW r \in Run,
           UNCHANGED <<alive, lastTok, mem, pc, dbFails>>,
           \A i \in Inst : Closing(i), CallsLook, WorkersEnd
    PROVE  Acts(r)
BY RunTypes, StillOk, EndWorks DEF Acts

(* A row that stays as it is. *)
LEMMA SameRows ==
    ASSUME rows' = rows
    PROVE  \A i \in Inst : Closing(i)
  BY DEF Closing

(* update_build_task by a call: it closes the build it was asked to cancel, *)
(* or gives up a cancel that was under way.                                 *)
LEMMA UpdatedCloses ==
    ASSUME IInv, NEW i \in Inst, NEW tok, NEW s, NEW req \in BOOLEAN,
           rows' = [rows EXCEPT ![i] = Updated(@, tok, s, req)],
           \/ s \in {"cancelling", "cancelled"} /\ AskedNow(i, tok)
           \/ s = "cancel_failed" /\ ~req
    PROVE  \A j \in Inst : Closing(j)
BY Table DEF IInv, TypeOK, Closing, Updated, NoRow, Row, Status, Active, Terminal

(* A call of cancel changes its own record only. *)
OnlyCall(c) == \A d \in Cancels \ {c} : canc'[d] = canc[d]

(* A call that moves on without looking at a build. *)
LEMMA SameLooks ==
    ASSUME NEW c \in Cancels, OnlyCall(c), SameLook(c)
    PROVE  CallsLook
  BY DEF OnlyCall, SameLook, CallsLook

(* A call that looks at the build of its own process. *)
LEMMA LooksAtTask ==
    ASSUME IInv, RecInv, NEW c \in Cancels, OnlyCall(c),
           canc[c].pc = "start", canc'[c].tok = TokOf(c[1])
    PROVE  CallsLook /\ AskedOf(c[1])' = AskedNow(Of(c[1]), TokOf(c[1])')
           /\ AskedNow(Of(c[1]), TokOf(c[1]))
BY DEF RecInv, CallRec, CallOk, OnlyCall, CallsLook, AskedNow, Inst_, AskedOf, Asked, Of

(* What a call does to the task of its process and to the row. *)
LEMMA CallActs ==
    ASSUME IInv, IInv', RecInv, NEW r \in Run, NEW task \in Task,
           NEW row, mem[r] \in Task, pc[r] # "idle" \/ row = RowOf(r), task.tok = mem[r].tok,
           row.tok = mem[r].tok \/ row = RowOf(r),
           UNCHANGED <<alive, lastTok, pc>>,
           mem' = [mem EXCEPT ![r] = task], rows' = [rows EXCEPT ![Of(r)] = row],
           Clean' => Clean, WorkersEnd, CallsLook,
           RunOk(pc[r], task, row, Pid(r), AskedOf(r)', Clean'),
           Keeps(mem[r], RowOf(r), task, row, Clean')
    PROVE  Acts(r)
  <1>1. /\ Of(r) \in Inst /\ mem \in [Run -> Task \cup {NoTask}]
        /\ rows \in [Inst -> Row \cup {NoRow}]
    BY RunTypes DEF IInv, TypeOK
  <1>2. /\ mem'[r] = task /\ rows'[Of(r)] = row
        /\ \A q \in Run \ {r} : mem'[q] = mem[q]
        /\ \A i \in Inst \ {Of(r)} : rows'[i] = rows[i]
    BY <1>1
  <1>3. mem[r] # NoTask
    BY DEF Task, NoTask, Token, NoTok
  <1>4. \A i \in Inst : \/ Closing(i)
                        \/ i = Of(r) /\ pc[r] # "idle" /\ rows'[i].tok = TokOf(r)
    BY <1>1, <1>2 DEF Closing, TokOf, RowOf
  <1>5. RowOf(r)' = row /\ Pid(r)' = Pid(r)
    BY <1>2 DEF RowOf, Pid, Of
  <1>6. RunRec(r)'
    BY <1>2, <1>5 DEF RunRec, AskedOf, Clean
  <1>7. Keeps(mem[r], RowOf(r), mem'[r], RowOf(r)', (dbFails = 0)')
    BY <1>2, <1>5 DEF Clean
  <1>8. Works(r, pc'[r])
    BY EndWorks
  <1> QED BY <1>2, <1>3, <1>4, <1>6, <1>7, <1>8 DEF Acts, Clean

(* A call that has just looked at the build of its process. *)
LEMMA NewLook ==
    ASSUME IInv, IInv', RecInv, NEW c \in Cancels, Acts(c[1]),
           canc'[c].tok = TokOf(c[1])', mem'[c[1]] \in Task, CallOk(canc'[c]),
           Early(canc'[c]) =>
              \/ mem'[c[1]].status = "cancelled"
              \/ /\ mem'[c[1]].status = "cancelling" /\ mem'[c[1]].req
                 /\ canc'[c].prev # "queued"
    PROVE  CallRec(c)'
  <1>1. /\ c[1] \in Run /\ Inst_(c) \in Inst /\ Inst_(c) = Of(c[1]) /\ Inst_(c)' = Inst_(c)
        /\ TokOf(c[1])' # NoTok
    BY CancelTypes DEF Inst_, Of, TokOf, Task, Token, NoTok
  <1>2. TokenInv' /\ RunRec(c[1])'
    BY <1>1, ActsOrder, ActsRuns
  <1>3. \A q \in Run : canc'[c].tok = TokOf(q)' => q = c[1]
    BY <1>1, <1>2 DEF TokenInv, TokOf
  <1>4. Early(canc'[c]) => Hopeless(mem'[c[1]], RowOf(c[1])')
    BY DEF Hopeless
  <1>5. ASSUME Early(canc'[c]), canc'[c].tok = rows'[Inst_(c)].tok
        PROVE  rows'[Inst_(c)].status # "success"
    BY <1>1, <1>5, <1>2 DEF Owns, RowOf, TokOf, Of, RunRec, RunOk, RowOk
  <1> QED BY <1>1, <1>3, <1>4, <1>5 DEF CallRec, Inst_, Of

-----------------------------------------------------------------------------
(* The invariant, step by step                                              *)

(* What every step must leave. *)
Good == RecInv' /\ \A i \in Inst : Closed(i)

LEMMA ActsRec ==
    ASSUME IInv, IInv', RecInv, NEW r \in Run, Acts(r),
           \A d \in Cancels : CallRec(d)' \/ (SameLook(d) /\ CallOk(canc'[d]))
    PROVE  Good
BY ActsOrder, ActsRuns, ActsRows, ActsCalls DEF Good, RecInv

(* A step of run(), or of its command. *)
LEMMA RunStepRec ==
    ASSUME IInv, IInv', RecInv, NEW r \in Run,
           RunStep(r) \/ SpawnWorker(r) \/ CommandTimeout(r)
    PROVE  Good
BY QueueActs, TaskStepActs, CommandActs, EndActs, ActsRec DEF BuildStep, RunStep, SameLook,
       RecInv, CallRec

(* A step of a call, what it does to the runs and the rows being known. *)
LEMMA CallActsRec ==
    ASSUME IInv, IInv', RecInv, NEW r \in Run, Acts(r), NEW c \in Cancels, OnlyCall(c),
           CallRec(c)' \/ (SameLook(c) /\ CallOk(canc'[c]))
    PROVE  Good
BY ActsRec DEF OnlyCall, SameLook, RecInv, CallRec

(* A call that moves on: rows are closed, workers end, no task changes. *)
LEMMA CallMovesRec ==
    ASSUME IInv, IInv', RecInv, NEW c \in Cancels, OnlyCall(c), SameLook(c), CallOk(canc'[c]),
           UNCHANGED <<alive, lastTok, mem, pc, dbFails>>,
           \A i \in Inst : Closing(i), WorkersEnd
    PROVE  Good
BY CancelTypes, SameLooks, StillActs, CallActsRec

(* The steps of a call that move it and report nothing. *)
CallMoves == {<<"start", "xread">>, <<"hub", "signal">>, <<"signal", "wait">>, <<"wait", "read">>,
              <<"mark", "markRow">>, <<"xmark", "xsignal">>, <<"xsignal", "xpoll">>}

LEMMA StepOk ==
    ASSUME IInv, RecInv, NEW c \in Cancels, NEW l, NEW m, CAt(c, l), Step(c, m),
           <<l, m>> \in CallMoves
    PROVE  OnlyCall(c) /\ SameLook(c) /\ CallOk(canc'[c])
BY CancelTypes DEF RecInv, CallRec, Step, CAt, CancelRec, CallOk, Early, CallMoves, OnlyCall,
       SameLook

(* The steps of a call that report, once it has looked. *)
CallReports == ({"xqueued", "xsignal", "xpoll"} \X Outcome) \cup {<<"markRow", "cancel_failed">>}

LEMMA ReportOk ==
    ASSUME IInv, RecInv, NEW c \in Cancels, NEW l, NEW o, CAt(c, l), Report(c, o),
           <<l, o>> \in CallReports
    PROVE  OnlyCall(c) /\ SameLook(c) /\ CallOk(canc'[c])
BY CancelTypes DEF RecInv, CallRec, Report, CAt, CallReports, CancelRec, CallOk, Early, OnlyCall,
       SameLook

LEMMA KilledEnd ==
    ASSUME NEW ts, worker' = Killed(ts)
    PROVE  WorkersEnd
  BY DEF Killed, WorkersEnd

(* The calls that find the build of another process. *)
LEMMA RemoteCancelRec ==
    ASSUME IInv, IInv', RecInv, NEW c \in Cancels, RemoteCancel(c)
    PROVE  Good
  <1>0. c[1] \in Run /\ Inst_(c) \in Inst /\ Inst_(c) = Of(c[1])
    BY CancelTypes DEF Inst_
  <1>a. worker' = worker => WorkersEnd
    BY DEF WorkersEnd
  <1>1. CASE CancelElsewhere(c)
    BY <1>1, <1>a, StepOk, SameRows, CallMovesRec DEF CancelElsewhere, gate, local, CallMoves
  <1>2. CASE ReadRow(c)
    <2> DEFINE row == rows[Inst_(c)]
    <2>1. /\ CAt(c, "xread") /\ rows' = rows /\ worker' = worker
          /\ UNCHANGED <<alive, lastTok, mem, pc, dbFails>>
      BY <1>2 DEF ReadRow, gate, local
    <2>2. /\ canc[c] \in CancelRec /\ canc \in [Cancels -> CancelRec] /\ CallOk(canc[c])
          /\ row \in Row \cup {NoRow}
      BY CancelTypes DEF RecInv, CallRec
    <2>3. OnlyCall(c) /\ canc[c].pc = "xread" /\ canc[c].tok = NoTok
      BY <1>2, <2>2 DEF OnlyCall, ReadRow, CAt, CallOk
    <2>4. CASE row = NoRow
      BY <1>2, <2>2, <2>4, <1>a, <2>1, <2>3, SameRows, CallMovesRec DEF ReadRow, NoRow, Terminal,
             CancelRec, SameLook, CallOk
    <2>5. CASE row # NoRow
      <3>1. canc'[c].tok = row.tok
        BY <1>2, <2>2, <2>5 DEF ReadRow, CancelRec
      <3>2. CallsLook
        BY <2>3, <3>1 DEF OnlyCall, CallsLook
      <3>3. Acts(c[1])
        BY <1>0, <1>a, <2>1, <3>2, SameRows, StillActs
      <3>4. CASE row.status \in Terminal
        <4>1. canc'[c] = [canc[c] EXCEPT !.pc = "done", !.tok = row.tok, !.prev = row.status,
                                         !.outcome = TerminalOutcome(row.status)]
          BY <1>2, <2>2, <2>5, <3>4 DEF ReadRow
        <4>2. /\ canc'[c].prev = row.status /\ canc'[c].pc = "done"
              /\ canc'[c].outcome = TerminalOutcome(row.status)
          BY <2>2, <4>1 DEF CancelRec
        <4>3. row.tok # NoTok
          BY <2>2, <2>5 DEF Row, Token, NoTok
        <4>4. CallOk(canc'[c])
          BY <3>1, <3>4, <4>2, <4>3 DEF CallOk, Early, TerminalOutcome
        <4>5. Early(canc'[c]) => row.status = "cancelled"
          BY <3>4, <4>2 DEF Early, Terminal
        <4>6. ASSUME NEW q \in Run, Early(canc'[c]), Inst_(c) = Of(q), row.tok = TokOf(q)
              PROVE  Hopeless(mem[q], RowOf(q))
          BY <4>3, <4>5, <4>6 DEF Hopeless, Owns, RowOf, TokOf
        <4>7. Early(canc'[c]) /\ canc'[c].prev = "queued" => FALSE
          BY <4>2, <4>5
        <4>8. CallRec(c)'
          BY <2>1, <3>1, <4>6, <4>5, <4>4, <4>7 DEF TokOf, RowOf, Inst_, Of, CallRec
        <4> QED BY <1>0, <2>3, <3>3, <4>8, CallActsRec
      <3>5. CASE row.status \notin Terminal
        BY <1>2, <2>2, <2>5, <3>5, GateAssumption, <2>3, <1>0, <3>3, CallActsRec DEF ReadRow,
               CancelRec, Row, CallOk, Early, CallRec
      <3> QED BY <3>4, <3>5
    <2> QED BY <2>4, <2>5
  <1>3. CASE CancelQueuedRow(c)
    BY <1>3, ReportOk, <1>0, UpdatedCloses, <1>a, CallMovesRec DEF CancelQueuedRow, local,
           CallReports, Outcome, AskedNow, SameLook
  <1>4. CASE MarkRowCancelling(c)
    BY <1>4, StepOk, <1>0, UpdatedCloses, <1>a, CallMovesRec DEF MarkRowCancelling, local,
           CallMoves, AskedNow, SameLook
  <1>5. CASE SignalWorker(c)
    BY <1>5, StepOk, ReportOk, <1>0, UpdatedCloses, SameRows, KilledEnd, CallMovesRec
       DEF SignalWorker, local, CallMoves, CallReports, Outcome, AskedNow, SameLook
  <1>6. CASE PollRow(c)
    BY <1>6, ReportOk, <1>a, SameRows, CallMovesRec DEF PollRow, gate, local, CallReports,
           Outcome, TerminalOutcome
  <1>7. CASE PollTimeout(c)
    BY <1>7, ReportOk, <1>0, UpdatedCloses, <1>a, CallMovesRec DEF PollTimeout, local,
           CallReports, Outcome
  <1> QED BY <1>1, <1>2, <1>3, <1>4, <1>5, <1>6, <1>7 DEF RemoteCancel

(* The calls that find the build in their own process. *)
LEMMA CancelFinishedRec ==
    ASSUME IInv, IInv', RecInv, NEW c \in Cancels, CancelFinished(c)
    PROVE  Good
  <1> DEFINE task == mem[c[1]]
  <1>1. /\ c[1] \in Run /\ canc[c] \in CancelRec /\ canc \in [Cancels -> CancelRec]
        /\ task \in Task \cup {NoTask} /\ CallOk(canc[c])
    BY CancelTypes DEF TaskOf, RecInv, CallRec
  <1>2. /\ canc[c].pc = "start" /\ rows' = rows /\ worker' = worker /\ task.status \in Terminal
        /\ UNCHANGED <<alive, lastTok, mem, pc, dbFails>>
    BY DEF CancelFinished, CAt, TaskOf, gate, local
  <1>3. task \in Task
    BY <1>1, <1>2 DEF NoTask, Terminal
  <1>4. canc' = [canc EXCEPT ![c] = [canc[c] EXCEPT !.pc = "done", !.tok = task.tok,
                                        !.prev = task.status,
                                        !.outcome = TerminalOutcome(task.status)]]
    BY <1>1 DEF CancelFinished, TaskOf
  <1>5. /\ canc'[c].tok = task.tok /\ canc'[c].prev = task.status /\ canc'[c].pc = "done"
        /\ canc'[c].outcome = TerminalOutcome(task.status)
    BY <1>1, <1>4 DEF CancelRec
  <1>6. OnlyCall(c)
    BY <1>4 DEF OnlyCall
  <1>7. CallsLook
    BY <1>2, <1>5, <1>6, LooksAtTask DEF TokOf
  <1>8. WorkersEnd
    BY <1>2 DEF WorkersEnd
  <1>9. Acts(c[1])
    BY <1>1, <1>2, <1>7, <1>8, SameRows, StillActs
  <1>10. Early(canc'[c]) => mem'[c[1]].status = "cancelled"
    BY <1>2, <1>5 DEF Early, Terminal
  <1>11. CallOk(canc'[c])
    BY <1>2, <1>3, <1>5 DEF CallOk, Early, TerminalOutcome, Terminal, Task, Token, NoTok
  <1>12. canc'[c].tok = TokOf(c[1])' /\ mem'[c[1]] \in Task
    BY <1>2, <1>3, <1>5 DEF TokOf
  <1>13. CallRec(c)'
    BY <1>9, <1>10, <1>11, <1>12, NewLook
  <1> QED BY <1>1, <1>6, <1>9, <1>13, CallActsRec

(* A call that marks the task of its process, and tries to mark the row. *)
LEMMA CallMarksRec ==
    ASSUME IInv, IInv', RecInv, NEW c \in Cancels,
           CancelQueued(c) \/ (CancelBuilding(c) /\ TaskOf(c).status = "building")
    PROVE  Good
  <1> DEFINE r     == c[1]
             old   == IF CancelQueued(c) THEN "queued" ELSE "building"
             new   == IF CancelQueued(c) THEN "cancelled" ELSE "cancelling"
             task  == [mem[r] EXCEPT !.status = new, !.req = Yes]
  <1>0. /\ Yes \in BOOLEAN /\ AskedOf(r)' \in BOOLEAN /\ AskedOf(r) \in BOOLEAN
        /\ Clean \in BOOLEAN /\ Clean' \in BOOLEAN /\ new \in Status
    BY Statuses DEF AskedOf, Asked, Clean, Yes
  <1>1. /\ r \in Run /\ canc[c] \in CancelRec /\ canc \in [Cancels -> CancelRec]
        /\ mem[r] \in Task \cup {NoTask} /\ CallOk(canc[c]) /\ TaskOf(c) = mem[r]
        /\ mem \in [Run -> Task \cup {NoTask}] /\ pc[r] \in RunPc
    BY CancelTypes DEF TaskOf, RecInv, CallRec, IInv, TypeOK
  <1>2. /\ canc[c].pc = "start" /\ worker' = worker /\ mem[r].status = old
        /\ Pid(r) \in alive /\ UNCHANGED <<alive, lastTok, pc>>
        /\ mem' = [mem EXCEPT ![r] = task] /\ TryStore(r, new, Yes)
    BY <1>1 DEF CancelQueued, CancelBuilding, CAt, TryPersist, TryStore, Store, Yes
  <1>3. mem[r] \in Task
    BY <1>1, <1>2 DEF NoTask
  <1>4. /\ task \in Task /\ task.tok = mem[r].tok /\ task.status = new /\ task.req
    BY <1>0, <1>3 DEF Task, Yes
  <1>5. /\ canc'[c].tok = mem[r].tok /\ canc'[c].prev = old
        /\ IF CancelQueued(c) THEN canc'[c].pc = "done" /\ canc'[c].outcome = "cancelled"
                              ELSE canc'[c].pc = "hub" /\ canc'[c].outcome = canc[c].outcome
    <2>1. CASE CancelQueued(c)
      BY <1>1, <2>1 DEF CancelQueued, CancelRec
    <2>2. CASE ~CancelQueued(c)
      <3>1. canc' = [canc EXCEPT ![c] = [canc[c] EXCEPT !.pc = "hub", !.tok = mem[r].tok,
                                                       !.prev = mem[r].status]]
        BY <1>1, <2>2 DEF CancelBuilding
      <3>2. canc'[c] = [canc[c] EXCEPT !.pc = "hub", !.tok = mem[r].tok, !.prev = mem[r].status]
        BY <1>1, <3>1
      <3>3. /\ canc'[c].tok = mem[r].tok /\ canc'[c].prev = mem[r].status
            /\ canc'[c].pc = "hub" /\ canc'[c].outcome = canc[c].outcome
        BY <1>1, <3>2 DEF CancelRec
      <3> QED BY <1>2, <2>2, <3>3
    <2> QED BY <2>1, <2>2
  <1>6. OnlyCall(c)
    <2>1. CASE CancelQueued(c)
      BY <2>1 DEF OnlyCall, CancelQueued
    <2>2. CASE CancelBuilding(c)
      BY <2>2 DEF OnlyCall, CancelBuilding
    <2> QED BY <2>1, <2>2
  <1>7. CallOk(canc'[c])
    BY <1>1, <1>2, <1>3, <1>5 DEF CallOk, Early, Task, Token, NoTok
  <1>8. /\ CallsLook /\ AskedOf(r)' = AskedNow(Of(r), TokOf(r)') /\ AskedNow(Of(r), TokOf(r))
    BY <1>2, <1>5, <1>6, LooksAtTask DEF TokOf
  <1>9. mem'[r] = task /\ TokOf(r)' = TokOf(r) /\ canc'[c].tok = TokOf(r)' /\ AskedOf(r)'
    BY <1>1, <1>2, <1>4, <1>5, <1>8 DEF TokOf
  <1>10. /\ RunOk(pc[r], mem[r], RowOf(r), Pid(r), AskedOf(r), Clean)
         /\ RowOf(r) \in Row \cup {NoRow} /\ Pid(r) \in Proc
    BY <1>1, RunTypes DEF RecInv, RunRec, AskedOf, Clean
  <1>11. pc[r] # "idle"
    BY <1>2, <1>3, <1>10 DEF RunOk, TaskOk, Terminal, Task, NoTask, Token, NoTok
  <1>12. PICK row \in Row \cup {NoRow} :
           /\ rows' = [rows EXCEPT ![Of(r)] = row] /\ (Clean' => Clean)
           /\ row.tok = mem[r].tok \/ row = RowOf(r)
           /\ \/ row = RowOf(r) /\ ~Clean'
              \/ Upsert(RowOf(r), row, mem[r].tok, new, Pid(r), Yes)
    BY <1>0, <1>1, <1>2, <1>3, TryStoreShape
  <1>13. /\ RunOk(pc[r], task, row, Pid(r), AskedOf(r)', Clean')
         /\ Keeps(mem[r], RowOf(r), task, row, Clean')
    <2>0. Clean' => Clean
      BY <1>12
    <2>a. AskedOf(r)' = Yes
      BY <1>0, <1>9 DEF Yes
    <2>1. CASE CancelQueued(c)
      <3>1. (row = RowOf(r) /\ ~Clean') \/ Upsert(RowOf(r), row, mem[r].tok, "cancelled", Pid(r), Yes)
        BY <1>12, <2>1
      <3>2. mem[r].status = "queued" /\ task.status = "cancelled"
        BY <1>2, <1>4, <2>1
      <3> HIDE DEF task
      <3>3. (row = RowOf(r) /\ ~Clean') \/ Upsert(RowOf(r), row, mem[r].tok, "cancelled", Pid(r), Yes)
            => /\ RunOk(pc[r], task, row, Pid(r), Yes, Clean')
               /\ Keeps(mem[r], RowOf(r), task, row, Clean')
        BY <1>0, <1>1, <1>3, <1>4, <1>10, <2>0, <3>2, CancelQueuedOk, SMTT(40)
      <3> QED BY <2>a, <3>1, <3>3
    <2>2. CASE ~CancelQueued(c)
      <3>1. (row = RowOf(r) /\ ~Clean') \/ Upsert(RowOf(r), row, mem[r].tok, "cancelling", Pid(r), Yes)
        BY <1>12, <2>2
      <3>2. mem[r].status = "building" /\ task.status = "cancelling"
        BY <1>2, <1>4, <2>2
      <3> HIDE DEF task
      <3>3. (row = RowOf(r) /\ ~Clean') \/ Upsert(RowOf(r), row, mem[r].tok, "cancelling", Pid(r), Yes)
            => /\ RunOk(pc[r], task, row, Pid(r), Yes, Clean')
               /\ Keeps(mem[r], RowOf(r), task, row, Clean')
        BY <1>0, <1>1, <1>3, <1>4, <1>10, <2>0, <3>2, CancelBuildingOk, SMTT(40)
      <3> QED BY <2>a, <3>1, <3>3
    <2> QED BY <2>1, <2>2
  <1>14. WorkersEnd
    BY <1>2 DEF WorkersEnd
  <1>15. Acts(r)
    BY <1>1, <1>2, <1>3, <1>4, <1>8, <1>11, <1>12, <1>13, <1>14, CallActs
  <1>16. \/ mem'[r].status = "cancelled"
         \/ /\ mem'[r].status = "cancelling" /\ mem'[r].req /\ canc'[c].prev # "queued"
    BY <1>4, <1>5, <1>9
  <1>17. CallRec(c)'
    BY <1>4, <1>7, <1>9, <1>15, <1>16, NewLook
  <1> QED BY <1>1, <1>6, <1>15, <1>17, CallActsRec

(* A second call, while the first has the build on its way out. *)
LEMMA CancelAgainRec ==
    ASSUME IInv, IInv', RecInv, NEW c \in Cancels, CancelBuilding(c),
           TaskOf(c).status = "cancelling"
    PROVE  Good
  <1> DEFINE task == mem[c[1]]
  <1>1. /\ c[1] \in Run /\ canc[c] \in CancelRec /\ canc \in [Cancels -> CancelRec]
        /\ task \in Task \cup {NoTask} /\ CallOk(canc[c]) /\ TaskOf(c) = task
    BY CancelTypes DEF TaskOf, RecInv, CallRec
  <1>2. /\ canc[c].pc = "start" /\ rows' = rows /\ worker' = worker /\ task.status = "cancelling"
        /\ UNCHANGED <<alive, lastTok, mem, pc, dbFails>>
    BY <1>1 DEF CancelBuilding, CAt
  <1>3. task \in Task
    BY <1>1, <1>2 DEF NoTask
  <1>4. canc' = [canc EXCEPT ![c] = [canc[c] EXCEPT !.pc = "hub", !.tok = task.tok,
                                                   !.prev = task.status]]
    BY <1>1 DEF CancelBuilding
  <1>5. /\ canc'[c].tok = task.tok /\ canc'[c].prev = "cancelling" /\ canc'[c].pc = "hub"
        /\ canc'[c].outcome = canc[c].outcome
    BY <1>1, <1>2, <1>4 DEF CancelRec
  <1>6. OnlyCall(c)
    BY <1>4 DEF OnlyCall
  <1>7. CallsLook
    BY <1>2, <1>5, <1>6, LooksAtTask DEF TokOf
  <1>8. WorkersEnd
    BY <1>2 DEF WorkersEnd
  <1>9. Acts(c[1])
    BY <1>1, <1>2, <1>7, <1>8, SameRows, StillActs
  <1>10. mem'[c[1]].status = "cancelling" /\ mem'[c[1]].req /\ canc'[c].prev # "queued"
    BY <1>1, <1>2, <1>5 DEF RecInv, RunRec, RunOk, TaskOk
  <1>11. CallOk(canc'[c])
    BY <1>1, <1>2, <1>3, <1>5 DEF CallOk, Early, Task, Token, NoTok
  <1>12. canc'[c].tok = TokOf(c[1])' /\ mem'[c[1]] \in Task
    BY <1>2, <1>3, <1>5 DEF TokOf
  <1>13. CallRec(c)'
    BY <1>9, <1>10, <1>11, <1>12, NewLook
  <1> QED BY <1>1, <1>6, <1>9, <1>13, CallActsRec

(* cancel() gives up waiting: the task that is still on its way out, if it  *)
(* is the one the call has read, is marked.                                 *)
LEMMA MarkCancelFailedRec ==
    ASSUME IInv, IInv', RecInv, NEW c \in Cancels, MarkCancelFailed(c)
    PROVE  Good
  <1> DEFINE r    == c[1]
             task == [mem[r] EXCEPT !.status = "cancel_failed"]
  <1>1. /\ r \in Run /\ mem[r] \in Task \cup {NoTask} /\ TaskOf(c) = mem[r]
        /\ mem \in [Run -> Task \cup {NoTask}] /\ pc[r] \in RunPc
    BY CancelTypes DEF TaskOf, IInv, TypeOK
  <1>2. /\ CAt(c, "mark") /\ Step(c, "markRow") /\ rows' = rows /\ worker' = worker
        /\ UNCHANGED <<alive, lastTok, pc, dbFails>>
    BY DEF MarkCancelFailed, gate
  <1>3. <<"mark", "markRow">> \in CallMoves
    BY DEF CallMoves
  <1>4. OnlyCall(c) /\ SameLook(c) /\ CallOk(canc'[c])
    BY <1>2, <1>3, StepOk
  <1>5. WorkersEnd
    BY <1>2 DEF WorkersEnd
  <1>6. CASE mem[r].tok = canc[c].seen /\ mem[r].status = "cancelling"
    <2>1. mem' = [mem EXCEPT ![r] = task]
      BY <1>1, <1>6 DEF MarkCancelFailed
    <2>2. mem[r] \in Task
      BY <1>1, <1>6 DEF NoTask
    <2>3. /\ task \in Task /\ task.tok = mem[r].tok /\ task.status = "cancel_failed"
          /\ task.req = mem[r].req
      BY <2>2, Statuses, StatusTask
    <2>4. mem'[r] = task /\ TokOf(r)' = TokOf(r)
      BY <1>1, <2>1, <2>3 DEF TokOf
    <2>5. AskedOf(r)' = AskedOf(r)
      BY <1>4, <2>4 DEF OnlyCall, SameLook, AskedOf, Asked, Of, Inst_
    <2>6. /\ RunOk(pc[r], mem[r], RowOf(r), Pid(r), AskedOf(r), Clean)
          /\ RowOf(r) \in Row \cup {NoRow} /\ Pid(r) \in Proc
      BY <1>1, RunTypes DEF RecInv, RunRec, AskedOf, Clean
    <2>7. /\ AskedOf(r) \in BOOLEAN /\ Clean \in BOOLEAN /\ Clean' \in BOOLEAN
      BY DEF AskedOf, Asked, Clean
    <2>8. Clean' => Clean
      BY <1>2 DEF Clean
    <2>9. rows' = [rows EXCEPT ![Of(r)] = RowOf(r)]
      BY <1>2 DEF IInv, TypeOK, RowOf
    <2>10. CallsLook
      BY <1>4, SameLooks
    <2> HIDE DEF task
    <2>11. /\ RunOk(pc[r], task, RowOf(r), Pid(r), AskedOf(r), Clean')
           /\ Keeps(mem[r], RowOf(r), task, RowOf(r), Clean')
      BY <1>1, <1>6, <2>2, <2>3, <2>6, <2>7, <2>8, CancelGivenUpOk
    <2>12. RunOk(pc[r], task, RowOf(r), Pid(r), AskedOf(r)', Clean')
      BY <2>5, <2>11
    <2>13. Acts(r)
      BY <1>1, <1>2, <1>5, <2>1, <2>2, <2>3, <2>8, <2>9, <2>10, <2>11, <2>12, CallActs
    <2> QED BY <1>1, <1>4, <2>13, CallActsRec
  <1>7. CASE ~(mem[r].tok = canc[c].seen /\ mem[r].status = "cancelling")
    BY <1>1, <1>7, <1>2, <1>4, <1>5, SameRows, CallMovesRec DEF MarkCancelFailed, Task, NoTask
  <1> QED BY <1>6, <1>7

LEMMA LocalCancelRec ==
    ASSUME IInv, IInv', RecInv, NEW c \in Cancels, LocalCancel(c)
    PROVE  Good
  <1>0. /\ c[1] \in Run /\ Inst_(c) \in Inst /\ canc[c] \in CancelRec
        /\ canc \in [Cancels -> CancelRec] /\ CallOk(canc[c])
    BY CancelTypes DEF RecInv, CallRec
  <1>a. worker' = worker => WorkersEnd
    BY DEF WorkersEnd
  <1>1. CASE CancelFinished(c)
    BY <1>1, CancelFinishedRec
  <1>2. CASE CancelQueued(c)
    BY <1>2, CallMarksRec
  <1>3. CASE CancelBuilding(c)
    BY <1>3, CallMarksRec, CancelAgainRec DEF CancelBuilding
  <1>4. CASE HubCancel(c)
    BY <1>4, KilledEnd, StepOk, SameRows, CallMovesRec DEF HubCancel, gate, CallMoves
  <1>5. CASE SignalRow(c)
    BY <1>5, KilledEnd, StepOk, SameRows, CallMovesRec DEF SignalRow, gate, local, CallMoves
  <1>6. CASE BuildFinished(c) \/ WaitTimeout(c)
    BY <1>6, <1>a, StepOk, SameRows, CallMovesRec DEF BuildFinished, WaitTimeout, gate, local,
           CallMoves
  <1>7. CASE ReadFinal(c)
    <2>1. /\ canc[c].pc = "read" /\ rows' = rows /\ worker' = worker
          /\ UNCHANGED <<alive, lastTok, mem, pc, dbFails>>
      BY <1>7 DEF ReadFinal, CAt, gate, local
    <2>2. \/ \E o \in {"cancelled", "already_done"} :
               canc' = [canc EXCEPT ![c] = [canc[c] EXCEPT !.pc = "done", !.outcome = o]]
          \/ canc' = [canc EXCEPT ![c] = [canc[c] EXCEPT !.pc = "mark", !.seen = TaskOf(c).tok]]
      BY <1>7 DEF ReadFinal
    <2>3. OnlyCall(c)
      BY <1>7 DEF OnlyCall, ReadFinal
    <2>4. /\ canc'[c].tok = canc[c].tok /\ canc'[c].prev = canc[c].prev
          /\ canc'[c].own = canc[c].own
          /\ \/ canc'[c].pc = "done"
             \/ canc'[c].pc = "mark" /\ canc'[c].outcome = canc[c].outcome
      <3>1. CASE canc' = [canc EXCEPT ![c] =
                            [canc[c] EXCEPT !.pc = "mark", !.seen = TaskOf(c).tok]]
        BY <1>0, <3>1 DEF CancelRec
      <3>2. ASSUME NEW o,
                   canc' = [canc EXCEPT ![c] = [canc[c] EXCEPT !.pc = "done", !.outcome = o]]
            PROVE  /\ canc'[c].tok = canc[c].tok /\ canc'[c].prev = canc[c].prev
                   /\ canc'[c].own = canc[c].own /\ canc'[c].pc = "done"
        BY <1>0, <3>2 DEF CancelRec
      <3> QED BY <2>2, <3>1, <3>2
    <2>5. CallOk(canc'[c])
      BY <1>0, <2>1, <2>4 DEF CallOk, Early
    <2> QED BY <1>a, <2>1, <2>3, <2>4, <2>5, SameRows, CallMovesRec DEF SameLook
  <1>8. CASE MarkCancelFailed(c)
    BY <1>8, MarkCancelFailedRec
  <1>9. CASE MarkRowFailed(c)
    BY <1>9, ReportOk, <1>0, UpdatedCloses, <1>a, CallMovesRec DEF MarkRowFailed, local,
           CallReports
  <1> QED BY <1>1, <1>2, <1>3, <1>4, <1>5, <1>6, <1>7, <1>8, <1>9 DEF LocalCancel

(* A build is registered: its token is new, and the lock was free. *)
LEMMA RegisterRec ==
    ASSUME IInv, IInv', RecInv, NEW r \in Run, Register(r)
    PROVE  Good
  <1> DEFINE n    == lastTok + 1
             task == [tok |-> n, status |-> "queued", req |-> FALSE]
  <1>1. /\ Pid(r) \in alive /\ pc[r] = "idle" /\ InstanceFree(Of(r)) /\ lastTok' = n
        /\ mem' = [mem EXCEPT ![r] = task] /\ pc' = [pc EXCEPT ![r] = "persistQ"]
        /\ UNCHANGED <<alive, rows, worker, canc, dbFails>>
    BY DEF Register, At, Goto, gate
  <1>2. /\ lastTok \in Nat /\ mem \in [Run -> Task \cup {NoTask}] /\ pc \in [Run -> RunPc]
        /\ n # NoTok
    BY RunTypes DEF IInv, TypeOK, NoTok
  <1>3. /\ mem'[r] = task /\ pc'[r] = "persistQ" /\ TokOf(r)' = n
        /\ \A q \in Run \ {r} : mem'[q] = mem[q] /\ pc'[q] = pc[q] /\ TokOf(q)' = TokOf(q)
    BY <1>1, <1>2 DEF TokOf
  <1>4. /\ \A q \in Run : TokOf(q) <= lastTok /\ TokOf(q) \in Nat
        /\ \A i \in Inst : rows[i].tok <= lastTok /\ rows[i].tok \in Nat
        /\ \A d \in Cancels : canc[d].tok <= lastTok /\ canc[d].tok \in Nat
    <2>1. \A q \in Run : TokOf(q) \in Nat
      BY RunTypes
    <2>2. \A i \in Inst : rows[i].tok \in Nat
      BY GateAssumption DEF IInv, TypeOK, Row, NoRow, Token, NoTok
    <2>3. \A d \in Cancels : canc[d].tok \in Nat
      BY CancelTypes, GateAssumption DEF Token, NoTok
    <2> QED BY <2>1, <2>2, <2>3 DEF RecInv, TokenInv
  <1>5. TokenInv'
    BY <1>1, <1>2, <1>3, <1>4, GateAssumption DEF RecInv, TokenInv, Token, TokOf
  <1>6. \A q \in Run \ {r} : Of(q) = Of(r) => pc[q] = "idle"
    BY <1>1 DEF IInv, RunInv, Pid, Of, Run, InstanceFree
  <1>7. LockInv'
    BY <1>3, <1>6, <1>1 DEF RecInv, LockInv, Of, Pid
  <1>8. WorkInv'
    BY <1>1, <1>2, <1>3 DEF WorkInv, TokOf, IInv, TypeOK, Token, Register, At, RecInv, TokenInv
  <1>9. \A i, t : Asked(i, t)' = Asked(i, t)
    BY <1>1 DEF Asked, Inst_, Of
  <1>10. ASSUME NEW q \in Run
         PROVE  RunRec(q)'
    <2>1. /\ RowOf(q)' = RowOf(q) /\ Pid(q)' = Pid(q) /\ (dbFails = 0)' = (dbFails = 0)
          /\ Asked(Of(q), TokOf(q))' = Asked(Of(q), TokOf(q)')
      BY <1>1 DEF RowOf, Pid, Of, Asked, Inst_, TokOf
    <2>2. CASE q # r
      BY <1>3, <2>1, <2>2 DEF RecInv, RunRec
    <2>3. CASE q = r
      BY <1>2, <1>4, RunTypes, <1>3, <2>1, <2>3 DEF RowOf, RunOk, TaskOk, RowOk, Owns, BuiltPc,
             OutPc, NoTask, Terminal, RunRec
    <2> QED BY <2>2, <2>3
  <1>11. ASSUME NEW i \in Inst
         PROVE  MarkRec(i)' /\ Closed(i)
    BY <1>1, <1>9 DEF RecInv, MarkRec, Closed, Asked, Inst_, Of
  <1>12. ASSUME NEW c \in Cancels
         PROVE  CallRec(c)'
    BY <1>1, <1>2, <1>4, CancelTypes, <1>3 DEF Inst_, Of, RecInv, CallRec, RowOf
  <1> QED BY <1>5, <1>7, <1>8, <1>10, <1>11, <1>12 DEF Good, RecInv

(* A process dies: its memory is gone, its rows stay. *)
LEMMA CrashRec ==
    ASSUME IInv, IInv', RecInv, NEW p \in Proc, Crash(p)
    PROVE  Good
  <1>1. /\ alive' = alive \ {p} /\ UNCHANGED <<rows, lastTok, worker, dbFails>>
        /\ \A q \in Run : IF Pid(q) = p THEN mem'[q] = NoTask /\ pc'[q] = "idle"
                                        ELSE mem'[q] = mem[q] /\ pc'[q] = pc[q]
        /\ canc' = [c \in Cancels |-> IF Pid(c[1]) = p /\ canc[c].pc # "done"
                                      THEN [canc[c] EXCEPT !.pc = "dead"] ELSE canc[c]]
    BY DEF Crash, gate
  <1>2. \A q \in Run : TokOf(q)' = IF Pid(q) = p THEN NoTok ELSE TokOf(q)
    BY <1>1 DEF TokOf, NoTask
  <1>3. ASSUME NEW c \in Cancels
        PROVE  SameLook(c) /\ CallOk(canc'[c]) /\ (Early(canc'[c]) <=> Early(canc[c]))
    BY CancelTypes, <1>1 DEF RecInv, CallRec, CancelRec, SameLook, CallOk, Early
  <1>4. TokenInv'
    BY <1>1, <1>2, RunTypes, <1>3 DEF RecInv, TokenInv, NoTok, SameLook, TokOf
  <1>5. LockInv'
    BY <1>1 DEF RecInv, LockInv, Of, Pid
  <1>6. WorkInv'
    BY <1>1, <1>2 DEF WorkInv, TokOf, RecInv
  <1>7. \A i, t : Asked(i, t)' <=> Asked(i, t)
    BY <1>3 DEF Asked, Inst_, Of, SameLook
  <1>8. ASSUME NEW q \in Run
        PROVE  RunRec(q)'
    <2>1. RowOf(q)' = RowOf(q) /\ Pid(q)' = Pid(q) /\ (dbFails = 0)' = (dbFails = 0)
      BY <1>1 DEF RowOf, Pid, Of
    <2>2. CASE Pid(q) # p
      <3>1. mem'[q] = mem[q] /\ pc'[q] = pc[q] /\ TokOf(q)' = TokOf(q)
        BY <1>1, <1>2, <2>2
      <3>2. Asked(Of(q), TokOf(q))' = Asked(Of(q), TokOf(q))
        BY <1>3, <3>1 DEF Asked, Inst_, Of, SameLook
      <3> QED BY <2>1, <3>1, <3>2 DEF RecInv, RunRec
    <2>3. CASE Pid(q) = p
      <3>1. mem'[q] = NoTask /\ pc'[q] = "idle"
        BY <1>1, <2>3
      <3>2. RunOk("idle", NoTask, RowOf(q)', Pid(q), Asked(Of(q), TokOf(q))', (dbFails = 0)')
        BY DEF RunOk, TaskOk, RowOk, Owns, BuiltPc, OutPc, NoTask
      <3> QED BY <2>1, <3>1, <3>2 DEF RunRec
    <2> QED BY <2>2, <2>3
  <1>9. ASSUME NEW i \in Inst
        PROVE  MarkRec(i)' /\ Closed(i)
    BY <1>1, <1>3 DEF Asked, Inst_, Of, SameLook, RecInv, MarkRec, Closed
  <1>10. ASSUME NEW c \in Cancels
         PROVE  CallRec(c)'
    BY <1>3, CancelTypes, <1>1, <1>2 DEF Inst_, Of, RecInv, CallRec, SameLook, Early, RowOf
  <1> QED BY <1>4, <1>5, <1>6, <1>8, <1>9, <1>10 DEF Good, RecInv

(* A worker ends by itself, or nothing happens. *)
LEMMA WorkerRec ==
    ASSUME IInv, RecInv, UNCHANGED <<alive, rows, lastTok, mem, pc, canc, dbFails>>, WorkersEnd
    PROVE  Good
  <1>1. TokenInv' /\ LockInv'
    BY DEF RecInv, TokenInv, LockInv, TokOf, WorkersEnd
  <1>2. WorkInv'
    BY DEF IInv, TypeOK, TokOf, Task, NoTask, RecInv, WorkInv, WorkersEnd
  <1>3. \A r \in Run : RunRec(r)'
    BY DEF RowOf, Pid, Of, Asked, TokOf, Inst_, RecInv, RunRec
  <1>4. \A i \in Inst : MarkRec(i)' /\ Closed(i)
    BY DEF RecInv, MarkRec, Closed, Asked, Inst_, Of
  <1>5. \A c \in Cancels : CallRec(c)'
    BY DEF RecInv, CallRec, Inst_, Of, TokOf, RowOf
  <1> QED BY <1>1, <1>2, <1>3, <1>4, <1>5 DEF Good, RecInv

LEMMA InitRec == Init => RecInv
  <1> SUFFICES ASSUME Init PROVE RecInv
    OBVIOUS
  <1>1. /\ \A r \in Run : mem[r] = NoTask /\ pc[r] = "idle" /\ TokOf(r) = NoTok
        /\ \A i \in Inst : rows[i] = NoRow
        /\ \A c \in Cancels : canc[c] = NewCancel
        /\ \A t \in Token : worker[t] = "none"
        /\ alive = Proc /\ lastTok = 0
    BY DEF Init, TokOf, NoTask
  <1>2. TokenInv /\ LockInv /\ WorkInv
    BY <1>1 DEF TokenInv, LockInv, WorkInv, NoTok, NoRow, NewCancel
  <1>3. ASSUME NEW r \in Run
        PROVE  RunRec(r)
    <2>1. RunOk("idle", NoTask, RowOf(r), Pid(r), Asked(Of(r), TokOf(r)), dbFails = 0)
      BY DEF RunOk, TaskOk, RowOk, Owns, BuiltPc, OutPc, NoTask
    <2> QED BY <1>1, <2>1 DEF RunRec
  <1>4. \A i \in Inst : MarkRec(i)
    BY <1>1 DEF MarkRec, NoRow
  <1>5. \A c \in Cancels : CallRec(c)
    BY <1>1 DEF CallRec, CallOk, Early, NewCancel, NoTok
  <1> QED BY <1>2, <1>3, <1>4, <1>5 DEF RecInv

LEMMA NextRec ==
    ASSUME IInv, IInv', RecInv, [Next]_vars
    PROVE  Good
BY RunStepRec, LocalCancelRec, RemoteCancelRec, RegisterRec, WorkerRec, CrashRec DEF CancelStep,
       WorkerExits, WorkersEnd, IInv, TypeOK, gate, local, vars, Next, EnvStep

(* The rows, the tasks in memory and the calls of cancel keep telling the    *)
(* same story (BuildQueue.run, cancel, upsert_build_task).                   *)
THEOREM RecordsInvariant == Spec => [](IInv /\ RecInv)
  <1>1. IInv /\ RecInv /\ IInv' /\ [Next]_vars => RecInv'
    BY NextRec DEF Good
  <1> QED BY <1>1, InitRec, Invariant, PTL DEF Spec

(* run() never returns with a command of its own left running: NoWorkerLeft *)
(* of build_slots, for any number of processes, instances and calls.        *)
THEOREM WorkersLeaveNothing == Spec => []NoWorkerLeft
  <1>1. IInv /\ RecInv => NoWorkerLeft
    BY DEF NoWorkerLeft, RecInv, WorkInv, Token, NoTok
  <1> QED BY <1>1, RecordsInvariant, PTL

(* The builder runs only under a row that names its build, and a build that *)
(* has returned and its row tell the same outcome, never a success after a  *)
(* recorded cancel.                                                         *)
LEMMA RecordedRec ==
    ASSUME IInv, RecInv
    PROVE  BuilderRecorded /\ SuccessAgrees
BY DEF RecInv, RunRec, BuilderRecorded, RunOk, RowOk, BuiltPc, BuilderPc, Owns, TokOf,
       SuccessAgrees

(* A builder never runs without a row that names its build, and the row of  *)
(* a build that returned tells its outcome (run, upsert_build_task).        *)
THEOREM RecordsStayTrue == Spec => []RecordsAgree
  <1>1. IInv /\ RecInv => RecordsAgree
    BY RecordedRec DEF RecordsAgree
  <1> QED BY <1>1, RecordsInvariant, PTL

(* What a call of cancel answered in its own process is true of its build.  *)
LEMMA ReportsRec ==
    ASSUME IInv, RecInv
    PROVE  LocalReportTrue /\ QueuedCancelSkipsBuilder /\ CancelMarkJustified
  <1>1. LocalReportTrue
    BY DEF LocalReportTrue, AnsweredLocally, RecInv, CallRec, CallOk
  <1>2. QueuedCancelSkipsBuilder
    <2> SUFFICES ASSUME NEW r \in Run, pc[r] \in BuilderPc, NEW c \in Cancels, c[1] = r,
                        AnsweredLocally(c), canc[c].prev = "queued", canc[c].tok = TokOf(r)
                 PROVE  FALSE
      BY DEF QueuedCancelSkipsBuilder
    <2>1. mem[r] \in Task /\ canc[c].tok # NoTok
      BY DEF IInv, RunInv, BuilderPc, Task, TokOf, Token, NoTok
    <2>2. Early(canc[c])
      BY <2>1 DEF Early, AnsweredLocally
    <2>3. mem[r].status = "cancelled"
      BY <2>2 DEF RecInv, CallRec
    <2>4. mem[r].status # "cancelled"
      BY DEF RecInv, RunRec, RunOk, TaskOk, BuiltPc, BuilderPc
    <2> QED BY <2>3, <2>4
  <1>3. CancelMarkJustified
    BY DEF CancelMarkJustified, RecInv, MarkRec, Asked
  <1> QED BY <1>1, <1>2, <1>3

(* What the queue tells of a build and of its cancel is true, and a closed  *)
(* row is never rewritten: ReportsAreTrue of build_cancel.                  *)
THEOREM ReportsStayTrue == Spec => ReportsAreTrue
  <1>1. IInv /\ RecInv =>
           SuccessAgrees /\ LocalReportTrue /\ QueuedCancelSkipsBuilder /\ CancelMarkJustified
    BY RecordedRec, ReportsRec
  <1>2. IInv /\ RecInv /\ IInv' /\ [Next]_vars =>
           [\A i \in Inst :
               rows[i].status \in Terminal /\ rows'[i] # rows[i] =>
                   \/ rows'[i].tok > rows[i].tok
                   \/ rows'[i].status = rows[i].status]_vars
    BY NextRec DEF Good, Closed
  <1>3. Spec => RowsCloseOnce
    BY <1>2, RecordsInvariant, PTL DEF Spec, RowsCloseOnce
  <1>4. Spec => []SuccessAgrees /\ []LocalReportTrue /\ []QueuedCancelSkipsBuilder
                  /\ []CancelMarkJustified
    BY <1>1, RecordsInvariant, PTL
  <1> QED BY <1>3, <1>4, PTL DEF ReportsAreTrue
=============================================================================
