----------------------------- MODULE BuildQueue -----------------------------
(* BuildQueue (build_queue.py) in every process of a workspace (CLI,        *)
(* manager, daemon), the cancellers that race with the builds, the worker   *)
(* commands the builds spawn (run_command in hosting.py, the hub in         *)
(* build_process.py) and the crashes of the processes.                      *)
(*                                                                          *)
(* One action is one critical section of the code: a database transaction,  *)
(* a region under BuildQueue._guard, one signal.  A run r = <<p, i>> is the *)
(* thread of process p that executes BuildQueue.run(i); a canceller         *)
(* c = <<r, n>> is the n-th call of BuildQueue.cancel(i) in process p.      *)
(*                                                                          *)
(* The processes share CrossProcessBuildGate: the SQLite file               *)
(* run/build-locks.db, whose table build_slots is a counting semaphore with *)
(* one row per occupied slot, and whose table build_tasks keeps one row per *)
(* instance.                                                                *)
EXTENDS Integers, FiniteSets

CONSTANTS Proc,         \* process incarnations (a pid is never reused)
          Inst,         \* instances
          NoProc, NoInst,
          Concurrency,  \* buildConcurrency, the number of slots
          MaxBuild,     \* bound: builds (generations) started in a behaviour
          Cancels,      \* the calls of cancel a behaviour may contain
          WaitForever,  \* wait_timeout is None: acquire has no deadline
          MaxCrash,     \* bound: processes that die
          MaxDbFail     \* bound: _persist_task calls that raise and return None

ASSUME GateAssumption ==
    /\ Concurrency \in Nat \ {0}
    /\ MaxBuild \in Nat \ {0}
    /\ NoProc \notin Proc
    /\ NoInst \notin Inst

Run == Proc \X Inst

ASSUME QueueAssumption ==
    /\ Cancels \subseteq Run \X Nat
    /\ WaitForever \in BOOLEAN
    /\ MaxCrash \in Nat
    /\ MaxDbFail \in Nat

----------------------------------------------------------------------------
(* The tables.  Each operator is the effect of one BEGIN IMMEDIATE          *)
(* transaction, or of one autocommit statement, on them.                    *)

Slot   == 0 .. Concurrency - 1
NoSlot == -1

(* A build token is a fresh uuid4; here the number of the build.  The one   *)
(* worker command a build runs is named by the token of its build.          *)
Token == 1 .. MaxBuild
NoTok == 0

Active   == {"queued", "building", "cancelling"}
Terminal == {"success", "failed", "cancelled", "cancel_failed"}
Status   == Active \cup Terminal

(* _BUILD_TASK_TRANSITIONS *)
Transitions ==
    [queued        |-> {"queued", "building", "cancelled", "failed"},
     building      |-> {"building", "cancelling", "cancelled", "success", "failed"},
     cancelling    |-> {"cancelling", "cancelled", "cancel_failed"},
     success       |-> {"success"},
     failed        |-> {"failed"},
     cancelled     |-> {"cancelled"},
     cancel_failed |-> {"cancel_failed"}]

Holder == [inst : Inst, pid : Proc]
Free   == [inst |-> NoInst, pid |-> NoProc]

(* A build_tasks row; wk abstracts (worker_pid, worker_pgid,                *)
(* worker_identity), req is "cancel_requested_at IS NOT NULL".              *)
Row   == [tok : Token, status : Status, owner : Proc, wk : Token \cup {NoTok}, req : BOOLEAN]
NoRow == [tok |-> NoTok, status |-> "none", owner |-> NoProc, wk |-> NoTok, req |-> FALSE]

----------------------------------------------------------------------------
(* build_slots *)

(* Mutants: every holder taken for dead; no reclaim at all. *)
LiveSlots_AllStale(sl, live) == [s \in Slot |-> Free]
LiveSlots_NoReclaim(sl, live) == sl

(* First half of _reclaim_dead: a slot whose holder is dead becomes free.   *)
LiveSlots(sl, live) == [s \in Slot |-> IF sl[s].pid \in live THEN sl[s] ELSE Free]

FreeSlots(sl) == {s \in Slot : sl[s] = Free}

(* Mutant: the lowest slot, free or not. *)
IsNextSlot_Taken(sl, s) == \A t \in Slot : s <= t

(* _try_acquire takes the lowest free slot. *)
IsNextSlot(sl, s) == s \in FreeSlots(sl) /\ \A t \in FreeSlots(sl) : s <= t

(* release: DELETE ... WHERE slot=? AND pid=?, then (for a cancelled task)  *)
(* release_instance_slots: DELETE ... WHERE instance_id=? AND pid=?.        *)
Released(sl, slot, i, p, wholeInstance) ==
    [s \in Slot |-> IF sl[s].pid = p /\ (s = slot \/ (wholeInstance /\ sl[s].inst = i))
                    THEN Free ELSE sl[s]]

----------------------------------------------------------------------------
(* build_tasks *)

Orphaned(row, live) == row.status \in Active /\ row.owner \notin live

(* Mutant: the reclaim also clears the owner. *)
LiveRow_NoOwner(row, live) ==
    IF Orphaned(row, live)
    THEN [row EXCEPT !.status = "cancelled", !.req = TRUE, !.owner = NoProc] ELSE row

(* Second half of _reclaim_dead: the unfinished task of a dead owner is     *)
(* closed as cancelled, and its worker handed to _pending_kills.            *)
LiveRow(row, live) ==
    IF Orphaned(row, live)
    THEN [row EXCEPT !.status = "cancelled", !.req = TRUE, !.wk = NoTok]
    ELSE row

OrphanWorkers(rs, live) ==
    {rs[i].wk : i \in {j \in Inst : Orphaned(rs[j], live)}} \ {NoTok}

(* upsert_build_task: refused for another generation unless it replaces it, *)
(* and for a transition the table forbids.                                  *)
UpsertOk(row, tok, status, replace) ==
    \/ row.tok = NoTok
    \/ row.tok # tok /\ replace
    \/ row.tok = tok /\ status \in Transitions[row.status]

(* Mutant: a new generation inherits the cancel mark of the old one. *)
Upserted_KeepsMark(row, tok, status, owner, req, replace) ==
    IF ~UpsertOk(row, tok, status, replace) THEN row
    ELSE IF row.tok = tok
         THEN [row EXCEPT !.status = status, !.owner = owner, !.req = @ \/ req]
         ELSE [tok |-> tok, status |-> status, owner |-> owner, wk |-> NoTok,
               req |-> req \/ row.req]

Upserted(row, tok, status, owner, req, replace) ==
    IF ~UpsertOk(row, tok, status, replace) THEN row
    ELSE IF row.tok = tok
         THEN [row EXCEPT !.status = status, !.owner = owner, !.req = @ \/ req]
         ELSE [tok |-> tok, status |-> status, owner |-> owner, wk |-> NoTok, req |-> req]

(* Mutant: the transition table is not consulted. *)
Updated_AnyStatus(row, tok, status, req) ==
    IF row.tok = tok /\ row.tok # NoTok
    THEN [row EXCEPT !.status = status, !.req = @ \/ req] ELSE row

(* update_build_task, with a new status and (or not) a cancel timestamp.    *)
Updated(row, tok, status, req) ==
    IF row.tok = tok /\ row.tok # NoTok /\ status \in Transitions[row.status]
    THEN [row EXCEPT !.status = status, !.req = @ \/ req]
    ELSE row

(* update_build_task with worker fields (_persist_worker) or clear_worker.  *)
WithWorker(row, tok, wk) ==
    IF row.tok = tok /\ row.tok # NoTok THEN [row EXCEPT !.wk = wk] ELSE row

(* is_cancel_requested *)
CancelRequested(row, tok) ==
    row.tok = tok /\ (row.status \in {"cancelling", "cancelled"} \/ row.req)

----------------------------------------------------------------------------
(* The processes                                                            *)

VARIABLES
    alive,    \* the processes that live
    slots,    \* build_slots
    rows,     \* build_tasks
    lastTok,  \* the last token generated (uuid4)
    mem,      \* BuildQueue._tasks of each process
    pc,       \* where each run stands
    held,     \* run(): the local variable slot
    fin,      \* the builds whose finish event is set
    flag,     \* BuildProcessHub._cancel_flags
    hub,      \* BuildProcessHub._procs
    kills,    \* CrossProcessBuildGate._pending_kills
    worker,   \* the worker command of each build
    canc,     \* the calls of cancel
    dbFails   \* persist failures so far

gate  == <<slots, rows>>
local == <<mem, pc, held, fin, flag, hub, lastTok>>
vars  == <<alive, slots, rows, lastTok, mem, pc, held, fin, flag, hub, kills, worker, canc,
           dbFails>>

Pid(r) == r[1]
Of(r)  == r[2]

NoTask == [tok |-> NoTok, status |-> "none", req |-> FALSE]
Task   == [tok : Token, status : Status, req : BOOLEAN]

(* Steps of run() with the slot row inserted and not yet deleted, and those *)
(* inside the builder.                                                      *)
BuilderPc == {"builder", "spawned", "cmd", "cmdDone"}
HoldingPc == BuilderPc \cup {"drain", "claimed", "persistB", "enter", "finish", "persistS",
                          "lost"}
RaisePc   == {"exceptC", "except", "release"}
RunPc     == HoldingPc \cup RaisePc \cup {"idle", "persistQ", "try0", "check0", "markQ",
                                          "wait", "check1"}

CancelPc == {"start", "hub", "signal", "wait", "read", "mark", "markRow",
             "xread", "xqueued", "xmark", "xsignal", "xpoll", "done", "dead"}
Outcome  == {"none", "cancelled", "already_done", "cancel_failed", "noop"}
NewCancel == [pc |-> "start", tok |-> NoTok, seen |-> NoTok, wk |-> NoTok, own |-> NoProc,
              prev |-> "none", outcome |-> "none"]

Init ==
    /\ alive = Proc
    /\ slots = [s \in Slot |-> Free]
    /\ rows = [i \in Inst |-> NoRow]
    /\ lastTok = 0
    /\ mem = [r \in Run |-> NoTask]
    /\ pc = [r \in Run |-> "idle"]
    /\ held = [r \in Run |-> NoSlot]
    /\ fin = {}
    /\ flag = [r \in Run |-> FALSE]
    /\ hub = [r \in Run |-> NoTok]
    /\ kills = [p \in Proc |-> {}]
    /\ worker = [t \in Token |-> "none"]
    /\ canc = [c \in Cancels |-> NewCancel]
    /\ dbFails = 0

----------------------------------------------------------------------------
(* Helpers                                                                  *)

RowOf(r)  == rows[Of(r)]
TokOf(r)  == mem[r].tok
At(r, l)  == Pid(r) \in alive /\ pc[r] = l
Goto(r, l) == pc' = [pc EXCEPT ![r] = l]

(* kill_process_tree, kill_pid_tree_if_matches: TERM then KILL of the group *)
Killed(ts) == [t \in Token |-> IF t \in ts /\ worker[t] = "running" THEN "killed"
                               ELSE worker[t]]

(* _persist_task: the upsert of the run's row; it may raise, and then       *)
(* returns None and leaves the row as it was.                               *)
Persist(r, status, req, replace) ==
    /\ rows' = [rows EXCEPT ![Of(r)] = Upserted(@, TokOf(r), status, Pid(r), req, replace)]
    /\ UNCHANGED dbFails
PersistFails ==
    /\ dbFails < MaxDbFail
    /\ dbFails' = dbFails + 1
    /\ UNCHANGED rows
TryPersist(r, status, req, replace) == Persist(r, status, req, replace) \/ PersistFails

(* _cancel_pending: requested or completed, in memory or in the row. *)
CancelPending(r) ==
    mem[r].status \in {"cancelled", "cancelling"} \/ CancelRequested(RowOf(r), TokOf(r))

(* _cancel_pending then _finish_task_local(task, "cancelled") under _guard. *)
FinishCancelled(r) ==
    LET req == mem[r].req \/ CancelRequested(RowOf(r), TokOf(r)) IN
    /\ mem' = [mem EXCEPT ![r].status = "cancelled", ![r].req = req]
    /\ TryPersist(r, "cancelled", req, FALSE)

(* Mutant: only the flag of the hub is looked at. *)
ShouldCancel_FlagOnly(r) == flag[r]

(* run_command._should_cancel: the flag of this process or the row. *)
ShouldCancel(r) == flag[r] \/ CancelRequested(RowOf(r), TokOf(r))

(* instance_lock: rebuild, start and recover hold it across run().  It is a *)
(* kernel lock, so the death of the holder frees it.                        *)
InstanceFree(i) == \A p \in alive : pc[<<p, i>>] = "idle"

----------------------------------------------------------------------------
(* run(): registration and the wait for a slot                              *)

(* _register_task and the finish event. *)
Register(r) ==
    /\ At(r, "idle") /\ InstanceFree(Of(r)) /\ lastTok < MaxBuild
    /\ lastTok' = lastTok + 1
    /\ mem' = [mem EXCEPT ![r] = [tok |-> lastTok + 1, status |-> "queued", req |-> FALSE]]
    /\ Goto(r, "persistQ")
    /\ UNCHANGED <<alive, gate, held, fin, flag, hub, kills, worker, canc, dbFails>>

PersistQueued(r) ==
    /\ At(r, "persistQ")
    /\ TryPersist(r, "queued", mem[r].req, TRUE)
    /\ Goto(r, "try0")
    /\ UNCHANGED <<alive, slots, lastTok, mem, held, fin, flag, hub, kills, worker, canc>>

(* _try_acquire that commits: dead holders reclaimed, a slot row inserted.  *)
Acquire(r) ==
    LET sl == LiveSlots(slots, alive) IN
    /\ \E s \in Slot :
          /\ IsNextSlot(sl, s)
          /\ slots' = [sl EXCEPT ![s] = [inst |-> Of(r), pid |-> Pid(r)]]
          /\ held' = [held EXCEPT ![r] = s]
    /\ rows' = [i \in Inst |-> LiveRow(rows[i], alive)]
    /\ kills' = [kills EXCEPT ![Pid(r)] = @ \cup OrphanWorkers(rows, alive)]
    /\ Goto(r, "drain")
    /\ UNCHANGED <<alive, lastTok, mem, fin, flag, hub, worker, canc, dbFails>>

(* _try_acquire without a free slot rolls the reclaim back; the workers it  *)
(* collected stay in _pending_kills.                                        *)
NoSlotLeft(r) ==
    /\ FreeSlots(LiveSlots(slots, alive)) = {}
    /\ kills' = [kills EXCEPT ![Pid(r)] = @ \cup OrphanWorkers(rows, alive)]

TryAcquire0(r) ==
    /\ At(r, "try0")
    /\ \/ Acquire(r)
       \/ /\ NoSlotLeft(r)
          /\ Goto(r, "check0")
          /\ UNCHANGED <<alive, gate, lastTok, mem, held, fin, flag, hub, worker, canc, dbFails>>

(* No slot at once: a cancelled task stops here, another is marked queued.  *)
CheckQueued(r) ==
    /\ At(r, "check0")
    /\ \/ /\ CancelPending(r)
          /\ FinishCancelled(r)
          /\ fin' = fin \cup {TokOf(r)}
          /\ Goto(r, "except")
       \/ /\ ~CancelPending(r)
          /\ Goto(r, "markQ")
          /\ UNCHANGED <<rows, mem, fin, dbFails>>
    /\ UNCHANGED <<alive, slots, lastTok, held, flag, hub, kills, worker, canc>>

(* _mark_queued *)
MarkQueued(r) ==
    /\ At(r, "markQ")
    /\ IF mem[r].status = "cancelled" THEN UNCHANGED <<rows, dbFails>>
       ELSE TryPersist(r, "queued", mem[r].req, FALSE)
    /\ Goto(r, "wait")
    /\ UNCHANGED <<alive, slots, lastTok, mem, held, fin, flag, hub, kills, worker, canc>>

(* One turn of the polling loop of acquire(): a cancel request seen, a slot *)
(* obtained, or no slot and the deadline passed.                            *)
WaitForSlot(r) ==
    /\ At(r, "wait")
    /\ \/ Acquire(r)
       \/ /\ \/ CancelRequested(RowOf(r), TokOf(r)) /\ UNCHANGED kills
             \/ ~WaitForever /\ NoSlotLeft(r)
          /\ Goto(r, "check1")
          /\ UNCHANGED <<alive, gate, lastTok, mem, held, fin, flag, hub, worker, canc, dbFails>>

(* acquire() returned None: cancelled, or _mark_timeout. *)
CheckTimeout(r) ==
    /\ At(r, "check1")
    /\ \/ CancelPending(r) /\ FinishCancelled(r)
       \/ /\ ~CancelPending(r)
          /\ mem' = [mem EXCEPT ![r].status = "failed"]
          /\ TryPersist(r, "failed", mem[r].req, FALSE)
    /\ fin' = fin \cup {TokOf(r)}
    /\ Goto(r, "except")
    /\ UNCHANGED <<alive, slots, lastTok, held, flag, hub, kills, worker, canc>>

(* _drain_pending_kills, after the commit of the slot row. *)
DrainKills(r) ==
    /\ At(r, "drain")
    /\ worker' = Killed(kills[Pid(r)])
    /\ kills' = [kills EXCEPT ![Pid(r)] = {}]
    /\ Goto(r, "claimed")
    /\ UNCHANGED <<alive, gate, lastTok, mem, held, fin, flag, hub, canc, dbFails>>

----------------------------------------------------------------------------
(* run(): the build                                                         *)

StartBuilding(r) ==
    /\ At(r, "claimed")
    /\ \/ CancelPending(r) /\ FinishCancelled(r) /\ Goto(r, "except")
       \/ /\ ~CancelPending(r)
          /\ mem' = [mem EXCEPT ![r].status = "building"]
          /\ Goto(r, "persistB")
          /\ UNCHANGED <<rows, dbFails>>
    /\ UNCHANGED <<alive, slots, lastTok, held, fin, flag, hub, kills, worker, canc>>

(* Mutant: a persist that raised lets the builder start (None is not False). *)
PersistBuilding_IgnoresNone(r) ==
    /\ At(r, "persistB")
    /\ \/ /\ UpsertOk(RowOf(r), TokOf(r), "building", FALSE)
          /\ TryPersist(r, "building", mem[r].req, FALSE)
          /\ Goto(r, "enter")
       \/ /\ ~UpsertOk(RowOf(r), TokOf(r), "building", FALSE)
          /\ Goto(r, "lost")
          /\ UNCHANGED <<rows, dbFails>>
    /\ UNCHANGED <<alive, slots, lastTok, mem, held, fin, flag, hub, kills, worker, canc>>

(* The builder runs only if the row really became "building". *)
PersistBuilding(r) ==
    /\ At(r, "persistB")
    /\ \/ /\ UpsertOk(RowOf(r), TokOf(r), "building", FALSE)
          /\ Persist(r, "building", mem[r].req, FALSE)
          /\ Goto(r, "enter")
       \/ /\ \/ ~UpsertOk(RowOf(r), TokOf(r), "building", FALSE) /\ UNCHANGED <<rows, dbFails>>
             \/ PersistFails
          /\ Goto(r, "lost")
    /\ UNCHANGED <<alive, slots, lastTok, mem, held, fin, flag, hub, kills, worker, canc>>

(* The row was taken by a cancel, or could not be written: cancelled. *)
PersistLost(r) ==
    /\ At(r, "lost")
    /\ FinishCancelled(r)
    /\ Goto(r, "except")
    /\ UNCHANGED <<alive, slots, lastTok, held, fin, flag, hub, kills, worker, canc>>

(* enter_build_context drops a cancel flag left for the instance. *)
EnterContext(r) ==
    /\ At(r, "enter")
    /\ flag' = [flag EXCEPT ![r] = FALSE]
    /\ Goto(r, "builder")
    /\ UNCHANGED <<alive, gate, lastTok, mem, held, fin, hub, kills, worker, canc, dbFails>>

(* run_command: Popen of the worker (at most one per build here), then      *)
(* hub.register and _persist_worker.                                        *)
SpawnWorker(r) ==
    /\ At(r, "builder") /\ worker[TokOf(r)] = "none"
    /\ worker' = [worker EXCEPT ![TokOf(r)] = "running"]
    /\ Goto(r, "spawned")
    /\ UNCHANGED <<alive, gate, lastTok, mem, held, fin, flag, hub, kills, canc, dbFails>>

RegisterWorker(r) ==
    /\ At(r, "spawned")
    /\ hub' = [hub EXCEPT ![r] = TokOf(r)]
    /\ rows' = [rows EXCEPT ![Of(r)] = WithWorker(@, TokOf(r), TokOf(r))]
    /\ Goto(r, "cmd")
    /\ UNCHANGED <<alive, slots, lastTok, mem, held, fin, flag, kills, worker, canc, dbFails>>

(* The command loop: kill on a cancel request or a timeout of the command.  *)
KillWorker(r) ==
    /\ At(r, "cmd") /\ worker[TokOf(r)] = "running" /\ ShouldCancel(r)
    /\ worker' = Killed({TokOf(r)})
    /\ UNCHANGED <<alive, gate, local, kills, canc, dbFails>>

CommandTimeout(r) ==
    /\ At(r, "cmd") /\ worker[TokOf(r)] = "running" /\ ~ShouldCancel(r)
    /\ worker' = Killed({TokOf(r)})
    /\ UNCHANGED <<alive, gate, local, kills, canc, dbFails>>

(* Mutant: the loop is left while the command still runs. *)
CommandEnds_Early(r) ==
    /\ At(r, "cmd")
    /\ hub' = [hub EXCEPT ![r] = NoTok]
    /\ rows' = [rows EXCEPT ![Of(r)] = WithWorker(@, TokOf(r), NoTok)]
    /\ Goto(r, "cmdDone")
    /\ UNCHANGED <<alive, slots, lastTok, mem, held, fin, flag, kills, worker, canc, dbFails>>

(* The command is over: hub.unregister and _clear_worker. *)
CommandEnds(r) ==
    /\ At(r, "cmd") /\ worker[TokOf(r)] # "running"
    /\ hub' = [hub EXCEPT ![r] = NoTok]
    /\ rows' = [rows EXCEPT ![Of(r)] = WithWorker(@, TokOf(r), NoTok)]
    /\ Goto(r, "cmdDone")
    /\ UNCHANGED <<alive, slots, lastTok, mem, held, fin, flag, kills, worker, canc, dbFails>>

(* exit_build_context runs on every way out of the builder. *)
ExitContext(r) ==
    /\ flag' = [flag EXCEPT ![r] = FALSE]
    /\ hub' = [hub EXCEPT ![r] = NoTok]

CommandResult(r) ==
    /\ At(r, "cmdDone")
    /\ \/ ShouldCancel(r) /\ ExitContext(r) /\ Goto(r, "exceptC")
       \/ /\ ~ShouldCancel(r) /\ worker[TokOf(r)] = "exited"
          /\ Goto(r, "builder")
          /\ UNCHANGED <<flag, hub>>
       \/ ~ShouldCancel(r) /\ ExitContext(r) /\ Goto(r, "except")
    /\ UNCHANGED <<alive, gate, lastTok, mem, held, fin, kills, worker, canc, dbFails>>

BuilderEnds(r) ==
    /\ At(r, "builder")
    /\ ExitContext(r)
    /\ Goto(r, "finish") \/ Goto(r, "except")
    /\ UNCHANGED <<alive, gate, lastTok, mem, held, fin, kills, worker, canc, dbFails>>

(* The builder returned: a cancel that came meanwhile wins. *)
FinishBuild(r) ==
    /\ At(r, "finish")
    /\ \/ CancelPending(r) /\ FinishCancelled(r) /\ Goto(r, "except")
       \/ /\ ~CancelPending(r)
          /\ mem' = [mem EXCEPT ![r].status = "success"]
          /\ Goto(r, "persistS")
          /\ UNCHANGED <<rows, dbFails>>
    /\ UNCHANGED <<alive, slots, lastTok, held, fin, flag, hub, kills, worker, canc>>

(* Mutant: the result of the last _persist_task is ignored. *)
PersistSuccess_Unchecked(r) ==
    /\ At(r, "persistS")
    /\ TryPersist(r, "success", mem[r].req, FALSE)
    /\ Goto(r, "release")
    /\ UNCHANGED <<alive, slots, lastTok, mem, held, fin, flag, hub, kills, worker, canc>>

PersistSuccess(r) ==
    /\ At(r, "persistS")
    /\ \/ /\ UpsertOk(RowOf(r), TokOf(r), "success", FALSE)
          /\ Persist(r, "success", mem[r].req, FALSE)
          /\ Goto(r, "release")
       \/ /\ \/ ~UpsertOk(RowOf(r), TokOf(r), "success", FALSE) /\ UNCHANGED <<rows, dbFails>>
             \/ PersistFails
          /\ Goto(r, "lost")
    /\ UNCHANGED <<alive, slots, lastTok, mem, held, fin, flag, hub, kills, worker, canc>>

(* except BuildCancelled *)
OnCancelled(r) ==
    /\ At(r, "exceptC")
    /\ mem' = [mem EXCEPT ![r].status = "cancelled"]
    /\ TryPersist(r, "cancelled", mem[r].req, FALSE)
    /\ Goto(r, "release")
    /\ UNCHANGED <<alive, slots, lastTok, held, fin, flag, hub, kills, worker, canc>>

(* except Exception *)
OnError(r) ==
    LET status == IF mem[r].status \in {"cancelled", "cancelling"} THEN "cancelled"
                  ELSE "failed" IN
    /\ At(r, "except")
    /\ mem' = [mem EXCEPT ![r].status = status]
    /\ TryPersist(r, status, mem[r].req, FALSE)
    /\ Goto(r, "release")
    /\ UNCHANGED <<alive, slots, lastTok, held, fin, flag, hub, kills, worker, canc>>

(* Mutant: a cancelled run returns without releasing its slot. *)
ReleaseSlot_NotCancelled(r) ==
    /\ At(r, "release")
    /\ slots' = IF mem[r].status = "cancelled" THEN slots
                ELSE Released(slots, held[r], Of(r), Pid(r), FALSE)
    /\ held' = [held EXCEPT ![r] = NoSlot]
    /\ fin' = fin \cup {TokOf(r)}
    /\ Goto(r, "idle")
    /\ UNCHANGED <<alive, rows, lastTok, mem, flag, hub, kills, worker, canc, dbFails>>

(* finally: the slot is released and the finish event set; the caller then  *)
(* leaves the instance lock.                                                *)
ReleaseSlot(r) ==
    /\ At(r, "release")
    /\ slots' = Released(slots, held[r], Of(r), Pid(r),
                         mem[r].status \in {"cancelled", "cancel_failed"})
    /\ held' = [held EXCEPT ![r] = NoSlot]
    /\ fin' = fin \cup {TokOf(r)}
    /\ Goto(r, "idle")
    /\ UNCHANGED <<alive, rows, lastTok, mem, flag, hub, kills, worker, canc, dbFails>>

----------------------------------------------------------------------------
(* cancel()                                                                 *)

CAt(c, l) == Pid(c[1]) \in alive /\ canc[c].pc = l
Step(c, l) == canc' = [canc EXCEPT ![c].pc = l]
Report(c, outcome) == canc' = [canc EXCEPT ![c].pc = "done", ![c].outcome = outcome]
TaskOf(c) == mem[c[1]]
Inst_(c)  == Of(c[1])

(* Mutant: every finished task is reported cancelled. *)
TerminalOutcome_Cancelled(status) ==
    IF status = "cancel_failed" THEN "cancel_failed" ELSE "cancelled"

(* The outcome reported for a task found in a terminal status. *)
TerminalOutcome(status) ==
    CASE status = "cancelled"     -> "cancelled"
      [] status = "cancel_failed" -> "cancel_failed"
      [] OTHER                    -> "already_done"

(* Under _guard: the task of this process, by its status. *)
CancelFinished(c) ==
    /\ CAt(c, "start") /\ TaskOf(c).status \in Terminal
    /\ canc' = [canc EXCEPT ![c] = [@ EXCEPT !.pc = "done", !.tok = TaskOf(c).tok,
                                            !.prev = TaskOf(c).status,
                                            !.outcome = TerminalOutcome(TaskOf(c).status)]]
    /\ UNCHANGED <<alive, gate, local, kills, worker, dbFails>>

(* Mutant: the request is noted, the status is not changed. *)
CancelQueued_NoteOnly(c) ==
    /\ CAt(c, "start") /\ TaskOf(c).status = "queued"
    /\ mem' = [mem EXCEPT ![c[1]].req = TRUE]
    /\ canc' = [canc EXCEPT ![c] = [@ EXCEPT !.pc = "done", !.tok = TaskOf(c).tok,
                                            !.prev = "queued", !.outcome = "cancelled"]]
    /\ UNCHANGED <<alive, gate, lastTok, pc, held, fin, flag, hub, kills, worker, dbFails>>

CancelQueued(c) ==
    /\ CAt(c, "start") /\ TaskOf(c).status = "queued"
    /\ mem' = [mem EXCEPT ![c[1]].status = "cancelled", ![c[1]].req = TRUE]
    /\ TryPersist(c[1], "cancelled", TRUE, FALSE)
    /\ canc' = [canc EXCEPT ![c] = [@ EXCEPT !.pc = "done", !.tok = TaskOf(c).tok,
                                            !.prev = "queued", !.outcome = "cancelled"]]
    /\ UNCHANGED <<alive, slots, lastTok, pc, held, fin, flag, hub, kills, worker>>

CancelBuilding(c) ==
    /\ CAt(c, "start") /\ TaskOf(c).status \in {"building", "cancelling"}
    /\ IF TaskOf(c).status = "building"
       THEN /\ mem' = [mem EXCEPT ![c[1]].status = "cancelling", ![c[1]].req = TRUE]
            /\ TryPersist(c[1], "cancelling", TRUE, FALSE)
       ELSE UNCHANGED <<mem, rows, dbFails>>
    /\ canc' = [canc EXCEPT ![c] = [@ EXCEPT !.pc = "hub", !.tok = TaskOf(c).tok,
                                            !.prev = TaskOf(c).status]]
    /\ UNCHANGED <<alive, slots, lastTok, pc, held, fin, flag, hub, kills, worker>>

CancelElsewhere(c) ==
    /\ CAt(c, "start") /\ TaskOf(c) = NoTask
    /\ Step(c, "xread")
    /\ UNCHANGED <<alive, gate, local, kills, worker, dbFails>>

(* hub.request_cancel: keyed by the instance, not by the build. *)
HubCancel(c) ==
    /\ CAt(c, "hub")
    /\ flag' = [flag EXCEPT ![c[1]] = TRUE]
    /\ worker' = Killed({hub[c[1]]})
    /\ Step(c, "signal")
    /\ UNCHANGED <<alive, gate, lastTok, mem, pc, held, fin, hub, kills, dbFails>>

(* _signal_persisted_worker on the row as it is now. *)
SignalRow(c) ==
    /\ CAt(c, "signal")
    /\ worker' = Killed({rows[Inst_(c)].wk})
    /\ Step(c, "wait")
    /\ UNCHANGED <<alive, gate, local, kills, dbFails>>

(* finish_ev.wait(timeout) *)
BuildFinished(c) ==
    /\ CAt(c, "wait") /\ canc[c].tok \in fin
    /\ Step(c, "read")
    /\ UNCHANGED <<alive, gate, local, kills, worker, dbFails>>

WaitTimeout(c) ==
    /\ CAt(c, "wait") /\ canc[c].tok \notin fin
    /\ Step(c, "read")
    /\ UNCHANGED <<alive, gate, local, kills, worker, dbFails>>

(* The final status is read from _tasks[iid], whichever build that is now.  *)
ReadFinal(c) ==
    /\ CAt(c, "read")
    /\ canc' = [canc EXCEPT ![c] =
           CASE TaskOf(c).status = "cancelled" ->
                   [@ EXCEPT !.pc = "done", !.outcome = "cancelled"]
             [] TaskOf(c).status \in {"success", "failed"} ->
                   [@ EXCEPT !.pc = "done", !.outcome = "already_done"]
             [] OTHER -> [@ EXCEPT !.pc = "mark", !.seen = TaskOf(c).tok]]
    /\ UNCHANGED <<alive, gate, local, kills, worker, dbFails>>

MarkCancelFailed(c) ==
    /\ CAt(c, "mark")
    /\ mem' = [mem EXCEPT ![c[1]].status =
                  IF TaskOf(c).tok = canc[c].seen /\ @ = "cancelling" THEN "cancel_failed"
                  ELSE @]
    /\ Step(c, "markRow")
    /\ UNCHANGED <<alive, gate, lastTok, pc, held, fin, flag, hub, kills, worker, dbFails>>

MarkRowFailed(c) ==
    /\ CAt(c, "markRow")
    /\ rows' = [rows EXCEPT ![Inst_(c)] = Updated(@, canc[c].seen, "cancel_failed", FALSE)]
    /\ Report(c, "cancel_failed")
    /\ UNCHANGED <<alive, slots, local, kills, worker, dbFails>>

(* The task belongs to another process: the row is read ...                 *)
ReadRow(c) ==
    LET row == rows[Inst_(c)] IN
    /\ CAt(c, "xread")
    /\ canc' = [canc EXCEPT ![c] =
           CASE row = NoRow -> [@ EXCEPT !.pc = "done", !.outcome = "noop"]
             [] row.status \in Terminal ->
                   [@ EXCEPT !.pc = "done", !.tok = row.tok, !.prev = row.status,
                             !.outcome = TerminalOutcome(row.status)]
             [] OTHER ->
                   [@ EXCEPT !.pc = IF row.status = "queued" THEN "xqueued" ELSE "xmark",
                             !.tok = row.tok, !.prev = row.status,
                             !.wk = row.wk, !.own = row.owner]]
    /\ UNCHANGED <<alive, gate, local, kills, worker, dbFails>>

(* ... and updated in a later transaction, whose result nobody looks at.    *)
CancelQueuedRow(c) ==
    /\ CAt(c, "xqueued")
    /\ rows' = [rows EXCEPT ![Inst_(c)] = Updated(@, canc[c].tok, "cancelled", TRUE)]
    /\ Report(c, "cancelled")
    /\ UNCHANGED <<alive, slots, local, kills, worker, dbFails>>

MarkRowCancelling(c) ==
    /\ CAt(c, "xmark")
    /\ rows' = [rows EXCEPT ![Inst_(c)] = Updated(@, canc[c].tok, "cancelling", TRUE)]
    /\ Step(c, "xsignal")
    /\ UNCHANGED <<alive, slots, local, kills, worker, dbFails>>

(* The worker read with the row is killed; a task whose worker is gone and  *)
(* whose owner is dead is closed here.                                      *)
SignalWorker(c) ==
    LET signaled == canc[c].wk # NoTok /\ worker[canc[c].wk] = "running" IN
    /\ CAt(c, "xsignal")
    /\ worker' = Killed({canc[c].wk})
    /\ IF ~signaled /\ canc[c].own \notin alive
       THEN /\ rows' = [rows EXCEPT ![Inst_(c)] = Updated(@, canc[c].tok, "cancelled", FALSE)]
            /\ Report(c, "cancelled")
       ELSE Step(c, "xpoll") /\ UNCHANGED rows
    /\ UNCHANGED <<alive, slots, local, kills, dbFails>>

(* _wait_persisted_cancel: the row is polled, whichever build owns it. *)
PollRow(c) ==
    LET row == rows[Inst_(c)] IN
    /\ CAt(c, "xpoll") /\ row.status \in Terminal
    /\ Report(c, TerminalOutcome(row.status))
    /\ UNCHANGED <<alive, gate, local, kills, worker, dbFails>>

(* Mutant: no deadline on the poll while the owner lives. *)
PollTimeout_OwnerDead(c) ==
    /\ CAt(c, "xpoll") /\ canc[c].own \notin alive
    /\ rows' = rows
    /\ Report(c, "cancel_failed")
    /\ UNCHANGED <<alive, slots, local, kills, worker, dbFails>>

PollTimeout(c) ==
    LET row == rows[Inst_(c)] IN
    /\ CAt(c, "xpoll")
    /\ rows' = [rows EXCEPT ![Inst_(c)] = Updated(@, row.tok, "cancel_failed", FALSE)]
    /\ Report(c, "cancel_failed")
    /\ UNCHANGED <<alive, slots, local, kills, worker, dbFails>>

----------------------------------------------------------------------------
(* Environment                                                              *)

WorkerExits(t) ==
    /\ worker[t] = "running"
    /\ worker' = [worker EXCEPT ![t] = "exited"]
    /\ UNCHANGED <<alive, gate, local, kills, canc, dbFails>>

(* A process dies: its memory is gone, its rows and its worker stay.        *)
Crash(p) ==
    LET lost(r) == Pid(r) = p IN
    /\ p \in alive /\ Cardinality(Proc \ alive) < MaxCrash
    /\ alive' = alive \ {p}
    /\ mem' = [r \in Run |-> IF lost(r) THEN NoTask ELSE mem[r]]
    /\ pc' = [r \in Run |-> IF lost(r) THEN "idle" ELSE pc[r]]
    /\ held' = [r \in Run |-> IF lost(r) THEN NoSlot ELSE held[r]]
    /\ flag' = [r \in Run |-> ~lost(r) /\ flag[r]]
    /\ hub' = [r \in Run |-> IF lost(r) THEN NoTok ELSE hub[r]]
    /\ kills' = [kills EXCEPT ![p] = {}]
    /\ canc' = [c \in Cancels |-> IF lost(c[1]) /\ canc[c].pc # "done"
                                  THEN [canc[c] EXCEPT !.pc = "dead"] ELSE canc[c]]
    /\ UNCHANGED <<gate, lastTok, fin, worker, dbFails>>

----------------------------------------------------------------------------
QueueStep(r) ==
    \/ PersistQueued(r) \/ TryAcquire0(r) \/ CheckQueued(r) \/ MarkQueued(r)
    \/ WaitForSlot(r) \/ CheckTimeout(r) \/ DrainKills(r)

BuildStep(r) ==
    \/ StartBuilding(r) \/ PersistBuilding(r) \/ PersistLost(r) \/ EnterContext(r)
    \/ RegisterWorker(r) \/ KillWorker(r) \/ CommandEnds(r) \/ CommandResult(r)
    \/ BuilderEnds(r) \/ FinishBuild(r) \/ PersistSuccess(r)

EndStep(r) == OnCancelled(r) \/ OnError(r) \/ ReleaseSlot(r)

RunStep(r) == QueueStep(r) \/ BuildStep(r) \/ EndStep(r)

LocalCancel(c) ==
    \/ CancelFinished(c) \/ CancelQueued(c) \/ CancelBuilding(c) \/ HubCancel(c)
    \/ SignalRow(c) \/ BuildFinished(c) \/ WaitTimeout(c) \/ ReadFinal(c)
    \/ MarkCancelFailed(c) \/ MarkRowFailed(c)

RemoteCancel(c) ==
    \/ CancelElsewhere(c) \/ ReadRow(c) \/ CancelQueuedRow(c) \/ MarkRowCancelling(c)
    \/ SignalWorker(c) \/ PollRow(c) \/ PollTimeout(c)

CancelStep(c) == LocalCancel(c) \/ RemoteCancel(c)

(* What the environment decides: a user starts a build, a command is        *)
(* spawned, runs out of time, ends by itself; a process dies.               *)
EnvStep ==
    \/ \E r \in Run : Register(r) \/ SpawnWorker(r) \/ CommandTimeout(r)
    \/ \E t \in Token : WorkerExits(t)
    \/ \E p \in Proc : Crash(p)

Next ==
    \/ \E r \in Run : RunStep(r)
    \/ \E c \in Cancels : CancelStep(c)
    \/ EnvStep

Spec == Init /\ [][Next]_vars

(* Every loop of a live process goes on: the build thread (its polling loop *)
(* sleeps 0.1 s, the command loop 0.25 s) and the calls of cancel, whose    *)
(* waits are bounded.  Nothing obliges a command to end, a user to build or *)
(* a process to die.                                                        *)
Fairness ==
    /\ \A r \in Run : WF_vars(RunStep(r))
    /\ \A c \in Cancels : WF_vars(CancelStep(c))
FairSpec == Spec /\ Fairness

----------------------------------------------------------------------------
(* Properties                                                               *)

CancelRec == [pc : CancelPc, tok : Token \cup {NoTok}, seen : Token \cup {NoTok},
              wk : Token \cup {NoTok}, own : Proc \cup {NoProc},
              prev : Status \cup {"none"}, outcome : Outcome]

(* The types of the tables, of the in-memory tasks and of the threads.      *)
TypeOK ==
    /\ alive \subseteq Proc
    /\ slots \in [Slot -> Holder \cup {Free}]
    /\ rows \in [Inst -> Row \cup {NoRow}]
    /\ lastTok \in 0 .. MaxBuild
    /\ mem \in [Run -> Task \cup {NoTask}]
    /\ pc \in [Run -> RunPc]
    /\ held \in [Run -> Slot \cup {NoSlot}]
    /\ fin \subseteq Token
    /\ flag \in [Run -> BOOLEAN]
    /\ hub \in [Run -> Token \cup {NoTok}]
    /\ kills \in [Proc -> SUBSET Token]
    /\ worker \in [Token -> {"none", "running", "exited", "killed"}]
    /\ canc \in [Cancels -> CancelRec]
    /\ dbFails \in 0 .. MaxDbFail

LiveRun(r) == Pid(r) \in alive

(* cancel() found the task in its own process (only ReadRow sets own). *)
AnsweredLocally(c) == canc[c].own = NoProc

(* A run that was given a slot keeps its row of build_slots until its own   *)
(* finally deletes it: no reclaim of another process, no release of another *)
(* build of the same process takes it away (_reclaim_dead, release).        *)
SlotKept ==
    \A r \in Run :
        /\ LiveRun(r) /\ pc[r] \in HoldingPc => held[r] # NoSlot
        /\ LiveRun(r) /\ held[r] # NoSlot =>
               slots[held[r]] = [inst |-> Of(r), pid |-> Pid(r)]

(* buildConcurrency bounds, across processes, the builders that run.        *)
BuildersBounded ==
    Cardinality({r \in Run : LiveRun(r) /\ pc[r] \in BuilderPc}) <= Concurrency

(* The gate as a semaphore of Concurrency permits.  A run holds its permit  *)
(* from the insert of its slot row to the end of its finally.               *)
Permits == INSTANCE BuildSemaphore
             WITH Build <- Run, Limit <- Concurrency,
                  holding <- {r \in Run : held[r] # NoSlot}

(* The slot rows, the reclaim of dead holders and the releases implement    *)
(* the semaphore: a slot reclaimed from a live holder, or released twice    *)
(* and granted in between, would let a build in beyond the limit.           *)
GateIsSemaphore == Permits!SemSpec

(* No builder runs unrecorded: while it runs, the row of its instance names *)
(* its build, so that every process can find and cancel it.  A failed or    *)
(* refused _persist_task("building") must not let the builder start.        *)
BuilderRecorded ==
    \A r \in Run : LiveRun(r) /\ pc[r] \in BuilderPc =>
        RowOf(r).tok = TokOf(r) /\ RowOf(r).owner = Pid(r)

(* No slot leaks: an occupied slot belongs to a dead process, which the     *)
(* next acquire reclaims, or to a run that still holds it.  Whatever a      *)
(* cancel, a timeout or an error did, an idle process occupies nothing.     *)
NoSlotLeak ==
    \A s \in Slot : slots[s].pid \in alive =>
        held[<<slots[s].pid, slots[s].inst>>] = s

(* The slots in one statement: kept by whoever builds, by no more than may   *)
(* build, and by nobody else.                                                *)
SlotsAreSafe ==
    TypeOK /\ SlotKept /\ BuildersBounded /\ NoSlotLeak

(* run() returns the builder's result exactly when the row says success,    *)
(* and a cancel recorded before the row closed never ends as a success,     *)
(* unless _persist_task failed to record it.                                *)
SuccessAgrees ==
    \A r \in Run :
        LET row == RowOf(r) IN
        LiveRun(r) /\ mem[r].tok # NoTok /\ row.tok = mem[r].tok =>
            /\ pc[r] = "idle" => (mem[r].status = "success" <=> row.status = "success")
            /\ row.status = "success" /\ dbFails = 0 => ~row.req

(* The row of a build and the build in one statement: recorded while it      *)
(* runs, and of one outcome when it has ended.                               *)
RecordsAgree ==
    BuilderRecorded /\ SuccessAgrees

(* A cancel answered by the process that runs the build is never a false    *)
(* report: a build reported cancelled does not end as a success, unless     *)
(* _persist_task failed to record it (the caller that waits reads the       *)
(* status of whichever build _tasks holds by then).                         *)
LocalReportTrue ==
    dbFails = 0 => \A c \in Cancels :
        ~ /\ canc[c].outcome = "cancelled" /\ AnsweredLocally(c)
          /\ canc[c].tok = rows[Inst_(c)].tok
          /\ rows[Inst_(c)].status = "success"

(* A queued task cancelled by its own process never reaches its builder.    *)
QueuedCancelSkipsBuilder ==
    \A r \in Run : LiveRun(r) /\ pc[r] \in BuilderPc =>
        \A c \in Cancels :
            ~(c[1] = r /\ AnsweredLocally(c) /\ canc[c].prev = "queued"
                       /\ canc[c].tok = TokOf(r))

(* A build's cancel mark is its own: somebody asked to cancel that very     *)
(* generation, or its owner died.  The mark of an earlier generation does   *)
(* not survive replace_generation, and a stale canceller cannot set it.     *)
CancelMarkJustified ==
    \A i \in Inst : rows[i].req =>
        \/ rows[i].owner \notin alive
        \/ \E c \in Cancels : Inst_(c) = i /\ canc[c].tok = rows[i].tok

(* The build whose worker runs is still inside its builder, or its process  *)
(* died: run() never returns, cancelled, failed or successful, with a       *)
(* command of its own left running.                                         *)
NoWorkerLeft ==
    \A t \in Token : worker[t] = "running" =>
        \/ \E r \in Run : LiveRun(r) /\ TokOf(r) = t /\ pc[r] \in {"spawned", "cmd"}
        \/ \A r \in Run : LiveRun(r) => TokOf(r) # t

(* A closed row stays as it is until another build replaces it: no late     *)
(* success, failure or cancel rewrites it (BUG-307), nobody else's token    *)
(* touches it.                                                              *)
RowsCloseOnce ==
    [][\A i \in Inst :
          rows[i].status \in Terminal /\ rows'[i] # rows[i] =>
              \/ rows'[i].tok > rows[i].tok
              \/ rows'[i].status = rows[i].status]_vars

(* What the queue tells of a build and of its cancel, in one statement.      *)
ReportsAreTrue ==
    /\ []SuccessAgrees /\ []LocalReportTrue /\ []QueuedCancelSkipsBuilder
    /\ []CancelMarkJustified /\ RowsCloseOnce

(* A build that was cancelled in its own process while its command runs     *)
(* leaves the builder, even if the command would never end by itself.       *)
CancelStopsBuild ==
    \A r \in Run : \A t \in Token :
        (LiveRun(r) /\ TokOf(r) = t /\ pc[r] = "cmd" /\ mem[r].req)
            ~> (~LiveRun(r) \/ TokOf(r) # t \/ pc[r] \notin BuilderPc)

(* Every call of cancel returns, or dies with its process. *)
CancelReturns ==
    \A c \in Cancels : canc[c].pc \notin {"start", "done", "dead"}
                            ~> canc[c].pc \in {"done", "dead"}

(* Nobody waits, even without a deadline, for the slot of a dead process:   *)
(* while builds wait and no live build holds a slot, one of them gets it.   *)
DeadSlotReclaimed ==
    (\E r \in Run : pc[r] = "wait") /\ (\A r \in Run : held[r] = NoSlot)
        ~> (\A r \in Run : pc[r] # "wait") \/ (\E r \in Run : held[r] # NoSlot)

(* Nothing in the queue hangs, in one statement.                             *)
BuildsGoOn ==
    CancelStopsBuild /\ CancelReturns /\ DeadSlotReclaimed

----------------------------------------------------------------------------
(* What the tests and comments of the repository say and the code does not  *)
(* keep; TLC violates each in the instance of build_cancel.                 *)

(* "不假报成功" (CancelResult): a build reported cancelled is not a success. *)
(* The remote path reads the row and updates it in two transactions, and    *)
(* answers "cancelled" even when the update was refused.                    *)
CancelReportTrue ==
    \A c \in Cancels :
        ~ /\ canc[c].outcome = "cancelled"
          /\ canc[c].tok = rows[Inst_(c)].tok
          /\ rows[Inst_(c)].status = "success"

(* BUG-308: the worker of a dead owner is terminated when its task is       *)
(* reclaimed, so a recorded worker that runs stays on record until then.    *)
(* A new build of the same instance overwrites the row before any reclaim.  *)
Recorded(t) == (\E i \in Inst : rows[i].wk = t) \/ (\E p \in alive : t \in kills[p])
OrphanWorkerKept ==
    [][\A t \in Token : Recorded(t) /\ worker'[t] = "running" => Recorded(t)']_vars
=============================================================================
