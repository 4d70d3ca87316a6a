--------------------------- MODULE ManagerService ---------------------------
(* The manager page as a background service (manager_service.py), its unit  *)
(* for autostart (autostart.py), the restart by lwa update (updater.py) and *)
(* the record of failed starts (service_failures.py).  Several commands at  *)
(* a time read and write run/manager.json; the service process writes its   *)
(* own pid there.                                                           *)
EXTENDS FiniteSets, Integers

CONSTANTS Cmd,        \* commands that may run at the same time
          Pid,        \* bound: processes of the service, in the order they are spawned
          NoPid,
          Threshold,  \* START_FAILURE_THRESHOLD
          MaxCmd      \* bound: commands

ASSUME ManagerAssumption ==
    /\ NoPid \notin Pid /\ IsFiniteSet(Pid) /\ "none" \notin Cmd
    /\ Threshold \in Nat \ {0, 1} /\ MaxCmd \in Nat

VARIABLES
    st,        \* run/manager.json
    proc,      \* the processes
    unit,      \* the unit of the service manager: enabled, active, its main process
    starter,   \* the holder of the start lock
    disk,      \* the version of the code on disk
    cmd,       \* the commands
    sgh,       \* ghost: the user's word, fruitless automatic starts,
               \* the commands with none beside them, what the properties do not cover
    spentCmd   \* commands so far

managerVars == <<st, proc, unit, starter, disk, cmd, sgh, spentCmd>>

(* ManagerState.  recent: the last failure is inside the window of 24 h. *)
State == [there : BOOLEAN, enabled : BOOLEAN, pid : Pid \cup {NoPid},
          fails : Nat, recent : BOOLEAN]
NoState == [there |-> FALSE, enabled |-> FALSE, pid |-> NoPid, fails |-> 0, recent |-> FALSE]

Job    == {"on", "off", "update", "enable", "disable"}
Ending == {"off", "enable", "disable"}
Idle == [job |-> "none", pc |-> "idle", copy |-> NoState, pid |-> NoPid, second |-> FALSE]

Alive(p)    == p \in Pid /\ proc[p].s \in {"boot", "locked", "serving", "ending"}
LockOwner   == {p \in Pid : proc[p].s \in {"locked", "serving", "ending"}}
Serving     == {p \in Pid : proc[p].s = "serving"}
Fresh       == {p \in Pid : proc[p].s = "none"}

(* health_matches_workspace: the port answers and names this workspace.     *)
Healthy == Serving # {}

(* is_running *)
Running(s) == s.there /\ s.enabled /\ Healthy /\ (s.pid # NoPid => Alive(s.pid))

(* find_listening_pid *)
Listening == IF Healthy THEN CHOOSE p \in Serving : TRUE ELSE NoPid

(* clear_start_failures and record_start_failure *)
Cleared(s) == [s EXCEPT !.fails = 0, !.recent = FALSE]
Failed(s)  == [s EXCEPT !.fails = @ + 1, !.recent = TRUE]

(* start_failure_circuit_open *)
CircuitOpen(s) == s.fails >= Threshold /\ s.recent

At(c, pc) == cmd[c].pc = pc
Go(c, pc) == cmd' = [cmd EXCEPT ![c].pc = pc]
Keep(c, pc, copy) == cmd' = [cmd EXCEPT ![c].pc = pc, ![c].copy = copy]
(* ... and what the command knew of the state is of no use any more. *)
Settle(c, pc) ==
    cmd' = [cmd EXCEPT ![c] = [Idle EXCEPT !.job = cmd[c].job, !.pc = pc, !.second = cmd[c].second]]

Write(s) == st' = [s EXCEPT !.there = TRUE]

Spawned == [s |-> "boot", ver |-> disk]

(* SIGTERM: a process that holds its lock runs its finally clause. *)
Signalled(p) ==
    [proc EXCEPT ![p].s = CASE @ \in {"locked", "serving"} -> "ending"
                            [] @ = "boot" -> "dead"
                            [] OTHER -> @]
SignalledOrNone(p) == IF p \in Pid THEN Signalled(p) ELSE proc

Ghost(g) == sgh' = g
Kept == UNCHANGED sgh

(* The end of a command: the start lock is released, the ghost is told.     *)
Answer(c, ok) ==
    /\ cmd' = [cmd EXCEPT ![c] = Idle]
    /\ starter' = IF starter = c THEN "none" ELSE starter

Others(c) == {d \in Cmd \ {c} : cmd[d].job # "none"}

----------------------------------------------------------------------------
(* The service process: run_service_main                                    *)

(* manager_instance_lock, then the state is written anew.  An exit because  *)
(* the lock is held is a failure for the service manager unless the holder  *)
(* is healthy.                                                              *)
TakesLock(p) ==
    /\ proc[p].s = "boot"
    /\ IF LockOwner = {}
       THEN /\ proc' = [proc EXCEPT ![p].s = "locked"]
            /\ st' = [there |-> TRUE, enabled |-> TRUE, pid |-> p, fails |-> 0, recent |-> FALSE]
            /\ sgh' = [sgh EXCEPT !.lost = @ \/ \E c \in Cmd : At(c, "killChild"),
                                  !.tries = IF p = unit.main THEN 0 ELSE @]
            /\ UNCHANGED unit
       ELSE /\ proc' = [proc EXCEPT ![p].s = "dead"]
            /\ unit' = IF unit.main = p /\ Healthy
                       THEN [unit EXCEPT !.active = FALSE, !.main = NoPid] ELSE unit
            /\ UNCHANGED <<st, sgh>>
    /\ UNCHANGED <<starter, disk, cmd, spentCmd>>

Serves(p) ==
    /\ proc[p].s = "locked"
    /\ proc' = [proc EXCEPT ![p].s = "serving"]
    /\ Ghost([sgh EXCEPT !.tries = 0])
    /\ UNCHANGED <<st, unit, starter, disk, cmd, spentCmd>>

(* The end of run_service_main clears the pid if it is still its own.       *)
Ends(p) ==
    /\ proc[p].s = "ending"
    /\ proc' = [proc EXCEPT ![p].s = "dead"]
    /\ IF st.there /\ st.pid = p THEN Write([st EXCEPT !.pid = NoPid]) ELSE UNCHANGED st
    /\ UNCHANGED <<unit, starter, disk, cmd, spentCmd>> /\ Kept

(* The process fails by itself, with or without its finally clause. *)
Dies(p) ==
    /\ proc[p].s \in {"boot", "locked", "serving"}
    /\ sgh.deaths = 0 /\ Ghost([sgh EXCEPT !.deaths = 1])
    /\ \/ proc' = Signalled(p)
       \/ proc' = [proc EXCEPT ![p].s = "dead"]
    /\ UNCHANGED <<st, unit, starter, disk, cmd, spentCmd>>

(* Restart=on-failure of the unit. *)
SupervisorRestarts ==
    /\ unit.active /\ unit.main # NoPid /\ ~Alive(unit.main)
    /\ \E p \in Fresh :
        /\ proc' = [proc EXCEPT ![p] = Spawned]
        /\ unit' = [unit EXCEPT !.main = p]
    /\ UNCHANGED <<st, starter, disk, cmd, spentCmd>> /\ Kept

----------------------------------------------------------------------------
(* Beginning of a command                                                   *)

(* cli/manager.py, cli/autostart.py, updater.run_update, which has put the  *)
(* new code on disk and holds the lock of the workspace.  A user's word is  *)
(* taken back by the next one.                                              *)
Begin(c, job) ==
    /\ cmd[c] = Idle
    /\ job = "update" => \A d \in Cmd : cmd[d].job # "update"
    /\ spentCmd < MaxCmd /\ spentCmd' = spentCmd + 1
    /\ cmd' = [cmd EXCEPT ![c] =
                 [Idle EXCEPT !.job = job,
                              !.pc = CASE job = "on" -> "lock"
                                       [] job \in {"off", "disable"} -> "unit"
                                       [] job = "update" -> "look"
                                       [] job = "enable" -> "migrate"]]
    /\ disk' = IF job = "update" THEN "new" ELSE disk
    /\ sgh' = [sgh EXCEPT !.word = IF job = "update" /\ Others(c) = {} THEN @ ELSE "none",
                          !.alone = IF Others(c) = {} THEN {c} ELSE {},
                          !.lost = @ \/ \E d \in Others(c) : {job, cmd[d].job} \cap Ending # {},
                          !.tries = IF job \in {"on", "off", "enable"} THEN 0 ELSE @]
    /\ UNCHANGED <<st, proc, unit, starter>>

----------------------------------------------------------------------------
(* start_manager                                                            *)

(* manager_start_lock: taken, or held for longer than one waits. *)
StartLock(c) ==
    /\ At(c, "lock")
    /\ \/ starter = "none" /\ starter' = c /\ Go(c, "check")
       \/ starter # "none" /\ Answer(c, FALSE)
    /\ UNCHANGED <<st, proc, unit, disk, sgh, spentCmd>>

(* Where a successful start goes on. *)
AfterStart(c) ==
    IF cmd[c].job = "update"
    THEN Settle(c, "verify") /\ starter' = "none"
    ELSE Answer(c, TRUE)

(* It runs already: nothing to do.  It answers on the port: the state is    *)
(* recovered.  Otherwise the intent is written first.                       *)
CheckFirst(c) ==
    /\ At(c, "check")
    /\ CASE Running(st) ->
              /\ Write(Cleared(st)) /\ AfterStart(c)
         [] ~Running(st) /\ Healthy ->
              /\ st' = [there |-> TRUE, enabled |-> TRUE, pid |-> Listening,
                        fails |-> 0, recent |-> FALSE]
              /\ AfterStart(c)
         [] OTHER ->
              /\ Write([st EXCEPT !.enabled = TRUE])
              /\ Keep(c, "port", [st EXCEPT !.enabled = TRUE])
              /\ UNCHANGED starter
    /\ sgh' = [sgh EXCEPT !.word = IF cmd[c].job = "on" /\ c \in sgh.alone THEN "on" ELSE @,
                          !.tries = IF Healthy THEN 0 ELSE @]
    /\ UNCHANGED <<proc, unit, disk, spentCmd>>

(* The failure of a start: its copy of the state with the failure recorded. *)
(* The intent stays.                                                        *)
StartFails(c, copy) ==
    /\ Write(Failed(copy))
    /\ sgh' = [sgh EXCEPT !.tries = IF cmd[c].job = "update" /\ c \in sgh.alone THEN @ + 1 ELSE @]

(* Somebody else's manager answers on the port, or the spawn fails, or the  *)
(* child is there.                                                          *)
SpawnChild(c) ==
    /\ At(c, "port")
    /\ \/ StartFails(c, cmd[c].copy) /\ Answer(c, FALSE) /\ UNCHANGED proc
       \/ ~Healthy /\ \E p \in Fresh :
            /\ proc' = [proc EXCEPT ![p] = Spawned]
            /\ cmd' = [cmd EXCEPT ![c].pc = "note", ![c].pid = p]
            /\ UNCHANGED <<st, starter, sgh>>
    /\ UNCHANGED <<unit, disk, spentCmd>>

NotePid(c) ==
    LET s == [cmd[c].copy EXCEPT !.pid = cmd[c].pid] IN
    /\ At(c, "note")
    /\ Write(s) /\ Keep(c, "wait", s)
    /\ UNCHANGED <<proc, unit, starter, disk, sgh, spentCmd>>

(* _wait_for_health: anyone who answers on the port will do. *)
ChildHealthy(c) ==
    /\ At(c, "wait") /\ Healthy
    /\ Write(Cleared(cmd[c].copy))
    /\ AfterStart(c)
    /\ sgh' = [sgh EXCEPT !.tries = 0, !.lost = @ \/ Listening # cmd[c].pid]
    /\ UNCHANGED <<proc, unit, disk, spentCmd>>

HealthTimeout(c) ==
    /\ At(c, "wait") /\ ~Healthy
    /\ StartFails(c, [cmd[c].copy EXCEPT !.pid = NoPid])
    /\ Go(c, "killChild")
    /\ UNCHANGED <<proc, unit, starter, disk, spentCmd>>

KillChild(c) ==
    /\ At(c, "killChild")
    /\ proc' = [proc EXCEPT ![cmd[c].pid].s = "dead"]
    /\ Answer(c, FALSE)
    /\ UNCHANGED <<st, unit, disk, sgh, spentCmd>>

----------------------------------------------------------------------------
(* stop_manager, stop_manager_internal                                      *)

(* coordinated_disable, or autostart disable: the unit is disabled and its  *)
(* process stopped, or the command ends without stopping anything.          *)
UnitStops(on) ==
    /\ Alive(unit.main)
    /\ unit' = [unit EXCEPT !.on = on, !.active = FALSE]
    /\ proc' = Signalled(unit.main)

DisableUnit(c) ==
    /\ At(c, "unit")
    /\ \/ UnitStops(FALSE) /\ UNCHANGED <<cmd, starter>>
       \/ /\ ~Alive(unit.main)
          /\ unit' = [on |-> FALSE, active |-> FALSE, main |-> NoPid]
          /\ IF cmd[c].job = "off" THEN Go(c, "read") /\ UNCHANGED starter ELSE Answer(c, TRUE)
          /\ UNCHANGED proc
       \/ (unit.on \/ unit.active) /\ Answer(c, FALSE) /\ UNCHANGED <<unit, proc>>
    /\ UNCHANGED <<st, disk, sgh, spentCmd>>

(* The state is read; its pid, or who listens on the port, gets a signal.   *)
StopRead(c) ==
    LET pid == IF st.pid = NoPid /\ st.enabled THEN Listening ELSE st.pid IN
    /\ At(c, "read")
    /\ cmd' = [cmd EXCEPT ![c].pc = "stopping", ![c].copy = st, ![c].pid = pid]
    /\ proc' = SignalledOrNone(pid)
    /\ UNCHANGED <<st, unit, starter, disk, sgh, spentCmd>>

(* Mutant: the stop of a restart is the user's stop. *)
StoppedState_Off(c) == Cleared([cmd[c].copy EXCEPT !.enabled = FALSE, !.pid = cmd[c].pid])

(* stop_manager writes the intent, stop_manager_internal keeps what it read. *)
StoppedState(c) ==
    LET s == cmd[c].copy IN
    IF cmd[c].job = "update" THEN [s EXCEPT !.pid = NoPid]
    ELSE Cleared([s EXCEPT !.enabled = FALSE, !.pid = cmd[c].pid])

StopDone(c) ==
    LET s == cmd[c].copy
        blind == s.there /\ cmd[c].pid = NoPid /\ s.enabled /\ Healthy
    IN  /\ At(c, "stopping") /\ ~Alive(cmd[c].pid)
        /\ IF blind
           THEN Answer(c, FALSE) /\ UNCHANGED <<st, sgh>>
           ELSE /\ IF s.there THEN Write(StoppedState(c)) ELSE UNCHANGED st
                /\ CASE cmd[c].job = "off" ->
                          /\ Answer(c, TRUE)
                          /\ sgh' = [sgh EXCEPT !.word = IF c \in sgh.alone /\ ~sgh.lost
                                                         THEN "off" ELSE "none"]
                     [] cmd[c].job = "enable" -> Settle(c, "enableUnit") /\ UNCHANGED <<starter, sgh>>
                     [] OTHER -> Settle(c, "lock") /\ UNCHANGED <<starter, sgh>>
        /\ UNCHANGED <<proc, unit, disk, spentCmd>>

----------------------------------------------------------------------------
(* autostart enable                                                         *)

(* _migrate_detached_for_supervision: a process outside of the unit is      *)
(* stopped the way the user stops it.                                       *)
Migrate(c) ==
    /\ At(c, "migrate")
    /\ Go(c, IF ~unit.on /\ ~unit.active /\ Running(st) THEN "read" ELSE "enableUnit")
    /\ UNCHANGED <<st, proc, unit, starter, disk, sgh, spentCmd>>

UnitRuns(p) ==
    /\ proc' = [proc EXCEPT ![p] = Spawned]
    /\ unit' = [on |-> TRUE, active |-> TRUE, main |-> p]

EnableUnit(c) ==
    /\ At(c, "enableUnit")
    /\ \/ UNCHANGED <<proc, unit>>
       \/ ~unit.active /\ \E p \in Fresh : UnitRuns(p)
       \/ unit.active /\ unit' = [unit EXCEPT !.on = TRUE] /\ UNCHANGED proc
    /\ Answer(c, TRUE)
    /\ UNCHANGED <<st, disk, sgh, spentCmd>>

----------------------------------------------------------------------------
(* updater.restart_manager                                                  *)

Managed == unit.on \/ unit.active

(* What does not run is started only if the user wants it and the circuit   *)
(* is closed.  Mutants: the circuit, or the intent, is not asked.           *)
MayReconcile_NoCircuit == st.there /\ st.enabled
MayReconcile_AnyIntent == st.there /\ ~CircuitOpen(st)
MayReconcile == st.there /\ st.enabled /\ ~CircuitOpen(st)

Look(c) ==
    /\ At(c, "look")
    /\ IF Running(st)
       THEN Go(c, IF Managed THEN "viaUnit" ELSE "read") /\ UNCHANGED starter
       ELSE IF MayReconcile
       THEN Go(c, IF Managed THEN "viaUnit" ELSE "lock") /\ UNCHANGED starter
       ELSE Answer(c, TRUE)
    /\ UNCHANGED <<st, proc, unit, disk, sgh, spentCmd>>

(* coordinated_restart, coordinated_start: the unit's process is stopped    *)
(* and a new one started, or the command falls back to doing it itself.     *)
ViaUnit(c) ==
    /\ At(c, "viaUnit")
    /\ \/ UnitStops(unit.on) /\ UNCHANGED cmd
       \/ /\ ~Alive(unit.main)
          /\ \E p \in Fresh :
               /\ proc' = [proc EXCEPT ![p] = Spawned]
               /\ unit' = [unit EXCEPT !.active = TRUE, !.main = p]
          /\ Go(c, "verify")
       \/ /\ Go(c, IF Running(st) THEN "read" ELSE "lock")
          /\ UNCHANGED <<proc, unit>>
    /\ UNCHANGED <<st, starter, disk, sgh, spentCmd>>

(* verify_manager_version, with a second round if it does not agree. *)
Verify(c) ==
    /\ At(c, "verify")
    /\ \/ /\ Healthy /\ proc[Listening].ver = "new"
          /\ Answer(c, TRUE)
       \/ /\ Healthy => proc[Listening].ver = "old"
          /\ IF cmd[c].second
             THEN Answer(c, FALSE)
             ELSE /\ cmd' = [cmd EXCEPT ![c].second = TRUE,
                                        ![c].pc = IF Managed THEN "viaUnit" ELSE "read"]
                  /\ UNCHANGED starter
    /\ UNCHANGED <<st, proc, unit, disk, sgh, spentCmd>>

----------------------------------------------------------------------------
(* The command is killed; 24 hours pass since the last failure.             *)

CmdKilled(c) ==
    /\ cmd[c].job # "none" /\ ~sgh.lost
    /\ Answer(c, FALSE)
    /\ sgh' = [sgh EXCEPT !.lost = TRUE, !.word = "none"]
    /\ UNCHANGED <<st, proc, unit, disk, spentCmd>>

WindowPasses ==
    /\ st.recent /\ \A c \in Cmd : cmd[c] = Idle
    /\ st' = [st EXCEPT !.recent = FALSE]
    /\ Ghost([sgh EXCEPT !.tries = 0])
    /\ UNCHANGED <<proc, unit, starter, disk, cmd, spentCmd>>

CmdStep(c) ==
    \/ \E job \in Job : Begin(c, job)
    \/ StartLock(c) \/ CheckFirst(c) \/ SpawnChild(c) \/ NotePid(c)
    \/ ChildHealthy(c) \/ HealthTimeout(c) \/ KillChild(c)
    \/ DisableUnit(c) \/ StopRead(c) \/ StopDone(c)
    \/ Migrate(c) \/ EnableUnit(c)
    \/ Look(c) \/ ViaUnit(c) \/ Verify(c)
    \/ CmdKilled(c)

ProcStep(p) == TakesLock(p) \/ Serves(p) \/ Ends(p) \/ Dies(p)

(* A workspace where the service never ran, or failed before.  The unit is  *)
(* installed.                                                               *)
ManagerInit ==
    /\ st \in {NoState} \cup
              {[there |-> TRUE, enabled |-> TRUE, pid |-> NoPid, fails |-> Threshold - 1,
                recent |-> r] : r \in {Threshold > 1}}
    /\ proc = [p \in Pid |-> [s |-> "none", ver |-> "old"]]
    /\ unit = [on |-> FALSE, active |-> FALSE, main |-> NoPid]
    /\ starter = "none"
    /\ disk = "old"
    /\ cmd = [c \in Cmd |-> Idle]
    /\ sgh = [word |-> "none", tries |-> st.fails, deaths |-> 0,
             alone |-> {}, lost |-> FALSE]
    /\ spentCmd = 0

ManagerNext == \/ \E c \in Cmd : CmdStep(c)
               \/ \E p \in Pid : ProcStep(p)
               \/ SupervisorRestarts \/ WindowPasses

ManagerSpec == ManagerInit /\ [][ManagerNext]_managerVars

----------------------------------------------------------------------------

ManagerTypeOK ==
    /\ st \in State
    /\ proc \in [Pid -> [s : {"none", "boot", "locked", "serving", "ending", "dead"},
                         ver : {"old", "new"}]]
    /\ unit \in [on : BOOLEAN, active : BOOLEAN, main : Pid \cup {NoPid}]
    /\ starter \in Cmd \cup {"none"}
    /\ Cardinality(LockOwner) <= 1

(* After `lwa manager off` has answered nothing runs and nothing starts     *)
(* until the user or the unit is asked again; an update in between leaves   *)
(* the service off.  Not covered: after a command that stops has run beside *)
(* another, a command was killed, or a child was left behind on its way up. *)
OffStands ==
    sgh.word = "off" => ~st.enabled /\ \A p \in Pid : proc[p].s \in {"none", "ending", "dead"}

(* IMP-064.03: what the user switched on stays wanted through failing       *)
(* starts, restarts by an update and exits of the process.                  *)
IntentKept == sgh.word = "on" => st.enabled

(* IMP-064.04: a service that fails to start is tried at most Threshold     *)
(* times by updates with no other command beside them, until the user acts, *)
(* a day passes, the service comes up or the unit's process takes its lock. *)
(* Not covered: a child that writes the state after its failure was         *)
(* recorded, or after its command was killed: that clears the count.        *)
CircuitHolds == ~sgh.lost => sgh.tries <= Threshold

(* The manager service in one statement: off stands, on is remembered, and   *)
(* tries are counted.                                                        *)
ManagerObeys == ManagerTypeOK /\ OffStands /\ IntentKept /\ CircuitHolds
=============================================================================
