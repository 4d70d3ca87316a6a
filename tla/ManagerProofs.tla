---------------------------- MODULE ManagerProofs ---------------------------
(* Proofs about the manager: its service (what commands, processes and the  *)
(* unit leave of the user's word), its page (whose report a caller gets),   *)
(* its token and the update that restarts it, for any commands, processes,  *)
(* callers, printers and updates, any bounds and any threshold of at least  *)
(* two.                                                                     *)
EXTENDS ManagerToken, UpdateFlow, FiniteSetTheorems, TLAPS

(***************************************************************************)
(* The service.                                                            *)
(***************************************************************************)

UpStates == {"boot", "locked", "serving"}
IsUp(p)  == p \in Pid /\ proc[p].s \in UpStates
StartPcs == {"check", "port", "note", "wait", "killChild"}
WithChild == {"note", "wait", "killChild"}
Copying  == {"port", "note", "wait"}
Fits(job, pc) ==
    \/ job = "none" /\ pc = "idle"
    \/ job = "on" /\ pc \in {"lock"} \cup StartPcs
    \/ job = "off" /\ pc \in {"unit", "read", "stopping"}
    \/ job = "disable" /\ pc = "unit"
    \/ job = "enable" /\ pc \in {"migrate", "read", "stopping", "enableUnit"}
    \/ job = "update" /\ pc \in {"look", "viaUnit", "read", "stopping", "lock", "verify"} \cup StartPcs
CmdPcs == {"idle", "lock", "unit", "read", "stopping", "migrate", "enableUnit", "look", "viaUnit",
           "verify"} \cup StartPcs
Command == [job : Job \cup {"none"}, pc : CmdPcs, copy : State, pid : Pid \cup {NoPid},
            second : BOOLEAN]
Process == [s : {"none", "boot", "locked", "serving", "ending", "dead"}, ver : {"old", "new"}]
Units   == [on : BOOLEAN, active : BOOLEAN, main : Pid \cup {NoPid}]
SGhost  == [word : {"none", "on", "off"}, tries : Nat, deaths : {0, 1}, alone : SUBSET Cmd,
            lost : BOOLEAN]

ServiceTypes ==
    /\ st \in State /\ proc \in [Pid -> Process] /\ unit \in Units
    /\ starter \in Cmd \cup {"none"} /\ disk \in {"old", "new"} /\ cmd \in [Cmd -> Command]
    /\ sgh \in SGhost /\ spentCmd \in Nat

(* What a command does, what it has in hand, and who holds the start lock.  *)
CommandOk(c) ==
    /\ Fits(cmd[c].job, cmd[c].pc)
    /\ cmd[c].job = "none" => cmd[c] = Idle
    /\ cmd[c].pc \in StartPcs <=> starter = c
    /\ cmd[c].pc \in WithChild => cmd[c].pid \in Pid
    /\ cmd[c].pc \in Copying => cmd[c].copy.enabled
    /\ cmd[c].pc = "wait" => cmd[c].copy.pid = cmd[c].pid
(* One update has the lock of the workspace. *)
OneUpdates == \A c, d \in Cmd : cmd[c].job = "update" /\ cmd[d].job = "update" => c = d
AloneIs    == \A c \in sgh.alone \cap Cmd : cmd[c].job # "none" => \A d \in Cmd \ {c} : cmd[d].job = "none"
CommandsOk == (\A c \in Cmd : CommandOk(c)) /\ OneUpdates /\ AloneIs

ProcessesOk ==
    /\ \A p, q \in LockOwner : p = q
    /\ unit.main \in Pid => proc[unit.main].s # "none"
    /\ IsUp(unit.main) => unit.active
    /\ ~st.there => ~st.enabled

(* After the user's off nothing is up or about to be; an update leaves it.  *)
OffOk ==
    sgh.word = "off" =>
        /\ ~st.enabled /\ ~unit.active /\ \A p \in Pid : proc[p].s \notin UpStates
        /\ \A c \in Cmd : cmd[c].job \in {"none", "update"} /\ cmd[c].pc \in {"idle", "look"}

OnOk ==
    sgh.word = "on" =>
        /\ st.enabled
        /\ \A c \in Cmd : /\ cmd[c].job \in {"none", "on", "update"}
                          /\ cmd[c].pc = "stopping" => cmd[c].copy.enabled

(* A command that ends something has no other beside it. *)
EndingAlone ==
    \A c, d \in Cmd : c # d /\ cmd[c].job \in Ending => cmd[d].job = "none"
(* A process that is not the unit's is the child of the command that starts *)
(* it, or serves; the state names it unless it was just taken out.          *)
KnownOk ==
    /\ \A p \in Pid : IsUp(p) /\ p # unit.main =>
          \/ \E c \in Cmd : cmd[c].pc \in WithChild /\ cmd[c].pid = p
          \/ proc[p].s = "serving" /\ \A c \in Cmd : cmd[c].pc \notin Copying \cup WithChild
    /\ \A p \in Pid : proc[p].s \in {"locked", "serving"} /\ p # unit.main =>
          st.there /\ st.enabled /\ st.pid \in {p, NoPid}
StopOk ==
    \A c \in Cmd :
        /\ cmd[c].job = "update" /\ cmd[c].pc # "look" => st.there /\ st.enabled
        /\ cmd[c].job = "update" /\ cmd[c].pc = "stopping" => cmd[c].copy.there /\ cmd[c].copy.enabled
        /\ cmd[c].job \in {"off", "enable"} /\ cmd[c].pc \in {"read", "stopping"} => ~unit.active
        /\ cmd[c].job \in {"off", "enable"} /\ cmd[c].pc = "stopping" =>
              /\ \A p \in Pid : proc[p].s \notin UpStates
              /\ st.there => cmd[c].copy.there

(* Fruitless starts are in the count of the state, or of the copy that      *)
(* will be written.                                                         *)
TriesOk ==
    /\ sgh.tries <= Threshold
    /\ \A c \in Cmd :
          /\ cmd[c].job \in {"on", "off", "enable"} => sgh.tries = 0
          /\ sgh.tries > 0 /\ cmd[c].pc \in Copying \cup {"stopping"} =>
                sgh.tries <= cmd[c].copy.fails /\ cmd[c].copy.recent
          /\ cmd[c].job = "update" /\ cmd[c].pc \notin {"look", "killChild"} => sgh.tries < Threshold
          /\ cmd[c].pc \in Copying /\ Healthy => sgh.tries = 0
    /\ sgh.tries > 0 /\ (\A c \in Cmd : cmd[c].pc \notin Copying) =>
          sgh.tries <= st.fails /\ st.recent
    /\ Healthy => sgh.tries <= 1

ServiceInv ==
    /\ ServiceTypes /\ CommandsOk /\ ProcessesOk /\ OffOk /\ OnOk
    /\ ~sgh.lost => EndingAlone /\ KnownOk /\ StopOk /\ TriesOk


LEMMA IdleCommand ==
    /\ Idle \in Command /\ Idle.pc = "idle" /\ Idle.job = "none" /\ ~Idle.second
    /\ NoState \in State /\ ~NoState.there /\ ~NoState.enabled
BY DEF NoState, State, CmdPcs, Idle, Command

(* One service at most serves: whoever listens is it. *)
LEMMA OneListens ==
    ASSUME ProcessesOk
    PROVE  /\ Healthy <=> \E p \in Pid : proc[p].s = "serving"
           /\ \A p \in Serving : Listening = p
           /\ Healthy => Listening \in Serving
           /\ ~Healthy => Listening = NoPid
BY DEF Healthy, Serving, ProcessesOk, LockOwner, Listening

(* A command that has ended. *)
LEMMA Answered ==
    ASSUME ServiceTypes, CommandsOk, NEW c \in Cmd,
           cmd' = [cmd EXCEPT ![c] = Idle], starter' = IF starter = c THEN "none" ELSE starter
    PROVE  /\ cmd' \in [Cmd -> Command] /\ cmd'[c] = Idle
           /\ \A d \in Cmd : d # c => cmd'[d] = cmd[d]
           /\ starter' \in Cmd \cup {"none"}
           /\ \A d \in Cmd : cmd'[d].pc \in StartPcs <=> starter' = d
BY IdleCommand, ManagerAssumption DEF ServiceTypes, CommandsOk, CommandOk, StartPcs

(* A command keeps its job as long as it runs. *)
LEMMA JobsKept ==
    ASSUME CommandsOk, sgh'.alone = sgh.alone,
           \A d \in Cmd : cmd'[d].job = cmd[d].job \/ cmd'[d].job = "none"
    PROVE  OneUpdates' /\ AloneIs'
BY DEF CommandsOk, OneUpdates, AloneIs

LEMMA FailedIsState ==
    ASSUME NEW s \in State, s.enabled
    PROVE  LET t == [Failed(s) EXCEPT !.there = TRUE]
           IN  /\ t \in State /\ t.there /\ t.enabled /\ t.pid = s.pid /\ t.fails = s.fails + 1
               /\ t.recent
<1> DEFINE f == [s EXCEPT !.fails = s.fails + 1]
           g == [f EXCEPT !.recent = TRUE]
<1>1. f \in State /\ f.enabled /\ f.pid = s.pid /\ f.fails = s.fails + 1
  BY DEF State
<1> HIDE DEF f
<1>2. g \in State /\ g.enabled /\ g.pid = s.pid /\ g.fails = s.fails + 1 /\ g.recent
  BY <1>1 DEF State
<1>3. Failed(s) = g
  BY DEF Failed, f
<1> HIDE DEF g
<1>4. LET t == [g EXCEPT !.there = TRUE]
      IN  /\ t \in State /\ t.there /\ t.enabled /\ t.pid = s.pid /\ t.fails = s.fails + 1
          /\ t.recent
  BY <1>2 DEF State
<1> QED BY <1>3, <1>4

(* The first of the processes becomes the service. *)
LEMMA TakesLockKeeps ==
    ASSUME ServiceInv, NEW p \in Pid, TakesLock(p), LockOwner = {}
    PROVE  ServiceInv'
<1> USE DEF ServiceInv
<1>1. /\ proc[p].s = "boot" /\ LockOwner = {} /\ UNCHANGED <<unit, starter, disk, cmd, spentCmd>>
      /\ proc' = [proc EXCEPT ![p].s = "locked"]
      /\ st' = [there |-> TRUE, enabled |-> TRUE, pid |-> p, fails |-> 0, recent |-> FALSE]
      /\ sgh' = [sgh EXCEPT !.lost = @ \/ \E c \in Cmd : At(c, "killChild"),
                            !.tries = IF p = unit.main THEN 0 ELSE @]
  BY DEF TakesLock
<1>2. /\ proc' \in [Pid -> Process] /\ proc'[p].s = "locked"
      /\ \A q \in Pid : q # p => proc'[q] = proc[q]
  BY <1>1 DEF ServiceTypes, Process
<1>3. /\ st' \in State /\ st'.there /\ st'.enabled /\ st'.pid = p
  BY <1>1 DEF State
<1>4. /\ sgh' \in SGhost /\ sgh'.word = sgh.word /\ sgh'.alone = sgh.alone
      /\ sgh'.tries = (IF p = unit.main THEN 0 ELSE sgh.tries)
      /\ sgh'.lost <=> sgh.lost \/ \E c \in Cmd : cmd[c].pc = "killChild"
  BY <1>1 DEF ServiceTypes, SGhost, At
<1>5. ServiceTypes'
  BY <1>1, <1>2, <1>3, <1>4 DEF ServiceTypes
<1>6. CommandsOk'
  BY <1>1, <1>2, <1>3, <1>4 DEF CommandsOk, CommandOk, OneUpdates, AloneIs, Fits, StartPcs, WithChild, Copying
<1>7. ProcessesOk'
  BY <1>1, <1>2, <1>3, <1>4 DEF ProcessesOk, IsUp, UpStates, LockOwner
<1>8. OffOk'
  BY <1>1, <1>2, <1>3, <1>4 DEF OffOk, UpStates
<1>9. OnOk'
  BY <1>1, <1>2, <1>3, <1>4 DEF OnOk
<1>10. ASSUME ~sgh'.lost PROVE (EndingAlone /\ KnownOk /\ StopOk /\ TriesOk)'
  BY <1>10, <1>1, <1>2, <1>3, <1>4, ManagerAssumption DEF EndingAlone, Ending, KnownOk, IsUp,
         UpStates, LockOwner, Serving, Copying, WithChild, StartPcs, StopOk, TriesOk, Healthy
<1> QED BY <1>5, <1>6, <1>7, <1>8, <1>9, <1>10

LEMMA FindsLockKeeps ==
    ASSUME ServiceInv, NEW p \in Pid, TakesLock(p), LockOwner # {}
    PROVE  ServiceInv'
<1> USE DEF ServiceInv
<1>1. /\ proc[p].s = "boot" /\ UNCHANGED <<st, sgh, starter, disk, cmd, spentCmd>>
      /\ proc' = [proc EXCEPT ![p].s = "dead"]
      /\ unit' = IF unit.main = p /\ Healthy THEN [unit EXCEPT !.active = FALSE, !.main = NoPid] ELSE unit
  BY DEF TakesLock
<1>2. /\ proc' \in [Pid -> Process] /\ proc'[p].s = "dead"
      /\ \A q \in Pid : q # p => proc'[q] = proc[q]
  BY <1>1 DEF ServiceTypes, Process
<1>3. /\ unit' \in Units
      /\ unit' = unit \/ (unit.main = p /\ unit'.main = NoPid /\ ~unit'.active)
  BY <1>1 DEF ServiceTypes, Units
<1>4. ServiceTypes'
  BY <1>1, <1>2, <1>3 DEF ServiceTypes
<1>5. CommandsOk'
  BY <1>1, <1>2, <1>3 DEF CommandsOk, CommandOk, OneUpdates, AloneIs, Fits, StartPcs, WithChild, Copying
<1>6. ProcessesOk'
  BY <1>1, <1>2, <1>3, ManagerAssumption DEF ProcessesOk, IsUp, UpStates, LockOwner
<1>7. OffOk'
  BY <1>1, <1>2, <1>3 DEF OffOk, UpStates
<1>8. OnOk'
  BY <1>1, <1>2, <1>3 DEF OnOk
<1>9. ASSUME ~sgh'.lost PROVE (EndingAlone /\ KnownOk /\ StopOk /\ TriesOk)'
  BY <1>9, <1>1, <1>2, <1>3, ManagerAssumption DEF EndingAlone, Ending, KnownOk, IsUp, UpStates,
         LockOwner, Serving, Copying, WithChild, StartPcs, StopOk, TriesOk, Healthy
<1> QED BY <1>4, <1>5, <1>6, <1>7, <1>8, <1>9

LEMMA ServesKeeps ==
    ASSUME ServiceInv, NEW p \in Pid, Serves(p)
    PROVE  ServiceInv'
<1> USE DEF ServiceInv
<1>1. /\ proc[p].s = "locked" /\ UNCHANGED <<st, unit, starter, disk, cmd, spentCmd>>
      /\ proc' = [proc EXCEPT ![p].s = "serving"] /\ sgh' = [sgh EXCEPT !.tries = 0]
  BY DEF Serves, Ghost
<1>2. /\ proc' \in [Pid -> Process] /\ proc'[p].s = "serving"
      /\ \A q \in Pid : q # p => proc'[q] = proc[q]
  BY <1>1 DEF ServiceTypes, Process
<1>3. /\ sgh' \in SGhost /\ sgh'.word = sgh.word /\ sgh'.alone = sgh.alone
      /\ sgh'.tries = 0 /\ sgh'.lost = sgh.lost
  BY <1>1 DEF ServiceTypes, SGhost
<1>4. ServiceTypes'
  BY <1>1, <1>2, <1>3 DEF ServiceTypes
<1>5. CommandsOk'
  BY <1>1, <1>2, <1>3 DEF CommandsOk, CommandOk, OneUpdates, AloneIs, Fits, StartPcs, WithChild, Copying
<1>6. ProcessesOk'
  BY <1>1, <1>2, <1>3 DEF ProcessesOk, IsUp, UpStates, LockOwner
<1>7. OffOk'
  BY <1>1, <1>2, <1>3 DEF OffOk, UpStates
<1>8. OnOk'
  BY <1>1, <1>2, <1>3 DEF OnOk
<1>9. ASSUME ~sgh'.lost PROVE (EndingAlone /\ KnownOk /\ StopOk /\ TriesOk)'
  BY <1>9, <1>1, <1>2, <1>3, ManagerAssumption DEF EndingAlone, Ending, KnownOk, IsUp, UpStates,
         LockOwner, Serving, Copying, WithChild, StartPcs, StopOk, TriesOk, Healthy
<1> QED BY <1>4, <1>5, <1>6, <1>7, <1>8, <1>9

LEMMA EndsKeeps ==
    ASSUME ServiceInv, NEW p \in Pid, Ends(p)
    PROVE  ServiceInv'
<1> USE DEF ServiceInv
<1>1. /\ proc[p].s = "ending" /\ UNCHANGED <<sgh, unit, starter, disk, cmd, spentCmd>>
      /\ proc' = [proc EXCEPT ![p].s = "dead"]
      /\ st' = st \/ (st.there /\ st.pid = p /\ st' = [[st EXCEPT !.pid = NoPid] EXCEPT !.there = TRUE])
  BY DEF Ends, Kept, Write
<1>2. /\ proc' \in [Pid -> Process] /\ proc'[p].s = "dead"
      /\ \A q \in Pid : q # p => proc'[q] = proc[q]
  BY <1>1 DEF ServiceTypes, Process
<1>3. /\ st' \in State /\ st'.there = st.there /\ st'.enabled = st.enabled /\ st'.pid \in {st.pid, NoPid}
      /\ st'.fails = st.fails /\ st'.recent = st.recent
  BY <1>1 DEF ServiceTypes, State
<1>4. ServiceTypes'
  BY <1>1, <1>2, <1>3 DEF ServiceTypes
<1>5. CommandsOk'
  BY <1>1, <1>2, <1>3 DEF CommandsOk, CommandOk, OneUpdates, AloneIs, Fits, StartPcs, WithChild, Copying
<1>6. ProcessesOk'
  BY <1>1, <1>2, <1>3 DEF ProcessesOk, IsUp, UpStates, LockOwner
<1>7. OffOk'
  BY <1>1, <1>2, <1>3 DEF OffOk, UpStates
<1>8. OnOk'
  BY <1>1, <1>2, <1>3 DEF OnOk
<1>9. ASSUME ~sgh'.lost PROVE (EndingAlone /\ KnownOk /\ StopOk /\ TriesOk)'
  BY <1>9, <1>1, <1>2, <1>3, ManagerAssumption DEF EndingAlone, Ending, KnownOk, IsUp, UpStates,
         LockOwner, Serving, Copying, WithChild, StartPcs, StopOk, TriesOk, Healthy
<1> QED BY <1>4, <1>5, <1>6, <1>7, <1>8, <1>9

LEMMA DiesKeeps ==
    ASSUME ServiceInv, NEW p \in Pid, Dies(p)
    PROVE  ServiceInv'
<1> USE DEF ServiceInv
<1>1. /\ proc[p].s \in {"boot", "locked", "serving"} /\ UNCHANGED <<st, unit, starter, disk, cmd, spentCmd>>
      /\ proc' = Signalled(p) \/ proc' = [proc EXCEPT ![p].s = "dead"]
      /\ sgh' = [sgh EXCEPT !.deaths = 1]
  BY DEF Dies, Ghost
<1>2. /\ proc' \in [Pid -> Process] /\ proc'[p].s \in {"ending", "dead"}
      /\ proc[p].s = "boot" => proc'[p].s = "dead"
      /\ \A q \in Pid : q # p => proc'[q] = proc[q]
  BY <1>1 DEF ServiceTypes, Process, Signalled
<1>3. /\ sgh' \in SGhost /\ sgh'.word = sgh.word /\ sgh'.alone = sgh.alone
      /\ sgh'.tries = sgh.tries /\ sgh'.lost = sgh.lost
  BY <1>1 DEF ServiceTypes, SGhost
<1>4. ServiceTypes'
  BY <1>1, <1>2, <1>3 DEF ServiceTypes
<1>5. CommandsOk'
  BY <1>1, <1>2, <1>3 DEF CommandsOk, CommandOk, OneUpdates, AloneIs, Fits, StartPcs, WithChild, Copying
<1>6. ProcessesOk'
  BY <1>1, <1>2, <1>3 DEF ProcessesOk, IsUp, UpStates, LockOwner
<1>7. OffOk'
  BY <1>1, <1>2, <1>3 DEF OffOk, UpStates
<1>8. OnOk'
  BY <1>1, <1>2, <1>3 DEF OnOk
<1>9. ASSUME ~sgh'.lost PROVE (EndingAlone /\ KnownOk /\ StopOk /\ TriesOk)'
  BY <1>9, <1>1, <1>2, <1>3, ManagerAssumption DEF EndingAlone, Ending, KnownOk, IsUp, UpStates,
         LockOwner, Serving, Copying, WithChild, StartPcs, StopOk, TriesOk, Healthy
<1> QED BY <1>4, <1>5, <1>6, <1>7, <1>8, <1>9

LEMMA SupervisorKeeps ==
    ASSUME ServiceInv, SupervisorRestarts
    PROVE  ServiceInv'
<1> USE DEF ServiceInv
<1>1. PICK p \in Fresh : /\ proc' = [proc EXCEPT ![p] = Spawned] /\ unit' = [unit EXCEPT !.main = p]
                         /\ unit.active /\ unit.main # NoPid /\ ~Alive(unit.main)
                         /\ UNCHANGED <<st, starter, disk, cmd, spentCmd, sgh>>
  BY DEF SupervisorRestarts, Kept
<1>2. /\ p \in Pid /\ proc[p].s = "none" /\ proc' \in [Pid -> Process] /\ proc'[p].s = "boot"
      /\ \A q \in Pid : q # p => proc'[q] = proc[q]
  BY <1>1 DEF ServiceTypes, Process, Spawned, Fresh
<1>3. /\ unit' \in Units /\ unit'.main = p /\ unit'.active /\ unit.active
      /\ ~IsUp(unit.main)
  BY <1>1, <1>2 DEF ServiceTypes, Units, Alive, IsUp, UpStates
<1>4. ServiceTypes'
  BY <1>1, <1>2, <1>3 DEF ServiceTypes
<1>5. CommandsOk'
  BY <1>1, <1>2, <1>3 DEF CommandsOk, CommandOk, OneUpdates, AloneIs, Fits, StartPcs, WithChild, Copying
<1>6. ProcessesOk'
  BY <1>1, <1>2, <1>3 DEF ProcessesOk, IsUp, UpStates, LockOwner
<1>7. OffOk'
  BY <1>1, <1>2, <1>3 DEF OffOk, UpStates
<1>8. OnOk'
  BY <1>1, <1>2, <1>3 DEF OnOk
<1>9. ASSUME ~sgh'.lost PROVE (EndingAlone /\ KnownOk /\ StopOk /\ TriesOk)'
  BY <1>9, <1>1, <1>2, <1>3, ManagerAssumption DEF EndingAlone, Ending, KnownOk, IsUp, UpStates,
         LockOwner, Serving, Copying, WithChild, StartPcs, StopOk, TriesOk, Healthy
<1> QED BY <1>4, <1>5, <1>6, <1>7, <1>8, <1>9

LEMMA WindowKeeps ==
    ASSUME ServiceInv, WindowPasses
    PROVE  ServiceInv'
<1> USE DEF ServiceInv
<1>1. /\ \A c \in Cmd : cmd[c].pc = "idle"
      /\ st' = [st EXCEPT !.recent = FALSE] /\ sgh' = [sgh EXCEPT !.tries = 0]
      /\ UNCHANGED <<proc, unit, starter, disk, cmd, spentCmd>>
  BY IdleCommand DEF WindowPasses, Ghost
<1>2. /\ st' \in State /\ st'.there = st.there /\ st'.enabled = st.enabled /\ st'.pid = st.pid
      /\ sgh' \in SGhost /\ sgh'.word = sgh.word /\ sgh'.alone = sgh.alone
      /\ sgh'.tries = 0 /\ sgh'.lost = sgh.lost
  BY <1>1 DEF ServiceTypes, SGhost, State
<1>3. ServiceTypes'
  BY <1>1, <1>2 DEF ServiceTypes
<1>4. CommandsOk'
  BY <1>1, <1>2 DEF CommandsOk, CommandOk, OneUpdates, AloneIs, Fits, StartPcs, WithChild, Copying
<1>5. ProcessesOk'
  BY <1>1, <1>2 DEF ProcessesOk, IsUp, UpStates, LockOwner
<1>6. OffOk'
  BY <1>1, <1>2 DEF OffOk, UpStates
<1>7. OnOk'
  BY <1>1, <1>2 DEF OnOk
<1>8. ASSUME ~sgh'.lost PROVE (EndingAlone /\ KnownOk /\ StopOk /\ TriesOk)'
  BY <1>8, <1>1, <1>2, ManagerAssumption DEF EndingAlone, Ending, KnownOk, IsUp, UpStates,
         LockOwner, Serving, Copying, WithChild, StartPcs, StopOk, TriesOk, Healthy
<1> QED BY <1>3, <1>4, <1>5, <1>6, <1>7, <1>8

(* A command begins, alone or beside others. *)
LEMMA BeginKeeps ==
    ASSUME ServiceInv, NEW c \in Cmd, NEW job \in Job, Begin(c, job)
    PROVE  ServiceInv'
<1> USE DEF ServiceInv
<1>1. /\ cmd[c] = Idle /\ UNCHANGED <<st, proc, unit, starter>> /\ spentCmd' = spentCmd + 1
      /\ job = "update" => \A d \in Cmd : cmd[d].job # "update"
      /\ disk' = IF job = "update" THEN "new" ELSE disk
      /\ sgh' = [sgh EXCEPT !.word = IF job = "update" /\ Others(c) = {} THEN @ ELSE "none",
                            !.alone = IF Others(c) = {} THEN {c} ELSE {},
                            !.lost = @ \/ \E d \in Others(c) : {job, cmd[d].job} \cap Ending # {},
                            !.tries = IF job \in {"on", "off", "enable"} THEN 0 ELSE @]
  BY DEF Begin
<1>2. PICK pc \in {"lock", "unit", "look", "migrate"} :
         /\ cmd' = [cmd EXCEPT ![c] = [Idle EXCEPT !.job = job, !.pc = pc]]
         /\ Fits(job, pc)
         /\ job = "update" => pc = "look"
  BY DEF Begin, Job, Fits, StartPcs
<1>3. /\ cmd' \in [Cmd -> Command] /\ cmd'[c].pc = pc /\ cmd'[c].job = job
      /\ \A d \in Cmd : d # c => cmd'[d] = cmd[d]
  BY <1>2, IdleCommand DEF ServiceTypes, Command, CmdPcs
<1>4. /\ sgh' \in SGhost
      /\ sgh'.word = (IF job = "update" /\ Others(c) = {} THEN sgh.word ELSE "none")
      /\ sgh'.alone = (IF Others(c) = {} THEN {c} ELSE {})
      /\ sgh'.tries = IF job \in {"on", "off", "enable"} THEN 0 ELSE sgh.tries
  BY <1>1 DEF ServiceTypes, SGhost
<1>5. sgh'.lost <=> sgh.lost \/ \E d \in Others(c) : {job, cmd[d].job} \cap Ending # {}
  BY <1>1 DEF ServiceTypes, SGhost
<1>6. \A d \in Cmd : d # c /\ d \notin Others(c) => cmd[d].job = "none"
  BY DEF Others
<1>7. ~sgh'.lost => \A d \in Cmd : d # c => cmd[d].job = "none" \/ {job, cmd[d].job} \cap Ending = {}
  BY <1>5, <1>6
<1>8. ServiceTypes'
  BY <1>1, <1>2, <1>3, <1>4, <1>5, <1>6, <1>7, IdleCommand DEF ServiceTypes
<1>9. CommandsOk'
  BY <1>1, <1>2, <1>3, <1>4, <1>5, <1>6, <1>7, IdleCommand, ManagerAssumption DEF CommandsOk,
         CommandOk, Others, Fits, StartPcs, WithChild, Copying, OneUpdates, AloneIs
<1>10. ProcessesOk'
  BY <1>1, <1>2, <1>3, <1>4, <1>5, <1>6, <1>7 DEF ProcessesOk, IsUp, UpStates, LockOwner
<1>11. OffOk'
  BY <1>1, <1>2, <1>3, <1>4, <1>5, <1>6, <1>7, IdleCommand DEF OffOk, UpStates, Fits
<1>12. OnOk'
  BY <1>1, <1>2, <1>3, <1>4, <1>5, <1>6, <1>7, IdleCommand DEF OnOk, Fits
<1>13. ASSUME ~sgh'.lost PROVE (EndingAlone /\ KnownOk /\ StopOk /\ TriesOk)'
  <2>1. ~sgh.lost
    BY <1>13, <1>1, <1>2, <1>3, <1>4, <1>5, <1>6, <1>7
  <2>2. EndingAlone'
    BY <1>1, <1>2, <1>3, <1>4, <1>5, <1>6, <1>7, <1>13, <2>1, IdleCommand DEF EndingAlone, Ending
  <2>3. KnownOk'
    BY <1>1, <1>2, <1>3, <1>4, <1>5, <1>6, <1>7, <1>13, <2>1, IdleCommand DEF KnownOk, IsUp, UpStates, LockOwner, Serving, Copying, WithChild, StartPcs
  <2>4. StopOk'
    BY <1>1, <1>2, <1>3, <1>4, <1>5, <1>6, <1>7, <1>13, <2>1, IdleCommand DEF StopOk, UpStates, EndingAlone, Ending
  <2>5. TriesOk'
    BY <1>1, <1>2, <1>3, <1>4, <1>5, <1>6, <1>7, <1>13, <2>1, IdleCommand, ManagerAssumption DEF TriesOk, Copying, StartPcs, Healthy, Serving
  <2> QED BY <2>2, <2>3, <2>4, <2>5
<1> QED BY <1>8, <1>9, <1>10, <1>11, <1>12, <1>13

LEMMA StartLockKeeps ==
    ASSUME ServiceInv, NEW c \in Cmd, StartLock(c)
    PROVE  ServiceInv'
<1> USE DEF ServiceInv
<1>1. /\ cmd[c].pc = "lock" /\ UNCHANGED <<st, proc, unit, disk, sgh, spentCmd>>
      /\ \/ starter = "none" /\ starter' = c /\ cmd' = [cmd EXCEPT ![c].pc = "check"]
         \/ cmd' = [cmd EXCEPT ![c] = Idle] /\ starter' = IF starter = c THEN "none" ELSE starter
  BY DEF StartLock, At, Go, Answer
<1>2. /\ cmd' \in [Cmd -> Command] /\ starter' \in Cmd \cup {"none"}
      /\ \A d \in Cmd : d # c => cmd'[d] = cmd[d]
      /\ \A d \in Cmd : cmd'[d].pc \in StartPcs <=> starter' = d
      /\ \/ cmd'[c] = Idle
         \/ /\ cmd'[c].pc = "check" /\ cmd'[c].job = cmd[c].job /\ cmd'[c].copy = cmd[c].copy
            /\ cmd'[c].pid = cmd[c].pid
  BY ManagerAssumption, Answered, <1>1 DEF ServiceTypes, Command, CmdPcs, StartPcs, CommandsOk,
         CommandOk
<1>3. cmd[c].job \in {"on", "update"}
  BY <1>1 DEF CommandsOk, CommandOk, Fits, StartPcs
<1>4. ServiceTypes'
  BY <1>1, <1>2, <1>3, IdleCommand DEF ServiceTypes
<1>5. CommandsOk'
  BY <1>1, <1>2, <1>3, IdleCommand, JobsKept DEF CommandsOk, CommandOk, Fits, StartPcs, WithChild,
         Copying
<1>6. ProcessesOk'
  BY <1>1, <1>2, <1>3 DEF ProcessesOk, IsUp, UpStates, LockOwner
<1>7. OffOk'
  BY <1>1, <1>2, <1>3, IdleCommand DEF OffOk, UpStates
<1>8. OnOk'
  BY <1>1, <1>2, <1>3, IdleCommand DEF OnOk
<1>9. ASSUME ~sgh'.lost PROVE (EndingAlone /\ KnownOk /\ StopOk /\ TriesOk)'
  BY <1>9, <1>1, <1>2, <1>3, IdleCommand, ManagerAssumption DEF EndingAlone, Ending, KnownOk,
         IsUp, UpStates, LockOwner, Serving, Copying, WithChild, StartPcs, StopOk, TriesOk,
         Healthy
<1> QED BY <1>4, <1>5, <1>6, <1>7, <1>8, <1>9

(* A start that is over: an update goes on to look at the version.          *)
LEMMA AfterStarted ==
    ASSUME ServiceTypes, CommandsOk, NEW c \in Cmd, cmd[c].pc \in StartPcs,
           \/ /\ cmd[c].job = "update" /\ starter' = "none"
              /\ cmd' = [cmd EXCEPT ![c] = [Idle EXCEPT !.job = cmd[c].job, !.pc = "verify", !.second = cmd[c].second]]
           \/ /\ cmd' = [cmd EXCEPT ![c] = Idle] /\ starter' = IF starter = c THEN "none" ELSE starter
    PROVE  /\ cmd' \in [Cmd -> Command] /\ starter' \in Cmd \cup {"none"}
           /\ \A d \in Cmd : d # c => cmd'[d] = cmd[d]
           /\ \A d \in Cmd : cmd'[d].pc \in StartPcs <=> starter' = d
           /\ \/ cmd'[c] = Idle
              \/ cmd'[c].pc = "verify" /\ cmd'[c].job = "update" /\ cmd[c].job = "update"
<1>1. CASE /\ cmd[c].job = "update" /\ starter' = "none"
           /\ cmd' = [cmd EXCEPT ![c] = [Idle EXCEPT !.job = cmd[c].job, !.pc = "verify", !.second = cmd[c].second]]
  BY <1>1, IdleCommand, ManagerAssumption DEF ServiceTypes, Command, CmdPcs, CommandsOk,
         CommandOk, StartPcs
<1>2. CASE cmd' = [cmd EXCEPT ![c] = Idle] /\ starter' = IF starter = c THEN "none" ELSE starter
  BY <1>2, Answered
<1> QED BY <1>1, <1>2

(* Who answers on the port is recorded. *)
LEMMA CheckFoundKeeps ==
    ASSUME ServiceInv, NEW c \in Cmd, CheckFirst(c), Healthy
    PROVE  ServiceInv'
<1> USE DEF ServiceInv
<1>1. /\ cmd[c].pc = "check" /\ UNCHANGED <<proc, unit, disk, spentCmd>>
      /\ sgh' = [sgh EXCEPT !.word = IF cmd[c].job = "on" /\ c \in sgh.alone THEN "on" ELSE @,
                            !.tries = IF Healthy THEN 0 ELSE @]
      /\ \/ Running(st) /\ st' = [Cleared(st) EXCEPT !.there = TRUE]
         \/ st' = [there |-> TRUE, enabled |-> TRUE, pid |-> Listening, fails |-> 0, recent |-> FALSE]
      /\ \/ /\ cmd[c].job = "update" /\ starter' = "none"
            /\ cmd' = [cmd EXCEPT ![c] = [Idle EXCEPT !.job = cmd[c].job, !.pc = "verify", !.second = cmd[c].second]]
         \/ cmd' = [cmd EXCEPT ![c] = Idle] /\ starter' = IF starter = c THEN "none" ELSE starter
  BY DEF CheckFirst, At, Write, AfterStart, Settle, Answer
<1>2. /\ sgh' \in SGhost /\ sgh'.alone = sgh.alone /\ sgh'.lost = sgh.lost
      /\ sgh'.word = (IF cmd[c].job = "on" /\ c \in sgh.alone THEN "on" ELSE sgh.word)
      /\ sgh'.tries = IF Healthy THEN 0 ELSE sgh.tries
  BY <1>1 DEF ServiceTypes, SGhost
<1>3. /\ cmd' \in [Cmd -> Command] /\ starter' \in Cmd \cup {"none"}
      /\ \A d \in Cmd : d # c => cmd'[d] = cmd[d]
      /\ \A d \in Cmd : cmd'[d].pc \in StartPcs <=> starter' = d
      /\ \/ cmd'[c] = Idle
         \/ cmd'[c].pc = "verify" /\ cmd'[c].job = "update" /\ cmd[c].job = "update"
  BY <1>1, AfterStarted DEF StartPcs
<1>4. /\ Listening \in Pid /\ proc[Listening].s = "serving"
      /\ \A p \in Pid : proc[p].s \in {"locked", "serving"} => p = Listening
  BY OneListens DEF Serving, ProcessesOk, LockOwner
<1>5. /\ st' \in State /\ st'.there /\ st'.enabled
      /\ st'.pid = st.pid \/ st'.pid = Listening
  <2>1. CASE Running(st) /\ st' = [Cleared(st) EXCEPT !.there = TRUE]
    BY <2>1 DEF Running, Cleared, ServiceTypes, State
  <2>2. CASE st' = [there |-> TRUE, enabled |-> TRUE, pid |-> Listening, fails |-> 0, recent |-> FALSE]
    BY <1>4, <2>2 DEF State
  <2> QED BY <1>1, <2>1, <2>2
<1>6. cmd[c].job \in {"on", "update"}
  BY <1>1 DEF CommandsOk, CommandOk, Fits, StartPcs
<1>7. ServiceTypes'
  BY <1>1, <1>2, <1>3, <1>4, <1>5, <1>6, IdleCommand DEF ServiceTypes
<1>8. CommandsOk'
  BY <1>1, <1>2, <1>3, <1>4, <1>5, <1>6, IdleCommand, JobsKept DEF CommandsOk, CommandOk, Fits,
         StartPcs, WithChild, Copying
<1>9. ProcessesOk'
  BY <1>1, <1>2, <1>3, <1>4, <1>5, <1>6 DEF ProcessesOk, IsUp, UpStates, LockOwner
<1>10. OffOk'
  BY <1>1, <1>2, <1>3, <1>4, <1>5, <1>6, IdleCommand DEF OffOk, UpStates
<1>11. OnOk'
  BY <1>1, <1>2, <1>3, <1>4, <1>5, <1>6, IdleCommand DEF OnOk, CommandsOk, CommandOk, AloneIs, Fits
<1>12. ASSUME ~sgh'.lost PROVE (EndingAlone /\ KnownOk /\ StopOk /\ TriesOk)'
  BY <1>12, <1>1, <1>2, <1>3, <1>4, <1>5, <1>6, IdleCommand, ManagerAssumption DEF EndingAlone,
         Ending, KnownOk, IsUp, UpStates, LockOwner, Serving, Copying, WithChild, StartPcs,
         StopOk, TriesOk, Healthy
<1> QED BY <1>7, <1>8, <1>9, <1>10, <1>11, <1>12

(* The intent is written before anything is started. *)
LEMMA CheckNoneKeeps ==
    ASSUME ServiceInv, NEW c \in Cmd, CheckFirst(c), ~Healthy
    PROVE  ServiceInv'
<1> USE DEF ServiceInv
<1>1. /\ cmd[c].pc = "check" /\ UNCHANGED <<proc, unit, disk, spentCmd>>
      /\ sgh' = [sgh EXCEPT !.word = IF cmd[c].job = "on" /\ c \in sgh.alone THEN "on" ELSE @,
                            !.tries = IF Healthy THEN 0 ELSE @]
      /\ UNCHANGED starter
      /\ st' = [[st EXCEPT !.enabled = TRUE] EXCEPT !.there = TRUE]
      /\ cmd' = [cmd EXCEPT ![c].pc = "port", ![c].copy = [st EXCEPT !.enabled = TRUE]]
  BY DEF CheckFirst, At, Write, Keep, Running
<1>2. /\ sgh' \in SGhost /\ sgh'.alone = sgh.alone /\ sgh'.lost = sgh.lost
      /\ sgh'.word = (IF cmd[c].job = "on" /\ c \in sgh.alone THEN "on" ELSE sgh.word)
      /\ sgh'.tries = IF Healthy THEN 0 ELSE sgh.tries
  BY <1>1 DEF ServiceTypes, SGhost
<1>3. /\ st' \in State /\ st'.there /\ st'.enabled /\ st'.pid = st.pid /\ st'.fails = st.fails
      /\ st'.recent = st.recent
  BY <1>1 DEF ServiceTypes, State
<1>4. /\ [st EXCEPT !.enabled = TRUE] \in State /\ [st EXCEPT !.enabled = TRUE].enabled
      /\ [st EXCEPT !.enabled = TRUE].fails = st.fails /\ [st EXCEPT !.enabled = TRUE].recent = st.recent
  BY DEF ServiceTypes, State
<1>5. /\ cmd' \in [Cmd -> Command] /\ cmd'[c].pc = "port" /\ cmd'[c].job = cmd[c].job /\ cmd'[c].pid = cmd[c].pid
      /\ cmd'[c].copy.enabled /\ cmd'[c].copy.fails = st.fails /\ cmd'[c].copy.recent = st.recent
      /\ \A d \in Cmd : d # c => cmd'[d] = cmd[d]
  <2> DEFINE s == [st EXCEPT !.enabled = TRUE]
  <2>1. s \in State /\ s.enabled /\ s.fails = st.fails /\ s.recent = st.recent /\ cmd' = [cmd EXCEPT ![c].pc = "port", ![c].copy = s]
    BY <1>1, <1>4
  <2> HIDE DEF s
  <2> QED BY ZenonT(60), <2>1 DEF ServiceTypes, Command, CmdPcs, StartPcs
<1>6. \A d \in Cmd : d # c => cmd[d].pc \notin StartPcs
  BY <1>1 DEF CommandsOk, CommandOk, StartPcs
<1>7. ~sgh.lost => \A p \in Pid : IsUp(p) => p = unit.main
  BY <1>1, <1>6 DEF KnownOk, IsUp, Healthy, Serving, WithChild, StartPcs
<1>8. cmd[c].job \in {"on", "update"}
  BY <1>1 DEF CommandsOk, CommandOk, Fits, StartPcs
<1>9. ServiceTypes'
  BY <1>1, <1>2, <1>3, <1>4, <1>5, <1>6, <1>7, <1>8 DEF ServiceTypes
<1>10. CommandsOk'
  BY <1>1, <1>2, <1>3, <1>4, <1>5, <1>6, <1>7, <1>8, JobsKept DEF CommandsOk, CommandOk, Fits,
         StartPcs, WithChild, Copying
<1>11. ProcessesOk'
  BY <1>1, <1>2, <1>3, <1>4, <1>5, <1>6, <1>7, <1>8 DEF ProcessesOk, IsUp, UpStates, LockOwner
<1>12. OffOk'
  BY <1>1, <1>2, <1>3, <1>4, <1>5, <1>6, <1>7, <1>8 DEF OffOk, UpStates
<1>13. OnOk'
  BY <1>1, <1>2, <1>3, <1>4, <1>5, <1>6, <1>7, <1>8 DEF OnOk, CommandsOk, CommandOk, AloneIs, Fits
<1>14. ASSUME ~sgh'.lost PROVE (EndingAlone /\ KnownOk /\ StopOk /\ TriesOk)'
  BY <1>14, <1>1, <1>2, <1>3, <1>4, <1>5, <1>6, <1>7, <1>8, ManagerAssumption DEF EndingAlone,
         Ending, KnownOk, IsUp, UpStates, LockOwner, Serving, Copying, WithChild, StartPcs,
         StopOk, TriesOk, Healthy
<1> QED BY <1>9, <1>10, <1>11, <1>12, <1>13, <1>14

(* A start that fails is counted on the copy made when it began. *)
LEMMA SpawnFailsKeeps ==
    ASSUME ServiceInv, NEW c \in Cmd, cmd[c].pc = "port", StartFails(c, cmd[c].copy), Answer(c, FALSE),
           UNCHANGED <<proc, unit, disk, spentCmd>>
    PROVE  ServiceInv'
<1> USE DEF ServiceInv
<1>1. /\ cmd[c].pc = "port" /\ UNCHANGED <<proc, unit, disk, spentCmd>>
      /\ st' = [Failed(cmd[c].copy) EXCEPT !.there = TRUE]
      /\ cmd' = [cmd EXCEPT ![c] = Idle] /\ starter' = (IF starter = c THEN "none" ELSE starter)
      /\ sgh' = [sgh EXCEPT !.tries = IF cmd[c].job = "update" /\ c \in sgh.alone THEN @ + 1 ELSE @]
  BY DEF StartFails, Write, Answer
<1>2. /\ cmd[c].job \in {"on", "update"}
      /\ \A d \in Cmd : d # c => cmd[d].pc \notin StartPcs
  BY <1>1 DEF CommandsOk, CommandOk, Fits, StartPcs
<1>3. /\ cmd' \in [Cmd -> Command] /\ cmd'[c] = Idle
      /\ \A d \in Cmd : d # c => cmd'[d] = cmd[d]
      /\ starter' \in Cmd \cup {"none"}
      /\ \A d \in Cmd : cmd'[d].pc \in StartPcs <=> starter' = d
  BY <1>1, Answered
<1>4. /\ st' \in State /\ st'.there /\ st'.enabled /\ st'.pid = cmd[c].copy.pid /\ st'.fails = cmd[c].copy.fails + 1
      /\ st'.recent
  BY <1>1, FailedIsState DEF ServiceTypes, Command, CommandsOk, CommandOk, Copying
<1>5. /\ sgh' \in SGhost /\ sgh'.word = sgh.word /\ sgh'.alone = sgh.alone /\ sgh'.lost = sgh.lost
      /\ sgh'.tries = IF cmd[c].job = "update" /\ c \in sgh.alone THEN sgh.tries + 1 ELSE sgh.tries
  BY <1>1 DEF ServiceTypes, SGhost
<1>6. /\ cmd[c].copy.fails \in Nat /\ sgh.tries \in Nat
      /\ c \in sgh.alone => \A d \in Cmd : d # c => cmd[d].job = "none"
  BY <1>2 DEF ServiceTypes, Command, State, SGhost, CommandsOk, AloneIs
<1>7. ~sgh.lost => \A p \in Pid : IsUp(p) => p = unit.main
  BY <1>1, <1>2 DEF KnownOk, IsUp, Copying, WithChild, StartPcs
<1>8. c \in sgh.alone => \A d \in Cmd : cmd'[d].pc = "idle" /\ cmd'[d].job = "none"
  BY <1>3, <1>6, IdleCommand DEF CommandsOk, CommandOk
<1>9. ServiceTypes'
  BY <1>1, <1>2, <1>3, <1>4, <1>5, <1>6, <1>7, <1>8, IdleCommand DEF ServiceTypes
<1>10. CommandsOk'
  BY <1>1, <1>2, <1>3, <1>4, <1>5, <1>6, <1>7, <1>8, IdleCommand, JobsKept DEF CommandsOk,
         CommandOk, Fits, StartPcs, WithChild, Copying
<1>11. ProcessesOk'
  BY <1>1, <1>2, <1>3, <1>4, <1>5, <1>6, <1>7, <1>8 DEF ProcessesOk, IsUp, UpStates, LockOwner
<1>12. OffOk'
  BY <1>1, <1>2, <1>3, <1>4, <1>5, <1>6, <1>7, <1>8, IdleCommand DEF OffOk, UpStates
<1>13. OnOk'
  BY <1>1, <1>2, <1>3, <1>4, <1>5, <1>6, <1>7, <1>8, IdleCommand DEF OnOk, CommandsOk, CommandOk, AloneIs, Fits
<1>14. ASSUME ~sgh'.lost PROVE (EndingAlone /\ KnownOk /\ StopOk /\ TriesOk)'
  BY <1>14, <1>1, <1>2, <1>3, <1>4, <1>5, <1>6, <1>7, <1>8, IdleCommand, ManagerAssumption
     DEF EndingAlone, Ending, KnownOk, IsUp, UpStates, LockOwner, Serving, Copying, WithChild,
         StartPcs, StopOk, TriesOk, Healthy
<1> QED BY <1>9, <1>10, <1>11, <1>12, <1>13, <1>14

LEMMA SpawnKeeps ==
    ASSUME ServiceInv, NEW c \in Cmd, cmd[c].pc = "port", ~Healthy, NEW p \in Fresh, proc' = [proc EXCEPT ![p] = Spawned],
           cmd' = [cmd EXCEPT ![c].pc = "note", ![c].pid = p], UNCHANGED <<st, starter, sgh, unit, disk, spentCmd>>
    PROVE  ServiceInv'
<1> USE DEF ServiceInv
<1>1. /\ cmd[c].pc = "port" /\ ~Healthy /\ UNCHANGED <<st, starter, sgh, unit, disk, spentCmd>>
  OBVIOUS
<1>2. /\ cmd[c].job \in {"on", "update"}
      /\ \A d \in Cmd : d # c => cmd[d].pc \notin StartPcs
  BY <1>1 DEF CommandsOk, CommandOk, Fits, StartPcs
<1>3. /\ p \in Pid /\ proc[p].s = "none" /\ proc' \in [Pid -> Process] /\ proc'[p].s = "boot"
      /\ \A q \in Pid : q # p => proc'[q] = proc[q]
  BY DEF ServiceTypes, Process, Spawned, Fresh
<1>4. /\ cmd' \in [Cmd -> Command] /\ cmd'[c].pc = "note" /\ cmd'[c].job = cmd[c].job /\ cmd'[c].copy = cmd[c].copy
      /\ cmd'[c].pid = p /\ \A d \in Cmd : d # c => cmd'[d] = cmd[d]
  BY ZenonT(60), <1>3 DEF ServiceTypes, Command, CmdPcs, StartPcs
<1>5. ~sgh.lost => \A q \in Pid : IsUp(q) => q = unit.main
  BY <1>1, <1>2 DEF KnownOk, IsUp, Copying, WithChild, StartPcs
<1>6. ServiceTypes'
  BY <1>1, <1>2, <1>3, <1>4, <1>5 DEF ServiceTypes
<1>7. CommandsOk'
  BY <1>1, <1>2, <1>3, <1>4, <1>5, JobsKept DEF CommandsOk, CommandOk, Fits, StartPcs, WithChild,
         Copying
<1>8. ProcessesOk'
  BY <1>1, <1>2, <1>3, <1>4, <1>5 DEF ProcessesOk, IsUp, UpStates, LockOwner
<1>9. OffOk'
  BY <1>1, <1>2, <1>3, <1>4, <1>5 DEF OffOk, UpStates
<1>10. OnOk'
  BY <1>1, <1>2, <1>3, <1>4, <1>5 DEF OnOk
<1>11. ASSUME ~sgh'.lost PROVE (EndingAlone /\ KnownOk /\ StopOk /\ TriesOk)'
  BY <1>11, <1>1, <1>2, <1>3, <1>4, <1>5, ManagerAssumption DEF EndingAlone, Ending, KnownOk,
         IsUp, UpStates, LockOwner, Serving, Copying, WithChild, StartPcs, StopOk, TriesOk,
         Healthy
<1> QED BY <1>6, <1>7, <1>8, <1>9, <1>10, <1>11

LEMMA NotePidKeeps ==
    ASSUME ServiceInv, NEW c \in Cmd, NotePid(c)
    PROVE  ServiceInv'
<1> USE DEF ServiceInv
<1>1. /\ cmd[c].pc = "note" /\ UNCHANGED <<proc, unit, starter, disk, sgh, spentCmd>>
      /\ st' = [[cmd[c].copy EXCEPT !.pid = cmd[c].pid] EXCEPT !.there = TRUE]
      /\ cmd' = [cmd EXCEPT ![c].pc = "wait", ![c].copy = [cmd[c].copy EXCEPT !.pid = cmd[c].pid]]
  BY DEF NotePid, At, Write, Keep
<1>2. /\ cmd[c].job \in {"on", "update"}
      /\ \A d \in Cmd : d # c => cmd[d].pc \notin StartPcs
  BY <1>1 DEF CommandsOk, CommandOk, Fits, StartPcs
<1>3. /\ st' \in State /\ st'.there /\ st'.enabled /\ st'.pid = cmd[c].pid
      /\ cmd' \in [Cmd -> Command] /\ cmd'[c].pc = "wait" /\ cmd'[c].job = cmd[c].job
      /\ cmd'[c].pid = cmd[c].pid /\ cmd'[c].copy.enabled /\ cmd'[c].copy.pid = cmd[c].pid
      /\ cmd'[c].copy.fails = cmd[c].copy.fails /\ cmd'[c].copy.recent = cmd[c].copy.recent
      /\ \A d \in Cmd : d # c => cmd'[d] = cmd[d]
  <2> DEFINE s == [cmd[c].copy EXCEPT !.pid = cmd[c].pid]
  <2>1. cmd[c].copy \in State /\ cmd[c].copy.enabled /\ cmd[c].pid \in Pid
    BY <1>1 DEF ServiceTypes, Command, CommandsOk, CommandOk, Copying, WithChild
  <2>2. /\ s \in State /\ s.enabled /\ s.pid = cmd[c].pid /\ s.fails = cmd[c].copy.fails
        /\ s.recent = cmd[c].copy.recent
    BY <2>1 DEF State
  <2>3. st' = [s EXCEPT !.there = TRUE] /\ cmd' = [cmd EXCEPT ![c].pc = "wait", ![c].copy = s]
    BY <1>1
  <2> HIDE DEF s
  <2>4. st' \in State /\ st'.there /\ st'.enabled /\ st'.pid = s.pid
    BY <2>2, <2>3 DEF State
  <2>5. /\ cmd' \in [Cmd -> Command] /\ cmd'[c].pc = "wait" /\ cmd'[c].job = cmd[c].job
        /\ cmd'[c].pid = cmd[c].pid /\ cmd'[c].copy = s
        /\ \A d \in Cmd : d # c => cmd'[d] = cmd[d]
    BY ZenonT(60), <2>2, <2>3 DEF ServiceTypes, Command, CmdPcs, StartPcs
  <2> QED BY <2>2, <2>4, <2>5
<1>4. ~sgh.lost => \A p \in Pid : IsUp(p) => p \in {unit.main, cmd[c].pid}
  BY <1>1, <1>2 DEF KnownOk, IsUp, Copying, WithChild, StartPcs
<1>5. ServiceTypes'
  BY <1>1, <1>2, <1>3, <1>4 DEF ServiceTypes
<1>6. CommandsOk'
  BY <1>1, <1>2, <1>3, <1>4, JobsKept DEF CommandsOk, CommandOk, Fits, StartPcs, WithChild,
         Copying
<1>7. ProcessesOk'
  BY <1>1, <1>2, <1>3, <1>4 DEF ProcessesOk, IsUp, UpStates, LockOwner
<1>8. OffOk'
  BY <1>1, <1>2, <1>3, <1>4 DEF OffOk, UpStates
<1>9. OnOk'
  BY <1>1, <1>2, <1>3, <1>4 DEF OnOk
<1>10. ASSUME ~sgh'.lost PROVE (EndingAlone /\ KnownOk /\ StopOk /\ TriesOk)'
  <2>1. ~sgh.lost
    BY <1>10, <1>1, <1>2, <1>3, <1>4
  <2>2. EndingAlone'
    BY <1>1, <1>2, <1>3, <1>4, <1>10, <2>1 DEF EndingAlone, Ending
  <2>3. KnownOk'
    BY <1>1, <1>2, <1>3, <1>4, <1>10, <2>1 DEF KnownOk, IsUp, UpStates, LockOwner, Serving, Copying, WithChild, StartPcs
  <2>4. StopOk'
    BY <1>1, <1>2, <1>3, <1>4, <1>10, <2>1 DEF StopOk, UpStates, EndingAlone, Ending
  <2>5. TriesOk'
    BY <1>1, <1>2, <1>3, <1>4, <1>10, <2>1, ManagerAssumption DEF TriesOk, Copying, StartPcs, Healthy, Serving
  <2> QED BY <2>2, <2>3, <2>4, <2>5
<1> QED BY <1>5, <1>6, <1>7, <1>8, <1>9, <1>10

(* Anyone who answers on the port will do. *)
LEMMA ChildHealthyKeeps ==
    ASSUME ServiceInv, NEW c \in Cmd, ChildHealthy(c)
    PROVE  ServiceInv'
<1> USE DEF ServiceInv
<1>1. /\ cmd[c].pc = "wait" /\ Healthy /\ UNCHANGED <<proc, unit, disk, spentCmd>>
      /\ st' = [Cleared(cmd[c].copy) EXCEPT !.there = TRUE]
      /\ sgh' = [sgh EXCEPT !.tries = 0, !.lost = @ \/ Listening # cmd[c].pid]
      /\ \/ /\ cmd[c].job = "update" /\ starter' = "none"
            /\ cmd' = [cmd EXCEPT ![c] = [Idle EXCEPT !.job = cmd[c].job, !.pc = "verify", !.second = cmd[c].second]]
         \/ cmd' = [cmd EXCEPT ![c] = Idle] /\ starter' = IF starter = c THEN "none" ELSE starter
  BY DEF ChildHealthy, At, Write, AfterStart, Settle, Answer
<1>2. /\ cmd[c].job \in {"on", "update"}
      /\ \A d \in Cmd : d # c => cmd[d].pc \notin StartPcs
  BY <1>1 DEF CommandsOk, CommandOk, Fits, StartPcs
<1>3. /\ cmd' \in [Cmd -> Command] /\ starter' \in Cmd \cup {"none"}
      /\ \A d \in Cmd : d # c => cmd'[d] = cmd[d]
      /\ \A d \in Cmd : cmd'[d].pc \in StartPcs <=> starter' = d
      /\ \/ cmd'[c] = Idle
         \/ cmd'[c].pc = "verify" /\ cmd'[c].job = "update" /\ cmd[c].job = "update"
  BY <1>1, AfterStarted DEF StartPcs
<1>4. /\ st' \in State /\ st'.there /\ st'.enabled /\ st'.pid = cmd[c].pid
  <2>1. cmd[c].copy \in State /\ cmd[c].copy.enabled /\ cmd[c].copy.pid = cmd[c].pid
    BY <1>1 DEF ServiceTypes, Command, CommandsOk, CommandOk, Copying
  <2> DEFINE s == cmd[c].copy
  <2>2. s \in State /\ s.enabled /\ s.pid = cmd[c].pid /\ st' = [Cleared(s) EXCEPT !.there = TRUE]
    BY <1>1, <2>1
  <2> HIDE DEF s
  <2> QED BY <2>2 DEF Cleared, State
<1>5. /\ sgh' \in SGhost /\ sgh'.word = sgh.word /\ sgh'.alone = sgh.alone /\ sgh'.tries = 0
      /\ sgh'.lost <=> sgh.lost \/ Listening # cmd[c].pid
  BY <1>1 DEF ServiceTypes, SGhost
<1>6. /\ Listening \in Pid /\ proc[Listening].s = "serving"
      /\ \A p \in Pid : proc[p].s \in {"locked", "serving"} => p = Listening
  BY <1>1, OneListens DEF Serving, ProcessesOk, LockOwner
<1>7. ~sgh'.lost => \A p \in Pid : IsUp(p) => p \in {unit.main, Listening}
  BY <1>1, <1>2, <1>5 DEF KnownOk, IsUp, Copying, WithChild, StartPcs
<1>8. ServiceTypes'
  BY <1>1, <1>2, <1>3, <1>4, <1>5, <1>6, <1>7, IdleCommand DEF ServiceTypes
<1>9. CommandsOk'
  BY <1>1, <1>2, <1>3, <1>4, <1>5, <1>6, <1>7, IdleCommand, JobsKept DEF CommandsOk, CommandOk,
         Fits, StartPcs, WithChild, Copying
<1>10. ProcessesOk'
  BY <1>1, <1>2, <1>3, <1>4, <1>5, <1>6, <1>7 DEF ProcessesOk, IsUp, UpStates, LockOwner
<1>11. OffOk'
  BY <1>1, <1>2, <1>3, <1>4, <1>5, <1>6, <1>7, IdleCommand DEF OffOk, UpStates
<1>12. OnOk'
  BY <1>1, <1>2, <1>3, <1>4, <1>5, <1>6, <1>7, IdleCommand DEF OnOk, CommandsOk, CommandOk, AloneIs, Fits
<1>13. ASSUME ~sgh'.lost PROVE (EndingAlone /\ KnownOk /\ StopOk /\ TriesOk)'
  BY <1>13, <1>1, <1>2, <1>3, <1>4, <1>5, <1>6, <1>7, IdleCommand, ManagerAssumption
     DEF EndingAlone, Ending, KnownOk, IsUp, UpStates, LockOwner, Serving, Copying, WithChild,
         StartPcs, StopOk, TriesOk, Healthy
<1> QED BY <1>8, <1>9, <1>10, <1>11, <1>12, <1>13

LEMMA HealthTimeoutKeeps ==
    ASSUME ServiceInv, NEW c \in Cmd, HealthTimeout(c)
    PROVE  ServiceInv'
<1> USE DEF ServiceInv
<1>1. /\ cmd[c].pc = "wait" /\ ~Healthy /\ UNCHANGED <<proc, unit, starter, disk, spentCmd>>
      /\ st' = [Failed([cmd[c].copy EXCEPT !.pid = NoPid]) EXCEPT !.there = TRUE]
      /\ cmd' = [cmd EXCEPT ![c].pc = "killChild"]
      /\ sgh' = [sgh EXCEPT !.tries = IF cmd[c].job = "update" /\ c \in sgh.alone THEN @ + 1 ELSE @]
  BY DEF HealthTimeout, At, Go, StartFails, Write
<1>2. /\ cmd[c].job \in {"on", "update"}
      /\ \A d \in Cmd : d # c => cmd[d].pc \notin StartPcs
  BY <1>1 DEF CommandsOk, CommandOk, Fits, StartPcs
<1>3. /\ cmd' \in [Cmd -> Command] /\ cmd'[c].pc = "killChild"
      /\ cmd'[c].job = cmd[c].job /\ cmd'[c].copy = cmd[c].copy /\ cmd'[c].pid = cmd[c].pid
      /\ \A d \in Cmd : d # c => cmd'[d] = cmd[d]
  BY <1>1 DEF ServiceTypes, Command, CmdPcs, StartPcs
<1>4. /\ st' \in State /\ st'.there /\ st'.enabled /\ st'.pid = NoPid /\ st'.fails = cmd[c].copy.fails + 1
      /\ st'.recent
  <2>1. cmd[c].copy \in State /\ cmd[c].copy.enabled
    BY <1>1 DEF ServiceTypes, Command, CommandsOk, CommandOk, Copying
  <2> DEFINE s == [cmd[c].copy EXCEPT !.pid = NoPid]
  <2>2. s \in State /\ s.enabled /\ s.pid = NoPid /\ s.fails = cmd[c].copy.fails
    BY <2>1 DEF State
  <2>3. st' = [Failed(s) EXCEPT !.there = TRUE]
    BY <1>1
  <2> HIDE DEF s
  <2> QED BY <2>2, <2>3, FailedIsState
<1>5. /\ sgh' \in SGhost /\ sgh'.word = sgh.word /\ sgh'.alone = sgh.alone /\ sgh'.lost = sgh.lost
      /\ sgh'.tries = IF cmd[c].job = "update" /\ c \in sgh.alone THEN sgh.tries + 1 ELSE sgh.tries
  BY <1>1 DEF ServiceTypes, SGhost
<1>6. /\ cmd[c].copy.fails \in Nat /\ sgh.tries \in Nat
      /\ c \in sgh.alone => \A d \in Cmd : d # c => cmd[d].job = "none"
  BY <1>2 DEF ServiceTypes, Command, State, SGhost, CommandsOk, AloneIs
<1>7. ~sgh.lost => \A p \in Pid : IsUp(p) => p \in {unit.main, cmd[c].pid}
  BY <1>1, <1>2 DEF KnownOk, IsUp, Copying, WithChild, StartPcs
<1>8. c \in sgh.alone => \A d \in Cmd : d # c => cmd'[d].pc = "idle" /\ cmd'[d].job = "none"
  BY <1>3, <1>6, IdleCommand DEF CommandsOk, CommandOk
<1>9. ServiceTypes'
  BY <1>1, <1>2, <1>3, <1>4, <1>5, <1>6, <1>7, <1>8 DEF ServiceTypes
<1>10. CommandsOk'
  BY <1>1, <1>2, <1>3, <1>4, <1>5, <1>6, <1>7, <1>8, JobsKept DEF CommandsOk, CommandOk, Fits,
         StartPcs, WithChild, Copying
<1>11. ProcessesOk'
  BY <1>1, <1>2, <1>3, <1>4, <1>5, <1>6, <1>7, <1>8 DEF ProcessesOk, IsUp, UpStates, LockOwner
<1>12. OffOk'
  BY <1>1, <1>2, <1>3, <1>4, <1>5, <1>6, <1>7, <1>8 DEF OffOk, UpStates
<1>13. OnOk'
  BY <1>1, <1>2, <1>3, <1>4, <1>5, <1>6, <1>7, <1>8 DEF OnOk, CommandsOk, CommandOk, AloneIs, Fits
<1>14. ASSUME ~sgh'.lost PROVE (EndingAlone /\ KnownOk /\ StopOk /\ TriesOk)'
  BY <1>14, <1>1, <1>2, <1>3, <1>4, <1>5, <1>6, <1>7, <1>8, ManagerAssumption DEF EndingAlone,
         Ending, KnownOk, IsUp, UpStates, LockOwner, Serving, Copying, WithChild, StartPcs,
         StopOk, TriesOk, Healthy
<1> QED BY <1>9, <1>10, <1>11, <1>12, <1>13, <1>14

LEMMA KillChildKeeps ==
    ASSUME ServiceInv, NEW c \in Cmd, KillChild(c)
    PROVE  ServiceInv'
<1> USE DEF ServiceInv
<1>1. /\ cmd[c].pc = "killChild" /\ UNCHANGED <<st, unit, disk, sgh, spentCmd>>
      /\ proc' = [proc EXCEPT ![cmd[c].pid].s = "dead"]
      /\ cmd' = [cmd EXCEPT ![c] = Idle] /\ starter' = (IF starter = c THEN "none" ELSE starter)
  BY DEF KillChild, At, Answer
<1>2. /\ cmd[c].job \in {"on", "update"}
      /\ \A d \in Cmd : d # c => cmd[d].pc \notin StartPcs
  BY <1>1 DEF CommandsOk, CommandOk, Fits, StartPcs
<1>3. /\ cmd' \in [Cmd -> Command] /\ cmd'[c] = Idle
      /\ \A d \in Cmd : d # c => cmd'[d] = cmd[d]
      /\ starter' \in Cmd \cup {"none"}
      /\ \A d \in Cmd : cmd'[d].pc \in StartPcs <=> starter' = d
  BY <1>1, Answered
<1>4. /\ cmd[c].pid \in Pid /\ proc' \in [Pid -> Process] /\ proc'[cmd[c].pid].s = "dead"
      /\ \A q \in Pid : q # cmd[c].pid => proc'[q] = proc[q]
  BY <1>1 DEF ServiceTypes, Process, CommandsOk, CommandOk, WithChild
<1>5. ~sgh.lost => \A p \in Pid : IsUp(p) => p \in {unit.main, cmd[c].pid}
  BY <1>1, <1>2 DEF KnownOk, IsUp, Copying, WithChild, StartPcs
<1>6. ServiceTypes'
  BY <1>1, <1>2, <1>3, <1>4, <1>5, IdleCommand DEF ServiceTypes
<1>7. CommandsOk'
  BY <1>1, <1>2, <1>3, <1>4, <1>5, IdleCommand, JobsKept DEF CommandsOk, CommandOk, Fits,
         StartPcs, WithChild, Copying
<1>8. ProcessesOk'
  BY <1>1, <1>2, <1>3, <1>4, <1>5 DEF ProcessesOk, IsUp, UpStates, LockOwner
<1>9. OffOk'
  BY <1>1, <1>2, <1>3, <1>4, <1>5, IdleCommand DEF OffOk, UpStates
<1>10. OnOk'
  BY <1>1, <1>2, <1>3, <1>4, <1>5, IdleCommand DEF OnOk, CommandsOk, CommandOk, AloneIs, Fits
<1>11. ASSUME ~sgh'.lost PROVE (EndingAlone /\ KnownOk /\ StopOk /\ TriesOk)'
  BY <1>11, <1>1, <1>2, <1>3, <1>4, <1>5, IdleCommand, ManagerAssumption DEF EndingAlone, Ending,
         KnownOk, IsUp, UpStates, LockOwner, Serving, Copying, WithChild, StartPcs, StopOk,
         TriesOk, Healthy
<1> QED BY <1>6, <1>7, <1>8, <1>9, <1>10, <1>11

(* A process that gets SIGTERM is on its way out. *)
LEMMA SignalledIs ==
    ASSUME ServiceTypes, NEW p \in Pid, proc' = Signalled(p)
    PROVE  /\ proc' \in [Pid -> Process] /\ \A q \in Pid : q # p => proc'[q] = proc[q]
           /\ proc'[p].s \notin UpStates
           /\ proc'[p].s = "ending" => proc[p].s \in {"locked", "serving", "ending"}
           /\ proc'[p].s = "none" => proc[p].s = "none"
BY DEF Signalled, ServiceTypes, Process, UpStates

(* The unit's process is stopped, for `autostart disable` or for an update. *)
LEMMA UnitStopsKeeps ==
    ASSUME ServiceInv, NEW c \in Cmd, cmd[c].pc \in {"unit", "viaUnit"}, NEW on \in BOOLEAN, UnitStops(on),
           UNCHANGED <<st, starter, disk, cmd, sgh, spentCmd>>
    PROVE  ServiceInv'
<1> USE DEF ServiceInv
<1>1. /\ cmd[c].pc \in {"unit", "viaUnit"} /\ UNCHANGED <<st, starter, disk, cmd, sgh, spentCmd>>
      /\ Alive(unit.main) /\ unit' = [unit EXCEPT !.on = on, !.active = FALSE]
      /\ proc' = Signalled(unit.main)
  BY DEF UnitStops
<1>2. unit' \in Units /\ unit'.main = unit.main /\ ~unit'.active
  BY <1>1 DEF ServiceTypes, Units
<1>3. /\ unit.main \in Pid /\ proc' \in [Pid -> Process] /\ \A q \in Pid : q # unit.main => proc'[q] = proc[q]
      /\ proc'[unit.main].s \notin UpStates
      /\ proc'[unit.main].s = "ending" => proc[unit.main].s \in {"locked", "serving", "ending"}
      /\ proc'[unit.main].s = "none" => proc[unit.main].s = "none"
  BY <1>1, SignalledIs DEF Alive
<1>4. Healthy' => Healthy
  BY <1>3 DEF Healthy, Serving, UpStates
<1>5. ServiceTypes'
  BY <1>1, <1>2, <1>3, <1>4 DEF ServiceTypes
<1>6. CommandsOk'
  BY <1>1 DEF CommandsOk, CommandOk, OneUpdates, AloneIs
<1>7. ProcessesOk'
  BY <1>1, <1>2, <1>3, <1>4 DEF ProcessesOk, IsUp, UpStates, LockOwner
<1>8. OffOk'
  BY <1>1, <1>2, <1>3, <1>4 DEF OffOk, UpStates
<1>9. OnOk'
  BY <1>1, <1>2, <1>3, <1>4 DEF OnOk
<1>10. ASSUME ~sgh'.lost PROVE (EndingAlone /\ KnownOk /\ StopOk /\ TriesOk)'
  BY <1>10, <1>1, <1>2, <1>3, <1>4 DEF EndingAlone, Ending, KnownOk, IsUp, UpStates, LockOwner,
         Serving, Copying, WithChild, StartPcs, StopOk, TriesOk
<1> QED BY <1>5, <1>6, <1>7, <1>8, <1>9, <1>10

LEMMA UnitGoneKeeps ==
    ASSUME ServiceInv, NEW c \in Cmd, At(c, "unit"), ~Alive(unit.main),
           unit' = [on |-> FALSE, active |-> FALSE, main |-> NoPid],
           IF cmd[c].job = "off" THEN Go(c, "read") /\ UNCHANGED starter
           ELSE cmd' = [cmd EXCEPT ![c] = Idle] /\ starter' = IF starter = c THEN "none" ELSE starter,
           UNCHANGED <<proc, st, disk, sgh, spentCmd>>
    PROVE  ServiceInv'
<1> USE DEF ServiceInv
<1>1. cmd[c].pc = "unit" /\ UNCHANGED <<proc, st, disk, sgh, spentCmd>> /\ cmd[c].job \in {"off", "disable"}
  BY DEF CommandsOk, CommandOk, Fits, StartPcs, At
<1>2. /\ unit' \in Units /\ unit'.main = NoPid /\ ~unit'.active /\ ~IsUp(unit.main)
  BY DEF Units, Alive, IsUp, UpStates
<1>3. /\ cmd' \in [Cmd -> Command] /\ starter' \in Cmd \cup {"none"}
      /\ \A d \in Cmd : d # c => cmd'[d] = cmd[d]
      /\ \A d \in Cmd : cmd'[d].pc \in StartPcs <=> starter' = d
      /\ \/ cmd'[c] = Idle
         \/ cmd'[c].pc = "read" /\ cmd'[c].job = "off" /\ cmd[c].job = "off"
  BY <1>1, Answered DEF Go, ServiceTypes, Command, CmdPcs, CommandsOk, CommandOk, StartPcs
<1>4. ServiceTypes'
  BY <1>1, <1>2, <1>3, IdleCommand DEF ServiceTypes
<1>5. CommandsOk'
  BY <1>1, <1>2, <1>3, IdleCommand, JobsKept DEF CommandsOk, CommandOk, Fits, StartPcs, WithChild,
         Copying
<1>6. ProcessesOk'
  BY <1>1, <1>2, <1>3, ManagerAssumption DEF ProcessesOk, IsUp, UpStates, LockOwner
<1>7. OffOk'
  BY <1>1, <1>2, <1>3, IdleCommand DEF OffOk, UpStates
<1>8. OnOk'
  BY <1>1, <1>2, <1>3, IdleCommand DEF OnOk
<1>9. ASSUME ~sgh'.lost PROVE (EndingAlone /\ KnownOk /\ StopOk /\ TriesOk)'
  BY <1>9, <1>1, <1>2, <1>3, IdleCommand, ManagerAssumption DEF EndingAlone, Ending, KnownOk,
         IsUp, UpStates, LockOwner, Serving, Copying, WithChild, StartPcs, StopOk, TriesOk,
         Healthy
<1> QED BY <1>4, <1>5, <1>6, <1>7, <1>8, <1>9

(* A command ends and has changed nothing. *)
LEMMA AnswerKeeps ==
    ASSUME ServiceInv, NEW c \in Cmd, cmd[c].pc \in {"unit", "stopping", "look", "verify"},
           cmd' = [cmd EXCEPT ![c] = Idle], starter' = IF starter = c THEN "none" ELSE starter,
           UNCHANGED <<proc, st, unit, disk, sgh, spentCmd>>
    PROVE  ServiceInv'
<1> USE DEF ServiceInv
<1>1. /\ cmd[c].pc \in {"unit", "stopping", "look", "verify"}
      /\ UNCHANGED <<proc, st, unit, disk, sgh, spentCmd>>
  OBVIOUS
<1>2. /\ cmd' \in [Cmd -> Command] /\ cmd'[c] = Idle
      /\ \A d \in Cmd : d # c => cmd'[d] = cmd[d]
      /\ starter' \in Cmd \cup {"none"}
      /\ \A d \in Cmd : cmd'[d].pc \in StartPcs <=> starter' = d
  BY Answered
<1>3. ServiceTypes'
  BY <1>1, <1>2, IdleCommand DEF ServiceTypes
<1>4. CommandsOk'
  BY <1>1, <1>2, IdleCommand, JobsKept DEF CommandsOk, CommandOk, Fits, StartPcs, WithChild,
         Copying
<1>5. ProcessesOk'
  BY <1>1 DEF ProcessesOk, IsUp, UpStates, LockOwner
<1>6. OffOk'
  BY <1>1, <1>2, IdleCommand DEF OffOk, UpStates
<1>7. OnOk'
  BY <1>1, <1>2, IdleCommand DEF OnOk
<1>8. ASSUME ~sgh'.lost PROVE (EndingAlone /\ KnownOk /\ StopOk /\ TriesOk)'
  BY <1>8, <1>1, <1>2, IdleCommand, ManagerAssumption DEF EndingAlone, Ending, KnownOk, IsUp,
         UpStates, LockOwner, Serving, Copying, WithChild, StartPcs, StopOk, TriesOk, Healthy
<1> QED BY <1>3, <1>4, <1>5, <1>6, <1>7, <1>8

(* The process of the state, or who listens, gets a signal. *)
LEMMA StopReadKeeps ==
    ASSUME ServiceInv, NEW c \in Cmd, NEW pid \in Pid \cup {NoPid}, At(c, "read"),
           pid = IF st.pid = NoPid /\ st.enabled THEN Listening ELSE st.pid,
           cmd' = [cmd EXCEPT ![c].pc = "stopping", ![c].copy = st, ![c].pid = pid],
           proc' = SignalledOrNone(pid), UNCHANGED <<st, unit, starter, disk, sgh, spentCmd>>
    PROVE  ServiceInv'
<1> USE DEF ServiceInv
<1>1. /\ cmd[c].pc = "read" /\ UNCHANGED <<st, unit, starter, disk, sgh, spentCmd>>
      /\ cmd[c].job \in {"off", "enable", "update"}
  BY DEF CommandsOk, CommandOk, Fits, StartPcs, At
<1>2. /\ cmd' \in [Cmd -> Command] /\ \A d \in Cmd : d # c => cmd'[d] = cmd[d]
      /\ cmd'[c].pc = "stopping" /\ cmd'[c].copy = st /\ cmd'[c].job = cmd[c].job
  <2> DEFINE r == [cmd[c] EXCEPT !.pc = "stopping", !.copy = st, !.pid = pid]
  <2>1. "stopping" \in CmdPcs /\ st \in State /\ pid \in Pid \cup {NoPid} /\ cmd[c] \in Command
        /\ cmd \in [Cmd -> Command]
    BY DEF ServiceTypes, CmdPcs
  <2>2. r \in Command /\ r.pc = "stopping" /\ r.copy = st /\ r.job = cmd[c].job
    BY <2>1 DEF Command
  <2>3. cmd' = [cmd EXCEPT ![c] = r]
    BY <1>1
  <2> HIDE DEF r
  <2> QED BY ZenonT(60), <2>1, <2>2, <2>3
<1>3. /\ proc' \in [Pid -> Process] /\ \A q \in Pid : q # pid => proc'[q] = proc[q]
      /\ pid \in Pid => /\ proc'[pid].s \notin UpStates
                        /\ proc'[pid].s = "ending" => proc[pid].s \in {"locked", "serving", "ending"}
                        /\ proc'[pid].s = "none" => proc[pid].s = "none"
  BY SignalledIs, ManagerAssumption DEF SignalledOrNone, ServiceTypes
<1>4. \A q \in Pid : \/ proc'[q] = proc[q]
                      \/ /\ proc'[q].s \notin UpStates
                         /\ proc'[q].s = "ending" => proc[q].s \in {"locked", "serving", "ending"}
                         /\ proc'[q].s = "none" => proc[q].s = "none"
  BY <1>3
<1>5. ~sgh.lost /\ cmd[c].job \in {"off", "enable"} =>
        /\ ~unit.active /\ \A q \in Pid : proc'[q].s \notin UpStates
  BY <1>1, <1>4, OneListens, <1>3 DEF StopOk, ProcessesOk, IsUp, EndingAlone, Ending, CommandsOk,
         CommandOk, Fits, WithChild, KnownOk, Serving
<1>6. ~sgh.lost => \A d \in Cmd : d # c /\ cmd[d].pc \in Copying => sgh.tries = 0
  BY <1>1 DEF TriesOk, EndingAlone, Ending, CommandsOk, CommandOk, OneUpdates, Fits, Copying
<1>7. Healthy' => Healthy
  BY <1>4 DEF Healthy, Serving, UpStates
<1>8. ServiceTypes'
  BY <1>1, <1>2, <1>3, <1>4, <1>5, <1>6, <1>7 DEF ServiceTypes
<1>9. CommandsOk'
  <2>1. \A d \in Cmd : d # c => CommandOk(d)'
    BY <1>1, <1>2, <1>3, <1>4, <1>5, <1>6, <1>7 DEF CommandsOk, CommandOk
  <2>2. CommandOk(c)'
    BY <1>1, <1>2, <1>3, <1>4, <1>5, <1>6, <1>7 DEF CommandsOk, CommandOk, Fits, StartPcs, WithChild, Copying
  <2>3. OneUpdates' /\ AloneIs'
    BY <1>1, <1>2, <1>3, <1>4, <1>5, <1>6, <1>7, JobsKept
  <2> QED BY <2>1, <2>2, <2>3 DEF CommandsOk
<1>10. ProcessesOk'
  BY <1>1, <1>4 DEF ProcessesOk, IsUp, UpStates, LockOwner
<1>11. OffOk'
  BY <1>1, <1>2, <1>3, <1>4, <1>5, <1>6, <1>7 DEF OffOk, UpStates
<1>12. OnOk'
  BY <1>1, <1>2, <1>3, <1>4, <1>5, <1>6, <1>7 DEF OnOk
<1>13. ASSUME ~sgh'.lost PROVE (EndingAlone /\ KnownOk /\ StopOk /\ TriesOk)'
  <2>1. ~sgh.lost
    BY <1>13, <1>1, <1>2, <1>3, <1>4, <1>5, <1>6, <1>7
  <2>2. EndingAlone'
    BY <1>1, <1>2, <1>3, <1>4, <1>5, <1>6, <1>7, <1>13, <2>1 DEF EndingAlone, Ending
  <2>3. KnownOk'
    BY SMTT(30), <1>1, <1>2, <1>4, <2>1 DEF KnownOk, IsUp, UpStates, LockOwner, Serving, Copying, WithChild, StartPcs
  <2>4. StopOk'
    BY SMTT(30), <1>1, <1>2, <1>4, <1>5, <2>1 DEF StopOk, UpStates, EndingAlone, Ending
  <2>5. TriesOk'
    BY <1>1, <1>2, <1>6, <1>7, <2>1 DEF TriesOk, Copying
  <2> QED BY <2>2, <2>3, <2>4, <2>5
<1> QED BY <1>8, <1>9, <1>10, <1>11, <1>12, <1>13

(* The user's off is written. *)
LEMMA StopOffKeeps ==
    ASSUME ServiceInv, NEW c \in Cmd, At(c, "stopping"), cmd[c].job = "off",
           IF cmd[c].copy.there THEN Write(StoppedState(c)) ELSE UNCHANGED st,
           cmd' = [cmd EXCEPT ![c] = Idle], starter' = IF starter = c THEN "none" ELSE starter,
           sgh' = [sgh EXCEPT !.word = IF c \in sgh.alone /\ ~sgh.lost THEN "off" ELSE "none"],
           UNCHANGED <<proc, unit, disk, spentCmd>>
    PROVE  ServiceInv'
<1> USE DEF ServiceInv
<1>1. /\ cmd[c].pc = "stopping" /\ cmd[c].job = "off" /\ UNCHANGED <<proc, unit, disk, spentCmd>>
  BY DEF At
<1>2. /\ cmd' \in [Cmd -> Command] /\ cmd'[c] = Idle
      /\ \A d \in Cmd : d # c => cmd'[d] = cmd[d]
      /\ starter' \in Cmd \cup {"none"}
      /\ \A d \in Cmd : cmd'[d].pc \in StartPcs <=> starter' = d
  BY Answered
<1>3. st' \in State /\ ((st'.there /\ ~st'.enabled) \/ (~cmd[c].copy.there /\ st' = st))
  <2>1. CASE cmd[c].copy.there
    <3> DEFINE s == [cmd[c].copy EXCEPT !.enabled = FALSE, !.pid = cmd[c].pid]
    <3>1. s \in State /\ ~s.enabled
      BY DEF ServiceTypes, Command, State
    <3>2. st' = [Cleared(s) EXCEPT !.there = TRUE]
      BY <1>1, <2>1 DEF Write, StoppedState
    <3> HIDE DEF s
    <3> QED BY <3>1, <3>2 DEF Cleared, State
  <2> QED BY <2>1 DEF ServiceTypes
<1>4. /\ sgh' \in SGhost /\ sgh'.alone = sgh.alone /\ sgh'.lost = sgh.lost /\ sgh'.tries = sgh.tries
      /\ sgh'.word = IF c \in sgh.alone /\ ~sgh.lost THEN "off" ELSE "none"
  BY DEF ServiceTypes, SGhost
<1>5. ~sgh.lost => /\ ~unit.active /\ \A p \in Pid : proc[p].s \notin UpStates
                   /\ st.there => cmd[c].copy.there
                   /\ \A d \in Cmd : d # c => cmd[d].job = "none"
                   /\ sgh.tries = 0
  BY <1>1 DEF StopOk, EndingAlone, Ending, TriesOk
<1>6. sgh'.word = "off" => \A d \in Cmd : cmd'[d] = Idle
  BY <1>2, <1>4, <1>5 DEF CommandsOk, CommandOk
<1>7. ServiceTypes'
  BY <1>1, <1>2, <1>3, <1>4, <1>5, <1>6, IdleCommand DEF ServiceTypes
<1>8. CommandsOk'
  BY <1>1, <1>2, <1>3, <1>4, <1>5, <1>6, IdleCommand, JobsKept DEF CommandsOk, CommandOk, Fits,
         StartPcs, WithChild, Copying
<1>9. ProcessesOk'
  BY <1>1, <1>2, <1>3, <1>4, <1>5, <1>6 DEF ProcessesOk, IsUp, UpStates, LockOwner
<1>10. OffOk'
  BY <1>1, <1>2, <1>3, <1>4, <1>5, <1>6, IdleCommand DEF OffOk, UpStates, ProcessesOk
<1>11. OnOk'
  BY <1>1, <1>2, <1>3, <1>4, <1>5, <1>6, IdleCommand DEF OnOk
<1>12. ASSUME ~sgh'.lost PROVE (EndingAlone /\ KnownOk /\ StopOk /\ TriesOk)'
  BY <1>12, <1>1, <1>2, <1>3, <1>4, <1>5, <1>6, IdleCommand, ManagerAssumption DEF EndingAlone,
         Ending, KnownOk, IsUp, UpStates, LockOwner, Serving, Copying, WithChild, StartPcs,
         StopOk, TriesOk, Healthy
<1> QED BY <1>7, <1>8, <1>9, <1>10, <1>11, <1>12

(* Something is stopped on the way to a start; only the user's stop is remembered. *)
LEMMA StopGoesOnKeeps ==
    ASSUME ServiceInv, NEW c \in Cmd, At(c, "stopping"), cmd[c].job # "off",
           IF cmd[c].copy.there THEN Write(StoppedState(c)) ELSE UNCHANGED st,
           Settle(c, IF cmd[c].job = "enable" THEN "enableUnit" ELSE "lock"),
           UNCHANGED <<proc, unit, disk, spentCmd, starter, sgh>>
    PROVE  ServiceInv'
<1> USE DEF ServiceInv
<1>1. /\ cmd[c].pc = "stopping" /\ cmd[c].job \in {"enable", "update"}
      /\ UNCHANGED <<proc, unit, disk, spentCmd, starter, sgh>>
  BY DEF CommandsOk, CommandOk, Fits, StartPcs, At
<1>2. /\ cmd' \in [Cmd -> Command] /\ \A d \in Cmd : d # c => cmd'[d] = cmd[d]
      /\ cmd'[c].pc = (IF cmd[c].job = "enable" THEN "enableUnit" ELSE "lock")
      /\ cmd'[c].job = cmd[c].job
  BY <1>1, IdleCommand DEF Settle, ServiceTypes, Command, CmdPcs
<1>3. /\ st' \in State
      /\ \/ ~cmd[c].copy.there /\ st' = st
         \/ /\ st'.there
            /\ cmd[c].job = "update" => /\ st'.enabled = cmd[c].copy.enabled /\ st'.pid = NoPid
                                        /\ st'.fails = cmd[c].copy.fails /\ st'.recent = cmd[c].copy.recent
  <2>1. CASE cmd[c].copy.there /\ cmd[c].job = "update"
    BY <2>1 DEF ServiceTypes, Command, State, Write, StoppedState
  <2>2. CASE cmd[c].copy.there /\ cmd[c].job = "enable"
    <3> DEFINE s == [cmd[c].copy EXCEPT !.enabled = FALSE, !.pid = cmd[c].pid]
    <3>1. s \in State
      BY DEF ServiceTypes, Command, State
    <3>2. st' = [Cleared(s) EXCEPT !.there = TRUE]
      BY <2>2 DEF Write, StoppedState
    <3> HIDE DEF s
    <3> QED BY <2>2, <3>1, <3>2 DEF Cleared, State
  <2> QED BY <1>1, <2>1, <2>2 DEF ServiceTypes
<1>4. ~sgh.lost /\ cmd[c].job = "enable" =>
        /\ \A p \in Pid : proc[p].s \notin UpStates
        /\ ~unit.active /\ \A d \in Cmd : d # c => cmd[d].job = "none"
        /\ sgh.tries = 0
  BY <1>1 DEF StopOk, EndingAlone, Ending, TriesOk
<1>5. ~sgh.lost /\ cmd[c].job = "update" =>
        /\ cmd[c].copy.there /\ cmd[c].copy.enabled
        /\ sgh.tries > 0 => sgh.tries <= cmd[c].copy.fails /\ cmd[c].copy.recent
  BY <1>1 DEF StopOk, TriesOk
<1>6. ServiceTypes'
  BY <1>1, <1>2, <1>3, <1>4, <1>5 DEF ServiceTypes
<1>7. CommandsOk'
  BY <1>1, <1>2, <1>3, <1>4, <1>5, JobsKept DEF CommandsOk, CommandOk, Fits, StartPcs, WithChild,
         Copying
<1>8. ProcessesOk'
  BY <1>1, <1>2, <1>3, <1>4, <1>5 DEF ProcessesOk, IsUp, UpStates, LockOwner
<1>9. OffOk'
  BY <1>1, <1>2, <1>3, <1>4, <1>5 DEF OffOk, UpStates
<1>10. OnOk'
  BY <1>1, <1>2, <1>3, <1>4, <1>5 DEF OnOk
<1>11. ASSUME ~sgh'.lost PROVE (EndingAlone /\ KnownOk /\ StopOk /\ TriesOk)'
  BY <1>11, <1>1, <1>2, <1>3, <1>4, <1>5, ManagerAssumption DEF EndingAlone, Ending, KnownOk,
         IsUp, UpStates, LockOwner, Serving, Copying, WithChild, StartPcs, StopOk, TriesOk,
         Healthy
<1> QED BY <1>6, <1>7, <1>8, <1>9, <1>10, <1>11

LEMMA MigrateKeeps ==
    ASSUME ServiceInv, NEW c \in Cmd, Migrate(c)
    PROVE  ServiceInv'
<1> USE DEF ServiceInv
<1>1. /\ cmd[c].pc = "migrate" /\ UNCHANGED <<st, proc, unit, starter, disk, sgh, spentCmd>>
      /\ cmd' = [cmd EXCEPT ![c].pc = IF ~unit.on /\ ~unit.active /\ Running(st) THEN "read" ELSE "enableUnit"]
  BY DEF Migrate, At, Go
<1>2. /\ cmd' \in [Cmd -> Command] /\ cmd'[c].pc \in {"read", "enableUnit"}
      /\ cmd'[c].job = cmd[c].job /\ cmd'[c].copy = cmd[c].copy /\ cmd'[c].pid = cmd[c].pid
      /\ \A d \in Cmd : d # c => cmd'[d] = cmd[d]
      /\ cmd'[c].pc = "read" => ~unit.active
  BY <1>1 DEF ServiceTypes, Command, CmdPcs, StartPcs
<1>3. ServiceTypes'
  BY <1>1, <1>2 DEF ServiceTypes
<1>4. CommandsOk'
  BY <1>1, <1>2, JobsKept DEF CommandsOk, CommandOk, Fits, StartPcs, WithChild, Copying
<1>5. ProcessesOk'
  BY <1>1, <1>2 DEF ProcessesOk, IsUp, UpStates, LockOwner
<1>6. OffOk'
  BY <1>1, <1>2 DEF OffOk, UpStates
<1>7. OnOk'
  BY <1>1, <1>2 DEF OnOk
<1>8. ASSUME ~sgh'.lost PROVE (EndingAlone /\ KnownOk /\ StopOk /\ TriesOk)'
  BY <1>8, <1>1, <1>2, ManagerAssumption DEF EndingAlone, Ending, KnownOk, IsUp, UpStates,
         LockOwner, Serving, Copying, WithChild, StartPcs, StopOk, TriesOk, Healthy
<1> QED BY <1>3, <1>4, <1>5, <1>6, <1>7, <1>8

LEMMA EnableUnitKeeps ==
    ASSUME ServiceInv, NEW c \in Cmd, EnableUnit(c)
    PROVE  ServiceInv'
<1> USE DEF ServiceInv
<1>1. /\ cmd[c].pc = "enableUnit" /\ UNCHANGED <<st, disk, sgh, spentCmd>>
      /\ cmd' = [cmd EXCEPT ![c] = Idle] /\ starter' = (IF starter = c THEN "none" ELSE starter)
      /\ \/ UNCHANGED <<proc, unit>>
         \/ /\ ~unit.active
            /\ \E p \in Fresh : /\ proc' = [proc EXCEPT ![p] = Spawned]
                                /\ unit' = [on |-> TRUE, active |-> TRUE, main |-> p]
         \/ unit.active /\ unit' = [unit EXCEPT !.on = TRUE] /\ UNCHANGED proc
  BY DEF EnableUnit, At, Answer, UnitRuns
<1>2. cmd[c].job = "enable" 
  BY <1>1 DEF CommandsOk, CommandOk, Fits, StartPcs
<1>3. /\ cmd' \in [Cmd -> Command] /\ cmd'[c] = Idle
      /\ \A d \in Cmd : d # c => cmd'[d] = cmd[d]
      /\ starter' \in Cmd \cup {"none"}
      /\ \A d \in Cmd : cmd'[d].pc \in StartPcs <=> starter' = d
  BY <1>1, Answered
<1>4. /\ unit' \in Units /\ proc' \in [Pid -> Process]
      /\ \/ unit'.main = unit.main /\ unit'.active = unit.active /\ proc' = proc
         \/ /\ ~unit.active /\ unit'.active /\ unit'.main \in Pid
            /\ proc[unit'.main].s = "none" /\ proc'[unit'.main].s = "boot"
            /\ \A q \in Pid : q # unit'.main => proc'[q] = proc[q]
  <2>1. CASE UNCHANGED <<proc, unit>>
    BY <2>1 DEF ServiceTypes
  <2>2. CASE ~unit.active /\ \E p \in Fresh : /\ proc' = [proc EXCEPT ![p] = Spawned]
                                             /\ unit' = [on |-> TRUE, active |-> TRUE, main |-> p]
    <3>1. PICK p \in Fresh : /\ proc' = [proc EXCEPT ![p] = Spawned]
                             /\ unit' = [on |-> TRUE, active |-> TRUE, main |-> p]
      BY <2>2
    <3>2. TRUE \in BOOLEAN /\ p \in Pid \cup {NoPid} /\ p \in Pid /\ proc[p].s = "none"
      BY DEF Fresh
    <3>3. unit' \in Units
      BY <3>1, <3>2, Zenon DEF Units
    <3>4. proc' \in [Pid -> Process] /\ proc'[p].s = "boot" /\ \A q \in Pid : q # p => proc'[q] = proc[q]
      BY <3>1, <3>2 DEF ServiceTypes, Process, Spawned
    <3> QED BY <2>2, <3>1, <3>2, <3>3, <3>4
  <2>3. CASE unit.active /\ unit' = [unit EXCEPT !.on = TRUE] /\ UNCHANGED proc
    BY <2>3 DEF ServiceTypes, Units
  <2> QED BY <1>1, <2>1, <2>2, <2>3
<1>5. ~sgh.lost => sgh.tries = 0 /\ \A d \in Cmd : d # c => cmd[d].job = "none"
  BY <1>2 DEF EndingAlone, Ending, TriesOk
<1>6. ServiceTypes'
  BY <1>1, <1>2, <1>3, <1>4, <1>5, IdleCommand DEF ServiceTypes
<1>7. CommandsOk'
  BY <1>1, <1>2, <1>3, <1>4, <1>5, IdleCommand, JobsKept DEF CommandsOk, CommandOk, Fits,
         StartPcs, WithChild, Copying
<1>8. ProcessesOk'
  BY <1>1, <1>2, <1>3, <1>4, <1>5 DEF ProcessesOk, IsUp, UpStates, LockOwner
<1>9. OffOk'
  BY <1>1, <1>2, <1>3, <1>4, <1>5, IdleCommand DEF OffOk, UpStates
<1>10. OnOk'
  BY <1>1, <1>2, <1>3, <1>4, <1>5, IdleCommand DEF OnOk
<1>11. ASSUME ~sgh'.lost PROVE (EndingAlone /\ KnownOk /\ StopOk /\ TriesOk)'
  <2>1. ~sgh.lost
    BY <1>11, <1>1, <1>2, <1>3, <1>4, <1>5
  <2>2. EndingAlone'
    BY <1>1, <1>2, <1>3, <1>4, <1>5, <1>11, <2>1, IdleCommand DEF EndingAlone, Ending
  <2>3. KnownOk'
    BY <1>1, <1>2, <1>3, <1>4, <1>5, <1>11, <2>1, IdleCommand DEF KnownOk, IsUp, UpStates, LockOwner, Serving, Copying, WithChild, StartPcs, ProcessesOk
  <2>4. StopOk'
    BY <1>1, <1>2, <1>3, <1>4, <1>5, <1>11, <2>1, IdleCommand DEF StopOk, UpStates, EndingAlone, Ending
  <2>5. TriesOk'
    BY <1>1, <1>2, <1>3, <1>4, <1>5, <1>11, <2>1, IdleCommand, ManagerAssumption DEF TriesOk, Copying, StartPcs, Healthy, Serving
  <2> QED BY <2>2, <2>3, <2>4, <2>5
<1> QED BY <1>6, <1>7, <1>8, <1>9, <1>10, <1>11

(* An update goes on with what runs, or with what the user wants and may be tried. *)
LEMMA LookGoesKeeps ==
    ASSUME ServiceInv, NEW c \in Cmd, At(c, "look"), Running(st) \/ MayReconcile,
           NEW pc \in {"viaUnit", "read", "lock"}, Go(c, pc), UNCHANGED <<st, proc, unit, starter, disk, sgh, spentCmd>>
    PROVE  ServiceInv'
<1> USE DEF ServiceInv
<1>1. /\ cmd[c].pc = "look" /\ UNCHANGED <<st, proc, unit, starter, disk, sgh, spentCmd>>
      /\ cmd[c].job = "update" /\ cmd' = [cmd EXCEPT ![c].pc = pc]
  BY DEF CommandsOk, CommandOk, Fits, StartPcs, At, Go
<1>2. /\ cmd' \in [Cmd -> Command] /\ cmd'[c].pc = pc
      /\ cmd'[c].job = cmd[c].job /\ cmd'[c].copy = cmd[c].copy /\ cmd'[c].pid = cmd[c].pid
      /\ \A d \in Cmd : d # c => cmd'[d] = cmd[d]
  BY <1>1 DEF ServiceTypes, Command, CmdPcs, StartPcs
<1>3. st.there /\ st.enabled
  BY DEF Running, MayReconcile
<1>4. ~sgh.lost => sgh.tries < Threshold
  BY ManagerAssumption, <1>1 DEF ServiceTypes, SGhost, TriesOk, Running, CommandsOk, CommandOk,
         OneUpdates, Fits, Copying, MayReconcile, CircuitOpen, State
<1>5. ServiceTypes'
  BY <1>1, <1>2, <1>3, <1>4 DEF ServiceTypes
<1>6. CommandsOk'
  BY <1>1, <1>2, <1>3, <1>4, JobsKept DEF CommandsOk, CommandOk, Fits, StartPcs, WithChild,
         Copying
<1>7. ProcessesOk'
  BY <1>1, <1>2, <1>3, <1>4 DEF ProcessesOk, IsUp, UpStates, LockOwner
<1>8. OffOk'
  BY <1>1, <1>3 DEF OffOk
<1>9. OnOk'
  BY <1>1, <1>2, <1>3, <1>4 DEF OnOk
<1>10. ASSUME ~sgh'.lost PROVE (EndingAlone /\ KnownOk /\ StopOk /\ TriesOk)'
  BY <1>10, <1>1, <1>2, <1>3, <1>4, ManagerAssumption DEF EndingAlone, Ending, KnownOk, IsUp,
         UpStates, LockOwner, Serving, Copying, WithChild, StartPcs, StopOk, TriesOk, Healthy
<1> QED BY <1>5, <1>6, <1>7, <1>8, <1>9, <1>10

LEMMA UnitStartsKeeps ==
    ASSUME ServiceInv, NEW c \in Cmd, At(c, "viaUnit"), ~Alive(unit.main), NEW p \in Fresh,
           proc' = [proc EXCEPT ![p] = Spawned], unit' = [unit EXCEPT !.active = TRUE, !.main = p],
           Go(c, "verify"), UNCHANGED <<st, starter, disk, sgh, spentCmd>>
    PROVE  ServiceInv'
<1> USE DEF ServiceInv
<1>1. /\ cmd[c].pc = "viaUnit" /\ UNCHANGED <<st, starter, disk, sgh, spentCmd>>
      /\ cmd[c].job = "update" /\ cmd' = [cmd EXCEPT ![c].pc = "verify"]
  BY DEF CommandsOk, CommandOk, Fits, StartPcs, At, Go
<1>2. /\ cmd' \in [Cmd -> Command] /\ cmd'[c].pc = "verify"
      /\ cmd'[c].job = cmd[c].job /\ cmd'[c].copy = cmd[c].copy /\ cmd'[c].pid = cmd[c].pid
      /\ \A d \in Cmd : d # c => cmd'[d] = cmd[d]
  BY <1>1 DEF ServiceTypes, Command, CmdPcs, StartPcs
<1>3. /\ p \in Pid /\ proc[p].s = "none" /\ proc' \in [Pid -> Process] /\ proc'[p].s = "boot"
      /\ \A q \in Pid : q # p => proc'[q] = proc[q]
  BY DEF ServiceTypes, Process, Spawned, Fresh
<1>4. /\ unit' \in Units /\ unit'.main = p /\ unit'.active
      /\ ~IsUp(unit.main)
  BY <1>3 DEF ServiceTypes, Units, Alive, IsUp, UpStates
<1>5. ServiceTypes'
  BY <1>1, <1>2, <1>3, <1>4 DEF ServiceTypes
<1>6. CommandsOk'
  BY <1>1, <1>2, <1>3, <1>4, JobsKept DEF CommandsOk, CommandOk, Fits, StartPcs, WithChild,
         Copying
<1>7. ProcessesOk'
  BY <1>1, <1>2, <1>3, <1>4 DEF ProcessesOk, IsUp, UpStates, LockOwner
<1>8. OffOk'
  BY <1>1, <1>2, <1>3, <1>4 DEF OffOk, UpStates
<1>9. OnOk'
  BY <1>1, <1>2, <1>3, <1>4 DEF OnOk
<1>10. ASSUME ~sgh'.lost PROVE (EndingAlone /\ KnownOk /\ StopOk /\ TriesOk)'
  BY <1>10, <1>1, <1>2, <1>3, <1>4, ManagerAssumption DEF EndingAlone, Ending, KnownOk, IsUp,
         UpStates, LockOwner, Serving, Copying, WithChild, StartPcs, StopOk, TriesOk, Healthy
<1> QED BY <1>5, <1>6, <1>7, <1>8, <1>9, <1>10

LEMMA FallBackKeeps ==
    ASSUME ServiceInv, NEW c \in Cmd, cmd[c].pc = "viaUnit", NEW pc \in {"read", "lock"}, Go(c, pc),
           UNCHANGED <<st, proc, unit, starter, disk, sgh, spentCmd>>
    PROVE  ServiceInv'
<1> USE DEF ServiceInv
<1>1. /\ cmd[c].pc = "viaUnit" /\ UNCHANGED <<st, proc, unit, starter, disk, sgh, spentCmd>>
      /\ cmd[c].job = "update" /\ cmd' = [cmd EXCEPT ![c].pc = pc]
  BY DEF CommandsOk, CommandOk, Fits, StartPcs, Go
<1>2. /\ cmd' \in [Cmd -> Command] /\ cmd'[c].pc = pc
      /\ cmd'[c].job = cmd[c].job /\ cmd'[c].copy = cmd[c].copy /\ cmd'[c].pid = cmd[c].pid
      /\ \A d \in Cmd : d # c => cmd'[d] = cmd[d]
  BY <1>1 DEF ServiceTypes, Command, CmdPcs, StartPcs
<1>3. ServiceTypes'
  BY <1>1, <1>2 DEF ServiceTypes
<1>4. CommandsOk'
  BY <1>1, <1>2, JobsKept DEF CommandsOk, CommandOk, Fits, StartPcs, WithChild, Copying
<1>5. ProcessesOk'
  BY <1>1, <1>2 DEF ProcessesOk, IsUp, UpStates, LockOwner
<1>6. OffOk'
  BY <1>1, <1>2 DEF OffOk, UpStates
<1>7. OnOk'
  BY <1>1, <1>2 DEF OnOk
<1>8. ASSUME ~sgh'.lost PROVE (EndingAlone /\ KnownOk /\ StopOk /\ TriesOk)'
  BY <1>8, <1>1, <1>2, ManagerAssumption DEF EndingAlone, Ending, KnownOk, IsUp, UpStates,
         LockOwner, Serving, Copying, WithChild, StartPcs, StopOk, TriesOk, Healthy
<1> QED BY <1>3, <1>4, <1>5, <1>6, <1>7, <1>8

LEMMA SecondRoundKeeps ==
    ASSUME ServiceInv, NEW c \in Cmd, cmd[c].pc = "verify", NEW pc \in {"viaUnit", "read"},
           cmd' = [cmd EXCEPT ![c].second = TRUE, ![c].pc = pc],
           UNCHANGED <<st, proc, unit, starter, disk, sgh, spentCmd>>
    PROVE  ServiceInv'
<1> USE DEF ServiceInv
<1>1. /\ cmd[c].pc = "verify" /\ UNCHANGED <<st, proc, unit, starter, disk, sgh, spentCmd>>
      /\ cmd[c].job = "update"
  BY DEF CommandsOk, CommandOk, Fits, StartPcs
<1>2. /\ cmd' \in [Cmd -> Command] /\ cmd'[c].pc = pc
      /\ cmd'[c].job = cmd[c].job /\ cmd'[c].copy = cmd[c].copy /\ cmd'[c].pid = cmd[c].pid
      /\ \A d \in Cmd : d # c => cmd'[d] = cmd[d]
  BY DEF ServiceTypes, Command, CmdPcs, StartPcs
<1>3. ServiceTypes'
  BY <1>1, <1>2 DEF ServiceTypes
<1>4. CommandsOk'
  BY <1>1, <1>2, JobsKept DEF CommandsOk, CommandOk, Fits, StartPcs, WithChild, Copying
<1>5. ProcessesOk'
  BY <1>1, <1>2 DEF ProcessesOk, IsUp, UpStates, LockOwner
<1>6. OffOk'
  BY <1>1, <1>2 DEF OffOk, UpStates
<1>7. OnOk'
  BY <1>1, <1>2 DEF OnOk
<1>8. ASSUME ~sgh'.lost PROVE (EndingAlone /\ KnownOk /\ StopOk /\ TriesOk)'
  BY <1>8, <1>1, <1>2, ManagerAssumption DEF EndingAlone, Ending, KnownOk, IsUp, UpStates,
         LockOwner, Serving, Copying, WithChild, StartPcs, StopOk, TriesOk, Healthy
<1> QED BY <1>3, <1>4, <1>5, <1>6, <1>7, <1>8

LEMMA CmdKilledKeeps ==
    ASSUME ServiceInv, NEW c \in Cmd, CmdKilled(c)
    PROVE  ServiceInv'
<1> USE DEF ServiceInv
<1>1. /\ UNCHANGED <<st, proc, unit, disk, spentCmd>> /\ sgh' = [sgh EXCEPT !.lost = TRUE, !.word = "none"]
      /\ cmd' = [cmd EXCEPT ![c] = Idle] /\ starter' = (IF starter = c THEN "none" ELSE starter)
  BY DEF CmdKilled, Answer
<1>2. /\ cmd' \in [Cmd -> Command] /\ cmd'[c] = Idle
      /\ \A d \in Cmd : d # c => cmd'[d] = cmd[d]
      /\ starter' \in Cmd \cup {"none"}
      /\ \A d \in Cmd : cmd'[d].pc \in StartPcs <=> starter' = d
  BY <1>1, Answered
<1>3. /\ sgh' \in SGhost /\ sgh'.alone = sgh.alone /\ sgh'.lost /\ sgh'.word = "none"
  BY <1>1 DEF ServiceTypes, SGhost
<1>4. ServiceTypes'
  BY <1>1, <1>2, <1>3, IdleCommand DEF ServiceTypes
<1>5. CommandsOk'
  BY <1>1, <1>2, <1>3, IdleCommand, JobsKept DEF CommandsOk, CommandOk, Fits, StartPcs, WithChild,
         Copying
<1>6. ProcessesOk'
  BY <1>1, <1>2, <1>3 DEF ProcessesOk, IsUp, UpStates, LockOwner
<1>7. OffOk'
  BY <1>1, <1>2, <1>3, IdleCommand DEF OffOk, UpStates
<1>8. OnOk'
  BY <1>1, <1>2, <1>3, IdleCommand DEF OnOk
<1>9. ASSUME ~sgh'.lost PROVE (EndingAlone /\ KnownOk /\ StopOk /\ TriesOk)'
  BY <1>9, <1>1, <1>2, <1>3, IdleCommand, ManagerAssumption DEF EndingAlone, Ending, KnownOk,
         IsUp, UpStates, LockOwner, Serving, Copying, WithChild, StartPcs, StopOk, TriesOk,
         Healthy
<1> QED BY <1>4, <1>5, <1>6, <1>7, <1>8, <1>9

LEMMA ServiceInitInv == ASSUME ManagerInit PROVE ServiceInv
<1>1. /\ proc = [p \in Pid |-> [s |-> "none", ver |-> "old"]]
      /\ unit = [on |-> FALSE, active |-> FALSE, main |-> NoPid]
      /\ starter = "none" /\ disk = "old" /\ cmd = [c \in Cmd |-> Idle] /\ spentCmd = 0
      /\ sgh = [word |-> "none", tries |-> st.fails, deaths |-> 0, alone |-> {}, lost |-> FALSE]
  BY DEF ManagerInit
<1>2. /\ st \in State /\ (~st.there => ~st.enabled)
      /\ st.fails = 0 \/ (st.fails = Threshold - 1 /\ st.recent)
  <2>1. CASE st = NoState
    BY <2>1, IdleCommand DEF NoState
  <2>2. CASE st # NoState
    <3>1. st = [there |-> TRUE, enabled |-> TRUE, pid |-> NoPid, fails |-> Threshold - 1, recent |-> (Threshold > 1)]
      BY <2>2 DEF ManagerInit
    <3>2. /\ TRUE \in BOOLEAN /\ NoPid \in Pid \cup {NoPid} /\ Threshold - 1 \in Nat
          /\ (Threshold > 1) \in BOOLEAN /\ Threshold > 1
      BY ManagerAssumption
    <3>3. st \in State
      BY <3>1, <3>2, Zenon DEF State
    <3> QED BY <3>1, <3>2, <3>3
  <2> QED BY <2>1, <2>2
<1>3. proc \in [Pid -> Process] /\ \A p \in Pid : proc[p].s = "none"
  BY <1>1 DEF Process
<1>4. unit \in Units /\ unit.main = NoPid /\ ~unit.active
  BY <1>1 DEF Units
<1>5. cmd \in [Cmd -> Command] /\ \A c \in Cmd : cmd[c] = Idle
  BY <1>1, IdleCommand
<1>6. /\ sgh \in SGhost /\ sgh.word = "none" /\ sgh.tries = st.fails /\ sgh.alone = {} /\ ~sgh.lost
  BY <1>2, <1>1 DEF State, SGhost
<1>7. ServiceTypes
  BY <1>1, <1>2, <1>3, <1>4, <1>5, <1>6 DEF ServiceTypes
<1>8. CommandsOk
  BY <1>1, <1>5, <1>6, IdleCommand, ManagerAssumption
  DEF CommandsOk, CommandOk, OneUpdates, AloneIs, Fits, StartPcs, WithChild, Copying
<1>9. ProcessesOk
  BY <1>2, <1>3, <1>4, ManagerAssumption DEF ProcessesOk, LockOwner, IsUp
<1>10. OffOk /\ OnOk
  BY <1>6 DEF OffOk, OnOk
<1>11. EndingAlone /\ KnownOk /\ StopOk
  BY <1>3, <1>5, IdleCommand DEF EndingAlone, Ending, KnownOk, IsUp, UpStates, StopOk
<1>12. TriesOk
  BY <1>2, <1>3, <1>5, <1>6, IdleCommand, ManagerAssumption DEF TriesOk, Healthy, Serving, Copying
<1> QED BY <1>7, <1>8, <1>9, <1>10, <1>11, <1>12 DEF ServiceInv

(* What comes of each step of a command. *)
LEMMA StartStepKeeps ==
    ASSUME ServiceInv, NEW c \in Cmd,
           \/ CheckFirst(c) \/ SpawnChild(c) \/ NotePid(c)
           \/ ChildHealthy(c) \/ HealthTimeout(c) \/ KillChild(c)
    PROVE  ServiceInv'
BY CheckFoundKeeps, CheckNoneKeeps, SpawnFailsKeeps, SpawnKeeps, NotePidKeeps, ChildHealthyKeeps,
   HealthTimeoutKeeps, KillChildKeeps DEF SpawnChild, At

LEMMA DisableUnitKeeps == ASSUME ServiceInv, NEW c \in Cmd, DisableUnit(c) PROVE ServiceInv'
BY UnitStopsKeeps, UnitGoneKeeps, AnswerKeeps DEF DisableUnit, At, Answer

LEMMA StopKeeps == ASSUME ServiceInv, NEW c \in Cmd, StopRead(c) \/ StopDone(c) PROVE ServiceInv'
BY OneListens, StopReadKeeps, AnswerKeeps, StopOffKeeps, StopGoesOnKeeps DEF ServiceInv,
       ServiceTypes, State, Serving, StopRead, StopDone, At, Answer

LEMMA RestartKeeps == ASSUME ServiceInv, NEW c \in Cmd, Look(c) \/ ViaUnit(c) \/ Verify(c) PROVE ServiceInv'
BY LookGoesKeeps, AnswerKeeps, UnitStopsKeeps, UnitStartsKeeps, FallBackKeeps, SecondRoundKeeps
   DEF Look, Answer, At, ViaUnit, ServiceInv, ServiceTypes, Units, Verify

LEMMA ServiceNextKeeps == ASSUME ServiceInv, ManagerNext \/ UNCHANGED managerVars PROVE ServiceInv'
<1>1. ASSUME NEW c \in Cmd, CmdStep(c) PROVE ServiceInv'
  BY BeginKeeps, StartLockKeeps, StartStepKeeps, DisableUnitKeeps, StopKeeps, MigrateKeeps,
     EnableUnitKeeps, RestartKeeps, CmdKilledKeeps, <1>1 DEF CmdStep
<1>2. ASSUME NEW p \in Pid, ProcStep(p) PROVE ServiceInv'
  BY TakesLockKeeps, FindsLockKeeps, ServesKeeps, EndsKeeps, DiesKeeps, <1>2 DEF ProcStep
<1>3. CASE SupervisorRestarts
  BY <1>3, SupervisorKeeps
<1>4. CASE WindowPasses
  BY <1>4, WindowKeeps
<1>5. CASE UNCHANGED managerVars
  <2>1. UNCHANGED <<st, proc, unit, starter, disk, cmd, sgh, spentCmd>>
    BY <1>5 DEF managerVars
  <2>2. /\ (ServiceTypes' <=> ServiceTypes) /\ (CommandsOk' <=> CommandsOk) /\ (ProcessesOk' <=> ProcessesOk)
    BY <2>1 DEF ServiceTypes, CommandsOk, CommandOk, OneUpdates, AloneIs, ProcessesOk, LockOwner, IsUp
  <2>3. /\ (OffOk' <=> OffOk) /\ (OnOk' <=> OnOk) /\ (EndingAlone' <=> EndingAlone) /\ (KnownOk' <=> KnownOk)
    BY <2>1 DEF OffOk, OnOk, EndingAlone, KnownOk, IsUp
  <2>4. (StopOk' <=> StopOk) /\ (TriesOk' <=> TriesOk) /\ (sgh'.lost <=> sgh.lost)
    BY <2>1 DEF StopOk, TriesOk, Healthy, Serving
  <2> QED BY <2>2, <2>3, <2>4 DEF ServiceInv
<1> QED BY <1>1, <1>2, <1>3, <1>4, <1>5 DEF ManagerNext

(* What holds of the manager service at every step: who holds the start     *)
(* lock, which process of the service is up and why, what the user's last   *)
(* word leaves, and where a failed start is counted.                        *)
THEOREM ServiceInvariant == ManagerSpec => []ServiceInv
<1>1. ManagerInit => ServiceInv
  BY ServiceInitInv
<1>2. ServiceInv /\ [ManagerNext]_managerVars => ServiceInv'
  BY ServiceNextKeeps
<1> QED BY <1>1, <1>2, PTL DEF ManagerSpec

LEMMA OneOwns == ASSUME ProcessesOk PROVE Cardinality(LockOwner) <= 1
<1>1. CASE LockOwner = {}
  BY <1>1, FS_EmptySet
<1>2. CASE LockOwner # {}
  <2>1. PICK p \in LockOwner : TRUE
    BY <1>2
  <2>2. LockOwner = {p}
    BY <2>1 DEF ProcessesOk
  <2> QED BY <2>2, FS_Singleton
<1> QED BY <1>1, <1>2

(* After `lwa manager off` has answered nothing runs and nothing starts,    *)
(* what the user switched on stays wanted, and a service that fails to      *)
(* start is tried by updates at most Threshold times: for any commands at   *)
(* a time, processes and threshold of at least two.                         *)
THEOREM ManagerStaysObedient == ManagerSpec => []ManagerObeys
<1>1. ASSUME ServiceInv PROVE ManagerObeys
  BY <1>1, OneOwns DEF ServiceInv, ManagerTypeOK, ServiceTypes, Process, Units, OffStands, OffOk,
         UpStates, IntentKept, OnOk, CircuitHolds, TriesOk, ManagerObeys
<1>2. ServiceInv => ManagerObeys
  BY <1>1
<1> QED BY <1>2, ServiceInvariant, PTL

(***************************************************************************)
(* The page.                                                               *)
(***************************************************************************)

Overall == {"unknown", "unready", "degraded", "ready"}
Report  == [n : Nat, docker : Access, gateway : {"unknown", "failing", "ready"}, overall : Overall]
Probing == {"surveys", "saves", "done", "failed"}
ThreadPcs == Probing \cup {"idle", "waits", "answers", "raises", "marks"}

PageTypes ==
    /\ host \in [profile : {"default", "full"}, docker : Access,
                 gateway : {"unknown", "failing", "ready"}]
    /\ shared \in [on : BOOLEAN, result : Report, failed : BOOLEAN]
    /\ asker \in [Thread -> [pc : ThreadPcs, copy : Report]]
    /\ page \in Report
    /\ saved \in [report : Report, fresh : BOOLEAN]
    /\ heard \in [Thread -> SUBSET Nat]
    /\ spent \in [survey : 0 .. MaxSurvey, upset : 0 .. MaxUpset]

(* One thread probes, and what the probe leaves is its own. *)
ProbeOk ==
    /\ \A t, u \in Thread : asker[t].pc \in Probing /\ asker[u].pc \in Probing => t = u
    /\ shared.on <=> \E t \in Thread : asker[t].pc \in Probing
    /\ \A t \in Thread :
          /\ asker[t].pc \in {"surveys", "saves"} => ~shared.failed /\ shared.result.n = 0
          /\ asker[t].pc = "done" => ~shared.failed /\ shared.result = asker[t].copy /\ shared.result.n > 0
          /\ asker[t].pc = "failed" => shared.failed

(* Who waits has heard the end of the probe that is over. *)
HeardOk ==
    \A t \in Thread :
        /\ asker[t].pc = "waits" /\ ~shared.on =>
              IF shared.failed THEN 0 \in heard[t] ELSE shared.result.n > 0 /\ shared.result.n \in heard[t]
        /\ asker[t].pc = "answers" => asker[t].copy.n \in heard[t]
        /\ asker[t].pc = "raises" => 0 \in heard[t]

(* No report is newer than the file, but one about to be saved.             *)
FileOk ==
    /\ page.n <= saved.report.n /\ shared.result.n <= saved.report.n
    /\ saved.report.n <= spent.survey
    /\ \A t \in Thread :
          /\ asker[t].pc \in {"done", "answers", "marks"} => asker[t].copy.n <= saved.report.n
          /\ asker[t].pc = "saves" => asker[t].copy.n > saved.report.n /\ asker[t].copy.n <= spent.survey

(* A report that came of no probe calls nothing ready. *)
Modest(r) == r.n = 0 => r.overall # "ready"
ModestOk ==
    /\ Modest(page) /\ Modest(saved.report) /\ Modest(shared.result)
    /\ \A t \in Thread : Modest(asker[t].copy)

PageInv == PageTypes /\ ProbeOk /\ HeardOk /\ FileOk /\ ModestOk

LEMMA ReportsExist ==
    /\ NoSurvey \in Report /\ Modest(NoSurvey) /\ NoSurvey.n = 0
    /\ Nothing \in [on : BOOLEAN, result : Report, failed : BOOLEAN]
    /\ Underway \in [on : BOOLEAN, result : Report, failed : BOOLEAN]
    /\ ~Nothing.on /\ Underway.on
    /\ \A s \in {Nothing, Underway} : s.result = NoSurvey /\ ~s.failed
<1>1. NoSurvey \in Report /\ Modest(NoSurvey) /\ NoSurvey.n = 0
  BY DEF NoSurvey, Report, Modest, Access, Overall
<1>2. Nothing \in [on : BOOLEAN, result : Report, failed : BOOLEAN]
  BY <1>1 DEF Nothing
<1>3. /\ ~Nothing.on /\ Nothing.result = NoSurvey /\ ~Nothing.failed
  BY DEF Nothing
<1>4. /\ Underway \in [on : BOOLEAN, result : Report, failed : BOOLEAN]
      /\ Underway.on /\ Underway.result = Nothing.result /\ Underway.failed = Nothing.failed
  BY <1>2 DEF Underway
<1> QED BY <1>1, <1>2, <1>3, <1>4

(* Steps of one thread that leave the others as they are.                   *)
LEMMA UpsetCounted ==
    ASSUME PageTypes, Upset
    PROVE  /\ spent' \in [survey : 0 .. MaxSurvey, upset : 0 .. MaxUpset]
           /\ spent'.survey = spent.survey
BY PageAssumption DEF PageTypes, Upset

LEMMA AsksKeeps ==
    ASSUME PageInv, NEW t \in Thread, Asks(t)
    PROVE  PageInv'
<1> USE DEF PageInv
<1>1. /\ asker[t].pc = "idle" /\ heard' = [heard EXCEPT ![t] = {}]
      /\ UNCHANGED <<host, page, saved, spent>>
  BY DEF Asks, Stands
<1>2. PICK pc \in {"waits", "surveys"} :
         /\ asker' = [asker EXCEPT ![t].pc = pc]
         /\ pc = "waits" => shared.on /\ shared' = shared
         /\ pc = "surveys" => ~shared.on /\ shared' = Underway
  BY DEF Asks, Goes
<1>3. /\ asker' \in [Thread -> [pc : ThreadPcs, copy : Report]]
      /\ asker'[t].pc = pc /\ asker'[t].copy = asker[t].copy
      /\ \A u \in Thread : u # t => asker'[u] = asker[u]
      /\ heard' \in [Thread -> SUBSET Nat] /\ heard'[t] = {}
      /\ \A u \in Thread : u # t => heard'[u] = heard[u]
  BY <1>1, <1>2 DEF PageTypes, ThreadPcs, Probing
<1>4. PageTypes'
  BY <1>1, <1>2, <1>3, ReportsExist DEF PageTypes
<1>5. ProbeOk'
  BY <1>1, <1>2, <1>3, ReportsExist DEF ProbeOk, Probing
<1>6. HeardOk'
  BY <1>1, <1>2, <1>3, ReportsExist DEF HeardOk
<1>7. FileOk' /\ ModestOk'
  BY <1>1, <1>2, <1>3, ReportsExist DEF FileOk, ModestOk, Modest, PageTypes, Report
<1> QED BY <1>4, <1>5, <1>6, <1>7

(* A probe that fails is over for those who wait, too. *)
LEMMA FailsKeeps ==
    ASSUME PageInv, NEW t \in Thread, asker[t].pc \in {"surveys", "saves"}, Fails(t)
    PROVE  PageInv'
<1> USE DEF PageInv
<1>1. /\ UNCHANGED <<host, page, saved, heard>> /\ Upset
      /\ asker' = [asker EXCEPT ![t].pc = "failed"] /\ shared' = [shared EXCEPT !.failed = TRUE]
  BY DEF Fails, Goes
<1>2. /\ asker' \in [Thread -> [pc : ThreadPcs, copy : Report]]
      /\ asker'[t].pc = "failed" /\ asker'[t].copy = asker[t].copy
      /\ \A u \in Thread : u # t => asker'[u] = asker[u]
  BY <1>1 DEF PageTypes, ThreadPcs, Probing
<1>3. /\ shared' \in [on : BOOLEAN, result : Report, failed : BOOLEAN]
      /\ shared'.on = shared.on /\ shared'.result = shared.result /\ shared'.failed /\ shared.on
  BY <1>1 DEF PageTypes, ProbeOk, Probing
<1>4. PageTypes'
  BY <1>1, <1>2, <1>3, UpsetCounted DEF PageTypes
<1>5. ProbeOk'
  BY <1>1, <1>2, <1>3 DEF ProbeOk, Probing
<1>6. HeardOk'
  BY <1>1, <1>2, <1>3 DEF HeardOk
<1>7. FileOk' /\ ModestOk'
  BY <1>1, <1>2, <1>3, UpsetCounted DEF FileOk, ModestOk, Modest
<1> QED BY <1>4, <1>5, <1>6, <1>7

(* The probe is the newest, and judges what it found. *)
LEMMA SurveysKeeps ==
    ASSUME PageInv, NEW t \in Thread, Surveys(t)
    PROVE  PageInv'
<1> USE DEF PageInv
<1>1. asker[t].pc = "surveys"
  BY DEF Surveys, Stands
<1>2. CASE Fails(t)
  BY <1>1, <1>2, FailsKeeps
<1>3. CASE /\ spent.survey < MaxSurvey /\ spent' = [spent EXCEPT !.survey = @ + 1]
           /\ asker' = [asker EXCEPT ![t] = [pc |-> "saves", copy |-> Survey(spent'.survey)]]
           /\ UNCHANGED <<host, shared, page, saved, heard>>
  <2>1. /\ spent' \in [survey : 0 .. MaxSurvey, upset : 0 .. MaxUpset]
        /\ spent'.survey = spent.survey + 1
    BY <1>3, PageAssumption DEF PageTypes
  <2>2. Survey(spent'.survey) \in Report /\ Survey(spent'.survey).n = spent.survey + 1
    BY <2>1 DEF Judged, Overall, Survey, Report, PageTypes
  <2> DEFINE c == Survey(spent'.survey)
  <2>3. asker' = [asker EXCEPT ![t] = [pc |-> "saves", copy |-> c]] /\ c \in Report /\ c.n = spent.survey + 1
    BY <1>3, <2>2
  <2> HIDE DEF c
  <2>4. /\ asker' \in [Thread -> [pc : ThreadPcs, copy : Report]]
        /\ asker'[t].pc = "saves" /\ asker'[t].copy = c
        /\ \A u \in Thread : u # t => asker'[u] = asker[u]
    BY <2>3 DEF PageTypes, ThreadPcs, Probing
  <2>5. PageTypes'
    BY <1>3, <2>1, <2>4 DEF PageTypes
  <2>6. ProbeOk'
    BY <1>1, <1>3, <2>4 DEF ProbeOk, Probing
  <2>7. HeardOk'
    BY <1>3, <2>4 DEF HeardOk
  <2>8. FileOk'
    BY <1>1, <1>3, <2>1, <2>3, <2>4 DEF FileOk, PageTypes, Report, ProbeOk, Probing
  <2>9. ModestOk'
    BY <1>3, <2>3, <2>4 DEF ModestOk, Modest, PageTypes
  <2> QED BY <2>5, <2>6, <2>7, <2>8, <2>9
<1> QED BY <1>2, <1>3 DEF Surveys

(* The file first, then what the others read. *)
LEMMA SavesReportKeeps ==
    ASSUME PageInv, NEW t \in Thread, SavesReport(t)
    PROVE  PageInv'
<1> USE DEF PageInv
<1>1. asker[t].pc = "saves"
  BY DEF SavesReport, Stands
<1>2. CASE Fails(t)
  BY <1>1, <1>2, FailsKeeps
<1>3. CASE /\ saved' = [report |-> asker[t].copy, fresh |-> TRUE]
           /\ shared' = [shared EXCEPT !.result = asker[t].copy]
           /\ Goes(t, "done")
           /\ UNCHANGED <<host, page, heard, spent>>
  <2>1. asker[t].copy \in Report
    BY DEF PageTypes
  <2>2. /\ asker' \in [Thread -> [pc : ThreadPcs, copy : Report]]
        /\ asker'[t].pc = "done" /\ asker'[t].copy = asker[t].copy
        /\ \A u \in Thread : u # t => asker'[u] = asker[u]
    BY <1>3 DEF PageTypes, ThreadPcs, Probing, Goes
  <2>3. saved' \in [report : Report, fresh : BOOLEAN] /\ saved'.report = asker[t].copy
    BY <1>3, <2>1
  <2>4. /\ shared' \in [on : BOOLEAN, result : Report, failed : BOOLEAN]
        /\ shared'.on = shared.on /\ shared'.result = asker[t].copy /\ shared'.failed = shared.failed
        /\ shared.on
    BY <1>1, <1>3, <2>1 DEF PageTypes, ProbeOk, Probing
  <2>5. PageTypes'
    BY <1>3, <2>2, <2>3, <2>4 DEF PageTypes
  <2>6. asker[t].copy.n > 0
    BY <1>1, <2>1 DEF FileOk, PageTypes, Report
  <2>7. ProbeOk'
    BY <1>1, <1>3, <2>2, <2>4, <2>6 DEF ProbeOk, Probing
  <2>8. HeardOk'
    BY <1>3, <2>2, <2>4 DEF HeardOk
  <2>9. FileOk'
    BY PageAssumption, <1>1, <1>3, <2>2, <2>3, <2>4 DEF PageTypes, Report, ProbeOk, Probing,
           FileOk
  <2>10. ModestOk'
    BY <1>3, <2>2, <2>3, <2>4 DEF ModestOk, Modest
  <2> QED BY <2>5, <2>7, <2>8, <2>9, <2>10
<1> QED BY <1>2, <1>3 DEF SavesReport

(* Everybody who waits hears how the probe ended. *)
LEMMA WakesKeeps ==
    ASSUME PageInv, NEW t \in Thread, Wakes(t)
    PROVE  PageInv'
<1> USE DEF PageInv
<1> DEFINE ended == IF Stands(t, "done") THEN asker[t].copy.n ELSE 0
           next == IF Stands(t, "done") THEN "answers" ELSE "raises"
<1>1. /\ asker[t].pc \in {"done", "failed"} /\ UNCHANGED <<host, page, saved, spent>>
      /\ asker' = [asker EXCEPT ![t].pc = next] /\ shared' = [shared EXCEPT !.on = FALSE]
      /\ heard' = [u \in Thread |-> IF u = t \/ asker[u].pc = "waits" THEN heard[u] \cup {ended} ELSE heard[u]]
  BY DEF Wakes, Goes, Stands
<1>2. /\ ended \in Nat /\ next \in {"answers", "raises"}
      /\ next = "answers" => asker[t].pc = "done" /\ ended = asker[t].copy.n
      /\ next = "raises" => asker[t].pc = "failed" /\ ended = 0
  BY <1>1 DEF PageTypes, Report, Stands
<1> HIDE DEF ended, next
<1>3. /\ asker' \in [Thread -> [pc : ThreadPcs, copy : Report]]
      /\ asker'[t].pc = next /\ asker'[t].copy = asker[t].copy
      /\ \A u \in Thread : u # t => asker'[u] = asker[u]
  BY <1>1, <1>2 DEF PageTypes, ThreadPcs
<1>4. /\ shared' \in [on : BOOLEAN, result : Report, failed : BOOLEAN]
      /\ ~shared'.on /\ shared'.result = shared.result /\ shared'.failed = shared.failed
  BY <1>1 DEF PageTypes
<1>5. /\ heard' \in [Thread -> SUBSET Nat] /\ ended \in heard'[t]
      /\ \A u \in Thread : heard[u] \subseteq heard'[u]
      /\ \A u \in Thread : asker[u].pc = "waits" => ended \in heard'[u]
  BY <1>1, <1>2 DEF PageTypes
<1>6. PageTypes'
  BY <1>1, <1>3, <1>4, <1>5 DEF PageTypes
<1>7. ProbeOk'
  BY <1>1, <1>2, <1>3, <1>4 DEF ProbeOk, Probing
<1>8. HeardOk'
  BY <1>1, <1>2, <1>3, <1>5, <1>4 DEF ProbeOk, HeardOk
<1>9. FileOk' /\ ModestOk'
  BY <1>1, <1>2, <1>3, <1>4 DEF FileOk, ModestOk, Modest
<1> QED BY <1>6, <1>7, <1>8, <1>9

(* A thread that waited takes what is there when nobody probes. *)
LEMMA ListensKeeps ==
    ASSUME PageInv, NEW t \in Thread, Listens(t)
    PROVE  PageInv'
<1> USE DEF PageInv
<1>1. /\ asker[t].pc = "waits" /\ ~shared.on /\ UNCHANGED <<host, shared, page, saved, heard, spent>>
  BY DEF Listens, Stands
<1>2. PICK c \in Report, pc \in {"answers", "raises"} :
         /\ asker' = [asker EXCEPT ![t] = [pc |-> pc, copy |-> c]]
         /\ pc = "raises" => c = asker[t].copy /\ shared.failed
         /\ pc = "answers" => c = shared.result /\ ~shared.failed
  <2>1. CASE shared.failed \/ shared.result.n = 0
    <3>1. asker' = [asker EXCEPT ![t] = [asker[t] EXCEPT !.pc = "raises"]] /\ shared.failed
      <4>1. shared.failed
        BY <1>1, <2>1 DEF HeardOk
      <4> QED BY <2>1, <4>1 DEF Listens
    <3>2. /\ [asker[t] EXCEPT !.pc = "raises"] = [pc |-> "raises", copy |-> asker[t].copy]
          /\ asker[t].copy \in Report
      BY DEF PageTypes
    <3> QED BY <3>1, <3>2
  <2>2. CASE ~(shared.failed \/ shared.result.n = 0)
    BY <2>2 DEF Listens, PageTypes
  <2> QED BY <2>1, <2>2
<1>3. /\ asker' \in [Thread -> [pc : ThreadPcs, copy : Report]]
      /\ asker'[t].pc = pc /\ asker'[t].copy = c
      /\ \A u \in Thread : u # t => asker'[u] = asker[u]
  BY <1>2 DEF PageTypes, ThreadPcs
<1>4. PageTypes'
  BY <1>1, <1>3 DEF PageTypes
<1>5. ProbeOk'
  BY <1>1, <1>2, <1>3 DEF ProbeOk, Probing
<1>6. HeardOk'
  BY <1>1, <1>2, <1>3 DEF HeardOk
<1>7. FileOk' /\ ModestOk'
  BY <1>1, <1>2, <1>3 DEF FileOk, ModestOk, Modest
<1> QED BY <1>4, <1>5, <1>6, <1>7

(* What is put into memory is no newer than the file, whatever came between. *)
LEMMA SurveyEndsKeeps ==
    ASSUME PageInv, NEW t \in Thread,
           \/ Publishes(t) \/ RefusesRequest(t) \/ (CopiesPage /\ t = "background")
           \/ (MarksFailed /\ t = "background")
    PROVE  PageInv'
<1> USE DEF PageInv
<1>1. /\ UNCHANGED <<host, shared, saved, heard, spent>>
      /\ asker[t].pc \in {"answers", "raises", "marks"}
  BY DEF Publishes, RefusesRequest, CopiesPage, MarksFailed, Stands
<1>2. PICK c \in {NoSurvey, page}, pc \in {"idle", "marks"} :
         asker' = [asker EXCEPT ![t] = [pc |-> pc, copy |-> c]]
  BY DEF Publishes, RefusesRequest, CopiesPage, MarksFailed, Rests
<1>3. page' \in Report /\ page'.n <= saved.report.n /\ Modest(page')
  <2>1. CASE Publishes(t)
    BY <2>1 DEF Publishes, Stands, PageTypes, FileOk, ModestOk
  <2>2. CASE RefusesRequest(t) \/ CopiesPage
    BY <2>2 DEF RefusesRequest, CopiesPage, PageTypes, FileOk, ModestOk
  <2>3. CASE MarksFailed /\ t = "background"
    BY <2>3 DEF MarksFailed, Stands, PageTypes, FileOk, Modest, Report, Overall
  <2> QED BY <2>1, <2>2, <2>3
<1>4. c \in Report /\ c.n <= saved.report.n /\ Modest(c)
  BY ReportsExist DEF PageTypes, FileOk, ModestOk, Report
<1>5. /\ asker' \in [Thread -> [pc : ThreadPcs, copy : Report]]
      /\ asker'[t].pc = pc /\ asker'[t].copy = c
      /\ \A u \in Thread : u # t => asker'[u] = asker[u]
  BY <1>2, <1>4 DEF PageTypes, ThreadPcs
<1>6. PageTypes'
  BY <1>1, <1>3, <1>5 DEF PageTypes
<1>7. ProbeOk'
  BY <1>1, <1>2, <1>5 DEF ProbeOk, Probing
<1>8. HeardOk'
  BY <1>1, <1>2, <1>5 DEF HeardOk
<1>9. FileOk' /\ ModestOk'
  BY <1>1, <1>2, <1>3, <1>4, <1>5 DEF FileOk, ModestOk, Modest
<1> QED BY <1>6, <1>7, <1>8, <1>9

(* The manager that is started anew knows what the file says, or nothing. *)
LEMMA RestartsKeeps ==
    ASSUME PageInv, NEW old \in {saved, [report |-> NoSurvey, fresh |-> FALSE]}, Restarts(old)
    PROVE  PageInv'
<1> USE DEF PageInv
<1>1. /\ saved' = old /\ page' = Remembered(old) /\ shared' = Nothing /\ UNCHANGED host /\ Upset
      /\ asker' = [t \in Thread |-> [pc |-> "idle", copy |-> NoSurvey]]
      /\ heard' = [t \in Thread |-> {}]
  BY DEF Restarts
<1>2. /\ old \in [report : Report, fresh : BOOLEAN] /\ old.report.n <= spent.survey
      /\ Modest(old.report)
  <2>1. CASE old = saved
    BY <2>1 DEF PageTypes, FileOk, ModestOk
  <2>2. CASE old = [report |-> NoSurvey, fresh |-> FALSE]
    BY <2>2, ReportsExist DEF PageTypes
  <2> QED BY <2>1, <2>2
<1>3. page' \in {old.report, NoSurvey}
  BY <1>1 DEF Remembered
<1>4. /\ asker' \in [Thread -> [pc : ThreadPcs, copy : Report]] /\ heard' \in [Thread -> SUBSET Nat]
      /\ \A t \in Thread : asker'[t].pc = "idle" /\ asker'[t].copy = NoSurvey
  BY <1>1, ReportsExist DEF ThreadPcs
<1>5. PageTypes'
  BY <1>1, <1>2, <1>3, <1>4, ReportsExist, UpsetCounted DEF PageTypes
<1>6. ProbeOk' /\ HeardOk'
  BY <1>1, <1>4, ReportsExist DEF ProbeOk, HeardOk, Probing
<1>7. FileOk' /\ ModestOk'
  BY <1>1, <1>2, <1>3, <1>4, ReportsExist, UpsetCounted DEF FileOk, ModestOk, Report
<1> QED BY <1>5, <1>6, <1>7

(* Docker, the gateway and the age of the file are not the threads' matter. *)
LEMMA HostKeeps ==
    ASSUME PageInv,
           \/ \E d \in Access : DockerTurns(d)
           \/ \E g \in {"unknown", "failing", "ready"} : GatewayReports(g)
           \/ ReportAges
    PROVE  PageInv'
<1> USE DEF PageInv
<1>1. /\ UNCHANGED <<shared, asker, page, heard>> /\ saved'.report = saved.report
      /\ saved' \in [report : Report, fresh : BOOLEAN] /\ spent'.survey = spent.survey
      /\ spent' \in [survey : 0 .. MaxSurvey, upset : 0 .. MaxUpset]
      /\ host' \in [profile : {"default", "full"}, docker : Access, gateway : {"unknown", "failing", "ready"}]
  BY UpsetCounted DEF DockerTurns, GatewayReports, ReportAges, PageTypes
<1>2. PageTypes'
  BY <1>1 DEF PageTypes
<1> QED BY <1>1, <1>2 DEF ProbeOk, HeardOk, FileOk, ModestOk, Modest

LEMMA PageInitInv == PageInit => PageInv
BY ReportsExist, PageAssumption DEF PageInit, ThreadPcs, Access, PageTypes, ProbeOk, HeardOk,
       Probing, FileOk, ModestOk, PageInv

LEMMA PageNextKeeps == PageInv /\ [PageNext]_pageVars => PageInv'
<1> SUFFICES ASSUME PageInv, [PageNext]_pageVars PROVE PageInv'
  OBVIOUS
<1>1. CASE UNCHANGED pageVars
  BY <1>1 DEF PageInv, PageTypes, ProbeOk, HeardOk, FileOk, ModestOk, Modest, pageVars
<1>2. ASSUME NEW t \in Thread, Asks(t) \/ Surveys(t) \/ SavesReport(t) \/ Wakes(t) \/ Listens(t)
      PROVE  PageInv'
  BY <1>2, AsksKeeps, SurveysKeeps, SavesReportKeeps, WakesKeeps, ListensKeeps
<1>3. ASSUME NEW t \in Thread, Publishes(t) \/ RefusesRequest(t) PROVE PageInv'
  BY <1>3, SurveyEndsKeeps
<1>4. CASE CopiesPage \/ MarksFailed
  BY <1>4, SurveyEndsKeeps DEF Thread
<1>5. ASSUME NEW old \in {saved, [report |-> NoSurvey, fresh |-> FALSE]}, Restarts(old) PROVE PageInv'
  BY <1>5, RestartsKeeps
<1>6. CASE \/ \E d \in Access : DockerTurns(d)
           \/ \E g \in {"unknown", "failing", "ready"} : GatewayReports(g)
           \/ ReportAges
  BY <1>6, HostKeeps
<1> QED BY <1>1, <1>2, <1>3, <1>4, <1>5, <1>6 DEF PageNext

(* One thread probes, whoever waits has heard of its end when it is over,    *)
(* and only a report about to be saved is newer than the file                *)
(* (manager_api.py:721-762).                                                 *)
THEOREM PageInvariant == PageSpec => []PageInv
<1> QED BY PageInitInv, PageNextKeeps, PTL DEF PageSpec

(* For any number of requests at a time, probes, failures and restarts: one  *)
(* probe at a time (BUG-379), an answer tells of a probe that ended after    *)
(* the question, memory and file never show what was not probed, and         *)
(* /api/health calls nothing ready before the first probe (BUG-257).         *)
THEOREM PageStaysHonest == PageSpec => []PageIsHonest
<1>1. PageInv => PageIsHonest
  <2> SUFFICES ASSUME PageInv PROVE PageIsHonest
    OBVIOUS
  <2>1. PageTypeOK
    BY DEF PageInv, PageTypes, PageTypeOK, Report, Overall
  <2>2. OneSurvey
    <3> DEFINE S == {t \in Thread : asker[t].pc \in {"surveys", "saves", "done", "failed"}}
    <3>1. \A t, u \in S : t = u
      BY DEF PageInv, ProbeOk, Probing
    <3>2. S = {} \/ \E t \in S : S = {t}
      BY <3>1
    <3> HIDE DEF S
    <3>3. Cardinality(S) <= 1
      BY <3>2, FS_EmptySet, FS_Singleton
    <3>4. shared.on <=> \E t \in Thread : asker[t].pc \in {"surveys", "saves", "done", "failed"}
      BY DEF PageInv, ProbeOk, Probing
    <3> QED BY <3>3, <3>4 DEF OneSurvey, S
  <2>3. AnswersAreHeard
    BY DEF PageInv, HeardOk, AnswersAreHeard, Stands
  <2>4. FileLeads
    BY DEF PageInv, FileOk, FileLeads, Stands
  <2>5. ReadyWasProbed
    BY DEF PageInv, ModestOk, Modest, Health, Overlaid, PageTypes, Report, ReadyWasProbed
  <2> QED BY <2>1, <2>2, <2>3, <2>4, <2>5 DEF PageIsHonest
<1> QED BY <1>1, PageInvariant, PTL

(***************************************************************************)
(* The token.                                                              *)
(***************************************************************************)

KeeperPcs == {"idle", "looks", "issues", "writes", "prints"}

TokenTypes ==
    /\ counts \in [issue : Nat, print : Nat, lapse : Nat]
    /\ file \in [reads : BOOLEAN, token : 0 .. counts.issue, dated : BOOLEAN, old : BOOLEAN]
    /\ keeper \in [Keeper -> [pc : KeeperPcs, token : 0 .. counts.issue, found : 0 .. counts.issue]]
    /\ printed \in 0 .. counts.issue
    /\ told \in [replaced : SUBSET (1 .. counts.issue), crossed : BOOLEAN]
    /\ ~file.reads => file = NoFile
    /\ file.reads => file.token # 0
    /\ \A k \in Keeper : In(k, "writes") => keeper[k].token # 0

(* A keeper writes a new token only over a file that is missing or due; the *)
(* other writers give a file of an older version its date.                  *)
WritersOk ==
    \A k \in Keeper : In(k, "writes") =>
        \/ ~file.reads \/ (file.dated /\ file.old)
        \/ ~file.dated /\ keeper[k].token = file.token
PrintedOk == printed # 0 => file.reads /\ file.token = printed /\ ~file.old
(* Nobody is about to write a token that was replaced. *)
ReplacedOk ==
    /\ file.token \notin told.replaced
    /\ \A k \in Keeper : In(k, "writes") => keeper[k].token \notin told.replaced

TokenInv == TokenTypes /\ (~told.crossed => WritersOk /\ PrintedOk /\ ReplacedOk)

(* Issuing a token is what counts it. *)
LEMMA TokenCounts ==
    ASSUME TokenTypes, NEW c \in {"issue", "print", "lapse"},
           counts' = [counts EXCEPT ![c] = @ + 1]
    PROVE  /\ counts' \in [issue : Nat, print : Nat, lapse : Nat]
           /\ counts'.issue = IF c = "issue" THEN counts.issue + 1 ELSE counts.issue
BY DEF TokenTypes

(* A check looks at the metadata of the file. *)
LEMMA LooksKeeps ==
    ASSUME TokenInv, NEW k \in Keeper, Looks(k), UNCHANGED <<file, printed, told>>
    PROVE  TokenInv'
<1> USE DEF TokenInv
<1>1. PICK pc \in {"idle", "prints", "issues", "writes"}, t \in 0 .. counts'.issue :
         /\ Moves(k, pc, t) /\ counts' \in [issue : Nat, print : Nat, lapse : Nat]
         /\ counts.issue <= counts'.issue
         /\ pc = "writes" => \/ (file.dated /\ file.old /\ t = counts.issue + 1)
                            \/ (file.reads /\ ~file.dated /\ t = file.token)
  BY TokenCounts DEF TokenTypes, Minted, Spends, AndThen, Looks
<1>2. /\ keeper'[k] = [pc |-> pc, token |-> t, found |-> keeper[k].found]
      /\ keeper' = [keeper EXCEPT ![k] = [@ EXCEPT !.pc = pc, !.token = t]]
      /\ \A j \in Keeper : j # k => keeper'[j] = keeper[j]
  BY <1>1 DEF KeeperPcs, Moves, TokenTypes
<1>3. TokenTypes'
  BY <1>1, <1>2 DEF TokenTypes, KeeperPcs, In
<1>4. ASSUME ~told.crossed PROVE (WritersOk /\ PrintedOk /\ ReplacedOk)'
  BY <1>1, <1>2, <1>4 DEF WritersOk, PrintedOk, In, ReplacedOk, TokenTypes
<1> QED BY <1>3, <1>4

(* ensure_token mints only where no file reads. *)
LEMMA IssuesTokenKeeps ==
    ASSUME TokenInv, NEW k \in Keeper, IssuesToken(k)
    PROVE  TokenInv'
<1> USE DEF TokenInv
<1>0. UNCHANGED <<file, printed, told>>
  BY DEF IssuesToken
<1>1. PICK pc \in {"idle", "prints", "writes"}, t \in 0 .. counts'.issue :
         /\ Moves(k, pc, t) /\ counts' \in [issue : Nat, print : Nat, lapse : Nat]
         /\ counts.issue <= counts'.issue
         /\ pc = "writes" => ~file.reads /\ t = counts.issue + 1
  BY TokenCounts DEF TokenTypes, AndThen, Minted, Spends, IssuesToken
<1>2. /\ keeper'[k] = [pc |-> pc, token |-> t, found |-> keeper[k].found]
      /\ keeper' = [keeper EXCEPT ![k] = [@ EXCEPT !.pc = pc, !.token = t]]
      /\ \A j \in Keeper : j # k => keeper'[j] = keeper[j]
  BY ZenonT(60), <1>1 DEF KeeperPcs, Moves, TokenTypes
<1>3. TokenTypes'
  BY <1>0, <1>1, <1>2 DEF TokenTypes, KeeperPcs, In
<1>4. ASSUME ~told.crossed PROVE (WritersOk /\ PrintedOk /\ ReplacedOk)'
  BY <1>0, <1>1, <1>2, <1>4 DEF WritersOk, PrintedOk, In, ReplacedOk, TokenTypes
<1> QED BY <1>0, <1>3, <1>4

(* The first of several writers is not told of the others; then they cross. *)
LEMMA WritesTokenKeeps ==
    ASSUME TokenInv, NEW k \in Keeper, WritesToken(k)
    PROVE  TokenInv'
<1> USE DEF TokenInv
<1>1. CASE Spends("lapse", MaxLapse) /\ Moves(k, "idle", 0) /\ UNCHANGED <<file, told, printed>>
  <2>1. /\ counts' \in [issue : Nat, print : Nat, lapse : Nat] /\ counts'.issue = counts.issue
        /\ keeper'[k] = [pc |-> "idle", token |-> 0, found |-> keeper[k].found]
        /\ keeper' = [keeper EXCEPT ![k] = [@ EXCEPT !.pc = "idle", !.token = 0]]
        /\ \A j \in Keeper : j # k => keeper'[j] = keeper[j]
    BY ZenonT(60), <1>1, TokenCounts DEF KeeperPcs, Moves, Spends, TokenTypes
  <2>2. TokenTypes'
    BY <1>1, <2>1 DEF TokenTypes, KeeperPcs, In
  <2> QED BY <1>1, <2>1, <2>2 DEF WritersOk, PrintedOk, ReplacedOk, In
<1>2. CASE /\ file' = [reads |-> TRUE, token |-> keeper[k].token, dated |-> TRUE, old |-> FALSE]
           /\ told' = [replaced |-> told.replaced \cup ({file.token} \ {0, keeper[k].token}),
                       crossed |-> told.crossed \/ \E j \in Keeper \ {k} : In(j, "writes")]
           /\ Moves(k, AndThen(k), 0) /\ UNCHANGED <<counts, printed>>
  <2>1. /\ keeper'[k] = [pc |-> AndThen(k), token |-> 0, found |-> keeper[k].found]
        /\ keeper' = [keeper EXCEPT ![k] = [@ EXCEPT !.pc = AndThen(k), !.token = 0]]
        /\ \A j \in Keeper : j # k => keeper'[j] = keeper[j]
        /\ AndThen(k) \in {"idle", "prints"} /\ In(k, "writes")
    BY <1>2 DEF KeeperPcs, AndThen, WritesToken, Moves, TokenTypes
  <2>2. file' \in [reads : BOOLEAN, token : 0 .. counts.issue, dated : BOOLEAN, old : BOOLEAN]
    BY <1>2 DEF TokenTypes
  <2>3. file'.reads /\ file'.token = keeper[k].token /\ keeper[k].token # 0 /\ ~file'.old
    BY <1>2, <2>1 DEF TokenTypes
  <2>4. told' \in [replaced : SUBSET (1 .. counts.issue), crossed : BOOLEAN]
    BY <1>2 DEF TokenTypes
  <2>5. TokenTypes'
    BY <1>2, <2>1, <2>2, <2>3, <2>4 DEF TokenTypes, KeeperPcs, In
  <2>6. ASSUME ~told'.crossed PROVE (WritersOk /\ PrintedOk /\ ReplacedOk)'
    <3>1. ~told.crossed /\ \A j \in Keeper \ {k} : ~In(j, "writes")
      BY <1>2, <2>6, Zenon
    <3>2. \A j \in Keeper : ~In(j, "writes")'
      BY <2>1, <3>1 DEF In
    <3>3. PrintedOk'
      BY <2>1, <3>1, <2>3, <1>2 DEF WritersOk, PrintedOk
    <3>4. keeper[k].token \notin told'.replaced
      BY <1>2, <2>1, <3>1 DEF ReplacedOk
    <3> QED BY <2>3, <3>2, <3>3, <3>4 DEF WritersOk, ReplacedOk
  <2> QED BY <2>5, <2>6
<1> QED BY <1>1, <1>2 DEF WritesToken

(* What a command prints is read from the file, unless it is due. *)
LEMMA PrinterKeeps ==
    ASSUME TokenInv, NEW k \in Printer, BeginsToPrint(k) \/ PrintsToken(k)
    PROVE  TokenInv'
<1> USE DEF TokenInv
<1>0. k \in Keeper
  BY DEF Keeper
<1>1. /\ UNCHANGED <<file, told>> /\ counts'.issue = counts.issue
      /\ counts' \in [issue : Nat, print : Nat, lapse : Nat]
      /\ printed' \in 0 .. counts.issue
      /\ printed' # printed /\ printed' # 0 => file.reads /\ file.token = printed' /\ ~file.old
      /\ keeper' \in [Keeper -> [pc : KeeperPcs, token : 0 .. counts.issue, found : 0 .. counts.issue]]
      /\ keeper'[k].pc # "writes"
      /\ \A j \in Keeper : j # k => keeper'[j] = keeper[j]
  <2>1. CASE BeginsToPrint(k)
    BY <1>0, <2>1, TokenCounts DEF TokenTypes, Current, BeginsToPrint, KeeperPcs, Spends
  <2>2. CASE PrintsToken(k)
    <3>1. /\ Moves(k, "idle", 0) /\ UNCHANGED <<file, told, counts>>
          /\ printed' = (IF file.old THEN 0 ELSE IF file.reads THEN file.token ELSE 0)
      BY <2>2 DEF PrintsToken, Shown, Current
    <3>2. /\ keeper' \in [Keeper -> [pc : KeeperPcs, token : 0 .. counts.issue, found : 0 .. counts.issue]]
          /\ keeper'[k].pc = "idle"
          /\ \A j \in Keeper : j # k => keeper'[j] = keeper[j]
      <4>1. 0 \in 0 .. counts.issue /\ "idle" \in KeeperPcs
        BY DEF TokenTypes, KeeperPcs
      <4> QED BY <1>0, <3>1, <4>1 DEF TokenTypes, Moves
    <3> QED BY <3>1, <3>2 DEF TokenTypes
  <2> QED BY <2>1, <2>2
<1>2. TokenTypes'
  BY <1>0, <1>1 DEF TokenTypes, In
<1> QED BY <1>0, <1>1, <1>2 DEF WritersOk, PrintedOk, ReplacedOk, In

(* A token that is due, or whose file is lost, is not promised any more. *)
LEMMA LapseKeeps ==
    ASSUME TokenInv, GrowsOld \/ IsLost
    PROVE  TokenInv'
<1> USE DEF TokenInv
<1>1. /\ UNCHANGED <<keeper, told>> /\ counts'.issue = counts.issue
      /\ counts' \in [issue : Nat, print : Nat, lapse : Nat]
  BY TokenCounts DEF GrowsOld, IsLost, Spends
<1>2. CASE GrowsOld
  <2>1. /\ file' \in [reads : BOOLEAN, token : 0 .. counts.issue, dated : BOOLEAN, old : BOOLEAN]
        /\ file'.reads = file.reads /\ file'.token = file.token /\ file'.dated /\ file'.old
        /\ file.dated /\ ~file.old
        /\ printed' = IF printed = file.token THEN 0 ELSE printed
    BY <1>2 DEF GrowsOld, TokenTypes
  <2>2. file.reads
    BY <2>1 DEF TokenTypes, NoFile
  <2>3. TokenTypes'
    BY <1>1, <2>1, <2>2 DEF TokenTypes, In
  <2> QED BY <1>1, <2>1, <2>2, <2>3 DEF WritersOk, PrintedOk, ReplacedOk, In
<1>3. CASE IsLost
  BY <1>3, <1>1 DEF IsLost, NoFile, TokenTypes, In, WritersOk, PrintedOk, ReplacedOk
<1> QED BY <1>2, <1>3

LEMMA ManagerStartsKeeps ==
    ASSUME TokenInv, ManagerStarts
    PROVE  TokenInv'
<1> USE DEF TokenInv
<1>1. "manager" \in Keeper
  BY DEF Keeper
<1>0. Moves("manager", "issues", 0) /\ UNCHANGED <<file, printed, told, counts>>
  BY DEF ManagerStarts
<1>2. /\ keeper' \in [Keeper -> [pc : KeeperPcs, token : 0 .. counts.issue, found : 0 .. counts.issue]]
      /\ keeper'["manager"].pc = "issues"
      /\ \A j \in Keeper : j # "manager" => keeper'[j] = keeper[j]
  <2>1. 0 \in 0 .. counts.issue /\ "issues" \in KeeperPcs
    BY DEF TokenTypes, KeeperPcs
  <2> QED BY <1>0, <1>1, <2>1 DEF TokenTypes, Moves
<1>3. TokenTypes'
  BY <1>0, <1>2 DEF TokenTypes, In
<1> QED BY <1>0, <1>2, <1>3 DEF WritersOk, PrintedOk, ReplacedOk, In

LEMMA TokenInitInv == TokenInit => TokenInv
<1> SUFFICES ASSUME TokenInit PROVE TokenInv
  OBVIOUS
<1>1. /\ counts \in [issue : Nat, print : Nat, lapse : Nat] /\ printed = 0
      /\ keeper = [k \in Keeper |-> [pc |-> "idle", token |-> 0, found |-> 0]]
      /\ told = [replaced |-> {}, crossed |-> FALSE]
      /\ file \in [reads : BOOLEAN, token : 0 .. counts.issue, dated : BOOLEAN, old : BOOLEAN]
      /\ ~file.reads => file = NoFile
      /\ file.reads => file.token # 0
  <2>1. CASE file = NoFile /\ counts = [issue |-> 0, print |-> 0, lapse |-> 0]
    BY <2>1 DEF TokenInit, NoFile
  <2>2. CASE /\ file \in [reads : {TRUE}, token : {1}, dated : BOOLEAN, old : {FALSE}]
             /\ counts = [issue |-> 1, print |-> 0, lapse |-> 0]
    <3>1. file.reads = TRUE /\ file.token = 1 /\ file \in [reads : BOOLEAN, token : 0 .. 1, dated : BOOLEAN, old : BOOLEAN]
      <4>1. TRUE \in BOOLEAN /\ FALSE \in BOOLEAN /\ 1 \in 0 .. 1
        OBVIOUS
      <4> QED BY <2>2, <4>1
    <3> QED BY <2>2, <3>1 DEF TokenInit
  <2> QED BY <2>1, <2>2 DEF TokenInit
<1>2. told \in [replaced : SUBSET (1 .. counts.issue), crossed : BOOLEAN] /\ told.replaced = {}
  BY <1>1
<1>3. TokenTypes
  BY <1>1, <1>2 DEF TokenTypes, KeeperPcs, In
<1> QED BY <1>1, <1>2, <1>3 DEF TokenInv, WritersOk, PrintedOk, ReplacedOk, In

LEMMA TokenNextKeeps == TokenInv /\ [TokenNext]_tokenVars => TokenInv'
BY LooksKeeps, PrinterKeeps, IssuesTokenKeeps, WritesTokenKeeps, ManagerStartsKeeps, LapseKeeps
   DEF TokenInv, TokenTypes, WritersOk, PrintedOk, ReplacedOk, In, tokenVars, CommandLooks,
       Keeper, ManagerLooks, TokenNext

(* While no two writers crossed, whoever is about to write has a new token   *)
(* for a file that is missing or due, or the token the file has; nobody is   *)
(* about to write one that was replaced (manager_api.py, maybe_rotate_token, *)
(* ensure_token).                                                            *)
THEOREM TokenInvariant == TokenSpec => []TokenInv
<1> QED BY TokenInitInv, TokenNextKeeps, PTL DEF TokenSpec

(* A printed token is accepted until it is due or its file is lost, and a    *)
(* replaced one never again, for any number of commands that print it, of    *)
(* checks by the manager and of losses (BUG-446), unless two checks were     *)
(* about to write at a time.                                                 *)
THEOREM TokenStaysSafe == TokenSpec => []TokenIsSafe
<1>1. TokenInv => TokenIsSafe
  BY DEF TokenInv, TokenTypes, TokenTypeOK, KeeperPcs, PrintedOk, PrintedHolds, Accepts,
         ReplacedOk, ReplacedIsGone, TokenIsSafe
<1> QED BY <1>1, TokenInvariant, PTL

(***************************************************************************)
(* The three together.                                                     *)
(***************************************************************************)

(* The service obeys, the page is honest and the token is safe, whatever    *)
(* steps the three take, one after the other or at once: they share no      *)
(* state.                                                                   *)
THEOREM ManagerAlwaysHolds ==
    ManagerSpec /\ PageSpec /\ TokenSpec => []ManagerHolds
<1>1. ManagerObeys /\ PageIsHonest /\ TokenIsSafe => ManagerHolds
  BY DEF ManagerHolds
<1> QED BY <1>1, ManagerStaysObedient, PageStaysHonest, TokenStaysSafe, PTL

(***************************************************************************)
(* The update.                                                             *)
(***************************************************************************)

BinPcs   == {"none", "start", "home", "source", "pip", "installs", "runtime", "waits", "reports"}
PhasePcs == {"none", "migrate", "restart", "review", "done"}
BinKind  == [pc : BinPcs, home : Home, pull : BOOLEAN, skip : BOOLEAN, code : Commit,
             from : Commit, moved : BOOLEAN, failed : BOOLEAN]
PhaseKind == [pc : PhasePcs, home : Home, pull : BOOLEAN, code : Commit, child : BOOLEAN,
              failed : BOOLEAN]

UpdateTyped ==
    /\ repo \in [head : Commit, remote : Commit, dirty : BOOLEAN] /\ venv \in Commit
    /\ repoLock \in Updater \cup {NoUpdater} /\ homeLock \in [Home -> Updater \cup {NoUpdater}]
    /\ bin \in [Updater -> BinKind] /\ phase \in [Updater -> PhaseKind]
    /\ svc \in [Home -> [code : Commit, deps : Commit]] /\ wanted \in [Home -> BOOLEAN]
    /\ ugh \in [late : SUBSET Updater, crossed : BOOLEAN, cut : BOOLEAN]

(* What an updater has locked: a phase that nobody waits for has the locks  *)
(* its command had, unless the command gave them up.                        *)
HasLocks(u) ==
    /\ bin[u].pc \in {"source", "pip", "installs", "runtime", "waits"}
          => homeLock[bin[u].home] = u
    /\ bin[u].pull /\ bin[u].pc \in {"home", "source", "pip", "installs", "runtime", "waits"}
          => repoLock = u
    /\ phase[u].pc # "none" /\ ~ugh.cut
          => homeLock[phase[u].home] = u /\ (phase[u].pull => repoLock = u)

(* How far a command is, and the phase it waits for. *)
InOrder(u) ==
    /\ bin[u].pc \notin {"none", "waits"} => phase[u].pc = "none"
    /\ bin[u].pc = "waits" =>
          /\ phase[u].pc # "none" /\ phase[u].home = bin[u].home
          /\ phase[u].pull = bin[u].pull /\ phase[u].child = bin[u].moved
    /\ bin[u].pc \in {"start", "home", "source"} => ~bin[u].moved
    /\ bin[u].pc = "source" => bin[u].pull
    /\ bin[u].moved => bin[u].pull /\ ~bin[u].skip

(* Whose code and whose dependencies a command goes on with. *)
KnowsSource(u) ==
    /\ bin[u].pc \in {"source", "pip", "installs", "runtime"} /\ bin[u].pull /\ ~bin[u].moved
          => u \in ugh.late \/ bin[u].code = repo.head
    /\ bin[u].pc = "installs" /\ ~ugh.crossed => bin[u].from = repo.head
    /\ bin[u].pc = "runtime" /\ bin[u].moved /\ ~ugh.crossed => venv = repo.head

(* What a phase runs on, and what it has restarted runs on. *)
PhaseRuns(u) ==
    phase[u].pc # "none" /\ phase[u].pull /\ ~ugh.cut =>
       /\ u \in ugh.late \/ phase[u].code = repo.head
       /\ phase[u].child /\ ~ugh.crossed => venv = repo.head
Restarted(u) ==
    phase[u].pc \in {"review", "done"} /\ ~phase[u].failed /\ phase[u].pull /\ ~ugh.cut =>
       \/ svc[phase[u].home] = Down
       \/ /\ svc[phase[u].home].code = repo.head
          /\ phase[u].child /\ ~ugh.crossed => svc[phase[u].home].deps = repo.head

GoesRight(u) == HasLocks(u) /\ InOrder(u) /\ KnowsSource(u) /\ PhaseRuns(u) /\ Restarted(u)
UpdateInv == UpdateTyped /\ \A u \in Updater : GoesRight(u)

(* What a step of u may do to the others: it takes no lock of theirs, moves *)
(* the tree only under the repository's lock, installs what the tree asks   *)
(* for, and starts a service on what is there.                              *)
Elsewhere(u) ==
    /\ \A v \in Updater \ {u} :
          /\ bin'[v] = bin[v] /\ phase'[v] = phase[v]
          /\ repoLock = v => repoLock' = v
          /\ \A w \in Home : homeLock[w] = v => homeLock'[w] = v
          /\ v \in ugh.late => v \in ugh'.late
    /\ ugh.cut => ugh'.cut
    /\ ugh.crossed => ugh'.crossed
    /\ \/ repo'.head = repo.head
       \/ repoLock = u /\ (ugh'.crossed \/ \A v \in Updater : bin[v].pc # "installs")
    /\ venv' = venv \/ ugh'.crossed \/ (venv' = repo.head /\ repo'.head = repo.head)
    /\ \A w \in Home : svc'[w] \in {svc[w], Down, NewSvc}

LEMMA OthersGoRight ==
    ASSUME UpdateInv, NEW u, Elsewhere(u), NEW v \in Updater, v # u
    PROVE  GoesRight(v)'
BY DEF Elsewhere, UpdateInv, UpdateTyped, BinKind, PhaseKind, GoesRight, HasLocks, InOrder,
       KnowsSource, PhaseRuns, NewSvc, Restarted, Down

LEMMA UpdateBegins == UpdateInit => UpdateInv
<1> SUFFICES ASSUME UpdateInit PROVE UpdateInv
    OBVIOUS
<1>1. (CHOOSE w \in Home : TRUE) \in Home
  BY UpdateAssumption
<1>2. 0 \in Commit /\ 1 \in Commit
  BY UpdateAssumption DEF Commit
<1>3. NoBin \in BinKind /\ NoPhase \in PhaseKind
  BY <1>1, <1>2 DEF NoBin, NoPhase, BinKind, PhaseKind, BinPcs, PhasePcs
<1>4. UpdateTyped
  BY <1>2, <1>3 DEF UpdateInit, UpdateTyped
<1>5. ASSUME NEW u \in Updater PROVE GoesRight(u)
  BY DEF UpdateInit, NoBin, NoPhase, GoesRight, HasLocks, InOrder, KnowsSource, PhaseRuns,
         Restarted
<1> QED BY <1>4, <1>5 DEF UpdateInv

LEMMA StepGoesRight ==
    ASSUME UpdateInv, NEW u, Elsewhere(u), UpdateTyped', u \in Updater => GoesRight(u)'
    PROVE  UpdateInv'
  BY OthersGoRight DEF UpdateInv

(* Giving locks up takes nothing from the others. *)
LEMMA ReleasedIs ==
    ASSUME UpdateInv, NEW u \in Updater, Released(u)
    PROVE  /\ repoLock' \in Updater \cup {NoUpdater}
           /\ homeLock' \in [Home -> Updater \cup {NoUpdater}]
           /\ \A v \in Updater \ {u} : /\ repoLock = v => repoLock' = v
                                       /\ \A w \in Home : homeLock[w] = v => homeLock'[w] = v
  BY DEF UpdateInv, UpdateTyped, Released

LEMMA NoBinIs == NoBin \in BinKind /\ NoBin.pc = "none" /\ NoBin.moved = FALSE
BY UpdateAssumption DEF Commit, NoBin, BinKind, BinPcs

LEMMA StartUpdateKeeps ==
    ASSUME UpdateInv, NEW u \in Updater, StartUpdate(u) PROVE UpdateInv'
<1>1. PICK w \in Home, pull \in BOOLEAN, skip \in BOOLEAN :
         bin' = [bin EXCEPT ![u] = [NoBin EXCEPT !.pc = "start", !.home = w, !.pull = pull,
                                                 !.skip = skip, !.code = repo.head]]
  BY DEF StartUpdate
<1> DEFINE b == [NoBin EXCEPT !.pc = "start", !.home = w, !.pull = pull, !.skip = skip,
                              !.code = repo.head]
<1>2. bin' = [bin EXCEPT ![u] = b]
  BY <1>1
<1>3. b \in BinKind /\ b.pc = "start" /\ ~b.moved
  BY NoBinIs DEF UpdateInv, UpdateTyped, BinKind, BinPcs
<1> HIDE DEF b
<1>4. bin' \in [Updater -> BinKind] /\ bin'[u] = b /\ \A v \in Updater \ {u} : bin'[v] = bin[v]
  BY <1>2, <1>3 DEF UpdateInv, UpdateTyped
<1>5. /\ phase[u].pc = "none" /\ ugh' = [ugh EXCEPT !.late = @ \ {u}]
      /\ UNCHANGED <<repo, venv, repoLock, homeLock, phase, svc, wanted>>
  BY DEF StartUpdate, sourceVars, flockVars, svcVars
<1>6. /\ ugh' \in [late : SUBSET Updater, crossed : BOOLEAN, cut : BOOLEAN]
      /\ ugh'.late = ugh.late \ {u} /\ ugh'.cut = ugh.cut /\ ugh'.crossed = ugh.crossed
  BY <1>5 DEF UpdateInv, UpdateTyped
<1>7. UpdateTyped'
  BY <1>4, <1>5, <1>6 DEF UpdateInv, UpdateTyped
<1>8. Elsewhere(u)
  BY <1>4, <1>5, <1>6 DEF Elsewhere
<1>9. GoesRight(u)'
  BY <1>3, <1>4, <1>5 DEF GoesRight, HasLocks, InOrder, KnowsSource, PhaseRuns, Restarted
<1> QED BY <1>7, <1>8, <1>9, StepGoesRight

(* Two ways a command goes on: it changes its step, or it goes to report.   *)
LEMMA ToIs ==
    ASSUME UpdateInv, NEW u \in Updater, NEW p \in BinPcs, To(u, p)
    PROVE  /\ bin' \in [Updater -> BinKind] /\ \A v \in Updater \ {u} : bin'[v] = bin[v]
           /\ bin'[u] = [bin[u] EXCEPT !.pc = p]
  BY DEF UpdateInv, UpdateTyped, To, BinKind
LEMMA ReportsIs ==
    ASSUME UpdateInv, NEW u \in Updater, NEW f \in BOOLEAN, Reports(u, f)
    PROVE  /\ bin' \in [Updater -> BinKind] /\ \A v \in Updater \ {u} : bin'[v] = bin[v]
           /\ bin'[u].pc = "reports" /\ bin'[u].moved = bin[u].moved
           /\ bin'[u].pull = bin[u].pull /\ bin'[u].skip = bin[u].skip
           /\ bin'[u].failed = (bin[u].failed \/ f)
<1>1. bin[u] \in BinKind /\ bin \in [Updater -> BinKind]
  BY DEF UpdateInv, UpdateTyped
<1> DEFINE b == [bin[u] EXCEPT !.pc = "reports", !.failed = @ \/ f]
<1>2. b \in BinKind /\ b.pc = "reports" /\ b.moved = bin[u].moved /\ b.pull = bin[u].pull
      /\ b.skip = bin[u].skip /\ b.failed = (bin[u].failed \/ f)
  BY <1>1 DEF BinKind, BinPcs
<1>3. bin' = [bin EXCEPT ![u] = b]
  BY <1>1 DEF Reports
<1> HIDE DEF b
<1> QED BY <1>1, <1>2, <1>3

(* A command that reports, and has no phase, is in order. *)
LEMMA ReportingGoesRight ==
    ASSUME UpdateInv, NEW u \in Updater, bin'[u].pc \in {"reports", "none"}, phase'[u].pc = "none",
           bin'[u].moved => bin'[u].pull /\ ~bin'[u].skip
    PROVE  GoesRight(u)'
  BY DEF GoesRight, HasLocks, InOrder, KnowsSource, PhaseRuns, Restarted

LEMMA TakeRepoKeeps == ASSUME UpdateInv, NEW u \in Updater, TakeRepo(u) PROVE UpdateInv'
<1>1. /\ bin[u].pc = "start"
      /\ \/ ~bin[u].pull /\ To(u, "home") /\ repoLock' = repoLock
         \/ repoLock = NoUpdater /\ repoLock' = u /\ To(u, "home")
         \/ Reports(u, TRUE) /\ repoLock' = repoLock
      /\ UNCHANGED <<repo, venv, homeLock, phase, svc, wanted, ugh>>
  BY DEF TakeRepo, OnStep, sourceVars, svcVars
<1>2. GoesRight(u) /\ bin[u] \in BinKind
  BY DEF UpdateInv, UpdateTyped
<1>3. /\ bin' \in [Updater -> BinKind] /\ \A v \in Updater \ {u} : bin'[v] = bin[v]
      /\ \/ bin'[u] = [bin[u] EXCEPT !.pc = "home"] /\ (bin[u].pull => repoLock' = u)
         \/ bin'[u].pc = "reports" /\ bin'[u].moved = bin[u].moved
  BY <1>1, ToIs, ReportsIs DEF BinPcs
<1>4. UpdateTyped'
  BY <1>1, <1>3 DEF UpdateInv, UpdateTyped
<1>5. Elsewhere(u)
  BY <1>1, <1>3, UpdateAssumption DEF Elsewhere
<1>6. phase[u].pc = "none" /\ ~bin[u].moved
  BY <1>1, <1>2 DEF GoesRight, InOrder
<1>7. GoesRight(u)'
  BY <1>2, <1>6, <1>1, ReportingGoesRight, <1>3 DEF BinKind, GoesRight, HasLocks, InOrder,
         KnowsSource, PhaseRuns, Restarted
<1> QED BY <1>4, <1>5, <1>7, StepGoesRight

LEMMA TakeHomeKeeps == ASSUME UpdateInv, NEW u \in Updater, TakeHome(u) PROVE UpdateInv'
<1>1. /\ bin[u].pc = "home"
      /\ UNCHANGED <<repo, venv, phase, svc, wanted>>
      /\ ugh' = IF bin[u].code # repo.head THEN [ugh EXCEPT !.late = @ \cup {u}] ELSE ugh
  BY DEF TakeHome, OnStep, sourceVars, svcVars
<1>2. GoesRight(u) /\ bin[u] \in BinKind /\ bin[u].home \in Home
  BY DEF UpdateInv, UpdateTyped, BinKind
<1>3. phase[u].pc = "none" /\ ~bin[u].moved /\ (bin[u].pull => repoLock = u)
  BY <1>1, <1>2 DEF GoesRight, InOrder, HasLocks
<1>4. /\ ugh' \in [late : SUBSET Updater, crossed : BOOLEAN, cut : BOOLEAN]
      /\ ugh.late \subseteq ugh'.late /\ ugh'.cut = ugh.cut /\ ugh'.crossed = ugh.crossed
      /\ u \in ugh'.late \/ bin[u].code = repo.head
  BY <1>1 DEF UpdateInv, UpdateTyped
<1>5. CASE homeLock[bin[u].home] # NoUpdater
  <2>1. /\ repoLock' = IF repoLock = u THEN NoUpdater ELSE repoLock
        /\ Reports(u, TRUE) /\ UNCHANGED homeLock
    BY <1>5 DEF TakeHome
  <2>2. /\ bin' \in [Updater -> BinKind] /\ \A v \in Updater \ {u} : bin'[v] = bin[v]
        /\ bin'[u].pc = "reports" /\ bin'[u].moved = bin[u].moved
    BY <2>1, ReportsIs
  <2>3. UpdateTyped'
    BY <1>1, <1>4, <2>1, <2>2 DEF UpdateInv, UpdateTyped
  <2>4. Elsewhere(u)
    BY <1>1, <1>4, <2>1, <2>2 DEF Elsewhere
  <2>5. GoesRight(u)'
    BY <1>1, <1>3, <2>2, ReportingGoesRight
  <2> QED BY <2>3, <2>4, <2>5, StepGoesRight
<1>6. CASE homeLock[bin[u].home] = NoUpdater
  <2> DEFINE p == IF bin[u].pull THEN "source" ELSE "pip"
  <2>1. /\ homeLock' = [homeLock EXCEPT ![bin[u].home] = u]
        /\ To(u, p) /\ UNCHANGED repoLock
    BY <1>6 DEF TakeHome
  <2>2. p \in BinPcs
    BY DEF BinPcs
  <2>3. /\ bin' \in [Updater -> BinKind] /\ \A v \in Updater \ {u} : bin'[v] = bin[v]
        /\ bin'[u] = [bin[u] EXCEPT !.pc = p]
    BY <2>1, <2>2, ToIs
  <2>4. /\ bin'[u].pc = p /\ ~bin'[u].moved /\ bin'[u].home = bin[u].home
        /\ bin'[u].pull = bin[u].pull /\ bin'[u].code = bin[u].code
    BY <1>2, <1>3, <2>3 DEF BinKind
  <2>5. homeLock \in [Home -> Updater \cup {NoUpdater}]
    BY DEF UpdateInv, UpdateTyped
  <2>6. /\ homeLock' \in [Home -> Updater \cup {NoUpdater}] /\ homeLock'[bin[u].home] = u
        /\ \A v \in Updater \ {u} : \A w \in Home : homeLock[w] = v => homeLock'[w] = v
    BY <1>2, <1>6, <2>1, <2>5, UpdateAssumption
  <2>7. UpdateTyped'
    BY <1>1, <1>4, <2>1, <2>3, <2>6 DEF UpdateInv, UpdateTyped
  <2>8. Elsewhere(u)
    BY <1>1, <1>4, <2>1, <2>3, <2>6 DEF Elsewhere
  <2>9. GoesRight(u)'
    BY <1>1, <1>3, <1>4, <2>1, <2>4, <2>6
       DEF GoesRight, HasLocks, InOrder, KnowsSource, PhaseRuns, Restarted
  <2> QED BY <2>7, <2>8, <2>9, StepGoesRight
<1> QED BY <1>5, <1>6

LEMMA PipMissingKeeps == ASSUME UpdateInv, NEW u \in Updater, PipMissing(u) PROVE UpdateInv'
<1>1. /\ bin[u].pc = "source" /\ Reports(u, TRUE)
      /\ UNCHANGED <<repo, venv, repoLock, homeLock, phase, svc, wanted, ugh>>
  BY DEF PipMissing, OnStep, sourceVars, flockVars, svcVars
<1>2. phase[u].pc = "none" /\ ~bin[u].moved
  BY <1>1 DEF UpdateInv, GoesRight, InOrder
<1>3. /\ bin' \in [Updater -> BinKind] /\ \A v \in Updater \ {u} : bin'[v] = bin[v]
      /\ bin'[u].pc = "reports" /\ bin'[u].moved = bin[u].moved
  BY <1>1, ReportsIs
<1>4. UpdateTyped' /\ Elsewhere(u)
  BY <1>1, <1>3 DEF UpdateInv, UpdateTyped, Elsewhere
<1> QED BY <1>1, <1>2, <1>3, <1>4, ReportingGoesRight, StepGoesRight

LEMMA AdvanceKeeps == ASSUME UpdateInv, NEW u \in Updater, Advance(u) PROVE UpdateInv'
<1>1. PICK c \in Fetched, merges \in BOOLEAN :
         LET moves == Behind(c) /\ ~Refuses(u) /\ merges IN
         /\ repo' = IF moves THEN Merged(c) ELSE repo
         /\ bin' = [bin EXCEPT ![u].pc = "pip", ![u].moved = moves,
                               ![u].failed = @ \/ (Behind(c) /\ ~moves)]
         /\ ugh' = IF moves /\ \E v \in Updater : OnStep(v, "installs")
                   THEN [ugh EXCEPT !.crossed = TRUE] ELSE ugh
  BY DEF Advance
<1> DEFINE moves == Behind(c) /\ ~Refuses(u) /\ merges
           b == [bin[u] EXCEPT !.pc = "pip", !.moved = moves,
                               !.failed = @ \/ (Behind(c) /\ ~moves)]
<1>2. /\ bin[u].pc = "source" /\ UNCHANGED <<venv, repoLock, homeLock, phase, svc, wanted>>
  BY DEF Advance, OnStep, flockVars, svcVars
<1>3. bin[u] \in BinKind /\ bin \in [Updater -> BinKind]
      /\ ugh \in [late : SUBSET Updater, crossed : BOOLEAN, cut : BOOLEAN]
      /\ repo \in [head : Commit, remote : Commit, dirty : BOOLEAN]
  BY DEF UpdateInv, UpdateTyped
<1>4. /\ phase[u].pc = "none" /\ bin[u].pull /\ repoLock = u /\ homeLock[bin[u].home] = u
      /\ ~bin[u].moved /\ (u \in ugh.late \/ bin[u].code = repo.head)
  BY <1>2 DEF UpdateInv, GoesRight, InOrder, HasLocks, KnowsSource
<1>5. /\ b \in BinKind /\ b.pc = "pip" /\ b.moved = moves /\ b.pull = bin[u].pull
      /\ b.skip = bin[u].skip /\ b.code = bin[u].code /\ b.home = bin[u].home
  BY <1>3 DEF BinKind, BinPcs, Behind, Refuses
<1>6. bin' = [bin EXCEPT ![u] = b]
  BY <1>1, <1>3
<1>7. moves => ~bin[u].skip
  BY DEF Refuses
<1>8. /\ repo' \in [head : Commit, remote : Commit, dirty : BOOLEAN]
      /\ ~moves => repo' = repo
  BY <1>1, <1>3 DEF Fetched, Merged
<1>9. /\ ugh' \in [late : SUBSET Updater, crossed : BOOLEAN, cut : BOOLEAN]
      /\ ugh'.late = ugh.late /\ ugh'.cut = ugh.cut /\ (ugh.crossed => ugh'.crossed)
      /\ moves => ugh'.crossed \/ \A v \in Updater : bin[v].pc # "installs"
  BY <1>1, <1>3 DEF OnStep
<1> HIDE DEF moves, b
<1>10. bin' \in [Updater -> BinKind] /\ bin'[u] = b /\ \A v \in Updater \ {u} : bin'[v] = bin[v]
  BY <1>3, <1>5, <1>6
<1>11. UpdateTyped'
  BY <1>2, <1>8, <1>9, <1>10 DEF UpdateInv, UpdateTyped
<1>12. Elsewhere(u)
  BY <1>2, <1>4, <1>8, <1>9, <1>10 DEF Elsewhere
<1>13. GoesRight(u)'
  BY <1>2, <1>4, <1>5, <1>7, <1>8, <1>9, <1>10
     DEF GoesRight, HasLocks, InOrder, KnowsSource, PhaseRuns, Restarted
<1> QED BY <1>11, <1>12, <1>13, StepGoesRight

LEMMA PipBeginsKeeps == ASSUME UpdateInv, NEW u \in Updater, PipBegins(u) PROVE UpdateInv'
<1>1. /\ bin[u].pc = "pip"
      /\ bin' = IF bin[u].skip THEN [bin EXCEPT ![u].pc = "runtime"]
                ELSE [bin EXCEPT ![u].pc = "installs", ![u].from = repo.head]
      /\ UNCHANGED <<repo, venv, repoLock, homeLock, phase, svc, wanted, ugh>>
  BY DEF PipBegins, OnStep, sourceVars, flockVars, svcVars
<1>2. bin[u] \in BinKind /\ bin \in [Updater -> BinKind] /\ repo.head \in Commit
  BY DEF UpdateInv, UpdateTyped
<1>3. GoesRight(u)
  BY DEF UpdateInv
<1>4. /\ bin' \in [Updater -> BinKind] /\ \A v \in Updater \ {u} : bin'[v] = bin[v]
      /\ bin'[u].pull = bin[u].pull /\ bin'[u].skip = bin[u].skip /\ bin'[u].moved = bin[u].moved
      /\ bin'[u].home = bin[u].home /\ bin'[u].code = bin[u].code
      /\ \/ bin'[u].pc = "runtime" /\ bin[u].skip
         \/ bin'[u].pc = "installs" /\ bin'[u].from = repo.head
  BY <1>1, <1>2 DEF BinKind, BinPcs
<1>5. UpdateTyped' /\ Elsewhere(u)
  BY <1>1, <1>4 DEF UpdateInv, UpdateTyped, Elsewhere
<1>6. GoesRight(u)'
  BY <1>1, <1>3, <1>4 DEF GoesRight, HasLocks, InOrder, KnowsSource, PhaseRuns, Restarted
<1> QED BY <1>5, <1>6, StepGoesRight

LEMMA PipEndsKeeps == ASSUME UpdateInv, NEW u \in Updater, PipEnds(u) PROVE UpdateInv'
<1>1. /\ bin[u].pc = "installs"
      /\ \/ venv' = bin[u].from /\ To(u, "runtime")
         \/ /\ bin' = [bin EXCEPT ![u].pc = AfterPipFailed(u), ![u].failed = TRUE]
            /\ UNCHANGED venv
      /\ UNCHANGED <<repo, repoLock, homeLock, phase, svc, wanted, ugh>>
  BY DEF PipEnds, OnStep, flockVars, svcVars
<1>2. bin[u] \in BinKind /\ bin \in [Updater -> BinKind] /\ bin[u].from \in Commit
  BY DEF UpdateInv, UpdateTyped, BinKind
<1>3. GoesRight(u)
  BY DEF UpdateInv
<1>4. ugh.crossed \/ bin[u].from = repo.head
  BY <1>1, <1>3 DEF GoesRight, KnowsSource
<1>5. CASE venv' = bin[u].from /\ To(u, "runtime")
  <2>1. /\ bin' \in [Updater -> BinKind] /\ \A v \in Updater \ {u} : bin'[v] = bin[v]
        /\ bin'[u] = [bin[u] EXCEPT !.pc = "runtime"]
    BY <1>5, ToIs DEF BinPcs
  <2>2. /\ bin'[u].pull = bin[u].pull /\ bin'[u].skip = bin[u].skip /\ bin'[u].moved = bin[u].moved
        /\ bin'[u].home = bin[u].home /\ bin'[u].code = bin[u].code /\ bin'[u].pc = "runtime"
    BY <1>2, <2>1 DEF BinKind
  <2>3. UpdateTyped' /\ Elsewhere(u)
    BY <1>1, <1>2, <1>4, <1>5, <2>1 DEF UpdateInv, UpdateTyped, Elsewhere
  <2>4. GoesRight(u)'
    BY <1>1, <1>3, <1>4, <1>5, <2>2
       DEF GoesRight, HasLocks, InOrder, KnowsSource, PhaseRuns, Restarted
  <2> QED BY <2>3, <2>4, StepGoesRight
<1>6. CASE /\ bin' = [bin EXCEPT ![u].pc = AfterPipFailed(u), ![u].failed = TRUE]
           /\ UNCHANGED venv
  <2>1. AfterPipFailed(u) \in BinPcs /\ (bin[u].moved => AfterPipFailed(u) = "reports")
        /\ (~bin[u].moved => AfterPipFailed(u) = "runtime")
    BY DEF AfterPipFailed, BinPcs
  <2>2. /\ bin' \in [Updater -> BinKind] /\ \A v \in Updater \ {u} : bin'[v] = bin[v]
        /\ bin'[u].pull = bin[u].pull /\ bin'[u].skip = bin[u].skip /\ bin'[u].moved = bin[u].moved
        /\ bin'[u].home = bin[u].home /\ bin'[u].code = bin[u].code
        /\ bin'[u].pc = AfterPipFailed(u)
    BY <1>2, <1>6, <2>1 DEF BinKind
  <2>3. UpdateTyped' /\ Elsewhere(u)
    BY <1>1, <1>6, <2>2 DEF UpdateInv, UpdateTyped, Elsewhere
  <2>4. GoesRight(u)'
    BY <1>1, <1>3, <1>6, <2>1, <2>2
       DEF GoesRight, HasLocks, InOrder, KnowsSource, PhaseRuns, Restarted
  <2> QED BY <2>3, <2>4, StepGoesRight
<1> QED BY <1>1, <1>5, <1>6

(* Only phase[u] becomes p. *)
PhaseOnly(u, p) == /\ phase' \in [Updater -> PhaseKind] /\ phase'[u] = p
                   /\ \A v \in Updater \ {u} : phase'[v] = phase[v]
LEMMA PhaseBecomes ==
    ASSUME UpdateInv, NEW u \in Updater, NEW p \in PhaseKind, phase' = [phase EXCEPT ![u] = p]
    PROVE  PhaseOnly(u, p)
  BY DEF UpdateInv, UpdateTyped, PhaseOnly
LEMMA NoPhaseIs == NoPhase \in PhaseKind /\ NoPhase.pc = "none"
BY UpdateAssumption DEF Commit, NoPhase, PhaseKind, PhasePcs
LEMMA BinBecomes ==
    ASSUME UpdateInv, NEW u \in Updater, bin' = [bin EXCEPT ![u] = NoBin]
    PROVE  bin' \in [Updater -> BinKind] /\ bin'[u] = NoBin
           /\ \A v \in Updater \ {u} : bin'[v] = bin[v]
  BY NoBinIs DEF UpdateInv, UpdateTyped

LEMMA BeginUpdateKeeps == ASSUME UpdateInv, NEW u \in Updater, BeginUpdate(u) PROVE UpdateInv'
<1> DEFINE p == [pc |-> "migrate", home |-> bin[u].home, pull |-> bin[u].pull,
                 code |-> IF NeedsChild(u) THEN repo.head ELSE bin[u].code,
                 child |-> NeedsChild(u), failed |-> FALSE]
<1>1. /\ bin[u].pc = "runtime" /\ UNCHANGED <<repo, venv, repoLock, homeLock, svc, wanted, ugh>>
  BY DEF BeginUpdate, OnStep, sourceVars, flockVars, svcVars
<1>2. \/ phase' = [phase EXCEPT ![u] = p] /\ To(u, "waits")
      \/ Reports(u, TRUE) /\ phase' = phase
  BY DEF BeginUpdate, NoPhase
<1>3. bin[u] \in BinKind /\ repo.head \in Commit /\ bin[u].code \in Commit
  BY DEF UpdateInv, UpdateTyped, BinKind
<1>4. GoesRight(u)
  BY DEF UpdateInv
<1>5. p \in PhaseKind /\ p.pc = "migrate" /\ p.home = bin[u].home /\ p.pull = bin[u].pull
      /\ p.child = bin[u].moved
      /\ p.code = IF bin[u].moved THEN repo.head ELSE bin[u].code
  BY <1>3 DEF BinKind, PhaseKind, PhasePcs, NeedsChild
<1> HIDE DEF p
<1>6. CASE phase' = [phase EXCEPT ![u] = p] /\ To(u, "waits")
  <2>1. PhaseOnly(u, p)
    BY <1>5, <1>6, PhaseBecomes
  <2>2. /\ bin' \in [Updater -> BinKind] /\ \A v \in Updater \ {u} : bin'[v] = bin[v]
        /\ bin'[u] = [bin[u] EXCEPT !.pc = "waits"]
    BY <1>6, ToIs DEF BinPcs
  <2>3. /\ bin'[u].pull = bin[u].pull /\ bin'[u].skip = bin[u].skip /\ bin'[u].moved = bin[u].moved
        /\ bin'[u].home = bin[u].home /\ bin'[u].pc = "waits"
    BY <1>3, <2>2 DEF BinKind
  <2>4. UpdateTyped' /\ Elsewhere(u)
    BY <1>1, <2>1, <2>2 DEF UpdateInv, UpdateTyped, Elsewhere, PhaseOnly
  <2>5. GoesRight(u)'
    BY <1>1, <1>4, <1>5, <2>1, <2>3
       DEF GoesRight, HasLocks, InOrder, KnowsSource, PhaseRuns, Restarted, PhaseOnly
  <2> QED BY <2>4, <2>5, StepGoesRight
<1>7. CASE Reports(u, TRUE) /\ phase' = phase
  <2>1. /\ bin' \in [Updater -> BinKind] /\ \A v \in Updater \ {u} : bin'[v] = bin[v]
        /\ bin'[u].pc = "reports" /\ bin'[u].moved = bin[u].moved
        /\ bin'[u].pull = bin[u].pull /\ bin'[u].skip = bin[u].skip
    BY <1>7, ReportsIs
  <2>2. UpdateTyped' /\ Elsewhere(u)
    BY <1>1, <1>7, <2>1 DEF UpdateInv, UpdateTyped, Elsewhere
  <2>3. phase[u].pc = "none" /\ (bin[u].moved => bin[u].pull /\ ~bin[u].skip)
    BY <1>1, <1>4 DEF GoesRight, InOrder
  <2>4. GoesRight(u)'
    BY <1>7, <2>1, <2>3, ReportingGoesRight
  <2> QED BY <2>2, <2>4, StepGoesRight
<1> QED BY <1>2, <1>6, <1>7

(* A phase that goes on: the same update, the same code. *)
LEMMA PhaseGoesOn ==
    ASSUME UpdateInv, NEW u \in Updater, phase[u].pc # "none",
           NEW p \in PhaseKind, phase' = [phase EXCEPT ![u] = p], p.pc # "none",
           p.home = phase[u].home, p.pull = phase[u].pull, p.child = phase[u].child,
           p.code = phase[u].code,
           UNCHANGED <<repo, venv, repoLock, homeLock, bin, wanted, ugh>>,
           svc' \in [Home -> [code : Commit, deps : Commit]],
           \A w \in Home : svc'[w] \in {svc[w], Down, NewSvc},
           p.pc \in {"review", "done"} /\ ~p.failed =>
              \/ svc'[p.home] \in {Down, NewSvc}
              \/ phase[u].pc \in {"review", "done"} /\ ~phase[u].failed /\ svc'[p.home] = svc[p.home]
    PROVE  UpdateInv'
<1>1. PhaseOnly(u, p)
  BY PhaseBecomes
<1>2. UpdateTyped' /\ Elsewhere(u)
  BY <1>1 DEF UpdateInv, UpdateTyped, Elsewhere, PhaseOnly
<1>3. GoesRight(u)
  BY DEF UpdateInv
<1>4. HasLocks(u)' /\ InOrder(u)' /\ KnowsSource(u)' /\ PhaseRuns(u)'
  BY <1>1, <1>3 DEF GoesRight, HasLocks, InOrder, KnowsSource, PhaseRuns, PhaseOnly
<1>5. Restarted(u)'
  BY <1>1, <1>3 DEF NewSvc, GoesRight, PhaseRuns, Restarted, PhaseOnly, Down
<1> QED BY <1>2, <1>4, <1>5, StepGoesRight DEF GoesRight

LEMMA MigratePhaseKeeps == ASSUME UpdateInv, NEW u \in Updater, MigratePhase(u) PROVE UpdateInv'
<1>1. PICK failed \in BOOLEAN, idle \in BOOLEAN :
         phase' = [phase EXCEPT ![u].pc = IF idle THEN "restart" ELSE "review",
                                ![u].failed = @ \/ failed \/ ~idle]
  BY DEF MigratePhase
<1>2. phase[u] \in PhaseKind /\ phase \in [Updater -> PhaseKind]
  BY DEF UpdateInv, UpdateTyped
<1> DEFINE p == [phase[u] EXCEPT !.pc = IF idle THEN "restart" ELSE "review",
                                 !.failed = @ \/ failed \/ ~idle]
<1>3. /\ p \in PhaseKind /\ p.pc # "none" /\ p.home = phase[u].home /\ p.pull = phase[u].pull
      /\ p.child = phase[u].child /\ p.code = phase[u].code
      /\ p.pc \in {"review", "done"} => p.failed
  BY <1>2 DEF PhaseKind, PhasePcs
<1>4. phase' = [phase EXCEPT ![u] = p]
  BY <1>1, <1>2
<1>5. /\ phase[u].pc # "none" /\ UNCHANGED <<repo, venv, repoLock, homeLock, bin, svc, wanted, ugh>>
      /\ svc \in [Home -> [code : Commit, deps : Commit]]
  BY DEF MigratePhase, sourceVars, flockVars, svcVars, UpdateInv, UpdateTyped
<1> HIDE DEF p
<1> QED BY <1>3, <1>4, <1>5, PhaseGoesOn

LEMMA ReviewPhaseKeeps == ASSUME UpdateInv, NEW u \in Updater, ReviewPhase(u) PROVE UpdateInv'
<1>1. PICK failed \in BOOLEAN :
         phase' = [phase EXCEPT ![u].pc = "done", ![u].failed = @ \/ failed]
  BY DEF ReviewPhase
<1>2. phase[u] \in PhaseKind /\ phase \in [Updater -> PhaseKind]
  BY DEF UpdateInv, UpdateTyped
<1> DEFINE p == [phase[u] EXCEPT !.pc = "done", !.failed = @ \/ failed]
<1>3. /\ p \in PhaseKind /\ p.pc # "none" /\ p.home = phase[u].home /\ p.pull = phase[u].pull
      /\ p.child = phase[u].child /\ p.code = phase[u].code
      /\ ~p.failed => ~phase[u].failed
  BY <1>2 DEF PhaseKind, PhasePcs
<1>4. phase' = [phase EXCEPT ![u] = p]
  BY <1>1, <1>2
<1>5. /\ phase[u].pc = "review" /\ UNCHANGED <<repo, venv, repoLock, homeLock, bin, svc, wanted, ugh>>
      /\ svc \in [Home -> [code : Commit, deps : Commit]]
  BY DEF ReviewPhase, sourceVars, flockVars, svcVars, UpdateInv, UpdateTyped
<1> HIDE DEF p
<1> QED BY <1>3, <1>4, <1>5, PhaseGoesOn

LEMMA NewSvcIs == UpdateInv => Down \in [code : Commit, deps : Commit]
                               /\ NewSvc \in [code : Commit, deps : Commit]
  BY UpdateAssumption DEF UpdateInv, UpdateTyped, Down, NewSvc, Commit

LEMMA RestartPhaseKeeps == ASSUME UpdateInv, NEW u \in Updater, RestartPhase(u) PROVE UpdateInv'
<1> DEFINE w == phase[u].home
<1>1. /\ phase[u].pc = "restart" /\ UNCHANGED <<repo, venv, repoLock, homeLock, bin, wanted, ugh>>
      /\ \E f \in BOOLEAN :
           /\ phase' = [phase EXCEPT ![u].pc = "review", ![u].failed = @ \/ f]
           /\ \/ svc' = [svc EXCEPT ![w] = NewSvc]
              \/ f /\ svc' = svc
              \/ svc' = [svc EXCEPT ![w] = Down]
              \/ svc[w] = Down /\ svc' = svc
  BY DEF RestartPhase, NotStopped, sourceVars, flockVars
<1>2. PICK f \in BOOLEAN :
           /\ phase' = [phase EXCEPT ![u].pc = "review", ![u].failed = @ \/ f]
           /\ \/ svc' = [svc EXCEPT ![w] = NewSvc]
              \/ f /\ svc' = svc
              \/ svc' = [svc EXCEPT ![w] = Down]
              \/ svc[w] = Down /\ svc' = svc
  BY <1>1
<1>3. /\ phase[u] \in PhaseKind /\ phase \in [Updater -> PhaseKind] /\ w \in Home
      /\ svc \in [Home -> [code : Commit, deps : Commit]]
  BY DEF UpdateInv, UpdateTyped, PhaseKind
<1> DEFINE p == [phase[u] EXCEPT !.pc = "review", !.failed = @ \/ f]
<1>4. /\ p \in PhaseKind /\ p.pc = "review" /\ p.home = w /\ p.pull = phase[u].pull
      /\ p.child = phase[u].child /\ p.code = phase[u].code
      /\ p.failed = (phase[u].failed \/ f)
  BY <1>3 DEF PhaseKind, PhasePcs
<1>5. phase' = [phase EXCEPT ![u] = p]
  BY <1>2, <1>3
<1> HIDE DEF p, w
<1>6. /\ svc' \in [Home -> [code : Commit, deps : Commit]]
      /\ \A x \in Home : svc'[x] \in {svc[x], Down, NewSvc}
      /\ svc'[w] \in {Down, NewSvc} \/ (f /\ svc' = svc)
  BY <1>2, <1>3, NewSvcIs
<1>7. p.pc # "none" /\ p.home = phase[u].home /\ (~p.failed => ~f)
  BY <1>4 DEF w
<1> QED BY <1>1, <1>4, <1>5, <1>6, <1>7, PhaseGoesOn

(* The end of a phase: its report, or, with nobody to read it, its locks.   *)
LEMMA PhaseOver ==
    ASSUME UpdateInv, NEW u \in Updater, phase[u].pc # "none", NEW f \in BOOLEAN,
           phase' = [phase EXCEPT ![u] = NoPhase],
           IF OnStep(u, "waits") THEN Reports(u, f) /\ KeptLocks(u) ELSE UNCHANGED bin /\ Released(u),
           UNCHANGED <<repo, venv, svc, wanted, ugh>>
    PROVE  UpdateInv'
<1>1. PhaseOnly(u, NoPhase) /\ phase'[u].pc = "none"
  BY NoPhaseIs, PhaseBecomes DEF PhaseOnly
<1>2. bin[u].moved => bin[u].pull /\ ~bin[u].skip
  BY DEF UpdateInv, GoesRight, InOrder
<1>3. CASE bin[u].pc = "waits"
  <2>1. Reports(u, f) /\ UNCHANGED <<repoLock, homeLock>>
    BY <1>3 DEF OnStep, KeptLocks, flockVars
  <2>2. /\ bin' \in [Updater -> BinKind] /\ \A v \in Updater \ {u} : bin'[v] = bin[v]
        /\ bin'[u].pc = "reports" /\ bin'[u].moved = bin[u].moved
        /\ bin'[u].pull = bin[u].pull /\ bin'[u].skip = bin[u].skip
    BY <2>1, ReportsIs
  <2>3. UpdateTyped' /\ Elsewhere(u)
    BY <1>1, <2>1, <2>2 DEF UpdateInv, UpdateTyped, Elsewhere, PhaseOnly
  <2> QED BY <1>1, <1>2, <2>2, <2>3, ReportingGoesRight, StepGoesRight
<1>4. CASE bin[u].pc # "waits"
  BY <1>4, <1>1, ReleasedIs, <1>2, ReportingGoesRight, StepGoesRight DEF OnStep, UpdateInv,
         GoesRight, InOrder, UpdateTyped, Elsewhere, PhaseOnly
<1> QED BY <1>3, <1>4

LEMMA PhaseEndsKeeps == ASSUME UpdateInv, NEW u \in Updater, PhaseEnds(u) PROVE UpdateInv'
BY PhaseOver DEF PhaseEnds, UpdateInv, UpdateTyped, PhaseKind, sourceVars, svcVars
LEMMA ChildDiesKeeps == ASSUME UpdateInv, NEW u \in Updater, ChildDies(u) PROVE UpdateInv'
  BY PhaseOver DEF ChildDies, sourceVars, svcVars

LEMMA EndUpdateKeeps == ASSUME UpdateInv, NEW u \in Updater, EndUpdate(u) PROVE UpdateInv'
BY BinBecomes, ReleasedIs, NoBinIs, ReportingGoesRight, StepGoesRight DEF EndUpdate, OnStep,
       sourceVars, svcVars, UpdateInv, GoesRight, InOrder, UpdateTyped, Elsewhere

LEMMA KillUpdateKeeps == ASSUME UpdateInv, NEW u \in Updater, KillUpdate(u) PROVE UpdateInv'
<1>1. /\ bin[u].pc # "none" /\ bin' = [bin EXCEPT ![u] = NoBin]
      /\ IF phase[u].child THEN UNCHANGED phase ELSE phase' = [phase EXCEPT ![u] = NoPhase]
      /\ IF phase[u].child THEN UNCHANGED <<repoLock, homeLock>> ELSE Released(u)
      /\ UNCHANGED <<repo, venv, svc, wanted, ugh>>
  BY DEF KillUpdate, OnStep, sourceVars, svcVars, Inherited, KeptLocks, flockVars
<1>2. bin' \in [Updater -> BinKind] /\ bin'[u] = NoBin /\ \A v \in Updater \ {u} : bin'[v] = bin[v]
  BY <1>1, BinBecomes
<1>3. bin'[u].pc = "none" /\ ~bin'[u].moved
  BY <1>2, NoBinIs
<1>4. CASE phase[u].child
  BY <1>1, <1>2, <1>4, <1>3, StepGoesRight DEF UpdateInv, UpdateTyped, Elsewhere, GoesRight,
         HasLocks, InOrder, KnowsSource, PhaseRuns, Restarted
<1>5. CASE ~phase[u].child
  BY <1>1, <1>5, NoPhaseIs, PhaseBecomes, <1>2, ReleasedIs, <1>3, ReportingGoesRight,
     StepGoesRight DEF PhaseOnly, UpdateInv, UpdateTyped, Elsewhere
<1> QED BY <1>4, <1>5

LEMMA InterruptedKeeps == ASSUME UpdateInv, NEW u \in Updater, Interrupted(u) PROVE UpdateInv'
<1>1. /\ bin' = [bin EXCEPT ![u] = NoBin] /\ Released(u) /\ ugh' = [ugh EXCEPT !.cut = TRUE]
      /\ UNCHANGED <<repo, venv, phase, svc, wanted>>
  BY DEF Interrupted, sourceVars, svcVars
<1>2. bin' \in [Updater -> BinKind] /\ bin'[u] = NoBin /\ \A v \in Updater \ {u} : bin'[v] = bin[v]
  BY <1>1, BinBecomes
<1>3. bin'[u].pc = "none" /\ ~bin'[u].moved
  BY <1>2, NoBinIs
<1>4. /\ ugh' \in [late : SUBSET Updater, crossed : BOOLEAN, cut : BOOLEAN]
      /\ ugh'.cut /\ ugh'.late = ugh.late /\ ugh'.crossed = ugh.crossed
  BY <1>1 DEF UpdateInv, UpdateTyped
<1>5. UpdateTyped' /\ Elsewhere(u)
  BY <1>1, <1>2, <1>4, ReleasedIs DEF UpdateInv, UpdateTyped, Elsewhere
<1>6. GoesRight(u)'
  BY <1>3, <1>4 DEF GoesRight, HasLocks, InOrder, KnowsSource, PhaseRuns, Restarted
<1> QED BY <1>5, <1>6, StepGoesRight

(* The remote and the users: no step of an updater. *)
LEMMA AroundKeeps ==
    ASSUME UpdateInv,
           \/ Pushed \/ TreeEdited
           \/ \E w \in Home : ServiceOn(w) \/ ServiceOff(w) \/ ServiceDies(w)
    PROVE  UpdateInv'
<1>1. /\ UNCHANGED <<venv, repoLock, homeLock, bin, phase, ugh>>
      /\ repo' \in [head : Commit, remote : Commit, dirty : BOOLEAN] /\ repo'.head = repo.head
      /\ wanted' \in [Home -> BOOLEAN]
      /\ svc' \in [Home -> [code : Commit, deps : Commit]]
      /\ \A w \in Home : svc'[w] \in {svc[w], Down, NewSvc}
  <2>1. /\ repo \in [head : Commit, remote : Commit, dirty : BOOLEAN] /\ wanted \in [Home -> BOOLEAN]
        /\ svc \in [Home -> [code : Commit, deps : Commit]]
    BY DEF UpdateInv, UpdateTyped
  <2>2. CASE Pushed
    BY <2>1, <2>2, UpdateAssumption DEF Pushed, flockVars, svcVars, Commit
  <2>3. CASE TreeEdited
    BY <2>1, <2>3 DEF TreeEdited, flockVars, svcVars
  <2>4. ASSUME NEW w \in Home, ServiceOn(w) \/ ServiceOff(w) \/ ServiceDies(w)
        PROVE  /\ UNCHANGED <<venv, repoLock, homeLock, bin, phase, ugh, repo>>
               /\ wanted' \in [Home -> BOOLEAN]
               /\ svc' = [svc EXCEPT ![w] = NewSvc] \/ svc' = [svc EXCEPT ![w] = Down]
    BY <2>1, <2>4 DEF ServiceOn, ServiceOff, ServiceDies, sourceVars, flockVars
  <2> QED BY <2>1, <2>2, <2>3, <2>4, NewSvcIs
<1>2. UpdateTyped'
  BY <1>1 DEF UpdateInv, UpdateTyped
<1>3. Elsewhere(NoUpdater)
  BY <1>1 DEF Elsewhere
<1> QED BY <1>2, <1>3, UpdateAssumption, StepGoesRight

LEMMA UpdateNextKeeps == UpdateInv /\ [UpdateNext]_updateVars => UpdateInv'
<1> SUFFICES ASSUME UpdateInv, [UpdateNext]_updateVars PROVE UpdateInv'
    OBVIOUS
<1>1. CASE UNCHANGED updateVars
  BY <1>1 DEF updateVars, UpdateInv, UpdateTyped, GoesRight, HasLocks, InOrder, KnowsSource,
              PhaseRuns, Restarted
<1>2. ASSUME NEW u \in Updater, CommandStep(u) \/ PhaseStep(u) PROVE UpdateInv'
  BY <1>2, StartUpdateKeeps, TakeRepoKeeps, TakeHomeKeeps, PipMissingKeeps, AdvanceKeeps,
     PipBeginsKeeps, PipEndsKeeps, BeginUpdateKeeps, EndUpdateKeeps, KillUpdateKeeps,
     InterruptedKeeps, MigratePhaseKeeps, RestartPhaseKeeps, ReviewPhaseKeeps, PhaseEndsKeeps,
     ChildDiesKeeps DEF CommandStep, PhaseStep
<1> QED BY <1>1, <1>2, AroundKeeps DEF UpdateNext

(* The invariant holds for any updaters, workspaces and commits.            *)
THEOREM UpdateInvariant == UpdateSpec => []UpdateInv
  BY UpdateBegins, UpdateNextKeeps, PTL DEF UpdateSpec

(* Who stops waiting without a failure has read the report of a phase that  *)
(* had none.                                                                *)
LEMMA CleanReport ==
    ASSUME UpdateInv, [UpdateNext]_updateVars, NEW u \in Updater, bin[u].pc = "waits",
           bin'[u].pc = "reports", ~bin'[u].failed
    PROVE  phase[u].pc = "done" /\ ~phase[u].failed
<1>1. bin \in [Updater -> BinKind] /\ bin[u] \in BinKind /\ phase[u] \in PhaseKind
  BY DEF UpdateInv, UpdateTyped
<1>2. bin' # bin
  OBVIOUS
<1>3. PICK v \in Updater : CommandStep(v) \/ PhaseEnds(v) \/ ChildDies(v)
  BY <1>2 DEF UpdateNext, updateVars, PhaseStep, MigratePhase, RestartPhase, ReviewPhase,
              Pushed, TreeEdited, ServiceOn, ServiceOff, ServiceDies
<1>4. v = u
  <2> SUFFICES ASSUME v # u PROVE bin'[u] = bin[u]
      OBVIOUS
  <2> QED BY <1>1, <1>3 DEF CommandStep, PhaseEnds, ChildDies, StartUpdate, TakeRepo, TakeHome,
             PipMissing, Advance, PipBegins, PipEnds, BeginUpdate, EndUpdate, KillUpdate,
             Interrupted, To, Reports
<1>5. ~CommandStep(u)
  BY <1>1, NoBinIs DEF CommandStep, StartUpdate, TakeRepo, TakeHome, PipMissing, Advance,
         PipBegins, PipEnds, BeginUpdate, EndUpdate, KillUpdate, Interrupted, OnStep
<1>6. ~ChildDies(u)
  BY ReportsIs DEF ChildDies, OnStep
<1>7. PhaseEnds(u)
  BY <1>3, <1>4, <1>5, <1>6
<1>8. Reports(u, phase[u].failed) /\ phase[u].failed \in BOOLEAN
  BY <1>1, <1>7 DEF PhaseEnds, OnStep, PhaseKind
<1>9. bin'[u].failed = (bin[u].failed \/ phase[u].failed)
  BY <1>8, ReportsIs
<1> QED BY <1>7, <1>9 DEF PhaseEnds

(* One update of a workspace at a time, no phase on code that is not the    *)
(* tree's, and success means the new code runs (run_update, _restart_services,*)
(* run_update_continuation).                                                *)
THEOREM UpdateStaysSafe == UpdateSpec => UpdateIsSafe
<1>1. UpdateInv => UpdateTypeOK
  BY DEF UpdateInv, UpdateTyped, UpdateTypeOK
<1>2. UpdateInv => OnePhase
  BY DEF UpdateInv, GoesRight, HasLocks, OnePhase
<1>3. UpdateInv => NoMixedCode
  BY DEF UpdateInv, GoesRight, PhaseRuns, NoMixedCode
<1>4. UpdateInv /\ [UpdateNext]_updateVars =>
        [\A u \in Updater :
           LET s == svc[bin[u].home] IN
           /\ OnStep(u, "waits") /\ bin'[u].pc = "reports" /\ ~bin'[u].failed
           /\ bin[u].pull /\ ~ugh.cut /\ ~ugh.crossed /\ s # Down
           => s.code = repo.head /\ (bin[u].moved => s.deps = repo.head)]_updateVars
  BY CleanReport DEF OnStep, UpdateInv, GoesRight, InOrder, Restarted
<1> QED BY <1>1, <1>2, <1>3, <1>4, UpdateInvariant, PTL DEF UpdateSpec, UpdateIsSafe, CleanMeansNew
============================================================================
