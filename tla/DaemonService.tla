--------------------------- MODULE DaemonService ---------------------------
(* The daemon as a service (daemon.py): lwa daemon on and off, the internal *)
(* stop of an update, and the single-instance lock of the watcher.  The     *)
(* lock is a lock on a file's inode (file_lock.py): whoever unlinks the     *)
(* path leaves the holder with an inode nobody else can find.  At the end:  *)
(* the patrol that runs in the watcher.                                     *)
EXTENDS Integers, FiniteSets

CONSTANTS Operator,   \* commands that may run at the same time
          MaxWatcher, \* bound: watcher processes
          MaxDuty,    \* bound: commands
          MaxWreck    \* bound: killed processes and commands, failing waits

ASSUME DaemonAssumption == /\ MaxWatcher \in Nat \ {0} /\ MaxDuty \in Nat /\ MaxWreck \in Nat
                           /\ Operator \cap {"gone", "free"} = {}

VARIABLES
    dst,        \* run/daemon.json
    path,       \* the inode run/daemon.lock names, 0 when it is not there
    text,       \* the process each inode's content names
    flock,      \* the process that holds each inode's lock
    watcher,    \* the watcher processes
    onLock,     \* the start lock file: who wrote it, if it is there
    duty,       \* the commands
    dgh,        \* ghost: a start overlapped an off or the start of another watcher,
                \* or lost its start lock to a command that took it for stale
    spentDaemon

daemonVars == <<dst, path, text, flock, watcher, onLock, duty, dgh, spentDaemon>>
runFiles   == <<path, text, flock>>

Watcher == 1..MaxWatcher
Inode   == 1..(MaxWatcher + 1)
DeadStarter    == "gone"          \* the start lock of a command that was killed
NoStarter    == "free"
NoDst   == [there |-> FALSE, on |-> FALSE, pid |-> 0]
NoDuty  == [pc |-> "idle", job |-> "none", copy |-> NoDst, pid |-> 0]

IsAlive(p) == p # 0 /\ watcher[p].s \in {"born", "open", "locked", "up", "ending"}
Unused(i) == /\ text[i] = 0 /\ flock[i] = 0 /\ i # path
             /\ \A p \in Watcher : watcher[p].node # i
FreshNode  == CHOOSE i \in Inode : Unused(i)
Unborn == {p \in Watcher : watcher[p].s = "none"}
NextBorn == CHOOSE p \in Unborn : TRUE

Wreck  == spentDaemon.wrecks < MaxWreck
          /\ spentDaemon' = [spentDaemon EXCEPT !.wrecks = @ + 1]
Usual  == UNCHANGED spentDaemon

NowAt(c, d) == duty' = [duty EXCEPT ![c] = d]
Over(c)     == NowAt(c, NoDuty)
Becomes(p, s) == watcher' = [watcher EXCEPT ![p].s = s]

DaemonInit ==
    /\ dst = NoDst /\ path = 0 /\ text = [i \in Inode |-> 0] /\ flock = text
    /\ watcher = [p \in Watcher |-> [s |-> "none", node |-> 0]]
    /\ onLock = NoStarter /\ duty = [c \in Operator |-> NoDuty]
    /\ dgh = [crossed |-> FALSE] /\ spentDaemon = [duties |-> 0, wrecks |-> 0]

----------------------------------------------------------------------------
(* The watcher.                                                             *)

(* daemon_lock opens the file, and creates it, before it asks for the lock. *)
OpenLock(p) ==
    /\ watcher[p].s = "born"
    /\ path' = IF path = 0 THEN FreshNode ELSE path
    /\ watcher' = [watcher EXCEPT ![p] = [s |-> "open", node |-> path']]
    /\ UNCHANGED <<dst, text, flock, onLock, duty, dgh>> /\ Usual

(* Mutant: the lock is taken although another process holds it.             *)
LockIsFree_Always(i) == TRUE
LockIsFree(i) == flock[i] = 0

TakeRunLock(p) ==
    /\ watcher[p].s = "open"
    /\ LET i == watcher[p].node IN
         IF LockIsFree(i)
         THEN /\ flock' = [flock EXCEPT ![i] = p] /\ text' = [text EXCEPT ![i] = p]
              /\ Becomes(p, "locked")
         ELSE Becomes(p, "dead") /\ UNCHANGED <<flock, text>>
    /\ UNCHANGED <<dst, path, onLock, duty, dgh>> /\ Usual

(* _main writes its own pid and the intent to run. *)
NotePidUp(p) ==
    /\ watcher[p].s = "locked" /\ Becomes(p, "up")
    /\ dst' = [there |-> TRUE, on |-> TRUE, pid |-> p]
    /\ UNCHANGED <<runFiles, onLock, duty, dgh>> /\ Usual

(* The watcher ends a round, sees that it is off, or was asked to end, and  *)
(* gives the lock back; the path stays (BUG-213).                           *)
WatcherEnds(p) ==
    /\ \/ watcher[p].s = "ending"
       \/ watcher[p].s = "up" /\ ~dst.on
    /\ Becomes(p, "dead")
    /\ flock' = [i \in Inode |-> IF flock[i] = p THEN 0 ELSE flock[i]]
    /\ UNCHANGED <<dst, path, text, onLock, duty, dgh>> /\ Usual

WatcherKilled(p) ==
    /\ IsAlive(p) /\ Wreck /\ Becomes(p, "dead")
    /\ flock' = [i \in Inode |-> IF flock[i] = p THEN 0 ELSE flock[i]]
    /\ UNCHANGED <<dst, path, text, onLock, duty, dgh>>

----------------------------------------------------------------------------
(* on                                                                       *)

(* _live_watcher_lock_pid and is_running read the file the path names; a    *)
(* lock that names a dead process is stale.                                 *)
LockPid == IF path # 0 /\ IsAlive(text[path]) THEN text[path] ELSE 0
IsRunning == dst.there /\ dst.on /\ IsAlive(dst.pid) /\ LockPid # 0

Crosses(c) == \E d \in Operator \ {c} : duty[d].pc # "idle"
BeginDuty(c, d) ==
    /\ duty[c].pc = "idle" /\ spentDaemon.duties < MaxDuty
    /\ spentDaemon' = [spentDaemon EXCEPT !.duties = @ + 1]
    /\ NowAt(c, d)

BeginOn(c) ==
    /\ BeginDuty(c, [NoDuty EXCEPT !.pc = "lock", !.job = "on"]) /\ UNCHANGED <<dst, runFiles, watcher, onLock>>
    /\ dgh' = [crossed |-> dgh.crossed \/ \E d \in Operator : duty[d].job \in {"off", "stop"}]

(* daemon_start_lock creates its file or fails; a file of a dead process is *)
(* removed, in a step of its own - by then it may be the file of another    *)
(* command that has found it stale before.                                  *)
TakeOnLock(c) ==
    /\ duty[c].pc = "lock"
    /\ \/ /\ onLock = NoStarter /\ onLock' = c /\ Usual
          /\ NowAt(c, [duty[c] EXCEPT !.pc = "look"])
       \/ /\ onLock = DeadStarter /\ UNCHANGED onLock /\ Usual
          /\ NowAt(c, [duty[c] EXCEPT !.pc = "clear"])
       \/ onLock \in Operator /\ Over(c) /\ UNCHANGED onLock /\ Wreck
    /\ UNCHANGED <<dst, runFiles, watcher, dgh>>

ClearOnLock(c) ==
    /\ duty[c].pc = "clear" /\ onLock' = NoStarter /\ NowAt(c, [duty[c] EXCEPT !.pc = "lock"])
    /\ dgh' = [crossed |-> dgh.crossed \/ onLock \in Operator]
    /\ UNCHANGED <<dst, runFiles, watcher>> /\ Usual

LookForWatcher(c) ==
    /\ duty[c].pc = "look"
    /\ IF IsRunning
       THEN NowAt(c, [duty[c] EXCEPT !.pc = "unlock"]) /\ UNCHANGED dst
       ELSE IF LockPid # 0
       THEN /\ dst' = [there |-> TRUE, on |-> TRUE, pid |-> LockPid]
            /\ NowAt(c, [duty[c] EXCEPT !.pc = "unlock"])
       ELSE /\ dst' = [there |-> TRUE, on |-> TRUE, pid |-> dst.pid]
            /\ NowAt(c, [duty[c] EXCEPT !.pc = "spawn"])
    /\ UNCHANGED <<runFiles, watcher, onLock, dgh>> /\ Usual

SpawnWatcher(c) ==
    /\ duty[c].pc = "spawn" /\ Unborn # {}
    /\ LET p == NextBorn IN
         /\ Becomes(p, "born")
         /\ dst' = [there |-> TRUE, on |-> TRUE, pid |-> p]
         /\ NowAt(c, [duty[c] EXCEPT !.pc = "wait", !.pid = p])
         /\ dgh' = [crossed |-> dgh.crossed \/ \E q \in Watcher : IsAlive(q)]
    /\ UNCHANGED <<runFiles, onLock>> /\ Usual

(* The wait ends when the lock file names the child; a child that is dead   *)
(* or late is a failed start: the intent stays, the child is terminated.    *)
WaitForWatcher(c) ==
    /\ duty[c].pc = "wait"
    /\ LET p == duty[c].pid IN
         \/ /\ LockPid = p /\ Usual
            /\ dst' = [there |-> TRUE, on |-> TRUE, pid |-> p] /\ UNCHANGED watcher
         \/ /\ LockPid # p
            /\ IF IsAlive(p) THEN Wreck /\ Becomes(p, "ending") ELSE Usual /\ UNCHANGED watcher
            /\ dst' = [there |-> TRUE, on |-> TRUE, pid |-> 0]
    /\ NowAt(c, [duty[c] EXCEPT !.pc = "unlock"])
    /\ UNCHANGED <<runFiles, onLock, dgh>>

GiveOnLock(c) ==
    /\ duty[c].pc = "unlock" /\ onLock' = NoStarter /\ Over(c)
    /\ UNCHANGED <<dst, runFiles, watcher, dgh>> /\ Usual

----------------------------------------------------------------------------
(* off records that the daemon is off before it stops the process; the      *)
(* internal stop of an update leaves the intent alone.                      *)
BeginOff(c) ==
    /\ dst.there
    /\ \E job \in {"off", "stop"} :
         /\ dst' = IF job = "off" THEN [dst EXCEPT !.on = FALSE] ELSE dst
         /\ BeginDuty(c, [pc |-> "term", job |-> job, pid |-> 0, copy |-> dst'])
    /\ dgh' = [crossed |-> dgh.crossed \/ Crosses(c)
                           \/ \E p \in Watcher : watcher[p].s \in {"born", "open", "locked"}]
    /\ UNCHANGED <<runFiles, watcher, onLock>>

(* _terminate_pid asks, waits, and kills; it may answer before the process  *)
(* is gone, and then nothing is cleaned up (BUG-192).                       *)
Terminate(c) ==
    /\ duty[c].pc = "term"
    /\ LET p == duty[c].copy.pid IN
         \/ /\ ~IsAlive(p) /\ UNCHANGED <<watcher, flock>> /\ Usual
            /\ NowAt(c, [duty[c] EXCEPT !.pc = "unlink"])
         \/ /\ IsAlive(p) /\ Becomes(p, "dead") /\ Usual
            /\ flock' = [i \in Inode |-> IF flock[i] = p THEN 0 ELSE flock[i]]
            /\ NowAt(c, [duty[c] EXCEPT !.pc = "unlink"])
         \/ IsAlive(p) /\ Becomes(p, "ending") /\ Wreck /\ Over(c) /\ UNCHANGED flock
    /\ UNCHANGED <<dst, path, text, onLock, dgh>>

(* The lock file is unlinked, whoever has opened it in the meantime.        *)
UnlinkLock(c) ==
    /\ duty[c].pc = "unlink" /\ path' = 0
    /\ NowAt(c, [duty[c] EXCEPT !.pc = "note"])
    /\ UNCHANGED <<dst, text, flock, watcher, onLock, dgh>> /\ Usual

NoteStopped(c) ==
    /\ duty[c].pc = "note" /\ Over(c) /\ dst' = [duty[c].copy EXCEPT !.pid = 0]
    /\ UNCHANGED <<runFiles, watcher, onLock, dgh>> /\ Usual

DutyKilled(c) ==
    /\ duty[c].pc # "idle" /\ Wreck /\ Over(c)
    /\ onLock' = IF onLock = c THEN DeadStarter ELSE onLock
    /\ UNCHANGED <<dst, runFiles, watcher, dgh>>

(* The unit of the daemon starts a watcher without the command's locks.     *)
UnitStartsWatcher ==
    /\ Unborn # {} /\ Wreck
    /\ Becomes(NextBorn, "born")
    /\ dgh' = [crossed |-> dgh.crossed \/ \E d \in Operator : duty[d].pc # "idle"]
    /\ UNCHANGED <<dst, runFiles, onLock, duty>>

DaemonNext ==
    \/ \E p \in Watcher :
         OpenLock(p) \/ TakeRunLock(p) \/ NotePidUp(p) \/ WatcherEnds(p) \/ WatcherKilled(p)
    \/ \E c \in Operator :
         \/ BeginOn(c) \/ TakeOnLock(c) \/ ClearOnLock(c) \/ LookForWatcher(c)
         \/ SpawnWatcher(c) \/ WaitForWatcher(c) \/ GiveOnLock(c)
         \/ BeginOff(c) \/ Terminate(c) \/ UnlinkLock(c) \/ NoteStopped(c) \/ DutyKilled(c)
    \/ UnitStartsWatcher

DaemonSpec == DaemonInit /\ [][DaemonNext]_daemonVars

----------------------------------------------------------------------------
(* Properties                                                               *)

DaemonTypeOK ==
    /\ path \in Inode \cup {0} /\ text \in [Inode -> 0..MaxWatcher]
    /\ flock \in [Inode -> 0..MaxWatcher]
    /\ onLock \in Operator \cup {NoStarter, DeadStarter}
    /\ \A p \in Watcher : watcher[p].s \in {"none", "born", "open", "locked", "up", "ending", "dead"}

Watching == {p \in Watcher : watcher[p].s \in {"locked", "up"}}

(* One watcher at a time works on the inbox and on the instances            *)
(* (file_lock.py:8-9, BUG-213), whatever starts, dies and ends at the same  *)
(* time, as long as no start overlaps an off or another start: one that     *)
(* lost its start lock does (daemon.py:1499).                               *)
OneWatcherUnlessCrossed == ~dgh.crossed => Cardinality(Watching) <= 1

(* ... in every case (daemon.py:453, WBS-21.11).                            *)
OneWatcher == Cardinality(Watching) <= 1

(* The daemon's process in one statement: its states, and one watcher.       *)
DaemonIsSafe == DaemonTypeOK /\ OneWatcherUnlessCrossed

----------------------------------------------------------------------------
(* The patrol (consistency.py): the watcher compares the copies of a fact   *)
(* about one instance and its alias and tells a set of drifts once, as      *)
(* events, until the set changes.  It shares no state with the above.       *)

CONSTANTS MaxEdit, \* bound: copies that change
          MaxMiss  \* bound: events that cannot be written, restarts

ASSUME PatrolAssumption == MaxEdit \in Nat /\ MaxMiss \in Nat

VARIABLES
    copies,   \* the copies of the facts
    patrol,   \* what the daemon remembers, and the round it is in
    toldOf,     \* the drifts an event was written for since the daemon began
    spentPatrol

patrolVars == <<copies, patrol, toldOf, spentPatrol>>

(* The row and the manifest of the instance, the generated files, the alias *)
(* fragment and the import of it in the main file.                          *)
Copies == [here : BOOLEAN, row : {"running", "stopped", "building"},
           man : {"running", "stopped", "lost"}, static : BOOLEAN, aliased : BOOLEAN,
           files : {"base", "edited", "gone"}, frag : {"none", "same", "other"},
           imported : BOOLEAN]
Whole  == [here |-> TRUE, row |-> "running", man |-> "running", static |-> TRUE,
           aliased |-> TRUE, files |-> "base", frag |-> "same", imported |-> TRUE]
Unmade == {"never"}

PatrolInit ==
    /\ copies \in {[Whole EXCEPT !.static = b] : b \in BOOLEAN}
    /\ patrol = [sig |-> Unmade, seen |-> {}, todo |-> {}, on |-> FALSE]
    /\ toldOf = {} /\ spentPatrol = [edits |-> 0, misses |-> 0]

----------------------------------------------------------------------------
(* Each family of checks; an unregistered instance has only orphans, and an *)
(* instance whose manifest cannot be read is not looked at any further.     *)

ManifestDrifts(c) ==
    {d \in {"no manifest", "status"} : c.here /\
        (\/ d = "no manifest" /\ c.man = "lost"
         \/ d = "status" /\ c.man # "lost" /\ c.man # c.row)}
ArtifactDrifts(c) ==
    {d \in {"no files", "edited files"} : c.here /\ ~c.static /\ c.man # "lost" /\
        (\/ d = "no files" /\ c.files = "gone"
         \/ d = "edited files" /\ c.files = "edited")}
(* A serving instance with an alias has the fragment the manifest renders;  *)
(* one without an alias or a manifest that loads, or a static one that was  *)
(* stopped, has none.                                                       *)
AliasDrifts(c) ==
    {d \in {"missing", "other text", "left over", "left by stop"} : c.here /\
        LET alias == c.aliased /\ c.man # "lost" IN
        (\/ d = "missing" /\ alias /\ c.row = "running" /\ c.frag = "none"
         \/ d = "other text" /\ alias /\ c.row = "running" /\ c.frag = "other"
         \/ d = "left over" /\ ~alias /\ c.frag # "none"
         \/ d = "left by stop" /\ alias /\ c.static /\ c.row = "stopped" /\ c.frag # "none")}
FragmentDrifts(c) == {d \in {"orphan"} : ~c.here /\ c.frag # "none"}
CaddyDrifts(c) ==
    {d \in {"dangling import", "not imported"} :
        \/ d = "dangling import" /\ c.imported /\ c.frag = "none"
        \/ d = "not imported" /\ c.here /\ ~c.imported /\ c.frag # "none"}

(* collect_drifts. *)
Drifts == ManifestDrifts(copies) \cup ArtifactDrifts(copies) \cup AliasDrifts(copies)
            \cup FragmentDrifts(copies) \cup CaddyDrifts(copies)

----------------------------------------------------------------------------
(* run_consistency_patrol: the same set of drifts is not told again; the    *)
(* memory is written only after every event was.                            *)
Calm == UNCHANGED spentPatrol
Miss == spentPatrol.misses < MaxMiss /\ spentPatrol' = [spentPatrol EXCEPT !.misses = @ + 1]

Collects ==
    /\ ~patrol.on /\ patrol.sig # Drifts
    /\ patrol' = [patrol EXCEPT !.on = TRUE, !.seen = Drifts, !.todo = Drifts]
    /\ UNCHANGED <<copies, toldOf>> /\ Calm

Tells ==
    /\ patrol.on
    /\ \E d \in patrol.todo : patrol' = [patrol EXCEPT !.todo = @ \ {d}] /\ toldOf' = toldOf \cup {d}
    /\ UNCHANGED copies /\ Calm

(* Mutant: the set counts as told when an event could not be written.       *)
AfterMiss_Told(p) == [p EXCEPT !.on = FALSE, !.sig = p.seen]
AfterMiss(p) == [p EXCEPT !.on = FALSE]
TellFails ==
    /\ patrol.on /\ patrol.todo # {} /\ Miss
    /\ patrol' = AfterMiss(patrol) /\ UNCHANGED <<copies, toldOf>>

Remembers ==
    /\ patrol.on /\ patrol.todo = {}
    /\ patrol' = [patrol EXCEPT !.on = FALSE, !.sig = patrol.seen]
    /\ UNCHANGED <<copies, toldOf>> /\ Calm

DaemonBegins ==
    /\ Miss /\ patrol' = [sig |-> Unmade, seen |-> {}, todo |-> {}, on |-> FALSE]
    /\ toldOf' = {} /\ UNCHANGED copies

(* Commands, crashes and users change one copy at a time.                   *)
CopyChanges ==
    /\ spentPatrol.edits < MaxEdit /\ spentPatrol' = [spentPatrol EXCEPT !.edits = @ + 1]
    /\ \/ \E r \in {"running", "stopped", "building"} : copies' = [copies EXCEPT !.row = r]
       \/ \E m \in {"running", "stopped", "lost"} : copies' = [copies EXCEPT !.man = m]
       \/ copies' = [copies EXCEPT !.here = ~@]
       \/ copies' = [copies EXCEPT !.aliased = ~@]
       \/ copies' = [copies EXCEPT !.imported = ~@]
       \/ \E f \in {"base", "edited", "gone"} : copies' = [copies EXCEPT !.files = f]
       \/ \E f \in {"none", "same", "other"} : copies' = [copies EXCEPT !.frag = f]
    /\ copies' # copies /\ UNCHANGED <<patrol, toldOf>>

PatrolStep == Collects \/ Tells \/ Remembers
PatrolNext == PatrolStep \/ TellFails \/ DaemonBegins \/ CopyChanges
PatrolSpec == PatrolInit /\ [][PatrolNext]_patrolVars /\ WF_patrolVars(PatrolStep)

----------------------------------------------------------------------------
PatrolTypeOK ==
    /\ copies \in Copies /\ patrol.todo \subseteq patrol.seen /\ patrol.on \in BOOLEAN

(* The patrol keeps quiet about a set of drifts only when each of them has  *)
(* been told: better twice than never (consistency.py 589-590).             *)
NothingSilent == patrol.sig = Unmade \/ patrol.sig \subseteq toldOf

(* The patrol in one statement: its types, and that no drift goes untold.    *)
PatrolIsHeard == PatrolTypeOK /\ NothingSilent
=============================================================================
