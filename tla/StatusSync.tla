----------------------------- MODULE StatusSync -----------------------------
(* What the observers do to one instance (status.py, the observation in     *)
(* lifecycle.py): sync_status writes back what it sees and takes back a     *)
(* "building" nobody works on any more.  It holds no lock while it judges.  *)
EXTENDS Integers, Sequences, FiniteSets

CONSTANTS Kinds,      \* how the instance may be built
          MaxBuilding, \* bound: builds
          MaxSync,    \* bound: rounds of sync_status while a build runs
          MaxShift    \* bound: changes nobody recorded, failing writes, crashes

ASSUME SyncAssumption ==
    /\ Kinds \subseteq {"static", "frontend", "container"}
    /\ {MaxBuilding, MaxSync, MaxShift} \subseteq Nat

VARIABLES
    srow2,     \* the row in instances: status, last trusted state, age of the row
    mstat,     \* the status in local-web.json
    runs,      \* the rows in builds, oldest first
    world,     \* the container or site, and whether it can be observed
    worker,    \* the process that builds, under the instance lock
    syncer,    \* a manager in sync_status
    sygh,      \* ghost: the judgement of a build crossed its beginning
    spentSync

obsVars  == <<srow2, mstat, runs>>
syncVars == <<obsVars, world, worker, syncer, sygh, spentSync>>

SetDown    == worker' = [worker EXCEPT !.pc = "idle"]
NoGlance == [pc |-> "idle", stale |-> FALSE, row |-> 0]
Busy     == worker.pc # "idle"
Free     == ~Busy                      \* the instance lock
Latest   == Len(runs)

Shifts == spentSync.shifts < MaxShift /\ spentSync' = [spentSync EXCEPT !.shifts = @ + 1]
Stays  == UNCHANGED spentSync
Work(p) == worker' = [worker EXCEPT !.pc = p]

SyncInit ==
    /\ srow2 = [st |-> "running", trusted |-> "running", old |-> FALSE] /\ mstat = "running"
    /\ runs \in {<<>>, <<[st |-> "success", old |-> TRUE]>>}
    /\ world = [up |-> TRUE, sight |-> "ok"] /\ worker \in [pc : {"idle"}, kind : Kinds]
    /\ syncer = NoGlance
    /\ sygh = [crossed |-> FALSE] /\ spentSync = [builds |-> 0, syncs |-> 0, shifts |-> 0]

----------------------------------------------------------------------------
(* A build: host_static writes no row in builds, host_frontend writes the   *)
(* status before the row, host_container the row before the status.         *)

NewRun(old) == Append([i \in DOMAIN runs |-> IF runs[i].st = "running"
                                             THEN [runs[i] EXCEPT !.st = "failed", !.old = FALSE]
                                             ELSE runs[i]],
                      [st |-> "running", old |-> old])
MarkBuilding == srow2' = [srow2 EXCEPT !.st = "building", !.old = FALSE]

BeginBuild ==
    /\ Free /\ spentSync.builds < MaxBuilding
    /\ spentSync' = [spentSync EXCEPT !.builds = @ + 1]
    /\ Work("begun")
    /\ IF worker.kind = "container" THEN runs' = NewRun(FALSE) /\ srow2' = srow2
       ELSE MarkBuilding /\ runs' = runs
    /\ sygh' = [sygh EXCEPT !.crossed = @ \/ syncer.stale]
    /\ UNCHANGED <<mstat, world, syncer>>

SecondMark ==
    /\ worker.pc = "begun" /\ Work("working")
    /\ IF worker.kind = "container" THEN MarkBuilding /\ runs' = runs
       ELSE /\ srow2' = srow2
            /\ runs' = IF worker.kind = "frontend" THEN NewRun(FALSE) ELSE runs
    /\ UNCHANGED <<mstat, world, syncer, sygh>> /\ Stays

FinishRun ==
    /\ worker.pc = "working"
    /\ IF worker.kind = "static" THEN runs' = runs /\ Work("ended")
       ELSE \E s \in {"success", "failed"} :
              runs' = [runs EXCEPT ![Latest] = [st |-> s, old |-> FALSE]] /\ Work("ended")
    /\ UNCHANGED <<srow2, mstat, world, syncer, sygh>> /\ Stays

EndBuild ==
    /\ worker.pc = "ended" /\ SetDown
    /\ \E s \in {"running", "failed"} :
         /\ srow2' = [srow2 EXCEPT !.st = s, !.old = FALSE] /\ mstat' = s
         /\ world' = [world EXCEPT !.up = (s = "running")]
    /\ UNCHANGED <<runs, syncer, sygh>> /\ Stays

(* The process is killed: the lock is free, the records stay.               *)
BuilderDies ==
    /\ Busy /\ Shifts /\ SetDown
    /\ \E u \in {world.up, FALSE} : world' = [world EXCEPT !.up = u]
    /\ UNCHANGED <<obsVars, syncer, sygh>>

(* Time passes: 3600 s for what nobody touches, 120 s for the row of an     *)
(* instance without builds.  A build that runs is shorter than that.        *)
GrowsOld ==
    /\ runs' = [i \in DOMAIN runs |-> IF Busy /\ i = Latest /\ worker.kind # "static"
                                         /\ (worker.kind = "container" \/ worker.pc # "begun")
                                      THEN runs[i] ELSE [runs[i] EXCEPT !.old = TRUE]]
    /\ srow2' = [srow2 EXCEPT !.old = ~Busy]
    /\ <<runs, srow2>>' # <<runs, srow2>>
    /\ UNCHANGED <<mstat, world, worker, syncer, sygh>> /\ Stays

----------------------------------------------------------------------------
(* sync_status: it reads the status, and judges a "building" by the newest  *)
(* row of builds, or by the age of the instance's row when there is none.   *)

(* Mutants: a running row is stale whatever its age; an ended row is never  *)
(* stale.                                                                   *)
StaleRun_Running(r) == r.old /\ r.st = "running"
StaleRun_Any(r) == r.st \in {"running", "success", "failed"}
StaleRun(r) == r.old /\ r.st \in {"running", "success", "failed"}
Stale == IF runs = <<>> THEN srow2.old ELSE StaleRun(runs[Latest])

(* has_active_build.                                                        *)
ActiveBuild == runs # <<>> /\ runs[Latest].st = "running" /\ ~runs[Latest].old

BeginSync ==
    /\ syncer.pc = "idle"
    /\ IF Busy THEN spentSync.syncs < MaxSync /\ spentSync' = [spentSync EXCEPT !.syncs = @ + 1]
       ELSE Stays
    /\ syncer' = IF srow2.st = "building"
                 THEN [pc |-> IF Stale THEN "recover" ELSE "building",
                       stale |-> Stale, row |-> Latest]
                 ELSE [pc |-> "orphans", stale |-> FALSE, row |-> 0]
    /\ sygh' = [sygh EXCEPT !.crossed = @ \/ (srow2.st = "building" /\ Stale /\ Busy
                                               /\ worker.pc = "begun")
                                          \/ (Stale /\ Busy /\ worker.kind = "static")]
    /\ UNCHANGED <<obsVars, world, worker>>

(* _recover_stale_building: the row it read is closed, the instance failed. *)
Recover ==
    /\ syncer.pc = "recover"
    /\ runs' = IF syncer.row > 0 /\ runs[syncer.row].st = "running"
               THEN [runs EXCEPT ![syncer.row] = [st |-> "failed", old |-> FALSE]] ELSE runs
    /\ srow2' = [srow2 EXCEPT !.st = "failed", !.old = FALSE]
    /\ syncer' = [syncer EXCEPT !.pc = "orphans"]
    /\ UNCHANGED <<mstat, world, worker, sygh>> /\ Stays

(* _recover_orphan_running_builds; then the instance is observed, unless it *)
(* was just failed, or was building when the round looked and still has an  *)
(* active build.                                                            *)
Orphans ==
    /\ syncer.pc \in {"orphans", "building"}
    /\ runs' = [i \in DOMAIN runs |-> IF runs[i].st = "running" /\ runs[i].old
                                      THEN [st |-> "failed", old |-> FALSE] ELSE runs[i]]
    /\ syncer' = IF syncer.stale \/ (syncer.pc = "building" /\ ActiveBuild) THEN NoGlance
                 ELSE [NoGlance EXCEPT !.pc = "observe"]
    /\ UNCHANGED <<srow2, mstat, world, worker, sygh>> /\ Stays

(* observe_status, under the instance lock.  What Docker answers is         *)
(* trusted; without an answer the status stays as it is, unless Docker may  *)
(* not be asked and the port answers.  A static site is not asked of Docker.*)
Seen == IF world.up THEN "running" ELSE "stopped"
CanSee == worker.kind # "container" \/ world.sight = "ok" \/ (world.sight = "denied" /\ world.up)
Observe ==
    /\ syncer.pc = "observe" /\ Free /\ syncer' = NoGlance
    /\ IF CanSee
       THEN /\ srow2' = [st |-> Seen, trusted |-> Seen, old |-> FALSE]
            /\ mstat' = IF srow2.st # Seen THEN Seen ELSE mstat
       ELSE srow2' = [srow2 EXCEPT !.old = FALSE] /\ UNCHANGED mstat
    /\ UNCHANGED <<runs, world, worker, sygh>> /\ Stays

(* Somebody holds the lock: the round goes on without this instance.        *)
Passes ==
    /\ syncer.pc = "observe" /\ Busy /\ syncer' = NoGlance
    /\ UNCHANGED <<obsVars, world, worker, sygh>> /\ Stays

----------------------------------------------------------------------------
(* The container dies or comes back, Docker answers or does not.            *)
WorldShifts ==
    /\ Shifts /\ UNCHANGED <<obsVars, worker, syncer, sygh>>
    /\ world' \in [up : BOOLEAN, sight : {"ok", "denied", "blind"}] \ {world}

WorkStep == BeginBuild \/ SecondMark \/ FinishRun \/ EndBuild
SyncStep == BeginSync \/ Recover \/ Orphans \/ Observe \/ Passes
SyncNext == WorkStep \/ BuilderDies \/ GrowsOld \/ SyncStep \/ WorldShifts

(* The manager asks for the status again and again, and time passes.        *)
SyncSpec == SyncInit /\ [][SyncNext]_syncVars
            /\ WF_syncVars(SyncStep) /\ WF_syncVars(GrowsOld)

----------------------------------------------------------------------------
SyncTypeOK ==
    /\ srow2.st \in {"running", "stopped", "building", "failed"}
    /\ mstat \in {"running", "stopped", "failed"}
    /\ \A i \in DOMAIN runs : runs[i].st \in {"running", "success", "failed"}
    /\ worker.pc \in {"idle", "begun", "working", "ended"}
    /\ syncer.row \in 0..Latest

(* A build that runs is not declared dead, nor its instance failed, unless  *)
(* it began while it was being judged (status.py 35-40, BUG-048).           *)
LiveBuildSparedUnlessCrossed ==
    (worker.pc = "working" /\ ~sygh.crossed) =>
        /\ srow2.st # "failed"
        /\ worker.kind # "static" => runs[Latest].st = "running"

(* What a round does to a build in one statement, for one invariant.         *)
BuildIsSpared == SyncTypeOK /\ LiveBuildSparedUnlessCrossed

(* "An ended row older than the threshold is certainly no normal transition *)
(* window" (status.py 553-554): an instance whose build runs is not failed. *)
LiveBuildSpared == worker.pc = "working" => (srow2.st # "failed" \/ syncer.stale)

(* A building nobody works on ends, whether or not Docker can be observed   *)
(* (BUG-048, BUG-129, BUG-166).                                             *)
BuildingEnds == (srow2.st = "building" /\ ~Busy) ~> (srow2.st # "building" \/ Busy)
=============================================================================
