---------------------------- MODULE InstanceLife ----------------------------
(* The life of one container instance between its users (CLI, manager,      *)
(* agent: lifecycle.py, rollback.py, import --update) and the daemon that   *)
(* keeps running what should run (daemon.reconcile, reconcile_circuit.py).  *)
(* Users and daemon meet in the instance lock, the row, the manifest and    *)
(* Docker; what host_container does under the lock is in ContainerDeploy    *)
(* and is one step here.                                                    *)
EXTENDS Integers

CONSTANTS User, Daemon, NoOne,
          NoRev,
          MANUAL_THRESHOLD,   \* failures after which the daemon stops trying
          MaxEvent            \* bound: calls of users, failing commands, crashes and
                              \* containers that die, together

ASSUME LifeAssumption ==
    /\ Daemon \notin User /\ NoOne \notin User \cup {Daemon}
    /\ NoRev \notin Nat
    /\ MANUAL_THRESHOLD \in Nat \ {0}
    /\ MaxEvent \in Nat

VARIABLES
    row,      \* instances row; desired and status are also in the manifest
    man,      \* local-web.json: deployed or not, and the circuit breaker
    box,      \* the container: "none", "stopped" or "running"
    code,     \* [stale: the source is not the one deployed, broken: it does not build]
    history,  \* [failed: lastOperation failed, archive: a version to roll back to,
              \*  active: a builds row says running]
    owner,    \* the marker run/build-owners/<id>.json: whether its process lives
    lock,     \* holder of the instance lock
    act,      \* what each actor is doing
    mem,      \* _reconcile_failures of the daemon process
    gh,       \* ghost: what the users last achieved, and what the circuit should say
    left      \* what the bound leaves

world == <<row, man, box, code, history, owner>>
vars  == <<world, lock, act, mem, gh, left>>

Actor    == User \cup {Daemon}
Removals == {"remove", "purge"}
Kind     == {"start", "restart", "rebuild", "rollback", "update", "stop"} \cup Removals

Idle == [pc |-> "idle", kind |-> "none", exp |-> NoRev, seen |-> NoRev,
         txn |-> FALSE, out |-> "none", was |-> "none", load |-> 0, old |-> "no",
         held |-> [status |-> "stopped", desired |-> "stopped", id |-> FALSE,
                   count |-> 0, wait |-> FALSE, failed |-> FALSE]]

At(a, p)   == act[a].pc = p
Goto(a, p) == act' = [act EXCEPT ![a].pc = p]
Doing(a, kinds) == act[a].kind \in kinds

(* The operation has its answer and lets go of the lock; reconcile goes on  *)
(* from there.                                                              *)
Ended(a, out) ==
    IF a \in User THEN Idle ELSE [Idle EXCEPT !.pc = "done", !.kind = act[a].kind, !.out = out]
Release(a) == lock' = IF lock = a THEN NoOne ELSE lock
Answer(a, out) == act' = [act EXCEPT ![a] = Ended(a, out)] /\ Release(a)

(* Something happens that the bound counts: a call, a failing command or an *)
(* upset.                                                                   *)
Event == left > 0 /\ left' = left - 1
Fault == Event

----------------------------------------------------------------------------
(* The row, its revision and the circuit breaker                            *)

Rev == IF row.there THEN row.rev ELSE NoRev

(* upsert_from_manifest and update_status: an absent row comes back, with   *)
(* the first revision.                                                      *)
Registered(status, desired) ==
    [there |-> TRUE, status |-> status, desired |-> desired,
     rev |-> IF row.there THEN row.rev ELSE 1]

(* Mutant: the row takes Docker's own word for a stopped container. *)
Marked_Docker(status) ==
    IF row.there THEN [row EXCEPT !.status = IF status = "stopped" THEN "exited" ELSE status]
                 ELSE row

(* update_status alone changes nothing when there is no row. *)
Marked(status) == IF row.there THEN [row EXCEPT !.status = status] ELSE row

Waiting(a) == act[a].pc \in {"want", "wantSwap"}
Raising(a) == act[a].kind \in {"rebuild", "update"}

(* Ghost: another operation raises the revision an actor still goes by.  (A *)
(* removed instance counts from one again: its revisions are void.)         *)
GoesBy(b) ==
    \/ Waiting(b) /\ (act[b].exp # NoRev \/ Raising(b))
    \/ Raising(b) /\ act[b].pc \in {"work", "build", "cas"}
Overtaken(a) ==
    [b \in Actor |-> IF b # a /\ GoesBy(b) /\ act[b].old = "no"
                     THEN [act[b] EXCEPT !.old = "yes"] ELSE act[b]]

(* Mutant: the revision is raised whatever it is now. *)
CasAnswer_Always(a, base, r) ==
    /\ row' = [r EXCEPT !.rev = @ + 1]
    /\ act' = [Overtaken(a) EXCEPT ![a] = Ended(a, "ok")]
    /\ Release(a)

(* cas_increment_revision of rebuild, rollback and update, the last step of *)
(* each.                                                                    *)
CasAnswer(a, base, r) ==
    \/ /\ r.rev = base
       /\ row' = [r EXCEPT !.rev = @ + 1]
       /\ act' = [Overtaken(a) EXCEPT ![a] = Ended(a, "ok")]
       /\ Release(a)
    \/ r.rev # base /\ row' = r /\ Answer(a, "error")

(* import --update goes on with the manifest it loaded under an earlier lock. *)
HoldsManifest(u) == act[u].pc \in {"reread", "wantSwap"}

(* clear_circuit, and the ghost that goes with it. *)
Cleared(m) == [m EXCEPT !.count = 0, !.wait = FALSE]
NoteCleared(g) ==
    [g EXCEPT !.tries = 0, !.lost = 0,
              !.crossed = At(Daemon, "persist") \/ \E u \in User : HoldsManifest(u)]

(* is_blocked *)
Fused   == man.count >= MANUAL_THRESHOLD
Blocked == man.there /\ (Fused \/ man.wait)

(* record_failure; a count above the threshold says no more than one at it. *)
Counted(m, n) ==
    [m EXCEPT !.count = IF n < MANUAL_THRESHOLD THEN n ELSE MANUAL_THRESHOLD,
              !.wait = n < MANUAL_THRESHOLD]

(* Mutant: there is no manual threshold. *)
Recorded_NoManual(m, loaded) == Counted(m, 1)

(* Mutant: the count goes up by two. *)
Recorded_Twice(m, loaded) == Counted(m, loaded + 2)

(* ... on the count that was loaded. *)
Recorded(m, loaded) == Counted(m, loaded + 1)

(* _reconcile_failure_is_expensive: the next start would be a full build. *)
Expensive == ~man.id \/ code.stale

(* The daemon has looked at the desired state for the last time (a failed   *)
(* rollback goes on to a start without another look), or an update is about *)
(* to write back the desired state it loaded before.                        *)
Committed ==
    \/ \E u \in User : HoldsManifest(u) /\ act[u].held.desired = "running"
    \/ At(Daemon, "want")
    \/ At(Daemon, "done") /\ Doing(Daemon, {"rollback"}) /\ act[Daemon].out # "ok"

----------------------------------------------------------------------------
(* A user asks; an actor takes the lock or gives up                         *)

(* expected_revision is what the caller saw, if he says so; rebuild_instance *)
(* reads its own before it waits for the lock.                              *)
Call(u, kind) ==
    /\ At(u, "idle") /\ row.there
    /\ Event
    /\ \E exp \in {NoRev, row.rev} :
          /\ kind \in Removals => exp = NoRev
          /\ act' = [act EXCEPT ![u] =
                       [Idle EXCEPT !.pc = "want", !.kind = kind, !.exp = exp,
                                    !.seen = IF kind = "rebuild" THEN row.rev ELSE NoRev]]
    /\ UNCHANGED <<world, lock, mem, gh>>

(* _ensure_revision_locked *)
RevisionStands(a) == act[a].exp # NoRev => Rev = act[a].exp

(* Only a removal does without the manifest. *)
MayBegin(a) ==
    /\ Waiting(a) /\ lock = NoOne
    /\ RevisionStands(a) /\ (man.there \/ Doing(a, Removals))

Refuse(a) ==
    /\ Waiting(a) /\ lock = NoOne /\ ~MayBegin(a)
    /\ Answer(a, "error")
    /\ UNCHANGED <<world, mem, gh, left>>

(* start, restart and rebuild of a user clear the circuit as they begin.    *)
Enter(a) ==
    /\ MayBegin(a) /\ ~Doing(a, {"update"})
    /\ lock' = a
    /\ act' = [act EXCEPT ![a].pc = "work",
                          ![a].seen = IF Doing(a, {"rollback"}) THEN Rev ELSE @]
    /\ IF a \in User /\ Doing(a, {"start", "restart", "rebuild"})
       THEN man' = Cleared(man) /\ gh' = [NoteCleared(gh) EXCEPT !.wish = "run", !.late = FALSE]
       ELSE /\ UNCHANGED man
            /\ gh' = IF a \in User /\ Doing(a, {"rollback"})
                     THEN [gh EXCEPT !.wish = "run", !.late = FALSE] ELSE gh
    /\ UNCHANGED <<row, box, code, history, owner, mem, left>>

(* instance_lock times out. *)
LockTimeout(a) ==
    /\ Waiting(a) /\ lock # NoOne
    /\ Answer(a, "error")
    /\ UNCHANGED <<world, mem, gh, left>>

----------------------------------------------------------------------------
(* start, restart and rebuild                                               *)

(* start_container: compose start or up; a failed probe is an answer, too.  *)
LightStart(a) ==
    /\ man.id /\ ~code.stale
    /\ \/ At(a, "work") /\ Doing(a, {"start"})
       \/ At(a, "light")
    /\ \/ /\ box' = "running"
          /\ \/ row' = Registered("running", "running") /\ UNCHANGED left
             \/ row' = Registered("failed", "running") /\ Fault
          /\ IF Doing(a, {"start"}) THEN man' = Cleared(man) /\ gh' = NoteCleared(gh)
                                    ELSE UNCHANGED <<man, gh>>
          /\ Answer(a, "ok")
       \/ Fault /\ Answer(a, "error") /\ UNCHANGED <<row, man, box, gh>>
    /\ UNCHANGED <<code, history, owner, mem>>

(* _restart_instance_locked stops first; a stop that fails ends it. *)
RestartStop(a) ==
    /\ At(a, "work") /\ Doing(a, {"restart"}) /\ man.id /\ ~code.stale
    /\ \/ /\ box' = IF box = "running" THEN "stopped" ELSE box
          /\ Goto(a, "light") /\ UNCHANGED <<lock, left>>
       \/ Fault /\ Answer(a, "error") /\ UNCHANGED box
    /\ UNCHANGED <<row, man, code, history, owner, mem, gh>>

(* host_container up to the build.  Without a row add_build fails; restart  *)
(* does not go through the queue and leaves no marker.                      *)
FullBegin(a) ==
    /\ At(a, "work")
    /\ \/ Doing(a, {"rebuild"})
       \/ Doing(a, {"start", "restart"}) /\ Expensive
    /\ IF ~row.there
       THEN Answer(a, "error") /\ UNCHANGED world
       ELSE /\ act' = [act EXCEPT ![a].pc = "build", ![a].txn = box = "running" /\ man.id]
            /\ owner' = IF Doing(a, {"restart"}) THEN owner ELSE "live"
            /\ history' = [history EXCEPT !.active = TRUE]
            /\ IF box = "running" /\ man.id
               THEN UNCHANGED <<row, man>>
               ELSE row' = Marked("building") /\ man' = [man EXCEPT !.id = FALSE]
            /\ UNCHANGED <<box, code, lock>>
    /\ UNCHANGED <<mem, gh, left>>

BuildEnds(a) ==
    /\ At(a, "build")
    /\ owner' = IF Doing(a, {"restart"}) THEN owner ELSE "none"
    /\ UNCHANGED mem

(* The new version is verified; rebuild and start clear the circuit, rebuild *)
(* raises the revision it saw or answers with a conflict.                   *)
FullOk(a) ==
    /\ BuildEnds(a) /\ ~code.broken
    /\ box' = "running"
    /\ history' = [failed |-> FALSE, archive |-> TRUE, active |-> FALSE]
    /\ code' = [code EXCEPT !.stale = FALSE]
    /\ IF Doing(a, {"restart"})
       THEN man' = [man EXCEPT !.id = TRUE] /\ UNCHANGED gh
       ELSE man' = [Cleared(man) EXCEPT !.id = TRUE] /\ gh' = NoteCleared(gh)
    /\ IF Doing(a, {"rebuild"})
       THEN CasAnswer(a, act[a].seen, Registered("running", "running"))
       ELSE row' = Registered("running", "running") /\ Answer(a, "ok")
    /\ UNCHANGED left

(* The build, the swap or the verification fails.  Before a service that    *)
(* was up nothing changes; otherwise the instance is FAILED, and desired    *)
(* running when the container had come as far as its probes.                *)
FullFails(a) ==
    /\ BuildEnds(a)
    /\ IF code.broken THEN UNCHANGED left ELSE Fault
    /\ history' = [history EXCEPT !.failed = TRUE, !.active = FALSE]
    /\ IF act[a].txn
       THEN UNCHANGED <<row, box>>
       ELSE /\ \E desired \in {row.desired, "running"} : row' = Registered("failed", desired)
            /\ box' = "none"
    /\ Answer(a, "error")
    /\ UNCHANGED <<man, code, gh>>

----------------------------------------------------------------------------
(* The other operations under the lock                                      *)

(* The users have what they asked for; a daemon that is committed may still *)
(* undo it.                                                                 *)
Achieved(g, wish) == [g EXCEPT !.wish = wish, !.late = Committed]

(* stop_container *)
StopBox(a) ==
    /\ At(a, "work") /\ Doing(a, {"stop"})
    /\ \/ /\ box' = IF box = "running" THEN "stopped" ELSE box
          /\ Goto(a, "stopped") /\ UNCHANGED <<lock, left>>
       \/ Fault /\ Answer(a, "error") /\ UNCHANGED box
    /\ UNCHANGED <<row, man, code, history, owner, mem, gh>>

StopRecord(a) ==
    /\ At(a, "stopped")
    /\ row' = Registered("stopped", "stopped")
    /\ gh' = IF box = "running" THEN gh ELSE Achieved(gh, "stop")
    /\ Answer(a, "ok")
    /\ UNCHANGED <<man, box, code, history, owner, mem, left>>

(* import --update takes the lock twice, each time for one step here.       *)
(* Under the first it loads the manifest it will go on with; a zip it       *)
(* already has ends it.                                                     *)
UpdateLoad(a) ==
    /\ At(a, "want") /\ Doing(a, {"update"}) /\ MayBegin(a)
    /\ \/ ~(man.id /\ code.stale) /\ Answer(a, "ok")
       \/ /\ UNCHANGED lock
          /\ act' = [act EXCEPT ![a].pc = "reread",
                        ![a].held = [status |-> row.status, desired |-> row.desired, id |-> man.id,
                                     count |-> man.count, wait |-> man.wait,
                                     failed |-> history.failed]]
    /\ UNCHANGED <<world, mem, gh, left>>

(* Without an expected revision the one to raise is read between the locks. *)
UpdateReread(a) ==
    /\ At(a, "reread")
    /\ act' = [act EXCEPT ![a].pc = "wantSwap",
                  ![a].seen = IF act[a].exp = NoRev THEN Rev ELSE act[a].exp,
                  ![a].old = IF act[a].exp = NoRev THEN "no" ELSE @]
    /\ UNCHANGED <<world, lock, mem, gh, left>>

(* Under the second lock the new source goes in, and manifest and row are   *)
(* written from what was loaded under the first: that may bring an instance *)
(* back that was removed in between.                                        *)
UpdateSwap(a) ==
    LET held == act[a].held IN
    /\ At(a, "wantSwap") /\ MayBegin(a)
    /\ \/ Fault /\ Answer(a, "error") /\ UNCHANGED <<row, man, code, history, gh>>
       \/ /\ \E broken \in BOOLEAN : code' = [stale |-> TRUE, broken |-> broken]
          /\ man' = [man EXCEPT !.id = held.id, !.count = held.count, !.wait = held.wait]
          /\ row' = Registered(held.status, held.desired)
          /\ history' = [history EXCEPT !.failed = held.failed]
          /\ gh' = [gh EXCEPT !.lost = IF held.count < man.count
                                      THEN @ + man.count - held.count ELSE @,
                              !.wish = IF @ = "gone" THEN "none" ELSE @]
          /\ act' = [act EXCEPT ![a] = IF act[a].seen = NoRev THEN Idle
                                            ELSE [@ EXCEPT !.pc = "cas", !.held = Idle.held]]
          /\ UNCHANGED left
    /\ UNCHANGED <<box, owner, lock, mem>>

(* ... and the revision is raised after it. *)
UpdateCas(a) ==
    /\ At(a, "cas")
    /\ IF row.there THEN CasAnswer(a, act[a].seen, row)
                    ELSE Answer(a, "error") /\ UNCHANGED row
    /\ UNCHANGED <<man, box, code, history, owner, mem, gh, left>>

(* rollback_instance: an archived image and its files.  A failure after the *)
(* stop is compensated, or leaves the instance failed and without identity. *)
Rollback(a) ==
    /\ At(a, "work") /\ Doing(a, {"rollback"})
    /\ \/ /\ ~(row.there /\ history.archive)
          /\ Answer(a, "error")
          /\ UNCHANGED <<row, man, box, code, history, left>>
       \/ /\ row.there /\ history.archive
          /\ box' = "running"
          /\ CasAnswer(a, act[a].seen, Registered("running", "running"))
          /\ man' = [man EXCEPT !.id = TRUE]
          /\ code' = [code EXCEPT !.stale = FALSE]
          /\ history' = [history EXCEPT !.failed = FALSE]
          /\ UNCHANGED left
       \/ /\ row.there /\ history.archive
          /\ Fault
          /\ history' = [history EXCEPT !.failed = TRUE]
          /\ \/ UNCHANGED <<row, man, box>>
             \/ box' = "running" /\ row' = Registered("running", "running") /\ UNCHANGED man
             \/ /\ box' \in {"none", "running"}
                /\ row' = Registered("failed", "running")
                /\ man' = [man EXCEPT !.id = FALSE]
          /\ Answer(a, "error")
          /\ UNCHANGED code
    /\ UNCHANGED <<owner, mem, gh>>

(* remove_instance: a stop or a down that fails does not stop it. *)
RemoveDown(a) ==
    LET stopped == IF man.there THEN Registered("stopped", "stopped") ELSE row IN
    /\ At(a, "work") /\ Doing(a, Removals)
    /\ \/ box' = "none" /\ row' = stopped /\ UNCHANGED left
       \/ Fault /\ box' \in {box, "none"} /\ row' \in {row, stopped}
    /\ Goto(a, "down")
    /\ UNCHANGED <<man, code, history, owner, lock, mem, gh>>

(* delete_instance takes the builds rows with it. *)
RemoveRow(a) ==
    /\ At(a, "down")
    /\ row' = [row EXCEPT !.there = FALSE]
    /\ history' = [failed |-> FALSE, archive |-> FALSE, active |-> FALSE]
    /\ gh' = IF box = "none" THEN Achieved(gh, "gone") ELSE [gh EXCEPT !.wish = "none"]
    /\ act' = [b \in Actor |->
                 IF b # a THEN [act[b] EXCEPT !.old = "void"]
                 ELSE IF Doing(a, {"purge"}) THEN [act[a] EXCEPT !.pc = "tree"]
                 ELSE Ended(a, "ok")]
    /\ IF Doing(a, {"purge"}) THEN UNCHANGED lock ELSE Release(a)
    /\ UNCHANGED <<man, box, code, owner, mem, left>>

(* The tree of the instance; a failure may have taken the manifest already. *)
NoManifest == [Cleared(man) EXCEPT !.there = FALSE, !.id = FALSE]

RemoveTree(a) ==
    /\ At(a, "tree")
    /\ Answer(a, "ok")
    /\ \/ man' = NoManifest /\ gh' = [gh EXCEPT !.purged = TRUE] /\ UNCHANGED left
       \/ Fault /\ man' \in {man, NoManifest} /\ UNCHANGED gh
    /\ UNCHANGED <<row, box, code, history, owner, mem>>

----------------------------------------------------------------------------
(* reconcile                                                                *)

(* The list of instances and the reasons to leave one alone. *)
Look ==
    /\ At(Daemon, "idle")
    /\ row.there /\ row.desired = "running"
    /\ ~Blocked /\ mem # "holding"
    /\ ~(row.status = "building" /\ history.active)
    /\ act' = [act EXCEPT ![Daemon] = [Idle EXCEPT !.pc = "observe", !.was = row.status]]
    /\ UNCHANGED <<world, lock, mem, gh, left>>

Rest == act' = [act EXCEPT ![Daemon] = Idle]

(* observe_status, under the lock for a moment: nothing to do, or something *)
(* that cannot be observed, ends the round; so does a fresh failure.        *)
Observe ==
    /\ At(Daemon, "observe")
    /\ \/ /\ lock # NoOne \/ ~man.there \/ ~row.there
          /\ Rest /\ UNCHANGED <<row, mem, left>>
       \/ /\ lock = NoOne /\ man.there /\ row.there
          /\ Fault
          /\ Rest /\ UNCHANGED <<row, mem>>
       \/ /\ lock = NoOne /\ man.there /\ row.there
          /\ UNCHANGED left
          /\ row' = Marked(IF box = "running" THEN "running" ELSE "stopped")
          /\ \/ box = "running" /\ mem' = "none" /\ Rest
             \/ /\ box # "running" /\ act[Daemon].was = "failed" /\ mem = "none"
                /\ mem' = "holding" /\ Rest
             \/ box # "running" /\ UNCHANGED mem /\ Goto(Daemon, "recheck")
    /\ UNCHANGED <<man, box, code, history, owner, lock, gh>>

(* Mutant: the marker of a process that died blocks like that of a live one. *)
OwnerBlocks_Dead == owner # "none"

(* manual_build_blocks_heal *)
OwnerBlocks == owner = "live"

(* Mutant: the desired state of the list is good enough. *)
StillWanted_FromList == TRUE

StillWanted == row.there /\ row.desired = "running"

(* _try_last_good_rollback: the last operation failed and there is no       *)
(* container at all.                                                        *)
PrefersRollback == history.failed /\ box = "none" /\ history.archive

(* The last look before the lock, and the choice of what to do. *)
Recheck ==
    /\ At(Daemon, "recheck")
    /\ owner' = IF StillWanted /\ owner = "dead" /\ ~OwnerBlocks THEN "none" ELSE owner
    /\ IF StillWanted /\ ~OwnerBlocks
       THEN act' = [act EXCEPT ![Daemon] =
                      [Idle EXCEPT !.pc = "want",
                                   !.kind = IF PrefersRollback THEN "rollback" ELSE "start"]]
       ELSE Rest
    /\ UNCHANGED <<row, man, box, code, history, lock, mem, gh, left>>

(* What reconcile makes of the answer: a failed rollback goes on to a start. *)
Done ==
    /\ At(Daemon, "done")
    /\ IF act[Daemon].out = "ok"
       THEN act' = [act EXCEPT ![Daemon] = [Idle EXCEPT !.pc = "clear"]] /\ mem' = "none"
       ELSE IF Doing(Daemon, {"rollback"})
       THEN act' = [act EXCEPT ![Daemon] = [Idle EXCEPT !.pc = "want", !.kind = "start"]]
            /\ UNCHANGED mem
       ELSE act' = [act EXCEPT ![Daemon] = [Idle EXCEPT !.pc = "record"]] /\ mem' = "holding"
    /\ UNCHANGED <<world, lock, gh, left>>

(* _reconcile_circuit_record: only an expensive failure counts; the count   *)
(* is loaded without the lock ...                                           *)
Record ==
    /\ At(Daemon, "record")
    /\ IF man.there /\ Expensive
       THEN /\ act' = [act EXCEPT ![Daemon].pc = "persist", ![Daemon].load = man.count]
            /\ gh' = [gh EXCEPT !.tries = @ + 1]
       ELSE Rest /\ UNCHANGED gh
    /\ UNCHANGED <<world, lock, mem, left>>

(* Mutant: persist_circuit without the check that the manifest is there. *)
Persist_Ghost ==
    /\ At(Daemon, "persist") /\ lock = NoOne
    /\ man' = [Recorded(man, act[Daemon].load) EXCEPT !.there = TRUE]
    /\ Rest
    /\ UNCHANGED <<row, box, code, history, owner, lock, mem, gh, left>>

(* ... and written with it (persist_circuit); without the lock in time it   *)
(* is dropped.                                                              *)
Persist ==
    /\ At(Daemon, "persist")
    /\ \/ lock = NoOne /\ man.there /\ man' = Recorded(man, act[Daemon].load) /\ UNCHANGED gh
       \/ lock = NoOne /\ ~man.there /\ UNCHANGED <<man, gh>>
       \/ lock # NoOne /\ gh' = [gh EXCEPT !.lost = @ + 1] /\ UNCHANGED man
    /\ Rest
    /\ UNCHANGED <<row, box, code, history, owner, lock, mem, left>>

(* _reconcile_circuit_clear *)
Clear ==
    /\ At(Daemon, "clear")
    /\ IF lock = NoOne /\ man.there
       THEN man' = Cleared(man) /\ gh' = NoteCleared(gh)
       ELSE UNCHANGED <<man, gh>>
    /\ Rest
    /\ UNCHANGED <<row, box, code, history, owner, lock, mem, left>>

----------------------------------------------------------------------------
(* Time, crashes and containers that die                                    *)

BackoffOver == mem = "holding" /\ mem' = "expired"
               /\ UNCHANGED <<world, lock, act, gh, left>>
RetryDue == man.wait /\ man' = [man EXCEPT !.wait = FALSE]
            /\ UNCHANGED <<row, box, code, history, owner, lock, act, mem, gh, left>>
(* has_active_build: a builds row is stale after an hour. *)
BuildStale == history.active /\ history' = [history EXCEPT !.active = FALSE]
              /\ UNCHANGED <<row, man, box, code, owner, lock, act, mem, gh, left>>

Crash(a) ==
    /\ ~At(a, "idle")
    /\ Event
    /\ lock' = IF lock = a THEN NoOne ELSE lock
    /\ owner' = IF At(a, "build") /\ ~Doing(a, {"restart"}) THEN "dead" ELSE owner
    /\ box' \in IF At(a, "build") THEN {box, "none"} ELSE {box}
    /\ act' = [act EXCEPT ![a] = Idle]
    /\ mem' = IF a = Daemon THEN "none" ELSE mem
    /\ gh' = IF a = Daemon /\ At(a, "persist") THEN [gh EXCEPT !.lost = @ + 1] ELSE gh
    /\ UNCHANGED <<row, man, code, history>>

ContainerDies ==
    /\ box = "running"
    /\ Event
    /\ box' \in {"stopped", "none"}
    /\ UNCHANGED <<row, man, code, history, owner, lock, act, mem, gh>>

----------------------------------------------------------------------------
(* Specification                                                            *)

(* An imported instance that was never started, or one that was; its source *)
(* may have been updated and its container may have gone since.             *)
Init ==
    /\ \E up \in BOOLEAN :
          LET state == IF up THEN "running" ELSE "stopped" IN
          /\ row = [there |-> TRUE, status |-> state, desired |-> state, rev |-> 1]
          /\ man = [there |-> TRUE, id |-> up, count |-> 0, wait |-> FALSE]
          /\ box \in IF up THEN {"running", "stopped", "none"} ELSE {"none"}
          /\ code \in [stale : IF up THEN BOOLEAN ELSE {FALSE}, broken : BOOLEAN]
          /\ up /\ code.broken => code.stale
          /\ history = [failed |-> FALSE, archive |-> up, active |-> FALSE]
          /\ gh = [wish |-> IF up THEN "run" ELSE "none", late |-> FALSE, tries |-> 0,
                   lost |-> 0, crossed |-> FALSE, purged |-> FALSE]
    /\ owner = "none" /\ lock = NoOne /\ mem = "none"
    /\ act = [a \in Actor |-> Idle]
    /\ left = MaxEvent

(* What an actor goes on with by itself. *)
Step(a) ==
    \/ Refuse(a) \/ Enter(a) \/ LockTimeout(a)
    \/ LightStart(a) \/ RestartStop(a) \/ FullBegin(a) \/ FullOk(a) \/ FullFails(a)
    \/ StopBox(a) \/ StopRecord(a) \/ Rollback(a)
    \/ UpdateLoad(a) \/ UpdateReread(a) \/ UpdateSwap(a) \/ UpdateCas(a)
    \/ RemoveDown(a) \/ RemoveRow(a) \/ RemoveTree(a)

Reconcile == Look \/ Observe \/ Recheck \/ Done \/ Record \/ Persist \/ Clear

Next ==
    \/ \E u \in User, kind \in Kind : Call(u, kind)
    \/ \E a \in Actor : Step(a) \/ Crash(a)
    \/ Reconcile
    \/ BackoffOver \/ RetryDue \/ BuildStale
    \/ ContainerDies

Spec == Init /\ [][Next]_vars

(* The watcher loop calls reconcile for ever, operations end (their         *)
(* commands have timeouts), and time passes.                                *)
FairSpec ==
    /\ Spec
    /\ WF_vars(\E u \in User : Step(u))
    /\ WF_vars(Step(Daemon) \/ Reconcile)
    /\ WF_vars(BackoffOver \/ RetryDue \/ BuildStale)

----------------------------------------------------------------------------
(* Properties                                                               *)

(* Every variable keeps its type. *)
TypeOK ==
    /\ row \in [there : BOOLEAN, status : {"stopped", "building", "running", "failed"},
                desired : {"stopped", "running"}, rev : Nat \ {0}]
    /\ man \in [there : BOOLEAN, id : BOOLEAN, count : 0 .. MANUAL_THRESHOLD, wait : BOOLEAN]
    /\ box \in {"none", "stopped", "running"}
    /\ code \in [stale : BOOLEAN, broken : BOOLEAN]
    /\ history \in [failed : BOOLEAN, archive : BOOLEAN, active : BOOLEAN]
    /\ owner \in {"none", "live", "dead"}
    /\ lock \in Actor \cup {NoOne}
    /\ mem \in {"none", "holding", "expired"}
    /\ \A a \in Actor :
          /\ act[a].pc \in {"idle", "want", "work", "light", "build", "stopped", "down", "tree",
                            "reread", "wantSwap", "cas",
                            "done", "observe", "recheck", "record", "persist", "clear"}
          /\ act[a].kind \in Kind \cup {"none"}
          /\ act[a].out \in {"none", "ok", "error"}

(* What the users stopped or removed stays so: the daemon does not start it *)
(* again ("拉起前复核最新期望态，避免把刚停的实例又拉起来" in reconcile).     *)
(* Left out (late): the check is not repeated under the lock, so a daemon   *)
(* that had passed it when the stop ended still starts the instance; and an *)
(* update that loaded the manifest before the stop writes the old desired   *)
(* state back.  An update that loaded it before a removal brings the        *)
(* instance back (wish forgets "gone").                                     *)
StopStays == gh.wish \in {"stop", "gone"} /\ ~gh.late => box # "running"

(* After a purge nothing writes the manifest or the row again: neither a    *)
(* start that waited for the lock nor persist_circuit ("避免 save() mkdir   *)
(* 把幽灵文件写回").                                                         *)
NoGhostFile == gh.purged => ~man.there /\ ~row.there

(* The daemon tries at most MANUAL_THRESHOLD expensive starts in a row, no  *)
(* matter how often its process restarts; only a record that found the lock *)
(* taken or died with the process is not counted.                           *)
TriesBounded == gh.tries <= MANUAL_THRESHOLD + gh.lost

(* The circuit only opens after that many failures since it was last        *)
(* cleared.  Left out (crossed): _reconcile_circuit_record and an update    *)
(* load the count before they take the lock they write it under, and bring  *)
(* back one that was cleared in between.                                    *)
FuseEarned == Fused /\ ~gh.crossed => gh.tries >= MANUAL_THRESHOLD

(* An operation that names the revision it expects never begins on another  *)
(* one, and a rebuild or an update that was overtaken between the reading   *)
(* of its revision and its end never raises it as if nothing had happened.  *)
(* (A removed instance counts from one again.)                              *)
NotOvertaken ==
    [][\A u \in User : act[u].old = "yes" =>
          /\ act[u].exp # NoRev /\ At(u, "want") => act'[u].pc \in {"want", "idle"}
          /\ Raising(u) /\ act'[u].pc = "idle" => row'.rev = row.rev]_vars

(* The life of an instance in one statement: stopped and removed for good,   *)
(* tried as often as is right, and never overtaken unnoticed.                *)
LifeIsSafe ==
    /\ []TypeOK /\ []StopStays /\ []NoGhostFile /\ []TriesBounded /\ []FuseEarned
    /\ NotOvertaken

(* What should run runs again, or the circuit breaker says why not: not a   *)
(* crash between two steps, a marker or a builds row left by a dead         *)
(* process, nor a backoff keeps the daemon away for ever.                   *)
Missing == row.there /\ man.there /\ row.desired = "running" /\ box # "running"
HealedOrFused == Missing ~> (~Missing \/ Fused)
=============================================================================
