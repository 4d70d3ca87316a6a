-------------------------- MODULE ContainerDeploy --------------------------
(* host_container (hosting.py) and rebuild_txn.py: the deployment of one    *)
(* container instance, and its rebuild as a transaction that keeps the old  *)
(* version in service until the new one is built and brings it back when    *)
(* the new one fails.  One action per step between two effects on the disk, *)
(* the registry or Docker; each may fail, be cancelled, or be cut by a      *)
(* crash.  The other operations on the instance are in ContainerStart.      *)
EXTENDS Integers

CONSTANTS Src, Cfg, Env,   \* versions of the source, of the container section
                           \* of the manifest, and of the file .env.local
          Bad,             \* the versions with which a container does not work
          NoImg, NoGen, NoEnv,
          Strategies,      \* the rebuildStrategy values an instance may have
          MaxFault         \* bound: failing steps in a behaviour

ASSUME DeployAssumption ==
    /\ NoImg \notin Src /\ NoGen \notin Cfg /\ NoEnv \notin Env
    /\ Bad \subseteq Src \cup Cfg \cup Env
    /\ Strategies \subseteq {"build-first", "stop-first"}
    /\ MaxFault \in Nat

VARIABLES
    src, cfg, env,   \* what the user (and import) changes
    gen,             \* the generated files in docker/: what they were rendered from
    snap,            \* their snapshot docker/.prev
    goodEnv,         \* the record docker/.env-good
    latest, prev,    \* the images <repo>:latest and <repo>:prev, by their source
    box,             \* the container of the compose project
    man,             \* local-web.json
    row,             \* status of the instance in the registry
    mem,             \* the manifest object in the memory of the operation
    op,              \* the operation that holds the instance lock
    cancel,          \* cancel flag of the running build context
    faults           \* failed steps so far

inputs == <<src, cfg, env>>
disk   == <<gen, snap, goodEnv>>
images == <<latest, prev>>
vars   == <<inputs, disk, images, box, man, row, mem, op, cancel, faults>>

(* An image is named by the source it was built from, a rendering of the    *)
(* generated files by the configuration it was rendered from.               *)
Image  == Src \cup {NoImg}
Render == Cfg \cup {NoGen}
Record == Env \cup {NoEnv}

Container == [st : {"stopped", "running"}, img : Src, gen : Cfg, env : Env]
NoBox     == [st |-> "none", img |-> NoImg, gen |-> NoGen, env |-> NoEnv]

(* deploymentFingerprints: source, image, compose and .env, .env.local.     *)
Prints   == [src : Src, img : Image, gen : Render, env : Env]
NoPrint == [src |-> NoImg, img |-> NoImg, gen |-> NoGen, env |-> NoEnv]

Status   == {"stopped", "building", "verifying", "running", "failed"}
Manifest == [id : BOOLEAN, img : Image, status : Status, fp : Prints \cup {NoPrint}]

Running  == box.st = "running"
Works(b) == b.st = "running" /\ {b.img, b.gen, b.env} \cap Bad = {}

----------------------------------------------------------------------------
(* Steps, failures and cancellation                                         *)

At(p)   == op.pc = p
Goto(p) == op' = [op EXCEPT !.pc = p]

(* The operation is over and answers out; the lock is still held.           *)
End(out) == op' = [op EXCEPT !.pc = "ended", !.out = out]

(* A step fails (DockerError, HostingError, OSError, a locked database).    *)
Fail == faults < MaxFault /\ faults' = faults + 1
FailTo(p) == Fail /\ Goto(p)

(* A failure that the code does not promise to survive: of the compensation *)
(* itself, or of a stop that may have worked.                               *)
Worse(p) == Fail /\ op' = [op EXCEPT !.pc = p, !.calm = FALSE]

(* An exception that nothing in the operation handles leaves everything as  *)
(* it is at that moment.                                                    *)
Abandon == Fail /\ op' = [op EXCEPT !.pc = "ended", !.out = "error", !.calm = FALSE, !.quiet = FALSE]

(* Inside a build context a compose command that sees the cancel flag is    *)
(* killed and raises BuildCancelled (_execute_streaming).                   *)
Killed == op.queued /\ cancel

(* What a compose up leaves behind: a container of :latest with the files   *)
(* on disk, whatever container was there.                                   *)
Upped == [st |-> "running", img |-> latest, gen |-> gen, env |-> env]

(* A compose down or up that failed or was killed may have taken effect.    *)
HalfDown == {box, NoBox} \cup IF Running THEN {[box EXCEPT !.st = "stopped"]} ELSE {}
HalfUp   == {box, Upped, [Upped EXCEPT !.st = "stopped"]}

(* _mark_failed *)
MarkFailed(m) ==
    /\ man' = [m EXCEPT !.status = "failed"]
    /\ row' = "failed"

----------------------------------------------------------------------------
(* Preflight and registration                                               *)

(* ensure_env_rollback_ready: the environment the old container runs with   *)
(* is on record, or the fingerprint of the files g proves that the present  *)
(* one is it.  (compose.yaml always names .env.local, so the third way out, *)
(* files without a reference to it, does not arise for a deployed one.)     *)
EnvReady(g) ==
    \/ goodEnv # NoEnv
    \/ man.fp # NoPrint /\ man.fp.gen = g /\ man.fp.env = env

EnvRecorded == IF goodEnv = NoEnv THEN env ELSE goodEnv

(* _build_first_applies, and the exception for a changed environment.  seen *)
(* is what the query of the running state answers.                          *)
BuildFirst(strategy, seen, good) ==
    man.id /\ seen /\ (strategy = "build-first" \/ good # env)

Refuse ==
    /\ At("preflight")
    /\ man.id /\ ~EnvReady(gen)
    /\ End("refused")
    /\ UNCHANGED <<inputs, disk, images, box, man, row, mem, cancel, faults>>

(* host_container up to _begin_container_deploy.  An unanswered query means *)
(* not running, hence the old order (or an error, with stop-first).         *)
Begin ==
    /\ At("preflight")
    /\ man.id => EnvReady(gen)
    /\ goodEnv' = IF man.id THEN EnvRecorded ELSE goodEnv
    /\ mem' = man
    /\ \E strategy \in Strategies, seen \in {Running, FALSE} :
          LET txn == BuildFirst(strategy, seen, goodEnv') IN
          /\ IF seen = Running THEN UNCHANGED faults ELSE Fail
          /\ op' = [op EXCEPT !.pc = IF txn THEN "snapshot" ELSE "stopOld", !.txn = txn]
          /\ row' = IF txn THEN row ELSE "building"
    /\ UNCHANGED <<inputs, gen, snap, images, box, man, cancel>>

----------------------------------------------------------------------------
(* _prepare_previous_container                                              *)

(* Mutant: a snapshot that is already there is kept. *)
SnapshotGenerated_KeepsOld ==
    /\ At("snapshot")
    /\ snap' = IF snap = NoGen THEN gen ELSE snap
    /\ Goto("tag")
    /\ UNCHANGED <<inputs, gen, goodEnv, images, box, man, row, mem, cancel, faults>>

(* snapshot_generated; a failure leaves no snapshot, not the previous one.  *)
SnapshotGenerated ==
    /\ At("snapshot")
    /\ \/ snap' = gen /\ Goto("tag") /\ UNCHANGED faults
       \/ snap' = NoGen /\ FailTo("failed")
    /\ UNCHANGED <<inputs, gen, goodEnv, images, box, man, row, mem, cancel>>

(* docker tag <image of the manifest> :prev *)
TagPrevious ==
    /\ At("tag")
    /\ \/ prev' = mem.img /\ Goto("render") /\ UNCHANGED faults
       \/ FailTo("failed") /\ UNCHANGED prev
    /\ UNCHANGED <<inputs, disk, latest, box, man, row, mem, cancel>>

(* stop_or_abort: nothing to do when not running, down otherwise.           *)
(* yes is where a stopped instance goes on.  The check of the identity and  *)
(* the rescue of the data come first, and a failure of theirs is not an     *)
(* aborted stop (the last alternative).                                     *)
StopOrAbort(yes) ==
    \/ /\ ~Running \/ ~Killed
       /\ box' = IF Running THEN NoBox ELSE box
       /\ yes
       /\ UNCHANGED <<faults>>
    \/ /\ Running /\ Killed
       /\ box' \in HalfDown
       /\ op' = [op EXCEPT !.pc = "cancelled", !.swapCut = TRUE]
       /\ UNCHANGED <<faults>>
    \/ /\ Fail
       /\ box' \in (IF Running THEN HalfDown ELSE {box})
       /\ op' = [op EXCEPT !.pc = "failed", !.stopAborted = TRUE,
                           !.calm = @ /\ box' = box, !.quiet = @ /\ box' = box]
    \/ FailTo("failed") /\ UNCHANGED box

(* The old order: stop first. *)
StopOld ==
    /\ At("stopOld")
    /\ StopOrAbort(Goto("clearOld"))
    /\ UNCHANGED <<inputs, disk, images, man, row, mem, cancel>>

(* _clear_container_identity *)
ClearIdentity(from, to) ==
    /\ At(from)
    /\ mem' = [mem EXCEPT !.id = FALSE, !.img = NoImg]
    /\ \/ man' = mem' /\ Goto(to) /\ UNCHANGED faults
       \/ FailTo("failed") /\ UNCHANGED man
    /\ UNCHANGED <<inputs, disk, images, box, row, cancel>>

----------------------------------------------------------------------------
(* Render, build, swap                                                      *)

(* _render_container_artifacts *)
RenderArtifacts ==
    /\ At("render")
    /\ \/ gen' = cfg /\ Goto("build") /\ UNCHANGED faults
       \/ gen' \in {gen, cfg} /\ FailTo("failed")
    /\ UNCHANGED <<inputs, snap, goodEnv, images, box, man, row, mem, cancel>>

(* compose build: :latest moves to the new image. *)
BuildImage ==
    /\ At("build")
    /\ \/ ~Killed /\ latest' = src /\ Goto(IF op.txn THEN "swapStop" ELSE "up") /\ UNCHANGED faults
       \/ FailTo("failed") /\ UNCHANGED latest
       \/ Killed /\ latest' \in {latest, src} /\ Goto("cancelled") /\ UNCHANGED faults
    /\ UNCHANGED <<inputs, disk, prev, box, man, row, mem, cancel>>

(* Mutant: old_stopped is not set as soon as the old container is down. *)
SwapStop_NotNoted ==
    /\ At("swapStop")
    /\ StopOrAbort(Goto("clearNew"))
    /\ UNCHANGED <<inputs, disk, images, man, row, mem, cancel>>

(* _swap_in_new_container: the old container goes down ... *)
SwapStop ==
    /\ At("swapStop")
    /\ StopOrAbort(op' = [op EXCEPT !.pc = "clearNew", !.oldStopped = TRUE])
    /\ UNCHANGED <<inputs, disk, images, man, row, mem, cancel>>

(* ... and the new one up. *)
UpNew ==
    /\ At("up")
    /\ \/ /\ ~Killed
          /\ box' = Upped
          /\ op' = [op EXCEPT !.pc = "observe", !.upDone = TRUE]
          /\ UNCHANGED faults
       \/ FailTo("failed") /\ box' \in HalfUp
       \/ /\ Killed
          /\ box' \in HalfUp
          /\ op' = [op EXCEPT !.pc = "cancelled", !.swapCut = TRUE]
          /\ UNCHANGED faults
    /\ UNCHANGED <<inputs, disk, images, man, row, mem, cancel>>

(* _observe_new_container: without an observed id the operation settles     *)
(* itself, by compensation or by removing the container.                    *)
ObserveNew ==
    /\ At("observe")
    /\ \/ /\ Running
          /\ mem' = [mem EXCEPT !.id = TRUE, !.img = box.img]
          /\ Goto("commit")
          /\ UNCHANGED <<box, man, row, faults>>
       \/ /\ IF Running THEN Fail ELSE UNCHANGED faults
          /\ UNCHANGED mem
          /\ IF op.txn
             THEN /\ Goto("cDown")
                  /\ UNCHANGED <<box, man, row>>
             ELSE /\ box' \in (IF Killed THEN HalfDown ELSE {NoBox})
                  /\ MarkFailed(mem)
                  /\ End("failed")
    /\ UNCHANGED <<inputs, disk, images, cancel>>

(* _commit_verifying_state *)
CommitVerifying ==
    /\ At("commit")
    /\ mem' = [mem EXCEPT !.status = "verifying"]
    /\ \/ man' = mem' /\ row' = "verifying" /\ Goto("verify") /\ UNCHANGED faults
       \/ man' \in {man, mem'} /\ UNCHANGED row /\ FailTo("failed")
    /\ UNCHANGED <<inputs, disk, images, box, cancel>>

(* _verify_container_deployment: the mandatory probes.  A failure is        *)
(* compensated, or rolled back by _liveness_failed_rollback, which keeps    *)
(* the identity of the container it removes.                                *)
Verify ==
    /\ At("verify")
    /\ UNCHANGED mem
    /\ \/ Works(box) /\ Goto("finalize") /\ UNCHANGED <<box, man, row, faults>>
       \/ /\ IF Works(box) THEN Fail ELSE UNCHANGED faults
          /\ IF op.txn
             THEN /\ Goto("cDown")
                  /\ UNCHANGED <<box, man, row>>
             ELSE /\ box' \in (IF Running /\ Killed THEN HalfDown
                               ELSE IF Running THEN {NoBox} ELSE {box})
                  /\ MarkFailed(mem)
                  /\ End("failed")
    /\ UNCHANGED <<inputs, disk, images, cancel>>

Fingerprint(m) == [src |-> src, img |-> m.img, gen |-> gen, env |-> env]

(* Mutant: a status outside the state machine. *)
Finalize_Degraded ==
    /\ At("finalize")
    /\ mem' = [mem EXCEPT !.fp = Fingerprint(mem), !.status = "running"]
    /\ goodEnv' = env
    /\ man' = mem' /\ row' = "degraded" /\ End("deployed")
    /\ UNCHANGED <<inputs, gen, snap, images, box, cancel, faults>>

(* _finalize_container_deploy: fingerprints and the record of .env.local (a *)
(* failure to write it is ignored) come before the manifest and the row.    *)
Finalize ==
    /\ At("finalize")
    /\ mem' = [mem EXCEPT !.fp = Fingerprint(mem), !.status = "running"]
    /\ \/ goodEnv' = env /\ man' = mem' /\ row' = "running" /\ End("deployed") /\ UNCHANGED faults
       \/ UNCHANGED goodEnv /\ man' = mem' /\ row' = "running" /\ End("deployed") /\ Fail
       \/ goodEnv' = env /\ man' \in {man, mem'} /\ UNCHANGED row /\ FailTo("failed")
    /\ UNCHANGED <<inputs, gen, snap, images, box, cancel>>

----------------------------------------------------------------------------
(* Failure and cancellation                                                 *)

(* restore_generated: without a snapshot nothing is touched. *)
Restored == IF snap = NoGen THEN gen ELSE snap

(* Mutant: the generated files of the failed rebuild stay. *)
KeepOld_NoRestore ==
    /\ At("failed")
    /\ op.stopAborted \/ (op.txn /\ ~op.oldStopped)
    /\ row' = mem.status
    /\ End("kept")
    /\ UNCHANGED <<inputs, disk, images, box, man, mem, cancel, faults>>

(* _handle_container_deploy_failed, the old container was never stopped:    *)
(* its files and its row come back, the manifest is not saved.              *)
KeepOld ==
    /\ At("failed")
    /\ op.stopAborted \/ (op.txn /\ ~op.oldStopped)
    /\ gen' = IF op.txn THEN Restored ELSE gen
    /\ row' = mem.status
    /\ End("kept")
    /\ UNCHANGED <<inputs, snap, goodEnv, images, box, man, mem, cancel, faults>>

(* ... it was stopped: _compensate_build_first. *)
Compensate ==
    /\ At("failed")
    /\ op.txn /\ op.oldStopped
    /\ Goto("cDown")
    /\ UNCHANGED <<inputs, disk, images, box, man, row, mem, cancel, faults>>

(* ... there was none, or it was stopped first: FAILED. *)
GiveUp ==
    /\ At("failed")
    /\ ~op.stopAborted /\ ~op.txn
    /\ box' \in (IF op.upDone THEN (IF Killed THEN HalfDown ELSE {NoBox}) ELSE {box})
    /\ MarkFailed(mem)
    /\ End("failed")
    /\ UNCHANGED <<inputs, disk, images, mem, cancel, faults>>

(* _handle_container_deploy_cancelled: the row is left as it was. *)
Cancelled ==
    /\ At("cancelled")
    /\ gen' = IF op.txn /\ ~op.oldStopped THEN Restored ELSE gen
    /\ man' = mem
    /\ End("cancelled")
    /\ UNCHANGED <<inputs, snap, goodEnv, images, box, row, mem, cancel, faults>>

(* The cancel flag is not cleared: it also cuts the compensation. *)
Cut(p) == op' = [op EXCEPT !.pc = p, !.calm = FALSE]

(* _compensate_build_first and _recreate_restore_previous: down the new     *)
(* container, if that works ...                                             *)
CompDown ==
    /\ At("cDown")
    /\ \/ ~Killed /\ box' = NoBox /\ Goto("cRestore") /\ UNCHANGED faults
       \/ Killed /\ box' \in HalfDown /\ Cut("cRestore") /\ UNCHANGED faults
       \/ Worse("cRestore") /\ box' \in HalfDown
    /\ UNCHANGED <<inputs, disk, images, man, row, mem, cancel>>

(* Mutant: only the generated files are restored (before BUG-998). *)
CompRestore_NoEnv ==
    /\ At("cRestore")
    /\ gen' = Restored
    /\ Goto(IF snap = NoGen THEN "cFailed" ELSE IF op.recreate THEN "cUp" ELSE "cTag")
    /\ UNCHANGED <<inputs, snap, goodEnv, images, box, man, row, mem, cancel, faults>>

(* ... restore the files (a failure to copy them leaves the operation at    *)
(* once) and the recorded .env.local (a failure to write it is noted) ...   *)
CompRestore ==
    /\ At("cRestore")
    /\ LET next == IF snap = NoGen THEN "cFailed" ELSE IF op.recreate THEN "cUp" ELSE "cTag" IN
       \/ /\ gen' = Restored
          /\ env' = IF snap = NoGen \/ goodEnv = NoEnv THEN env ELSE goodEnv
          /\ Goto(next)
          /\ UNCHANGED faults
       \/ snap # NoGen /\ gen' = Restored /\ Worse(next) /\ UNCHANGED env
       \/ snap # NoGen /\ gen' \in {gen, snap} /\ Abandon /\ UNCHANGED env
    /\ UNCHANGED <<src, cfg, snap, goodEnv, images, box, man, row, mem, cancel>>

(* Mutant: the old image is not tagged back. *)
CompTag_Skipped ==
    /\ At("cTag")
    /\ Goto("cUp")
    /\ UNCHANGED <<inputs, disk, images, box, man, row, mem, cancel, faults>>

(* ... tag the old image :latest again ... *)
CompTag ==
    /\ At("cTag")
    /\ \/ latest' = prev /\ Goto("cUp") /\ UNCHANGED faults
       \/ Worse("cFailed") /\ UNCHANGED latest
    /\ UNCHANGED <<inputs, disk, prev, box, man, row, mem, cancel>>

(* ... and up. *)
CompUp ==
    /\ At("cUp")
    /\ \/ ~Killed /\ box' = Upped /\ Goto("cCheck") /\ UNCHANGED faults
       \/ Worse("cFailed") /\ box' \in HalfUp
       \/ Killed /\ box' \in HalfUp /\ Cut("cFailed") /\ UNCHANGED faults
    /\ UNCHANGED <<inputs, disk, images, man, row, mem, cancel>>

(* The health check decides what the operation answers. *)
CompSettle ==
    /\ At("cCheck")
    /\ \/ /\ Works(box)
          /\ mem' = [mem EXCEPT !.id = TRUE, !.img = box.img, !.status = "running"]
          /\ man' = mem' /\ row' = "running"
          /\ End("restored")
          /\ UNCHANGED faults
       \/ /\ IF Works(box) THEN Worse("cFailed") ELSE Goto("cFailed") /\ UNCHANGED faults
          /\ UNCHANGED <<man, row, mem>>
    /\ UNCHANGED <<inputs, disk, images, box, cancel>>

(* Not restored: FAILED.  A recreate also removes what is left              *)
(* (_recreate_failed_rollback) and forgets the identity.                    *)
CompGiveUp ==
    /\ At("cFailed")
    /\ IF op.recreate
       THEN box' = NoBox /\ mem' = [mem EXCEPT !.id = FALSE, !.img = NoImg]
       ELSE UNCHANGED <<box, mem>>
    /\ MarkFailed(mem')
    /\ End("failed")
    /\ UNCHANGED <<inputs, disk, images, cancel, faults>>

(* The steps of host_container, Begin to the end. *)
HostStep ==
    \/ Refuse \/ Begin \/ SnapshotGenerated \/ TagPrevious \/ StopOld
    \/ ClearIdentity("clearOld", "render") \/ RenderArtifacts \/ BuildImage
    \/ SwapStop \/ ClearIdentity("clearNew", "up") \/ UpNew
    \/ ObserveNew \/ CommitVerifying \/ Verify \/ Finalize
    \/ KeepOld \/ Compensate \/ GiveUp \/ Cancelled
    \/ CompDown \/ CompRestore \/ CompTag \/ CompUp \/ CompSettle \/ CompGiveUp
=============================================================================
