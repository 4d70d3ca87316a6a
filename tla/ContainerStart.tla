--------------------------- MODULE ContainerStart ---------------------------
(* The operations on one container instance (lifecycle.py) and what they    *)
(* run under the instance lock: rebuild and start reach host_container      *)
(* (ContainerDeploy) through the build queue, restart reaches it directly,  *)
(* and a deployed instance is first compared with its fingerprints, which   *)
(* choose between a full rebuild, a runtime recreate and a light start.     *)
(* Around them the user edits, containers die, the manager crashes.         *)
EXTENDS ContainerDeploy

CONSTANTS MaxOp, MaxEdit, MaxUpset   \* bounds

ASSUME StartAssumption == {MaxOp, MaxEdit, MaxUpset} \subseteq Nat

VARIABLE spent   \* operations, edits, and upsets (cancels, crashes, containers lost) so far

Limit == [op |-> MaxOp, edit |-> MaxEdit, upset |-> MaxUpset]

Spend(what) == spent[what] < Limit[what] /\ spent' = [spent EXCEPT ![what] = @ + 1]

allVars == <<vars, spent>>

(* What the operation found, for the rollback of a first attempt (gen), and *)
(* to state the properties.                                                 *)
Before == [box |-> box, gen |-> gen, man |-> man, row |-> row, good |-> goodEnv, latest |-> latest]

NoOp == [pc |-> "idle", kind |-> "none", out |-> "none", queued |-> FALSE,
         txn |-> FALSE, oldStopped |-> FALSE, stopAborted |-> FALSE, upDone |-> FALSE,
         swapCut |-> FALSE, recreate |-> FALSE, fellBack |-> FALSE,
         light |-> FALSE, first |-> FALSE,
         calm |-> TRUE, quiet |-> TRUE,
         old |-> [box |-> NoBox, gen |-> NoGen, row |-> "stopped", good |-> NoEnv, latest |-> NoImg,
                  man |-> [id |-> FALSE, img |-> NoImg, status |-> "stopped", fp |-> NoPrint]]]

----------------------------------------------------------------------------
(* The entry of an operation, under the lock                                *)

Enter(kind, pc, queued, first) ==
    /\ At("idle")
    /\ Spend("op")
    /\ op' = [NoOp EXCEPT !.pc = pc, !.kind = kind, !.queued = queued, !.first = first,
                          !.old = Before, !.quiet = ("running" \in {row, man.status} => Running)]
    /\ mem' = man
    /\ cancel' = FALSE
    /\ UNCHANGED <<inputs, disk, images, box, man, row, faults>>

RebuildInstance == Enter("rebuild", "preflight", TRUE, FALSE)

(* start_instance: a first attempt goes through _try_host_with_fallback.    *)
StartInstance == IF man.id THEN Enter("start", "decide", FALSE, FALSE)
                           ELSE Enter("start", "preflight", TRUE, TRUE)

RestartInstance == IF man.id THEN Enter("restart", "decide", FALSE, FALSE)
                             ELSE Enter("restart", "preflight", FALSE, FALSE)

StopInstance == Enter("stop", "stop", FALSE, FALSE)

----------------------------------------------------------------------------
(* _deployed_action                                                         *)

SnapshotForDecision ==
    /\ At("decide")
    /\ \/ snap' = gen /\ Goto("converge") /\ UNCHANGED faults
       \/ snap' = NoGen /\ Abandon
    /\ UNCHANGED <<inputs, gen, goodEnv, images, box, man, row, mem, cancel, spent>>

(* _fingerprint_change_action, against the files as just rendered.          *)
Decision ==
    CASE man.fp = NoPrint                             -> "none"
      [] man.fp.src # src \/ man.fp.img # man.img     -> "full_rebuild"
      [] man.fp.gen # cfg \/ man.fp.env # env         -> "runtime_recreate"
      [] OTHER                                        -> "none"

(* Render, decide; a full rebuild starts again from the old files, and from *)
(* a start it goes through the build queue.                                 *)
Converge ==
    /\ At("converge")
    /\ \/ /\ Decision = "full_rebuild"
          /\ gen' = Restored
          /\ op' = [op EXCEPT !.pc = "preflight", !.queued = op.kind = "start"]
          /\ UNCHANGED faults
       \/ /\ Decision = "runtime_recreate"
          /\ gen' = cfg
          /\ Goto("rReady")
          /\ UNCHANGED faults
       \/ /\ Decision = "none"
          /\ gen' = cfg
          /\ op' = [op EXCEPT !.light = TRUE, !.pc = IF op.kind = "restart" THEN "lStop" ELSE "light"]
          /\ UNCHANGED faults
       \/ gen' \in {gen, cfg} /\ Abandon
    /\ UNCHANGED <<inputs, snap, goodEnv, images, box, man, row, mem, cancel, spent>>

----------------------------------------------------------------------------
(* Compose stop                                                             *)

Halted == IF Running THEN [box EXCEPT !.st = "stopped"] ELSE box

(* stop_or_abort(down=False), for a light restart and for a recreate. *)
HaltOld(from, to) ==
    /\ At(from)
    /\ \/ box' = Halted /\ Goto(to) /\ UNCHANGED faults
       \/ box' \in {box, Halted} /\ Abandon
    /\ UNCHANGED <<inputs, disk, images, man, row, mem, cancel, spent>>

(* stop_container *)
StopContainer ==
    /\ At("stop")
    /\ \/ /\ box' = Halted
          /\ mem' = [mem EXCEPT !.status = "stopped"]
          /\ man' = mem' /\ row' = "stopped"
          /\ End("stopped")
          /\ UNCHANGED faults
       \/ box' \in {box, Halted} /\ Abandon /\ UNCHANGED <<man, row, mem>>
    /\ UNCHANGED <<inputs, disk, images, cancel, spent>>

----------------------------------------------------------------------------
(* start_container                                                          *)

(* Running: nothing to start; stopped: compose start, the same container;   *)
(* gone: a new container of :latest.  An instance with an identity has an   *)
(* image; when none is found, the query failed, and host_container runs.    *)
LightStart ==
    /\ At("light")
    /\ \/ /\ box.st # "none"
          /\ box' = [box EXCEPT !.st = "running"]
          /\ mem' = [mem EXCEPT !.id = TRUE, !.img = box.img]
          /\ Goto("lCommit")
          /\ UNCHANGED faults
       \/ box.st # "none" /\ ~Running /\ Abandon /\ UNCHANGED <<box, mem>>
       \/ box.st = "none" /\ Goto("lClear") /\ UNCHANGED <<box, mem, faults>>
       \/ /\ box.st = "none" /\ Fail /\ UNCHANGED <<box, mem>>
          /\ op' = [op EXCEPT !.pc = "preflight", !.fellBack = TRUE]
    /\ UNCHANGED <<inputs, disk, images, man, row, cancel, spent>>

(* The stale identity is cleared, in start_container and in                 *)
(* recreate_container_runtime, before the container is replaced.            *)
ClearStale(from, to) ==
    /\ At(from)
    /\ mem' = [mem EXCEPT !.id = FALSE, !.img = NoImg]
    /\ \/ man' = mem' /\ Goto(to) /\ UNCHANGED faults
       \/ Abandon /\ UNCHANGED man
    /\ UNCHANGED <<inputs, disk, images, box, row, cancel, spent>>

LightUp ==
    /\ At("lUp")
    /\ \/ box' = Upped /\ Goto("lObserve") /\ UNCHANGED faults
       \/ box' \in HalfUp /\ Abandon
    /\ UNCHANGED <<inputs, disk, images, man, row, mem, cancel, spent>>

LightObserve ==
    /\ At("lObserve")
    /\ \/ /\ Running
          /\ mem' = [mem EXCEPT !.id = TRUE, !.img = box.img]
          /\ Goto("lCommit")
          /\ UNCHANGED <<box, man, row, faults>>
       \/ /\ IF Running THEN Fail ELSE UNCHANGED faults
          /\ box' = NoBox
          /\ MarkFailed(mem)
          /\ End("failed")
          /\ UNCHANGED mem
    /\ UNCHANGED <<inputs, disk, images, cancel, spent>>

LightCommit ==
    /\ At("lCommit")
    /\ mem' = [mem EXCEPT !.status = "verifying"]
    /\ \/ man' = mem' /\ row' = "verifying" /\ Goto("lVerify") /\ UNCHANGED faults
       \/ man' \in {man, mem'} /\ Abandon /\ UNCHANGED row
    /\ UNCHANGED <<inputs, disk, images, box, cancel, spent>>

(* A failed verification is recorded; the container is left running and the *)
(* fingerprints are left as they are.                                       *)
LightVerify ==
    /\ At("lVerify")
    /\ \/ /\ Works(box)
          /\ mem' = [mem EXCEPT !.status = "running"]
          /\ row' = "running" /\ End("started")
          /\ UNCHANGED faults
       \/ /\ IF Works(box) THEN Fail ELSE UNCHANGED faults
          /\ mem' = [mem EXCEPT !.status = "failed"]
          /\ row' = "failed" /\ End("failed")
    /\ man' = mem'
    /\ UNCHANGED <<inputs, disk, images, box, cancel, spent>>

----------------------------------------------------------------------------
(* recreate_container_runtime                                               *)

(* Refused without a way back for .env.local; without an answer about the   *)
(* image the whole host_container runs instead.                             *)
RecreateReady ==
    /\ At("rReady")
    /\ IF EnvReady(IF snap = NoGen THEN gen ELSE snap)
       THEN /\ goodEnv' = EnvRecorded
            /\ UNCHANGED gen
            /\ \/ /\ op' = [op EXCEPT !.pc = "rStop", !.recreate = TRUE]
                  /\ UNCHANGED faults
               \/ /\ Fail
                  /\ op' = [op EXCEPT !.pc = "preflight", !.fellBack = TRUE]
       ELSE /\ gen' = Restored
            /\ End("refused")
            /\ UNCHANGED <<goodEnv, faults>>
    /\ UNCHANGED <<inputs, snap, images, box, man, row, mem, cancel, spent>>

RecreateUp ==
    /\ At("rUp")
    /\ \/ box' = Upped /\ Goto("rVerify") /\ UNCHANGED faults
       \/ box' \in HalfUp /\ FailTo("cDown")
    /\ UNCHANGED <<inputs, disk, images, man, row, mem, cancel, spent>>

(* Verified: fingerprints and .env.local are recorded (an id not observed   *)
(* and a record not written are ignored); failed: compensated from the      *)
(* snapshot of the decision, with the same image.                           *)
RecreateVerify ==
    /\ At("rVerify")
    /\ \/ /\ Works(box)
          /\ \E seen, saved \in BOOLEAN :
                /\ IF seen /\ saved THEN UNCHANGED faults ELSE Fail
                /\ LET m == IF seen THEN [mem EXCEPT !.id = TRUE, !.img = box.img] ELSE mem IN
                   mem' = [m EXCEPT !.status = "running", !.fp = Fingerprint(m)]
                /\ goodEnv' = IF saved THEN env ELSE goodEnv
          /\ man' = mem' /\ row' = "running"
          /\ End("recreated")
       \/ /\ Works(box)
          /\ goodEnv' \in {goodEnv, env}
          /\ Abandon
          /\ UNCHANGED <<man, row, mem>>
       \/ /\ IF Works(box) THEN Fail ELSE UNCHANGED faults
          /\ Goto("cDown")
          /\ UNCHANGED <<goodEnv, man, row, mem>>
    /\ UNCHANGED <<inputs, gen, snap, images, box, cancel, spent>>

----------------------------------------------------------------------------
(* The end of an operation                                                  *)

(* _rollback_attempt and _write_diagnosis after a failed first attempt. *)
RollbackAttempt ==
    /\ At("ended") /\ op.first /\ op.out = "failed"
    /\ box' = IF Running THEN NoBox ELSE box
    /\ gen' = op.old.gen
    /\ mem' = [mem EXCEPT !.id = op.old.man.id, !.img = op.old.man.img, !.status = "failed"]
    /\ man' = mem' /\ row' = "failed"
    /\ op' = [op EXCEPT !.first = FALSE]
    /\ UNCHANGED <<inputs, snap, goodEnv, images, cancel, faults, spent>>

(* The lock is released.  (A first attempt that failed with an error other  *)
(* than a DockerError or a HostingError is not rolled back.)                *)
Release ==
    /\ At("ended")
    /\ op' = NoOp
    /\ mem' = man
    /\ cancel' = FALSE
    /\ UNCHANGED <<inputs, disk, images, box, man, row, faults, spent>>

----------------------------------------------------------------------------
(* Everybody else                                                           *)

InProgress == op.pc \notin {"idle", "ended"}

(* Steps in which an edit of .env.local undoes what the operation relies    *)
(* on: the file is recorded as good although the new container started with *)
(* another, or restored and then read again.                                *)
EnvInUse == op.pc \in {"observe", "commit", "verify", "finalize", "rVerify",
                       "cDown", "cRestore", "cTag", "cUp", "cCheck", "cFailed"}

(* An update of the source or of the manifest takes the lock. *)
EditSource ==
    /\ At("idle") /\ Spend("edit")
    /\ \/ src' \in Src \ {src} /\ UNCHANGED cfg
       \/ cfg' \in Cfg \ {cfg} /\ UNCHANGED src
    /\ UNCHANGED <<env, disk, images, box, man, row, mem, op, cancel, faults>>

(* The user edits .env.local whenever he likes. *)
EditEnv ==
    /\ ~At("ended") /\ Spend("edit")
    /\ env' \in Env \ {env}
    /\ op' = [op EXCEPT !.calm = @ /\ ~EnvInUse]
    /\ UNCHANGED <<src, cfg, disk, images, box, man, row, mem, cancel, faults>>

(* cancel_build on the build context of a queued operation. *)
CancelBuild ==
    /\ InProgress /\ op.queued /\ ~cancel
    /\ Spend("upset")
    /\ cancel' = TRUE
    /\ UNCHANGED <<inputs, disk, images, box, man, row, mem, op, faults>>

(* The container stops by itself, or somebody removes it. *)
ContainerLost ==
    /\ ~At("ended") /\ box.st # "none"
    /\ Spend("upset")
    /\ box' \in {NoBox, Halted} \ {box}
    /\ op' = IF At("idle") THEN op ELSE [op EXCEPT !.calm = FALSE, !.quiet = FALSE]
    /\ UNCHANGED <<inputs, disk, images, man, row, mem, cancel, faults>>

(* The process dies; the lock goes with it. *)
Crash ==
    /\ InProgress
    /\ Spend("upset")
    /\ op' = NoOp
    /\ mem' = man
    /\ cancel' = FALSE
    /\ UNCHANGED <<inputs, disk, images, box, man, row, faults>>

----------------------------------------------------------------------------
(* Specification                                                            *)

Init ==
    /\ src \in Src \ Bad /\ cfg \in Cfg \ Bad /\ env \in Env \ Bad
    /\ gen = NoGen /\ snap = NoGen /\ goodEnv = NoEnv
    /\ latest = NoImg /\ prev = NoImg
    /\ box = NoBox
    /\ man = NoOp.old.man /\ mem = man /\ row = "stopped"
    /\ op = NoOp /\ cancel = FALSE /\ faults = 0
    /\ spent = [op |-> 0, edit |-> 0, upset |-> 0]

Next ==
    \/ RebuildInstance \/ StartInstance \/ RestartInstance \/ StopInstance
    \/ HostStep /\ UNCHANGED spent
    \/ SnapshotForDecision \/ Converge
    \/ StopContainer \/ HaltOld("lStop", "light")
    \/ LightStart \/ ClearStale("lClear", "lUp") \/ LightUp \/ LightObserve \/ LightCommit \/ LightVerify
    \/ RecreateReady \/ HaltOld("rStop", "rClear") \/ ClearStale("rClear", "rUp")
    \/ RecreateUp \/ RecreateVerify
    \/ RollbackAttempt \/ Release
    \/ EditSource \/ EditEnv \/ CancelBuild \/ ContainerLost \/ Crash

Spec == Init /\ [][Next]_allVars

----------------------------------------------------------------------------
(* Properties                                                               *)

HostPc == {"preflight", "snapshot", "tag", "stopOld", "clearOld", "render", "build",
           "swapStop", "clearNew", "up", "observe", "commit", "verify", "finalize",
           "failed", "cancelled"}
CompPc  == {"cDown", "cRestore", "cTag", "cUp", "cCheck", "cFailed"}
StartPc == {"decide", "converge", "stop", "lStop", "light", "lClear", "lUp", "lObserve",
            "lCommit", "lVerify", "rReady", "rStop", "rClear", "rUp", "rVerify"}

(* Every variable keeps its type: files, images, container, manifest, row   *)
(* and operation only take the values host_container, start_container and   *)
(* recreate_container_runtime give them.                                    *)
TypeOK ==
    /\ src \in Src /\ cfg \in Cfg /\ env \in Env
    /\ gen \in Render /\ snap \in Render /\ goodEnv \in Record
    /\ latest \in Image /\ prev \in Image
    /\ box \in Container \cup {NoBox}
    /\ man \in Manifest /\ mem \in Manifest /\ row \in Status
    /\ op.pc \in HostPc \cup CompPc \cup StartPc \cup {"idle", "ended"}
    /\ cancel \in BOOLEAN /\ faults \in 0 .. MaxFault

(* The operation began with a version in service whose image, files and     *)
(* .env.local are all on record.  (A recreate or a light start that falls   *)
(* back to a rebuild has rendered new files already; SnapshotIsServed.)     *)
Served ==
    LET o == op.old IN
    /\ ~op.fellBack
    /\ Works(o.box)
    /\ o.good = o.box.env /\ o.gen = o.box.gen
    /\ o.man.id /\ o.man.img = o.box.img /\ o.latest = o.box.img

(* Whatever one step of a transactional rebuild, of a recreate or of a      *)
(* light start does, with whatever the user edited before it, a working     *)
(* container still serves when the operation ends: the new one, the old one *)
(* or the old one brought back.  Excluded by name (calm, swapCut): a second *)
(* failure inside the compensation, steps without one (light start), a      *)
(* container that dies by itself, an edit of .env.local while it is in use  *)
(* (EnvInUse) and a cancel that cuts the swap (CancelKeepsService).         *)
ServiceSurvives ==
    At("ended") /\ Served /\ op.calm /\ ~op.swapCut /\ op.kind # "stop"
    /\ (op.txn \/ op.recreate \/ op.light)
    => Works(box)

(* "The old version is still in service" is the truth about the files, the  *)
(* manifest and the row: after a failure before the old container was       *)
(* stopped, or a cancel of it, they are as the operation found them         *)
(* (_handle_container_deploy_failed, _handle_container_deploy_cancelled).   *)
KeptWhole ==
    At("ended") /\ (op.out = "kept" \/ (op.out = "cancelled" /\ op.txn /\ ~op.oldStopped))
    /\ ~op.fellBack
    => /\ gen = op.old.gen
       /\ man = op.old.man
       /\ row \in {op.old.row, op.old.man.status}

(* "Rolled back to the old version" is the truth too: the container runs    *)
(* the old image with the old files, :latest names that image, and registry *)
(* and manifest say so (_compensate_build_first, _recreate_restore_previous *)
(* ), so that the next recreate or light start brings up the same version.  *)
RestoredWhole ==
    At("ended") /\ op.out = "restored" /\ Served
    => /\ box.img = op.old.box.img /\ box.gen = op.old.box.gen
       /\ latest = box.img /\ gen = box.gen
       /\ man.id /\ man.img = box.img /\ man.status = "running" /\ row = "running"

(* From the moment the old container may go down until the operation ends,  *)
(* all that is needed to bring it back is kept: its image under :prev, its  *)
(* files in docker/.prev and an environment in docker/.env-good.            *)
WayBack ==
    /\ op.txn /\ op.pc \in {"render", "build", "swapStop", "clearNew", "up", "observe",
                            "commit", "verify", "finalize"} \cup CompPc
       => prev = op.old.man.img /\ (snap = op.old.gen \/ op.fellBack) /\ goodEnv # NoEnv
    /\ op.recreate /\ op.pc \in {"rStop", "rClear", "rUp", "rVerify"} \cup CompPc
       => snap = op.old.gen /\ goodEnv # NoEnv

(* When an operation that handled its failure has ended, a row that says    *)
(* running is not the row of a container that is down; only a cancel, an    *)
(* exception nothing handles, an outside event and a registry or manifest   *)
(* that was wrong before leave one (quiet).                                 *)
NoSplit ==
    At("ended") /\ op.quiet /\ op.out # "cancelled" /\ row = "running" => Running

(* The old version in one statement: untouched when it was kept, whole when  *)
(* it was restored, never out of reach, and the row tells no other story.    *)
OldVersionKept ==
    TypeOK /\ KeptWhole /\ RestoredWhole /\ WayBack /\ NoSplit

(* What prepare_build_first says of the snapshot a transactional rebuild    *)
(* takes: it holds the files the container in service runs with.            *)
SnapshotIsServed ==
    op.txn /\ At("tag") /\ op.old.gen = op.old.box.gen /\ box = op.old.box => snap = box.gen

(* What the comments of the code say of a cancel: it does not change what   *)
(* serves.                                                                  *)
CancelKeepsService ==
    At("ended") /\ Served /\ op.calm /\ op.txn /\ op.out = "cancelled" => Works(box)
=============================================================================
