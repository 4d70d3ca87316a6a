---------------------------- MODULE VersionStore ----------------------------
(* The archived versions of a container instance (versions.py, the end of a *)
(* deployment in hosting.py) and the rollback to one of them (rollback.py). *)
(* A version is a build row, a version tag on an image and a snapshot of    *)
(* the generated files: three records that come and go one after another.   *)
EXTENDS Integers, FiniteSets

CONSTANTS Image,      \* images by their content: equal sources give equal images
          MigratingImages,  \* the images whose commands migrate the database
          NoImage,
          Retention,  \* imageRetention
          MaxBuild,   \* bound: builds
          MaxBack,    \* bound: rollbacks
          MaxTrip     \* bound: failing steps, versions removed by the user

ASSUME VersionAssumption ==
    /\ NoImage \notin Image /\ MigratingImages \subseteq Image
    /\ {Retention, MaxBuild} \subseteq Nat \ {0} /\ {MaxBack, MaxTrip} \subseteq Nat

VARIABLES
    rows,    \* builds: the status, and the image the version tag was put on
    tags,    \* the builds whose version tag Docker has
    snaps,   \* the builds whose snapshot is whole
    files,   \* the build whose generated files are in docker/
    latest,  \* the image <repo>:latest names
    box,     \* the container: its image, the files it was started from
    record,     \* local-web.json: the image and whether its container is known
    back,    \* the deployment or rollback that holds the instance lock
    storeGhost,    \* ghost: what ran before if it was what the records say,
                   \* whether a version was lost outside the code
    spentVersion

storeVars   == <<rows, tags, snaps>>
versionVars == <<storeVars, files, latest, box, record, back, storeGhost, spentVersion>>

Version == 1..MaxBuild
NoRow   == [st |-> "none", ref |-> FALSE, img |-> NoImage]
NoContainer    == [img |-> NoImage, files |-> 0]
NoBack  == [pc |-> "idle", to |-> 0, files |-> 0, img |-> NoImage, put |-> {}, out |-> "none"]

BuiltOnes == {v \in Version : rows[v].st # "none"}
LastBuild == CHOOSE v \in BuiltOnes \cup {0} : \A w \in BuiltOnes : w <= v
Newest(S) == {v \in S : \A w \in S : w <= v}

InStep(p)    == back.pc = p
StepTo(p) == back' = [back EXCEPT !.pc = p]
Finishes(o)  == back' = [NoBack EXCEPT !.out = o]
Misfire     == spentVersion.trips < MaxTrip
            /\ spentVersion' = [spentVersion EXCEPT !.trips = @ + 1]
AsPlanned     == UNCHANGED spentVersion

VersionInit ==
    /\ rows = [v \in Version |-> NoRow] /\ tags = {} /\ snaps = {}
    /\ files = 0 /\ latest = NoImage /\ box = NoContainer
    /\ record = [img |-> NoImage, id |-> FALSE, src |-> NoImage]
    /\ back = NoBack /\ storeGhost = [box |-> NoContainer, lost |-> FALSE]
    /\ spentVersion = [backs |-> 0, trips |-> 0]

----------------------------------------------------------------------------
(* Which versions there are.                                                *)

(* is_rollback_candidate: a build that succeeded and was archived.          *)
IsArchived(v)    == rows[v].st = "success" /\ rows[v].ref
(* IsArchived, and both the snapshot and the image are still there.           *)
Restorable(v)  == IsArchived(v) /\ v \in snaps /\ v \in tags
(* select_rollback_target: the newest restorable version with another image *)
(* than the one in use; none, and the rollback is refused.                  *)
Targets(used) ==
    Newest({v \in Version : Restorable(v) /\ (used = NoImage \/ rows[v].img # used)})

(* gc_build_artifacts: the newest archived version of the image in use, and *)
(* the newest one of another image.  Whether their tag and snapshot are     *)
(* still there is not asked.                                                *)
Archives == {v \in Version : rows[v].ref}
(* Mutant: the newest version counts as the previous good one.              *)
PreviousGood_Newest(used) == Newest({v \in Version : IsArchived(v)})
PreviousGood(used) == Newest({v \in Version : IsArchived(v) /\ rows[v].img # used})
KeptAnyway(used)  == Newest({v \in Version : IsArchived(v) /\ rows[v].img = used})
                      \cup PreviousGood(used)
(* A version is kept when fewer than Retention have been kept before it, or *)
(* it is protected; the ones before it are the newer ones.                  *)
Surplus(used)    ==
    {v \in Archives \ KeptAnyway(used) :
        Cardinality({w \in Archives : w > v}) >= Retention}

(* Each surplus version loses its tag and its snapshot; its row forgets     *)
(* them only when Docker says that the tag is gone.                         *)
CollectWith(used, answer) ==
    LET gone == Surplus(used)
    IN /\ snaps' = snaps \ gone
       /\ tags' = IF answer = "kept" THEN tags ELSE tags \ gone
       /\ rows' = [v \in Version |->
                     IF v \in gone /\ answer = "missing"
                     THEN [rows[v] EXCEPT !.ref = FALSE, !.img = NoImage] ELSE rows[v]]
       /\ storeGhost' = [storeGhost EXCEPT !.lost = @ \/ (answer # "missing" /\ gone # {})]

----------------------------------------------------------------------------
(* A deployment that builds.  Everything before its end is in               *)
(* ContainerDeploy; here it has succeeded, or has put everything back.      *)

NewRow(s) == [v \in Version |-> IF v = LastBuild + 1 THEN [NoRow EXCEPT !.st = s]
                                ELSE IF rows[v].st = "running" THEN [rows[v] EXCEPT !.st = "failed"]
                                ELSE rows[v]]

(* The build, or the start of what it built, failed; latest is the failed   *)
(* image again only when the compensation tagged the previous one.          *)
DeployFails ==
    /\ InStep("idle") /\ LastBuild < MaxBuild /\ Misfire
    /\ \E s \in {"failed", "success"} : rows' = NewRow(s)
    /\ UNCHANGED <<tags, snaps, files, latest, box, record, storeGhost>> /\ Finishes("failed")

(* The new version runs and was verified; observing its image may fail.     *)
Deploys ==
    /\ InStep("idle") /\ LastBuild < MaxBuild
    /\ \E i \in Image :
         /\ rows' = NewRow("success") /\ latest' = i /\ files' = LastBuild + 1
         /\ box' = [img |-> i, files |-> LastBuild + 1]
         /\ \/ /\ record' = [img |-> i, id |-> TRUE, src |-> i]
               /\ AsPlanned /\ UNCHANGED storeGhost
            \/ record' = [img |-> NoImage, id |-> TRUE, src |-> i] /\ Misfire
               /\ storeGhost' = [storeGhost EXCEPT !.lost = TRUE]
    /\ back' = [NoBack EXCEPT !.pc = "tag"]
    /\ UNCHANGED <<tags, snaps>>

(* _finalize_build_artifacts: the version tag, the snapshot, the row.  When *)
(* a step fails the version is not archived and leaves nothing behind.      *)
TagVersion ==
    /\ InStep("tag") /\ UNCHANGED <<rows, snaps, files, latest, box, record, storeGhost>>
    /\ \/ tags' = tags \cup {LastBuild} /\ StepTo("snap") /\ AsPlanned
       \/ tags' = tags /\ StepTo("gc") /\ Misfire
SnapVersion ==
    /\ InStep("snap") /\ UNCHANGED <<rows, files, latest, box, record, storeGhost>>
    /\ \/ snaps' = snaps \cup {LastBuild} /\ tags' = tags /\ StepTo("record") /\ AsPlanned
       \/ snaps' = snaps /\ tags' = tags \ {LastBuild} /\ StepTo("gc") /\ Misfire
RecordVersion ==
    /\ InStep("record") /\ UNCHANGED <<files, latest, box, record, storeGhost>>
    /\ \/ /\ rows' = [rows EXCEPT ![LastBuild] = [@ EXCEPT !.ref = TRUE, !.img = latest]]
          /\ UNCHANGED <<tags, snaps>> /\ StepTo("gc") /\ AsPlanned
       \/ /\ tags' = tags \ {LastBuild} /\ snaps' = snaps \ {LastBuild} /\ rows' = rows
          /\ StepTo("gc") /\ Misfire

(* _gc_after_deploy: the image in use is the one the deployment observed.   *)
CollectSurplus ==
    /\ InStep("gc") /\ Finishes("done")
    /\ \/ CollectWith(record.img, "missing") /\ AsPlanned
       \/ \E a \in {"kept", "unavailable"} : CollectWith(record.img, a) /\ Misfire
    /\ UNCHANGED <<files, latest, box, record>>

(* The process dies between two of these steps: what was done stays.        *)
DeployDies ==
    /\ back.pc \in {"tag", "snap", "record", "gc"} /\ Misfire /\ Finishes("died")
    /\ UNCHANGED <<storeVars, files, latest, box, record, storeGhost>>

----------------------------------------------------------------------------
(* A rollback.                                                              *)

(* Under the lock: the target, the confirmation when either version         *)
(* migrates the database, and what is needed to come back.                  *)
NeedsYes(v) == record.src \in MigratingImages \/ rows[v].img \in MigratingImages

BeginBack ==
    /\ InStep("idle") /\ spentVersion.backs < MaxBack
    /\ spentVersion' = [spentVersion EXCEPT !.backs = @ + 1]
    /\ \E yes \in BOOLEAN, to \in Targets(record.img) \cup {v \in Version : Restorable(v)} :
         /\ NeedsYes(to) => yes
         /\ back' = [NoBack EXCEPT !.pc = "stop", !.to = to, !.files = files,
                                   !.img = IF record.img # NoImage THEN record.img ELSE box.img]
    /\ storeGhost' = [storeGhost EXCEPT
         !.box = IF box = [img |-> back'.img, files |-> files] THEN box ELSE NoContainer]
    /\ UNCHANGED <<storeVars, files, latest, box, record>>

(* A stop that fails leaves the version in service.                         *)
StopOld ==
    /\ InStep("stop") /\ UNCHANGED <<storeVars, files, latest, record, storeGhost>>
    /\ \/ box' = NoContainer /\ StepTo("files") /\ AsPlanned
       \/ box' = box /\ Finishes("refused") /\ Misfire

FilesOfTarget ==
    /\ InStep("files") /\ UNCHANGED <<storeVars, latest, box, record, storeGhost>>
    /\ \/ files' = back.to /\ StepTo("retag") /\ AsPlanned
       \/ files' \in {files, 0} /\ StepTo("comp") /\ Misfire

Retag ==
    /\ InStep("retag") /\ UNCHANGED <<storeVars, files, box, record, storeGhost>>
    /\ \/ back.to \in tags /\ latest' = rows[back.to].img /\ StepTo("up") /\ AsPlanned
       \/ back.to \notin tags /\ latest' = latest /\ StepTo("comp") /\ AsPlanned
       \/ latest' = latest /\ StepTo("comp") /\ Misfire

(* compose up, then the probes: it starts latest from the files.            *)
UpTarget ==
    /\ InStep("up") /\ UNCHANGED <<storeVars, files, latest, record, storeGhost>>
    /\ \/ box' = [img |-> latest, files |-> files] /\ StepTo("land") /\ AsPlanned
       \/ box' \in {NoContainer, [img |-> latest, files |-> files]} /\ StepTo("comp") /\ Misfire

Land ==
    /\ InStep("land") /\ Finishes("ok")
    /\ record' = [record EXCEPT !.img = rows[back.to].img, !.id = TRUE] /\ AsPlanned
    /\ UNCHANGED <<storeVars, files, latest, box, storeGhost>>

(* The compensation: down, the files back, the original image back on       *)
(* latest, up.  Each step may fail and the next is tried all the same.      *)
CompDown ==
    /\ InStep("comp") /\ StepTo("comp_files")
    /\ UNCHANGED <<storeVars, files, latest, record, storeGhost>>
    /\ \/ box' = NoContainer /\ AsPlanned
       \/ box' = box /\ Misfire

CompFiles ==
    /\ InStep("comp_files") /\ UNCHANGED <<storeVars, latest, box, record, storeGhost>>
    /\ \/ files' = back.files /\ AsPlanned
          /\ back' = [back EXCEPT !.pc = "comp_tag", !.put = @ \cup {"files"}]
       \/ files' \in {files, 0} /\ StepTo("comp_tag") /\ Misfire

CompTag ==
    /\ InStep("comp_tag") /\ UNCHANGED <<storeVars, files, box, record, storeGhost>>
    /\ \/ back.img # NoImage /\ latest' = back.img /\ AsPlanned
          /\ back' = [back EXCEPT !.pc = "comp_up", !.put = @ \cup {"image"}]
       \/ back.img # NoImage /\ latest' = latest /\ StepTo("comp_up") /\ Misfire
       \/ back.img = NoImage /\ latest' = latest /\ StepTo("comp_up") /\ AsPlanned

CompUp ==
    /\ InStep("comp_up") /\ UNCHANGED <<storeVars, files, latest, storeGhost>>
    /\ \/ box' = [img |-> latest, files |-> files]
          /\ StepTo("judge") /\ record' = record /\ AsPlanned
       \/ box' = box /\ record' = [record EXCEPT !.id = FALSE] /\ Finishes("not restored") /\ Misfire

(* BackForSure only when the probes pass, the files and the tag were put back  *)
(* and the image that runs is the original one.                             *)
(* Mutant: the probes and the files are enough.                             *)
BackForSure_Probed(probed) == probed /\ "files" \in back.put
BackForSure(probed) == probed /\ back.put = {"files", "image"} /\ box.img = back.img

Judge ==
    /\ InStep("judge") /\ UNCHANGED <<storeVars, files, latest, box, storeGhost>>
    /\ \E probed \in BOOLEAN :
         /\ IF probed THEN AsPlanned ELSE Misfire
         /\ IF BackForSure(probed)
            THEN record' = [record EXCEPT !.id = TRUE, !.img = box.img] /\ Finishes("restored")
            ELSE record' = [record EXCEPT !.id = FALSE] /\ Finishes("not restored")

BackDies ==
    /\ back.pc \notin {"idle", "tag", "snap", "record", "gc"} /\ Misfire /\ Finishes("died")
    /\ UNCHANGED <<storeVars, files, latest, box, record, storeGhost>>

(* The user removes images by hand (docker image rm, docker image prune).   *)
UserPrunes ==
    /\ Misfire /\ \E v \in tags : tags' = tags \ {v}
    /\ storeGhost' = [storeGhost EXCEPT !.lost = TRUE]
    /\ UNCHANGED <<rows, snaps, files, latest, box, record, back>>

VersionNext ==
    \/ DeployFails \/ Deploys \/ TagVersion \/ SnapVersion \/ RecordVersion \/ CollectSurplus
    \/ DeployDies \/ BeginBack \/ StopOld \/ FilesOfTarget \/ Retag \/ UpTarget \/ Land
    \/ CompDown \/ CompFiles \/ CompTag \/ CompUp \/ Judge \/ BackDies \/ UserPrunes

VersionSpec == VersionInit /\ [][VersionNext]_versionVars

----------------------------------------------------------------------------
VersionTypeOK ==
    /\ \A v \in Version : rows[v] \in [st : {"none", "running", "success", "failed"},
                                       ref : BOOLEAN, img : Image \cup {NoImage}]
    /\ tags \subseteq Version /\ snaps \subseteq Version /\ files \in 0..MaxBuild
    /\ {latest, box.img, record.img, record.src, back.img} \subseteq Image \cup {NoImage}
    /\ back.out \in {"none", "failed", "done", "died", "refused", "ok", "restored", "not restored"}

(* A rollback that failed and says that the original version is back says   *)
(* the truth: the container runs the image it ran before, from the files it *)
(* ran from (rollback.py 422-478).  What ran before must have been what the *)
(* manifest and docker/ said: a rollback that was killed after its up, or   *)
(* whose compensation failed, leaves a container they do not describe.      *)
SaysRestored ==
    (back.out = "restored" /\ storeGhost.box # NoContainer) => box = storeGhost.box

(* While Docker answered and nobody removed an image by hand, collecting    *)
(* the surplus versions leaves a version to go back to if there was one     *)
(* (versions.py, BUG-800).                                                  *)
WayBackKept ==
    [][(InStep("gc") /\ back'.out = "done" /\ ~storeGhost'.lost /\ Targets(record.img) # {})
         => Targets(record.img)' # {}]_versionVars

(* "The previous good version is picked with the same eligibility as a      *)
(* rollback's target" (versions.py 263): so collecting never takes the last *)
(* version one could go back to, whatever happened to the others.           *)
LastTargetKept ==
    [][(InStep("gc") /\ back'.out = "done" /\ record.img = box.img /\ Targets(record.img) # {})
         => Targets(record.img)' # {}]_versionVars

(* Rollback and collection in one statement: "restored" is true, and a way   *)
(* back is kept.                                                             *)
VersionsAreSafe == []VersionTypeOK /\ []SaysRestored /\ WayBackKept
=============================================================================
