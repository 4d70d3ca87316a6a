------------------------------ MODULE Fallback ------------------------------
(* The first deployment of a container instance and its fallback plans      *)
(* (lifecycle.py, _try_host_with_fallback): the primary plan is tried, a    *)
(* failed attempt is rolled back from a snapshot, and as far as the policy, *)
(* the equivalence of the plans and the rollback allow it the next          *)
(* equivalent plan is applied to the manifest and tried.  An attempt runs   *)
(* host_container, which cleans up after itself as far as it knows.         *)
EXTENDS Integers, FiniteSets

CONSTANTS Last,        \* the plans are 0..Last, 0 the primary
          Equal,       \* fallback plans with the capabilities of the primary
          InSub,       \* plans whose component lives in a subdirectory
          NoSub, NoFiles,
          MAX_FALLBACK_CANDIDATES,
          MaxStarts,   \* bound: starts by the user
          MaxBad       \* bound: failing steps besides the failures of attempts

ASSUME FallbackAssumption ==
    /\ Last \in Nat /\ Equal \subseteq 1..Last /\ InSub \subseteq 0..Last
    /\ NoSub \notin 0..Last /\ NoFiles \notin 0..Last
    /\ MAX_FALLBACK_CANDIDATES \in Nat /\ MaxStarts \in Nat /\ MaxBad \in Nat

VARIABLES
    plan,      \* what local-web.json says: the plan, and whose subdirectory
    gen,       \* the generated files: the plan they were rendered from
    port,      \* the instance's registered port: kept from before, or fresh
    cont,      \* whether a container of the instance runs
    needs,     \* the plans' start commands migrate the database
    try,       \* the running start
    fgh,       \* ghost, see Properties
    spentFall

fallVars == <<plan, gen, port, cont, needs, try, fgh, spentFall>>
worldVars == <<plan, gen, port, cont>>

Plans   == 0..Last
Policies == {"confirm", "auto-equivalent", "disabled"}
SubOf(p) == IF p \in InSub THEN p ELSE NoSub
Chosen(p) == [id |-> p, sub |-> SubOf(p)]
MaybeFiles == Plans \cup {NoFiles}

Shot    == [plan |-> plan, gen |-> gen, port |-> port]
NoTry(s) == [pc |-> "idle", policy |-> "disabled", k |-> 0, snap |-> s, ran |-> FALSE,
             flagged |-> FALSE, residue |-> FALSE]

Bad  == spentFall.bad < MaxBad /\ spentFall' = [spentFall EXCEPT !.bad = @ + 1]
Good == UNCHANGED spentFall

FallbackInit ==
    /\ plan = Chosen(0) /\ gen = NoFiles /\ cont = FALSE
    /\ port \in {"none", "kept"} /\ needs \in BOOLEAN
    /\ try = NoTry(Shot)
    /\ fgh = [moved |-> FALSE, blind |-> FALSE, cut |-> FALSE, left |-> FALSE, base |-> Shot]
    /\ spentFall = [starts |-> 0, bad |-> 0]

----------------------------------------------------------------------------
(* A start and its attempts                                                 *)

Registered == [Shot EXCEPT !.port = IF @ = "fresh" THEN "kept" ELSE @]

BeginStart(p) ==
    /\ try.pc = "idle" /\ ~cont /\ spentFall.starts < MaxStarts
    /\ spentFall' = [spentFall EXCEPT !.starts = @ + 1]
    /\ port' = IF port = "fresh" THEN "kept" ELSE port
    /\ try' = [NoTry(Registered) EXCEPT !.pc = "host", !.policy = p]
    /\ fgh' = [moved |-> FALSE, blind |-> FALSE, cut |-> FALSE, left |-> FALSE,
               base |-> Registered]
    /\ UNCHANGED <<plan, gen, cont, needs>>

(* What host_container gives back itself: a port it took. *)
OwnPortBack == IF port = "fresh" THEN "none" ELSE port

(* Rendering or building fails, nothing was started. *)
BuildBreaks ==
    /\ try.pc = "host" /\ try' = [try EXCEPT !.pc = "down"]
    /\ gen' \in {gen, plan.id}
    /\ UNCHANGED <<plan, port, cont, needs, fgh, spentFall>>

BringUp ==
    /\ try.pc = "host" /\ try' = [try EXCEPT !.pc = "up"]
    /\ gen' = plan.id /\ cont' = TRUE
    /\ port' = IF port = "none" THEN "fresh" ELSE port
    /\ fgh' = [fgh EXCEPT !.moved = @ \/ needs]
    /\ UNCHANGED <<plan, needs, spentFall>>

(* A mandatory probe fails: the container is taken down, and the side       *)
(* effects of the start command are reported with the exception.            *)
ProbeFails ==
    /\ try.pc = "up" /\ try' = [try EXCEPT !.pc = "down", !.flagged = needs]
    /\ \/ cont' = FALSE /\ Good
       \/ UNCHANGED cont /\ Bad
    /\ port' = OwnPortBack
    /\ UNCHANGED <<plan, gen, needs, fgh>>

(* Another step after the container was started fails (compose up itself,   *)
(* observing the new container, a write): no side effect is reported.       *)
LateStepFails ==
    /\ try.pc = "up" /\ Bad /\ try' = [try EXCEPT !.pc = "down"]
    /\ cont' \in BOOLEAN /\ port' = OwnPortBack
    /\ UNCHANGED <<plan, gen, needs, fgh>>

(* A deployed instance is started and rebuilt by other code (InstanceLife,  *)
(* ContainerDeploy).                                                        *)
HostSucceeds ==
    /\ try.pc = "up" /\ try' = [try EXCEPT !.pc = "done"]
    /\ UNCHANGED <<worldVars, needs, fgh, spentFall>>

(* A cancelled build goes straight to the user: no rollback, no fallback.   *)
CancelStart ==
    /\ try.pc = "host" /\ Bad /\ try' = [try EXCEPT !.pc = "idle"]
    /\ gen' \in {gen, plan.id} /\ fgh' = [fgh EXCEPT !.cut = TRUE]
    /\ UNCHANGED <<plan, port, cont, needs>>

----------------------------------------------------------------------------
(* _rollback_attempt                                                        *)

(* The container first.  One that cannot be taken down is residue; when     *)
(* Docker does not answer, none is assumed.                                 *)
RollBackContainer ==
    /\ try.pc = "down"
    /\ \/ /\ cont' = FALSE /\ try' = [try EXCEPT !.pc = "restore", !.ran = cont]
          /\ Good /\ UNCHANGED fgh
       \/ /\ cont /\ Bad /\ UNCHANGED cont
          /\ try' = [try EXCEPT !.pc = "restore", !.ran = TRUE, !.residue = TRUE]
          /\ fgh' = [fgh EXCEPT !.left = TRUE]
       \/ /\ Bad /\ UNCHANGED cont /\ try' = [try EXCEPT !.pc = "restore"]
          /\ fgh' = [fgh EXCEPT !.blind = TRUE]
    /\ UNCHANGED <<plan, gen, port, needs>>

(* Only a port that was not registered before the attempt is given back.    *)
PortBack == IF try.snap.port = "none" THEN "none" ELSE port

(* A field that was empty in the snapshot is not put back.                  *)
PlanBack == [id |-> try.snap.plan.id,
             sub |-> IF try.snap.plan.sub = NoSub THEN plan.sub ELSE try.snap.plan.sub]

(* Mutant: the files of the failed attempt stay. *)
FilesBack_Kept == gen
FilesBack == try.snap.gen

RestoreSnapshot ==
    /\ try.pc = "restore"
    /\ port' = PortBack
    /\ \/ /\ gen' = FilesBack /\ plan' = PlanBack /\ Good
          /\ try' = [try EXCEPT !.pc = IF try.k = 0 THEN "decide" ELSE "next"]
          /\ UNCHANGED fgh
       \/ /\ gen' \in {gen, FilesBack} /\ plan' \in {plan, PlanBack} /\ Bad
          /\ try' = [try EXCEPT !.pc = IF try.k = 0 THEN "decide" ELSE "next", !.residue = TRUE]
          /\ fgh' = [fgh EXCEPT !.left = TRUE]
    /\ UNCHANGED <<cont, needs>>

----------------------------------------------------------------------------
(* Falling back                                                             *)

(* automaticFallbackSafe.  Mutant: what could not be rolled back is not     *)
(* looked at.                                                               *)
Safe_Residue == ~(try.ran /\ needs) /\ ~try.flagged
Safe == ~try.residue /\ ~(try.ran /\ needs) /\ ~try.flagged

Tries == IF Cardinality(Equal) < MAX_FALLBACK_CANDIDATES THEN Cardinality(Equal)
         ELSE MAX_FALLBACK_CANDIDATES
Candidate(k) == CHOOSE c \in Equal : Cardinality({d \in Equal : d < c}) = k - 1

MayFallBack == Tries > 0 /\ try.policy = "auto-equivalent" /\ Safe

(* The plan and the subdirectory are written to the manifest before the     *)
(* candidate is hosted.  Only the first fallback asks whether what came     *)
(* before was safe.                                                         *)
ApplyCandidate ==
    /\ \/ try.pc = "decide" /\ MayFallBack
       \/ try.pc = "next" /\ try.k < Tries
    /\ try' = [NoTry(Shot) EXCEPT !.pc = "host", !.policy = try.policy, !.k = try.k + 1]
    /\ plan' = Chosen(Candidate(try.k + 1))
    /\ UNCHANGED <<gen, port, cont, needs, fgh, spentFall>>

(* The diagnosis is written, or the user is asked to confirm. *)
GiveUp ==
    /\ \/ try.pc = "decide" /\ ~MayFallBack
       \/ try.pc = "next" /\ try.k >= Tries
    /\ try' = [try EXCEPT !.pc = "idle"]
    /\ UNCHANGED <<worldVars, needs, fgh, spentFall>>

StartCrashes ==
    /\ try.pc \notin {"idle", "done"} /\ Bad /\ try' = [try EXCEPT !.pc = "idle"]
    /\ fgh' = [fgh EXCEPT !.cut = TRUE]
    /\ UNCHANGED <<worldVars, needs>>

(* A container may end on its own; one left over is stopped by the user. *)
ContainerExits ==
    /\ cont /\ cont' = FALSE
    /\ try.pc \in {"up", "down"} => Bad
    /\ try.pc \notin {"up", "down"} => Good
    /\ UNCHANGED <<plan, gen, port, needs, try, fgh>>

FallbackNext ==
    \/ \E p \in Policies : BeginStart(p)
    \/ BuildBreaks \/ BringUp \/ ProbeFails \/ LateStepFails \/ HostSucceeds \/ CancelStart
    \/ RollBackContainer \/ RestoreSnapshot \/ ApplyCandidate \/ GiveUp \/ StartCrashes
    \/ ContainerExits

FallbackSpec == FallbackInit /\ [][FallbackNext]_fallVars

----------------------------------------------------------------------------
(* Properties                                                               *)

FallbackTypeOK ==
    /\ plan \in [id : Plans, sub : Plans \cup {NoSub}] /\ gen \in MaybeFiles
    /\ port \in {"none", "kept", "fresh"} /\ cont \in BOOLEAN /\ needs \in BOOLEAN
    /\ try.pc \in {"idle", "done", "host", "up", "down", "restore", "decide", "next"}
    /\ try.k \in 0..MAX_FALLBACK_CANDIDATES /\ try.policy \in Policies

(* The first fallback plan starts where the primary one started: nothing of *)
(* the primary attempt runs, is registered or lies on the disk, and no side *)
(* effect of it was reported (lifecycle.py:1627-1640), unless Docker did    *)
(* not answer when the container was looked for.                            *)
FirstStartsClean ==
    try.pc = "host" /\ try.k = 1 /\ ~fgh.blind
        => ~cont /\ port = fgh.base.port /\ gen = fgh.base.gen

(* A start that fails and could undo everything leaves the port, the files  *)
(* and the chosen plan as they were, whatever plans it tried.               *)
FailedStartUndone ==
    [][try.pc # "idle" /\ try'.pc = "idle" /\ ~fgh'.left /\ ~fgh'.cut
        => port' = fgh.base.port /\ gen' = fgh.base.gen /\ plan'.id = fgh.base.plan.id]_fallVars

(* No plan is tried after one whose container may have migrated the         *)
(* database (lifecycle.py:562-568).                                         *)
NothingAfterMigration == [][try.pc \in {"decide", "next"} /\ try'.pc = "host" => ~fgh.moved]_fallVars

(* What the manifest said is what it says after a failed start              *)
(* (lifecycle.py:561, step 5).                                              *)
ManifestComesBack ==
    [][try.pc # "idle" /\ try'.pc = "idle" /\ ~fgh'.left /\ ~fgh'.cut
        => plan' = fgh.base.plan]_fallVars

(* A start with fallback plans in one statement: the first fallback plan     *)
(* starts clean, and a start that fails is undone.                           *)
FallbackIsSafe == []FallbackTypeOK /\ []FirstStartsClean /\ FailedStartUndone
=============================================================================
