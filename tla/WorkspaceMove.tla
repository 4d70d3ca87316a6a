--------------------------- MODULE WorkspaceMove ---------------------------
(* lwa workspace relocate (workspace_migrate.py, cli/workspace.py): moving  *)
(* a workspace to another path of the same volume as a sequence of phases   *)
(* with a journal, which a failure or a crash interrupts and --resume or    *)
(* --rollback takes up.  Two paths; a move goes from one to the other.      *)
EXTENDS FiniteSets, Integers

CONSTANTS Inst,       \* container instances
          NoJournal,
          MaxMove,    \* bound: calls of relocate, with or without --resume, --rollback
          MaxUpset    \* bound: failing steps, crashes, and units started by somebody else


VARIABLES
    root,      \* the path at which the workspace is
    journals,  \* run/workspace-migrate-journal.json of each path
    names,     \* the path that is written in each kind of file
    up,        \* the containers and services that run
    want,      \* instances whose desired state is running
    autostart, \* whether units are installed for autostart
    dflt,      \* the saved default workspace
    mv,        \* the call of relocate that runs
    mgh,       \* ghost: what ran when the move began, what started after the check,
               \*        what the properties exclude
    spentMove  \* calls and upsets so far

Place == {"a", "b"}
Other(p) == IF p = "a" THEN "b" ELSE "a"

(* Files with absolute paths: manifests, the registry, the site and alias   *)
(* fragments, the main Caddyfile, the autostart units.                      *)
Holder  == {"manifest", "registry", "fragment", "caddyfile", "unit"}
Service == {"daemon", "manager", "gateway"}
Unit    == Inst \cup Service

(* _PHASE_ORDER *)
Phase == {"preflight", "backup", "quiesce", "move", "rebind", "regenerate", "restore",
          "verify", "complete"}
LateMovePhase == {"rebind", "regenerate", "restore", "verify", "complete"}

(* MigrateSnapshot; taken is "captured_at is not empty". *)
Snapshot   == [ids : SUBSET Inst, cp : SUBSET Service, taken : BOOLEAN]
NoSnapshot == [ids |-> {}, cp |-> {}, taken |-> FALSE]
Journal == [phase : Phase \cup {"rollback"}, from : Place, snap : Snapshot,
            ok : {"none", "yes", "no"}]

ASSUME MoveAssumption ==
    /\ MaxMove \in Nat /\ MaxUpset \in Nat
    /\ Inst \cap Service = {} /\ NoJournal \notin Journal

moveVars  == <<root, journals, names, up, want, autostart, dflt, mv, mgh, spentMove>>
fileVars  == <<root, journals, names, dflt>>
unitVars  == <<up, want, autostart>>

Exists(p) == root = p \/ journals[p] # NoJournal
MoveAt(pc) == mv.pc = pc
Upset == spentMove.upset < MaxUpset /\ spentMove' = [spentMove EXCEPT !.upset = @ + 1]
Quietly == UNCHANGED spentMove
To == Other(mv.from)

(* _save: the journal of the workspace the call works in. *)
SaveOk(phase, ok) ==
    journals' = [journals EXCEPT ![mv.ws] =
                     [phase |-> phase, from |-> mv.from, snap |-> mv.snap, ok |-> ok]]
Save(phase) == SaveOk(phase, "none")

GoOn(pc) == mv' = [mv EXCEPT !.pc = pc]
MoveAnswer(ok) == mv' = [mv EXCEPT !.pc = "answered", !.ok = ok]

----------------------------------------------------------------------------
(* The beginning of a call                                                  *)

BeginMove(mode, from, ws, pc, snap, force) ==
    /\ mv.pc = "idle"
    /\ spentMove.call < MaxMove /\ spentMove' = [spentMove EXCEPT !.call = @ + 1]
    /\ mv' = [mode |-> mode, from |-> from, ws |-> ws, pc |-> pc, snap |-> snap,
              force |-> force, ok |-> FALSE]
    /\ UNCHANGED <<root, names, unitVars, dflt>>

(* preflight_migrate and the first save.  The snapshot of a journal that is *)
(* already there goes into the new one.                                     *)
StartMove(force) ==
    LET j == journals[root] IN
    /\ ~Exists(Other(root))
    /\ BeginMove("move", root, root, "backup", IF j = NoJournal THEN NoSnapshot ELSE j.snap, force)
    /\ journals' = [journals EXCEPT ![root] =
                       [phase |-> "preflight", from |-> root, ok |-> "none",
                        snap |-> IF j = NoJournal THEN NoSnapshot ELSE j.snap]]
    /\ mgh' = [ran |-> (up \cap Inst) \cup want, late |-> {},
               stale |-> FALSE, halfBack |-> mgh.halfBack]

(* The command finds the two paths in the journal where the workspace is.   *)
ResumedFrom == journals[root].from

(* _run_migrate_locked reads the journal at the path the move comes from    *)
(* first, even if only the directory of an interrupted call is left there.  *)
ResumeMove(force) ==
    LET from == ResumedFrom
        home == IF journals[from] # NoJournal THEN from ELSE Other(from)
        j    == journals[home]
        ws   == IF j.phase \in LateMovePhase /\ root = Other(from) THEN Other(from) ELSE home
    IN  /\ journals[root] # NoJournal
        /\ j # NoJournal
        /\ BeginMove("resume", from, ws,
                     CASE j.phase = "preflight" -> "backup"
                       [] j.phase = "rollback"  -> "complete"
                       [] OTHER                 -> j.phase, j.snap, force)
        /\ j.phase = "preflight" => root = from /\ ~Exists(Other(from))
        /\ UNCHANGED <<journals, mgh>>

(* _rollback_migrate: only while the other path is free. *)
StartRollback(force) ==
    LET j == journals[root] IN
    /\ j # NoJournal
    /\ root = Other(j.from) /\ ~Exists(j.from)
    /\ BeginMove("rollback", j.from, root, "quiesceBack", j.snap, force)
    /\ mgh' = [mgh EXCEPT !.late = {}, !.stale = TRUE]
    /\ UNCHANGED journals

----------------------------------------------------------------------------
(* The phases                                                               *)

(* capture_snapshot and write_backup.  Mutant: always taken anew. *)
Captured == [ids |-> (up \cap Inst) \cup want, cp |-> up \cap Service, taken |-> TRUE]
SnapshotOf_Anew == Captured

(* --resume keeps a snapshot that was really taken. *)
SnapshotOf == IF mv.mode = "resume" /\ mv.snap.taken THEN mv.snap ELSE Captured

Backup ==
    /\ MoveAt("backup")
    /\ mv' = [mv EXCEPT !.pc = "quiesce", !.snap = SnapshotOf]
    /\ journals' = [journals EXCEPT ![mv.ws] =
                       [phase |-> "backup", from |-> mv.from, snap |-> SnapshotOf, ok |-> "none"]]
    /\ UNCHANGED <<root, names, unitVars, dflt, mgh>> /\ Quietly

(* quiesce_workspace: stop and down of every instance of the snapshot, then *)
(* the services; each step goes on after a failure.  stuck stay up.         *)
Stopped(stuck) == (mv.snap.ids \cup Service) \ stuck

StopUnits(stuck) ==
    /\ up' = up \ Stopped(stuck)
    /\ want' = want \ Stopped(stuck)
    /\ UNCHANGED autostart

(* _verify_quiesced: a container or a service that still runs, or cannot be *)
(* asked, counts.                                                           *)
Quiet(up2) == up2 = {}

(* One step of the phase "quiesce", or its repetition before the move.      *)
QuiesceTo(next, phase) ==
    \E stuck \in SUBSET (mv.snap.ids \cup Service) :
        /\ \/ stuck = {} /\ Quietly
           \/ stuck # {} /\ stuck \subseteq up /\ Upset
        /\ StopUnits(stuck)
        /\ mgh' = [mgh EXCEPT !.late = {}]
        /\ IF Quiet(up') \/ mv.force
           THEN /\ GoOn(next)
                /\ IF phase = "back" THEN UNCHANGED journals ELSE Save(phase)
           ELSE /\ MoveAnswer(FALSE)
                /\ IF phase = "back" THEN UNCHANGED journals ELSE Save(phase)
        /\ UNCHANGED <<root, names, dflt>>

QuiescePhase == MoveAt("quiesce") /\ QuiesceTo("move2", "quiesce")

(* Mutant: --resume goes straight on to the rename. *)
RequiesceFirst_No == FALSE

(* A resumed call that has not moved the tree yet stops everything again.   *)
RequiesceFirst == mv.mode = "resume"

MovePhaseBegins ==
    /\ MoveAt("move")
    /\ \/ root = To /\ GoOn("moved") /\ UNCHANGED <<fileVars, unitVars, mgh>> /\ Quietly
       \/ root # To /\ RequiesceFirst /\ QuiesceTo("move2", "move")
       \/ root # To /\ ~RequiesceFirst /\ GoOn("move2") /\ UNCHANGED <<fileVars, unitVars, mgh>> /\ Quietly

(* move_workspace_root: the journal (saved as "move") goes with the tree.   *)
Rename ==
    /\ MoveAt("move2")
    /\ ~Exists(To)
    /\ root' = To
    /\ journals' = [journals EXCEPT ![To] = [phase |-> "move", from |-> mv.from,
                                             snap |-> mv.snap, ok |-> "none"],
                                    ![mv.from] = NoJournal]
    /\ GoOn("moved")
    /\ UNCHANGED <<names, dflt, unitVars, mgh>> /\ Quietly

(* From here the call works in the new path. *)
AfterRename ==
    /\ MoveAt("moved")
    /\ mv' = [mv EXCEPT !.pc = "rebind", !.ws = To]
    /\ journals' = [journals EXCEPT ![To] = [phase |-> "move", from |-> mv.from,
                                             snap |-> mv.snap, ok |-> "none"]]
    /\ UNCHANGED <<root, names, dflt, unitVars, mgh>> /\ Quietly

(* Mutant: the rows of the registry keep the path they have.               *)
Rebound_NoRegistry == {"manifest", "fragment"}

(* rebind_workspace_paths rewrites what still names the path the tree left. *)
Rebound == {"manifest", "registry", "fragment"}

Rewrite(from, hs) == [h \in Holder |-> IF h \in hs /\ names[h] = from THEN Other(from) ELSE names[h]]

Rebind ==
    /\ MoveAt("rebind")
    /\ \/ names' = Rewrite(mv.from, Rebound) /\ Save("rebind") /\ GoOn("regenerate") /\ Quietly
       \/ \E hs \in SUBSET Rebound : names' = Rewrite(mv.from, hs)
          /\ Save("rebind") /\ MoveAnswer(FALSE) /\ Upset
    /\ UNCHANGED <<root, unitVars, dflt, mgh>>

(* regenerate_after_move: the units (if there were any) and the Caddyfile   *)
(* are written anew; a failure is noted and forgotten.                      *)
Regenerated(ws, failed) ==
    [h \in Holder |-> IF h \in ({"caddyfile"} \cup (IF autostart THEN {"unit"} ELSE {})) \ failed
                      THEN ws ELSE names[h]]

Regenerate ==
    /\ MoveAt("regenerate")
    /\ \/ names' = Regenerated(mv.ws, {}) /\ Quietly
       \/ \E failed \in {{"caddyfile"}, {"unit"}} : names' = Regenerated(mv.ws, failed) /\ Upset
    /\ Save("regenerate") /\ GoOn("restore")
    /\ UNCHANGED <<root, unitVars, dflt, mgh>>

(* restore_instances: the control plane at best effort, then the instances  *)
(* one by one up to the first that does not start.                          *)
Restarted(ids, svcs) ==
    /\ up' = up \cup ids \cup svcs
    /\ want' = want \cup ids
    /\ UNCHANGED autostart

Restore ==
    /\ MoveAt("restore")
    /\ \/ Restarted(mv.snap.ids, mv.snap.cp) /\ Save("restore") /\ GoOn("verify") /\ Quietly
       \/ \E lost \in SUBSET mv.snap.cp :
             lost # {} /\ Restarted(mv.snap.ids, mv.snap.cp \ lost)
             /\ Save("restore") /\ GoOn("verify") /\ Upset
       \/ \E ids \in (SUBSET mv.snap.ids) \ {mv.snap.ids} :
             Restarted(ids, mv.snap.cp) /\ Save("restore") /\ MoveAnswer(FALSE) /\ Upset
    /\ UNCHANGED <<root, names, dflt, mgh>>

(* verify_migrate looks into manifests, fragments and the Caddyfile. *)
LooksGood ==
    /\ mv.ws = To
    /\ \A h \in {"manifest", "fragment", "caddyfile"} : names[h] # mv.from

Verify ==
    /\ MoveAt("verify")
    /\ \E ok \in {LooksGood, FALSE} :
          /\ IF ok = LooksGood THEN Quietly ELSE Upset
          /\ SaveOk("verify", IF ok THEN "yes" ELSE "no")
          /\ mv' = [mv EXCEPT !.pc = "finish", !.ok = ok]
    /\ UNCHANGED <<root, names, dflt, unitVars, mgh>>

(* A journal that says complete is verified again unless it was in order;   *)
(* one that says rollback has nothing left to do.                           *)
ResumeComplete ==
    /\ MoveAt("complete")
    /\ LET j  == journals[mv.ws]
           ok == IF j.phase = "complete" THEN j.ok = "yes" \/ LooksGood ELSE TRUE IN
       mv' = [mv EXCEPT !.pc = "finish", !.ok = ok]
    /\ UNCHANGED <<fileVars, unitVars, mgh>> /\ Quietly

(* The default workspace follows (or the failure is noted). *)
Complete ==
    /\ MoveAt("finish")
    /\ \/ dflt' = (IF mv.ok /\ dflt = mv.from THEN To ELSE dflt) /\ Quietly
       \/ dflt' = dflt /\ Upset
    /\ SaveOk("complete", IF mv.ok THEN "yes" ELSE "no")
    /\ MoveAnswer(mv.ok)
    /\ UNCHANGED <<root, names, unitVars, mgh>>

----------------------------------------------------------------------------
(* --rollback                                                               *)

QuiesceBack == MoveAt("quiesceBack") /\ QuiesceTo("renameBack", "back")

RenameBack ==
    /\ MoveAt("renameBack")
    /\ root' = mv.from
    /\ journals' = [journals EXCEPT ![mv.from] = journals[To], ![To] = NoJournal]
    /\ mv' = [mv EXCEPT !.pc = "rebindBack", !.ws = mv.from]
    /\ UNCHANGED <<names, dflt, unitVars, mgh>> /\ Quietly

(* The failure of a step after the rename is a note. *)
RebindBack ==
    /\ MoveAt("rebindBack")
    /\ \/ names' = [h \in Holder |-> IF h \in Rebound THEN Rewrite(To, Rebound)[h]
                                     ELSE Regenerated(mv.ws, {})[h]]
          /\ UNCHANGED mgh /\ Quietly
       \/ \E hs \in SUBSET Rebound :
             names' = [h \in Holder |-> IF h \in Rebound THEN Rewrite(To, hs)[h]
                                        ELSE Regenerated(mv.ws, {})[h]]
          /\ mgh' = [mgh EXCEPT !.halfBack = TRUE] /\ Upset
    /\ GoOn("restoreBack")
    /\ UNCHANGED <<root, journals, unitVars, dflt>>

RestoreBack ==
    /\ MoveAt("restoreBack")
    /\ \/ Restarted(mv.snap.ids, mv.snap.cp) /\ Quietly
       \/ \E ids \in SUBSET mv.snap.ids : Restarted(ids, mv.snap.cp) /\ Upset
    /\ \/ dflt' = (IF dflt = To THEN mv.from ELSE dflt)
          /\ journals' = [journals EXCEPT ![mv.ws] = [phase |-> "rollback", from |-> To,
                                                      snap |-> mv.snap, ok |-> "none"]]
          /\ MoveAnswer(TRUE)
       \/ MoveAnswer(FALSE) /\ UNCHANGED <<dflt, journals>>
    /\ UNCHANGED <<root, names, mgh>>
----------------------------------------------------------------------------
(* Failures, crashes, other users                                           *)

ForwardPhase == {"backup", "quiesce", "move", "move2", "moved", "rebind", "regenerate", "restore",
                 "verify", "complete", "finish"}

(* The exception handlers: the journal gets the phase that failed, written  *)
(* at the path the call works in.                                           *)
PhaseOfPc ==
    CASE mv.pc \in {"move2", "moved"} -> "move"
      [] mv.pc \in {"complete", "finish"} ->
            IF journals[mv.ws].phase = "rollback" THEN "rollback" ELSE "complete"
      [] OTHER -> mv.pc

MoveFails ==
    /\ mv.pc \in ForwardPhase
    /\ \E ws \in {mv.ws} \cup (IF mv.pc = "moved" THEN {To} ELSE {}) :
          journals' = [journals EXCEPT ![ws] = [phase |-> PhaseOfPc, from |-> mv.from,
                                                snap |-> mv.snap, ok |-> "none"]]
    /\ MoveAnswer(FALSE)
    /\ UNCHANGED <<root, names, dflt, unitVars, mgh>> /\ Upset

(* A crash within a phase leaves any part of its work.                      *)
MoveCrash ==
    /\ mv.pc \notin {"idle", "answered"}
    /\ GoOn("idle")
    /\ mgh' = [mgh EXCEPT !.halfBack = @ \/ mv.pc = "rebindBack"]
    /\ \/ UNCHANGED <<names, unitVars>>
       \/ /\ mv.pc \in {"quiesce", "quiesceBack"} \/ (mv.pc = "move" /\ root # To /\ RequiesceFirst)
          /\ \E stuck \in SUBSET Unit : StopUnits(stuck)
          /\ UNCHANGED names
       \/ /\ mv.pc = "rebind"
          /\ \E hs \in SUBSET Rebound : names' = Rewrite(mv.from, hs)
          /\ UNCHANGED unitVars
       \/ /\ mv.pc \in {"restore", "restoreBack"}
          /\ \E ids \in SUBSET mv.snap.ids, svcs \in SUBSET mv.snap.cp : Restarted(ids, svcs)
          /\ UNCHANGED names
    /\ UNCHANGED <<root, journals, dflt>> /\ Upset

(* A user starts an instance, or a unit of the system a service; after the  *)
(* check nothing keeps them from it.                                        *)
UnitStarts(u) ==
    /\ u \notin up
    /\ up' = up \cup {u} /\ want' = want \cup ({u} \cap Inst)
    /\ mgh' = IF mv.pc \in {"move", "move2", "renameBack"} THEN [mgh EXCEPT !.late = @ \cup {u}] ELSE mgh
    /\ UNCHANGED <<fileVars, autostart, mv>> /\ Upset

MoveReturns == MoveAt("answered") /\ GoOn("idle") /\ UNCHANGED <<fileVars, unitVars, mgh>> /\ Quietly

MoveInit ==
    /\ root = "a"
    /\ journals = [p \in Place |-> NoJournal]
    /\ names = [h \in Holder |-> "a"]
    /\ \E running \in SUBSET Inst, svcs \in {{}, Service} :
          up = running \cup svcs /\ want = running
    /\ autostart \in BOOLEAN
    /\ dflt \in Place
    /\ mv = [mode |-> "move", from |-> "a", ws |-> "a", pc |-> "idle", snap |-> NoSnapshot,
             force |-> FALSE, ok |-> FALSE]
    /\ mgh = [ran |-> {}, late |-> {}, stale |-> FALSE, halfBack |-> FALSE]
    /\ spentMove = [call |-> 0, upset |-> 0]

MoveStep ==
    \/ Backup \/ QuiescePhase \/ MovePhaseBegins \/ Rename \/ AfterRename
    \/ Rebind \/ Regenerate \/ Restore \/ Verify \/ ResumeComplete \/ Complete
    \/ QuiesceBack \/ RenameBack \/ RebindBack \/ RestoreBack \/ MoveReturns

MoveNext ==
    \/ \E force \in BOOLEAN : StartMove(force) \/ ResumeMove(force) \/ StartRollback(force)
    \/ MoveStep \/ MoveFails \/ MoveCrash
    \/ \E u \in Unit : UnitStarts(u)

MoveSpec == MoveInit /\ [][MoveNext]_moveVars

----------------------------------------------------------------------------
(* Properties                                                               *)

MoveTypeOK ==
    /\ root \in Place /\ dflt \in Place /\ autostart \in BOOLEAN
    /\ journals \in [Place -> Journal \cup {NoJournal}]
    /\ names \in [Holder -> Place]
    /\ up \subseteq Unit /\ want \subseteq Inst
    /\ mv \in [mode : {"move", "resume", "rollback"}, from : Place, ws : Place,
               pc : ForwardPhase \cup {"idle", "answered", "quiesceBack", "renameBack",
                                      "rebindBack", "restoreBack"},
               snap : Snapshot, force : BOOLEAN, ok : BOOLEAN]
    /\ mgh \in [ran : SUBSET Inst, late : SUBSET Unit, stale : BOOLEAN,
                halfBack : BOOLEAN]

(* The directory is never renamed under a container or a service that runs  *)
(* in it, in either direction and however often the move was interrupted,   *)
(* unless the user insisted or it was started after the last check          *)
(* (quiesce_workspace, _verify_quiesced, the repetition before the rename). *)
(* Instances without a compose file, the sites on built-in servers, are not *)
(* checked by the code and not modelled: the directory can be renamed under *)
(* one whose stop failed.                                                   *)
MovesQuiet == [][root' # root => mv.force \/ up \subseteq mgh.late]_moveVars

(* A move that answers ok has started again every instance that ran when it *)
(* began, through any failures and resumptions: the snapshot survives in    *)
(* the journal.  Excluded: a resumption after a rollback, which may have     *)
(* stopped what was restored.  A snapshot taken over from an earlier move   *)
(* may lack what runs now; but what it lacks is not stopped either.         *)
NothingForgotten ==
    MoveAt("answered") /\ mv.ok /\ mv.mode # "rollback" /\ ~mgh.stale => mgh.ran \subseteq up

(* After a move that answers ok the manifests, the rows and the fragments   *)
(* name the directory the workspace is in; also the rows, at which the      *)
(* verification does not look.  Excluded: after a rollback whose rewriting  *)
(* failed, or which died before it; a later call answers ok all the same.   *)
PathsFollow ==
    MoveAt("answered") /\ mv.ok /\ ~mgh.halfBack => 
        \A h \in {"manifest", "registry", "fragment"} : names[h] = root

(* A move, its resumptions and its rollback in one statement: no rename      *)
(* under a running process, every instance that ran runs again, every path   *)
(* follows.                                                                  *)
MoveIsSafe == []MoveTypeOK /\ []NothingForgotten /\ []PathsFollow /\ MovesQuiet
=============================================================================
