---------------------------- MODULE FilesProofs ----------------------------
(* Proofs about what survives a process, for any sets of instances,         *)
(* services, plans, versions and contents, any number of processes and any  *)
(* bound: the move of a workspace, the pruning of redundant copies, the     *)
(* pages of a log, the fallback plans of a first start, versions and the    *)
(* way back, the settings of an instance.  The modules share no state.      *)
EXTENDS WorkspaceMove, Redundant, LogPages, Fallback, VersionStore, EnvFiles, FiniteSetTheorems,
        SequenceTheorems, WellFoundedInduction, TLAPS

(* A set of naturals has a least element.                                   *)
LEMMA LeastOf ==
    ASSUME NEW T \in SUBSET Nat, T # {}
    PROVE  \E n \in T : \A m \in T : n <= m
<1> DEFINE R == OpToRel(<, Nat)
<1>1. IsWellFoundedOn(R, Nat)
  BY NatLessThanWellFounded, Zenon
<1>2. \A x, y \in Nat : x < y => <<x, y>> \in R
  BY DEF OpToRel
<1> HIDE DEF R
<1>3. PICK n \in T : \A m \in T : ~(<<m, n>> \in R)
  BY <1>1, WFMin
<1>4. n \in Nat /\ \A m \in T : m \in Nat
  BY <1>3
<1>5. ASSUME NEW m \in T PROVE n <= m
  <2>1. ~(m < n)
    BY <1>2, <1>3, <1>4, <1>5
  <2> QED BY <2>1, <1>4, <1>5
<1> QED BY <1>3, <1>5

(***************************************************************************)
(* The move of a workspace.                                                *)
(***************************************************************************)

(* The parts of a call.                                                     *)
BackPc  == {"quiesceBack", "renameBack", "rebindBack", "restoreBack"}
LatePc  == {"rebind", "regenerate", "restore", "verify", "complete", "finish"}
Active  == mv.pc \notin {"idle", "answered"}
HasJournal(p) == journals[p] # NoJournal
BeforeRename  == mv.pc \in {"backup", "quiesce", "move2"} \/ (mv.pc = "move" /\ root = mv.from)

(* A journal that says where the tree came from never lags behind it, and a *)
(* second one, left at the old path, can only lead to the renaming again.   *)
JournalsFit ==
    /\ HasJournal(root) /\ journals[root].from # root
          => journals[root].phase \notin {"preflight", "backup", "quiesce"}
    /\ HasJournal(Other(root)) =>
          /\ HasJournal(root) /\ journals[root].from # root
          /\ journals[Other(root)].phase = "move" /\ journals[Other(root)].from = Other(root)

(* Where the tree is, and which journal the call writes. *)
CallFits ==
    /\ Active => HasJournal(root) /\ journals[root].from = mv.from
    /\ BeforeRename => root = mv.from /\ mv.ws = root /\ journals[root].snap = mv.snap
    /\ mv.pc = "move" => HasJournal(mv.ws) /\ mv.mode = "resume"
    /\ mv.pc = "moved" => root # mv.from
    /\ mv.pc \in LatePc \cup BackPc => mv.ws = root
    /\ mv.pc \in {"quiesceBack", "renameBack"} => root # mv.from /\ ~HasJournal(Other(root))
    /\ mv.pc \in {"rebindBack", "restoreBack"} => root = mv.from
    /\ mv.pc \in BackPc => mv.mode = "rollback" /\ mgh.stale

(* The phase the journal tells while the call is in one. *)
PhaseFits ==
    /\ BeforeRename => journals[root].phase \in {"preflight", "backup", "quiesce", "move"}
    /\ mv.pc = "rebind" => journals[root].phase \in {"move", "rebind"}
    /\ mv.pc = "complete" => journals[root].phase \in {"complete", "rollback"}

StillQuiet == mv.pc \in {"move2", "renameBack"} => mv.force \/ up \subseteq mgh.late

Follow == \A h \in {"manifest", "registry", "fragment"} : names[h] = root
Settled(j) ==
    \/ j.from # root /\ j.phase \in {"regenerate", "restore", "verify", "complete"}
    \/ j.phase = "rollback"
    \/ j.phase = "complete" /\ j.ok = "yes"
SettledFollow ==
    ~mgh.halfBack =>
        /\ HasJournal(root) /\ Settled(journals[root]) /\ mv.pc # "rebindBack" => Follow
        /\ mv.pc \in LatePc \ {"rebind"} /\ mv.from # root => Follow
        /\ mv.pc \in {"finish", "answered"} /\ mv.ok => Follow
        /\ mv.pc = "restoreBack" => Follow

Bare(s) == s.taken \/ s.ids = {}
Covered ==
    /\ want \subseteq up
    /\ Active => Bare(mv.snap)
    /\ \A p \in Place : HasJournal(p) => Bare(journals[p].snap)
    /\ HasJournal(root) /\ journals[root].phase = "rollback" => mgh.stale
    /\ ~mgh.stale =>
        /\ Active => mgh.ran \subseteq up \cup mv.snap.ids
        /\ \A p \in Place : HasJournal(p) => mgh.ran \subseteq up \cup journals[p].snap.ids
        /\ mv.pc = "backup" /\ mv.mode # "resume" => mgh.ran \subseteq up
        /\ mv.pc \in {"verify", "complete", "finish"} => mgh.ran \subseteq up
        /\ HasJournal(root) /\ journals[root].phase \in {"verify", "complete"}
            => mgh.ran \subseteq up

(* What the variables range over.                                           *)
Pcs   == ForwardPhase \cup {"idle", "answered"} \cup BackPc
Calls == [mode : {"move", "resume", "rollback"}, from : Place, ws : Place, pc : Pcs,
          snap : Snapshot, force : BOOLEAN, ok : BOOLEAN]
Ghosts == [ran : SUBSET Inst, late : SUBSET Unit, stale : BOOLEAN, halfBack : BOOLEAN]

(* There are two places, each the other of the other.                       *)
LEMMA Places ==
    /\ "a" \in Place
    /\ \A p \in Place : /\ Other(p) \in Place /\ Other(p) # p /\ Other(Other(p)) = p
                        /\ \A q \in Place : q = p \/ q = Other(p)
  BY DEF Place, Other

MoveTyped ==
    /\ root \in Place /\ dflt \in Place /\ autostart \in BOOLEAN
    /\ journals \in [Place -> Journal \cup {NoJournal}]
    /\ names \in [Holder -> Place]
    /\ up \subseteq Unit /\ want \subseteq Inst
    /\ mv \in Calls /\ mgh \in Ghosts

MoveInv == MoveTyped /\ JournalsFit /\ CallFits /\ PhaseFits /\ StillQuiet
           /\ SettledFollow /\ Covered /\ NothingForgotten /\ PathsFollow

(* What a step leaves of the call, and what it writes into a journal. *)
Called(pc, ws, snap, ok) ==
    /\ mv' \in Calls
    /\ mv'.mode = mv.mode /\ mv'.from = mv.from /\ mv'.force = mv.force
    /\ mv'.pc = pc /\ mv'.ws = ws /\ mv'.snap = snap /\ mv'.ok = ok

Wrote(w, phase, snap, ok) ==
    /\ journals' \in [Place -> Journal \cup {NoJournal}]
    /\ journals'[w] # NoJournal
    /\ journals'[w].phase = phase /\ journals'[w].from = mv.from
    /\ journals'[w].snap = snap /\ journals'[w].ok = ok
    /\ \A p \in Place \ {w} : journals'[p] = journals[p]

(* What answering, going on and the updates of the call make of it.         *)
LEMMA CallSteps ==
    ASSUME mv \in Calls
    PROVE  /\ \A pc \in Pcs : GoOn(pc) => Called(pc, mv.ws, mv.snap, mv.ok)
           /\ \A ok \in BOOLEAN : MoveAnswer(ok) => Called("answered", mv.ws, mv.snap, ok)
           /\ \A pc \in Pcs, ok \in BOOLEAN :
                 mv' = [mv EXCEPT !.pc = pc, !.ok = ok] => Called(pc, mv.ws, mv.snap, ok)
           /\ \A pc \in Pcs, ws \in Place :
                 mv' = [mv EXCEPT !.pc = pc, !.ws = ws] => Called(pc, ws, mv.snap, mv.ok)
           /\ \A pc \in Pcs, snap \in Snapshot :
                 mv' = [mv EXCEPT !.pc = pc, !.snap = snap] => Called(pc, mv.ws, snap, mv.ok)
<1> "answered" \in Pcs
  BY DEF Pcs
<1> HIDE DEF Pcs
<1>1. \A pc \in Pcs : GoOn(pc) => Called(pc, mv.ws, mv.snap, mv.ok)
  BY DEF GoOn, Called, Calls
<1>2. \A ok \in BOOLEAN : MoveAnswer(ok) => Called("answered", mv.ws, mv.snap, ok)
  BY DEF MoveAnswer, Called, Calls
<1>3. \A pc \in Pcs, ok \in BOOLEAN :
         mv' = [mv EXCEPT !.pc = pc, !.ok = ok] => Called(pc, mv.ws, mv.snap, ok)
  BY DEF Called, Calls
<1>4. \A pc \in Pcs, ws \in Place :
         mv' = [mv EXCEPT !.pc = pc, !.ws = ws] => Called(pc, ws, mv.snap, mv.ok)
  BY DEF Called, Calls
<1>5. ASSUME NEW pc \in Pcs, NEW snap \in Snapshot, mv' = [mv EXCEPT !.pc = pc, !.snap = snap]
      PROVE  Called(pc, mv.ws, snap, mv.ok)
  BY <1>5 DEF Called, Calls
<1> QED BY <1>1, <1>2, <1>3, <1>4, <1>5

(* A journal that is written is read as written, and no other one changes.  *)
LEMMA JournalWrites ==
    ASSUME journals \in [Place -> Journal \cup {NoJournal}], mv \in Calls,
           NEW w \in Place, NEW phase \in Phase \cup {"rollback"}, NEW snap \in Snapshot,
           NEW ok \in {"none", "yes", "no"},
           journals' = [journals EXCEPT ![w] = [phase |-> phase, from |-> mv.from,
                                                snap |-> snap, ok |-> ok]]
    PROVE  Wrote(w, phase, snap, ok)
BY MoveAssumption DEF Calls, Journal, Wrote

LEMMA Saved ==
    ASSUME journals \in [Place -> Journal \cup {NoJournal}], mv \in Calls,
           NEW phase \in Phase, NEW ok \in {"none", "yes", "no"}, SaveOk(phase, ok)
    PROVE  Wrote(mv.ws, phase, mv.snap, ok)
<1>1. mv.ws \in Place /\ mv.snap \in Snapshot
  BY DEF Calls
<1> QED BY <1>1, JournalWrites DEF SaveOk

(* A step of stopping: what it stops is in the snapshot, or is a service.   *)
LEMMA Quiesces ==
    ASSUME MoveTyped, want \subseteq up, NEW next \in Pcs, next # "answered",
           NEW phase \in Phase \cup {"back"}, QuiesceTo(next, phase)
    PROVE  /\ UNCHANGED <<root, names, dflt, autostart>>
           /\ up' \subseteq up /\ want' \subseteq up' /\ want' \subseteq Inst
           /\ up \subseteq up' \cup mv.snap.ids \cup Service
           /\ mgh' \in Ghosts /\ mgh'.ran = mgh.ran /\ mgh'.stale = mgh.stale
           /\ mgh'.halfBack = mgh.halfBack
           /\ \/ Called(next, mv.ws, mv.snap, mv.ok) /\ (mv.force \/ up' = {})
              \/ Called("answered", mv.ws, mv.snap, FALSE)
           /\ IF phase = "back" THEN journals' = journals
              ELSE Wrote(mv.ws, phase, mv.snap, "none")
BY CallSteps, Saved DEF QuiesceTo, StopUnits, Stopped, MoveTyped, Ghosts, Quiet, Save

LEMMA BackupKeeps == MoveInv /\ Backup => MoveInv'
<1> SUFFICES ASSUME MoveInv, Backup PROVE MoveInv'
    OBVIOUS
<1> USE DEF MoveInv
<1>1. /\ mv.pc = "backup" /\ UNCHANGED <<root, names, up, want, autostart, dflt, mgh>>
      /\ SnapshotOf \in Snapshot
      /\ mv' = [mv EXCEPT !.pc = "quiesce", !.snap = SnapshotOf]
  BY DEF Backup, MoveAt, unitVars, MoveTyped, SnapshotOf, Captured, Snapshot, Calls
<1>2. "quiesce" \in Pcs /\ "backup" \in Phase /\ mv.ws \in Place
  BY DEF Pcs, ForwardPhase, Phase, MoveTyped, Calls
<1>3. Called("quiesce", mv.ws, SnapshotOf, mv.ok)
  BY <1>1, <1>2, CallSteps DEF MoveTyped
<1>4. journals' = [journals EXCEPT ![mv.ws] = [phase |-> "backup", from |-> mv.from,
                                               snap |-> SnapshotOf, ok |-> "none"]]
  BY DEF Backup
<1>5. Wrote(mv.ws, "backup", SnapshotOf, "none")
  BY <1>1, <1>2, <1>4, JournalWrites DEF MoveTyped
<1>6. Bare(SnapshotOf) /\ (~mgh.stale => mgh.ran \subseteq up \cup SnapshotOf.ids)
  BY <1>1 DEF SnapshotOf, Bare, Covered, Active, MoveTyped, Ghosts, Captured
<1>11. MoveTyped'
  BY <1>1, <1>3, <1>5, <1>6 DEF Called, Wrote, MoveTyped
<1>12. JournalsFit'
  BY Places, <1>1, <1>3, <1>5, <1>6
     DEF Called, Wrote, MoveTyped, JournalsFit, CallFits, HasJournal, Active, BeforeRename,
         LatePc, BackPc
<1>13. CallFits'
  BY Places, <1>1, <1>3, <1>5, <1>6
     DEF Called, Wrote, MoveTyped, JournalsFit, CallFits, HasJournal, Active, BeforeRename,
         LatePc, BackPc
<1>14. PhaseFits'
  BY Places, <1>1, <1>3, <1>5, <1>6
     DEF Called, Wrote, MoveTyped, CallFits, PhaseFits, HasJournal, Active, BeforeRename, LatePc,
         BackPc
<1>15. StillQuiet'
  BY <1>1, <1>3, <1>5, <1>6 DEF Called, Wrote, StillQuiet
<1>16. SettledFollow'
  BY Places, <1>1, <1>3, <1>5, <1>6
     DEF Called, Wrote, MoveTyped, CallFits, SettledFollow, Follow, Settled, HasJournal, Active,
         BeforeRename, LatePc, BackPc
<1>17. Covered'
  BY Places, <1>1, <1>3, <1>5, <1>6
     DEF Called, Wrote, MoveTyped, CallFits, PhaseFits, Covered, Bare, HasJournal, Active,
         BeforeRename, LatePc, BackPc
<1>18. NothingForgotten'
  BY <1>1, <1>3, <1>5, <1>6 DEF Called, Wrote, Covered, NothingForgotten, MoveAt
<1>19. PathsFollow'
  BY Places, <1>1, <1>3, <1>5, <1>6 DEF Called, Wrote, SettledFollow, Follow, PathsFollow, MoveAt
<1> QED BY <1>11, <1>12, <1>13, <1>14, <1>15, <1>16, <1>17, <1>18, <1>19

LEMMA AfterRenameKeeps == MoveInv /\ AfterRename => MoveInv'
<1> SUFFICES ASSUME MoveInv, AfterRename PROVE MoveInv'
    OBVIOUS
<1> USE DEF MoveInv
<1>1. /\ mv.pc = "moved" /\ UNCHANGED <<root, names, up, want, autostart, dflt, mgh>>
      /\ root # mv.from /\ To = root
  BY Places DEF AfterRename, MoveAt, unitVars, CallFits, To, MoveTyped, Calls
<1>2. "rebind" \in Pcs /\ "move" \in Phase /\ root \in Place /\ mv.snap \in Snapshot
  BY DEF Pcs, ForwardPhase, Phase, MoveTyped, Calls
<1>3. Called("rebind", root, mv.snap, mv.ok)
  BY <1>1, <1>2, CallSteps DEF AfterRename, MoveTyped
<1>4. journals' = [journals EXCEPT ![root] = [phase |-> "move", from |-> mv.from,
                                              snap |-> mv.snap, ok |-> "none"]]
  BY <1>1 DEF AfterRename
<1>5. Wrote(root, "move", mv.snap, "none")
  BY <1>2, <1>4, JournalWrites DEF MoveTyped
<1>11. MoveTyped'
  BY <1>1, <1>3, <1>5 DEF Called, Wrote, MoveTyped
<1>12. JournalsFit'
  BY Places, <1>1, <1>3, <1>5 DEF Called, Wrote, MoveTyped, JournalsFit, CallFits, HasJournal,
     Active, BeforeRename, LatePc, BackPc
<1>13. CallFits'
  BY Places, <1>1, <1>3, <1>5 DEF Called, Wrote, MoveTyped, JournalsFit, CallFits, HasJournal,
     Active, BeforeRename, LatePc, BackPc
<1>14. PhaseFits'
  BY Places, <1>1, <1>3, <1>5 DEF Called, Wrote, MoveTyped, CallFits, PhaseFits, HasJournal,
     Active, BeforeRename, LatePc, BackPc
<1>15. StillQuiet'
  BY <1>1, <1>3, <1>5 DEF Called, Wrote, StillQuiet
<1>16. SettledFollow'
  BY Places, <1>1, <1>3, <1>5 DEF Called, Wrote, MoveTyped, CallFits, SettledFollow, Follow,
     Settled, HasJournal, Active, BeforeRename, LatePc, BackPc
<1>17. Covered'
  BY Places, <1>1, <1>3, <1>5 DEF Called, Wrote, MoveTyped, CallFits, PhaseFits, Covered, Bare,
     HasJournal, Active, BeforeRename, LatePc, BackPc
<1>18. NothingForgotten'
  BY <1>1, <1>3, <1>5 DEF Called, Wrote, Covered, NothingForgotten, MoveAt
<1>19. PathsFollow'
  BY Places, <1>1, <1>3, <1>5 DEF Called, Wrote, SettledFollow, Follow, PathsFollow, MoveAt
<1> QED BY <1>11, <1>12, <1>13, <1>14, <1>15, <1>16, <1>17, <1>18, <1>19

LEMMA QuiescePhaseKeeps == MoveInv /\ QuiescePhase => MoveInv'
<1> SUFFICES ASSUME MoveInv, QuiescePhase PROVE MoveInv'
    OBVIOUS
<1> USE DEF MoveInv
<1>1. mv.pc = "quiesce"
  BY DEF QuiescePhase, MoveAt
<1>2. QuiesceTo("move2", "quiesce") /\ MoveTyped /\ want \subseteq up
  BY DEF QuiescePhase, Covered
<1>3. "move2" \in Pcs /\ "move2" # "answered" /\ "quiesce" \in Phase \cup {"back"}
  BY DEF Pcs, ForwardPhase, BackPc, Phase
<1>4. /\ UNCHANGED <<root, names, dflt, autostart>>
      /\ up' \subseteq up /\ want' \subseteq up' /\ want' \subseteq Inst
      /\ up \subseteq up' \cup mv.snap.ids \cup Service
      /\ mgh' \in Ghosts /\ mgh'.ran = mgh.ran /\ mgh'.stale = mgh.stale
      /\ mgh'.halfBack = mgh.halfBack
      /\ \/ Called("move2", mv.ws, mv.snap, mv.ok) /\ (mv.force \/ up' = {})
         \/ Called("answered", mv.ws, mv.snap, FALSE)
      /\ Wrote(mv.ws, "quiesce", mv.snap, "none")
  BY <1>2, <1>3, Quiesces
<1>11. MoveTyped'
  BY <1>1, <1>4 DEF Called, Wrote, MoveTyped
<1>12. JournalsFit'
  BY Places, <1>1, <1>4 DEF Called, Wrote, MoveTyped, JournalsFit, CallFits, HasJournal, Active,
     BeforeRename, LatePc, BackPc
<1>13. CallFits'
  BY Places, <1>1, <1>4 DEF Called, Wrote, MoveTyped, JournalsFit, CallFits, HasJournal, Active,
     BeforeRename, LatePc, BackPc
<1>14. PhaseFits'
  BY Places, <1>1, <1>4 DEF Called, Wrote, MoveTyped, CallFits, PhaseFits, HasJournal, Active,
     BeforeRename, LatePc, BackPc
<1>15. StillQuiet'
  BY <1>1, <1>4 DEF Called, Wrote, StillQuiet
<1>16. SettledFollow'
  BY Places, <1>1, <1>4 DEF Called, Wrote, MoveTyped, CallFits, SettledFollow, Follow, Settled,
     HasJournal, Active, BeforeRename, LatePc, BackPc
<1>17. Covered'
  <2>1. mgh.ran \subseteq Inst /\ Inst \cap Service = {}
    BY MoveAssumption DEF MoveTyped, Ghosts
  <2>2. \A p \in Place : HasJournal(p) => p = root
    BY <1>1, Places DEF JournalsFit, CallFits, HasJournal, Active, BeforeRename, BackPc, MoveTyped
  <2> QED BY <1>1, <1>4, <2>1, <2>2, Places
          DEF Called, Wrote, MoveTyped, CallFits, PhaseFits, Covered, Bare, HasJournal, Active,
              BeforeRename, LatePc, BackPc
<1>18. NothingForgotten'
  BY <1>1, <1>4 DEF Called, Wrote, Covered, NothingForgotten, MoveAt
<1>19. PathsFollow'
  BY Places, <1>1, <1>4 DEF Called, Wrote, SettledFollow, Follow, PathsFollow, MoveAt
<1> QED BY <1>11, <1>12, <1>13, <1>14, <1>15, <1>16, <1>17, <1>18, <1>19

LEMMA QuiesceBackKeeps == MoveInv /\ QuiesceBack => MoveInv'
<1> SUFFICES ASSUME MoveInv, QuiesceBack PROVE MoveInv'
    OBVIOUS
<1> USE DEF MoveInv
<1>1. mv.pc = "quiesceBack" /\ mgh.stale
  BY DEF QuiesceBack, MoveAt, CallFits, BackPc
<1>2. QuiesceTo("renameBack", "back") /\ MoveTyped /\ want \subseteq up
  BY DEF QuiesceBack, Covered
<1>3. "renameBack" \in Pcs /\ "renameBack" # "answered" /\ "back" \in Phase \cup {"back"}
  BY DEF Pcs, ForwardPhase, BackPc, Phase
<1>4. /\ UNCHANGED <<root, names, dflt, autostart>>
      /\ up' \subseteq up /\ want' \subseteq up' /\ want' \subseteq Inst
      /\ up \subseteq up' \cup mv.snap.ids \cup Service
      /\ mgh' \in Ghosts /\ mgh'.ran = mgh.ran /\ mgh'.stale = mgh.stale
      /\ mgh'.halfBack = mgh.halfBack
      /\ \/ Called("renameBack", mv.ws, mv.snap, mv.ok) /\ (mv.force \/ up' = {})
         \/ Called("answered", mv.ws, mv.snap, FALSE)
      /\ journals' = journals
  BY <1>2, <1>3, Quiesces
<1>11. MoveTyped'
  BY <1>1, <1>4 DEF Called, Wrote, MoveTyped
<1>12. JournalsFit'
  BY Places, <1>1, <1>4 DEF Called, Wrote, MoveTyped, JournalsFit, CallFits, HasJournal, Active,
     BeforeRename, LatePc, BackPc
<1>13. CallFits'
  BY Places, <1>1, <1>4 DEF Called, Wrote, MoveTyped, JournalsFit, CallFits, HasJournal, Active,
     BeforeRename, LatePc, BackPc
<1>14. PhaseFits'
  BY Places, <1>1, <1>4 DEF Called, Wrote, MoveTyped, CallFits, PhaseFits, HasJournal, Active,
     BeforeRename, LatePc, BackPc
<1>15. StillQuiet'
  BY <1>1, <1>4 DEF Called, Wrote, StillQuiet
<1>16. SettledFollow'
  BY Places, <1>1, <1>4 DEF Called, Wrote, MoveTyped, CallFits, SettledFollow, Follow, Settled,
     HasJournal, Active, BeforeRename, LatePc, BackPc
<1>17. Covered'
  <2>1. mgh.ran \subseteq Inst /\ Inst \cap Service = {}
    BY MoveAssumption DEF MoveTyped, Ghosts
  <2>2. \A p \in Place : HasJournal(p) => p = root
    BY <1>1, Places DEF JournalsFit, CallFits, HasJournal, Active, BeforeRename, BackPc, MoveTyped
  <2> QED BY <1>1, <1>4, <2>1, <2>2, Places
          DEF Called, Wrote, MoveTyped, CallFits, PhaseFits, Covered, Bare, HasJournal, Active,
              BeforeRename, LatePc, BackPc
<1>18. NothingForgotten'
  BY <1>1, <1>4 DEF Called, Wrote, Covered, NothingForgotten, MoveAt
<1>19. PathsFollow'
  BY Places, <1>1, <1>4 DEF Called, Wrote, SettledFollow, Follow, PathsFollow, MoveAt
<1> QED BY <1>11, <1>12, <1>13, <1>14, <1>15, <1>16, <1>17, <1>18, <1>19

(* The resumption stops everything again, or finds the tree moved.          *)
RequiesceStep == MoveAt("move") /\ root # To /\ RequiesceFirst /\ QuiesceTo("move2", "move")
FindsMoved ==
    MoveAt("move") /\ root = To /\ GoOn("moved") /\ UNCHANGED <<fileVars, unitVars, mgh>>

LEMMA RequiesceStepKeeps == MoveInv /\ RequiesceStep => MoveInv'
<1> SUFFICES ASSUME MoveInv, RequiesceStep PROVE MoveInv'
    OBVIOUS
<1> USE DEF MoveInv
<1>1. mv.pc = "move" /\ root = mv.from
  BY Places DEF RequiesceStep, MoveAt, To, MoveTyped, Calls
<1>2. QuiesceTo("move2", "move") /\ MoveTyped /\ want \subseteq up
  BY DEF RequiesceStep, Covered
<1>3. "move2" \in Pcs /\ "move2" # "answered" /\ "move" \in Phase \cup {"back"}
  BY DEF Pcs, ForwardPhase, BackPc, Phase
<1>4. /\ UNCHANGED <<root, names, dflt, autostart>>
      /\ up' \subseteq up /\ want' \subseteq up' /\ want' \subseteq Inst
      /\ up \subseteq up' \cup mv.snap.ids \cup Service
      /\ mgh' \in Ghosts /\ mgh'.ran = mgh.ran /\ mgh'.stale = mgh.stale
      /\ mgh'.halfBack = mgh.halfBack
      /\ \/ Called("move2", mv.ws, mv.snap, mv.ok) /\ (mv.force \/ up' = {})
         \/ Called("answered", mv.ws, mv.snap, FALSE)
      /\ Wrote(mv.ws, "move", mv.snap, "none")
  BY <1>2, <1>3, Quiesces
<1>11. MoveTyped'
  BY <1>1, <1>4 DEF Called, Wrote, MoveTyped
<1>12. JournalsFit'
  BY Places, <1>1, <1>4 DEF Called, Wrote, MoveTyped, JournalsFit, CallFits, HasJournal, Active,
     BeforeRename, LatePc, BackPc
<1>13. CallFits'
  BY Places, <1>1, <1>4 DEF Called, Wrote, MoveTyped, JournalsFit, CallFits, HasJournal, Active,
     BeforeRename, LatePc, BackPc
<1>14. PhaseFits'
  BY Places, <1>1, <1>4 DEF Called, Wrote, MoveTyped, CallFits, PhaseFits, HasJournal, Active,
     BeforeRename, LatePc, BackPc
<1>15. StillQuiet'
  BY <1>1, <1>4 DEF Called, Wrote, StillQuiet
<1>16. SettledFollow'
  BY Places, <1>1, <1>4 DEF Called, Wrote, MoveTyped, CallFits, SettledFollow, Follow, Settled,
     HasJournal, Active, BeforeRename, LatePc, BackPc
<1>17. Covered'
  <2>1. mgh.ran \subseteq Inst /\ Inst \cap Service = {}
    BY MoveAssumption DEF MoveTyped, Ghosts
  <2>2. \A p \in Place : HasJournal(p) => p = root
    BY <1>1, Places DEF JournalsFit, CallFits, HasJournal, Active, BeforeRename, BackPc, MoveTyped
  <2> QED BY <1>1, <1>4, <2>1, <2>2, Places
          DEF Called, Wrote, MoveTyped, CallFits, PhaseFits, Covered, Bare, HasJournal, Active,
              BeforeRename, LatePc, BackPc
<1>18. NothingForgotten'
  BY <1>1, <1>4 DEF Called, Wrote, Covered, NothingForgotten, MoveAt
<1>19. PathsFollow'
  BY Places, <1>1, <1>4 DEF Called, Wrote, SettledFollow, Follow, PathsFollow, MoveAt
<1> QED BY <1>11, <1>12, <1>13, <1>14, <1>15, <1>16, <1>17, <1>18, <1>19

LEMMA FindsMovedKeeps == MoveInv /\ FindsMoved => MoveInv'
<1> SUFFICES ASSUME MoveInv, FindsMoved PROVE MoveInv'
    OBVIOUS
<1> USE DEF MoveInv
<1>1. /\ mv.pc = "move" /\ UNCHANGED <<root, names, up, want, autostart, dflt, mgh, journals>>
      /\ root # mv.from
  BY Places DEF FindsMoved, MoveAt, unitVars, fileVars, To, MoveTyped, Calls
<1>2. Called("moved", mv.ws, mv.snap, mv.ok)
  BY CallSteps DEF Pcs, ForwardPhase, FindsMoved, MoveTyped
<1>11. MoveTyped'
  BY <1>1, <1>2 DEF Called, Wrote, MoveTyped
<1>12. JournalsFit'
  BY Places, <1>1, <1>2 DEF Called, Wrote, MoveTyped, JournalsFit, CallFits, HasJournal, Active,
     BeforeRename, LatePc, BackPc
<1>13. CallFits'
  BY Places, <1>1, <1>2 DEF Called, Wrote, MoveTyped, JournalsFit, CallFits, HasJournal, Active,
     BeforeRename, LatePc, BackPc
<1>14. PhaseFits'
  BY Places, <1>1, <1>2 DEF Called, Wrote, MoveTyped, CallFits, PhaseFits, HasJournal, Active,
     BeforeRename, LatePc, BackPc
<1>15. StillQuiet'
  BY <1>1, <1>2 DEF Called, Wrote, StillQuiet
<1>16. SettledFollow'
  BY Places, <1>1, <1>2 DEF Called, Wrote, MoveTyped, CallFits, SettledFollow, Follow, Settled,
     HasJournal, Active, BeforeRename, LatePc, BackPc
<1>17. Covered'
  BY Places, <1>1, <1>2 DEF Called, Wrote, MoveTyped, CallFits, PhaseFits, Covered, Bare,
     HasJournal, Active, BeforeRename, LatePc, BackPc
<1>18. NothingForgotten'
  BY <1>1, <1>2 DEF Called, Wrote, Covered, NothingForgotten, MoveAt
<1>19. PathsFollow'
  BY Places, <1>1, <1>2 DEF Called, Wrote, SettledFollow, Follow, PathsFollow, MoveAt
<1> QED BY <1>11, <1>12, <1>13, <1>14, <1>15, <1>16, <1>17, <1>18, <1>19

LEMMA MovePhaseBeginsKeeps == MoveInv /\ MovePhaseBegins => MoveInv'
BY FindsMovedKeeps, RequiesceStepKeeps DEF MoveInv, CallFits, MovePhaseBegins, MoveAt,
       RequiesceFirst, FindsMoved, RequiesceStep

LEMMA RenameKeeps == MoveInv /\ Rename => MoveInv'
<1> SUFFICES ASSUME MoveInv, Rename PROVE MoveInv'
    OBVIOUS
<1> USE DEF MoveInv
<1>1. /\ mv.pc = "move2" /\ root = mv.from /\ To = Other(root) /\ ~HasJournal(To)
      /\ UNCHANGED <<names, up, want, autostart, dflt, mgh>> /\ root' = To
      /\ To \in Place /\ root \in Place /\ To # root
  BY Places DEF Rename, MoveAt, unitVars, CallFits, BeforeRename, To, MoveTyped, Calls, Exists,
     HasJournal
<1>2. Called("moved", mv.ws, mv.snap, mv.ok)
  BY CallSteps DEF Pcs, ForwardPhase, Rename, MoveTyped
<1> DEFINE j == [phase |-> "move", from |-> mv.from, snap |-> mv.snap, ok |-> "none"]
<1>3. j \in Journal /\ j # NoJournal
  BY MoveAssumption DEF Journal, Phase, MoveTyped, Calls
<1>4. j.phase = "move" /\ j.from = mv.from /\ j.snap = mv.snap
  OBVIOUS
<1>5. journals' = [journals EXCEPT ![To] = j, ![mv.from] = NoJournal]
  BY DEF Rename
<1> HIDE DEF j
<1>6. /\ journals' \in [Place -> Journal \cup {NoJournal}]
      /\ journals'[To] = j /\ journals'[root] = NoJournal
  BY <1>1, <1>3, <1>5 DEF MoveTyped
<1>11. MoveTyped'
  BY <1>1, <1>2, <1>3, <1>4, <1>6 DEF Called, Wrote, MoveTyped
<1>12. JournalsFit'
  BY Places, <1>1, <1>2, <1>3, <1>4, <1>6
     DEF Called, Wrote, MoveTyped, JournalsFit, CallFits, HasJournal, Active, BeforeRename,
         LatePc, BackPc
<1>13. CallFits'
  BY Places, <1>1, <1>2, <1>3, <1>4, <1>6
     DEF Called, Wrote, MoveTyped, JournalsFit, CallFits, HasJournal, Active, BeforeRename,
         LatePc, BackPc
<1>14. PhaseFits'
  BY Places, <1>1, <1>2, <1>3, <1>4, <1>6
     DEF Called, Wrote, MoveTyped, CallFits, PhaseFits, HasJournal, Active, BeforeRename, LatePc,
         BackPc
<1>15. StillQuiet'
  BY <1>1, <1>2, <1>3, <1>4, <1>6 DEF Called, Wrote, StillQuiet
<1>16. SettledFollow'
  BY Places, <1>1, <1>2, <1>3, <1>4, <1>6
     DEF Called, Wrote, MoveTyped, CallFits, SettledFollow, Follow, Settled, HasJournal, Active,
         BeforeRename, LatePc, BackPc
<1>17. Covered'
  BY Places, <1>1, <1>2, <1>3, <1>4, <1>6
     DEF Called, Wrote, MoveTyped, CallFits, PhaseFits, Covered, Bare, HasJournal, Active,
         BeforeRename, LatePc, BackPc
<1>18. NothingForgotten'
  BY <1>1, <1>2, <1>3, <1>4, <1>6 DEF Called, Wrote, Covered, NothingForgotten, MoveAt
<1>19. PathsFollow'
  BY Places, <1>1, <1>2, <1>3, <1>4, <1>6
     DEF Called, Wrote, SettledFollow, Follow, PathsFollow, MoveAt
<1> QED BY <1>11, <1>12, <1>13, <1>14, <1>15, <1>16, <1>17, <1>18, <1>19

LEMMA RebindKeeps == MoveInv /\ Rebind => MoveInv'
<1> SUFFICES ASSUME MoveInv, Rebind PROVE MoveInv'
    OBVIOUS
<1> USE DEF MoveInv
<1>1. /\ mv.pc = "rebind" /\ mv.ws = root
      /\ UNCHANGED <<root, up, want, autostart, dflt, mgh>>
  BY DEF Rebind, MoveAt, unitVars, CallFits, LatePc
<1>2. Wrote(root, "rebind", mv.snap, "none")
  BY <1>1, Saved DEF Phase, Rebind, MoveTyped, Save
<1>3. PICK hs \in SUBSET Rebound : names' = Rewrite(mv.from, hs) /\ (GoOn("regenerate")
    => hs = Rebound)
  BY DEF GoOn, MoveAnswer, MoveTyped, Calls, Rebind
<1>4. \/ Called("regenerate", mv.ws, mv.snap, mv.ok) /\ GoOn("regenerate")
      \/ Called("answered", mv.ws, mv.snap, FALSE)
  BY CallSteps DEF Pcs, ForwardPhase, Rebind, MoveTyped
<1>5. names' \in [Holder -> Place]
  BY <1>3, Places DEF Rewrite, MoveTyped, Calls
<1>6. GoOn("regenerate") /\ mv.from # root => Follow'
  BY <1>1, <1>3, Places DEF Rewrite, Rebound, Holder, Follow, MoveTyped, Calls
<1>11. MoveTyped'
  BY <1>1, <1>2, <1>4, <1>5, <1>6 DEF Called, Wrote, MoveTyped
<1>12. JournalsFit'
  BY Places, <1>1, <1>2, <1>4, <1>5, <1>6
     DEF Called, Wrote, MoveTyped, JournalsFit, CallFits, HasJournal, Active, BeforeRename,
         LatePc, BackPc
<1>13. CallFits'
  BY Places, <1>1, <1>2, <1>4, <1>5, <1>6
     DEF Called, Wrote, MoveTyped, JournalsFit, CallFits, HasJournal, Active, BeforeRename,
         LatePc, BackPc
<1>14. PhaseFits'
  BY Places, <1>1, <1>2, <1>4, <1>5, <1>6
     DEF Called, Wrote, MoveTyped, CallFits, PhaseFits, HasJournal, Active, BeforeRename, LatePc,
         BackPc
<1>15. StillQuiet'
  BY <1>1, <1>2, <1>4, <1>5, <1>6 DEF Called, Wrote, StillQuiet
<1>16. SettledFollow'
  BY Places, <1>1, <1>2, <1>4, <1>6
     DEF Called, Wrote, MoveTyped, CallFits, SettledFollow, Settled, HasJournal, Active,
         BeforeRename, LatePc, BackPc
<1>17. Covered'
  BY Places, <1>1, <1>2, <1>4, <1>5, <1>6
     DEF Called, Wrote, MoveTyped, CallFits, PhaseFits, Covered, Bare, HasJournal, Active,
         BeforeRename, LatePc, BackPc
<1>18. NothingForgotten'
  BY <1>1, <1>2, <1>4, <1>5, <1>6 DEF Called, Wrote, Covered, NothingForgotten, MoveAt
<1>19. PathsFollow'
  BY Places, <1>1, <1>2, <1>4, <1>5, <1>6
     DEF Called, Wrote, SettledFollow, Follow, PathsFollow, MoveAt
<1> QED BY <1>11, <1>12, <1>13, <1>14, <1>15, <1>16, <1>17, <1>18, <1>19

LEMMA RegenerateKeeps == MoveInv /\ Regenerate => MoveInv'
<1> SUFFICES ASSUME MoveInv, Regenerate PROVE MoveInv'
    OBVIOUS
<1> USE DEF MoveInv
<1>1. /\ mv.pc = "regenerate" /\ mv.ws = root
      /\ UNCHANGED <<root, up, want, autostart, dflt, mgh>>
  BY DEF Regenerate, MoveAt, unitVars, CallFits, LatePc
<1>2. Wrote(root, "regenerate", mv.snap, "none")
  BY <1>1, Saved DEF Phase, Regenerate, MoveTyped, Save
<1>3. PICK failed : names' = Regenerated(root, failed)
  BY <1>1 DEF Regenerate
<1>4. Called("restore", mv.ws, mv.snap, mv.ok)
  BY CallSteps DEF Pcs, ForwardPhase, Regenerate, MoveTyped
<1>5. names' \in [Holder -> Place]
  BY <1>3 DEF Regenerated, MoveTyped
<1>6. Follow <=> Follow'
  BY <1>1, <1>3 DEF Regenerated, Holder, Follow
<1>11. MoveTyped'
  BY <1>1, <1>2, <1>4, <1>5, <1>6 DEF Called, Wrote, MoveTyped
<1>12. JournalsFit'
  BY Places, <1>1, <1>2, <1>4, <1>5, <1>6
     DEF Called, Wrote, MoveTyped, JournalsFit, CallFits, HasJournal, Active, BeforeRename,
         LatePc, BackPc
<1>13. CallFits'
  BY Places, <1>1, <1>2, <1>4, <1>5, <1>6
     DEF Called, Wrote, MoveTyped, JournalsFit, CallFits, HasJournal, Active, BeforeRename,
         LatePc, BackPc
<1>14. PhaseFits'
  BY Places, <1>1, <1>2, <1>4, <1>5, <1>6
     DEF Called, Wrote, MoveTyped, CallFits, PhaseFits, HasJournal, Active, BeforeRename, LatePc,
         BackPc
<1>15. StillQuiet'
  BY <1>1, <1>2, <1>4, <1>5, <1>6 DEF Called, Wrote, StillQuiet
<1>16. SettledFollow'
  BY Places, <1>1, <1>2, <1>4, <1>6
     DEF Called, Wrote, MoveTyped, CallFits, SettledFollow, Settled, HasJournal, Active,
         BeforeRename, LatePc, BackPc
<1>17. Covered'
  BY Places, <1>1, <1>2, <1>4, <1>5, <1>6
     DEF Called, Wrote, MoveTyped, CallFits, PhaseFits, Covered, Bare, HasJournal, Active,
         BeforeRename, LatePc, BackPc
<1>18. NothingForgotten'
  BY <1>1, <1>2, <1>4, <1>5, <1>6 DEF Called, Wrote, Covered, NothingForgotten, MoveAt
<1>19. PathsFollow'
  BY Places, <1>1, <1>2, <1>4, <1>5, <1>6
     DEF Called, Wrote, SettledFollow, Follow, PathsFollow, MoveAt
<1> QED BY <1>11, <1>12, <1>13, <1>14, <1>15, <1>16, <1>17, <1>18, <1>19

(* What is started anew runs beside what ran. *)
LEMMA Restarts ==
    ASSUME MoveTyped, want \subseteq up, mv.snap \in Snapshot,
           NEW ids \in SUBSET mv.snap.ids, NEW svcs \in SUBSET mv.snap.cp, Restarted(ids, svcs)
    PROVE  /\ up' \subseteq Unit /\ want' \subseteq Inst /\ want' \subseteq up' /\ up \subseteq up'
           /\ ids \subseteq up' /\ autostart' = autostart
  BY DEF Restarted, MoveTyped, Snapshot, Unit

LEMMA RestoreKeeps == MoveInv /\ Restore => MoveInv'
<1> SUFFICES ASSUME MoveInv, Restore PROVE MoveInv'
    OBVIOUS
<1> USE DEF MoveInv
<1>1. /\ mv.pc = "restore" /\ mv.ws = root /\ mv.snap \in Snapshot
      /\ UNCHANGED <<root, names, dflt, mgh>>
  BY DEF Restore, MoveAt, CallFits, LatePc, MoveTyped, Calls
<1>2. Wrote(root, "restore", mv.snap, "none")
  BY <1>1, Saved DEF Phase, Restore, Save, MoveTyped
<1>3. PICK ids \in SUBSET mv.snap.ids, svcs \in SUBSET mv.snap.cp :
          /\ Restarted(ids, svcs)
          /\ (GoOn("verify") /\ ids = mv.snap.ids) \/ MoveAnswer(FALSE)
  BY DEF Restore
<1>4. \/ Called("verify", mv.ws, mv.snap, mv.ok) /\ ids = mv.snap.ids
      \/ Called("answered", mv.ws, mv.snap, FALSE)
  BY <1>3, CallSteps DEF Pcs, ForwardPhase, MoveTyped
<1>5. /\ up' \subseteq Unit /\ want' \subseteq Inst /\ want' \subseteq up' /\ up \subseteq up'
      /\ ids \subseteq up' /\ autostart' = autostart
  BY <1>1, <1>3, Restarts DEF Covered
<1>11. MoveTyped'
  BY <1>1, <1>2, <1>4, <1>5 DEF Called, Wrote, MoveTyped
<1>12. JournalsFit'
  BY Places, <1>1, <1>2, <1>4, <1>5
     DEF Called, Wrote, MoveTyped, JournalsFit, CallFits, HasJournal, Active, BeforeRename,
         LatePc, BackPc
<1>13. CallFits'
  BY Places, <1>1, <1>2, <1>4, <1>5
     DEF Called, Wrote, MoveTyped, JournalsFit, CallFits, HasJournal, Active, BeforeRename,
         LatePc, BackPc
<1>14. PhaseFits'
  BY Places, <1>1, <1>2, <1>4, <1>5
     DEF Called, Wrote, MoveTyped, CallFits, PhaseFits, HasJournal, Active, BeforeRename, LatePc,
         BackPc
<1>15. StillQuiet'
  BY <1>1, <1>2, <1>4, <1>5 DEF Called, Wrote, StillQuiet
<1>16. SettledFollow'
  BY Places, <1>1, <1>2, <1>4, <1>5
     DEF Called, Wrote, MoveTyped, CallFits, SettledFollow, Follow, Settled, HasJournal, Active,
         BeforeRename, LatePc, BackPc
<1>17. Covered'
  BY Places, <1>1, <1>2, <1>4, <1>5
     DEF Called, Wrote, MoveTyped, CallFits, PhaseFits, Covered, Bare, HasJournal, Active,
         BeforeRename, LatePc, BackPc
<1>18. NothingForgotten'
  BY <1>1, <1>2, <1>4, <1>5 DEF Called, Wrote, Covered, NothingForgotten, MoveAt
<1>19. PathsFollow'
  BY Places, <1>1, <1>2, <1>4, <1>5 DEF Called, Wrote, SettledFollow, Follow, PathsFollow, MoveAt
<1> QED BY <1>11, <1>12, <1>13, <1>14, <1>15, <1>16, <1>17, <1>18, <1>19

LEMMA VerifyKeeps == MoveInv /\ Verify => MoveInv'
<1> SUFFICES ASSUME MoveInv, Verify PROVE MoveInv'
    OBVIOUS
<1> USE DEF MoveInv
<1>1. /\ mv.pc = "verify" /\ mv.ws = root
      /\ UNCHANGED <<root, names, up, want, autostart, dflt, mgh>>
  BY DEF Verify, MoveAt, unitVars, CallFits, LatePc
<1>2. PICK ok \in {LooksGood, FALSE} :
          /\ SaveOk("verify", IF ok THEN "yes" ELSE "no")
          /\ mv' = [mv EXCEPT !.pc = "finish", !.ok = ok]
  BY DEF Verify
<1>3. ok \in BOOLEAN /\ (ok => mv.from # root)
  BY <1>1, Places DEF LooksGood, To, MoveTyped, Calls
<1>4. Wrote(root, "verify", mv.snap, IF ok THEN "yes" ELSE "no")
  BY <1>1, <1>2, Saved DEF Phase, MoveTyped
<1>5. Called("finish", mv.ws, mv.snap, ok)
  BY <1>2, <1>3, CallSteps DEF Pcs, ForwardPhase, MoveTyped
<1>11. MoveTyped'
  BY <1>1, <1>3, <1>4, <1>5 DEF Called, Wrote, MoveTyped
<1>12. JournalsFit'
  BY Places, <1>1, <1>3, <1>4, <1>5
     DEF Called, Wrote, MoveTyped, JournalsFit, CallFits, HasJournal, Active, BeforeRename,
         LatePc, BackPc
<1>13. CallFits'
  BY Places, <1>1, <1>3, <1>4, <1>5
     DEF Called, Wrote, MoveTyped, JournalsFit, CallFits, HasJournal, Active, BeforeRename,
         LatePc, BackPc
<1>14. PhaseFits'
  BY Places, <1>1, <1>3, <1>4, <1>5
     DEF Called, Wrote, MoveTyped, CallFits, PhaseFits, HasJournal, Active, BeforeRename, LatePc,
         BackPc
<1>15. StillQuiet'
  BY <1>1, <1>3, <1>4, <1>5 DEF Called, Wrote, StillQuiet
<1>16. SettledFollow'
  BY Places, <1>1, <1>3, <1>4, <1>5
     DEF Called, Wrote, MoveTyped, CallFits, SettledFollow, Follow, Settled, HasJournal, Active,
         BeforeRename, LatePc, BackPc
<1>17. Covered'
  BY Places, <1>1, <1>3, <1>4, <1>5
     DEF Called, Wrote, MoveTyped, CallFits, PhaseFits, Covered, Bare, HasJournal, Active,
         BeforeRename, LatePc, BackPc
<1>18. NothingForgotten'
  BY <1>1, <1>3, <1>4, <1>5 DEF Called, Wrote, Covered, NothingForgotten, MoveAt
<1>19. PathsFollow'
  BY Places, <1>1, <1>3, <1>4, <1>5 DEF Called, Wrote, SettledFollow, Follow, PathsFollow, MoveAt
<1> QED BY <1>11, <1>12, <1>13, <1>14, <1>15, <1>16, <1>17, <1>18, <1>19

LEMMA ResumeCompleteKeeps == MoveInv /\ ResumeComplete => MoveInv'
<1> SUFFICES ASSUME MoveInv, ResumeComplete PROVE MoveInv'
    OBVIOUS
<1> USE DEF MoveInv
<1>1. /\ mv.pc = "complete" /\ mv.ws = root /\ root \in Place
      /\ UNCHANGED <<root, journals, names, up, want, autostart, dflt, mgh>>
      /\ HasJournal(root) /\ journals[root] \in Journal
  BY DEF ResumeComplete, MoveAt, unitVars, fileVars, CallFits, LatePc, Active, MoveTyped,
     HasJournal
<1> DEFINE j == journals[root]
           good == IF j.phase = "complete" THEN j.ok = "yes" \/ LooksGood ELSE TRUE
<1>2. mv' = [mv EXCEPT !.pc = "finish", !.ok = good]
  BY <1>1 DEF ResumeComplete
<1>3. good \in BOOLEAN /\ (good => mv.from # root \/ Settled(j))
  BY <1>1, Places DEF LooksGood, To, MoveTyped, Calls, PhaseFits, Settled
<1> HIDE DEF good
<1>4. Called("finish", mv.ws, mv.snap, good)
  BY <1>2, <1>3, CallSteps DEF Pcs, ForwardPhase, MoveTyped
<1>11. MoveTyped'
  BY <1>1, <1>3, <1>4 DEF Called, Wrote, MoveTyped
<1>12. JournalsFit'
  BY Places, <1>1, <1>3, <1>4 DEF Called, Wrote, MoveTyped, JournalsFit, CallFits, HasJournal,
     Active, BeforeRename, LatePc, BackPc
<1>13. CallFits'
  BY Places, <1>1, <1>3, <1>4 DEF Called, Wrote, MoveTyped, JournalsFit, CallFits, HasJournal,
     Active, BeforeRename, LatePc, BackPc
<1>14. PhaseFits'
  BY Places, <1>1, <1>3, <1>4 DEF Called, Wrote, MoveTyped, CallFits, PhaseFits, HasJournal,
     Active, BeforeRename, LatePc, BackPc
<1>15. StillQuiet'
  BY <1>1, <1>3, <1>4 DEF Called, Wrote, StillQuiet
<1>16. SettledFollow'
  BY Places, <1>1, <1>3, <1>4 DEF Called, CallFits, SettledFollow, Follow, Settled, HasJournal,
     LatePc
<1>17. Covered'
  BY Places, <1>1, <1>3, <1>4 DEF Called, Wrote, MoveTyped, CallFits, PhaseFits, Covered, Bare,
     HasJournal, Active, BeforeRename, LatePc, BackPc
<1>18. NothingForgotten'
  BY <1>1, <1>3, <1>4 DEF Called, Wrote, Covered, NothingForgotten, MoveAt
<1>19. PathsFollow'
  BY Places, <1>1, <1>3, <1>4 DEF Called, Wrote, SettledFollow, Follow, PathsFollow, MoveAt
<1> QED BY <1>11, <1>12, <1>13, <1>14, <1>15, <1>16, <1>17, <1>18, <1>19

LEMMA CompleteKeeps == MoveInv /\ Complete => MoveInv'
<1> SUFFICES ASSUME MoveInv, Complete PROVE MoveInv'
    OBVIOUS
<1> USE DEF MoveInv
<1>1. /\ mv.pc = "finish" /\ mv.ws = root /\ mv.ok \in BOOLEAN
      /\ UNCHANGED <<root, names, up, want, autostart, mgh>>
  BY DEF Complete, MoveAt, unitVars, CallFits, LatePc, MoveTyped, Calls
<1>2. Wrote(root, "complete", mv.snap, IF mv.ok THEN "yes" ELSE "no")
  BY <1>1, Saved DEF Phase, Complete, MoveTyped
<1>3. Called("answered", mv.ws, mv.snap, mv.ok) /\ dflt' \in Place
  <2>1. Called("answered", mv.ws, mv.snap, mv.ok)
    BY <1>1, CallSteps DEF Complete, MoveTyped
  <2>2. To \in Place
    BY Places DEF To, MoveTyped, Calls
  <2>3. dflt' \in Place
    BY <2>2 DEF Complete, MoveTyped
  <2> QED BY <2>1, <2>3
<1>11. MoveTyped'
  BY <1>1, <1>2, <1>3 DEF Called, Wrote, MoveTyped
<1>12. JournalsFit'
  BY Places, <1>1, <1>2, <1>3 DEF Called, Wrote, MoveTyped, JournalsFit, CallFits, HasJournal,
     Active, BeforeRename, LatePc, BackPc
<1>13. CallFits'
  BY Places, <1>1, <1>2, <1>3 DEF Called, Wrote, MoveTyped, JournalsFit, CallFits, HasJournal,
     Active, BeforeRename, LatePc, BackPc
<1>14. PhaseFits'
  BY Places, <1>1, <1>2, <1>3 DEF Called, Wrote, MoveTyped, CallFits, PhaseFits, HasJournal,
     Active, BeforeRename, LatePc, BackPc
<1>15. StillQuiet'
  BY <1>1, <1>2, <1>3 DEF Called, Wrote, StillQuiet
<1>16. SettledFollow'
  BY Places, <1>1, <1>2, <1>3 DEF Called, Wrote, MoveTyped, CallFits, SettledFollow, Follow,
     Settled, HasJournal, Active, BeforeRename, LatePc, BackPc
<1>17. Covered'
  BY Places, <1>1, <1>2, <1>3 DEF Called, Wrote, MoveTyped, CallFits, PhaseFits, Covered, Bare,
     HasJournal, Active, BeforeRename, LatePc, BackPc
<1>18. NothingForgotten'
  BY <1>1, <1>2, <1>3 DEF Called, Wrote, Covered, NothingForgotten, MoveAt
<1>19. PathsFollow'
  BY Places, <1>1, <1>2, <1>3 DEF Called, Wrote, SettledFollow, Follow, PathsFollow, MoveAt
<1> QED BY <1>11, <1>12, <1>13, <1>14, <1>15, <1>16, <1>17, <1>18, <1>19

LEMMA MoveReturnsKeeps == MoveInv /\ MoveReturns => MoveInv'
<1> SUFFICES ASSUME MoveInv, MoveReturns PROVE MoveInv'
    OBVIOUS
<1> USE DEF MoveInv
<1>1. /\ mv.pc = "answered"
      /\ UNCHANGED <<root, journals, names, up, want, autostart, dflt, mgh>>
  BY DEF MoveReturns, MoveAt, unitVars, fileVars
<1>2. Called("idle", mv.ws, mv.snap, mv.ok)
  BY CallSteps DEF Pcs, MoveReturns, MoveTyped
<1>11. MoveTyped'
  BY <1>1, <1>2 DEF Called, Wrote, MoveTyped
<1>12. JournalsFit'
  BY Places, <1>1, <1>2 DEF Called, Wrote, MoveTyped, JournalsFit, CallFits, HasJournal, Active,
     BeforeRename, LatePc, BackPc
<1>13. CallFits'
  BY Places, <1>1, <1>2 DEF Called, Wrote, MoveTyped, JournalsFit, CallFits, HasJournal, Active,
     BeforeRename, LatePc, BackPc
<1>14. PhaseFits'
  BY Places, <1>1, <1>2 DEF Called, Wrote, MoveTyped, CallFits, PhaseFits, HasJournal, Active,
     BeforeRename, LatePc, BackPc
<1>15. StillQuiet'
  BY <1>1, <1>2 DEF Called, Wrote, StillQuiet
<1>16. SettledFollow'
  BY Places, <1>1, <1>2 DEF Called, Wrote, MoveTyped, CallFits, SettledFollow, Follow, Settled,
     HasJournal, Active, BeforeRename, LatePc, BackPc
<1>17. Covered'
  BY Places, <1>1, <1>2 DEF Called, Wrote, MoveTyped, CallFits, PhaseFits, Covered, Bare,
     HasJournal, Active, BeforeRename, LatePc, BackPc
<1>18. NothingForgotten'
  BY <1>1, <1>2 DEF Called, Wrote, Covered, NothingForgotten, MoveAt
<1>19. PathsFollow'
  BY Places, <1>1, <1>2 DEF Called, Wrote, SettledFollow, Follow, PathsFollow, MoveAt
<1> QED BY <1>11, <1>12, <1>13, <1>14, <1>15, <1>16, <1>17, <1>18, <1>19

LEMMA RenameBackKeeps == MoveInv /\ RenameBack => MoveInv'
<1> SUFFICES ASSUME MoveInv, RenameBack PROVE MoveInv'
    OBVIOUS
<1> USE DEF MoveInv
<1>1. /\ mv.pc = "renameBack" /\ root = To /\ To # mv.from /\ mv.from = Other(root)
      /\ UNCHANGED <<names, up, want, autostart, dflt, mgh>> /\ root' = mv.from
      /\ To \in Place /\ mv.from \in Place /\ ~HasJournal(mv.from) /\ HasJournal(To)
      /\ mgh.stale /\ mv.mode = "rollback"
  BY Places DEF RenameBack, MoveAt, unitVars, CallFits, BackPc, Active, To, MoveTyped, Calls,
     HasJournal
<1>2. Called("rebindBack", mv.from, mv.snap, mv.ok)
  BY <1>1, CallSteps DEF Pcs, BackPc, RenameBack, MoveTyped
<1>3. /\ journals' \in [Place -> Journal \cup {NoJournal}]
      /\ journals'[mv.from] = journals[To] /\ journals'[To] = NoJournal
  BY <1>1 DEF RenameBack, MoveTyped
<1>11. MoveTyped'
  BY <1>1, <1>2, <1>3 DEF Called, Wrote, MoveTyped
<1>12. JournalsFit'
  BY Places, <1>1, <1>2, <1>3 DEF Called, Wrote, MoveTyped, JournalsFit, CallFits, HasJournal,
     Active, BeforeRename, LatePc, BackPc
<1>13. CallFits'
  BY Places, <1>1, <1>2, <1>3 DEF Called, Wrote, MoveTyped, JournalsFit, CallFits, HasJournal,
     Active, BeforeRename, LatePc, BackPc
<1>14. PhaseFits'
  BY Places, <1>1, <1>2, <1>3 DEF Called, Wrote, MoveTyped, CallFits, PhaseFits, HasJournal,
     Active, BeforeRename, LatePc, BackPc
<1>15. StillQuiet'
  BY <1>1, <1>2, <1>3 DEF Called, Wrote, StillQuiet
<1>16. SettledFollow'
  BY Places, <1>1, <1>2, <1>3 DEF Called, Wrote, MoveTyped, CallFits, SettledFollow, Follow,
     Settled, HasJournal, Active, BeforeRename, LatePc, BackPc
<1>17. Covered'
  BY Places, <1>1, <1>2, <1>3 DEF Called, Wrote, MoveTyped, CallFits, PhaseFits, Covered, Bare,
     HasJournal, Active, BeforeRename, LatePc, BackPc
<1>18. NothingForgotten'
  BY <1>1, <1>2, <1>3 DEF Called, Wrote, Covered, NothingForgotten, MoveAt
<1>19. PathsFollow'
  BY Places, <1>1, <1>2, <1>3 DEF Called, Wrote, SettledFollow, Follow, PathsFollow, MoveAt
<1> QED BY <1>11, <1>12, <1>13, <1>14, <1>15, <1>16, <1>17, <1>18, <1>19

LEMMA RebindBackKeeps == MoveInv /\ RebindBack => MoveInv'
<1> SUFFICES ASSUME MoveInv, RebindBack PROVE MoveInv'
    OBVIOUS
<1> USE DEF MoveInv
<1>1. /\ mv.pc = "rebindBack" /\ mv.ws = root /\ root = mv.from /\ To = Other(root)
      /\ UNCHANGED <<root, journals, up, want, autostart, dflt>>
      /\ mgh.stale /\ mv.mode = "rollback"
  BY Places DEF RebindBack, MoveAt, unitVars, CallFits, BackPc, To
<1>2. Called("restoreBack", mv.ws, mv.snap, mv.ok)
  BY CallSteps DEF Pcs, BackPc, RebindBack, MoveTyped
<1>3. PICK hs \in SUBSET Rebound :
          /\ names' = [h \in Holder |-> IF h \in Rebound THEN Rewrite(To, hs)[h]
                                        ELSE Regenerated(mv.ws, {})[h]]
          /\ \/ hs = Rebound /\ mgh' = mgh
             \/ mgh' = [mgh EXCEPT !.halfBack = TRUE]
  BY DEF RebindBack
<1>4. names' \in [Holder -> Place]
  BY <1>1, <1>3, Places DEF Rewrite, Regenerated, MoveTyped
<1>5. /\ mgh' \in Ghosts /\ mgh'.ran = mgh.ran /\ mgh'.stale = mgh.stale
      /\ ~mgh'.halfBack => hs = Rebound /\ ~mgh.halfBack
  BY <1>3 DEF MoveTyped, Ghosts
<1>6. hs = Rebound => Follow'
  BY <1>1, <1>3, Places DEF Rewrite, Rebound, Holder, Follow, MoveTyped
<1>11. MoveTyped'
  BY <1>1, <1>2, <1>4, <1>5, <1>6 DEF Called, Wrote, MoveTyped
<1>12. JournalsFit'
  BY Places, <1>1, <1>2, <1>4, <1>5, <1>6
     DEF Called, Wrote, MoveTyped, JournalsFit, CallFits, HasJournal, Active, BeforeRename,
         LatePc, BackPc
<1>13. CallFits'
  BY Places, <1>1, <1>2, <1>4, <1>5, <1>6
     DEF Called, Wrote, MoveTyped, JournalsFit, CallFits, HasJournal, Active, BeforeRename,
         LatePc, BackPc
<1>14. PhaseFits'
  BY Places, <1>1, <1>2, <1>4, <1>5, <1>6
     DEF Called, Wrote, MoveTyped, CallFits, PhaseFits, HasJournal, Active, BeforeRename, LatePc,
         BackPc
<1>15. StillQuiet'
  BY <1>1, <1>2, <1>4, <1>5, <1>6 DEF Called, Wrote, StillQuiet
<1>16. SettledFollow'
  BY Places, <1>1, <1>2, <1>5, <1>6
     DEF Called, Wrote, MoveTyped, CallFits, SettledFollow, Settled, HasJournal, Active,
         BeforeRename, LatePc, BackPc
<1>17. Covered'
  BY Places, <1>1, <1>2, <1>4, <1>5, <1>6
     DEF Called, Wrote, MoveTyped, CallFits, PhaseFits, Covered, Bare, HasJournal, Active,
         BeforeRename, LatePc, BackPc
<1>18. NothingForgotten'
  BY <1>1, <1>2, <1>4, <1>5, <1>6 DEF Called, Wrote, Covered, NothingForgotten, MoveAt
<1>19. PathsFollow'
  BY Places, <1>1, <1>2, <1>4, <1>5, <1>6
     DEF Called, Wrote, SettledFollow, Follow, PathsFollow, MoveAt
<1> QED BY <1>11, <1>12, <1>13, <1>14, <1>15, <1>16, <1>17, <1>18, <1>19

LEMMA RestoreBackKeeps == MoveInv /\ RestoreBack => MoveInv'
<1> SUFFICES ASSUME MoveInv, RestoreBack PROVE MoveInv'
    OBVIOUS
<1> USE DEF MoveInv
<1>1. /\ mv.pc = "restoreBack" /\ mv.ws = root /\ root = mv.from /\ mv.snap \in Snapshot
      /\ UNCHANGED <<root, names, mgh>>
      /\ mgh.stale /\ mv.mode = "rollback" /\ To \in Place /\ To = Other(root)
  BY Places DEF RestoreBack, MoveAt, unitVars, CallFits, BackPc, To, MoveTyped, Calls
<1>2. PICK ids \in SUBSET mv.snap.ids : Restarted(ids, mv.snap.cp)
  BY DEF RestoreBack
<1>3. /\ up' \subseteq Unit /\ want' \subseteq Inst /\ want' \subseteq up' /\ up \subseteq up'
      /\ autostart' = autostart
  BY <1>1, <1>2, Restarts DEF Covered
<1>4. \/ Called("answered", mv.ws, mv.snap, FALSE) /\ UNCHANGED <<journals, dflt>>
      \/ /\ Called("answered", mv.ws, mv.snap, TRUE) /\ dflt' \in Place
         /\ journals' = [journals EXCEPT ![root] = [phase |-> "rollback", from |-> To,
                                                    snap |-> mv.snap, ok |-> "none"]]
  BY <1>1, CallSteps DEF RestoreBack, MoveTyped, Calls
<1> DEFINE j == [phase |-> "rollback", from |-> To, snap |-> mv.snap, ok |-> "none"]
<1>5. j \in Journal /\ j # NoJournal
  BY <1>1, MoveAssumption DEF Journal
<1>6. j.phase = "rollback" /\ j.from = To /\ j.snap = mv.snap
  OBVIOUS
<1> HIDE DEF j
<1>7. \/ Called("answered", mv.ws, mv.snap, FALSE) /\ UNCHANGED <<journals, dflt>>
      \/ /\ Called("answered", mv.ws, mv.snap, TRUE) /\ dflt' \in Place
         /\ journals' \in [Place -> Journal \cup {NoJournal}] /\ journals'[root] = j
         /\ journals'[To] = journals[To]
  <2>1. To # root /\ root \in Place
    BY <1>1, Places DEF MoveTyped
  <2>2. ASSUME journals' = [journals EXCEPT ![root] = j]
        PROVE  /\ journals' \in [Place -> Journal \cup {NoJournal}] /\ journals'[root] = j
               /\ journals'[To] = journals[To]
    BY <1>1, <1>5, <2>1, <2>2 DEF MoveTyped
  <2> QED BY <1>4, <2>2 DEF j
<1>11. MoveTyped'
  BY <1>1, <1>3, <1>5, <1>6, <1>7 DEF Called, Wrote, MoveTyped
<1>12. JournalsFit'
  BY Places, <1>1, <1>3, <1>5, <1>6, <1>7
     DEF Called, Wrote, MoveTyped, JournalsFit, CallFits, HasJournal, Active, BeforeRename,
         LatePc, BackPc
<1>13. CallFits'
  BY Places, <1>1, <1>3, <1>5, <1>6, <1>7
     DEF Called, Wrote, MoveTyped, JournalsFit, CallFits, HasJournal, Active, BeforeRename,
         LatePc, BackPc
<1>14. PhaseFits'
  BY Places, <1>1, <1>3, <1>5, <1>6, <1>7
     DEF Called, Wrote, MoveTyped, CallFits, PhaseFits, HasJournal, Active, BeforeRename, LatePc,
         BackPc
<1>15. StillQuiet'
  BY <1>1, <1>3, <1>5, <1>6, <1>7 DEF Called, Wrote, StillQuiet
<1>16. SettledFollow'
  BY Places, <1>1, <1>3, <1>5, <1>6, <1>7
     DEF Called, Wrote, MoveTyped, CallFits, SettledFollow, Follow, Settled, HasJournal, Active,
         BeforeRename, LatePc, BackPc
<1>17. Covered'
  BY Places, <1>1, <1>3, <1>5, <1>6, <1>7
     DEF Called, Wrote, MoveTyped, CallFits, PhaseFits, Covered, Bare, HasJournal, Active,
         BeforeRename, LatePc, BackPc
<1>18. NothingForgotten'
  BY <1>1, <1>3, <1>5, <1>6, <1>7 DEF Called, Wrote, Covered, NothingForgotten, MoveAt
<1>19. PathsFollow'
  BY Places, <1>1, <1>3, <1>5, <1>6, <1>7
     DEF Called, Wrote, SettledFollow, Follow, PathsFollow, MoveAt
<1> QED BY <1>11, <1>12, <1>13, <1>14, <1>15, <1>16, <1>17, <1>18, <1>19

LEMMA MoveFailsKeeps == MoveInv /\ MoveFails => MoveInv'
<1> SUFFICES ASSUME MoveInv, MoveFails PROVE MoveInv'
    OBVIOUS
<1> USE DEF MoveInv
<1>1. /\ UNCHANGED <<root, names, up, want, autostart, dflt, mgh>>
      /\ mv.pc \in ForwardPhase /\ Active /\ To = Other(mv.from)
      /\ root \in Place /\ mv.from \in Place /\ mv.ws \in Place /\ mv.snap \in Snapshot
  BY DEF MoveFails, unitVars, Active, ForwardPhase, To, MoveTyped, Calls
<1>2. PICK ws \in {mv.ws} \cup (IF mv.pc = "moved" THEN {To} ELSE {}) :
          journals' = [journals EXCEPT ![ws] = [phase |-> PhaseOfPc, from |-> mv.from,
                                                snap |-> mv.snap, ok |-> "none"]]
  BY DEF MoveFails
<1>3. /\ mv.pc \in {"move2", "moved"} => PhaseOfPc = "move"
      /\ mv.pc \in {"complete", "finish"} =>
            PhaseOfPc = (IF journals[mv.ws].phase = "rollback" THEN "rollback" ELSE "complete")
      /\ mv.pc \notin {"move2", "moved", "complete", "finish"} => PhaseOfPc = mv.pc
  BY DEF PhaseOfPc
<1>4. /\ PhaseOfPc \in (Phase \ {"preflight"}) \cup {"rollback"}
      /\ PhaseOfPc = "rollback" => /\ mv.pc \in {"complete", "finish"}
                                   /\ journals[mv.ws].phase = "rollback"
      /\ PhaseOfPc \in {"regenerate", "restore", "verify", "complete"}
            => mv.pc \in {PhaseOfPc, "finish"}
      /\ PhaseOfPc \in {"backup", "quiesce"} => mv.pc = PhaseOfPc
      /\ mv.pc \in {"move", "moved"} => PhaseOfPc = "move"
  BY <1>1, <1>3 DEF ForwardPhase, Phase
<1>5. ws \in Place
  BY <1>1, <1>2, Places
<1>6. Wrote(ws, PhaseOfPc, mv.snap, "none")
  BY <1>1, <1>2, <1>4, <1>5, JournalWrites DEF MoveTyped
<1>7. Called("answered", mv.ws, mv.snap, FALSE)
  BY CallSteps DEF MoveFails, MoveTyped
(* It writes where the tree is, or tells the renaming at the old path.      *)
<1>8. /\ HasJournal(root) /\ journals[root].from = mv.from
      /\ \/ ws = root
         \/ ws = Other(root) /\ mv.pc \in {"move", "moved"} /\ mv.from = ws
      /\ mv.pc \in LatePc => ws = root /\ ws = mv.ws
      /\ root # mv.from => mv.pc \notin {"backup", "quiesce", "move2"}
      /\ root = mv.from => mv.pc # "moved"
  BY <1>1, Places, <1>2 DEF ForwardPhase, LatePc, CallFits, BeforeRename, JournalsFit, HasJournal
<1>9. HasJournal(root)' /\ journals'[root].from = mv.from /\ mv'.pc = "answered" /\ mv'.ok = FALSE
  BY <1>1, <1>6, <1>7, <1>8 DEF Wrote, Called, HasJournal
<1>10. \/ /\ journals'[root].phase = journals[root].phase /\ journals'[root].snap = journals[root].snap
          /\ journals'[root].ok = journals[root].ok
       \/ /\ journals'[root].phase = PhaseOfPc /\ journals'[root].snap = mv.snap
          /\ journals'[root].ok = "none" /\ ws = root
  BY <1>1, <1>6, <1>8 DEF Wrote
<1>11. MoveTyped'
  BY <1>1, <1>4, <1>6, <1>7, <1>8, <1>9 DEF Called, Wrote, MoveTyped
<1>12. JournalsFit'
  BY Places, <1>1, <1>4, <1>6, <1>7, <1>8, <1>9
     DEF Called, Wrote, MoveTyped, JournalsFit, CallFits, HasJournal, Active, BeforeRename,
         LatePc, BackPc
<1>13. CallFits'
  BY Places, <1>1, <1>4, <1>6, <1>7, <1>8, <1>9
     DEF Called, Wrote, MoveTyped, JournalsFit, CallFits, HasJournal, Active, BeforeRename,
         LatePc, BackPc
<1>14. PhaseFits'
  BY Places, <1>1, <1>4, <1>6, <1>7, <1>8, <1>9
     DEF Called, Wrote, MoveTyped, CallFits, PhaseFits, HasJournal, Active, BeforeRename, LatePc,
         BackPc
<1>15. StillQuiet'
  BY <1>1, <1>4, <1>6, <1>7, <1>8, <1>9 DEF Called, Wrote, StillQuiet
<1>16. SettledFollow'
  BY <1>1, <1>4, <1>8, <1>9, <1>10 DEF SettledFollow, Settled, HasJournal, LatePc, ForwardPhase,
         Follow
<1>17. Covered'
  BY <1>6, <1>1, <1>4, <1>8, <1>10, <1>9 DEF Wrote, HasJournal, Covered, LatePc, Bare, Active
<1>18. NothingForgotten'
  BY <1>1, <1>4, <1>6, <1>7, <1>8, <1>9 DEF Called, Wrote, Covered, NothingForgotten, MoveAt
<1>19. PathsFollow'
  BY Places, <1>1, <1>4, <1>6, <1>7, <1>8, <1>9
     DEF Called, Wrote, SettledFollow, Follow, PathsFollow, MoveAt
<1> QED BY <1>11, <1>12, <1>13, <1>14, <1>15, <1>16, <1>17, <1>18, <1>19

LEMMA MoveCrashKeeps == MoveInv /\ MoveCrash => MoveInv'
<1> SUFFICES ASSUME MoveInv, MoveCrash PROVE MoveInv'
    OBVIOUS
<1> USE DEF MoveInv
<1>1. /\ UNCHANGED <<root, journals, dflt>> /\ Active
      /\ mgh' = [mgh EXCEPT !.halfBack = @ \/ mv.pc = "rebindBack"]
  BY DEF MoveCrash, Active
<1>2. Called("idle", mv.ws, mv.snap, mv.ok)
  BY CallSteps DEF Pcs, MoveCrash, MoveTyped
<1>3. /\ mgh' \in Ghosts /\ mgh'.ran = mgh.ran /\ mgh'.stale = mgh.stale
      /\ ~mgh'.halfBack => ~mgh.halfBack /\ mv.pc # "rebindBack"
  BY <1>1 DEF MoveTyped, Ghosts
<1>4. \/ up \subseteq up'
      \/ /\ up \subseteq up' \cup mv.snap.ids \cup Service
         /\ mv.pc = "quiesceBack" \/ BeforeRename
  BY Places DEF unitVars, To, MoveTyped, Calls, BeforeRename, StopUnits, Stopped, Restarted,
         MoveCrash
<1>5. up' \subseteq Unit /\ want' \subseteq Inst /\ want' \subseteq up' /\ autostart' = autostart
  BY Restarts DEF unitVars, MoveTyped, Covered, StopUnits, Calls, MoveCrash
<1>6. \/ names' = names
      \/ mv.pc = "rebind" /\ \E hs \in SUBSET Rebound : names' = Rewrite(mv.from, hs)
  BY DEF MoveCrash
<1>7. names' \in [Holder -> Place] /\ (names' = names \/ mv.pc = "rebind")
  BY <1>6, Places DEF Rewrite, MoveTyped, Calls
<1>8. mv.pc = "rebind" => ~Settled(journals[root])
  BY DEF PhaseFits, Settled
<1>9. \A p \in Place : BeforeRename /\ HasJournal(p) => p = root /\ journals[p].snap = mv.snap
  BY Places DEF JournalsFit, CallFits, BeforeRename, HasJournal, Active, MoveTyped
<1>10. mv.pc = "quiesceBack" => mgh.stale
  BY DEF CallFits, BackPc
<1>11. MoveTyped'
  BY <1>1, <1>2, <1>3, <1>5, <1>7 DEF Called, Wrote, MoveTyped
<1>12. JournalsFit'
  BY Places, <1>1, <1>2, <1>3, <1>5, <1>7
     DEF Called, Wrote, MoveTyped, JournalsFit, CallFits, HasJournal, Active, BeforeRename,
         LatePc, BackPc
<1>13. CallFits'
  BY Places, <1>1, <1>2, <1>3, <1>5, <1>7
     DEF Called, Wrote, MoveTyped, JournalsFit, CallFits, HasJournal, Active, BeforeRename,
         LatePc, BackPc
<1>14. PhaseFits'
  BY Places, <1>1, <1>2, <1>3, <1>5, <1>7
     DEF Called, Wrote, MoveTyped, CallFits, PhaseFits, HasJournal, Active, BeforeRename, LatePc,
         BackPc
<1>15. StillQuiet'
  BY <1>1, <1>2, <1>3, <1>5, <1>7 DEF Called, Wrote, StillQuiet
<1>16. SettledFollow'
  BY <1>1, <1>2, <1>3, <1>7, <1>8 DEF Called, SettledFollow, Follow, Settled, HasJournal, LatePc
<1>17. Covered'
  BY MoveAssumption, <1>1, <1>4, <1>9, <1>10, <1>2, <1>3, <1>5 DEF MoveTyped, Ghosts, Covered,
         PhaseFits, Called, Active, HasJournal, Bare
<1>18. NothingForgotten'
  BY <1>1, <1>2, <1>3, <1>5, <1>7 DEF Called, Wrote, Covered, NothingForgotten, MoveAt
<1>19. PathsFollow'
  BY Places, <1>1, <1>2, <1>3, <1>5, <1>7
     DEF Called, Wrote, SettledFollow, Follow, PathsFollow, MoveAt
<1> QED BY <1>11, <1>12, <1>13, <1>14, <1>15, <1>16, <1>17, <1>18, <1>19

LEMMA StartMoveKeeps == 
    ASSUME NEW force \in BOOLEAN
    PROVE  MoveInv /\ StartMove(force) => MoveInv'
<1> SUFFICES ASSUME MoveInv, StartMove(force) PROVE MoveInv'
    OBVIOUS
<1> USE DEF MoveInv
<1> DEFINE snap == IF journals[root] = NoJournal THEN NoSnapshot ELSE journals[root].snap
           j == [phase |-> "preflight", from |-> root, ok |-> "none", snap |-> snap]
<1>1. snap \in Snapshot /\ Bare(snap) /\ root \in Place
  BY DEF MoveTyped, Snapshot, NoSnapshot, Journal, Covered, Bare, HasJournal
<1>2. ~HasJournal(Other(root)) /\ Other(root) \in Place /\ Other(root) # root
  BY <1>1, Places DEF StartMove, Exists, HasJournal
<1>3. j \in Journal /\ j # NoJournal
  BY <1>1, MoveAssumption DEF Journal, Phase
<1>4. j.phase = "preflight" /\ j.from = root /\ j.snap = snap
  OBVIOUS
<1>5. journals' = [journals EXCEPT ![root] = j] /\ BeginMove("move", root, root, "backup", snap, force)
  BY DEF StartMove
<1>6. /\ mgh' \in Ghosts /\ mgh'.ran = (up \cap Inst) \cup want
      /\ mgh'.halfBack = mgh.halfBack
  BY DEF StartMove, MoveTyped, Ghosts
<1> HIDE DEF j, snap
<1>7. "backup" \in Pcs
  BY DEF Pcs, ForwardPhase
<1>8. /\ mv.pc = "idle" /\ UNCHANGED <<root, names, up, want, autostart, dflt>>
      /\ mv' \in Calls /\ mv'.mode = "move" /\ mv'.from = root /\ mv'.ws = root
      /\ mv'.pc = "backup" /\ mv'.snap = snap /\ mv'.force = force /\ mv'.ok = FALSE
  BY <1>1, <1>5, <1>7 DEF BeginMove, Calls, unitVars
<1>9. /\ journals' \in [Place -> Journal \cup {NoJournal}] /\ journals'[root] = j
      /\ journals'[Other(root)] = NoJournal
  BY <1>1, <1>2, <1>3, <1>5 DEF MoveTyped, HasJournal
<1>11. MoveTyped'
  BY <1>1, <1>2, <1>3, <1>4, <1>6, <1>8, <1>9 DEF Called, Wrote, MoveTyped
<1>12. JournalsFit'
  BY Places, <1>1, <1>2, <1>3, <1>4, <1>6, <1>8, <1>9
     DEF Called, Wrote, MoveTyped, JournalsFit, CallFits, HasJournal, Active, BeforeRename,
         LatePc, BackPc
<1>13. CallFits'
  BY Places, <1>1, <1>2, <1>3, <1>4, <1>6, <1>8, <1>9
     DEF Called, Wrote, MoveTyped, JournalsFit, CallFits, HasJournal, Active, BeforeRename,
         LatePc, BackPc
<1>14. PhaseFits'
  BY Places, <1>1, <1>2, <1>3, <1>4, <1>6, <1>8, <1>9
     DEF Called, Wrote, MoveTyped, CallFits, PhaseFits, HasJournal, Active, BeforeRename, LatePc,
         BackPc
<1>15. StillQuiet'
  BY <1>1, <1>2, <1>3, <1>4, <1>6, <1>8, <1>9 DEF Called, Wrote, StillQuiet
<1>16. SettledFollow'
  BY Places, <1>1, <1>2, <1>3, <1>4, <1>6, <1>8, <1>9
     DEF Called, Wrote, MoveTyped, CallFits, SettledFollow, Follow, Settled, HasJournal, Active,
         BeforeRename, LatePc, BackPc
<1>17. Covered'
  BY Places, <1>1, <1>2, <1>3, <1>4, <1>6, <1>8, <1>9
     DEF Called, Wrote, MoveTyped, CallFits, PhaseFits, Covered, Bare, HasJournal, Active,
         BeforeRename, LatePc, BackPc
<1>18. NothingForgotten'
  BY <1>1, <1>2, <1>3, <1>4, <1>6, <1>8, <1>9 DEF Called, Wrote, Covered, NothingForgotten, MoveAt
<1>19. PathsFollow'
  BY Places, <1>1, <1>2, <1>3, <1>4, <1>6, <1>8, <1>9
     DEF Called, Wrote, SettledFollow, Follow, PathsFollow, MoveAt
<1> QED BY <1>11, <1>12, <1>13, <1>14, <1>15, <1>16, <1>17, <1>18, <1>19

LEMMA ResumeMoveKeeps == 
    ASSUME NEW force \in BOOLEAN
    PROVE  MoveInv /\ ResumeMove(force) => MoveInv'
<1> SUFFICES ASSUME MoveInv, ResumeMove(force) PROVE MoveInv'
    OBVIOUS
<1> USE DEF MoveInv
<1> DEFINE from == journals[root].from
           home == IF journals[from] # NoJournal THEN from ELSE Other(from)
           j    == journals[home]
           ws   == IF j.phase \in LateMovePhase /\ root = Other(from) THEN Other(from) ELSE home
           pc   == CASE j.phase = "preflight" -> "backup"
                     [] j.phase = "rollback"  -> "complete"
                     [] OTHER                 -> j.phase
<1>1. /\ HasJournal(root) /\ j # NoJournal /\ BeginMove("resume", from, ws, pc, j.snap, force)
      /\ j.phase = "preflight" => root = from
      /\ UNCHANGED <<journals, mgh>>
  BY DEF ResumeMove, ResumedFrom, HasJournal
<1>2. root \in Place /\ from \in Place /\ Other(from) \in Place /\ home \in Place /\ ws \in Place
  BY <1>1, Places DEF MoveTyped, Journal, HasJournal
<1>3. j \in Journal /\ j.snap \in Snapshot /\ j.phase \in Phase \cup {"rollback"}
  BY <1>1, <1>2 DEF MoveTyped, Journal
(* Only the journal at the old path is not that of the tree, and it can     *)
(* only tell the renaming.                                                  *)
<1>4. \/ home = root
      \/ home = Other(root) /\ from = home /\ from # root /\ j.phase = "move"
  BY <1>1, <1>2, Places DEF JournalsFit, HasJournal
<1>5. j.phase \in {"rollback", "rebind", "regenerate", "restore", "verify", "complete"}
    => ws = root
  BY <1>2, <1>4, Places
<1>6. j.phase \in {"preflight", "backup", "quiesce"} => root = from /\ ws = root /\ home = root
  BY <1>1, <1>2, <1>4, Places DEF JournalsFit, HasJournal, LateMovePhase
<1>7. j.phase = "move" => ws = home
  BY DEF LateMovePhase
<1>8. /\ pc \in Pcs /\ pc \in {"backup", "quiesce", "move"} \cup (LatePc \ {"finish"})
      /\ pc = "backup" => j.phase \in {"preflight", "backup"}
      /\ pc = "complete" => j.phase \in {"rollback", "complete"}
      /\ pc \notin {"backup", "complete"} => pc = j.phase
  BY <1>3 DEF Pcs, ForwardPhase, Phase, LatePc
<1> HIDE DEF from, home, j, ws, pc
<1>9. /\ mv.pc = "idle" /\ UNCHANGED <<root, names, up, want, autostart, dflt>>
      /\ mv' \in Calls /\ mv'.mode = "resume" /\ mv'.from = from /\ mv'.ws = ws
      /\ mv'.pc = pc /\ mv'.snap = j.snap /\ mv'.force = force /\ mv'.ok = FALSE
  BY <1>1, <1>2, <1>3, <1>8 DEF BeginMove, Calls, unitVars
<1>10. /\ HasJournal(root) /\ journals[root].from = from /\ HasJournal(home)
       /\ j = journals[home] /\ home \in Place
  BY <1>1, <1>2 DEF from, j, HasJournal
<1>11. MoveTyped'
  BY <1>1, <1>4, <1>5, <1>6, <1>7, <1>8, <1>9, <1>10 DEF Called, Wrote, MoveTyped
<1>12. JournalsFit'
  BY Places, <1>1, <1>4, <1>5, <1>6, <1>7, <1>8, <1>9, <1>10
     DEF Called, Wrote, MoveTyped, JournalsFit, CallFits, HasJournal, Active, BeforeRename,
         LatePc, BackPc
<1>13. CallFits'
  BY Places, <1>1, <1>4, <1>5, <1>6, <1>7, <1>8, <1>9, <1>10
     DEF Called, Wrote, MoveTyped, JournalsFit, CallFits, HasJournal, Active, BeforeRename,
         LatePc, BackPc
<1>14. PhaseFits'
  BY Places, <1>1, <1>4, <1>5, <1>6, <1>7, <1>8, <1>9, <1>10
     DEF Called, Wrote, MoveTyped, CallFits, PhaseFits, HasJournal, Active, BeforeRename, LatePc,
         BackPc
<1>15. StillQuiet'
  BY <1>8, <1>9 DEF StillQuiet, LatePc
<1>16. SettledFollow'
  BY Places, <1>1, <1>4, <1>5, <1>6, <1>7, <1>8, <1>9, <1>10
     DEF Called, Wrote, MoveTyped, CallFits, SettledFollow, Follow, Settled, HasJournal, Active,
         BeforeRename, LatePc, BackPc
<1>17. Covered'
  BY Places, <1>1, <1>4, <1>5, <1>6, <1>7, <1>8, <1>9, <1>10
     DEF Called, Wrote, MoveTyped, CallFits, PhaseFits, Covered, Bare, HasJournal, Active,
         BeforeRename, LatePc, BackPc
<1>18. NothingForgotten'
  BY <1>1, <1>4, <1>5, <1>6, <1>7, <1>8, <1>9, <1>10
     DEF Called, Wrote, Covered, NothingForgotten, MoveAt
<1>19. PathsFollow'
  BY Places, <1>1, <1>4, <1>5, <1>6, <1>7, <1>8, <1>9, <1>10
     DEF Called, Wrote, SettledFollow, Follow, PathsFollow, MoveAt
<1> QED BY <1>11, <1>12, <1>13, <1>14, <1>15, <1>16, <1>17, <1>18, <1>19

LEMMA StartRollbackKeeps == 
    ASSUME NEW force \in BOOLEAN
    PROVE  MoveInv /\ StartRollback(force) => MoveInv'
<1> SUFFICES ASSUME MoveInv, StartRollback(force) PROVE MoveInv'
    OBVIOUS
<1> USE DEF MoveInv
<1> DEFINE j == journals[root]
<1>1. /\ j \in Journal /\ HasJournal(root) /\ root \in Place
      /\ UNCHANGED journals /\ BeginMove("rollback", j.from, root, "quiesceBack", j.snap, force)
  BY DEF StartRollback, HasJournal, MoveTyped
<1>2. root # j.from /\ j.from = Other(root) /\ j.from \in Place /\ ~HasJournal(j.from)
  BY <1>1, Places DEF StartRollback, Journal, Exists, HasJournal
<1>3. mgh' \in Ghosts /\ mgh'.stale = TRUE /\ mgh'.halfBack = mgh.halfBack
  BY DEF StartRollback, MoveTyped, Ghosts
<1>4. /\ mv.pc = "idle" /\ UNCHANGED <<root, names, up, want, autostart, dflt>>
      /\ mv' \in Calls /\ mv'.mode = "rollback" /\ mv'.from = j.from /\ mv'.ws = root
      /\ mv'.pc = "quiesceBack" /\ mv'.snap = j.snap /\ mv'.force = force /\ mv'.ok = FALSE
  BY <1>1, <1>2 DEF Pcs, BackPc, Journal, BeginMove, Calls, unitVars
<1>11. MoveTyped'
  BY <1>1, <1>2, <1>3, <1>4 DEF Called, Wrote, MoveTyped
<1>12. JournalsFit'
  BY Places, <1>1, <1>2, <1>3, <1>4
     DEF Called, Wrote, MoveTyped, JournalsFit, CallFits, HasJournal, Active, BeforeRename,
         LatePc, BackPc
<1>13. CallFits'
  BY Places, <1>1, <1>2, <1>3, <1>4
     DEF Called, Wrote, MoveTyped, JournalsFit, CallFits, HasJournal, Active, BeforeRename,
         LatePc, BackPc
<1>14. PhaseFits'
  BY Places, <1>1, <1>2, <1>3, <1>4
     DEF Called, Wrote, MoveTyped, CallFits, PhaseFits, HasJournal, Active, BeforeRename, LatePc,
         BackPc
<1>15. StillQuiet'
  BY <1>1, <1>2, <1>3, <1>4 DEF Called, Wrote, StillQuiet
<1>16. SettledFollow'
  BY Places, <1>1, <1>2, <1>3, <1>4
     DEF Called, Wrote, MoveTyped, CallFits, SettledFollow, Follow, Settled, HasJournal, Active,
         BeforeRename, LatePc, BackPc
<1>17. Covered'
  BY Places, <1>1, <1>2, <1>3, <1>4
     DEF Called, Wrote, MoveTyped, CallFits, PhaseFits, Covered, Bare, HasJournal, Active,
         BeforeRename, LatePc, BackPc
<1>18. NothingForgotten'
  BY <1>1, <1>2, <1>3, <1>4 DEF Called, Wrote, Covered, NothingForgotten, MoveAt
<1>19. PathsFollow'
  BY Places, <1>1, <1>2, <1>3, <1>4 DEF Called, Wrote, SettledFollow, Follow, PathsFollow, MoveAt
<1> QED BY <1>11, <1>12, <1>13, <1>14, <1>15, <1>16, <1>17, <1>18, <1>19

LEMMA UnitStartsKeeps == 
    ASSUME NEW u \in Unit
    PROVE  MoveInv /\ UnitStarts(u) => MoveInv'
<1> SUFFICES ASSUME MoveInv, UnitStarts(u) PROVE MoveInv'
    OBVIOUS
<1> USE DEF MoveInv
<1>1. /\ UNCHANGED <<root, journals, names, dflt, autostart, mv>>
      /\ up' = up \cup {u} /\ want' = want \cup ({u} \cap Inst)
      /\ mgh' = IF mv.pc \in {"move", "move2", "renameBack"}
          THEN [mgh EXCEPT !.late = @ \cup {u}] ELSE mgh
  BY DEF UnitStarts, fileVars
<1>2. /\ mgh' \in Ghosts /\ mgh'.ran = mgh.ran /\ mgh'.stale = mgh.stale
      /\ mgh'.halfBack = mgh.halfBack
      /\ mv.pc \in {"move", "move2", "renameBack"} => mgh'.late = mgh.late \cup {u}
  BY <1>1 DEF MoveTyped, Ghosts
<1>3. up' \subseteq Unit /\ want' \subseteq Inst /\ want' \subseteq up' /\ up \subseteq up'
  BY <1>1 DEF MoveTyped, Covered
<1>4. up' = up \cup {u}
  BY <1>1
<1>11. MoveTyped'
  BY <1>1, <1>2, <1>3 DEF Called, Wrote, MoveTyped
<1>12. JournalsFit'
  BY Places, <1>1, <1>2, <1>3 DEF Called, Wrote, MoveTyped, JournalsFit, CallFits, HasJournal,
     Active, BeforeRename, LatePc, BackPc
<1>13. CallFits'
  BY Places, <1>1, <1>2, <1>3 DEF Called, Wrote, MoveTyped, JournalsFit, CallFits, HasJournal,
     Active, BeforeRename, LatePc, BackPc
<1>14. PhaseFits'
  BY Places, <1>1, <1>2, <1>3 DEF Called, Wrote, MoveTyped, CallFits, PhaseFits, HasJournal,
     Active, BeforeRename, LatePc, BackPc
<1>15. StillQuiet'
  BY <1>1, <1>2, <1>3 DEF Called, Wrote, StillQuiet
<1>16. SettledFollow'
  BY Places, <1>1, <1>2, <1>3 DEF Called, Wrote, MoveTyped, CallFits, SettledFollow, Follow,
     Settled, HasJournal, Active, BeforeRename, LatePc, BackPc
<1>17. Covered'
  BY Places, <1>1, <1>2, <1>3 DEF Called, Wrote, MoveTyped, CallFits, PhaseFits, Covered, Bare,
     HasJournal, Active, BeforeRename, LatePc, BackPc
<1>18. NothingForgotten'
  BY <1>1, <1>2, <1>3 DEF Called, Wrote, Covered, NothingForgotten, MoveAt
<1>19. PathsFollow'
  BY Places, <1>1, <1>2, <1>3 DEF Called, Wrote, SettledFollow, Follow, PathsFollow, MoveAt
<1> QED BY <1>11, <1>12, <1>13, <1>14, <1>15, <1>16, <1>17, <1>18, <1>19

LEMMA MoveBegins == MoveInit => MoveInv
<1> SUFFICES ASSUME MoveInit PROVE MoveInv
    OBVIOUS
<1>1. /\ mv = [mode |-> "move", from |-> "a", ws |-> "a", pc |-> "idle", snap |-> NoSnapshot,
               force |-> FALSE, ok |-> FALSE]
      /\ mgh = [ran |-> {}, late |-> {}, stale |-> FALSE, halfBack |-> FALSE]
  BY DEF MoveInit
<1>2. mv \in Calls /\ mv.pc = "idle" /\ mv.ok = FALSE
  BY <1>1, Places DEF Pcs, NoSnapshot, Snapshot, Calls
<1>3. mgh \in Ghosts
  BY <1>1 DEF Ghosts
<1>4. \A p \in Place : journals[p] = NoJournal
  BY DEF MoveInit
<1>5. root \in Place /\ Other(root) \in Place /\ dflt \in Place
  BY Places DEF MoveInit
<1>6. up \subseteq Unit /\ want \subseteq Inst /\ want \subseteq up
  BY DEF MoveInit, Unit
<1>7. MoveTyped
  BY <1>2, <1>3, <1>5, <1>6 DEF MoveInit, MoveTyped
<1>8. JournalsFit /\ CallFits /\ PhaseFits /\ StillQuiet
  BY <1>2, <1>4, <1>5
     DEF JournalsFit, CallFits, PhaseFits, StillQuiet, HasJournal, Active, BeforeRename, LatePc, BackPc
<1>9. SettledFollow /\ Covered /\ NothingForgotten /\ PathsFollow
  BY <1>2, <1>4, <1>5, <1>6
     DEF SettledFollow, Covered, NothingForgotten, PathsFollow, HasJournal, Active, MoveAt, LatePc
<1> QED BY <1>7, <1>8, <1>9 DEF MoveInv

LEMMA MoveStepKeeps == MoveInv /\ MoveStep => MoveInv'
  BY BackupKeeps, QuiescePhaseKeeps, MovePhaseBeginsKeeps, RenameKeeps, AfterRenameKeeps,
     RebindKeeps, RegenerateKeeps, RestoreKeeps, VerifyKeeps, ResumeCompleteKeeps, CompleteKeeps,
     QuiesceBackKeeps, RenameBackKeeps, RebindBackKeeps, RestoreBackKeeps, MoveReturnsKeeps
     DEF MoveStep

LEMMA MoveNextKeeps == MoveInv /\ [MoveNext]_moveVars => MoveInv'
<1> SUFFICES ASSUME MoveInv, [MoveNext]_moveVars PROVE MoveInv'
    OBVIOUS
<1>1. CASE \E force \in BOOLEAN : StartMove(force) \/ ResumeMove(force) \/ StartRollback(force)
  BY <1>1, StartMoveKeeps, ResumeMoveKeeps, StartRollbackKeeps
<1>2. CASE MoveStep \/ MoveFails \/ MoveCrash
  BY <1>2, MoveStepKeeps, MoveFailsKeeps, MoveCrashKeeps
<1>3. CASE \E u \in Unit : UnitStarts(u)
  BY <1>3, UnitStartsKeeps
<1>4. CASE UNCHANGED moveVars
  BY <1>4 DEF moveVars, MoveInv, MoveTyped, JournalsFit, CallFits, PhaseFits, StillQuiet,
     SettledFollow, Covered, NothingForgotten, PathsFollow, HasJournal, Active, BeforeRename,
     Settled, Follow, MoveAt
<1> QED BY <1>1, <1>2, <1>3, <1>4 DEF MoveNext

(* The invariant behind the three promises of a move: a journal that says   *)
(* where the tree came from tells the truth, a second journal at the old    *)
(* path only tells the renaming, what is stopped is in the snapshot that    *)
(* will be restored, and a journal that says "done" is of a tree whose      *)
(* paths follow (write_journal, --resume, --rollback).                      *)
(* The invariant holds of every move, resumption and rollback.              *)
THEOREM MoveInvariant == MoveSpec => []MoveInv
<1>1. MoveInit => MoveInv
  BY MoveBegins
<1>2. MoveInv /\ [MoveNext]_moveVars => MoveInv'
  BY MoveNextKeeps
<1> QED BY <1>1, <1>2, PTL DEF MoveSpec

(* Only the two renames move the tree, each when nothing runs in it but     *)
(* what was started since.                                                  *)
LEMMA RenamesQuietly ==
    MoveInv /\ [MoveNext]_moveVars => (root' # root => mv.force \/ up \subseteq mgh.late)
<1> SUFFICES ASSUME MoveInv, [MoveNext]_moveVars, root' # root
             PROVE  mv.force \/ up \subseteq mgh.late
    OBVIOUS
<1>1. Rename \/ RenameBack
  BY DEF MoveNext, MoveStep, moveVars, fileVars, unitVars, StartMove, ResumeMove, StartRollback,
     BeginMove, Backup, QuiescePhase, QuiesceTo, MovePhaseBegins, AfterRename, Rebind, Regenerate,
     Restore, Verify, ResumeComplete, Complete, QuiesceBack, RebindBack, RestoreBack, MoveReturns,
     MoveFails, MoveCrash, UnitStarts
<1> QED BY <1>1 DEF Rename, RenameBack, MoveAt, MoveInv, StillQuiet

(* Through any failures, crashes, resumptions and rollbacks the tree is not *)
(* renamed under what runs in it, a move that answers ok has started again  *)
(* what ran, and the paths name where the tree is (run_migrate).            *)
THEOREM MoveStaysSafe == MoveSpec => MoveIsSafe
<1>1. MoveInv => MoveTypeOK /\ NothingForgotten /\ PathsFollow
  BY DEF Pcs, BackPc, MoveInv, MoveTyped, MoveTypeOK, Calls, Ghosts
<1>2. MoveInv /\ [MoveNext]_moveVars
         => [root' # root => mv.force \/ up \subseteq mgh.late]_moveVars
  BY RenamesQuietly
<1> QED BY <1>1, <1>2, MoveInvariant, PTL DEF MoveSpec, MoveIsSafe, MovesQuiet

(***************************************************************************)
(* The pruning of redundant copies.                                        *)
(***************************************************************************)

(* What the variables range over.                                           *)
Copied  == [row : BOOLEAN, born : Nat, zip : Zip \cup {NoZip}, man : BOOLEAN, live : BOOLEAN,
            keep : BOOLEAN, own : BOOLEAN]
Prunings == [pc : {"idle", "next", "look", "remove", "tree"}, todo : SUBSET PruneInst,
             keeper : [PruneInst -> PruneInst], on : SUBSET PruneInst,
             purge : BOOLEAN, loss : BOOLEAN]

PruneTyped ==
    /\ pinst \in [PruneInst -> Copied] /\ prune \in [Pruner -> Prunings]
    /\ chance \in BOOLEAN /\ spentPrune \in Nat

(* A pruning holds the lock of the one instance it is at. *)
OneLock ==
    /\ \A p \in Pruner : IF prune[p].pc \in {"idle", "next"} THEN prune[p].on = {}
                         ELSE \E i \in PruneInst : prune[p].on = {i}
    /\ \A p, q \in Pruner : p # q => prune[p].on \cap prune[q].on = {}
    /\ \A p \in Pruner : prune[p].pc = "idle" => prune[p].todo = {}

(* Registered copies are of different ages, and none is of the future. *)
AgesDiffer ==
    /\ \A i \in PruneInst : pinst[i].born <= Cardinality(PruneInst) + spentPrune
    /\ \A i, j \in PruneInst : i # j /\ pinst[i].row /\ pinst[j].row
        => pinst[i].born # pinst[j].born

(* The keeper a pruning noted is an older copy while both are there. *)
KeeperOlder ==
    ~chance => \A p \in Pruner, i \in PruneInst :
        /\ i \in prune[p].todo \cup prune[p].on
        /\ pinst[i].man /\ pinst[prune[p].keeper[i]].row
        => pinst[prune[p].keeper[i]].born < pinst[i].born

(* While a pruning is about to remove a copy an older one is registered.    *)
OlderStays ==
    ~chance => \A p \in Pruner, i \in PruneInst :
        prune[p].pc = "remove" /\ i \in prune[p].on =>
            \E j \in PruneInst : pinst[j].row /\ pinst[j].zip = pinst[i].zip
                                 /\ pinst[j].born < pinst[i].born

(* What is about to be removed rests, and its tree goes after its row.      *)
GoesAtRest ==
    \A p \in Pruner, i \in PruneInst :
        /\ prune[p].pc = "remove" /\ i \in prune[p].on
              => ~pinst[i].live /\ ~pinst[i].keep /\ (prune[p].loss \/ ~pinst[i].own)
        /\ prune[p].pc = "tree" /\ i \in prune[p].on => ~pinst[i].row

PruneInv == PruneTyped /\ OneLock /\ AgesDiffer /\ KeeperOlder /\ OlderStays /\ GoesAtRest

(* A pruning that is over, and a copy that is gone.                         *)
LEMMA DullIs ==
    /\ Dull \in Prunings /\ Dull.pc = "idle" /\ Dull.on = {} /\ Dull.todo = {}
  BY DEF Dull, Prunings

LEMMA GoneIs ==
    /\ GoneInst \in Copied /\ ~GoneInst.row /\ ~GoneInst.man /\ GoneInst.born = 0
  BY DEF GoneInst, Copied

(* The earliest of a group is one of it, and older than a redundant one.    *)
LEMMA EarliestIsOlder ==
    ASSUME PruneTyped, AgesDiffer, NEW i \in PruneInst, IsRedundant(i)
    PROVE  /\ Earliest(Group(i)) \in IsListed /\ pinst[Earliest(Group(i))].zip = pinst[i].zip
           /\ pinst[Earliest(Group(i))].born < pinst[i].born
BY LeastOf DEF IsRedundant, Group, IsListed, PruneTyped, Copied, Earliest, AgesDiffer

(* At first every copy is there and no pruning is under way.                *)
LEMMA PruneBegins == RedundantInit => PruneInv
<1> SUFFICES ASSUME RedundantInit PROVE PruneInv
    OBVIOUS
<1>1. PICK z \in Zip : pinst = [i \in PruneInst |->
            [GoneInst EXCEPT !.row = TRUE, !.man = TRUE, !.zip = z, !.born = i]]
  BY DEF RedundantInit
<1>2. \A i \in PruneInst : i \in Nat /\ i <= Cardinality(PruneInst)
  BY RedundantAssumption
<1>3. \A i \in PruneInst : pinst[i] \in Copied /\ pinst[i].born = i
  BY <1>1, <1>2 DEF GoneInst, Copied
<1>4. pinst \in [PruneInst -> Copied]
  BY <1>1, <1>3
<1>5. /\ \A p \in Pruner : prune[p] = Dull
      /\ prune \in [Pruner -> Prunings] /\ chance = FALSE /\ spentPrune = 0
  BY DullIs DEF RedundantInit
<1>6. AgesDiffer
  BY <1>2, <1>3, <1>5, RedundantAssumption DEF AgesDiffer
<1>7. OneLock /\ KeeperOlder /\ OlderStays /\ GoesAtRest
  BY <1>5, DullIs DEF OneLock, KeeperOlder, OlderStays, GoesAtRest
<1> QED BY <1>4, <1>5, <1>6, <1>7 DEF PruneInv, PruneTyped

(* What a step of a pruning makes of it.                                    *)
Goes(p, pc, todo, on) ==
    /\ prune' \in [Pruner -> Prunings]
    /\ prune'[p].pc = pc /\ prune'[p].todo = todo /\ prune'[p].on = on
    /\ prune'[p].loss = prune[p].loss
    /\ \A i \in todo \cup on : prune'[p].keeper[i] = prune[p].keeper[i]
    /\ \A q \in Pruner \ {p} : prune'[q] = prune[q]

(* A skip, and a change of place.                                           *)
LEMMA SkipsGo ==
    ASSUME PruneTyped, NEW p \in Pruner, prune' = Skips(p)
    PROVE  Goes(p, "next", prune[p].todo, {})
<1> DEFINE k == [i \in PruneInst |-> IF i \in prune[p].todo THEN prune[p].keeper[i] ELSE i]
           r == [prune[p] EXCEPT !.pc = "next", !.on = {}, !.keeper = k]
<1>1. k \in [PruneInst -> PruneInst] /\ \A i \in prune[p].todo : k[i] = prune[p].keeper[i]
  BY DEF PruneTyped, Prunings
<1>2. r \in Prunings /\ r.pc = "next" /\ r.on = {} /\ r.todo = prune[p].todo /\ r.keeper = k
      /\ r.loss = prune[p].loss
  <2> HIDE DEF k
  <2> QED BY <1>1 DEF PruneTyped, Prunings
<1>3. prune' = [prune EXCEPT ![p] = r]
  BY DEF Skips, PruneTyped
<1> HIDE DEF k, r
<1> QED BY <1>1, <1>2, <1>3 DEF Goes, PruneTyped

LEMMA PlaceGoes ==
    ASSUME PruneTyped, NEW p \in Pruner, NEW pc \in {"next", "look", "remove", "tree"},
           NEW todo \in SUBSET PruneInst, NEW on \in SUBSET PruneInst,
           prune' = [prune EXCEPT ![p].pc = pc, ![p].on = on, ![p].todo = todo]
    PROVE  Goes(p, pc, todo, on)
<1> DEFINE r == [prune[p] EXCEPT !.pc = pc, !.on = on, !.todo = todo]
<1>1. r \in Prunings /\ r.pc = pc /\ r.on = on /\ r.todo = todo /\ r.keeper = prune[p].keeper
      /\ r.loss = prune[p].loss
  BY DEF PruneTyped, Prunings
<1>2. prune' \in [Pruner -> Prunings] /\ prune'[p] = r /\ \A q \in Pruner \ {p} : prune'[q] = prune[q]
  BY <1>1 DEF PruneTyped
<1> HIDE DEF r
<1> QED BY <1>1, <1>2 DEF Goes

(* The copy of a locked instance is touched by nobody else.                 *)
LEMMA FreeIsNobodys ==
    ASSUME PruneTyped, OneLock, NEW i \in PruneInst, LockFree(i)
    PROVE  \A p \in Pruner : i \notin prune[p].on
  BY DEF OneLock, LockFree, Handles

LEMMA PruneKeeps ==
    ASSUME PruneInv, NEW p \in Pruner, Prune(p)
    PROVE  PruneInv'
BY EarliestIsOlder DEF PruneInv, Prune, IsListed, PruneCalm, Prunings, PruneTyped, AgesDiffer,
       OneLock, OlderStays, GoesAtRest, KeeperOlder

(* A step that changes no copy and takes at most a lock that is free.       *)
LEMMA GoingKeeps ==
    ASSUME PruneInv, NEW p \in Pruner, NEW pc, NEW todo, NEW on, Goes(p, pc, todo, on),
           UNCHANGED <<pinst, chance, spentPrune>>,
           todo \subseteq prune[p].todo, on \subseteq prune[p].todo \cup prune[p].on,
           pc # "idle",
           IF pc = "next" THEN on = {} ELSE \E i \in PruneInst : on = {i},
           \A q \in Pruner \ {p} : on \cap prune[q].on = {},
           pc = "remove" => \A i \in on :
               /\ ~pinst[i].live /\ ~pinst[i].keep /\ (prune[p].loss \/ ~pinst[i].own)
               /\ ~chance => \E j \in PruneInst : pinst[j].row /\ pinst[j].zip = pinst[i].zip
                                 /\ pinst[j].born < pinst[i].born,
           pc # "tree"
    PROVE  PruneInv'
BY DEF PruneInv, Goes, PruneTyped, AgesDiffer, OneLock, KeeperOlder, OlderStays, GoesAtRest

LEMMA DullKeeps ==
    ASSUME PruneInv, NEW p \in Pruner, prune' = [prune EXCEPT ![p] = Dull],
           UNCHANGED <<pinst, chance>>, spentPrune' \in {spentPrune, spentPrune + 1}
    PROVE  PruneInv'
BY DullIs, RedundantAssumption DEF PruneInv, PruneTyped, AgesDiffer, Copied, OneLock, OlderStays,
       GoesAtRest, KeeperOlder

LEMMA TakeTargetKeeps ==
    ASSUME PruneInv, NEW p \in Pruner, TakeTarget(p)
    PROVE  PruneInv'
<1> USE DEF PruneInv
<1>1. prune[p].pc = "next" /\ prune[p].on = {} /\ prune[p] \in Prunings
      /\ UNCHANGED <<pinst, chance, spentPrune>>
  BY DEF TakeTarget, PruneCalm, OneLock, PruneTyped
<1>2. CASE prune' = [prune EXCEPT ![p] = Dull]
  BY <1>1, <1>2, DullKeeps
<1>3. ASSUME NEW i \in prune[p].todo, LockFree(i),
             prune' = [prune EXCEPT ![p].pc = "look", ![p].on = {i}, ![p].todo = @ \ {i}]
      PROVE  PruneInv'
  <2>1. i \in PruneInst /\ prune[p].todo \subseteq PruneInst
    BY <1>1 DEF Prunings
  <2>2. Goes(p, "look", prune[p].todo \ {i}, {i})
    BY <1>3, <2>1, PlaceGoes
  <2>3. \A q \in Pruner \ {p} : {i} \cap prune[q].on = {}
    BY <1>3, <2>1, FreeIsNobodys
  <2> QED BY <1>1, <1>3, <2>1, <2>2, <2>3, GoingKeeps
<1> QED BY <1>2, <1>3 DEF TakeTarget

LEMMA GivesUpTargetKeeps ==
    ASSUME PruneInv, NEW p \in Pruner, GivesUpTarget(p)
    PROVE  PruneInv'
<1> USE DEF PruneInv
<1>1. prune[p].pc = "next" /\ prune[p].on = {} /\ prune[p] \in Prunings
      /\ UNCHANGED <<pinst, chance, spentPrune>>
  BY DEF GivesUpTarget, PruneCalm, OneLock, PruneTyped
<1>2. PICK i \in prune[p].todo : prune' = [prune EXCEPT ![p].todo = @ \ {i}]
  BY DEF GivesUpTarget
<1> DEFINE todo == prune[p].todo \ {i}
           r == [prune[p] EXCEPT !.todo = todo]
<1>3. todo \in SUBSET PruneInst /\ todo \subseteq prune[p].todo
  BY <1>1 DEF Prunings
<1>4. prune' = [prune EXCEPT ![p] = r]
  BY <1>2
<1> HIDE DEF todo
<1>5. r \in Prunings /\ r.pc = "next" /\ r.on = {} /\ r.todo = todo
      /\ r.keeper = prune[p].keeper /\ r.loss = prune[p].loss
  BY <1>1, <1>3 DEF Prunings
<1> HIDE DEF r
<1>6. Goes(p, "next", todo, {})
  BY <1>4, <1>5 DEF Goes, PruneTyped
<1> QED BY <1>1, <1>3, <1>6, GoingKeeps

LEMMA LookAgainKeeps ==
    ASSUME PruneInv, NEW p \in Pruner, LookAgain(p)
    PROVE  PruneInv'
<1> USE DEF PruneInv
<1>1. prune[p].pc = "look" /\ prune[p] \in Prunings /\ UNCHANGED <<pinst, chance, spentPrune>>
  BY DEF LookAgain, PruneCalm, PruneTyped
<1>2. PICK i \in prune[p].on, guarded \in BOOLEAN :
         prune' = IF MayRemove(p, i) /\ ~(prune[p].purge /\ guarded)
                  THEN [prune EXCEPT ![p].pc = "remove"] ELSE Skips(p)
  BY DEF LookAgain
<1>3. i \in PruneInst /\ prune[p].on = {i} /\ \A q \in Pruner \ {p} : {i} \cap prune[q].on = {}
  BY <1>1, <1>2 DEF OneLock, Prunings
<1>4. CASE prune' = Skips(p)
  BY <1>4, SkipsGo, <1>1, GoingKeeps
<1>5. CASE MayRemove(p, i) /\ prune' = [prune EXCEPT ![p].pc = "remove"]
  <2>1. Goes(p, "remove", prune[p].todo, {i})
    BY <1>1, <1>3, <1>5 DEF Prunings, Goes, PruneTyped
  <2>2. /\ ~pinst[i].live /\ ~pinst[i].keep /\ (prune[p].loss \/ ~pinst[i].own) /\ pinst[i].man
        /\ StillRedundant(i, prune[p].keeper[i])
    BY <1>5 DEF MayRemove, StateReasons, LosesConfig
  <2>3. prune[p].keeper[i] \in PruneInst
    BY <1>1, <1>3 DEF Prunings
  <2>4. ~chance => \E j \in PruneInst : pinst[j].row /\ pinst[j].zip = pinst[i].zip
                                 /\ pinst[j].born < pinst[i].born
    BY <1>3, <2>2, <2>3, EarliestIsOlder DEF KeeperOlder, IsListed, StillRedundant
  <2> QED BY <1>1, <1>3, <2>1, <2>2, <2>4, GoingKeeps
<1> QED BY <1>2, <1>4, <1>5

(* What a step makes of one copy.                                           *)
Becoming(i, row, born, zip, man) ==
    /\ pinst' \in [PruneInst -> Copied]
    /\ pinst'[i].row = row /\ pinst'[i].born = born /\ pinst'[i].zip = zip /\ pinst'[i].man = man
    /\ \A j \in PruneInst \ {i} : pinst'[j] = pinst[j]

LEMMA CopyBecomes ==
    ASSUME PruneTyped, NEW i \in PruneInst, NEW c \in Copied, pinst' = [pinst EXCEPT ![i] = c]
    PROVE  Becoming(i, c.row, c.born, c.zip, c.man) /\ pinst'[i] = c
  BY DEF PruneTyped, Becoming

(* A copy loses its row, or what is left of one that had none.              *)
LEMMA LosingKeeps ==
    ASSUME PruneInv, NEW p \in Pruner, NEW i \in PruneInst, prune[p].on = {i},
           NEW pc, Goes(p, pc, prune[p].todo, IF pc = "tree" THEN {i} ELSE {}),
           pc \in {"next", "tree"},
           NEW born \in {0, pinst[i].born}, NEW zip, NEW man \in BOOLEAN, man => pinst[i].man,
           Becoming(i, FALSE, born, zip, man),
           born # pinst[i].born => ~man,
           prune[p].pc = "remove" \/ ~pinst[i].row,
           UNCHANGED chance, spentPrune' \in {spentPrune, spentPrune + 1}
    PROVE  PruneInv'
<1> USE DEF PruneInv, Goes, Becoming
<1>1. \A q \in Pruner \ {p} : i \notin prune[q].on
  BY DEF OneLock
<1>2. PruneTyped'
  BY DEF PruneTyped
<1>3. AgesDiffer'
  <2>1. \A j \in PruneInst : pinst'[j].born <= Cardinality(PruneInst) + spentPrune'
    <3>1. \A j \in PruneInst : pinst'[j].born = pinst[j].born \/ pinst'[j].born = 0
      OBVIOUS
    <3>2. \A j \in PruneInst : pinst[j].born <= Cardinality(PruneInst) + spentPrune
      BY DEF AgesDiffer
    <3>3. \A j \in PruneInst : pinst[j].born \in Nat
      BY DEF PruneTyped, Copied
    <3>4. Cardinality(PruneInst) \in Nat /\ spentPrune \in Nat
      BY RedundantAssumption DEF PruneTyped
    <3> QED BY <3>1, <3>2, <3>3, <3>4
  <2> QED BY <2>1 DEF AgesDiffer
<1>4. OneLock'
  BY <1>1 DEF OneLock
<1>5. KeeperOlder'
  <2> SUFFICES ASSUME ~chance, NEW q \in Pruner, NEW k \in PruneInst,
                      k \in prune'[q].todo \cup prune'[q].on,
                      pinst'[k].man, pinst'[prune'[q].keeper[k]].row
               PROVE  pinst'[prune'[q].keeper[k]].born < pinst'[k].born
    BY DEF KeeperOlder
  <2>1. k \in prune[q].todo \cup prune[q].on /\ prune'[q].keeper[k] = prune[q].keeper[k]
    OBVIOUS
  <2>2. prune[q].keeper[k] \in PruneInst
    BY DEF PruneTyped, Prunings
  <2>3. prune[q].keeper[k] # i /\ pinst[prune[q].keeper[k]].row
    BY <2>1, <2>2
  <2>4. pinst[k].man /\ pinst'[k].born = pinst[k].born
    OBVIOUS
  <2> QED BY <2>1, <2>2, <2>3, <2>4 DEF KeeperOlder
<1>6. OlderStays'
  BY <1>1 DEF OlderStays, PruneTyped, Copied
<1>7. GoesAtRest'
  BY <1>1 DEF GoesAtRest
<1> QED BY <1>2, <1>3, <1>4, <1>5, <1>6, <1>7

LEMMA DropRowKeeps ==
    ASSUME PruneInv, NEW p \in Pruner, DropRow(p)
    PROVE  PruneInv'
<1> USE DEF PruneInv
<1>1. prune[p].pc = "remove" /\ prune[p] \in Prunings /\ UNCHANGED <<chance, spentPrune>>
  BY DEF DropRow, PruneCalm, PruneTyped
<1>2. PICK i \in prune[p].on : pinst' = [pinst EXCEPT ![i].row = FALSE]
  BY DEF DropRow
<1>3. i \in PruneInst /\ prune[p].on = {i}
  BY <1>1, <1>2 DEF OneLock, Prunings
<1> DEFINE c == [pinst[i] EXCEPT !.row = FALSE]
<1>4. c \in Copied /\ ~c.row /\ c.row = FALSE /\ c.born = pinst[i].born /\ c.man = pinst[i].man
      /\ c.man \in BOOLEAN
  BY <1>3 DEF PruneTyped, Copied
<1>5. pinst' = [pinst EXCEPT ![i] = c]
  BY <1>2
<1> HIDE DEF c
<1>6. Becoming(i, FALSE, pinst[i].born, c.zip, c.man)
  BY <1>3, <1>4, <1>5, CopyBecomes
<1>7. CASE prune' = [prune EXCEPT ![p].pc = "tree"]
  <2> DEFINE r == [prune[p] EXCEPT !.pc = "tree"]
  <2>1. r \in Prunings /\ r.pc = "tree" /\ r.on = {i} /\ r.todo = prune[p].todo
        /\ r.keeper = prune[p].keeper /\ r.loss = prune[p].loss
    BY <1>1, <1>3 DEF Prunings
  <2>2. prune' = [prune EXCEPT ![p] = r]
    BY <1>7
  <2> HIDE DEF r
  <2>3. Goes(p, "tree", prune[p].todo, {i})
    BY <2>1, <2>2 DEF Goes, PruneTyped
  <2> QED BY <1>1, <1>3, <1>4, <1>6, <2>3, LosingKeeps
<1>8. CASE prune' = Skips(p)
  BY <1>8, SkipsGo, <1>1, <1>3, <1>4, <1>6, LosingKeeps
<1> QED BY <1>7, <1>8 DEF DropRow

LEMMA DropTreeKeeps ==
    ASSUME PruneInv, NEW p \in Pruner, DropTree(p)
    PROVE  PruneInv'
<1> USE DEF PruneInv
<1>1. prune[p].pc = "tree" /\ prune[p] \in Prunings /\ UNCHANGED <<chance, spentPrune>>
  BY DEF DropTree, PruneCalm, PruneTyped
<1>2. PICK i \in prune[p].on : pinst' = [pinst EXCEPT ![i] = GoneInst]
  BY DEF DropTree
<1>3. i \in PruneInst /\ prune[p].on = {i} /\ ~pinst[i].row
  BY <1>1, <1>2 DEF OneLock, Prunings, GoesAtRest
<1>4. GoneInst.row = FALSE /\ GoneInst.man = FALSE
  BY DEF GoneInst
<1>5. Becoming(i, FALSE, 0, GoneInst.zip, FALSE)
  BY <1>2, <1>3, <1>4, GoneIs, CopyBecomes
<1>6. Goes(p, "next", prune[p].todo, {})
  BY SkipsGo DEF DropTree
<1> QED BY <1>1, <1>3, <1>5, <1>6, LosingKeeps

LEMMA TreeFailsKeeps ==
    ASSUME PruneInv, NEW p \in Pruner, TreeFails(p)
    PROVE  PruneInv'
<1> USE DEF PruneInv
<1>1. prune[p].pc = "tree" /\ prune[p] \in Prunings /\ UNCHANGED chance
      /\ spentPrune' = spentPrune + 1
  BY DEF TreeFails, Turn, PruneTyped
<1>2. PICK i \in prune[p].on, z \in BOOLEAN, m \in BOOLEAN :
         pinst' = [pinst EXCEPT ![i].zip = IF z THEN @ ELSE NoZip, ![i].man = m /\ @]
  BY DEF TreeFails
<1>3. i \in PruneInst /\ prune[p].on = {i} /\ ~pinst[i].row /\ pinst[i] \in Copied
  BY <1>1, <1>2 DEF OneLock, Prunings, GoesAtRest, PruneTyped
<1> DEFINE zip == IF z THEN pinst[i].zip ELSE NoZip
           man == m /\ pinst[i].man
           c == [pinst[i] EXCEPT !.zip = zip, !.man = man]
<1>4. zip \in Zip \cup {NoZip} /\ man \in BOOLEAN /\ (man => pinst[i].man)
  BY <1>3 DEF Copied
<1>5. pinst' = [pinst EXCEPT ![i] = c]
  BY <1>2
<1> HIDE DEF zip, man
<1>6. c \in Copied /\ c.row = FALSE /\ c.born = pinst[i].born /\ c.man = man
  BY <1>3, <1>4 DEF Copied
<1> HIDE DEF c
<1>7. Becoming(i, FALSE, pinst[i].born, c.zip, man)
  BY <1>3, <1>5, <1>6, CopyBecomes
<1>8. Goes(p, "next", prune[p].todo, {})
  BY SkipsGo DEF TreeFails
<1> QED BY <1>1, <1>3, <1>4, <1>7, <1>8, LosingKeeps

LEMMA PruneStepKeeps ==
    ASSUME PruneInv, NEW p \in Pruner, PruneStep(p)
    PROVE  PruneInv'
BY DullKeeps, PruneKeeps, TakeTargetKeeps, GivesUpTargetKeeps, LookAgainKeeps, DropRowKeeps,
   DropTreeKeeps, TreeFailsKeeps DEF PruneDies, Turn, PruneStep

(* A copy nobody locks changes: it does not come back, and if it stops      *)
(* being what the others of its zip rely on, nobody is about to remove one. *)
LEMMA ChangingKeeps ==
    ASSUME PruneInv, NEW i \in PruneInst, \A p \in Pruner : i \notin prune[p].on,
           NEW row \in BOOLEAN, NEW born \in {0, pinst[i].born}, NEW zip, NEW man \in BOOLEAN,
           Becoming(i, row, born, zip, man),
           row => pinst[i].row, man => pinst[i].man, born # pinst[i].born => ~man /\ ~row,
           UNCHANGED prune, spentPrune' = spentPrune + 1, chance' \in BOOLEAN,
           chance => chance',
           (row # pinst[i].row \/ zip # pinst[i].zip) => chance' \/ ~Crossing
    PROVE  PruneInv'
<1> USE DEF PruneInv, Becoming
<1>1. PruneTyped'
  BY DEF PruneTyped
<1>2. \A j \in PruneInst : pinst[j].born \in Nat
  BY DEF PruneTyped, Copied
<1>3. AgesDiffer'
  BY RedundantAssumption, <1>2 DEF AgesDiffer, PruneTyped
<1>4. OneLock'
  BY DEF OneLock
<1>5. KeeperOlder'
  BY DEF KeeperOlder, PruneTyped, Prunings
<1>6. OlderStays'
  BY DEF OlderStays, Crossing
<1>7. GoesAtRest'
  BY DEF GoesAtRest
<1> QED BY <1>1, <1>3, <1>4, <1>5, <1>6, <1>7

LEMMA TouchesKeeps ==
    ASSUME PruneInv, NEW i \in PruneInst, Touches(i)
    PROVE  PruneInv'
<1> USE DEF PruneInv
<1>1. /\ LockFree(i) /\ pinst[i].row /\ UNCHANGED prune /\ spentPrune' = spentPrune + 1
      /\ pinst[i] \in Copied /\ chance \in BOOLEAN
  BY DEF Touches, Turn, PruneTyped
<1>2. \A p \in Pruner : i \notin prune[p].on
  BY <1>1, FreeIsNobodys
<1>3. ASSUME NEW z \in Zip \ {pinst[i].zip},
             pinst' = [pinst EXCEPT ![i].zip = z], chance' = (chance \/ Crossing)
      PROVE  PruneInv'
  <2> DEFINE c == [pinst[i] EXCEPT !.zip = z]
  <2>1. c \in Copied /\ c.row = pinst[i].row /\ c.born = pinst[i].born /\ c.man = pinst[i].man
        /\ c.row \in BOOLEAN /\ c.man \in BOOLEAN
    BY <1>1, <1>3 DEF Copied
  <2>2. pinst' = [pinst EXCEPT ![i] = c]
    BY <1>3
  <2> HIDE DEF c
  <2>3. Becoming(i, c.row, c.born, c.zip, c.man)
    BY <2>1, <2>2, CopyBecomes
  <2>4. chance' \in BOOLEAN
    BY <1>1, <1>3 DEF Crossing
  <2>5. (chance => chance') /\ (chance' \/ ~Crossing)
    BY <1>3
  <2> QED BY <1>1, <1>2, <2>1, <2>3, <2>4, <2>5, ChangingKeeps
<1>4. ASSUME NEW c \in Copied, c.row = pinst[i].row, c.born = pinst[i].born,
             c.man = pinst[i].man, c.zip = pinst[i].zip,
             pinst' = [pinst EXCEPT ![i] = c], UNCHANGED chance
      PROVE  PruneInv'
  <2>1. Becoming(i, c.row, c.born, c.zip, c.man)
    BY <1>4, CopyBecomes
  <2>2. c.row \in BOOLEAN /\ c.man \in BOOLEAN
    BY DEF Copied
  <2> QED BY <1>1, <1>2, <1>4, <2>1, <2>2, ChangingKeeps
<1>5. CASE pinst' = [pinst EXCEPT ![i].live = ~@] /\ UNCHANGED chance
  BY <1>1, <1>5, <1>4 DEF Copied
<1>6. CASE pinst' = [pinst EXCEPT ![i].keep = ~@] /\ UNCHANGED chance
  BY <1>1, <1>6, <1>4 DEF Copied
<1>7. CASE pinst' = [pinst EXCEPT ![i].own = ~@] /\ UNCHANGED chance
  BY <1>1, <1>7, <1>4 DEF Copied
<1> QED BY <1>3, <1>5, <1>6, <1>7 DEF Touches

LEMMA RemovesKeeps ==
    ASSUME PruneInv, NEW i \in PruneInst, Removes(i)
    PROVE  PruneInv'
<1> USE DEF PruneInv
<1>1. /\ LockFree(i) /\ UNCHANGED prune /\ spentPrune' = spentPrune + 1
      /\ pinst[i] \in Copied /\ chance \in BOOLEAN /\ chance' = (chance \/ Crossing)
  BY DEF Removes, Turn, PruneTyped
<1>2. \A p \in Pruner : i \notin prune[p].on
  BY <1>1, FreeIsNobodys
<1>3. chance' \in BOOLEAN /\ (chance => chance') /\ (chance' \/ ~Crossing)
  BY <1>1 DEF Crossing
<1>4. CASE pinst' = [pinst EXCEPT ![i].row = FALSE, ![i].live = FALSE]
  <2> DEFINE c == [pinst[i] EXCEPT !.row = FALSE, !.live = FALSE]
  <2>1. c \in Copied /\ c.row = FALSE /\ c.born = pinst[i].born /\ c.man = pinst[i].man
        /\ c.man \in BOOLEAN
    BY <1>1 DEF Copied
  <2>2. pinst' = [pinst EXCEPT ![i] = c]
    BY <1>4
  <2> HIDE DEF c
  <2>3. Becoming(i, FALSE, c.born, c.zip, c.man)
    BY <2>1, <2>2, CopyBecomes
  <2> QED BY <1>1, <1>2, <1>3, <2>1, <2>3, ChangingKeeps
<1>5. CASE pinst' = [pinst EXCEPT ![i] = GoneInst]
  BY <1>5, GoneIs, CopyBecomes, <1>1, <1>2, <1>3, ChangingKeeps DEF GoneInst
<1> QED BY <1>4, <1>5 DEF Removes

LEMMA ManifestGoesKeeps ==
    ASSUME PruneInv, NEW i \in PruneInst, ManifestGoes(i)
    PROVE  PruneInv'
<1> USE DEF PruneInv
<1>1. /\ LockFree(i) /\ UNCHANGED <<prune, chance>> /\ spentPrune' = spentPrune + 1
      /\ pinst[i] \in Copied /\ chance \in BOOLEAN /\ pinst' = [pinst EXCEPT ![i].man = FALSE]
  BY DEF ManifestGoes, Turn, PruneTyped
<1>2. \A p \in Pruner : i \notin prune[p].on
  BY <1>1, FreeIsNobodys
<1> DEFINE c == [pinst[i] EXCEPT !.man = FALSE]
<1>3. c \in Copied /\ c.row = pinst[i].row /\ c.born = pinst[i].born /\ c.man = FALSE
      /\ c.zip = pinst[i].zip /\ c.row \in BOOLEAN
  BY <1>1 DEF Copied
<1>4. pinst' = [pinst EXCEPT ![i] = c]
  BY <1>1
<1> HIDE DEF c
<1>5. Becoming(i, c.row, c.born, c.zip, FALSE)
  BY <1>3, <1>4, CopyBecomes
<1> QED BY <1>1, <1>2, <1>3, <1>5, ChangingKeeps

(* A new copy is younger than every other one.                              *)
LEMMA ImportsNewKeeps ==
    ASSUME PruneInv, NEW i \in PruneInst, ImportsNew(i)
    PROVE  PruneInv'
<1> USE DEF PruneInv
<1>1. /\ LockFree(i) /\ UNCHANGED prune /\ spentPrune' = spentPrune + 1
      /\ chance \in BOOLEAN /\ chance' = (chance \/ Listing)
      /\ spentPrune \in Nat /\ Cardinality(PruneInst) \in Nat
  BY RedundantAssumption DEF ImportsNew, Turn, PruneTyped
<1>2. \A p \in Pruner : i \notin prune[p].on
  BY <1>1, FreeIsNobodys
<1> DEFINE new == Cardinality(PruneInst) + spentPrune'
<1>3. new \in Nat /\ new = Cardinality(PruneInst) + spentPrune + 1
  BY <1>1
<1>4. PICK z \in Zip, live \in BOOLEAN :
         pinst' = [pinst EXCEPT ![i] = [GoneInst EXCEPT !.row = TRUE, !.man = TRUE, !.zip = z,
                                                        !.live = live, !.born = new]]
  BY DEF ImportsNew
<1> DEFINE c ==
    [GoneInst EXCEPT !.row = TRUE, !.man = TRUE, !.zip = z, !.live = live, !.born = new]
<1> HIDE DEF new
<1>5. c \in Copied /\ c.born = new
  BY <1>3 DEF GoneInst, Copied
<1>6. pinst' = [pinst EXCEPT ![i] = c]
  BY <1>4
<1> HIDE DEF c
<1>7. pinst' \in [PruneInst -> Copied] /\ pinst'[i].born = new
      /\ \A j \in PruneInst \ {i} : pinst'[j] = pinst[j]
  BY <1>5, <1>6, CopyBecomes DEF Becoming
<1>8. chance' \in BOOLEAN /\ (chance => chance') /\ (chance' \/ ~Listing)
  BY <1>1 DEF Listing
<1>9. PruneTyped'
  BY <1>1, <1>7, <1>8 DEF PruneTyped
<1>10. \A j \in PruneInst \ {i} : pinst'[j].born \in Nat /\ pinst'[j].born < new
  BY <1>1, <1>3, <1>7 DEF PruneTyped, Copied, AgesDiffer
<1>11. AgesDiffer'
  BY <1>3, <1>7, <1>10 DEF new, AgesDiffer
<1>12. OneLock'
  BY <1>1 DEF OneLock
<1>13. ~chance' => \A p \in Pruner : prune[p].on = {} /\ prune[p].todo = {}
  BY <1>8 DEF Listing, OneLock
<1>14. KeeperOlder' /\ OlderStays'
  BY <1>1, <1>13 DEF KeeperOlder, OlderStays
<1>15. GoesAtRest'
  BY <1>1, <1>2, <1>7 DEF GoesAtRest
<1> QED BY <1>9, <1>11, <1>12, <1>14, <1>15

LEMMA RedundantNextKeeps == PruneInv /\ [RedundantNext]_pruneVars => PruneInv'
<1> SUFFICES ASSUME PruneInv, [RedundantNext]_pruneVars PROVE PruneInv'
    OBVIOUS
<1>1. CASE UNCHANGED pruneVars
  BY <1>1 DEF pruneVars, PruneInv, PruneTyped, OneLock, AgesDiffer, KeeperOlder, OlderStays,
     GoesAtRest
<1> QED BY <1>1, PruneStepKeeps, ImportsNewKeeps, TouchesKeeps, RemovesKeeps, ManifestGoesKeeps
    DEF RedundantNext

(* The invariant holds whatever prunings and users do.                      *)
THEOREM PruneInvariant == RedundantSpec => []PruneInv
  BY PruneBegins, RedundantNextKeeps, PTL DEF RedundantSpec

(* However many prunings run while users work, the last registered copy of  *)
(* a zip stays and only copies that rest go (remove_redundant).             *)
THEOREM PruningStaysSafe == RedundantSpec => PruningIsSafe
<1>1. PruneInv => RedundantTypeOK
  <2> SUFFICES ASSUME PruneInv PROVE RedundantTypeOK
      OBVIOUS
  <2>1. \A i \in PruneInst : pinst[i].zip \in Zip \cup {NoZip} /\ pinst[i].born \in Nat
    BY DEF PruneInv, PruneTyped, Copied
  <2>2. ASSUME NEW p \in Pruner PROVE Cardinality(prune[p].on) <= 1
    <3>1. prune[p].on # {} => \E i \in PruneInst : prune[p].on = {i}
      BY DEF PruneInv, OneLock
    <3>2. CASE prune[p].on = {}
      BY <3>2, FS_EmptySet
    <3>3. CASE prune[p].on # {}
      <4>1. PICK i \in PruneInst : prune[p].on = {i}
        BY <3>1, <3>3
      <4>2. Cardinality({i}) = 1
        BY FS_Singleton
      <4> QED BY <4>1, <4>2
    <3> QED BY <3>2, <3>3
  <2> QED BY <2>1, <2>2 DEF RedundantTypeOK, PruneInv, OneLock
<1>2. PruneInv => \A p \in Pruner, i \in PruneInst :
          prune[p].pc = "remove" /\ Handles(p, i) /\ ~pinst'[i].row /\ ~chance
            => \E j \in IsListed \ {i} : pinst[j].zip = pinst[i].zip
  BY DEF PruneInv, OlderStays, Handles, PruneTyped, Copied, IsListed
<1>3. PruneInv => \A p \in Pruner, i \in PruneInst :
          prune[p].pc = "remove" /\ Handles(p, i) /\ ~pinst'[i].row
            => ~pinst[i].live /\ ~pinst[i].keep /\ (prune[p].loss \/ ~pinst[i].own)
  BY DEF PruneInv, GoesAtRest, Handles
<1> QED BY <1>1, <1>2, <1>3, PruneInvariant, PTL DEF PruningIsSafe, LastCopyStays, OnlyRestingGo

(***************************************************************************)
(* The pages of a log.                                                     *)
(***************************************************************************)

(* What the variables range over.                                           *)
Turned == (0 .. KeepLogs - 1) \cup {NoTurn}
Logs   == [cur : SUBSET Nat, last : Nat, rot : [Writer -> Turned],
           old : [1..KeepLogs -> SUBSET Nat]]
Pagers == [on : BOOLEAN, done : BOOLEAN, wish : Category \cup {"any"}, skip : Nat,
           got : SUBSET (Category \X Nat), first : Nat, turned : BOOLEAN]

PagesTyped ==
    /\ logs \in [Category -> Logs] /\ newest \in Category /\ pager \in Pagers
    /\ turns \in 0..MaxTurnover
    /\ \A c \in Category : logs[c].last <= MaxAppend

(* The current file is a run of lines that ends with the last one.          *)
CurIsRun == \A c \in Category :
    \E lo \in 1..(logs[c].last + 1) : logs[c].cur = lo..logs[c].last

(* One process rotates, and the file it is to write to next is free.        *)
OneRotates ==
    \A c \in Category :
        /\ \A w, v \in Writer : logs[c].rot[w] # NoTurn /\ logs[c].rot[v] # NoTurn => w = v
        /\ \A w \in Writer : logs[c].rot[w] # NoTurn => logs[c].old[logs[c].rot[w] + 1] = {}

(* A file is older than those before it, line by line.                      *)
FilesInOrder ==
    \A c \in Category, i \in 1..KeepLogs : \A y \in logs[c].old[i] :
        /\ y <= logs[c].last
        /\ \A x \in logs[c].cur : y < x
        /\ \A j \in 1..KeepLogs : i < j => \A z \in logs[c].old[j] : z < y

(* What a reader has passed it has, and it has not passed the beginning.    *)
ReaderInRun ==
    /\ pager.on \/ pager.done \/ (pager.skip = 0 /\ pager.got = {} /\ pager.first = 0)
    /\ pager.on => ~pager.done
    /\ pager.wish # "any" =>
        /\ pager.first <= logs[pager.wish].last
        /\ pager.on /\ ~pager.turned =>
            /\ pager.skip = 0 \/ logs[pager.wish].last - pager.skip + 1 \in logs[pager.wish].cur
            /\ \A x \in logs[pager.wish].cur :
                  logs[pager.wish].last - pager.skip < x /\ x <= pager.first
                    => <<pager.wish, x>> \in pager.got

PagesInv == PagesTyped /\ CurIsRun /\ OneRotates /\ FilesInOrder /\ OldestGoFirst
            /\ ReaderInRun /\ NothingLeftOut

(* The number of lines of a run.                                            *)
LEMMA RunLength ==
    \A p, q \in Int : Cardinality(p..q) = IF p > q THEN 0 ELSE q - p + 1
  BY FS_Interval

(* The last and the first lines of a run.                                   *)
LEMMA LastOfRun ==
    ASSUME NEW lo \in Int, NEW hi \in Int, NEW n \in Int
    PROVE  LastLines(lo..hi, n) = {x \in lo..hi : hi - x < n}
<1>1. ASSUME NEW x \in lo..hi PROVE Cardinality({y \in lo..hi : y > x}) = hi - x
  <2>1. {y \in lo..hi : y > x} = (x + 1)..hi
    OBVIOUS
  <2>2. x \in Int /\ x + 1 \in Int /\ x <= hi
    OBVIOUS
  <2> DEFINE a == x + 1
  <2>3. a \in Int /\ a = x + 1 /\ {y \in lo..hi : y > x} = a..hi
    BY <2>1, <2>2
  <2> HIDE DEF a
  <2>4. Cardinality(a..hi) = IF a > hi THEN 0 ELSE hi - a + 1
    BY <2>3, RunLength
  <2>5. (IF a > hi THEN 0 ELSE hi - a + 1) = hi - x
    BY <2>2, <2>3
  <2> QED BY <2>3, <2>4, <2>5
<1> QED BY <1>1 DEF LastLines

LEMMA FirstOfRun ==
    ASSUME NEW lo \in Int, NEW hi \in Int, NEW n \in Int
    PROVE  FirstLines(lo..hi, n) = {x \in lo..hi : x - lo < n}
<1>1. ASSUME NEW x \in lo..hi PROVE Cardinality({y \in lo..hi : y < x}) = x - lo
  <2>1. {y \in lo..hi : y < x} = lo..(x - 1)
    OBVIOUS
  <2>2. x \in Int /\ x - 1 \in Int /\ lo <= x
    OBVIOUS
  <2> DEFINE b == x - 1
  <2>3. b \in Int /\ b = x - 1 /\ {y \in lo..hi : y < x} = lo..b
    BY <2>1, <2>2
  <2> HIDE DEF b
  <2>4. Cardinality(lo..b) = IF lo > b THEN 0 ELSE b - lo + 1
    BY <2>3, RunLength
  <2>5. lo \in Int /\ b \in Int /\ x \in Int /\ lo <= x /\ b = x - 1
    BY <2>2, <2>3
  <2>6. (IF lo > b THEN 0 ELSE b - lo + 1) = x - lo
    BY <2>5
  <2> QED BY <2>3, <2>4, <2>6
<1> QED BY <1>1 DEF FirstLines

(* A page of a run that reaches back at least to the lines to skip.         *)
LEMMA PageOfRun ==
    ASSUME NEW c \in Category, NEW lo \in Int, NEW hi \in Int, logs[c].cur = lo..hi, lo <= hi + 1,
           NEW skip \in Nat, lo <= hi - skip + 1
    PROVE  /\ Page(c, skip) = {x \in lo..hi : hi - skip - Limit < x /\ x <= hi - skip}
           /\ More(c, skip) <=> hi - lo + 1 > skip + Limit
<1> DEFINE m == IF hi - skip - Limit > lo THEN hi - skip - Limit ELSE lo
           L == LastLines(logs[c].cur, skip + Limit + 1)
<1>1. Limit \in Nat /\ Limit >= 1 /\ m \in Int /\ m >= lo /\ m <= hi - skip + 1
  BY PagesAssumption
<1>2. m = IF hi - skip - Limit > lo THEN hi - skip - Limit ELSE lo
  OBVIOUS
<1> HIDE DEF m
<1>3. L = m..hi
  <2> DEFINE n == skip + Limit + 1
  <2>1. n \in Int /\ n = skip + Limit + 1 /\ L = LastLines(lo..hi, n)
    BY <1>1
  <2> HIDE DEF n, L
  <2>2. L = {x \in lo..hi : hi - x < n}
    BY <2>1, LastOfRun
  <2>3. \A x \in Int : (x \in lo..hi /\ hi - x < n) <=> x \in m..hi
    BY <1>1, <1>2, <2>1
  <2> QED BY <2>2, <2>3
<1>4. Cardinality(L) = hi - m + 1
  <2>1. Cardinality(m..hi) = IF m > hi THEN 0 ELSE hi - m + 1
    BY <1>1, RunLength
  <2> QED BY <1>1, <1>3, <2>1
<1>5. Older(L, skip) = m..(hi - skip)
  <2>1. Cardinality(L) - skip >= 0 /\ Cardinality(L) - skip = hi - m + 1 - skip
    BY <1>1, <1>4
  <2>2. Older(L, skip) = FirstLines(m..hi, hi - m + 1 - skip)
    BY <1>3, <2>1 DEF Older
  <2> DEFINE n == hi - m + 1 - skip
  <2>3. n \in Int /\ Older(L, skip) = FirstLines(m..hi, n) /\ n = hi - m + 1 - skip
    BY <1>1, <2>2
  <2> HIDE DEF n, L
  <2>4. Older(L, skip) = {x \in m..hi : x - m < n}
    BY <1>1, <2>3, FirstOfRun
  <2>5. \A x \in Int : (x \in m..hi /\ x - m < n) <=> x \in m..(hi - skip)
    BY <1>1, <2>3
  <2> QED BY <2>4, <2>5
<1>6. Page(c, skip) = {x \in m..(hi - skip) : hi - skip - x < Limit}
  <2>1. hi - skip \in Int
    OBVIOUS
  <2> QED BY <1>1, <1>5, <2>1, LastOfRun DEF Page
<1>7. Page(c, skip) = {x \in lo..hi : hi - skip - Limit < x /\ x <= hi - skip}
  BY <1>1, <1>2, <1>6
<1>8. More(c, skip) <=> hi - m + 1 > skip + Limit
  BY <1>4 DEF More
<1> QED BY <1>1, <1>2, <1>7, <1>8


(* What a step makes of one log.                                            *)
Makes(c, cur, last, rot, old) ==
    /\ logs' \in [Category -> Logs]
    /\ logs'[c].cur = cur /\ logs'[c].last = last /\ logs'[c].rot = rot /\ logs'[c].old = old
    /\ \A d \in Category \ {c} : logs'[d] = logs[d]

LEMMA LogBecomes ==
    ASSUME PagesTyped, NEW c \in Category, NEW g \in Logs, logs' = [logs EXCEPT ![c] = g]
    PROVE  Makes(c, g.cur, g.last, g.rot, g.old)
  BY DEF PagesTyped, Makes

(* The positions of a rotation.                                             *)
LEMMA TurnIs ==
    /\ KeepLogs \in Nat /\ KeepLogs >= 1 /\ NoTurn = KeepLogs + 1 /\ NoTurn \in Turned
    /\ \A i \in 0 .. KeepLogs - 1 : i \in Turned /\ i # NoTurn
    /\ \A i \in Turned : i # NoTurn => i \in 0 .. KeepLogs - 1
  BY PagesAssumption DEF Turned, NoTurn

LEMMA PagesBegin == PagesInit => PagesInv
<1> SUFFICES ASSUME PagesInit PROVE PagesInv
    OBVIOUS
<1>1. /\ newest \in Category /\ turns = 0
      /\ pager = [on |-> FALSE, done |-> FALSE, wish |-> "any", skip |-> 0, got |-> {},
                  first |-> 0, turned |-> FALSE]
      /\ logs \in [Category -> Logs]
      /\ \A c \in Category : /\ logs[c].cur = {1} /\ logs[c].last = 1
                             /\ \A w \in Writer : logs[c].rot[w] = NoTurn
                             /\ \A i \in 1..KeepLogs : logs[c].old[i] = {}
  BY TurnIs DEF PagesInit, Logs
<1>2. MaxAppend \in Nat /\ MaxAppend >= 1 /\ MaxTurnover \in Nat
  BY PagesAssumption
<1>3. PagesTyped
  BY <1>1, <1>2 DEF PagesTyped, Pagers
<1>4. CurIsRun
  <2>1. 1 \in 1..(1 + 1) /\ {1} = 1..1
    OBVIOUS
  <2> QED BY <1>1, <2>1 DEF CurIsRun
<1>5. OneRotates /\ FilesInOrder
  BY <1>1 DEF OneRotates, FilesInOrder
<1>6. OldestGoFirst
  BY <1>1 DEF Kept, OldestGoFirst
<1>7. ReaderInRun /\ NothingLeftOut
  BY <1>1 DEF ReaderInRun, NothingLeftOut
<1> QED BY <1>3, <1>4, <1>5, <1>6, <1>7 DEF PagesInv

LEMMA AppendsKeeps ==
    ASSUME PagesInv, NEW c \in Category, Appends(c)
    PROVE  PagesInv'
<1> USE DEF PagesInv
<1> DEFINE cur == logs[c].cur \cup {logs[c].last + 1}
           last == logs[c].last + 1
           g == [logs[c] EXCEPT !.cur = cur, !.last = last]
<1>1. /\ logs[c] \in Logs /\ logs[c].last \in Nat /\ logs[c].cur \subseteq Nat
      /\ logs[c].last < MaxAppend /\ MaxAppend \in Nat
      /\ newest' = c /\ UNCHANGED <<pager, turns>>
  BY PagesAssumption DEF Appends, PagesTyped, Logs
<1>2. g \in Logs /\ g.cur = cur /\ g.last = last /\ g.rot = logs[c].rot /\ g.old = logs[c].old
  <2>1. cur \in SUBSET Nat /\ last \in Nat
    BY <1>1
  <2> HIDE DEF cur, last
  <2> QED BY <1>1, <2>1 DEF Logs
<1>3. logs' = [logs EXCEPT ![c] = g]
  BY DEF Appends
<1> HIDE DEF g
<1>4. Makes(c, logs[c].cur \cup {logs[c].last + 1}, logs[c].last + 1, logs[c].rot, logs[c].old)
  BY <1>2, <1>3, LogBecomes
<1> USE DEF Makes
<1>5. PagesTyped'
  BY <1>1, <1>4 DEF PagesTyped
<1>6. CurIsRun'
  <2>1. PICK lo \in 1..(logs[c].last + 1) : logs[c].cur = lo..logs[c].last
    BY DEF CurIsRun
  <2>2. logs'[c].cur = lo..(logs[c].last + 1) /\ lo \in 1..(logs[c].last + 1 + 1)
    BY <1>1, <1>4, <2>1
  <2>3. \E l \in 1..(logs'[c].last + 1) : logs'[c].cur = l..logs'[c].last
    BY <1>4, <2>2
  <2> QED BY <1>4, <2>3 DEF CurIsRun
<1>7. OneRotates'
  BY <1>4 DEF OneRotates
<1>8. \A d \in Category, i \in 1..KeepLogs : logs[d].old[i] \subseteq Nat /\ logs[d].last \in Nat
  BY DEF PagesTyped, Logs
<1>9. FilesInOrder'
  BY <1>1, <1>4, <1>8 DEF FilesInOrder
<1>10. OldestGoFirst'
  BY <1>4, <1>1 DEF Kept, OldestGoFirst
<1>11. ReaderInRun'
  <2>1. pager \in Pagers /\ pager.skip \in Nat /\ pager.first \in Nat
    BY DEF PagesTyped, Pagers
  <2>2. CASE pager.wish # "any" /\ pager.wish = c
    <3>1. pager.first <= logs'[c].last
      BY <1>1, <1>4, <2>1, <2>2 DEF ReaderInRun
    <3>2. ASSUME pager.on, ~pager.turned
          PROVE  /\ pager.skip = 0 \/ logs'[c].last - pager.skip + 1 \in logs'[c].cur
                 /\ \A x \in logs'[c].cur :
                       logs'[c].last - pager.skip < x /\ x <= pager.first
                           => <<c, x>> \in pager.got
      <4>1. PICK lo \in 1..(logs[c].last + 1) : logs[c].cur = lo..logs[c].last
        BY DEF CurIsRun
      <4>2. logs'[c].cur = lo..(logs[c].last + 1) /\ logs'[c].last = logs[c].last + 1
        BY <1>1, <1>4, <4>1
      <4>3. pager.skip = 0 \/ logs[c].last - pager.skip + 1 \in lo..logs[c].last
        BY <2>2, <3>2, <4>1 DEF ReaderInRun
      <4>4. pager.first <= logs[c].last
        BY <2>2 DEF ReaderInRun
      <4>5. \A x \in lo..logs[c].last :
               logs[c].last - pager.skip < x /\ x <= pager.first => <<c, x>> \in pager.got
        BY <2>2, <3>2, <4>1 DEF ReaderInRun
      <4>6. pager.skip = 0 \/ logs'[c].last - pager.skip + 1 \in logs'[c].cur
        BY <1>1, <2>1, <4>2, <4>3
      <4>7. \A x \in logs'[c].cur :
               logs'[c].last - pager.skip < x /\ x <= pager.first => <<c, x>> \in pager.got
        BY <1>1, <2>1, <4>2, <4>4, <4>5
      <4> QED BY <4>6, <4>7
    <3> QED BY <1>1, <2>2, <3>1, <3>2 DEF ReaderInRun
  <2>3. CASE pager.wish # "any" /\ pager.wish # c
    BY <1>4, <2>1, <2>3, <1>1 DEF Pagers, ReaderInRun
  <2>4. CASE pager.wish = "any"
    BY <1>1, <2>4 DEF ReaderInRun
  <2> QED BY <2>2, <2>3, <2>4
<1>12. NothingLeftOut'
  BY <1>1, <1>4 DEF PagesTyped, Pagers, ReaderInRun, NothingLeftOut
<1> QED BY <1>5, <1>6, <1>7, <1>9, <1>10, <1>11, <1>12

(* A step of a rotation that leaves the current file alone.                 *)
LEMMA RotatingKeeps ==
    ASSUME PagesInv, NEW c \in Category, NEW rot, NEW old,
           Makes(c, logs[c].cur, logs[c].last, rot, old),
           UNCHANGED <<newest, pager>>, turns' \in 0..MaxTurnover,
           OneRotates', FilesInOrder', OldestGoFirst'
    PROVE  PagesInv'
<1> USE DEF PagesInv, Makes
<1>1. \A d \in Category : logs'[d].cur = logs[d].cur /\ logs'[d].last = logs[d].last
  OBVIOUS
<1>2. PagesTyped' /\ CurIsRun'
  BY <1>1 DEF PagesTyped, CurIsRun
<1>3. pager.wish \in Category \cup {"any"}
  BY DEF PagesTyped, Pagers
<1>4. ReaderInRun' /\ NothingLeftOut'
  BY <1>1, <1>3 DEF ReaderInRun, NothingLeftOut
<1> QED BY <1>2, <1>4

LEMMA RotateBeginsKeeps ==
    ASSUME PagesInv, NEW c \in Category, NEW w \in Writer, RotateBegins(c, w)
    PROVE  PagesInv'
<1> USE DEF PagesInv
<1> DEFINE rot == [logs[c].rot EXCEPT ![w] = KeepLogs - 1]
           old == [logs[c].old EXCEPT ![KeepLogs] = {}]
           g == [logs[c] EXCEPT !.rot = rot, !.old = old]
<1>1. /\ logs[c] \in Logs /\ UNCHANGED <<newest, pager>> /\ turns' \in 0..MaxTurnover
      /\ \A v \in Writer : logs[c].rot[v] = NoTurn
  BY PagesAssumption DEF RotateBegins, PagesTyped, RotateLockFree
<1>2. /\ rot \in [Writer -> Turned] /\ rot[w] = KeepLogs - 1
      /\ \A v \in Writer \ {w} : rot[v] = NoTurn
  BY <1>1, TurnIs DEF Logs
<1>3. /\ old \in [1..KeepLogs -> SUBSET Nat] /\ old[KeepLogs] = {}
      /\ \A i \in 1..KeepLogs : i # KeepLogs => old[i] = logs[c].old[i]
  BY <1>1, TurnIs DEF Logs
<1>4. logs' = [logs EXCEPT ![c] = g]
  BY DEF RotateBegins
<1> HIDE DEF rot, old
<1>5. g \in Logs /\ g.cur = logs[c].cur /\ g.last = logs[c].last /\ g.rot = rot /\ g.old = old
  BY <1>1, <1>2, <1>3 DEF Logs
<1> HIDE DEF g
<1>6. Makes(c, logs[c].cur, logs[c].last, rot, old)
  BY <1>4, <1>5, LogBecomes
<1>7. OneRotates'
  <2>1. \A v \in Writer : rot[v] # NoTurn => v = w
    BY <1>2
  <2>2. old[rot[w] + 1] = {}
    BY <1>2, <1>3, TurnIs
  <2>3. /\ \A v, u \in Writer : rot[v] # NoTurn /\ rot[u] # NoTurn => v = u
        /\ \A v \in Writer : rot[v] # NoTurn => old[rot[v] + 1] = {}
    BY <2>1, <2>2
  <2>4. logs'[c].rot = rot /\ logs'[c].old = old /\ \A d \in Category \ {c} : logs'[d] = logs[d]
    BY <1>6 DEF Makes
  <2> QED BY <2>3, <2>4 DEF OneRotates
<1>8. \A i \in 1..KeepLogs : old[i] \subseteq logs[c].old[i]
  BY <1>3
<1>9. FilesInOrder'
  BY <1>6, <1>8 DEF FilesInOrder, Makes
<1>10. OldestGoFirst'
  <2>1. Kept(c)' \subseteq Kept(c) /\ Kept(c) = Kept(c)' \cup logs[c].old[KeepLogs]
    BY <1>3, <1>6, <1>8, TurnIs DEF Kept, Makes
  <2>2. ASSUME NEW y \in Kept(c)', NEW z \in logs[c].old[KeepLogs] PROVE z < y
    BY <2>2, TurnIs, <1>3, <1>6 DEF FilesInOrder, Kept, Makes
  <2>3. ASSUME NEW y \in Kept(c)', NEW z \in y..logs[c].last PROVE z \in Kept(c)'
    <3>1. z \in Kept(c)
      BY <2>1, <2>3 DEF OldestGoFirst
    <3>2. ~(z < y)
      <4>1. logs[c].cur \subseteq Nat /\ \A i \in 1..KeepLogs : logs[c].old[i] \subseteq Nat
        BY <1>1 DEF Logs
      <4>2. y \in Int
        BY <2>1, <2>3, <4>1 DEF Kept
      <4> QED BY <2>3, <4>2
    <3> QED BY <2>1, <2>2, <3>1, <3>2
  <2>4. \A d \in Category \ {c} : Kept(d)' = Kept(d)
    BY <1>6 DEF Kept, Makes
  <2> QED BY <1>6, <2>3, <2>4 DEF OldestGoFirst, Makes
<1> QED BY <1>1, <1>6, <1>7, <1>9, <1>10, RotatingKeeps

LEMMA RotateShiftsKeeps ==
    ASSUME PagesInv, NEW c \in Category, NEW w \in Writer, RotateShifts(c, w)
    PROVE  PagesInv'
<1> USE DEF PagesInv
<1> DEFINE i == logs[c].rot[w]
           rot == [logs[c].rot EXCEPT ![w] = i - 1]
           old == Renamed(logs[c], i).old
           g == [Renamed(logs[c], i) EXCEPT !.rot[w] = i - 1]
<1>1. /\ logs[c] \in Logs /\ UNCHANGED <<newest, pager, turns>> /\ turns' \in 0..MaxTurnover
      /\ i \in 1..KeepLogs - 1 /\ i \in 1..KeepLogs /\ i + 1 \in 1..KeepLogs
      /\ i - 1 \in 0..KeepLogs - 1 /\ i # NoTurn
  BY TurnIs DEF RotateShifts, PagesTyped
<1>2. logs[c].old[i + 1] = {} /\ \A v \in Writer : v # w => logs[c].rot[v] = NoTurn
  BY <1>1 DEF OneRotates
<1>3. logs' = [logs EXCEPT ![c] = g]
  BY DEF RotateShifts
<1>4. /\ rot \in [Writer -> Turned] /\ rot[w] = i - 1
      /\ \A v \in Writer \ {w} : rot[v] = NoTurn
  BY <1>1, <1>2, TurnIs DEF Logs
<1> HIDE DEF i
<1>5. /\ Renamed(logs[c], i) \in Logs /\ Renamed(logs[c], i).cur = logs[c].cur
      /\ Renamed(logs[c], i).last = logs[c].last /\ Renamed(logs[c], i).rot = logs[c].rot
      /\ old[i] = {} /\ old[i + 1] = logs[c].old[i]
      /\ \A j \in 1..KeepLogs : j # i /\ j # i + 1 => old[j] = logs[c].old[j]
  <2>1. CASE logs[c].old[i] = {}
    BY <1>1, <1>2, <2>1 DEF Renamed
  <2>2. CASE logs[c].old[i] # {}
    <3> DEFINE o == [j \in 1..KeepLogs |->
             CASE j = i -> {} [] j = i + 1 -> logs[c].old[i] [] OTHER -> logs[c].old[j]]
    <3>1. Renamed(logs[c], i) = [logs[c] EXCEPT !.old = o]
      BY <2>2 DEF Renamed
    <3>2. o \in [1..KeepLogs -> SUBSET Nat] /\ o[i] = {} /\ o[i + 1] = logs[c].old[i]
          /\ \A j \in 1..KeepLogs : j # i /\ j # i + 1 => o[j] = logs[c].old[j]
      <4>0. i # i + 1
        BY <1>1
      <4>1. i # i + 1 /\ \A j \in 1..KeepLogs : logs[c].old[j] \in SUBSET Nat
        BY <1>1, <4>0 DEF Logs
      <4>2. o[i] = {} /\ o[i + 1] = logs[c].old[i]
        BY <1>1, <4>1
      <4>3. \A j \in 1..KeepLogs : j # i /\ j # i + 1 => o[j] = logs[c].old[j]
        OBVIOUS
      <4>4. \A j \in 1..KeepLogs : o[j] \in SUBSET Nat
        BY <1>1, <4>1, <4>2, <4>3
      <4> QED BY <4>2, <4>3, <4>4
    <3> HIDE DEF o
    <3> QED BY <1>1, <3>1, <3>2 DEF Logs
  <2> QED BY <2>1, <2>2
<1> HIDE DEF old
<1>6. g \in Logs /\ g.cur = logs[c].cur /\ g.last = logs[c].last /\ g.rot = rot /\ g.old = old
  BY <1>5, <1>4 DEF Logs, old
<1> HIDE DEF g, rot
<1>7. Makes(c, logs[c].cur, logs[c].last, rot, old)
  BY <1>3, <1>6, LogBecomes
<1>8. OneRotates'
  <2>1. \A v \in Writer : rot[v] # NoTurn => v = w
    BY <1>4
  <2>2. old[rot[w] + 1] = {}
    BY <1>1, <1>4, <1>5
  <2>3. /\ \A v, u \in Writer : rot[v] # NoTurn /\ rot[u] # NoTurn => v = u
        /\ \A v \in Writer : rot[v] # NoTurn => old[rot[v] + 1] = {}
    BY <2>1, <2>2
  <2>4. logs'[c].rot = rot /\ logs'[c].old = old /\ \A d \in Category \ {c} : logs'[d] = logs[d]
    BY <1>7 DEF Makes
  <2> QED BY <2>3, <2>4 DEF OneRotates
(* Each file that is not empty has the lines another one had, in the order. *)
<1>9. \A j \in 1..KeepLogs : old[j] # {} =>
          \E k \in 1..KeepLogs : /\ old[j] = logs[c].old[k]
                                 /\ IF j = i + 1 THEN k = i ELSE k = j /\ j # i
  BY <1>1, <1>5
<1>10. FilesInOrder'
  BY <1>7, <1>9, <1>1 DEF FilesInOrder, Makes
<1>11. OldestGoFirst'
  BY <1>9, <1>1, <1>5, <1>2, <1>7 DEF Kept, Makes, OldestGoFirst
<1> QED BY <1>1, <1>7, <1>8, <1>10, <1>11, RotatingKeeps

LEMMA RotateDiesKeeps ==
    ASSUME PagesInv, NEW c \in Category, NEW w \in Writer, RotateDies(c, w)
    PROVE  PagesInv'
<1> USE DEF PagesInv
<1> DEFINE rot == [logs[c].rot EXCEPT ![w] = NoTurn]
           g == [logs[c] EXCEPT !.rot = rot]
<1>1. logs[c] \in Logs /\ UNCHANGED <<newest, pager, turns>> /\ turns' \in 0..MaxTurnover
  BY DEF RotateDies, PagesTyped
<1>2. rot \in [Writer -> Turned] /\ \A v \in Writer : rot[v] \in {NoTurn, logs[c].rot[v]}
  BY <1>1, TurnIs DEF Logs
<1>3. logs' = [logs EXCEPT ![c] = g]
  BY DEF RotateDies
<1> HIDE DEF rot
<1>4. g \in Logs /\ g.cur = logs[c].cur /\ g.last = logs[c].last /\ g.rot = rot
      /\ g.old = logs[c].old
  BY <1>1, <1>2 DEF Logs
<1> HIDE DEF g
<1>5. Makes(c, logs[c].cur, logs[c].last, rot, logs[c].old)
  BY <1>3, <1>4, LogBecomes
<1>6. OneRotates'
  BY <1>2, <1>5 DEF OneRotates, Makes
<1>7. FilesInOrder'
  BY <1>5 DEF FilesInOrder, Makes
<1>8. OldestGoFirst'
  BY <1>5 DEF OldestGoFirst, Kept, Makes
<1> QED BY <1>1, <1>5, <1>6, <1>7, <1>8, RotatingKeeps

LEMMA RotateEndsKeeps ==
    ASSUME PagesInv, NEW c \in Category, NEW w \in Writer, RotateEnds(c, w)
    PROVE  PagesInv'
<1> USE DEF PagesInv
<1> DEFINE rot == [logs[c].rot EXCEPT ![w] = NoTurn]
           first == IF logs[c].cur = {} THEN logs[c].old[1] ELSE logs[c].cur
           old == [logs[c].old EXCEPT ![1] = first]
           g == [logs[c] EXCEPT !.rot = rot, !.cur = {}, !.old = old]
<1>1. /\ logs[c] \in Logs /\ UNCHANGED <<newest, turns>> /\ logs[c].rot[w] = 0
      /\ pager \in Pagers /\ pager' = [pager EXCEPT !.turned = @ \/ pager.on]
  BY DEF RotateEnds, PagesTyped
<1>2. 1 \in 1..KeepLogs /\ 0 # NoTurn /\ logs[c].old[1] = {} /\ first = logs[c].cur
      /\ \A v \in Writer : v # w => logs[c].rot[v] = NoTurn
  <2>1. 1 \in 1..KeepLogs /\ 0 # NoTurn
    BY TurnIs
  <2>2. logs[c].old[0 + 1] = {} /\ \A v \in Writer : v # w => logs[c].rot[v] = NoTurn
    BY <1>1, <2>1 DEF OneRotates
  <2>3. logs[c].old[1] = {}
    BY <2>2
  <2>4. first = logs[c].cur
    BY <2>3
  <2> QED BY <2>1, <2>2, <2>3, <2>4
<1>3. rot \in [Writer -> Turned] /\ \A v \in Writer : rot[v] = NoTurn
  BY <1>1, <1>2, TurnIs DEF Logs
<1>4. logs' = [logs EXCEPT ![c] = g]
  BY DEF RotateEnds
<1> HIDE DEF rot, first
<1>5. /\ old \in [1..KeepLogs -> SUBSET Nat] /\ old[1] = logs[c].cur
      /\ \A i \in 1..KeepLogs : i # 1 => old[i] = logs[c].old[i]
  BY <1>1, <1>2 DEF Logs
<1> HIDE DEF old
<1>6. g \in Logs /\ g.cur = {} /\ g.last = logs[c].last /\ g.rot = rot /\ g.old = old
  BY <1>1, <1>3, <1>5 DEF Logs
<1> HIDE DEF g
<1>7. Makes(c, {}, logs[c].last, rot, old)
  BY <1>4, <1>6, LogBecomes
<1>8. /\ pager' \in Pagers /\ pager'.on = pager.on /\ pager'.done = pager.done
      /\ pager'.wish = pager.wish /\ pager'.skip = pager.skip /\ pager'.got = pager.got
      /\ pager'.first = pager.first /\ (pager.on => pager'.turned)
      /\ (pager'.turned \/ ~pager.turned)
  BY <1>1 DEF Pagers
<1> USE DEF Makes
<1>9. PagesTyped'
  BY <1>1, <1>7, <1>8 DEF PagesTyped
<1>10. CurIsRun'
  <2>1. logs[c].last \in Nat
    BY <1>1 DEF Logs
  <2>2. logs[c].last + 1 \in 1..(logs[c].last + 1) /\ (logs[c].last + 1)..logs[c].last = {}
    BY <2>1
  <2> QED BY <1>7, <2>2 DEF CurIsRun
<1>11. OneRotates'
  BY <1>3, <1>7 DEF OneRotates
<1>12. logs[c].cur \subseteq Nat /\ \A x \in logs[c].cur : x <= logs[c].last
  BY <1>1 DEF Logs, CurIsRun
<1>13. FilesInOrder'
  <2> SUFFICES ASSUME NEW j \in 1..KeepLogs, NEW y \in old[j]
               PROVE  /\ y <= logs[c].last
                      /\ \A l \in 1..KeepLogs : j < l => \A z \in old[l] : z < y
      BY <1>7 DEF FilesInOrder
  <2>1. CASE j = 1
    BY <1>5, <1>12, <2>1 DEF FilesInOrder
  <2>2. CASE j # 1
    BY <1>5, <2>2 DEF FilesInOrder
  <2> QED BY <2>1, <2>2
<1>14. OldestGoFirst'
  <2>1. Kept(c)' = Kept(c)
    BY <1>2, <1>5, <1>7 DEF Kept
  <2>2. \A d \in Category \ {c} : Kept(d)' = Kept(d)
    BY <1>7 DEF Kept
  <2> QED BY <1>7, <2>1, <2>2 DEF OldestGoFirst
<1>15. ReaderInRun'
  BY <1>7, <1>1, <1>8 DEF Pagers, ReaderInRun
<1>16. NothingLeftOut'
  BY <1>1, <1>7, <1>8 DEF Pagers, NothingLeftOut
<1> QED BY <1>9, <1>10, <1>11, <1>13, <1>14, <1>15, <1>16

(* A reader leaves the files alone.                                         *)
LEMMA LogsStay ==
    ASSUME PagesInv, UNCHANGED logs
    PROVE  CurIsRun' /\ OneRotates' /\ FilesInOrder' /\ OldestGoFirst'
<1> USE DEF PagesInv
<1>1. CurIsRun'
  BY DEF CurIsRun
<1>2. OneRotates'
  BY DEF OneRotates
<1>3. FilesInOrder'
  BY DEF FilesInOrder
<1>4. OldestGoFirst'
  BY DEF Kept, OldestGoFirst
<1> QED BY <1>1, <1>2, <1>3, <1>4

LEMMA BeginsReadingKeeps == PagesInv /\ BeginsReading => PagesInv'
<1> SUFFICES ASSUME PagesInv, BeginsReading PROVE PagesInv'
    OBVIOUS
<1> USE DEF PagesInv
<1>1. PICK w \in Category \cup {"any"} : pager' = [pager EXCEPT !.on = TRUE, !.wish = w]
  BY DEF BeginsReading
<1>2. /\ pager \in Pagers /\ ~pager.on /\ ~pager.done /\ UNCHANGED <<logs, newest, turns>>
      /\ pager.skip = 0 /\ pager.got = {} /\ pager.first = 0
  BY DEF BeginsReading, PagesTyped, ReaderInRun
<1>3. /\ pager' \in Pagers /\ pager'.on /\ ~pager'.done /\ pager'.wish = w
      /\ pager'.skip = 0 /\ pager'.got = {} /\ pager'.first = 0
  BY <1>1, <1>2 DEF Pagers
<1>4. PagesTyped' /\ NothingLeftOut'
  BY <1>2, <1>3 DEF PagesTyped, NothingLeftOut
<1>5. CurIsRun' /\ OneRotates' /\ FilesInOrder' /\ OldestGoFirst'
  BY <1>2, LogsStay
<1>6. ReaderInRun'
  BY <1>2, <1>3 DEF PagesTyped, Logs, CurIsRun, ReaderInRun
<1> QED BY <1>4, <1>5, <1>6

LEMMA ReadsPageKeeps == PagesInv /\ ReadsPage => PagesInv'
<1> SUFFICES ASSUME PagesInv, ReadsPage PROVE PagesInv'
    OBVIOUS
<1> USE DEF PagesInv
<1> DEFINE c == IF pager.wish = "any" THEN newest ELSE pager.wish
           page == Page(c, pager.skip)
           more == More(c, pager.skip)
           got == pager.got \cup {<<c, x>> : x \in page}
           first == IF pager.got = {} /\ page # {} THEN Greatest(page) ELSE pager.first
<1>1. /\ pager' = [pager EXCEPT !.skip = NextSkip(@), !.on = more, !.done = ~more,
                                !.got = got, !.first = first]
      /\ UNCHANGED <<logs, newest, turns>> /\ pager.on
  BY DEF ReadsPage
<1>2. pager \in Pagers /\ c \in Category /\ pager.skip \in Nat /\ pager.first \in Nat
      /\ logs[c] \in Logs /\ Limit \in Nat /\ Limit >= 1
  BY PagesAssumption DEF PagesTyped, Pagers
<1>3. page \subseteq logs[c].cur /\ logs[c].cur \subseteq Nat
  BY <1>2 DEF LastLines, FirstLines, Older, Page, Logs
<1>4. more \in BOOLEAN
  BY DEF More
<1>5. page # {} => Greatest(page) \in page
  <2>1. PICK lo \in 1..(logs[c].last + 1) : logs[c].cur = lo..logs[c].last
    BY <1>2 DEF CurIsRun
  <2>2. ASSUME page # {} PROVE \E x \in page : \A y \in page : y <= x
    <3> DEFINE T == {logs[c].last - y : y \in page}
    <3>1. T \in SUBSET Nat /\ T # {}
      BY <1>2, <1>3, <2>1, <2>2 DEF Logs
    <3>2. PICK n \in T : \A m \in T : n <= m
      BY <3>1, LeastOf
    <3>3. PICK x \in page : n = logs[c].last - x
      BY <3>2
    <3>4. \A y \in page : logs[c].last - y \in T
      OBVIOUS
    <3> HIDE DEF T
    <3>5. ASSUME NEW y \in page PROVE y <= x
      BY <3>2, <3>3, <3>4, <3>5, <1>2, <1>3 DEF Logs
    <3> QED BY <3>5
  <2> QED BY <2>2 DEF Greatest
<1>6. got \in SUBSET (Category \X Nat) /\ first \in Nat
  BY <1>2, <1>3, <1>5 DEF Pagers
<1> HIDE DEF got, first, more
<1>7. /\ pager' \in Pagers /\ pager'.on = more /\ pager'.done = ~more
      /\ pager'.wish = pager.wish /\ pager'.skip = pager.skip + Limit /\ pager'.got = got
      /\ pager'.first = first /\ pager'.turned = pager.turned
  <2>1. NextSkip(pager.skip) = pager.skip + Limit /\ pager.skip + Limit \in Nat
    BY <1>2 DEF NextSkip
  <2> DEFINE skip == pager.skip + Limit
             done == ~more
  <2>2. pager' = [pager EXCEPT !.skip = skip, !.on = more, !.done = done,
                               !.got = got, !.first = first]
    BY <1>1, <2>1
  <2>3. skip \in Nat /\ done \in BOOLEAN
    BY <1>4, <2>1
  <2> HIDE DEF c, page, skip, done
  <2>4. /\ pager' \in Pagers /\ pager'.on = more /\ pager'.done = done
        /\ pager'.wish = pager.wish /\ pager'.skip = skip /\ pager'.got = got
        /\ pager'.first = first /\ pager'.turned = pager.turned
    BY <1>2, <1>4, <1>6, <2>2, <2>3 DEF Pagers
  <2> QED BY <2>4 DEF skip, done
<1>8. PagesTyped'
  BY <1>1, <1>7 DEF PagesTyped
<1>9. CurIsRun' /\ OneRotates' /\ FilesInOrder' /\ OldestGoFirst'
  BY <1>1, LogsStay
<1>10. ASSUME pager.wish # "any", ~pager.turned
       PROVE  /\ more => logs[c].last - (pager.skip + Limit) + 1 \in logs[c].cur
              /\ \A x \in logs[c].cur :
                    /\ logs[c].last - (pager.skip + Limit) < x \/ ~more
                    /\ x <= first
                    => <<c, x>> \in got
  <2>1. PICK lo \in 1..(logs[c].last + 1) : logs[c].cur = lo..logs[c].last
    BY <1>2 DEF CurIsRun
  <2> DEFINE hi == logs[c].last
  <2>2. lo \in Int /\ hi \in Int /\ lo <= hi + 1 /\ logs[c].cur = lo..hi
    BY <1>2, <2>1 DEF Logs
  <2>3. c = pager.wish /\ pager.on
    BY <1>1, <1>10
  <2>4. pager.skip = 0 \/ hi - pager.skip + 1 \in lo..hi
    BY <1>10, <2>1, <2>3 DEF ReaderInRun
  <2>5. \A x \in lo..hi : hi - pager.skip < x /\ x <= pager.first => <<c, x>> \in pager.got
    BY <1>10, <2>1, <2>3 DEF ReaderInRun
  <2> HIDE DEF hi, c
  <2>6. lo <= hi - pager.skip + 1
    BY <1>2, <2>2, <2>4
  <2>7. /\ page = {x \in lo..hi : hi - pager.skip - Limit < x /\ x <= hi - pager.skip}
        /\ more <=> hi - lo + 1 > pager.skip + Limit
    BY <1>2, <2>2, <2>6, PageOfRun DEF more
  <2>8. more => hi - (pager.skip + Limit) + 1 \in lo..hi
    BY <1>2, <2>2, <2>7
  <2>9. ASSUME NEW x \in lo..hi, hi - (pager.skip + Limit) < x \/ ~more, x <= first
        PROVE  <<c, x>> \in got
    <3>1. hi - pager.skip - Limit < x
      BY <1>2, <2>2, <2>7, <2>9
    <3>2. CASE x <= hi - pager.skip
      BY <2>7, <3>1, <3>2 DEF got
    <3>3. CASE hi - pager.skip < x
      <4>1. CASE pager.got = {} /\ page # {}
        <5>1. first \in page
          BY <1>5, <4>1 DEF first
        <5>2. first <= hi - pager.skip
          BY <2>7, <5>1
        <5> QED BY <1>2, <1>6, <2>2, <2>9, <3>3, <5>2
      <4>2. CASE ~(pager.got = {} /\ page # {})
        BY <4>2, <2>5, <2>9, <3>3 DEF first, got
      <4> QED BY <4>1, <4>2
    <3> QED BY <1>2, <2>2, <3>2, <3>3
  <2> QED BY <2>2, <2>8, <2>9 DEF hi
<1>11. pager.wish # "any" => c = pager.wish
  OBVIOUS
<1>12. first <= logs[c].last \/ pager.wish = "any"
  BY <1>3, <1>5, <1>2, <1>11 DEF first, CurIsRun, Logs, ReaderInRun
<1> HIDE DEF c
<1>13. ReaderInRun'
  BY <1>4, <1>7, <1>1, <1>10, <1>11, <1>12 DEF ReaderInRun
<1>14. NothingLeftOut'
  BY <1>1, <1>4, <1>7, <1>10, <1>11 DEF NothingLeftOut
<1> QED BY <1>8, <1>9, <1>13, <1>14

LEMMA PagesNextKeeps == PagesInv /\ [PagesNext]_pagesVars => PagesInv'
BY LogsStay, AppendsKeeps, RotateBeginsKeeps, RotateShiftsKeeps, RotateEndsKeeps, RotateDiesKeeps,
   ReadsPageKeeps, BeginsReadingKeeps DEF pagesVars, PagesInv, PagesTyped, ReaderInRun,
       NothingLeftOut, PagesNext

(* The invariant holds whoever writes, rotates, dies and reads.             *)
THEOREM PagesInvariant == PagesSpec => []PagesInv
  BY PagesBegin, PagesNextKeeps, PTL DEF PagesSpec

(* Rotation drops only the oldest lines, and who reads a log to its end has *)
(* every line of it up to the newest when he began (rotate_path, get_logs). *)
THEOREM LogsStayWhole == PagesSpec => []LogsAreWhole
<1>1. PagesInv => LogsAreWhole
  BY PagesAssumption DEF PagesInv, LogsAreWhole, CurIsRun, PagesTyped, Logs, PagesTypeOK
<1> QED BY <1>1, PagesInvariant, PTL

(***************************************************************************)
(* The fallback plans of a first deployment.                               *)
(***************************************************************************)

(* A finite set of naturals has a member with m smaller ones, for every m   *)
(* below its size: what Candidate(m + 1) chooses.                           *)
LEMMA RankOf ==
    ASSUME NEW S \in SUBSET Nat, IsFiniteSet(S), NEW m \in Nat, m < Cardinality(S)
    PROVE  \E c \in S : Cardinality({d \in S : d < c}) = m
<1> DEFINE Below(c) == {d \in S : d < c}
           Bads == {k \in Nat : k < Cardinality(S) /\ \A c \in S : Cardinality(Below(c)) # k}
<1>1. SUFFICES ASSUME Bads # {} PROVE FALSE
  BY <1>1
<1>2. Bads \in SUBSET Nat
  OBVIOUS
<1>3. PICK k \in Bads : \A j \in Bads : k <= j
  BY <1>1, <1>2, LeastOf
<1>4. k \in Nat /\ k < Cardinality(S) /\ Cardinality(S) \in Nat
  BY <1>3, FS_CardinalityType
<1>5. \A c \in S : Cardinality(Below(c)) # k
  BY <1>3
<1>6. CASE k = 0
  <2>1. S # {}
    BY <1>4, <1>6, FS_EmptySet
  <2>2. PICK c \in S : \A d \in S : c <= d
    BY <2>1, LeastOf
  <2>3. Below(c) = {}
    <3>1. ASSUME NEW d \in S PROVE ~(d < c)
      BY <2>2
    <3> QED BY <3>1
  <2>4. c \in S /\ Cardinality(Below(c)) = 0
    BY <2>2, <2>3, FS_EmptySet
  <2> HIDE DEF Below
  <2> QED BY <1>5, <1>6, <2>4
<1>7. CASE k # 0
  <2>1. k - 1 \in Nat /\ k - 1 < Cardinality(S) /\ k - 1 < k /\ (k - 1) + 1 = k
    BY <1>4, <1>7
  <2>2. ~(k - 1 \in Bads)
    BY <1>3, <2>1, <1>4
  <2>3. PICK c \in S : Cardinality(Below(c)) = k - 1
    BY <2>1, <2>2
  <2> DEFINE Rest == {d \in S : c < d}
             Upto == Below(c) \cup {c}
  <2>4. IsFiniteSet(Below(c)) /\ c \notin Below(c) /\ c \in Nat
    BY FS_Subset
  <2>5. Cardinality(Upto) = k
    BY <2>4, FS_AddElement, <2>1, <2>3
  <2>6. Rest # {}
    <3>1. Rest = {} => S = Upto
      <4>1. ASSUME Rest = {}, NEW d \in S PROVE d \in Upto
        BY <4>1
      <4> QED BY <4>1
    <3> QED BY <3>1, <2>5, <1>4
  <2>7. PICK e \in Rest : \A d \in Rest : e <= d
    BY <2>6, LeastOf
  <2>8. Below(e) = Upto
    <3>1. ASSUME NEW d PROVE d \in Below(e) <=> d \in Upto
      <4>1. e \in Nat /\ c < e /\ e \in S /\ c \in Nat
        BY <2>7
      <4>2. d \in Below(e) => d \in Upto
        BY <2>7, <4>1
      <4>3. d \in Upto => d \in Below(e)
        BY <4>1
      <4> QED BY <4>2, <4>3
    <3> QED BY <3>1
  <2> HIDE DEF Upto
  <2>9. Cardinality(Below(e)) = k
    BY <2>8, <2>5
  <2>10. e \in S
    BY <2>7
  <2> HIDE DEF Below
  <2> QED BY <1>5, <2>9, <2>10
<1> QED BY <1>6, <1>7


ShotKind  == [plan : [id : Plans, sub : Plans \cup {NoSub}], gen : MaybeFiles,
              port : {"none", "kept", "fresh"}]
TryKind   == [pc : {"idle", "done", "host", "up", "down", "restore", "decide", "next"},
              policy : Policies, k : 0..MAX_FALLBACK_CANDIDATES, snap : ShotKind,
              ran : BOOLEAN, flagged : BOOLEAN, residue : BOOLEAN]
Trying    == try.pc \notin {"idle", "done"}

FallTyped ==
    /\ plan \in [id : Plans, sub : Plans \cup {NoSub}] /\ gen \in MaybeFiles
    /\ port \in {"none", "kept", "fresh"} /\ cont \in BOOLEAN /\ needs \in BOOLEAN
    /\ try \in TryKind
    /\ fgh \in [moved : BOOLEAN, blind : BOOLEAN, cut : BOOLEAN, left : BOOLEAN, base : ShotKind]

(* The port is the one from before or a fresh one the attempt gives back;   *)
(* every snapshot is of what was there before, as long as nothing of an     *)
(* attempt was left.                                                        *)
AttemptsFit ==
    /\ fgh.base.port # "fresh"
    /\ Trying => /\ port = fgh.base.port \/ (fgh.base.port = "none" /\ port = "fresh")
                 /\ try.snap.port = fgh.base.port
    /\ Trying /\ ~fgh.left => /\ try.snap.gen = fgh.base.gen
                              /\ try.snap.plan.id = fgh.base.plan.id

(* Between two attempts the world is the one from before. *)
RolledBack ==
    /\ try.pc \in {"decide", "next"} => port = fgh.base.port
    /\ try.pc \in {"decide", "next"} /\ ~fgh.left
          => gen = fgh.base.gen /\ plan.id = fgh.base.plan.id

(* What the first attempt leaves is known, unless Docker did not answer.    *)
FirstKnown ==
    /\ try.pc \in {"restore", "decide"} /\ try.k = 0 /\ ~try.residue /\ ~fgh.blind => ~cont
    /\ try.pc = "decide" => try.k = 0
    /\ try.pc = "next" => try.k # 0
    /\ Trying /\ try.k = 0 /\ fgh.left => try.residue

FallInv == FallTyped /\ AttemptsFit /\ RolledBack /\ FirstKnown /\ FirstStartsClean

LEMMA FallBegins == FallbackInit => FallInv
<1> SUFFICES ASSUME FallbackInit PROVE FallInv
    OBVIOUS
<1>1. plan = Chosen(0) /\ Chosen(0) \in [id : Plans, sub : Plans \cup {NoSub}]
  BY FallbackAssumption DEF FallbackInit, Chosen, SubOf, Plans
<1>2. Shot \in ShotKind /\ Shot.port # "fresh"
  BY <1>1 DEF FallbackInit, Shot, ShotKind, MaybeFiles
<1>3. try = NoTry(Shot) /\ NoTry(Shot) \in TryKind
  BY <1>2, FallbackAssumption DEF FallbackInit, TryKind, NoTry, Policies
<1> HIDE DEF Shot
<1>5. fgh \in [moved : BOOLEAN, blind : BOOLEAN, cut : BOOLEAN, left : BOOLEAN, base : ShotKind]
  BY <1>2 DEF FallbackInit
<1>6. FallTyped
  BY <1>1, <1>3, <1>5 DEF FallbackInit, FallTyped, MaybeFiles
<1>4. AttemptsFit /\ RolledBack /\ FirstKnown /\ FirstStartsClean
  BY <1>2 DEF FallbackInit, AttemptsFit, RolledBack, FirstKnown, FirstStartsClean, NoTry, Trying
<1> QED BY <1>6, <1>4 DEF FallInv

LEMMA BeginStartKeeps == FallInv /\ (\E p \in Policies : BeginStart(p)) => FallInv'
<1> SUFFICES ASSUME FallInv, NEW p \in Policies, BeginStart(p) PROVE FallInv'
    OBVIOUS
<1> USE DEF BeginStart
<1>1. Registered \in ShotKind /\ Registered.port # "fresh"
  BY DEF Registered, Shot, ShotKind, FallInv, FallTyped
<1>2. /\ Registered.port = port' /\ Registered.gen = gen /\ Registered.plan = plan
  BY DEF Registered, Shot
<1>3. /\ try' = [NoTry(Registered) EXCEPT !.pc = "host", !.policy = p]
      /\ fgh'.base = Registered /\ fgh'.left = FALSE
      /\ UNCHANGED <<plan, gen, cont, needs>>
      /\ fgh' \in [moved : BOOLEAN, blind : BOOLEAN, cut : BOOLEAN, left : BOOLEAN, base : ShotKind]
  BY <1>1
<1>4. port' \in {"none", "kept", "fresh"}
  BY DEF FallInv, FallTyped
<1> HIDE DEF BeginStart
<1> HIDE DEF Registered
<1>8. try' = [pc |-> "host", policy |-> p, k |-> 0, snap |-> Registered, ran |-> FALSE,
             flagged |-> FALSE, residue |-> FALSE]
  BY <1>3 DEF NoTry
<1>9. 0 \in 0..MAX_FALLBACK_CANDIDATES
  BY FallbackAssumption
<1>5. /\ try'.pc = "host" /\ try'.k = 0 /\ try'.snap = Registered /\ try' \in TryKind
  BY <1>1, <1>8, <1>9 DEF TryKind
<1>6. FallTyped'
  BY <1>3, <1>4, <1>5 DEF FallInv, FallTyped
<1>7. AttemptsFit' /\ RolledBack' /\ FirstKnown' /\ FirstStartsClean'
  BY <1>1, <1>2, <1>3, <1>5 DEF AttemptsFit, RolledBack, FirstKnown, FirstStartsClean, Trying
<1> QED BY <1>6, <1>7 DEF FallInv

LEMMA BuildBreaksKeeps == FallInv /\ BuildBreaks => FallInv'
BY DEF BuildBreaks, FallInv, FallTyped, TryKind, MaybeFiles, ShotKind, AttemptsFit, Trying,
       RolledBack, FirstKnown, FirstStartsClean

LEMMA BringUpKeeps == FallInv /\ BringUp => FallInv'
BY DEF BringUp, FallInv, FallTyped, TryKind, MaybeFiles, ShotKind, AttemptsFit, Trying,
       RolledBack, FirstKnown, FirstStartsClean

LEMMA ProbeFailsKeeps == FallInv /\ ProbeFails => FallInv'
<1> SUFFICES ASSUME FallInv, ProbeFails PROVE FallInv'
    OBVIOUS
<1>1. FallTyped'
  BY DEF ProbeFails, Bad, Good, OwnPortBack, FallInv, FallTyped, TryKind, MaybeFiles
<1>2. AttemptsFit'
  BY DEF ProbeFails, Bad, Good, OwnPortBack, FallInv, FallTyped, TryKind, ShotKind, AttemptsFit,
     Trying
<1>3. RolledBack'
  BY DEF ProbeFails, Bad, Good, OwnPortBack, FallInv, FallTyped, TryKind, RolledBack
<1>4. FirstKnown' /\ FirstStartsClean'
  BY DEF ProbeFails, Bad, Good, OwnPortBack, FallInv, FallTyped, TryKind, FirstKnown,
     FirstStartsClean, Trying
<1> QED BY <1>1, <1>2, <1>3, <1>4 DEF FallInv

LEMMA LateStepFailsKeeps == FallInv /\ LateStepFails => FallInv'
BY DEF LateStepFails, Bad, OwnPortBack, FallInv, FallTyped, TryKind, MaybeFiles, ShotKind,
       AttemptsFit, Trying, RolledBack, FirstKnown, FirstStartsClean

LEMMA HostSucceedsKeeps == FallInv /\ HostSucceeds => FallInv'
BY DEF HostSucceeds, worldVars, FallInv, FallTyped, TryKind, MaybeFiles, ShotKind, AttemptsFit,
       Trying, RolledBack, FirstKnown, FirstStartsClean

LEMMA CancelStartKeeps == FallInv /\ CancelStart => FallInv'
<1> SUFFICES ASSUME FallInv, CancelStart PROVE FallInv'
    OBVIOUS
<1>1. FallTyped'
  BY DEF CancelStart, Bad, FallInv, FallTyped, TryKind, MaybeFiles
<1>2. AttemptsFit'
  BY DEF CancelStart, Bad, FallInv, FallTyped, TryKind, ShotKind, AttemptsFit, Trying
<1>3. RolledBack'
  BY DEF CancelStart, Bad, FallInv, FallTyped, TryKind, RolledBack
<1>4. FirstKnown' /\ FirstStartsClean'
  BY DEF CancelStart, Bad, FallInv, FallTyped, TryKind, FirstKnown, FirstStartsClean, Trying
<1> QED BY <1>1, <1>2, <1>3, <1>4 DEF FallInv

LEMMA RollBackContainerKeeps == FallInv /\ RollBackContainer => FallInv'
<1> SUFFICES ASSUME FallInv, RollBackContainer PROVE FallInv'
    OBVIOUS
<1>1. FallTyped'
  BY DEF RollBackContainer, Bad, Good, FallInv, FallTyped, TryKind, MaybeFiles
<1>2. AttemptsFit'
  BY DEF RollBackContainer, Bad, Good, FallInv, FallTyped, TryKind, ShotKind, AttemptsFit, Trying
<1>3. RolledBack'
  BY DEF RollBackContainer, Bad, Good, FallInv, FallTyped, TryKind, RolledBack
<1>4. FirstKnown' /\ FirstStartsClean'
  BY DEF RollBackContainer, Bad, Good, FallInv, FallTyped, TryKind, FirstKnown, FirstStartsClean,
     Trying
<1> QED BY <1>1, <1>2, <1>3, <1>4 DEF FallInv

LEMMA GiveUpKeeps == FallInv /\ GiveUp => FallInv'
BY DEF GiveUp, worldVars, FallInv, FallTyped, TryKind, MaybeFiles, ShotKind, AttemptsFit, Trying,
       RolledBack, FirstKnown, FirstStartsClean

LEMMA StartCrashesKeeps == FallInv /\ StartCrashes => FallInv'
<1> SUFFICES ASSUME FallInv, StartCrashes PROVE FallInv'
    OBVIOUS
<1>1. FallTyped'
  BY DEF StartCrashes, Bad, worldVars, FallInv, FallTyped, TryKind, MaybeFiles
<1>2. AttemptsFit'
  BY DEF StartCrashes, Bad, worldVars, FallInv, FallTyped, TryKind, ShotKind, AttemptsFit, Trying
<1>3. RolledBack'
  BY DEF StartCrashes, Bad, worldVars, FallInv, FallTyped, TryKind, RolledBack
<1>4. FirstKnown' /\ FirstStartsClean'
  BY DEF StartCrashes, Bad, worldVars, FallInv, FallTyped, TryKind, FirstKnown, FirstStartsClean,
     Trying
<1> QED BY <1>1, <1>2, <1>3, <1>4 DEF FallInv

LEMMA ContainerExitsKeeps == FallInv /\ ContainerExits => FallInv'
<1> SUFFICES ASSUME FallInv, ContainerExits PROVE FallInv'
    OBVIOUS
<1>1. FallTyped'
  BY DEF ContainerExits, FallInv, FallTyped
<1>2. AttemptsFit'
  BY DEF ContainerExits, Bad, Good, FallInv, FallTyped, TryKind, ShotKind, AttemptsFit, Trying
<1>3. RolledBack'
  BY DEF ContainerExits, Bad, Good, FallInv, FallTyped, TryKind, RolledBack
<1>4. FirstKnown' /\ FirstStartsClean'
  BY DEF ContainerExits, Bad, Good, FallInv, FallTyped, TryKind, FirstKnown, FirstStartsClean,
     Trying
<1> QED BY <1>1, <1>2, <1>3, <1>4 DEF FallInv

LEMMA RestoreSnapshotKeeps == FallInv /\ RestoreSnapshot => FallInv'
<1> SUFFICES ASSUME FallInv, RestoreSnapshot PROVE FallInv'
    OBVIOUS
<1>1. /\ try.pc = "restore" /\ port' = PortBack /\ UNCHANGED <<cont, needs>>
      /\ try'.pc = IF try.k = 0 THEN "decide" ELSE "next"
      /\ try'.k = try.k /\ try'.snap = try.snap
      /\ fgh'.base = fgh.base /\ fgh'.blind = fgh.blind
      /\ gen' \in {gen, FilesBack} /\ plan' \in {plan, PlanBack}
      /\ ~fgh'.left => gen' = FilesBack /\ plan' = PlanBack /\ fgh.left = fgh'.left
      /\ ~try'.residue => try'.residue = try.residue /\ fgh'.left = fgh.left
      /\ try'.residue \in BOOLEAN
      /\ try' \in TryKind
      /\ fgh' \in [moved : BOOLEAN, blind : BOOLEAN, cut : BOOLEAN, left : BOOLEAN, base : ShotKind]
  BY DEF RestoreSnapshot, FallInv, FallTyped, TryKind, Good
<1>2. /\ FilesBack = try.snap.gen /\ FilesBack \in MaybeFiles
      /\ PlanBack.id = try.snap.plan.id
      /\ PlanBack \in [id : Plans, sub : Plans \cup {NoSub}]
      /\ PortBack = fgh.base.port
  BY <1>1 DEF FilesBack, PlanBack, PortBack, FallInv, FallTyped, TryKind, ShotKind, AttemptsFit,
              Trying
<1>3. FallTyped'
  BY <1>1, <1>2 DEF FallInv, FallTyped, TryKind, ShotKind
<1>4. AttemptsFit'
  BY <1>1, <1>2 DEF FallInv, AttemptsFit, Trying
<1>5. RolledBack'
  BY <1>1, <1>2 DEF FallInv, AttemptsFit, RolledBack, Trying
<1>6. FirstKnown' /\ FirstStartsClean'
  BY <1>1 DEF FallInv, FallTyped, TryKind, FirstKnown, FirstStartsClean, Trying
<1> QED BY <1>3, <1>4, <1>5, <1>6 DEF FallInv

LEMMA ApplyCandidateKeeps == FallInv /\ ApplyCandidate => FallInv'
<1> SUFFICES ASSUME FallInv, ApplyCandidate PROVE FallInv'
    OBVIOUS
<1>1. IsFiniteSet(Equal) /\ Cardinality(Equal) \in Nat /\ Equal \in SUBSET Nat
  <2>1. 1 \in Int /\ Last \in Int
    BY FallbackAssumption
  <2>2. IsFiniteSet(1..Last)
    BY <2>1, FS_Interval
  <2>3. Equal \in SUBSET (1..Last) /\ Equal \in SUBSET Nat
    BY FallbackAssumption
  <2>4. IsFiniteSet(Equal)
    BY <2>2, <2>3, FS_Subset
  <2> QED BY <2>3, <2>4, FS_CardinalityType
<1>2. /\ Tries \in Nat /\ Tries <= Cardinality(Equal) /\ Tries <= MAX_FALLBACK_CANDIDATES
  BY <1>1, FallbackAssumption DEF Tries
<1>3. /\ try.k \in Nat /\ try.k < Tries
      /\ try.pc \in {"decide", "next"}
      /\ try.pc = "decide" => try.k = 0 /\ Safe
      /\ try.pc = "next" => try.k # 0
  BY <1>2 DEF ApplyCandidate, MayFallBack, FallInv, FallTyped, TryKind, FirstKnown
<1>4. Candidate(try.k + 1) \in Plans
  <2>1. try.k < Cardinality(Equal)
    BY <1>1, <1>2, <1>3
  <2>2. (try.k + 1) - 1 = try.k
    BY <1>3
  <2>3. \E c \in Equal : Cardinality({d \in Equal : d < c}) = (try.k + 1) - 1
    BY <2>1, <2>2, <1>1, <1>3, RankOf
  <2>4. Candidate(try.k + 1) \in Equal
    BY <2>3, Zenon DEF Candidate
  <2>5. Equal \subseteq 0..Last
    BY FallbackAssumption
  <2> QED BY <2>4, <2>5 DEF Plans
<1>5. /\ plan' = Chosen(Candidate(try.k + 1))
      /\ plan' \in [id : Plans, sub : Plans \cup {NoSub}]
  BY <1>4 DEF ApplyCandidate, Chosen, SubOf
<1>6. Shot \in ShotKind
  BY DEF Shot, ShotKind, FallInv, FallTyped
<1>7. /\ try'.pc = "host" /\ try'.k = try.k + 1 /\ try'.snap = Shot
      /\ UNCHANGED <<gen, port, cont, needs, fgh>>
  BY DEF ApplyCandidate, NoTry
<1>8. try' \in TryKind
  <2>1. try.k + 1 \in 0..MAX_FALLBACK_CANDIDATES
    BY <1>2, <1>3, FallbackAssumption
  <2>2. try.policy \in Policies
    BY DEF FallInv, FallTyped, TryKind
  <2> QED BY <2>1, <2>2, <1>6 DEF ApplyCandidate, NoTry, TryKind
<1>9. FallTyped'
  BY <1>5, <1>7, <1>8 DEF FallInv, FallTyped
<1>10. AttemptsFit' /\ RolledBack' /\ FirstKnown'
  BY <1>3, <1>7 DEF FallInv, AttemptsFit, RolledBack, FirstKnown, Shot, Trying
<1>11. FirstStartsClean'
  BY <1>7, <1>3 DEF FirstStartsClean, Safe, FallInv, FirstKnown, RolledBack, Trying
<1> QED BY <1>9, <1>10, <1>11 DEF FallInv

LEMMA FallbackNextKeeps == FallInv /\ [FallbackNext]_fallVars => FallInv'
<1> SUFFICES ASSUME FallInv, [FallbackNext]_fallVars PROVE FallInv'
    OBVIOUS
<1>1. CASE UNCHANGED fallVars
  BY <1>1 DEF fallVars, FallInv, FallTyped, AttemptsFit, RolledBack, FirstKnown,
              FirstStartsClean, Trying
<1> QED BY <1>1, BeginStartKeeps, BuildBreaksKeeps, BringUpKeeps, ProbeFailsKeeps,
           LateStepFailsKeeps, HostSucceedsKeeps, CancelStartKeeps, RollBackContainerKeeps,
           RestoreSnapshotKeeps, ApplyCandidateKeeps, GiveUpKeeps, StartCrashesKeeps,
           ContainerExitsKeeps DEF FallbackNext

(* The invariant holds whatever the plans are and whichever attempts fail.  *)
THEOREM FallbackInvariant == FallbackSpec => []FallInv
  BY FallBegins, FallbackNextKeeps, PTL DEF FallbackSpec

(* A start that ends without a deployment, and was not cut short, gave up.  *)
LEMMA UndoneWhenIdle ==
    FallInv /\ [FallbackNext]_fallVars =>
        (try.pc # "idle" /\ try'.pc = "idle" /\ ~fgh'.left /\ ~fgh'.cut
            => port' = fgh.base.port /\ gen' = fgh.base.gen /\ plan'.id = fgh.base.plan.id)
<1> SUFFICES ASSUME FallInv, [FallbackNext]_fallVars, try.pc # "idle", try'.pc = "idle",
                    ~fgh'.left, ~fgh'.cut
             PROVE  port' = fgh.base.port /\ gen' = fgh.base.gen /\ plan'.id = fgh.base.plan.id
    OBVIOUS
<1>1. try \in TryKind /\ fgh.cut \in BOOLEAN
  BY DEF FallInv, FallTyped
<1>2. GiveUp
  <2>1. ~UNCHANGED fallVars
    BY DEF fallVars
  <2>2. ASSUME NEW p \in Policies, BeginStart(p) PROVE FALSE
    BY <2>2 DEF BeginStart
  <2>3. ~BuildBreaks /\ ~BringUp /\ ~ProbeFails /\ ~LateStepFails /\ ~HostSucceeds
    BY <1>1 DEF BuildBreaks, BringUp, ProbeFails, LateStepFails, HostSucceeds, TryKind
  <2>4. ~CancelStart /\ ~StartCrashes /\ ~ContainerExits
    BY <1>1 DEF CancelStart, StartCrashes, ContainerExits, TryKind, FallInv, FallTyped
  <2>5. ~RollBackContainer
    BY <1>1 DEF RollBackContainer, TryKind
  <2>6. ~RestoreSnapshot
    BY <1>1 DEF RestoreSnapshot, TryKind
  <2>7. ~ApplyCandidate
    BY DEF ApplyCandidate, NoTry
  <2> QED BY <2>1, <2>2, <2>3, <2>4, <2>5, <2>6, <2>7 DEF FallbackNext
<1>3. try.pc \in {"decide", "next"} /\ UNCHANGED <<plan, gen, port, fgh>>
  BY <1>2 DEF GiveUp, worldVars
<1> QED BY <1>3 DEF FallInv, RolledBack

(* The first fallback plan starts where the primary one started, and a start *)
(* that fails leaves the world as it was (_try_host_with_fallback,           *)
(* _rollback_attempt).                                                       *)
THEOREM FallbackStaysSafe == FallbackSpec => FallbackIsSafe
<1>1. FallInv => FallbackTypeOK /\ FirstStartsClean
  BY DEF FallInv, FallTyped, FallbackTypeOK, TryKind
<1>2. FallInv /\ [FallbackNext]_fallVars =>
        [try.pc # "idle" /\ try'.pc = "idle" /\ ~fgh'.left /\ ~fgh'.cut
            => port' = fgh.base.port /\ gen' = fgh.base.gen /\ plan'.id = fgh.base.plan.id]_fallVars
  BY UndoneWhenIdle
<1> QED BY <1>1, <1>2, FallbackInvariant, PTL
        DEF FallbackSpec, FallbackIsSafe, FailedStartUndone

(***************************************************************************)
(* The archived versions and the rollback.                                 *)
(***************************************************************************)

(* A nonempty set of naturals up to a bound has a greatest element.         *)
LEMMA GreatestOf ==
    ASSUME NEW N \in Nat, NEW T \in SUBSET (0..N), T # {}
    PROVE  \E n \in T : \A m \in T : m <= n
<1> DEFINE U == {N - x : x \in T}
<1>1. U \in SUBSET Nat /\ U # {}
  <2>1. \A x \in T : N - x \in Nat
    OBVIOUS
  <2>2. PICK x \in T : TRUE
    OBVIOUS
  <2>3. N - x \in U
    OBVIOUS
  <2> QED BY <2>1, <2>3
<1>2. PICK u \in U : \A w \in U : u <= w
  BY <1>1, LeastOf
<1>3. PICK n \in T : u = N - n
  BY <1>2
<1>4. ASSUME NEW m \in T PROVE m <= n
  BY <1>2, <1>3
<1> QED BY <1>4

Images  == Image \cup {NoImage}
RowKind == [st : {"none", "running", "success", "failed"}, ref : BOOLEAN, img : Images]
BackPcs == {"idle", "tag", "snap", "record", "gc", "stop", "files", "retag", "up", "land",
            "comp", "comp_files", "comp_tag", "comp_up", "judge"}
Outs    == {"none", "failed", "done", "died", "refused", "ok", "restored", "not restored"}
BackKind == [pc : BackPcs, to : 0..MaxBuild, files : 0..MaxBuild, img : Images,
             put : SUBSET {"files", "image"}, out : Outs]
BoxKind == [img : Images, files : 0..MaxBuild]

StoreTyped ==
    /\ rows \in [Version -> RowKind] /\ tags \subseteq Version /\ snaps \subseteq Version
WorldTyped ==
    /\ files \in 0..MaxBuild /\ latest \in Images /\ box \in BoxKind
    /\ record \in [img : Images, id : BOOLEAN, src : Images]
    /\ storeGhost \in [box : BoxKind, lost : BOOLEAN]
BackTyped ==
    /\ back \in BackKind
    /\ back.pc \in {"stop", "files", "retag", "up", "land"} => back.to \in Version

(* What the compensation put back is back, for what follows it. *)
Compensates ==
    /\ back.pc \in {"comp_tag", "comp_up", "judge"} /\ "files" \in back.put => files = back.files
    /\ back.pc \in {"comp_up", "judge"} /\ "image" \in back.put => latest = back.img
    /\ back.pc = "judge" => box = [img |-> latest, files |-> files]
    /\ back.pc \in {"idle", "tag", "snap", "record", "gc", "stop", "files", "retag", "up", "land",
                    "comp", "comp_files"} => back.put = {}
    /\ back.pc = "comp_tag" => "image" \notin back.put

(* What ran before a rollback is what it wants to come back to. *)
KnowsBefore ==
    /\ back.pc \in {"stop", "files", "retag", "up", "land", "comp", "comp_files", "comp_tag",
                    "comp_up", "judge"} /\ storeGhost.box # NoContainer
          => storeGhost.box = [img |-> back.img, files |-> back.files]
    /\ back.out # "none" => back.pc = "idle"

(* While nothing was lost outside the code every archived version has its   *)
(* image and its snapshot; the one being archived is not archived yet.      *)
ArchivesWhole ==
    ~storeGhost.lost => \A v \in Version : rows[v].ref => Restorable(v)
ArchivesLast ==
    /\ back.pc \in {"tag", "snap", "record", "gc"} => LastBuild \in Version
    /\ back.pc \in {"tag", "snap", "record"} => /\ rows[LastBuild].st = "success"
                                                /\ ~rows[LastBuild].ref
    /\ back.pc \in {"snap", "record"} /\ ~storeGhost.lost => LastBuild \in tags
    /\ back.pc = "record" => LastBuild \in snaps
    /\ back.pc \in {"tag", "snap", "record", "gc"} /\ ~storeGhost.lost => record.img # NoImage

VersionInv ==
    /\ StoreTyped /\ WorldTyped /\ BackTyped /\ Compensates /\ KnowsBefore
    /\ SaysRestored /\ ArchivesWhole /\ ArchivesLast

LEMMA LastBuildIs ==
    ASSUME MaxBuild \in Nat
    PROVE  /\ LastBuild \in 0..MaxBuild
           /\ LastBuild # 0 => rows[LastBuild].st # "none"
           /\ \A w \in BuiltOnes : w <= LastBuild
<1>1. BuiltOnes \cup {0} \in SUBSET (0..MaxBuild) /\ BuiltOnes \cup {0} # {}
  BY DEF BuiltOnes, Version
<1>2. PICK n \in BuiltOnes \cup {0} : \A m \in BuiltOnes \cup {0} : m <= n
  BY <1>1, GreatestOf
<1>3. LastBuild \in BuiltOnes \cup {0} /\ \A w \in BuiltOnes : w <= LastBuild
  BY <1>2, Zenon DEF LastBuild
<1> QED BY <1>1, <1>3 DEF BuiltOnes

LEMMA VersionBegins == VersionInit => VersionInv
<1> SUFFICES ASSUME VersionInit PROVE VersionInv
    OBVIOUS
<1> USE VersionAssumption DEF VersionInit
<1>1. StoreTyped /\ WorldTyped /\ BackTyped
  BY DEF StoreTyped, WorldTyped, BackTyped, BackKind, BackPcs, Outs, Images, RowKind, NoRow,
         BoxKind, NoContainer, NoBack
<1>2. Compensates /\ KnowsBefore /\ SaysRestored
  BY DEF Compensates, KnowsBefore, SaysRestored, NoBack
<1>3. ArchivesWhole
  BY DEF ArchivesWhole, NoRow
<1>4. ArchivesLast
  BY DEF ArchivesLast, NoBack
<1> QED BY <1>1, <1>2, <1>3, <1>4 DEF VersionInv

(* A new row is one after the last, which then is the last.                 *)
LEMMA NewRowIs ==
    ASSUME VersionInv, LastBuild < MaxBuild, NEW s \in {"failed", "success"}, rows' = NewRow(s)
    PROVE  /\ rows' \in [Version -> RowKind]
           /\ LastBuild + 1 \in Version
           /\ rows[LastBuild + 1].st = "none"
           /\ rows'[LastBuild + 1].st = s /\ ~rows'[LastBuild + 1].ref
           /\ \A v \in Version : /\ rows'[v].ref => v # LastBuild + 1
                                 /\ v # LastBuild + 1 => rows'[v].ref = rows[v].ref
                                 /\ v # LastBuild + 1 /\ rows[v].st # "running"
                                        => rows'[v] = rows[v]
           /\ LastBuild' = LastBuild + 1
<1> USE VersionAssumption
<1>1. LastBuild \in 0..MaxBuild /\ \A w \in BuiltOnes : w <= LastBuild
  BY LastBuildIs
<1> DEFINE n == LastBuild + 1
<1>2. n \in Version
  BY <1>1 DEF Version
<1>3. NoRow \in RowKind /\ NoRow.ref = FALSE /\ rows \in [Version -> RowKind]
  BY DEF NoRow, RowKind, Images, VersionInv, StoreTyped
<1>4. rows[n].st = "none"
  BY <1>1, <1>2 DEF BuiltOnes
<1>5. ASSUME NEW v \in Version
      PROVE  /\ rows'[v] \in RowKind
             /\ v = n => rows'[v].st = s /\ ~rows'[v].ref
             /\ v # n => rows'[v].ref = rows[v].ref
             /\ v # n /\ rows[v].st # "running" => rows'[v] = rows[v]
             /\ v # n => (rows'[v].st # "none" <=> rows[v].st # "none")
  BY <1>3 DEF NewRow, NoRow, RowKind, Images
<1>6. LastBuild' = n
  <2>1. LastBuild' \in 0..MaxBuild /\ (LastBuild' # 0 => rows'[LastBuild'].st # "none")
        /\ \A w \in BuiltOnes' : w <= LastBuild'
    <3>1. \E x \in (BuiltOnes \cup {0})' : \A m \in (BuiltOnes \cup {0})' : m <= x
      <4>1. (BuiltOnes \cup {0})' \in SUBSET (0..MaxBuild) /\ (BuiltOnes \cup {0})' # {}
        BY DEF BuiltOnes, Version
      <4> QED BY <4>1, GreatestOf
    <3>2. LastBuild' \in (BuiltOnes \cup {0})' /\ \A w \in BuiltOnes' : w <= LastBuild'
      BY <3>1, Zenon DEF LastBuild
    <3> QED BY <3>2 DEF BuiltOnes, Version
  <2>2. n \in BuiltOnes'
    BY <1>2, <1>5 DEF BuiltOnes
  <2>3. ASSUME LastBuild' # n PROVE FALSE
    BY <2>1, <2>2, <1>1, <1>5, <2>3 DEF Version, BuiltOnes
  <2> QED BY <2>3
<1>7. rows' \in [Version -> RowKind]
  BY <1>5 DEF NewRow
<1>8. rows'[n].st = s /\ ~rows'[n].ref
  BY <1>2, <1>5
<1> QED BY <1>2, <1>4, <1>5, <1>6, <1>7, <1>8

(* Whoever leaves the rows leaves the last build. *)
LEMMA LastBuildStays == UNCHANGED rows => LastBuild' = LastBuild
  BY DEF LastBuild, BuiltOnes


(* What a step that leaves the store leaves of the archives.                *)
LEMMA ArchivesStay ==
    ASSUME VersionInv, UNCHANGED storeVars,
           storeGhost.lost => storeGhost'.lost,
           back'.pc \notin {"tag", "snap", "record", "gc"}
    PROVE  StoreTyped' /\ ArchivesWhole' /\ ArchivesLast'
BY DEF VersionInv, StoreTyped, storeVars, ArchivesWhole, Restorable, IsArchived, ArchivesLast

(* A step of a rollback goes on, with or without one more thing put back,   *)
(* or ends it.                                                              *)
GoesTo(p, put) ==
    /\ back'.pc = p /\ back'.put = put /\ back'.to = back.to /\ back'.files = back.files
    /\ back'.img = back.img /\ back'.out = back.out
EndsAs(o) == back'.pc = "idle" /\ back'.put = {} /\ back'.out = o
LEMMA StepsTo ==
    ASSUME VersionInv, NEW p \in BackPcs \ {"stop", "files", "retag", "up", "land"}, StepTo(p)
    PROVE  BackTyped' /\ GoesTo(p, back.put)
BY DEF VersionInv, BackTyped, StepTo, BackKind, GoesTo
LEMMA StepsForward ==
    ASSUME VersionInv, NEW p \in {"files", "retag", "up", "land"}, StepTo(p), back.to \in Version
    PROVE  BackTyped' /\ GoesTo(p, back.put)
BY DEF VersionInv, BackTyped, StepTo, BackKind, BackPcs, GoesTo
LEMMA StepsPutting ==
    ASSUME VersionInv, NEW p \in {"comp_tag", "comp_up"}, NEW x \in {"files", "image"},
           back' = [back EXCEPT !.pc = p, !.put = @ \cup {x}]
    PROVE  BackTyped' /\ GoesTo(p, back.put \cup {x})
BY DEF VersionInv, BackTyped, BackKind, BackPcs, GoesTo
LEMMA Ends ==
    ASSUME NEW o \in Outs, Finishes(o)
    PROVE  BackTyped' /\ EndsAs(o)
BY VersionAssumption DEF Finishes, NoBack, Images, BackKind, BackPcs, BackTyped, EndsAs

LEMMA FilesOfTargetKeeps == VersionInv /\ FilesOfTarget => VersionInv'
<1> SUFFICES ASSUME VersionInv, FilesOfTarget PROVE VersionInv'
    OBVIOUS
<1>0. back \in BackKind /\ storeGhost \in [box : BoxKind, lost : BOOLEAN] /\ back.pc = "files"
  BY DEF VersionInv, BackTyped, WorldTyped, FilesOfTarget, InStep
<1>1. /\ BackTyped'
      /\ \/ GoesTo("retag", back.put)
         \/ GoesTo("comp", back.put)
  BY <1>0, StepsTo, StepsForward, StepsPutting, Ends DEF VersionInv, BackTyped, FilesOfTarget,
         BackPcs, Outs
<1>2. StoreTyped' /\ ArchivesWhole' /\ ArchivesLast'
  BY <1>1, ArchivesStay DEF FilesOfTarget, storeVars, GoesTo, EndsAs
<1>3. WorldTyped'
  BY <1>0, VersionAssumption DEF FilesOfTarget, InStep, VersionInv, WorldTyped, BackTyped,
     BackKind, BoxKind,
     NoContainer, Images, StoreTyped, RowKind
<1>4. Compensates'
  BY <1>0, <1>1 DEF FilesOfTarget, InStep, VersionInv, Compensates, GoesTo, EndsAs
<1>5. KnowsBefore' /\ SaysRestored'
  BY <1>0, <1>1 DEF FilesOfTarget, InStep, VersionInv, KnowsBefore, SaysRestored, GoesTo, EndsAs
<1> QED BY <1>1, <1>2, <1>3, <1>4, <1>5 DEF VersionInv

LEMMA RetagKeeps == VersionInv /\ Retag => VersionInv'
<1> SUFFICES ASSUME VersionInv, Retag PROVE VersionInv'
    OBVIOUS
<1>0. back \in BackKind /\ storeGhost \in [box : BoxKind, lost : BOOLEAN] /\ back.pc = "retag"
  BY DEF VersionInv, BackTyped, WorldTyped, Retag, InStep
<1>1. /\ BackTyped'
      /\ \/ GoesTo("up", back.put)
         \/ GoesTo("comp", back.put)
  BY <1>0, StepsTo, StepsForward, StepsPutting, Ends DEF VersionInv, BackTyped, Retag, BackPcs,
         Outs
<1>2. StoreTyped' /\ ArchivesWhole' /\ ArchivesLast'
  BY <1>1, ArchivesStay DEF Retag, storeVars, GoesTo, EndsAs
<1>3. WorldTyped'
  BY <1>0, VersionAssumption DEF Retag, InStep, VersionInv, WorldTyped, BackTyped, BackKind,
     BoxKind,
     NoContainer, Images, StoreTyped, RowKind
<1>4. Compensates'
  BY <1>0, <1>1 DEF Retag, InStep, VersionInv, Compensates, GoesTo, EndsAs
<1>5. KnowsBefore' /\ SaysRestored'
  BY <1>0, <1>1 DEF Retag, InStep, VersionInv, KnowsBefore, SaysRestored, GoesTo, EndsAs
<1> QED BY <1>1, <1>2, <1>3, <1>4, <1>5 DEF VersionInv

LEMMA UpTargetKeeps == VersionInv /\ UpTarget => VersionInv'
<1> SUFFICES ASSUME VersionInv, UpTarget PROVE VersionInv'
    OBVIOUS
<1>0. back \in BackKind /\ storeGhost \in [box : BoxKind, lost : BOOLEAN] /\ back.pc = "up"
  BY DEF VersionInv, BackTyped, WorldTyped, UpTarget, InStep
<1>1. /\ BackTyped'
      /\ \/ GoesTo("land", back.put)
         \/ GoesTo("comp", back.put)
  BY <1>0, StepsTo, StepsForward, StepsPutting, Ends DEF VersionInv, BackTyped, UpTarget, BackPcs,
         Outs
<1>2. StoreTyped' /\ ArchivesWhole' /\ ArchivesLast'
  BY <1>1, ArchivesStay DEF UpTarget, storeVars, GoesTo, EndsAs
<1>3. WorldTyped'
  BY <1>0, VersionAssumption DEF UpTarget, InStep, VersionInv, WorldTyped, BackTyped, BackKind,
     BoxKind,
     NoContainer, Images, StoreTyped, RowKind
<1>4. Compensates'
  BY <1>0, <1>1 DEF UpTarget, InStep, VersionInv, Compensates, GoesTo, EndsAs
<1>5. KnowsBefore' /\ SaysRestored'
  BY <1>0, <1>1 DEF UpTarget, InStep, VersionInv, KnowsBefore, SaysRestored, GoesTo, EndsAs
<1> QED BY <1>1, <1>2, <1>3, <1>4, <1>5 DEF VersionInv

LEMMA LandKeeps == VersionInv /\ Land => VersionInv'
<1> SUFFICES ASSUME VersionInv, Land PROVE VersionInv'
    OBVIOUS
<1>0. back \in BackKind /\ storeGhost \in [box : BoxKind, lost : BOOLEAN] /\ back.pc = "land"
  BY DEF VersionInv, BackTyped, WorldTyped, Land, InStep
<1>1. BackTyped' /\ EndsAs("ok")
  BY <1>0, StepsTo, StepsForward, StepsPutting, Ends DEF VersionInv, BackTyped, Land, BackPcs,
         Outs
<1>2. StoreTyped' /\ ArchivesWhole' /\ ArchivesLast'
  BY <1>1, ArchivesStay DEF Land, storeVars, GoesTo, EndsAs
<1>3. WorldTyped'
  BY <1>0, VersionAssumption DEF Land, InStep, VersionInv, WorldTyped, BackTyped, BackKind,
     BoxKind,
     NoContainer, Images, StoreTyped, RowKind
<1>4. Compensates'
  BY <1>0, <1>1 DEF Land, InStep, VersionInv, Compensates, GoesTo, EndsAs
<1>5. KnowsBefore' /\ SaysRestored'
  BY <1>0, <1>1 DEF Land, InStep, VersionInv, KnowsBefore, SaysRestored, GoesTo, EndsAs
<1> QED BY <1>1, <1>2, <1>3, <1>4, <1>5 DEF VersionInv

LEMMA CompDownKeeps == VersionInv /\ CompDown => VersionInv'
<1> SUFFICES ASSUME VersionInv, CompDown PROVE VersionInv'
    OBVIOUS
<1>0. back \in BackKind /\ storeGhost \in [box : BoxKind, lost : BOOLEAN] /\ back.pc = "comp"
  BY DEF VersionInv, BackTyped, WorldTyped, CompDown, InStep
<1>1. BackTyped' /\ (GoesTo("comp_files", back.put))
  BY <1>0, StepsTo, StepsForward, StepsPutting, Ends DEF VersionInv, BackTyped, CompDown, BackPcs,
         Outs
<1>2. StoreTyped' /\ ArchivesWhole' /\ ArchivesLast'
  BY <1>1, ArchivesStay DEF CompDown, storeVars, GoesTo, EndsAs
<1>3. WorldTyped'
  BY <1>0, VersionAssumption DEF CompDown, InStep, VersionInv, WorldTyped, BackTyped, BackKind,
     BoxKind,
     NoContainer, Images, StoreTyped, RowKind
<1>4. Compensates'
  BY <1>0, <1>1 DEF CompDown, InStep, VersionInv, Compensates, GoesTo, EndsAs
<1>5. KnowsBefore' /\ SaysRestored'
  BY <1>0, <1>1 DEF CompDown, InStep, VersionInv, KnowsBefore, SaysRestored, GoesTo, EndsAs
<1> QED BY <1>1, <1>2, <1>3, <1>4, <1>5 DEF VersionInv

LEMMA StopOldKeeps == VersionInv /\ StopOld => VersionInv'
<1> SUFFICES ASSUME VersionInv, StopOld PROVE VersionInv'
    OBVIOUS
<1>0. back \in BackKind /\ storeGhost \in [box : BoxKind, lost : BOOLEAN] /\ back.pc = "stop"
  BY DEF VersionInv, BackTyped, WorldTyped, StopOld, InStep
<1>1. /\ BackTyped'
      /\ \/ GoesTo("files", back.put)
         \/ EndsAs("refused")
  BY <1>0, StepsTo, StepsForward, StepsPutting, Ends DEF VersionInv, BackTyped, StopOld, BackPcs,
         Outs
<1>2. StoreTyped' /\ ArchivesWhole' /\ ArchivesLast'
  BY <1>1, ArchivesStay DEF StopOld, storeVars, GoesTo, EndsAs
<1>3. WorldTyped'
  BY <1>0, VersionAssumption DEF StopOld, VersionInv, WorldTyped, BoxKind, NoContainer, Images,
     BackKind
<1>4. Compensates'
  BY <1>0, <1>1 DEF StopOld, VersionInv, Compensates, GoesTo, EndsAs
<1>5. KnowsBefore' /\ SaysRestored'
  BY <1>0, <1>1 DEF StopOld, VersionInv, KnowsBefore, SaysRestored, GoesTo, EndsAs
<1> QED BY <1>1, <1>2, <1>3, <1>4, <1>5 DEF VersionInv

LEMMA CompFilesKeeps == VersionInv /\ CompFiles => VersionInv'
<1> SUFFICES ASSUME VersionInv, CompFiles PROVE VersionInv'
    OBVIOUS
<1>0. back \in BackKind /\ storeGhost \in [box : BoxKind, lost : BOOLEAN] /\ back.pc = "comp_files"
  BY DEF VersionInv, BackTyped, WorldTyped, CompFiles, InStep
<1>1. /\ BackTyped'
      /\ \/ files' = back.files /\ GoesTo("comp_tag", back.put \cup {"files"})
         \/ GoesTo("comp_tag", back.put)
  BY <1>0, StepsTo, StepsForward, StepsPutting, Ends DEF VersionInv, BackTyped, CompFiles,
         BackPcs, Outs
<1>2. StoreTyped' /\ ArchivesWhole' /\ ArchivesLast'
  BY <1>1, ArchivesStay DEF CompFiles, storeVars, GoesTo, EndsAs
<1>3. WorldTyped'
  BY <1>0, VersionAssumption DEF CompFiles, VersionInv, WorldTyped, BoxKind, NoContainer, Images,
     BackKind
<1>4. Compensates'
  BY <1>0, <1>1 DEF CompFiles, BackKind, VersionInv, Compensates, GoesTo, EndsAs
<1>5. KnowsBefore' /\ SaysRestored'
  BY <1>0, <1>1 DEF CompFiles, VersionInv, KnowsBefore, SaysRestored, GoesTo, EndsAs
<1> QED BY <1>1, <1>2, <1>3, <1>4, <1>5 DEF VersionInv

LEMMA CompTagKeeps == VersionInv /\ CompTag => VersionInv'
<1> SUFFICES ASSUME VersionInv, CompTag PROVE VersionInv'
    OBVIOUS
<1>0. back \in BackKind /\ storeGhost \in [box : BoxKind, lost : BOOLEAN] /\ back.pc = "comp_tag"
  BY DEF VersionInv, BackTyped, WorldTyped, CompTag, InStep
<1>1. /\ BackTyped'
      /\ \/ latest' = back.img /\ GoesTo("comp_up", back.put \cup {"image"})
         \/ UNCHANGED latest /\ GoesTo("comp_up", back.put)
  BY <1>0, StepsTo, StepsForward, StepsPutting, Ends DEF VersionInv, BackTyped, CompTag, BackPcs,
         Outs
<1>2. StoreTyped' /\ ArchivesWhole' /\ ArchivesLast'
  BY <1>1, ArchivesStay DEF CompTag, storeVars, GoesTo, EndsAs
<1>3. WorldTyped'
  BY <1>0, VersionAssumption DEF CompTag, VersionInv, WorldTyped, BoxKind, NoContainer, Images,
     BackKind
<1>4. Compensates'
  BY <1>0, <1>1 DEF CompTag, BackKind, VersionInv, Compensates, GoesTo, EndsAs
<1>5. KnowsBefore' /\ SaysRestored'
  BY <1>0, <1>1 DEF CompTag, VersionInv, KnowsBefore, SaysRestored, GoesTo, EndsAs
<1> QED BY <1>1, <1>2, <1>3, <1>4, <1>5 DEF VersionInv

LEMMA CompUpKeeps == VersionInv /\ CompUp => VersionInv'
<1> SUFFICES ASSUME VersionInv, CompUp PROVE VersionInv'
    OBVIOUS
<1>0. back \in BackKind /\ storeGhost \in [box : BoxKind, lost : BOOLEAN] /\ back.pc = "comp_up"
  BY DEF VersionInv, BackTyped, WorldTyped, CompUp, InStep
<1>1. /\ BackTyped'
      /\ \/ box' = [img |-> latest, files |-> files] /\ record' = record /\ GoesTo("judge", back.put)
         \/ box' = box /\ record' = [record EXCEPT !.id = FALSE] /\ EndsAs("not restored")
  BY <1>0, StepsTo, StepsForward, StepsPutting, Ends DEF VersionInv, BackTyped, CompUp, BackPcs,
         Outs
<1>2. StoreTyped' /\ ArchivesWhole' /\ ArchivesLast'
  BY <1>1, ArchivesStay DEF CompUp, storeVars, GoesTo, EndsAs
<1>3. WorldTyped'
  <2>1. [img |-> latest, files |-> files] \in BoxKind /\ box \in BoxKind
    BY DEF VersionInv, WorldTyped, BoxKind
  <2>2. record' \in [img : Images, id : BOOLEAN, src : Images] /\ box' \in BoxKind
    BY <1>1, <2>1 DEF VersionInv, WorldTyped
  <2> QED BY <2>2 DEF CompUp, VersionInv, WorldTyped
<1>4. Compensates'
  BY <1>0, <1>1 DEF CompUp, VersionInv, Compensates, GoesTo, EndsAs
<1>5. KnowsBefore' /\ SaysRestored'
  BY <1>0, <1>1 DEF CompUp, VersionInv, KnowsBefore, SaysRestored, GoesTo, EndsAs
<1> QED BY <1>1, <1>2, <1>3, <1>4, <1>5 DEF VersionInv

LEMMA JudgeKeeps == VersionInv /\ Judge => VersionInv'
<1> SUFFICES ASSUME VersionInv, Judge PROVE VersionInv'
    OBVIOUS
<1>0. back \in BackKind /\ storeGhost \in [box : BoxKind, lost : BOOLEAN] /\ back.pc = "judge"
  BY DEF VersionInv, BackTyped, WorldTyped, Judge, InStep
<1>1. /\ BackTyped'
      /\ \/ /\ record' = [record EXCEPT !.id = TRUE, !.img = box.img]
            /\ back.put = {"files", "image"} /\ EndsAs("restored")
         \/ record' = [record EXCEPT !.id = FALSE] /\ EndsAs("not restored")
  BY <1>0, StepsTo, StepsForward, StepsPutting, Ends DEF VersionInv, BackTyped, Judge,
         BackForSure, BackPcs, Outs
<1>2. StoreTyped' /\ ArchivesWhole' /\ ArchivesLast'
  BY <1>1, ArchivesStay DEF Judge, storeVars, GoesTo, EndsAs
<1>3. WorldTyped'
  BY <1>1 DEF VersionInv, WorldTyped, BoxKind, Judge
<1>4. Compensates'
  BY <1>1 DEF Compensates, EndsAs
<1>5. KnowsBefore' /\ SaysRestored'
  BY <1>1, <1>0 DEF Judge, EndsAs, VersionInv, Compensates, KnowsBefore, SaysRestored
<1> QED BY <1>1, <1>2, <1>3, <1>4, <1>5 DEF VersionInv

LEMMA BackDiesKeeps == VersionInv /\ BackDies => VersionInv'
BY Ends, ArchivesStay DEF BackDies, Outs, EndsAs, VersionInv, WorldTyped, Compensates,
       KnowsBefore, SaysRestored

(* The deployment's own bookkeeping touches neither the container nor what  *)
(* the records say of it.                                                   *)
LEMMA BookkeepingKeeps ==
    ASSUME VersionInv, back.pc \in {"tag", "snap", "record", "gc"},
           \/ \E p \in {"snap", "record", "gc"} : GoesTo(p, back.put)
           \/ back'.pc = "idle" /\ back'.put = {} /\ back'.out \in {"done", "died"},
           UNCHANGED <<files, latest, box, record>>,
           storeGhost' \in [box : BoxKind, lost : BOOLEAN], storeGhost'.box = storeGhost.box
    PROVE  WorldTyped' /\ Compensates' /\ KnowsBefore' /\ SaysRestored'
BY DEF VersionInv, WorldTyped, Compensates, KnowsBefore, GoesTo, SaysRestored

LEMMA DeployDiesKeeps == VersionInv /\ DeployDies => VersionInv'
BY Ends, ArchivesStay, BookkeepingKeeps DEF DeployDies, Outs, EndsAs, VersionInv, WorldTyped

LEMMA TagVersionKeeps == VersionInv /\ TagVersion => VersionInv'
BY StepsTo, LastBuildStays, BookkeepingKeeps DEF TagVersion, InStep, BackPcs, VersionInv,
       ArchivesLast, StoreTyped, ArchivesWhole, Restorable, IsArchived, GoesTo, WorldTyped

LEMMA SnapVersionKeeps == VersionInv /\ SnapVersion => VersionInv'
BY StepsTo, LastBuildStays, BookkeepingKeeps DEF SnapVersion, InStep, BackPcs, VersionInv,
       ArchivesLast, StoreTyped, ArchivesWhole, Restorable, IsArchived, GoesTo, WorldTyped

LEMMA RecordVersionKeeps == VersionInv /\ RecordVersion => VersionInv'
<1> SUFFICES ASSUME VersionInv, RecordVersion PROVE VersionInv'
    OBVIOUS
<1>1. /\ back.pc = "record" /\ UNCHANGED <<files, latest, box, record, storeGhost>>
      /\ StepTo("gc")
      /\ \/ /\ rows' = [rows EXCEPT ![LastBuild] = [@ EXCEPT !.ref = TRUE, !.img = latest]]
            /\ UNCHANGED <<tags, snaps>>
         \/ tags' = tags \ {LastBuild} /\ snaps' = snaps \ {LastBuild} /\ rows' = rows
  BY DEF RecordVersion, InStep
<1>2. BackTyped' /\ GoesTo("gc", back.put)
  BY <1>1, StepsTo DEF BackPcs
<1>3. /\ LastBuild \in Version /\ rows[LastBuild].st = "success"
      /\ ~rows[LastBuild].ref /\ (~storeGhost.lost => LastBuild \in tags) /\ LastBuild \in snaps
      /\ (~storeGhost.lost => record.img # NoImage)
  BY <1>1 DEF VersionInv, ArchivesLast
<1>4. rows \in [Version -> RowKind] /\ latest \in Images
  BY DEF VersionInv, StoreTyped, WorldTyped
<1>5. /\ rows' \in [Version -> RowKind]
      /\ \A v \in Version : /\ rows'[v].st = rows[v].st
                            /\ v # LastBuild => rows'[v] = rows[v]
                            /\ rows'[v].ref => rows[v].ref
                                               \/ (v = LastBuild /\ UNCHANGED <<tags, snaps>>)
  <2>1. CASE rows' = [rows EXCEPT ![LastBuild] = [@ EXCEPT !.ref = TRUE, !.img = latest]]
             /\ UNCHANGED <<tags, snaps>>
    BY <2>1, <1>3, <1>4 DEF RowKind
  <2>2. CASE rows' = rows
    BY <2>2, <1>4
  <2> QED BY <1>1, <2>1, <2>2
<1>6. LastBuild' = LastBuild
  BY <1>5 DEF BuiltOnes, LastBuild
<1>7. StoreTyped'
  BY <1>1, <1>5 DEF VersionInv, StoreTyped
<1>8. ArchivesWhole'
  BY <1>1, <1>3, <1>5 DEF ArchivesWhole, Restorable, IsArchived, VersionInv
<1>9. ArchivesLast'
  BY <1>1, <1>2, <1>3, <1>6 DEF ArchivesLast, GoesTo
<1>10. WorldTyped' /\ Compensates' /\ KnowsBefore' /\ SaysRestored'
  BY <1>1, <1>2, BookkeepingKeeps DEF VersionInv, WorldTyped
<1> QED BY <1>2, <1>7, <1>8, <1>9, <1>10 DEF VersionInv

(* What collecting leaves: a protected version it does not touch.           *)
LEMMA CollectSurplusIs ==
    ASSUME VersionInv, CollectSurplus
    PROVE  \E gone \in SUBSET Version :
              /\ gone = Surplus(record.img)
              /\ snaps' = snaps \ gone /\ tags' \in {tags, tags \ gone}
              /\ rows' \in [Version -> RowKind]
              /\ \A v \in Version \ gone : rows'[v] = rows[v]
              /\ storeGhost' \in [box : BoxKind, lost : BOOLEAN]
              /\ storeGhost'.box = storeGhost.box
              /\ storeGhost.lost => storeGhost'.lost
              /\ ~storeGhost'.lost =>
                    gone = {} \/ (tags' = tags \ gone /\ \A v \in gone : ~rows'[v].ref)
<1> DEFINE gone == Surplus(record.img)
<1>1. PICK a \in {"missing", "kept", "unavailable"} : CollectWith(record.img, a)
  BY DEF CollectSurplus
<1>2. gone \in SUBSET Version
  BY DEF Surplus, Archives
<1>3. /\ snaps' = snaps \ gone /\ tags' = IF a = "kept" THEN tags ELSE tags \ gone
      /\ rows' = [v \in Version |-> IF v \in gone /\ a = "missing"
                                    THEN [rows[v] EXCEPT !.ref = FALSE, !.img = NoImage]
                                    ELSE rows[v]]
      /\ storeGhost' = [storeGhost EXCEPT !.lost = @ \/ (a # "missing" /\ gone # {})]
  BY <1>1 DEF CollectWith
<1> HIDE DEF gone
<1>4. rows \in [Version -> RowKind] /\ storeGhost \in [box : BoxKind, lost : BOOLEAN]
  BY DEF VersionInv, StoreTyped, WorldTyped
<1>5. rows' \in [Version -> RowKind] /\ \A v \in gone : a = "missing" => ~rows'[v].ref
  BY <1>4, <1>3, <1>2 DEF RowKind, Images
<1>6. \A v \in Version \ gone : rows'[v] = rows[v]
  BY <1>3
<1>7. /\ storeGhost' \in [box : BoxKind, lost : BOOLEAN] /\ storeGhost'.box = storeGhost.box
      /\ storeGhost.lost => storeGhost'.lost
      /\ ~storeGhost'.lost => gone = {} \/ a = "missing"
  BY <1>3, <1>4
<1>8. tags' \in {tags, tags \ gone} /\ (a = "missing" => tags' = tags \ gone)
  BY <1>3
<1> QED BY <1>2, <1>3, <1>5, <1>6, <1>7, <1>8 DEF gone

LEMMA CollectSurplusKeeps == VersionInv /\ CollectSurplus => VersionInv'
BY CollectSurplusIs, Ends, BookkeepingKeeps DEF CollectSurplus, Outs, EndsAs, VersionInv,
       StoreTyped, ArchivesWhole, Restorable, IsArchived, ArchivesLast, InStep

LEMMA UserPrunesKeeps == VersionInv /\ UserPrunes => VersionInv'
<1> SUFFICES ASSUME VersionInv, UserPrunes PROVE VersionInv'
    OBVIOUS
<1>1. /\ tags' \subseteq tags /\ storeGhost' = [storeGhost EXCEPT !.lost = TRUE]
      /\ UNCHANGED <<rows, snaps, files, latest, box, record, back>>
  BY DEF UserPrunes
<1>2. storeGhost' \in [box : BoxKind, lost : BOOLEAN] /\ storeGhost'.lost
      /\ storeGhost'.box = storeGhost.box
  BY <1>1 DEF VersionInv, WorldTyped
<1>3. StoreTyped' /\ WorldTyped' /\ BackTyped'
  BY <1>1, <1>2 DEF VersionInv, StoreTyped, WorldTyped, BackTyped
<1>4. Compensates' /\ KnowsBefore' /\ SaysRestored' /\ ArchivesWhole'
  BY <1>1, <1>2 DEF VersionInv, Compensates, KnowsBefore, SaysRestored, ArchivesWhole
<1>5. ArchivesLast'
  BY <1>1, LastBuildStays, <1>2 DEF VersionInv, ArchivesLast
<1> QED BY <1>3, <1>4, <1>5 DEF VersionInv

LEMMA DeployFailsKeeps == VersionInv /\ DeployFails => VersionInv'
<1> SUFFICES ASSUME VersionInv, DeployFails PROVE VersionInv'
    OBVIOUS
<1>1. PICK s \in {"failed", "success"} : rows' = NewRow(s)
  BY DEF DeployFails
<1>2. /\ LastBuild < MaxBuild /\ UNCHANGED <<tags, snaps, files, latest, box, record, storeGhost>>
  BY DEF DeployFails
<1>3. BackTyped' /\ back'.pc = "idle" /\ back'.put = {} /\ back'.out = "failed"
  BY Ends DEF DeployFails, Outs, EndsAs
<1>4. StoreTyped' /\ ArchivesWhole'
  BY <1>1, <1>2, NewRowIs DEF VersionInv, ArchivesWhole, Restorable, IsArchived, StoreTyped
<1>5. WorldTyped' /\ Compensates' /\ KnowsBefore' /\ SaysRestored' /\ ArchivesLast'
  BY <1>2, <1>3 DEF VersionInv, WorldTyped, Compensates, KnowsBefore, SaysRestored, ArchivesLast
<1> QED BY <1>3, <1>4, <1>5 DEF VersionInv

LEMMA DeploysKeeps == VersionInv /\ Deploys => VersionInv'
<1> SUFFICES ASSUME VersionInv, Deploys PROVE VersionInv'
    OBVIOUS
<1>1. PICK i \in Image :
         /\ rows' = NewRow("success") /\ latest' = i /\ files' = LastBuild + 1
         /\ box' = [img |-> i, files |-> LastBuild + 1]
         /\ \/ record' = [img |-> i, id |-> TRUE, src |-> i] /\ UNCHANGED storeGhost
            \/ /\ record' = [img |-> NoImage, id |-> TRUE, src |-> i]
               /\ storeGhost' = [storeGhost EXCEPT !.lost = TRUE]
  BY DEF Deploys
<1>2. LastBuild < MaxBuild /\ UNCHANGED <<tags, snaps>>
      /\ back' = [pc |-> "tag", to |-> 0, files |-> 0, img |-> NoImage, put |-> {}, out |-> "none"]
  BY DEF Deploys, NoBack
<1>3. /\ rows' \in [Version -> RowKind] /\ LastBuild + 1 \in Version /\ LastBuild' = LastBuild + 1
      /\ rows'[LastBuild + 1].st = "success" /\ ~rows'[LastBuild + 1].ref
      /\ \A v \in Version : /\ rows'[v].ref => v # LastBuild + 1
                            /\ v # LastBuild + 1 => rows'[v].ref = rows[v].ref
                            /\ v # LastBuild + 1 /\ rows[v].st # "running" => rows'[v] = rows[v]
  BY <1>1, <1>2, NewRowIs
<1>4. BackTyped'
  BY VersionAssumption, <1>2 DEF Images, BackTyped, BackKind, BackPcs, Outs
<1>5. WorldTyped'
  <2>1. storeGhost' \in [box : BoxKind, lost : BOOLEAN]
    BY <1>1 DEF VersionInv, WorldTyped
  <2>2. i \in Images /\ NoImage \in Images /\ LastBuild + 1 \in 0..MaxBuild
    BY <1>3 DEF Images, Version
  <2>3. box' \in BoxKind
    BY <1>1, <2>2 DEF BoxKind
  <2>4. record' \in [img : Images, id : BOOLEAN, src : Images]
    <3>1. /\ [img |-> i, id |-> TRUE, src |-> i] \in [img : Images, id : BOOLEAN, src : Images]
          /\ [img |-> NoImage, id |-> TRUE, src |-> i] \in [img : Images, id : BOOLEAN, src : Images]
      BY <2>2
    <3> QED BY <1>1, <3>1
  <2>5. files' \in 0..MaxBuild /\ latest' \in Images
    BY <1>1, <2>2
  <2> QED BY <2>1, <2>3, <2>4, <2>5 DEF WorldTyped
<1>6. storeGhost.lost => storeGhost'.lost
  BY <1>1 DEF VersionInv, WorldTyped
<1>7. ArchivesWhole'
  BY <1>3, <1>6, <1>2 DEF ArchivesWhole, VersionInv, Restorable, IsArchived
<1>8. ArchivesLast'
  BY <1>1, VersionAssumption, <1>2, <1>3 DEF VersionInv, WorldTyped, ArchivesLast
<1>9. StoreTyped' /\ Compensates' /\ KnowsBefore' /\ SaysRestored'
  BY <1>2, <1>3 DEF VersionInv, StoreTyped, Compensates, KnowsBefore, SaysRestored
<1> QED BY <1>4, <1>5, <1>7, <1>8, <1>9 DEF VersionInv

LEMMA BeginBackKeeps == VersionInv /\ BeginBack => VersionInv'
<1> SUFFICES ASSUME VersionInv, BeginBack PROVE VersionInv'
    OBVIOUS
<1> DEFINE was == IF record.img # NoImage THEN record.img ELSE box.img
<1>1. PICK to \in Targets(record.img) \cup {v \in Version : Restorable(v)} :
         back' = [NoBack EXCEPT !.pc = "stop", !.to = to, !.files = files, !.img = was]
  BY DEF BeginBack
<1>2. to \in Version
  BY DEF Targets, Newest
<1>3. /\ UNCHANGED <<storeVars, files, latest, box, record>>
      /\ storeGhost' = [storeGhost EXCEPT
           !.box = IF box = [img |-> back'.img, files |-> files] THEN box ELSE NoContainer]
  BY DEF BeginBack
<1>4. was \in Images /\ files \in 0..MaxBuild /\ to \in 0..MaxBuild
      /\ storeGhost \in [box : BoxKind, lost : BOOLEAN] /\ box \in BoxKind
  BY <1>2 DEF VersionInv, WorldTyped, BoxKind, Version
<1> HIDE DEF was
<1>5. back' = [pc |-> "stop", to |-> to, files |-> files, img |-> was, put |-> {}, out |-> "none"]
  BY <1>1 DEF NoBack
<1>6. BackTyped'
  BY <1>2, <1>4, <1>5 DEF BackTyped, BackKind, BackPcs, Outs
<1>7. /\ storeGhost' \in [box : BoxKind, lost : BOOLEAN] /\ storeGhost'.lost = storeGhost.lost
      /\ storeGhost'.box # NoContainer => storeGhost'.box = [img |-> was, files |-> files]
  BY VersionAssumption, <1>3, <1>4, <1>5 DEF NoContainer, BoxKind, Images
<1>8. StoreTyped' /\ ArchivesWhole' /\ ArchivesLast'
  BY <1>3, <1>5, <1>7, ArchivesStay
<1>9. WorldTyped'
  BY <1>3, <1>7 DEF VersionInv, WorldTyped
<1>10. Compensates' /\ KnowsBefore' /\ SaysRestored'
  BY <1>5, <1>7 DEF Compensates, KnowsBefore, SaysRestored
<1> QED BY <1>6, <1>8, <1>9, <1>10 DEF VersionInv

LEMMA VersionNextKeeps == VersionInv /\ [VersionNext]_versionVars => VersionInv'
<1> SUFFICES ASSUME VersionInv, [VersionNext]_versionVars PROVE VersionInv'
    OBVIOUS
<1>1. CASE UNCHANGED versionVars
  BY <1>1, LastBuildStays DEF versionVars, storeVars, VersionInv, StoreTyped, WorldTyped,
         BackTyped, Compensates, KnowsBefore, SaysRestored, ArchivesWhole, ArchivesLast,
         Restorable, IsArchived
<1> QED BY <1>1, DeployFailsKeeps, DeploysKeeps, TagVersionKeeps, SnapVersionKeeps,
           RecordVersionKeeps, CollectSurplusKeeps, DeployDiesKeeps, BeginBackKeeps, StopOldKeeps,
           FilesOfTargetKeeps, RetagKeeps, UpTargetKeeps, LandKeeps, CompDownKeeps, CompFilesKeeps,
           CompTagKeeps, CompUpKeeps, JudgeKeeps, BackDiesKeeps, UserPrunesKeeps DEF VersionNext

(* The invariant holds whatever is deployed, fails, is collected and goes   *)
(* back.                                                                    *)
THEOREM VersionInvariant == VersionSpec => []VersionInv
  BY VersionBegins, VersionNextKeeps, PTL DEF VersionSpec

(* The newest archived version of another image is protected, and while     *)
(* nothing was lost it can be restored: a target remains.                   *)
LEMMA CollectingLeavesTarget ==
    ASSUME VersionInv, CollectSurplus, ~storeGhost'.lost, Targets(record.img) # {}
    PROVE  Targets(record.img)' # {}
<1> DEFINE used == record.img
           S == {v \in Version : IsArchived(v) /\ rows[v].img # used}
           R == {v \in Version : Restorable(v) /\ (used = NoImage \/ rows[v].img # used)}
<1>1. PICK gone \in SUBSET Version :
              /\ gone = Surplus(used)
              /\ snaps' = snaps \ gone /\ tags' \in {tags, tags \ gone}
              /\ \A v \in Version \ gone : rows'[v] = rows[v]
              /\ storeGhost.lost => storeGhost'.lost
  BY CollectSurplusIs
<1>2. used # NoImage /\ ~storeGhost.lost /\ UNCHANGED record
  BY <1>1 DEF CollectSurplus, InStep, VersionInv, ArchivesLast
<1>3. S # {} /\ S \in SUBSET (0..MaxBuild) /\ MaxBuild \in Nat
  BY <1>2, VersionAssumption DEF Targets, Newest, Restorable, Version
<1>4. PICK g \in S : \A w \in S : w <= g
  BY <1>3, GreatestOf
<1>5. g \in PreviousGood(used)
  BY <1>4 DEF PreviousGood, Newest
<1>6. g \notin gone /\ g \in Version
  BY <1>1, <1>4, <1>5 DEF Surplus, KeptAnyway
<1>7. Restorable(g) /\ rows[g].img # used
  BY <1>2, <1>4, <1>6 DEF VersionInv, ArchivesWhole, IsArchived
<1>8. Restorable(g)' /\ rows'[g].img # record'.img
  BY <1>1, <1>2, <1>6, <1>7 DEF Restorable, IsArchived
<1> DEFINE R1 ==
    {v \in Version : Restorable(v)' /\ (record'.img = NoImage \/ rows'[v].img # record'.img)}
<1>9. R1 # {} /\ R1 \in SUBSET (0..MaxBuild)
  BY <1>6, <1>8 DEF Version
<1>10. PICK h \in R1 : \A w \in R1 : w <= h
  BY <1>3, <1>9, GreatestOf
<1>11. h \in Targets(record.img)'
  BY <1>10 DEF Targets, Newest
<1> QED BY <1>11

LEMMA OnlyCollectingIsDone ==
    ASSUME VersionInv, [VersionNext]_versionVars, InStep("gc"), back'.out = "done"
    PROVE  CollectSurplus
<1>1. back.pc = "gc" /\ back.out = "none"
  BY DEF InStep, VersionInv, KnowsBefore
<1>2. ~UNCHANGED back
  BY <1>1
<1>3. ~DeployDies
  BY DEF DeployDies, Finishes, NoBack
<1> QED BY <1>1, <1>2, <1>3 DEF VersionNext, versionVars, InStep, DeployFails, Deploys, TagVersion,
           SnapVersion, RecordVersion, BeginBack, StopOld, FilesOfTarget, Retag, UpTarget, Land,
           CompDown, CompFiles, CompTag, CompUp, Judge, BackDies, UserPrunes

(* A rollback that says the original version is back says the truth, and    *)
(* collecting surplus versions leaves one to go back to (rollback_instance, *)
(* gc_build_artifacts).                                                     *)
THEOREM VersionsStaySafe == VersionSpec => VersionsAreSafe
<1>1. VersionInv => VersionTypeOK /\ SaysRestored
  BY DEF VersionInv, WorldTyped, BackTyped, BackKind, BoxKind, Images, VersionTypeOK, StoreTyped,
         RowKind, Outs
<1>2. VersionInv /\ [VersionNext]_versionVars =>
        [(InStep("gc") /\ back'.out = "done" /\ ~storeGhost'.lost /\ Targets(record.img) # {})
            => Targets(record.img)' # {}]_versionVars
  BY OnlyCollectingIsDone, CollectingLeavesTarget
<1> QED BY <1>1, <1>2, VersionInvariant, PTL DEF VersionSpec, VersionsAreSafe, WayBackKept

(***************************************************************************)
(* The settings of an instance.                                            *)
(***************************************************************************)

Docs     == [bad : BOOLEAN, lines : [Key -> Seq(Value \cup DbFile)]]
Settings == Value \cup DbFile \cup {NoSetting, Generated}
EnvPcs   == {"idle", "read", "backup", "migrate", "write", "secret", "decide", "up", "record"}
EnvOp    ==
    [pc : EnvPcs, kind : {"none", "start", "rebuild"}, old : Docs, db : Value \cup DbFile \cup {NoSetting}]
EnvOdds  ==
    [amend : Nat, render : Nat, snap : Nat, crossed : BOOLEAN, late : BOOLEAN, twice : SUBSET Key]
Box      ==
    [on : BOOLEAN, known : BOOLEAN, env : [Key -> Settings], fp : {<<>>} \cup (Docs \X [Key -> Settings])]

EnvShape ==
    /\ dotenv \in Docs /\ envLocal \in [Key -> Settings] /\ saved \in BOOLEAN
    /\ dbs \in [DbFile -> {"none", "empty", "full"}] /\ app \in Apps
    /\ served \in Box /\ op \in EnvOp /\ wish \in [Key -> Settings] /\ odds \in EnvOdds

(* Of a key that was never given two settings at once the first line is the *)
(* last one, in the file and in the copy a deployment goes back to.         *)
OneSetting(e, k) == e.lines[k] = <<>> \/ Head(e.lines[k]) = LastOf(e.lines[k])
LinesOk == \A k \in Key \ odds.twice : OneSetting(dotenv, k) /\ OneSetting(op.old, k)

(* The rendering under way has the file it began with; what .env.local does *)
(* not have after the migration, the old file did not have.                 *)
SettingKept(k) ==
    /\ InForce[k] = wish[k]
    /\ op.pc \in {"write", "secret", "decide", "up"} /\ envLocal[k] = NoSetting => op.old.lines[k] = <<>>
    /\ op.pc \in {"secret", "decide", "up"} => dotenv.lines[k] = <<>>
KeepsOk ==
    ~odds.crossed =>
        /\ op.pc \in {"backup", "migrate", "write"} => op.old = dotenv
        /\ \A k \in Business \ odds.twice : SettingKept(k)

(* The url that was decided upon is of a file with data if there is one.    *)
UrlOk ==
    ~odds.crossed /\ app.db = "reads" =>
        /\ op.pc \in {"backup", "migrate", "write", "secret", "decide", "up"} =>
             op.db \in Value \cup DbFile /\ (op.db \in DbFile => Full = {} \/ op.db \in Full)
        /\ op.pc \in {"secret", "decide", "up"} => dotenv.lines["db"] = <<op.db>>

(* The stored fingerprint is of the settings the container runs with.       *)
PrintOk ==
    ~odds.late =>
        /\ served.known /\ served.fp # <<>> => served.env = Effective(served.fp[1], served.fp[2])
        /\ op.pc = "record" => served.env = InForce

EnvInv == EnvShape /\ LinesOk /\ KeepsOk /\ UrlOk /\ PrintOk

LEMMA EnvDistinct ==
    NoSetting \notin Value /\ NoSetting \notin DbFile /\ Value \cap DbFile = {} /\ MaxLine \in Nat
BY EnvAssumption DEF EnvAssumption

LEMMA EndsOf ==
    ASSUME NEW S, NEW s \in Seq(S), s # <<>>
    PROVE  Head(s) \in S /\ LastOf(s) \in S
BY EmptySeq, ElementOfSeq DEF LastOf

LEMMA OneLineEnds ==
    ASSUME NEW x
    PROVE  Head(<<x>>) = x /\ LastOf(<<x>>) = x /\ LastOf(<<>>) = NoSetting
BY DEF LastOf

LEMMA EffectiveAt ==
    ASSUME NEW e, NEW l, NEW k \in Key
    PROVE  Effective(e, l)[k] = IF l[k] # NoSetting THEN l[k] ELSE LastOf(e.lines[k])
BY DEF Effective

LEMMA EffectiveType ==
    ASSUME NEW e \in Docs, NEW l \in [Key -> Settings]
    PROVE  Effective(e, l) \in [Key -> Settings]
<1>1. ASSUME NEW k \in Key
    PROVE (IF l[k] # NoSetting THEN l[k] ELSE LastOf(e.lines[k])) \in Settings
  <2>1. e.lines[k] \in Seq(Value \cup DbFile)
    BY DEF Docs
  <2>2. LastOf(e.lines[k]) \in Settings
    <3>1. CASE e.lines[k] = <<>> BY <3>1 DEF LastOf, Settings
    <3>2. CASE e.lines[k] # <<>> BY <3>2, <2>1, EndsOf DEF Settings
    <3> QED BY <3>1, <3>2
  <2> QED BY <2>2
<1> QED BY <1>1 DEF Effective

LEMMA WrittenAreLines ==
    ASSUME NEW s \in Written
    PROVE  s \in Seq(Value \cup DbFile)
BY EnvDistinct, SeqDef DEF Written

(* What an action leaves of the records it writes to.                       *)
SameOdds == /\ odds'.crossed = odds.crossed /\ odds'.late = odds.late /\ odds'.twice = odds.twice
            /\ odds' \in EnvOdds
OpGoes(pc, old, db) == op' = [pc |-> pc, kind |-> op.kind, old |-> old, db |-> db]

LEMMA UsesCounts ==
    ASSUME EnvShape, NEW w \in {"amend", "render", "snap"}, Uses(w)
    PROVE  SameOdds
<1>1. odds \in EnvOdds /\ odds' = [odds EXCEPT ![w] = @ + 1]
  BY DEF EnvShape, Uses
<1>2. CASE w = "amend" BY <1>1, <1>2 DEF EnvOdds, SameOdds
<1>3. CASE w = "render" BY <1>1, <1>3 DEF EnvOdds, SameOdds
<1>4. CASE w = "snap" BY <1>1, <1>4 DEF EnvOdds, SameOdds
<1> QED BY <1>2, <1>3, <1>4

LEMMA OddsStill ==
    ASSUME EnvShape, UNCHANGED odds
    PROVE  SameOdds
BY DEF EnvShape, SameOdds

LEMMA OpMoves ==
    ASSUME EnvShape, NEW pc \in EnvPcs, Moves(pc)
    PROVE  OpGoes(pc, op.old, op.db) /\ op' \in EnvOp
BY DEF EnvShape, Moves, EnvOp, OpGoes

LEMMA OpEnds ==
    ASSUME Gives
    PROVE  op'.pc = "idle" /\ op'.old = BlankEnv /\ op' \in EnvOp
BY EmptySeq DEF BlankEnv, Docs, Gives, IdleOp, EnvOp, EnvPcs

LEMMA BlankSettles ==
    ASSUME NEW k \in Key
    PROVE  OneSetting(BlankEnv, k)
BY DEF OneSetting, BlankEnv

LEMMA MarksOdds ==
    ASSUME EnvShape, NEW w, NEW two \in SUBSET Key, Marks(w, two)
    PROVE  /\ odds' \in EnvOdds /\ odds'.twice = odds.twice \cup two /\ wish' = w
           /\ odds'.crossed = (odds.crossed \/ Window) /\ odds'.late = (odds.late \/ op.pc = "record")
<1>1. odds \in EnvOdds
  BY DEF EnvShape
<1>2. /\ odds' = [odds EXCEPT !.amend = @ + 1, !.crossed = @ \/ Window, !.late = @ \/ Steps("record"),
                            !.twice = @ \cup two]
      /\ wish' = w
  BY DEF Marks
<1> DEFINE c == (odds.crossed \/ Window)
           l == (odds.late \/ Steps("record"))
           t == odds.twice \cup two
<1>3. c \in BOOLEAN /\ l \in BOOLEAN /\ t \in SUBSET Key
  BY <1>1 DEF EnvOdds
<1>4. odds' = [odds EXCEPT !.amend = @ + 1, !.crossed = c, !.late = l, !.twice = t]
  BY <1>2
<1>5. l = (odds.late \/ op.pc = "record")
  BY DEF Steps
<1> HIDE DEF c, l, t
<1> DEFINE a == odds.amend + 1
<1>6. a \in Nat
  BY <1>1 DEF EnvOdds
<1>7. odds' = [odds EXCEPT !.amend = a, !.crossed = c, !.late = l, !.twice = t]
  BY <1>4
<1> HIDE DEF a
<1>8. odds' = [amend |-> a, render |-> odds.render, snap |-> odds.snap, crossed |-> c, late |-> l, twice |-> t]
  BY <1>1, <1>7 DEF EnvOdds
<1>9. odds' \in EnvOdds
  BY <1>1, <1>3, <1>6, <1>8 DEF EnvOdds
<1>10. odds'.twice = t /\ odds'.crossed = c /\ odds'.late = l
  BY <1>8
<1> QED BY <1>2, <1>5, <1>9, <1>10 DEF c, t

LEMMA ResolvesWell ==
    ASSUME NEW f \in DbFile, NEW g \in Resolutions(f)
    PROVE  g \in DbFile /\ (Full = {} \/ g \in Full)
BY DEF Resolutions, Full

(* What is read of the old file.                                            *)
LEMMA ReadsWell ==
    ASSUME EnvInv, ReadsOldEnv
    PROVE  /\ UNCHANGED <<dotenv, envLocal, saved, app, served, wish>> /\ SameOdds
           /\ dbs' \in [DbFile -> {"none", "empty", "full"}] /\ op' \in EnvOp
           /\ op'.pc # "backup" => op'.pc = "idle" /\ op'.old = BlankEnv
           /\ op'.pc = "backup" => op'.old = dotenv
           /\ op'.pc = "backup" /\ app.db = "reads" =>
                op'.db \in Value \cup DbFile /\ (op'.db \in DbFile => Full' = {} \/ op'.db \in Full')
<1> DEFINE url    == LastOf(dotenv.lines["db"])
           seeded == [dbs EXCEPT ![app.file] = IF app.seed /\ @ = "none" THEN "full" ELSE @]
<1>1. /\ op \in EnvOp /\ dotenv \in Docs /\ dbs \in [DbFile -> {"none", "empty", "full"}] /\ app.file \in DbFile
      /\ SameOdds /\ UNCHANGED <<dotenv, envLocal, saved, app, served, wish>>
  BY OddsStill DEF EnvInv, EnvShape, ReadsOldEnv, Apps
<1>2. seeded \in [DbFile -> {"none", "empty", "full"}]
  BY <1>1
<1>3. CASE app.db # "reads" /\ op' = [op EXCEPT !.pc = "backup", !.old = dotenv] /\ UNCHANGED dbs
  BY <1>1, <1>3 DEF EnvOp, EnvPcs
<1>4. CASE app.db = "reads" /\ url \in Value /\ op' = [op EXCEPT !.pc = "backup", !.old = dotenv, !.db = url]
           /\ UNCHANGED dbs
  BY <1>1, <1>4, EnvDistinct DEF EnvOp, EnvPcs
<1>5. CASE app.db = "reads" /\ Canonical(url) /\ UNCHANGED dbs
           /\ \E f \in Resolutions(url) : op' = [op EXCEPT !.pc = "backup", !.old = dotenv, !.db = f]
  BY <1>5, ResolvesWell, <1>1 DEF Canonical, EnvOp, EnvPcs, Full
<1>6. CASE /\ app.db = "reads" /\ dbs' = seeded
           /\ \E f \in (IF seeded[app.file] = "full" THEN {app.file} ELSE Resolutions(app.file)) :
                op' = [op EXCEPT !.pc = "backup", !.old = dotenv, !.db = f]
  <2>1. PICK f \in (IF seeded[app.file] = "full" THEN {app.file} ELSE Resolutions(app.file)) :
                op' = [op EXCEPT !.pc = "backup", !.old = dotenv, !.db = f]
    BY <1>6
  <2>2. f \in DbFile /\ (Full' = {} \/ f \in Full')
    BY <2>1, <1>6, <1>1, ResolvesWell DEF Full
  <2>3. op' \in EnvOp /\ op'.pc = "backup" /\ op'.old = dotenv /\ op'.db = f
    BY <1>1, <2>1, <2>2 DEF EnvOp, EnvPcs
  <2> QED BY <1>1, <1>2, <1>6, <2>2, <2>3
<1>7. CASE Gives /\ UNCHANGED dbs
  BY <1>1, <1>7, OpEnds
<1>8. \/ app.db # "reads" /\ op' = [op EXCEPT !.pc = "backup", !.old = dotenv] /\ UNCHANGED dbs
      \/ app.db = "reads" /\ url \in Value /\ op' = [op EXCEPT !.pc = "backup", !.old = dotenv, !.db = url]
           /\ UNCHANGED dbs
      \/ app.db = "reads" /\ Canonical(url) /\ UNCHANGED dbs
           /\ \E f \in Resolutions(url) : op' = [op EXCEPT !.pc = "backup", !.old = dotenv, !.db = f]
      \/ /\ app.db = "reads" /\ dbs' = seeded
         /\ \E f \in (IF seeded[app.file] = "full" THEN {app.file} ELSE Resolutions(app.file)) :
                op' = [op EXCEPT !.pc = "backup", !.old = dotenv, !.db = f]
      \/ Gives /\ UNCHANGED dbs
  BY DEF ReadsOldEnv
<1> QED BY <1>3, <1>4, <1>5, <1>6, <1>7, <1>8

(* An operation that ends, whatever it leaves: nothing is asked of it.      *)
LEMMA EndKeeps ==
    ASSUME EnvInv, op' \in EnvOp, op'.pc = "idle", op'.old = BlankEnv, SameOdds, dbs' = dbs,
           UNCHANGED <<dotenv, envLocal, saved, app, served, wish>>
    PROVE  EnvInv'
BY BlankSettles DEF EnvInv, EnvShape, SameOdds, LinesOk, OneSetting, InForce, Effective, KeepsOk,
       UrlOk, PrintOk, SettingKept

LEMMA BeginsKeeps ==
    ASSUME EnvInv, BeginsOp
    PROVE  EnvInv'
<1>1. /\ SameOdds /\ UNCHANGED <<dotenv, envLocal, saved, dbs, app, served, wish>>
      /\ \E k \in {"start", "rebuild"} : op' = [pc |-> "read", kind |-> k, old |-> BlankEnv, db |-> NoSetting]
  BY UsesCounts DEF BeginsOp, EnvInv
<1>2. op'.pc = "read" /\ op'.old = BlankEnv /\ op' \in EnvOp
  BY EmptySeq, <1>1 DEF BlankEnv, Docs, EnvOp, EnvPcs, Settings
<1>3. EnvShape'
  BY <1>1, <1>2 DEF EnvInv, EnvShape, SameOdds
<1>4. LinesOk'
  BY <1>1, <1>2, BlankSettles DEF EnvInv, LinesOk, SameOdds, OneSetting
<1>5. InForce' = InForce
  BY <1>1 DEF InForce, Effective
<1>6. KeepsOk' /\ UrlOk' /\ PrintOk'
  BY <1>1, <1>2, <1>5, Zenon DEF EnvInv, KeepsOk, UrlOk, PrintOk, SettingKept, SameOdds
<1> QED BY <1>3, <1>4, <1>6 DEF EnvInv

LEMMA ReadKeeps ==
    ASSUME EnvInv, ReadsOldEnv
    PROVE  EnvInv'
<1>1. /\ UNCHANGED <<dotenv, envLocal, saved, app, served, wish>> /\ SameOdds
      /\ dbs' \in [DbFile -> {"none", "empty", "full"}] /\ op' \in EnvOp
      /\ op'.pc # "backup" => op'.pc = "idle" /\ op'.old = BlankEnv
      /\ op'.pc = "backup" => op'.old = dotenv
      /\ op'.pc = "backup" /\ app.db = "reads" =>
           op'.db \in Value \cup DbFile /\ (op'.db \in DbFile => Full' = {} \/ op'.db \in Full')
  BY ReadsWell
<1>2. EnvShape'
  BY <1>1 DEF EnvInv, EnvShape, SameOdds
<1>3. LinesOk'
  BY <1>1, BlankSettles DEF EnvInv, LinesOk, SameOdds, OneSetting
<1>4. InForce' = InForce
  BY <1>1 DEF InForce, Effective
<1>5. op'.pc = "backup" \/ op'.pc = "idle"
  BY <1>1
<1>6. KeepsOk'
  BY <1>1, <1>4, <1>5, Zenon DEF EnvInv, KeepsOk, SettingKept, SameOdds
<1>7. PrintOk'
  BY <1>1, <1>4, <1>5, Zenon DEF EnvInv, PrintOk, SameOdds
<1>8. UrlOk'
  BY <1>1, <1>5, Zenon DEF UrlOk
<1> QED BY <1>2, <1>3, <1>6, <1>7, <1>8 DEF EnvInv

LEMMA BackupAsideKeeps ==
    ASSUME EnvInv, BacksUpBad
    PROVE  EnvInv'
<1>1. /\ op.pc = "backup" /\ UNCHANGED <<dotenv, envLocal, dbs, app, served, wish>> /\ SameOdds
      /\ OpGoes("migrate", op.old, op.db) /\ op' \in EnvOp /\ saved' \in BOOLEAN
  BY OpMoves, OddsStill DEF BacksUpBad, EnvInv, EnvPcs, Steps
<1>2. op'.pc = "migrate" /\ op'.old = op.old /\ op'.db = op.db
  BY <1>1 DEF OpGoes
<1>3. EnvShape'
  BY <1>1 DEF EnvInv, EnvShape, SameOdds
<1>4. LinesOk'
  BY <1>1, <1>2 DEF EnvInv, LinesOk, SameOdds, OneSetting
<1>5. InForce' = InForce /\ Full' = Full
  BY <1>1 DEF InForce, Effective, Full
<1>6. KeepsOk'
  BY <1>1, <1>2, <1>5, Zenon DEF EnvInv, KeepsOk, SettingKept, SameOdds
<1>7. PrintOk'
  BY <1>1, <1>2, <1>5, Zenon DEF EnvInv, PrintOk, SameOdds
<1>8. UrlOk'
  BY <1>1, <1>2, <1>5, Zenon DEF EnvInv, UrlOk, SameOdds
<1> QED BY <1>3, <1>4, <1>6, <1>7, <1>8 DEF EnvInv

(* The first line of a key goes to .env.local, and is its only setting.     *)
LEMMA MigrateKeeps ==
    ASSUME EnvInv, MigratesKeys
    PROVE  EnvInv'
<1>1. /\ op.pc = "migrate" /\ UNCHANGED <<dotenv, saved, dbs, app, served, wish>> /\ SameOdds
      /\ envLocal' = Migrated(envLocal) /\ OpGoes("write", op.old, op.db) /\ op' \in EnvOp
  BY OpMoves, OddsStill DEF MigratesKeys, EnvInv, EnvPcs, Steps
<1>2. op'.pc = "write" /\ op'.old = op.old /\ op'.db = op.db
  BY <1>1 DEF OpGoes
<1>3. \A k \in Key : op.old.lines[k] \in Seq(Value \cup DbFile) /\ envLocal[k] \in Settings
  BY DEF EnvInv, EnvShape, EnvOp, Docs
<1>4. \A k \in Key : envLocal'[k] = IF envLocal[k] = NoSetting /\ Migrates(k) /\ op.old.lines[k] # <<>>
                                    THEN Head(op.old.lines[k]) ELSE envLocal[k]
  BY <1>1 DEF Migrated
<1>5. envLocal' \in [Key -> Settings]
  BY <1>3, EndsOf, <1>1 DEF Settings, Migrated
<1>6. EnvShape'
  BY <1>1, <1>5 DEF EnvInv, EnvShape, SameOdds
<1>7. LinesOk'
  BY <1>1, <1>2 DEF EnvInv, LinesOk, SameOdds, OneSetting
<1>8. KeepsOk'
  BY <1>1, <1>2, EffectiveAt, <1>3, EndsOf, EnvDistinct, <1>4 DEF KeepsOk, SameOdds, EnvInv,
         LinesOk, Key, Business, Migrates, SettingKept, InForce, OneSetting
<1>9. PrintOk'
  BY <1>1, <1>2, Zenon DEF EnvInv, PrintOk, SameOdds
<1>10. UrlOk'
  BY <1>1, <1>2 DEF Full, EnvInv, UrlOk, SameOdds
<1> QED BY <1>6, <1>7, <1>8, <1>9, <1>10 DEF EnvInv

LEMMA WriteKeeps ==
    ASSUME EnvInv, WritesEnv
    PROVE  EnvInv'
<1> DEFINE ls == [k \in Key |-> IF k = "db" /\ op.db # NoSetting THEN <<op.db>> ELSE <<>>]
<1>1. /\ op.pc = "write" /\ UNCHANGED <<envLocal, saved, dbs, app, served, wish>> /\ SameOdds
      /\ dotenv' = [bad |-> FALSE, lines |-> ls] /\ OpGoes("secret", op.old, op.db) /\ op' \in EnvOp
  BY OpMoves, OddsStill DEF WritesEnv, EnvInv, EnvPcs, Steps
<1>2. op'.pc = "secret" /\ op'.old = op.old /\ op'.db = op.db
  BY <1>1 DEF OpGoes
<1>3. dotenv' \in Docs
  <2>1. op.db # NoSetting => op.db \in Value \cup DbFile \cup {NoSetting}
    BY DEF EnvInv, EnvShape, EnvOp
  <2>2. op.db # NoSetting => <<op.db>> \in Seq(Value \cup DbFile)
    BY <2>1
  <2>3. <<>> \in Seq(Value \cup DbFile)
    BY EmptySeq
  <2>4. ls \in [Key -> Seq(Value \cup DbFile)]
    BY <2>2, <2>3
  <2> QED BY <1>1, <2>4 DEF Docs
<1>4. EnvShape'
  BY <1>1, <1>3 DEF EnvInv, EnvShape, SameOdds
<1>5. \A k \in Key : dotenv'.lines[k] = IF k = "db" /\ op.db # NoSetting THEN <<op.db>> ELSE <<>>
  BY <1>1
<1> HIDE DEF ls
<1>6. LinesOk'
  BY <1>5, OneLineEnds, <1>1, <1>2 DEF OneSetting, EnvInv, LinesOk, SameOdds
<1>7. KeepsOk'
  BY <1>1, <1>2, <1>5, EffectiveAt DEF KeepsOk, SameOdds, EnvInv, Key, Business, SettingKept,
         InForce
<1>8. PrintOk'
  BY <1>1, <1>2, Zenon DEF EnvInv, PrintOk, SameOdds
<1>9. UrlOk'
  BY <1>1, <1>2, <1>5, EnvDistinct DEF UrlOk, Full, SameOdds, EnvInv, Key
<1> QED BY <1>4, <1>6, <1>7, <1>8, <1>9 DEF EnvInv

LEMMA SecretKeeps ==
    ASSUME EnvInv, EnsuresSecret
    PROVE  EnvInv'
<1> DEFINE asks == app.example /\ envLocal["jwt"] = NoSetting
<1>1. /\ op.pc = "secret" /\ UNCHANGED <<dotenv, saved, dbs, app, served>> /\ SameOdds
      /\ envLocal' = IF asks THEN [envLocal EXCEPT !["jwt"] = Generated] ELSE envLocal
      /\ wish' = IF asks /\ wish["jwt"] = NoSetting
          THEN [wish EXCEPT !["jwt"] = Generated] ELSE wish
      /\ \E pc \in {"decide", "up"} : OpGoes(pc, op.old, op.db) /\ op' \in EnvOp
  BY OpMoves, OddsStill DEF EnsuresSecret, EnvInv, EnvPcs, Steps
<1>2. op'.pc \in {"decide", "up"} /\ op'.old = op.old /\ op'.db = op.db
  BY <1>1 DEF OpGoes
<1>3. envLocal \in [Key -> Settings] /\ wish \in [Key -> Settings] /\ "jwt" \in Key
  BY DEF EnvInv, EnvShape, Key, Business
<1>4. /\ envLocal' \in [Key -> Settings] /\ wish' \in [Key -> Settings]
      /\ \A k \in Key : envLocal'[k] = IF asks /\ k = "jwt" THEN Generated ELSE envLocal[k]
      /\ \A k \in Key : wish'[k] = IF asks /\ k = "jwt" /\ wish[k] = NoSetting
          THEN Generated ELSE wish[k]
  BY <1>1, <1>3 DEF Settings
<1>5. EnvShape'
  BY <1>1, <1>4 DEF EnvInv, EnvShape, SameOdds
<1>6. LinesOk'
  BY <1>1, <1>2 DEF EnvInv, LinesOk, SameOdds, OneSetting
<1>7. KeepsOk'
  <2> SUFFICES ASSUME ~odds.crossed, NEW k \in Business \ odds.twice PROVE SettingKept(k)'
    BY <1>1, <1>2 DEF KeepsOk, SameOdds
  <2>1. SettingKept(k) /\ k \in Key
    BY <1>1 DEF EnvInv, KeepsOk, Key
  <2>2. /\ dotenv.lines[k] = <<>> /\ InForce[k] = wish[k] /\ (envLocal[k] = NoSetting => op.old.lines[k] = <<>>)
    BY <2>1, <1>1 DEF SettingKept
  <2>3. InForce[k] = envLocal[k]
    <3>1. InForce[k] = IF envLocal[k] # NoSetting THEN envLocal[k] ELSE LastOf(dotenv.lines[k])
      BY <2>1, EffectiveAt DEF InForce
    <3> QED BY <3>1, <2>2, OneLineEnds
  <2>4. InForce'[k] = envLocal'[k]
    <3>1. InForce'[k] = IF envLocal'[k] # NoSetting
        THEN envLocal'[k] ELSE LastOf(dotenv'.lines[k])
      BY <2>1, EffectiveAt DEF InForce
    <3>2. dotenv'.lines[k] = <<>>
      BY <1>1, <2>2
    <3> QED BY <3>1, <3>2, OneLineEnds
  <2>5. InForce'[k] = wish'[k] /\ (envLocal'[k] = NoSetting => envLocal[k] = NoSetting)
    BY <2>1, <2>2, <2>3, <2>4, <1>4
  <2> QED BY <1>1, <1>2, <2>2, <2>5 DEF SettingKept
<1>8. PrintOk'
  BY <1>1, <1>2, Zenon DEF EnvInv, PrintOk, SameOdds
<1>9. UrlOk'
  BY <1>1, <1>2 DEF Full, EnvInv, UrlOk, SameOdds
<1> QED BY <1>5, <1>6, <1>7, <1>8, <1>9 DEF EnvInv

LEMMA DecideKeeps ==
    ASSUME EnvInv, Decides
    PROVE  EnvInv'
<1>1. /\ op.pc = "decide" /\ UNCHANGED <<dotenv, envLocal, saved, dbs, app, served, wish>> /\ SameOdds
      /\ Gives \/ Moves("up")
  BY OddsStill DEF Decides, EnvInv, Steps
<1>2. CASE Gives
  BY <1>1, <1>2, OpEnds, EndKeeps
<1>3. CASE Moves("up")
  <2>1. op'.pc = "up" /\ op'.old = op.old /\ op'.db = op.db /\ op' \in EnvOp
    BY <1>3, OpMoves DEF OpGoes, EnvInv, EnvPcs
  <2>2. EnvShape'
    BY <1>1, <2>1 DEF EnvInv, EnvShape, SameOdds
  <2>3. LinesOk'
    BY <1>1, <2>1 DEF EnvInv, LinesOk, SameOdds, OneSetting
  <2>4. InForce' = InForce /\ Full' = Full
    BY <1>1 DEF InForce, Effective, Full
  <2>5. KeepsOk'
    BY <1>1, <2>1, <2>4, Zenon DEF EnvInv, KeepsOk, SettingKept, SameOdds
  <2>6. PrintOk'
    BY <1>1, <2>1, <2>4, Zenon DEF EnvInv, PrintOk, SameOdds
  <2>7. UrlOk'
    BY <1>1, <2>1, <2>4, Zenon DEF EnvInv, UrlOk, SameOdds
  <2> QED BY <2>2, <2>3, <2>5, <2>6, <2>7 DEF EnvInv
<1> QED BY <1>1, <1>2, <1>3

(* The container runs with the files as they are now, and its old           *)
(* fingerprint counts no more.                                              *)
LEMMA UpKeeps ==
    ASSUME EnvInv, GoesUp
    PROVE  EnvInv'
<1>1. /\ op.pc = "up" /\ UNCHANGED <<dotenv, envLocal, saved, app, wish>> /\ SameOdds
      /\ served' = [served EXCEPT !.on = TRUE, !.known = FALSE, !.env = InForce]
      /\ dbs' = [f \in DbFile |-> IF f = InForce["db"] /\ dbs[f] = "none"
          THEN "empty" ELSE dbs[f]]
      /\ OpGoes("record", op.old, op.db) /\ op' \in EnvOp
  BY OpMoves, OddsStill DEF GoesUp, EnvInv, EnvPcs, Steps
<1>2. op'.pc = "record" /\ op'.old = op.old /\ op'.db = op.db
  BY <1>1 DEF OpGoes
<1>3. served' \in Box /\ ~served'.known /\ served'.env = InForce
  BY EffectiveType, <1>1 DEF InForce, EnvInv, EnvShape, Box
<1>4. EnvShape'
  BY <1>1, <1>3 DEF EnvInv, EnvShape, SameOdds
<1>5. LinesOk'
  BY <1>1, <1>2 DEF EnvInv, LinesOk, SameOdds, OneSetting
<1>6. InForce' = InForce
  BY <1>1 DEF InForce, Effective
<1>7. KeepsOk'
  BY <1>1, <1>2, <1>6, Zenon DEF EnvInv, KeepsOk, SettingKept, SameOdds
<1>8. PrintOk'
  BY <1>3, <1>6 DEF PrintOk
<1>9. UrlOk'
  BY <1>2, Zenon DEF UrlOk
<1> QED BY <1>4, <1>5, <1>7, <1>8, <1>9 DEF EnvInv

LEMMA RecordKeeps ==
    ASSUME EnvInv, Records
    PROVE  EnvInv'
<1>1. /\ op.pc = "record" /\ UNCHANGED <<dotenv, envLocal, saved, dbs, app, wish>> /\ SameOdds
      /\ served' = [served EXCEPT !.known = TRUE, !.fp = <<dotenv, envLocal>>]
      /\ op' \in EnvOp /\ op'.pc = "idle" /\ op'.old = BlankEnv
  BY OpEnds, OddsStill DEF Records, EnvInv, Steps, PrintOf
<1>2. served' \in Box /\ served'.fp = <<dotenv, envLocal>> /\ served'.env = served.env
  BY <1>1 DEF EnvInv, EnvShape, Box
<1>3. EnvShape'
  BY <1>1, <1>2 DEF EnvInv, EnvShape, SameOdds
<1>4. LinesOk'
  BY <1>1, BlankSettles DEF EnvInv, LinesOk, SameOdds, OneSetting
<1>5. InForce' = InForce
  BY <1>1 DEF InForce, Effective
<1>6. KeepsOk' /\ UrlOk'
  BY <1>1, <1>5, Zenon DEF EnvInv, KeepsOk, UrlOk, SettingKept, SameOdds
<1>7. PrintOk'
  BY <1>1, <1>2 DEF EnvInv, PrintOk, InForce, SameOdds
<1> QED BY <1>3, <1>4, <1>6, <1>7 DEF EnvInv

(* The rendered files are put back: a key the old file had is in .env.local *)
(* now, with the setting it had there.                                      *)
LEMMA UpFailKeeps ==
    ASSUME EnvInv, UpFails
    PROVE  EnvInv'
<1>1. /\ op.pc = "up" /\ UNCHANGED <<envLocal, saved, dbs, app, served, wish>> /\ SameOdds
      /\ dotenv' = op.old /\ op' \in EnvOp /\ op'.pc = "idle" /\ op'.old = BlankEnv
  BY OpEnds, UsesCounts DEF UpFails, EnvInv, Steps
<1>2. op.old \in Docs
  BY DEF EnvInv, EnvShape, EnvOp
<1>3. EnvShape'
  BY <1>1, <1>2 DEF EnvInv, EnvShape, SameOdds
<1>4. LinesOk'
  BY <1>1, BlankSettles DEF EnvInv, LinesOk, SameOdds, OneSetting
<1>5. KeepsOk'
  BY <1>1, EffectiveAt DEF KeepsOk, SettingKept, SameOdds, EnvInv, Key, InForce
<1>6. UrlOk' /\ PrintOk'
  BY <1>1, Zenon DEF EnvInv, UrlOk, PrintOk, SameOdds
<1> QED BY <1>3, <1>4, <1>5, <1>6 DEF EnvInv

LEMMA BreakKeeps ==
    ASSUME EnvInv, Breaks
    PROVE  EnvInv'
BY UsesCounts, OpEnds, EndKeeps DEF Breaks, EnvInv

(* An edit: in a window nothing is asked any more; outside of one the files *)
(* are as the user left them.                                               *)
LEMMA EditKeeps ==
    ASSUME EnvInv, dotenv' \in Docs, envLocal' \in [Key -> Settings], NEW two \in SUBSET Key,
           Marks(Effective(dotenv', envLocal'), two), UNCHANGED <<saved, dbs, app, served, op>>,
           \A k \in Key \ two : dotenv'.lines[k] = dotenv.lines[k] \/ OneSetting(dotenv', k)
    PROVE  EnvInv'
<1>1. /\ odds' \in EnvOdds /\ odds'.twice = odds.twice \cup two /\ wish' = InForce'
      /\ odds'.crossed = (odds.crossed \/ Window) /\ odds'.late = (odds.late \/ op.pc = "record")
  BY MarksOdds DEF EnvInv, InForce
<1>2. EnvShape'
  BY <1>1, EffectiveType DEF InForce, EnvInv, EnvShape
<1>3. LinesOk'
  BY <1>1 DEF EnvInv, LinesOk, OneSetting
<1>4. ~odds'.crossed => ~odds.crossed /\ op.pc \in {"idle", "record"}
  BY <1>1 DEF Window
<1>5. KeepsOk' /\ UrlOk'
  BY <1>1, <1>4, Zenon DEF KeepsOk, UrlOk, SettingKept
<1>6. PrintOk'
  BY <1>1, Zenon DEF EnvInv, PrintOk
<1> QED BY <1>2, <1>3, <1>5, <1>6 DEF EnvInv

LEMMA EditsEnvKeeps ==
    ASSUME EnvInv, EditsEnv
    PROVE  EnvInv'
<1>1. dotenv \in Docs /\ envLocal \in [Key -> Settings] /\ UNCHANGED <<envLocal, saved, dbs, app, served, op>>
  BY DEF EnvInv, EnvShape, EditsEnv
<1>2. CASE dotenv' = [dotenv EXCEPT !.bad = TRUE] /\ Marks(Effective(dotenv', envLocal), {})
  <2>1. dotenv' \in Docs /\ dotenv'.lines = dotenv.lines
    BY <1>1, <1>2 DEF Docs
  <2>2. \A k \in Key \ {} : dotenv'.lines[k] = dotenv.lines[k] \/ OneSetting(dotenv', k)
    BY <2>1
  <2>3. Marks(Effective(dotenv', envLocal'), {}) /\ {} \in SUBSET Key
    BY <1>1, <1>2
  <2> QED BY <1>1, <2>1, <2>2, <2>3, EditKeeps
<1>3. ASSUME NEW k \in Key, NEW s \in Written, dotenv' = [dotenv EXCEPT !.lines[k] = s],
             Marks(Effective(dotenv', envLocal), {j \in {k} : s # <<>> /\ Head(s) # LastOf(s)})
      PROVE  EnvInv'
  <2> DEFINE two == {j \in {k} : s # <<>> /\ Head(s) # LastOf(s)}
  <2>1. s \in Seq(Value \cup DbFile)
    BY WrittenAreLines
  <2>2. dotenv' \in Docs /\ dotenv'.lines = [dotenv.lines EXCEPT ![k] = s]
    BY <1>1, <1>3, <2>1 DEF Docs
  <2>3. \A j \in Key \ two : dotenv'.lines[j] = dotenv.lines[j] \/ OneSetting(dotenv', j)
    BY <2>2, <1>1 DEF Docs, OneSetting
  <2>4. two \in SUBSET Key
    OBVIOUS
  <2>5. Marks(Effective(dotenv', envLocal'), two)
    BY <1>1, <1>3
  <2> QED BY <1>1, <2>2, <2>3, <2>4, <2>5, EditKeeps
<1> QED BY <1>2, <1>3 DEF EditsEnv

LEMMA EditsLocalKeeps ==
    ASSUME EnvInv, EditsLocal
    PROVE  EnvInv'
<1>1. dotenv \in Docs /\ envLocal \in [Key -> Settings] /\ UNCHANGED <<dotenv, saved, dbs, app, served, op>>
  BY DEF EnvInv, EnvShape, EditsLocal
<1>2. PICK k \in Key, v \in Value \cup {NoSetting} : envLocal' = [envLocal EXCEPT ![k] = v]
  BY DEF EditsLocal
<1>3. envLocal' \in [Key -> Settings]
  BY <1>1, <1>2 DEF Settings
<1>4. Marks(Effective(dotenv', envLocal'), {})
  BY <1>1 DEF EditsLocal
<1> QED BY <1>1, <1>3, <1>4, EditKeeps

LEMMA UpdatedKeeps ==
    ASSUME EnvInv, Updated
    PROVE  EnvInv'
<1>1. /\ op.pc = "idle" /\ UNCHANGED <<envLocal, saved, dbs, served, op>> /\ SameOdds /\ app' \in Apps
      /\ wish' = InForce' /\ dotenv \in Docs
  BY UsesCounts DEF Updated, EnvInv, EnvShape, Steps, InForce
<1>2. dotenv' \in Docs /\ \A k \in Key : dotenv'.lines[k] = dotenv.lines[k] \/ OneSetting(dotenv', k)
  <2>1. CASE UNCHANGED dotenv
    BY <1>1, <2>1
  <2>2. ASSUME NEW f \in DbFile, dotenv' = [dotenv EXCEPT !.lines["db"] = <<f>>]
        PROVE  dotenv' \in Docs /\ \A k \in Key : dotenv'.lines[k] = dotenv.lines[k] \/ OneSetting(dotenv', k)
    <3>1. <<f>> \in Seq(Value \cup DbFile)
      OBVIOUS
    <3>2. dotenv' \in Docs /\ dotenv'.lines = [dotenv.lines EXCEPT !["db"] = <<f>>]
      BY <1>1, <2>2, <3>1 DEF Docs
    <3>3. \A k \in Key : dotenv'.lines[k] = IF k = "db" THEN <<f>> ELSE dotenv.lines[k]
      BY <3>2, <1>1 DEF Docs
    <3> QED BY <3>2, <3>3, OneLineEnds DEF OneSetting
  <2> QED BY <2>1, <2>2 DEF Updated
<1>3. EnvShape'
  BY <1>1, <1>2, EffectiveType DEF InForce, EnvInv, EnvShape, SameOdds
<1>4. LinesOk'
  BY <1>1, <1>2 DEF EnvInv, LinesOk, OneSetting, SameOdds
<1>5. KeepsOk' /\ UrlOk'
  BY <1>1, Zenon DEF KeepsOk, UrlOk, SettingKept
<1>6. PrintOk'
  BY <1>1, Zenon DEF EnvInv, PrintOk, SameOdds
<1> QED BY <1>3, <1>4, <1>5, <1>6 DEF EnvInv

LEMMA AppKeeps ==
    ASSUME EnvInv, AppWrites
    PROVE  EnvInv'
<1>1. UNCHANGED <<dotenv, envLocal, saved, app, served, op, wish>>
      /\ odds' = [odds EXCEPT !.crossed = @ \/ Window]
  BY DEF AppWrites
<1>2. dbs' \in [DbFile -> {"none", "empty", "full"}]
  BY DEF EnvInv, EnvShape, AppWrites
<1> DEFINE c == (odds.crossed \/ Window)
<1>3. c \in BOOLEAN
  BY Zenon
<1>4. odds \in EnvOdds /\ odds' = [odds EXCEPT !.crossed = c]
  BY <1>1 DEF EnvInv, EnvShape
<1> HIDE DEF c
<1>5. odds' \in EnvOdds /\ odds'.crossed = c /\ odds'.late = odds.late /\ odds'.twice = odds.twice
  BY <1>3, <1>4 DEF EnvOdds
<1>6. ~odds'.crossed => ~odds.crossed /\ op.pc \in {"idle", "record"}
  BY <1>5 DEF Window, c
<1>7. EnvShape'
  BY <1>1, <1>2, <1>5 DEF EnvInv, EnvShape
<1>8. LinesOk'
  BY <1>1, <1>5 DEF EnvInv, LinesOk, OneSetting
<1>9. InForce' = InForce
  BY <1>1 DEF InForce, Effective
<1>10. KeepsOk'
  BY <1>1, <1>5, <1>6, <1>9, Zenon DEF EnvInv, KeepsOk, SettingKept
<1>11. UrlOk'
  BY <1>1, <1>6, Zenon DEF UrlOk
<1>12. PrintOk'
  BY <1>1, <1>5, <1>9, Zenon DEF EnvInv, PrintOk
<1> QED BY <1>7, <1>8, <1>10, <1>11, <1>12 DEF EnvInv

LEMMA EnvInitInv == EnvInit => EnvInv
<1> SUFFICES ASSUME EnvInit PROVE EnvInv
  OBVIOUS
<1>1. BlankEnv \in Docs
  BY EmptySeq DEF BlankEnv, Docs
<1>2. EnvShape
  BY <1>1 DEF EnvInit, EnvShape, IdleOp, EnvOp, EnvPcs, Settings, Box, EnvOdds
<1>3. LinesOk
  BY BlankSettles DEF EnvInit, LinesOk, IdleOp
<1>4. KeepsOk
  <2>1. ASSUME NEW k \in Business PROVE InForce[k] = wish[k]
    <3>1. k \in Key /\ envLocal[k] = NoSetting /\ wish[k] = NoSetting /\ dotenv.lines[k] = <<>>
      BY DEF EnvInit, Key, BlankEnv
    <3>2. InForce[k] = IF envLocal[k] # NoSetting THEN envLocal[k] ELSE LastOf(dotenv.lines[k])
      BY <3>1, EffectiveAt DEF InForce
    <3> QED BY <3>1, <3>2, OneLineEnds
  <2> QED BY <2>1 DEF EnvInit, KeepsOk, SettingKept, IdleOp
<1>5. UrlOk /\ PrintOk
  BY DEF EnvInit, UrlOk, PrintOk, IdleOp
<1> QED BY <1>2, <1>3, <1>4, <1>5 DEF EnvInv

LEMMA EnvNextInv == EnvInv /\ [EnvNext]_envVars => EnvInv'
<1> SUFFICES ASSUME EnvInv, [EnvNext]_envVars PROVE EnvInv'
  OBVIOUS
<1>1. CASE RendersStep
  BY <1>1, BeginsKeeps, ReadKeeps, BackupAsideKeeps, MigrateKeeps, WriteKeeps, SecretKeeps,
     DecideKeeps, UpKeeps, RecordKeeps, UpFailKeeps, BreakKeeps
     DEF RendersStep
<1>2. CASE EditsEnv
  BY <1>2, EditsEnvKeeps
<1>3. CASE EditsLocal
  BY <1>3, EditsLocalKeeps
<1>4. CASE Updated
  BY <1>4, UpdatedKeeps
<1>5. CASE AppWrites
  BY <1>5, AppKeeps
<1>6. CASE UNCHANGED envVars
  <2>1. EnvShape' /\ LinesOk'
    BY <1>6 DEF envVars, EnvInv, EnvShape, LinesOk, OneSetting
  <2>2. InForce' = InForce /\ Full' = Full
    BY <1>6 DEF envVars, InForce, Effective, Full
  <2>3. UNCHANGED <<dotenv, envLocal, app, served, op, wish, odds>>
    BY <1>6 DEF envVars
  <2>4. KeepsOk' /\ UrlOk' /\ PrintOk'
    BY <2>2, <2>3, Zenon DEF EnvInv, KeepsOk, SettingKept, UrlOk, PrintOk
  <2> QED BY <2>1, <2>4 DEF EnvInv
<1> QED BY <1>1, <1>2, <1>3, <1>4, <1>5, <1>6 DEF EnvNext

(* EnvInv holds in every reachable state: what the rendering keeps of the   *)
(* old file, where the url came from, and that the fingerprint is of what   *)
(* the container runs with (generate_env, _compute_deployment_fingerprints).*)
THEOREM EnvInvariant == EnvSpec => []EnvInv
BY EnvInitInv, EnvNextInv, PTL DEF EnvSpec

LEMMA EnvTyped == EnvInv => EnvTypeOK
BY DEF EnvInv, EnvShape, EnvTypeOK, Docs, Settings

LEMMA EnvSettings == EnvInv => SettingsSurviveUnlessTwice
BY DEF EnvInv, KeepsOk, SettingKept, SettingsSurviveUnlessTwice

LEMMA EnvFinds ==
    EnvInv /\ [EnvNext]_envVars =>
      [GoesUp /\ app.db = "reads" /\ envLocal["db"] = NoSetting
         /\ InForce["db"] \in DbFile /\ ~odds.crossed
       => Full = {} \/ InForce["db"] \in Full]_envVars
<1> SUFFICES ASSUME EnvInv, GoesUp, app.db = "reads", envLocal["db"] = NoSetting, InForce["db"] \in DbFile,
                    ~odds.crossed
             PROVE  Full = {} \/ InForce["db"] \in Full
  OBVIOUS
<1>1. op.pc = "up"
  BY DEF GoesUp, Steps
<1>2. dotenv.lines["db"] = <<op.db>> /\ (op.db \in DbFile => Full = {} \/ op.db \in Full)
  BY <1>1 DEF EnvInv, UrlOk
<1>3. InForce["db"] = op.db
  <2>1. InForce["db"] = IF envLocal["db"] # NoSetting
      THEN envLocal["db"] ELSE LastOf(dotenv.lines["db"])
    BY EffectiveAt DEF InForce, Key
  <2> QED BY <2>1, <1>2, OneLineEnds
<1> QED BY <1>2, <1>3

LEMMA EnvHeeds ==
    EnvInv /\ [EnvNext]_envVars =>
      [Decides /\ op'.pc = "idle" /\ served.fp # <<>> /\ ~odds.late => served.env = InForce]_envVars
BY DEF EnvInv, EnvShape, Moves, EnvOp, Decides, PrintOf, PrintOk, InForce

(* No rendering, failure or crash changes a setting of the user; an         *)
(* application finds its data; no start swallows a change of the files, but *)
(* for the edits and the doubled keys the properties name (generate_env,    *)
(* _fingerprint_change_action), for any values, files and bounds.           *)
THEOREM EnvStaysSafe == EnvSpec => EnvIsSafe
<1>1. EnvSpec => []EnvTypeOK /\ []SettingsSurviveUnlessTwice
  BY EnvInvariant, EnvTyped, EnvSettings, PTL
<1>2. EnvSpec => DataFound
  BY EnvInvariant, EnvFinds, PTL DEF EnvSpec, DataFound
<1>3. EnvSpec => NothingSwallowedUnlessLate
  BY EnvInvariant, EnvHeeds, PTL DEF EnvSpec, NothingSwallowedUnlessLate
<1> QED BY <1>1, <1>2, <1>3 DEF EnvIsSafe
============================================================================
