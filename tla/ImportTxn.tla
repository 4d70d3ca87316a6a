----------------------------- MODULE ImportTxn -----------------------------
(* Importing and updating instances from a zip, a folder or a git           *)
(* repository (importer.py): the claim of an id, the exchange of current/   *)
(* against a new source in steps that a failure undoes and a crash leaves   *)
(* as they are, and the identity of the source that is written afterwards.  *)
(* import.lock admits one import or update at a time; other commands work   *)
(* on the same instances.                                                   *)
EXTENDS FiniteSets, Integers

CONSTANTS Content,    \* versions of source code
          Nothing,
          MaxId,      \* bound: ids that are tried for one name
          MaxImport,  \* bound: imports and updates
          MaxChange   \* bound: changes of a source, failing steps, crashes, other commands

ASSUME ImportAssumption ==
    /\ Nothing \notin Content /\ MaxId \in Nat \ {0} /\ MaxImport \in Nat /\ MaxChange \in Nat

VARIABLES
    inst,     \* what is on disk and in the registry of each id
    origin,   \* what the folder and the repository hold at present
    txn,      \* the import or update that runs
    igh,      \* ghost: instances hurt by a crash or a removal, instances whose identity
              \*        does not name their source, answers "unchanged"
    spentImport

importVars == <<inst, origin, txn, igh, spentImport>>

Id      == 1 .. MaxId
Source  == {"zip", "folder", "git"}
Bits    == Content \cup {Nothing}

(* local-web.json: sourceZipHash, sourceKind, and sourceSyncHash or         *)
(* sourceGitCommit.                                                         *)
Manifest == [zipHash : Bits, kind : Source, sync : Bits]
NoManifest == [zipHash |-> Nothing, kind |-> "zip", sync |-> Nothing]

(* The directory apps/<id> with current/, current.new, current.old,         *)
(* original.zip, its copy and the manifest; data/ is "full" or "empty"; the *)
(* rows of the registry are those of the manifest they were written from.   *)
Instance == [dir : BOOLEAN, cur : Bits, new : Bits, old : Bits, zip : Bits, bak : Bits,
             man : Manifest, data : {"full", "empty"}, row : BOOLEAN, reg : Bits, size : Bits]
Absent == [dir |-> FALSE, cur |-> Nothing, new |-> Nothing, old |-> Nothing, zip |-> Nothing,
           bak |-> Nothing, man |-> NoManifest, data |-> "full", row |-> FALSE, reg |-> Nothing,
           size |-> Nothing]

NoTxn == [op |-> "none", pc |-> "idle", src |-> "zip", id |-> 1, pkg |-> Nothing,
          sync |-> Nothing, base |-> NoManifest, switch |-> FALSE, keep |-> TRUE,
          beside |-> FALSE, moved |-> FALSE]

Doing(pc) == txn.pc = pc
Then(pc)  == txn' = [txn EXCEPT !.pc = pc]
Finished  == txn' = NoTxn
Mine      == inst[txn.id]
Change    == spentImport.changes < MaxChange
             /\ spentImport' = [spentImport EXCEPT !.changes = @ + 1]
NoChange  == UNCHANGED spentImport
Set(i, r) == inst' = [inst EXCEPT ![i] = r]

(* Why the identity need not name what is in current/: "torn" its writing   *)
(* was interrupted or refused, "zipped" a folder instance was updated by a  *)
(* zip.                                                                     *)
Odd(i, why) == igh' = [igh EXCEPT !.odd[i] = IF @ = "torn" THEN @ ELSE why]
Hurt(i) == igh' = [igh EXCEPT !.hurt = @ \cup {i}, !.odd[i] = "torn"]

(* instance_lock is held from the second look on until current.old is gone. *)
LockedBit == {"stage", "swapOut", "swapIn", "saveManifest", "saveZip", "row", "purge",
              "sizes", "tidy"}
InstanceLocked(i) == txn.op = "update" /\ txn.id = i /\ txn.pc \in LockedBit

----------------------------------------------------------------------------
(* Packing: the folder is hashed first and packed later, a repository is    *)
(* cloned and its commit is the one that was cloned.                        *)

Observed(src) == IF src = "zip" THEN Nothing ELSE origin[src]

Pack ==
    /\ Doing("pack")
    /\ \/ txn' = [txn EXCEPT !.pkg = origin[txn.src],
                             !.sync = IF txn.src = "git" THEN origin["git"] ELSE @,
                             !.moved = txn.src = "folder" /\ txn.sync # origin["folder"],
                             !.pc = IF txn.op = "import" THEN "claim" ELSE "firstLook"]
          /\ NoChange
       \/ Change /\ Finished
    /\ UNCHANGED <<inst, origin, igh>>

----------------------------------------------------------------------------
(* Import                                                                   *)

BeginImport(src, c) ==
    /\ txn = NoTxn
    /\ spentImport.imports < MaxImport
    /\ spentImport' = [spentImport EXCEPT !.imports = @ + 1]
    /\ src # "zip" => c = origin[src]
    /\ txn' = [NoTxn EXCEPT !.op = "import", !.src = src, !.sync = Observed(src),
                            !.pkg = IF src = "zip" THEN c ELSE Nothing,
                            !.pc = IF src = "zip" THEN "claim" ELSE "pack"]
    /\ UNCHANGED <<inst, origin, igh>>

(* _claim_unique_id: an id without a row whose directory could be made. *)
IdTaken(i) == inst[i].row \/ inst[i].dir

Claim ==
    /\ Doing("claim")
    /\ \/ \E i \in Id :
            /\ ~IdTaken(i) /\ \A j \in 1 .. i - 1 : IdTaken(j)
            /\ Set(i, [Absent EXCEPT !.dir = TRUE])
            /\ txn' = [txn EXCEPT !.id = i, !.pc = "unpack"]
            /\ igh' = [igh EXCEPT !.odd[i] = "no", !.hurt = @ \ {i}]
       \/ (\E i \in Id : IdTaken(i)) /\ Finished /\ UNCHANGED <<inst, igh>>
    /\ NoChange /\ UNCHANGED origin

(* _cleanup_failed.  Mutant: the row is left in the registry. *)
Cleaned_DirOnly == [Mine EXCEPT !.dir = FALSE, !.cur = Nothing, !.zip = Nothing, !.man = NoManifest]
Cleaned == Absent

ImportFails ==
    /\ txn.op = "import"
    /\ Doing("unpack") \/ Doing("manifest") \/ Doing("registered") \/ Doing("counted")
    /\ Change /\ Finished
    /\ Set(txn.id, Cleaned)
    /\ UNCHANGED <<origin, igh>>

Unpack ==
    /\ Doing("unpack") /\ Set(txn.id, [Mine EXCEPT !.zip = txn.pkg, !.cur = txn.pkg])
    /\ Then("manifest") /\ NoChange /\ UNCHANGED <<origin, igh>>

NewManifest ==
    /\ Doing("manifest")
    /\ Set(txn.id, [Mine EXCEPT !.dir = TRUE, !.man = [NoManifest EXCEPT !.zipHash = txn.pkg]])
    /\ Then("registered") /\ NoChange /\ UNCHANGED <<origin, igh>>

Register ==
    /\ Doing("registered")
    /\ Set(txn.id, [Mine EXCEPT !.row = TRUE, !.reg = txn.pkg])
    /\ Then("counted") /\ NoChange /\ UNCHANGED <<origin, igh>>

Count ==
    /\ Doing("counted")
    /\ IF Mine.row
       THEN /\ Set(txn.id, [Mine EXCEPT !.size = txn.pkg])
            /\ IF txn.src = "zip" THEN Finished ELSE Then("identity")
       ELSE Set(txn.id, Cleaned) /\ Finished
    /\ NoChange /\ UNCHANGED <<origin, igh>>

----------------------------------------------------------------------------
(* Update                                                                   *)

(* An instance from git is not replaced by a zip.  Mutant: the guard is     *)
(* missing.                                                                 *)
ZipMayReplace_Any(i) == TRUE
ZipMayReplace(i) == inst[i].man.kind # "git"

(* update_zip, update_from_dir, update_from_git; another kind of source is  *)
(* taken only if the folder or the url is named.                            *)
BeginUpdate(src, i, c, keep) ==
    /\ txn = NoTxn /\ inst[i].row /\ inst[i].dir
    /\ spentImport.imports < MaxImport
    /\ spentImport' = [spentImport EXCEPT !.imports = @ + 1]
    /\ src # "zip" => c = origin[src]
    /\ src = "zip" => ZipMayReplace(i)
    /\ txn' = [NoTxn EXCEPT !.op = "update", !.src = src, !.id = i, !.keep = keep,
                            !.sync = Observed(src),
                            !.switch = src # "zip" /\ inst[i].man.kind # src,
                            !.pkg = IF src = "zip" THEN c ELSE Nothing,
                            !.pc = IF src = "zip" THEN "firstLook" ELSE "sameSource"]
    /\ UNCHANGED <<inst, origin, igh>>

(* The answer "unchanged" is right if current/ is what the source held.     *)
Unchanged(c) ==
    igh' = [igh EXCEPT !.skip = IF Mine.cur = c THEN @ ELSE IF @ = "bad" THEN @
                                ELSE IF igh.odd[txn.id] = "no" THEN "bad" ELSE igh.odd[txn.id]]

(* The recorded hash or commit is that of the source: nothing to do, unless *)
(* a build of what was imported is still due.                               *)
SameSource ==
    /\ Doing("sameSource")
    /\ \/ /\ Mine.man.sync = txn.sync /\ Mine.man.kind = txn.src /\ ~txn.switch
          /\ Unchanged(txn.sync) /\ Finished
       \/ Then("pack") /\ UNCHANGED igh
    /\ NoChange /\ UNCHANGED <<inst, origin>>

(* The manifest that is the base of the new one is read here, under the     *)
(* instance's lock, which is given back.                                    *)
FirstLook ==
    /\ Doing("firstLook")
    /\ IF ~Mine.dir THEN Finished /\ UNCHANGED igh
       ELSE \/ /\ Mine.man.zipHash = txn.pkg
               /\ Unchanged(txn.pkg)
               /\ IF txn.src = "git" \/ txn.switch
                  THEN Then("identity")
                  ELSE Finished
            \/ txn' = [txn EXCEPT !.base = Mine.man, !.pc = "secondLook"] /\ UNCHANGED igh
    /\ NoChange /\ UNCHANGED <<inst, origin>>

(* The lock is taken again; what an earlier update left is removed. *)
SecondLook ==
    /\ Doing("secondLook")
    /\ IF Mine.dir
       THEN Set(txn.id, [Mine EXCEPT !.new = Nothing, !.old = Nothing]) /\ Then("stage")
       ELSE UNCHANGED inst /\ Finished
    /\ NoChange /\ UNCHANGED <<origin, igh>>

(* Unpacked beside current/ and examined: what does not fit is refused. *)
Stage ==
    /\ Doing("stage")
    /\ Set(txn.id, [Mine EXCEPT !.new = txn.pkg])
    /\ Then("swapOut")
    /\ NoChange /\ UNCHANGED <<origin, igh>>

SwapOut ==
    /\ Doing("swapOut") /\ Mine.cur # Nothing
    /\ Set(txn.id, [Mine EXCEPT !.bak = Mine.zip, !.old = Mine.cur, !.cur = Nothing])
    /\ Then("swapIn")
    /\ NoChange /\ UNCHANGED <<origin, igh>>

SwapIn ==
    /\ Doing("swapIn")
    /\ Set(txn.id, [Mine EXCEPT !.cur = Mine.new, !.new = Nothing])
    /\ Then("saveManifest")
    /\ NoChange /\ UNCHANGED <<origin, igh>>

(* The manifest built from the base: its identity is passed on. *)
SaveManifest ==
    /\ Doing("saveManifest")
    /\ Set(txn.id, [Mine EXCEPT !.man = [txn.base EXCEPT !.zipHash = txn.pkg]])
    /\ Then("saveZip")
    /\ NoChange /\ UNCHANGED <<origin, igh>>

SaveZip ==
    /\ Doing("saveZip")
    /\ Set(txn.id, [Mine EXCEPT !.zip = txn.pkg])
    /\ Then("row")
    /\ NoChange /\ UNCHANGED <<origin, igh>>

UpsertRow ==
    /\ Doing("row")
    /\ Set(txn.id, [Mine EXCEPT !.row = TRUE, !.reg = txn.pkg])
    /\ Then(IF txn.keep THEN "sizes" ELSE "purge")
    /\ NoChange /\ UNCHANGED <<origin, igh>>

(* BUG-348: only now are the data deleted. *)
Purge ==
    /\ Doing("purge")
    /\ Set(txn.id, [Mine EXCEPT !.data = "empty"])
    /\ Then("sizes")
    /\ NoChange /\ UNCHANGED <<origin, igh>>

Sizes ==
    /\ Doing("sizes")
    /\ Set(txn.id, [Mine EXCEPT !.size = txn.pkg])
    /\ Then("tidy")
    /\ NoChange /\ UNCHANGED <<origin, igh>>

(* current.old is removed, the lock given back. *)
Tidy ==
    /\ Doing("tidy")
    /\ Set(txn.id, [Mine EXCEPT !.new = Nothing, !.old = Nothing])
    /\ Then("cas")
    /\ NoChange /\ UNCHANGED <<origin, igh>>

(* cas_increment_revision: somebody else's change in between is reported as *)
(* a conflict, and the identity of the source is not written.               *)
Cas ==
    /\ Doing("cas")
    /\ IF txn.beside \/ txn.src = "zip"
       THEN Finished
       ELSE Then("identity")
    /\ CASE txn.src = "zip" /\ Mine.man.kind = "folder" -> Odd(txn.id, "zipped")
         [] txn.src # "zip" /\ txn.beside               -> Odd(txn.id, "torn")
         [] OTHER                                        -> UNCHANGED igh
    /\ NoChange /\ UNCHANGED <<inst, origin>>

(* _rollback_swapped_current.  Mutant: the package is not put back. *)
Undone_NoZip ==
    [Mine EXCEPT !.cur = Mine.old, !.man = txn.base, !.row = TRUE, !.reg = txn.base.zipHash,
                 !.size = txn.base.zipHash]
Undone == [Undone_NoZip EXCEPT !.zip = Mine.bak]

(* A step fails: before the exchange there is nothing to undo.  current.new *)
(* and current.old are removed in any case.                                 *)
UpdateFails ==
    /\ txn.op = "update"
    /\ \/ Change /\ txn.pc \in {"stage", "swapOut", "swapIn", "saveManifest", "saveZip", "row",
                                "sizes"}
       \/ Doing("swapOut") /\ Mine.cur = Nothing /\ NoChange
    /\ LET r == CASE txn.pc \in {"stage", "swapOut"} -> Mine
                  [] txn.pc = "swapIn"               -> [Mine EXCEPT !.cur = Mine.old]
                  [] OTHER                           -> Undone
       IN  Set(txn.id, [r EXCEPT !.new = Nothing, !.old = Nothing])
    /\ Finished
    /\ UNCHANGED <<origin, igh>>

----------------------------------------------------------------------------
(* The identity of a folder or of a repository is written after the         *)
(* instance's lock was given back: the manifest is loaded and saved.        *)

LoadIdentity ==
    /\ Doing("identity")
    /\ IF Mine.dir
       THEN txn' = [txn EXCEPT !.base = Mine.man, !.pc = "writeBack"] /\ NoChange /\ UNCHANGED <<inst, igh>>
       ELSE /\ Finished /\ NoChange /\ UNCHANGED igh
            /\ IF txn.op = "import" /\ txn.src = "git"
               THEN Set(txn.id, Cleaned) ELSE UNCHANGED inst
    /\ UNCHANGED origin

(* save makes the directory again if it is gone. *)
WriteBack ==
    /\ Doing("writeBack")
    /\ Set(txn.id, [Mine EXCEPT !.dir = TRUE,
                                !.man = [txn.base EXCEPT !.kind = txn.src, !.sync = txn.sync]])
    /\ igh' = [igh EXCEPT !.odd[txn.id] =
                  IF txn.moved \/ txn.beside THEN "torn"
                  ELSE IF Mine.cur = txn.pkg THEN "no" ELSE @]
    /\ Finished
    /\ NoChange /\ UNCHANGED origin

(* It fails: an import from git is taken back, one from a folder stays as   *)
(* an instance from a zip.                                                  *)
WriteBackFails ==
    /\ Doing("identity") \/ Doing("writeBack")
    /\ Change /\ Finished
    /\ IF txn.op = "import" /\ txn.src = "git"
       THEN Set(txn.id, Cleaned) /\ UNCHANGED igh
       ELSE UNCHANGED inst /\ Odd(txn.id, "torn")
    /\ UNCHANGED origin

----------------------------------------------------------------------------
(* Everybody else                                                           *)

(* The folder is edited, the branch moves, to what it once was if so. *)
SourceChanges(src, c) ==
    /\ Change /\ c # origin[src]
    /\ origin' = [origin EXCEPT ![src] = c]
    /\ UNCHANGED <<inst, txn, igh>>

(* A start, stop or setting counts up the revision under the lock. *)
OtherCommand(i) ==
    /\ inst[i].row /\ ~InstanceLocked(i) /\ Change
    /\ txn.op = "update" /\ txn.id = i /\ txn.pc \in {"secondLook", "cas"}
    /\ txn' = [txn EXCEPT !.beside = TRUE]
    /\ UNCHANGED <<inst, origin, igh>>

(* remove_instance: the row, then the directory. *)
Remove(i) ==
    /\ inst[i].row /\ ~InstanceLocked(i) /\ Change
    /\ Set(i, Absent)
    /\ IF txn.op # "none" /\ txn.id = i THEN Hurt(i) ELSE UNCHANGED igh
    /\ UNCHANGED <<origin, txn>>

(* The process of the import dies; its locks are free. *)
ImportDies ==
    /\ txn # NoTxn /\ Change /\ Finished
    /\ IF Mine.dir /\ (txn.op = "update" \/ txn.pc \notin {"pack", "claim"})
       THEN Hurt(txn.id) ELSE UNCHANGED igh
    /\ UNCHANGED <<inst, origin>>

ImportInit ==
    /\ inst = [i \in Id |-> Absent]
    /\ origin \in {[s \in {"folder", "git"} |-> c] : c \in Content}
    /\ txn = NoTxn
    /\ igh = [hurt |-> {}, odd |-> [i \in Id |-> "no"], skip |-> "none"]
    /\ spentImport = [imports |-> 0, changes |-> 0]

ImportNext ==
    \/ \E src \in Source, c \in Content :
         BeginImport(src, c) \/ \E i \in Id, k \in BOOLEAN : BeginUpdate(src, i, c, k)
    \/ Pack \/ Claim \/ Unpack \/ NewManifest \/ Register \/ Count \/ ImportFails
    \/ SameSource \/ FirstLook \/ SecondLook \/ Stage \/ SwapOut \/ SwapIn \/ SaveManifest
    \/ SaveZip \/ UpsertRow \/ Purge \/ Sizes \/ Tidy \/ Cas \/ UpdateFails
    \/ LoadIdentity \/ WriteBack \/ WriteBackFails
    \/ \E src \in {"folder", "git"}, c \in Content : SourceChanges(src, c)
    \/ \E i \in Id : OtherCommand(i) \/ Remove(i)
    \/ ImportDies

ImportSpec == ImportInit /\ [][ImportNext]_importVars

----------------------------------------------------------------------------

ImportTypeOK ==
    /\ inst \in [Id -> Instance]
    /\ origin \in [{"folder", "git"} -> Content]
    /\ txn.op \in {"none", "import", "update"} /\ txn.src \in Source /\ txn.id \in Id
    /\ igh.hurt \subseteq Id
    /\ igh.skip \in {"none", "bad", "torn", "zipped"}

(* When no import or update runs, an instance is whole or is not there: its *)
(* source, the package, the manifest and the registry are of one version,   *)
(* and a failed import has left neither directory nor row.  Not covered: an *)
(* instance during whose import or update the process died, or which was    *)
(* removed while its identity was being written.                            *)
WholeOrAbsent ==
    txn = NoTxn =>
      \A i \in Id \ igh.hurt :
        LET r == inst[i] IN
        \/ r = Absent
        \/ /\ r.row /\ r.dir /\ r.cur # Nothing /\ {r.new, r.old} = {Nothing}
           /\ {r.cur, r.zip, r.man.zipHash, r.reg, r.size} = {r.cur}

(* An update that answers "unchanged" is right: current/ holds what the     *)
(* folder or the repository held.  Not covered: a folder that was edited    *)
(* between its hash and its package, an update whose identity was not       *)
(* written, and (FolderUnaffected) a folder instance updated by a zip.      *)
UnchangedIsTrue == igh.skip # "bad"

(* importer.py:765: "folder sources are not affected" by an update from a   *)
(* zip (they may be replaced by one, unlike git sources).                   *)
FolderUnaffected == igh.skip # "zipped"

(* Imports and updates in one statement: an instance is whole or absent, and *)
(* "unchanged" is true.                                                      *)
ImportIsSafe == ImportTypeOK /\ WholeOrAbsent /\ UnchangedIsTrue
=============================================================================
