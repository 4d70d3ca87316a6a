------------------------------ MODULE Redundant ------------------------------
(* remove --redundant (lifecycle.py): of the instances imported from the     *)
(* same zip the earliest one is kept and the others are removed, by several  *)
(* prunings at once and while users go on working.  The list is made without *)
(* any lock; the instance and its keeper are looked at again under the lock  *)
(* of the instance to remove, never under that of the keeper.                *)
EXTENDS Integers, FiniteSets

CONSTANTS PruneInst,        \* ids, in the order of their first import
          Pruner,
          Zip, NoZip,
          MaxTurn      \* bound: imports, changes users make, manifests lost and
                       \* removals that fail or die, together

ASSUME RedundantAssumption ==
    /\ Cardinality(PruneInst) \in Nat /\ PruneInst = 1..Cardinality(PruneInst)
    /\ NoZip \notin Zip /\ MaxTurn \in Nat

VARIABLES
    pinst,      \* each instance: its row, its manifest, its zip on disk
    prune,     \* each pruning
    chance,    \* ghost: what a look under one lock cannot see
    spentPrune

pruneVars == <<pinst, prune, chance, spentPrune>>

GoneInst == [row |-> FALSE, born |-> 0, zip |-> NoZip, man |-> FALSE, live |-> FALSE,
           keep |-> FALSE, own |-> FALSE]
IsListed == {i \in PruneInst : pinst[i].row}
Dull == [pc |-> "idle", todo |-> {}, keeper |-> [i \in PruneInst |-> i], on |-> {},
         purge |-> FALSE, loss |-> FALSE]

(* The instance a pruning is at, and whether its lock is free.              *)
Handles(p, i) == prune[p].on = {i}
LockFree(i)   == \A p \in Pruner : ~Handles(p, i)

PruneCalm == UNCHANGED spentPrune
Turn  == spentPrune < MaxTurn /\ spentPrune' = spentPrune + 1

----------------------------------------------------------------------------
(* Which instances are redundant                                            *)

(* The instances with the fingerprint of i; no fingerprint without a zip.   *)
Group(i) == {j \in IsListed : pinst[j].zip = pinst[i].zip /\ pinst[i].zip # NoZip}
Earliest(S) == CHOOSE i \in S : \A j \in S : pinst[i].born <= pinst[j].born
Acknowledged(i) == pinst[i].man /\ pinst[i].keep

(* list_redundant_instances *)
IsRedundant(i) == i \in IsListed /\ Group(i) \ {i} # {} /\ Earliest(Group(i)) # i /\ ~Acknowledged(i)

(* _redundant_state_reasons: only an instance that surely rests is removed. *)
StateReasons(i) == ~pinst[i].man \/ pinst[i].live \/ pinst[i].keep

(* _redundant_config_loss_reasons: settings that only this instance has.    *)
LosesConfig(i) == pinst[i].man /\ pinst[i].own

(* Mutant: the list says who is to go, nobody looks again. *)
StillRedundant_Listed(i, witness) == TRUE

(* Mutant: any other instance with the fingerprint will do, registered or not. *)
StillRedundant_OnDisk(i, witness) ==
    witness # i /\ pinst[i].zip # NoZip /\ (pinst[witness].zip = pinst[i].zip \/ IsRedundant(i))

(* _still_redundant_under_lock: the keeper of the list answers for it; when *)
(* it is gone or has changed, the whole list is made again.                 *)
StillRedundant(i, witness) ==
    /\ witness # i /\ pinst[i].zip # NoZip
    /\ \/ pinst[witness].zip = pinst[i].zip /\ pinst[witness].row
       \/ IsRedundant(i)

----------------------------------------------------------------------------
(* A pruning                                                                *)

(* remove_redundant: the targets, but for those with a reason to stay.      *)
Prune(p) ==
    /\ prune[p].pc = "idle"
    /\ \E purge, loss \in BOOLEAN :
         LET targets == {i \in PruneInst : IsRedundant(i) /\ ~StateReasons(i)
                                        /\ (loss \/ ~LosesConfig(i))}
         IN targets # {} /\ prune' = [prune EXCEPT ![p] =
              [pc |-> "next", todo |-> targets, on |-> {}, purge |-> purge,
               loss |-> loss, keeper |-> [i \in PruneInst |->
                   IF i \in targets THEN Earliest(Group(i)) ELSE i]]]
    /\ UNCHANGED <<pinst, chance>> /\ PruneCalm

Skips(p) == [prune EXCEPT ![p].pc = "next", ![p].on = {},
                          ![p].keeper = [i \in PruneInst |-> IF i \in prune[p].todo THEN @[i] ELSE i]]

(* The targets in the order of their creation, each under its own lock.     *)
TakeTarget(p) ==
    /\ prune[p].pc = "next"
    /\ \/ prune[p].todo = {} /\ prune' = [prune EXCEPT ![p] = Dull]
       \/ \E i \in prune[p].todo :
            /\ \A j \in prune[p].todo : pinst[i].born <= pinst[j].born
            /\ LockFree(i)
            /\ prune' = [prune EXCEPT ![p].pc = "look", ![p].on = {i}, ![p].todo = @ \ {i}]
    /\ UNCHANGED <<pinst, chance>> /\ PruneCalm

(* The lock stays taken too long by a deployment: the target is skipped.    *)
GivesUpTarget(p) ==
    /\ prune[p].pc = "next"
    /\ \E i \in prune[p].todo : ~LockFree(i) /\ prune' = [prune EXCEPT ![p].todo = @ \ {i}]
    /\ UNCHANGED <<pinst, chance>> /\ PruneCalm

(* Mutant: the guards of the preview are good enough. *)
MayRemove_Previewed(p, i) == StillRedundant(i, prune[p].keeper[i])

(* remove_instance(redundant_only): state, settings and candidate; a purge  *)
(* without force also stops at a data/ that is not empty.                   *)
MayRemove(p, i) ==
    /\ ~StateReasons(i) /\ (prune[p].loss \/ ~LosesConfig(i))
    /\ StillRedundant(i, prune[p].keeper[i])

LookAgain(p) ==
    /\ prune[p].pc = "look"
    /\ \E i \in prune[p].on, guarded \in BOOLEAN :
         prune' = IF MayRemove(p, i) /\ ~(prune[p].purge /\ guarded)
                  THEN [prune EXCEPT ![p].pc = "remove"] ELSE Skips(p)
    /\ UNCHANGED <<pinst, chance>> /\ PruneCalm

(* Service, container and routes are gone by now, whatever of it failed;    *)
(* delete_instance.                                                         *)
DropRow(p) ==
    /\ prune[p].pc = "remove"
    /\ \E i \in prune[p].on : pinst' = [pinst EXCEPT ![i].row = FALSE]
    /\ prune' = IF prune[p].purge THEN [prune EXCEPT ![p].pc = "tree"] ELSE Skips(p)
    /\ UNCHANGED chance /\ PruneCalm

(* rmtree of apps/<id>.                                                     *)
DropTree(p) ==
    /\ prune[p].pc = "tree"
    /\ \E i \in prune[p].on : pinst' = [pinst EXCEPT ![i] = GoneInst]
    /\ prune' = Skips(p) /\ UNCHANGED chance /\ PruneCalm

(* rmtree stops halfway; the target is reported as skipped although its row *)
(* is gone.                                                                 *)
TreeFails(p) ==
    /\ prune[p].pc = "tree" /\ Turn
    /\ \E i \in prune[p].on, z, m \in BOOLEAN :
         pinst' = [pinst EXCEPT ![i].zip = IF z THEN @ ELSE NoZip, ![i].man = m /\ @]
    /\ prune' = Skips(p) /\ UNCHANGED chance

PruneDies(p) ==
    /\ prune[p].pc # "idle" /\ Turn /\ prune' = [prune EXCEPT ![p] = Dull]
    /\ UNCHANGED <<pinst, chance>>

PruneStep(p) ==
    \/ Prune(p) \/ TakeTarget(p) \/ GivesUpTarget(p) \/ LookAgain(p) \/ DropRow(p)
    \/ DropTree(p) \/ TreeFails(p) \/ PruneDies(p)

----------------------------------------------------------------------------
(* Users, each under the lock of the instance                               *)

(* Ghost: a copy changes or goes while a pruning that has looked at its     *)
(* keeper is about to remove another one; an id comes back, as a younger    *)
(* instance, under a list that knew the older one.                          *)
Crossing == \E p \in Pruner : prune[p].pc = "remove"
Listing  == \E p \in Pruner : prune[p].pc # "idle"

(* A new import takes a free id: no row and no directory.                   *)
ImportsNew(i) ==
    /\ LockFree(i) /\ pinst[i] = GoneInst /\ Turn
    /\ \E z \in Zip, live \in BOOLEAN :
         pinst' = [pinst EXCEPT ![i] = [GoneInst EXCEPT !.row = TRUE, !.man = TRUE, !.zip = z,
                                                    !.live = live,
                                                    !.born = Cardinality(PruneInst) + spentPrune']]
    /\ chance' = (chance \/ Listing) /\ UNCHANGED prune

(* import --update, start and stop, the settings.                           *)
Touches(i) ==
    /\ LockFree(i) /\ pinst[i].row /\ pinst[i].man /\ Turn
    /\ \/ \E z \in Zip \ {pinst[i].zip} :
            pinst' = [pinst EXCEPT ![i].zip = z] /\ chance' = (chance \/ Crossing)
       \/ /\ \/ pinst' = [pinst EXCEPT ![i].live = ~@]
             \/ pinst' = [pinst EXCEPT ![i].keep = ~@]
             \/ pinst' = [pinst EXCEPT ![i].own = ~@]
          /\ UNCHANGED chance
    /\ UNCHANGED prune

(* remove <id>, with or without its directory.                              *)
Removes(i) ==
    /\ LockFree(i) /\ pinst[i].row /\ Turn
    /\ \/ pinst' = [pinst EXCEPT ![i].row = FALSE, ![i].live = FALSE] \/ pinst' = [pinst EXCEPT ![i] = GoneInst]
    /\ chance' = (chance \/ Crossing) /\ UNCHANGED prune

ManifestGoes(i) ==
    /\ LockFree(i) /\ pinst[i].man /\ Turn /\ pinst' = [pinst EXCEPT ![i].man = FALSE]
    /\ UNCHANGED <<prune, chance>>

RedundantInit ==
    /\ \E z \in Zip : pinst = [i \in PruneInst |->
            [GoneInst EXCEPT !.row = TRUE, !.man = TRUE, !.zip = z, !.born = i]]
    /\ prune = [p \in Pruner |-> Dull]
    /\ chance = FALSE /\ spentPrune = 0
RedundantNext ==
    \/ \E p \in Pruner : PruneStep(p)
    \/ \E i \in PruneInst : ImportsNew(i) \/ Touches(i) \/ Removes(i) \/ ManifestGoes(i)
RedundantSpec == RedundantInit /\ [][RedundantNext]_pruneVars

----------------------------------------------------------------------------
RedundantTypeOK ==
    /\ \A i \in PruneInst : pinst[i].zip \in Zip \cup {NoZip} /\ pinst[i].born \in Nat
    /\ \A p \in Pruner : Cardinality(prune[p].on) <= 1
    /\ \A p, q \in Pruner : p # q => prune[p].on \cap prune[q].on = {}

(* Pruning never takes the last registered copy of a zip, however many run  *)
(* at once and whatever users did since the list was made (remove_redundant,*)
(* lifecycle.py 2565-2567), unless a copy changed in the very moment.       *)
LastCopyStays ==
    [][\A p \in Pruner, i \in PruneInst :
        prune[p].pc = "remove" /\ Handles(p, i) /\ ~pinst'[i].row /\ ~chance
          => \E j \in IsListed \ {i} : pinst[j].zip = pinst[i].zip]_pruneVars

(* What pruning removes rests, is not kept on purpose and, unless that was  *)
(* allowed, has no settings of its own, at the moment it is removed.        *)
OnlyRestingGo ==
    [][\A p \in Pruner, i \in PruneInst :
        prune[p].pc = "remove" /\ Handles(p, i) /\ ~pinst'[i].row
          => ~pinst[i].live /\ ~pinst[i].keep /\ (prune[p].loss \/ ~pinst[i].own)]_pruneVars

(* Pruning in one statement: the last copy stays, and only what rests goes.  *)
PruningIsSafe == []RedundantTypeOK /\ LastCopyStays /\ OnlyRestingGo
=============================================================================
