-------------------------- MODULE BuildSemaphore ---------------------------
(* What the build gate promises to the processes of a workspace: at most    *)
(* Limit builds hold a permit at once; a permit comes one at a time and     *)
(* goes back when its build ends, or when the process of the build dies     *)
(* (then all the permits of that process go back together).                 *)
EXTENDS Integers, FiniteSets

CONSTANTS Build,  \* the builds that may ask for a permit
          Limit   \* number of permits

VARIABLE holding  \* the builds that hold one

SemInit == holding = {}

Grant(b) ==
    /\ b \notin holding
    /\ Cardinality(holding) < Limit
    /\ holding' = holding \cup {b}

GiveBack == \E back \in SUBSET holding : holding' = holding \ back

SemNext == GiveBack \/ \E b \in Build : Grant(b)

SemSpec == SemInit /\ [][SemNext]_holding
=============================================================================
