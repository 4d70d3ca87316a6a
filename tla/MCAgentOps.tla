----------------------------- MODULE MCAgentOps -----------------------------
(* Small instances of AgentOps for TLC.                                     *)
EXTENDS AgentOps, TLC
CONSTANTS w1, w2, c1, c2, c3, k1, k2, x1, x2

WorkerSymmetry == Permutations(Worker)

(* Requests that have a key each, or of which two share one; their bodies.  *)
Separate == [c \in {c1, c2} |-> IF c = c1 THEN k1 ELSE k2]
TwoShare == [c \in {c1, c2, c3} |-> IF c = c3 THEN k2 ELSE k1]

CreateThenRebuild == [c \in {c1, c2} |-> IF c = c1 THEN "create" ELSE "rebuild"]
CreateOrRebuild ==
    [c \in {c1, c2, c3} |->
        IF c = c1 THEN "create" ELSE IF c = c2 THEN "rebuild" ELSE "rebuild2"]
=============================================================================
