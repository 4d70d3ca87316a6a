---------------------------- MODULE MCBuildQueue ----------------------------
(* Small instances of BuildQueue for TLC.                                   *)
EXTENDS BuildQueue, TLC
CONSTANTS p1, p2, i1, i2

Procs2 == {p1, p2}
ProcSymmetry == Permutations(Procs2)

(* One call of cancel for i1 in each process, so that a build meets a local *)
(* and a remote canceller; one in p1.                                       *)
CancelEach == {<<<<p1, i1>>, 1>>, <<<<p2, i1>>, 1>>}
CancelOne  == {<<<<p1, i1>>, 1>>}
=============================================================================
