------------------------- MODULE MCRuntimeLifecycle -------------------------
(* RuntimeLifecycle for TLC.                                               *)
EXTENDS RuntimeLifecycle, TLC

CONSTANTS n1, n2

OneNode == {n1}
TwoNodes == {n1, n2}
NodeSymmetry == Permutations(Nodes)
=============================================================================
