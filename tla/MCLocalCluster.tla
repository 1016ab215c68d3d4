--------------------------- MODULE MCLocalCluster ---------------------------
(* Small instances of LocalCluster. *)
EXTENDS LocalCluster, TLC

Symmetry == Permutations(Calls) \cup Permutations(Allocs)
=============================================================================
