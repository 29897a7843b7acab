---------------------------- MODULE MCArraySync ----------------------------
(* Instances of ArraySync for TLC. *)
EXTENDS ArraySync, TLC
CONSTANTS p1, p2, p3, k1, k2, v1, v2
Symmetry == Permutations(Projects) \cup Permutations(Keys) \cup Permutations(Values)
=============================================================================
