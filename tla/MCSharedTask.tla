---------------------------- MODULE MCSharedTask ----------------------------
(* Instances of SharedTask for TLC.                                        *)
EXTENDS SharedTask, TLC
CONSTANTS i1, i2, i3
InstanceSymmetry == Permutations(Instances)
=============================================================================
