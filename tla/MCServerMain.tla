---------------------------- MODULE MCServerMain ----------------------------
EXTENDS ServerMain, TLC
CONSTANTS i1, i2, s1, j1
RequestSymmetry == Permutations(Ids)
=============================================================================
