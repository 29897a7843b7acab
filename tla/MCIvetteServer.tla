--------------------------- MODULE MCIvetteServer ---------------------------
(* Instances of IvetteServer for TLC.                                      *)
EXTENDS IvetteServer
CONSTANT s1
=============================================================================
