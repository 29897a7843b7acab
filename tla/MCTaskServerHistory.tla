------------------------- MODULE MCTaskServerHistory -------------------------
(* Instances of TaskServerHistory for TLC.                                 *)
EXTENDS TaskServerHistory

CONSTANTS t1, t2, t3

=============================================================================
