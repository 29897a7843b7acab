------------------------------- MODULE MCArgz -------------------------------
(* Strings of letters and separators, and vectors of them, for TLC. *)
EXTENDS Argz, TLC
a == 97
colon == 58
MCSep == colon
MCStrings == {<<>>, <<a>>, <<colon>>, <<a, colon>>, <<colon, a, a>>}
MCVectors == {<<>>, <<<<>>>>, <<<<a>>, <<>>>>, <<<<a, a>>, <<a>>>>}
MCPatterns == {<<a>>, <<a, a>>, <<colon>>}
=============================================================================
