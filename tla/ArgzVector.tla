----------------------------- MODULE ArgzVector -----------------------------
(***************************************************************************)
(* What share/libc/argz.c promises: a vector of strings.  A call that      *)
(* fails leaves the vector as it was, argz_add_sep excepted, which loses   *)
(* it: nothing but a new vector can follow.                                *)
(***************************************************************************)
EXTENDS Integers, Sequences

CONSTANTS
  Strings,   \* the strings a caller passes
  Vectors,   \* the vectors it creates or appends
  Patterns,  \* the strings argz_replace looks for
  Sep        \* the separator

VARIABLES entries, intact

Init == entries = <<>> /\ intact = TRUE

(* The parts of s between separators: all but the last are dropped when    *)
(* they are empty.  upto[i] has those of the first i characters, and what  *)
(* follows the last separator among them.                                  *)
Parts(s) ==
  LET upto[i \in 0 .. Len(s)] ==
        IF i = 0 THEN [parts |-> <<>>, rest |-> <<>>]
        ELSE IF s[i] # Sep THEN [upto[i - 1] EXCEPT !.rest = Append(@, s[i])]
        ELSE IF upto[i - 1].rest = <<>> THEN upto[i - 1]
        ELSE [parts |-> Append(upto[i - 1].parts, upto[i - 1].rest), rest |-> <<>>]
  IN  Append(upto[Len(s)].parts, upto[Len(s)].rest)

(* s with every occurrence of p, from the left, replaced. *)
Replaced(s, p, with) ==
  LET rest[i \in 1 .. Len(s) + 1] ==
        IF Len(s) - i + 1 < Len(p) THEN SubSeq(s, i, Len(s))
        ELSE IF SubSeq(s, i, i + Len(p) - 1) = p THEN with \o rest[i + Len(p)]
        ELSE <<s[i]>> \o rest[i + 1]
  IN  rest[1]

First(n) == SubSeq(entries, 1, n)
After(n) == SubSeq(entries, n + 1, Len(entries))

Joined ==
  LET upto[i \in 1 .. Len(entries)] ==
        IF i = 1 THEN entries[1] ELSE upto[i - 1] \o (<<Sep>> \o entries[i])
  IN  upto[Len(entries)]

-----------------------------------------------------------------------------
Fails == UNCHANGED <<entries, intact>>
Lost == entries' = <<>> /\ intact' = FALSE
Becomes(v) == entries' = v /\ UNCHANGED intact

Create == entries = <<>> /\ intact' = TRUE /\ \E v \in Vectors : entries' = v
CreateSep ==
  /\ entries = <<>> /\ intact' = TRUE
  /\ \E s \in Strings : entries' = IF s = <<>> THEN <<>> ELSE Parts(s)
AppendVector == intact /\ \E v \in Vectors : Becomes(entries \o v)
AddSep == intact /\ \E s \in Strings \ {<<>>} : Becomes(entries \o Parts(s)) \/ Lost
Insert ==
  /\ intact
  /\ \E s \in Strings, i \in 0 .. Len(entries) : Becomes(First(i) \o <<s>> \o After(i))
Delete == intact /\ \E i \in DOMAIN entries : Becomes(First(i - 1) \o After(i))
Replace ==
  /\ intact
  /\ \E p \in Patterns, w \in Strings : Becomes([i \in DOMAIN entries |-> Replaced(entries[i], p, w)])
Stringify == intact /\ entries # <<>> /\ Becomes(<<Joined>>)

Next == Create \/ CreateSep \/ AppendVector \/ AddSep \/ Insert \/ Delete \/ Replace \/ Stringify \/ Fails

Spec == Init /\ [][Next]_<<entries, intact>>
=============================================================================
