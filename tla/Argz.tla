-------------------------------- MODULE Argz --------------------------------
(***************************************************************************)
(* The argz vectors of share/libc/argz.c: a block of strings, each with    *)
(* its terminator, that every operation reallocates.  The program owns one *)
(* vector; the strings it passes are blocks of their own.  Blocks and      *)
(* strings are memories of LibcString, a null block is empty.              *)
(***************************************************************************)
EXTENDS StringBuiltins, SequencesExt

CONSTANTS
  Strings,   \* the strings a caller passes
  Vectors,   \* the vectors of strings a caller passes
  Patterns,  \* the strings argz_replace looks for, not empty
  Sep,       \* the separator
  MaxLen     \* bound: the largest block

(* What a string is made of *)
Char == Int \ {NUL, Outside, Uninit}
ASSUME StringsAssumption ==
  /\ Strings \subseteq Seq(Char) /\ Vectors \subseteq Seq(Seq(Char))
  /\ Patterns \subseteq Seq(Char) \ {<<>>}
  /\ Sep \in Char /\ MaxLen \in Nat

VARIABLES argz, argz_len

vars == <<argz, argz_len>>

Bytes(s) == s \o <<NUL>>     \* the block of a string
Joint(v) == FlattenSeq([i \in DOMAIN v |-> Bytes(v[i])])

malloc(n) == [i \in 1 .. n |-> Uninit]
realloc(block, n) == [i \in 1 .. n |-> IF i <= Len(block) THEN block[i] ELSE Uninit]
(* block after a call that copies into it from another block: F is called  *)
(* on a memory with both, and with where the other one starts.             *)
Into(block, other, F(_, _)) ==
  SubSeq(F(block \o <<Outside>> \o other, Len(block) + 2), 1, Len(block))

-----------------------------------------------------------------------------
(* Queries. *)

argz_next(a, len, entry) ==
  IF entry = NULL THEN IF len > 0 THEN 1 ELSE NULL
  ELSE LET next == IF entry < 1 + len THEN strchr(a, entry, NUL) + 1 ELSE entry
       IN  IF next >= 1 + len THEN NULL ELSE next

argz_count(a, len) ==
  LET from[p \in 1 .. len + 1] == IF p > len THEN 0 ELSE 1 + from[p + strlen(a, p) + 1]
  IN  from[1]

argz_extract(a, len) ==
  LET from[p \in 1 .. len + 1] == IF p > len THEN <<>> ELSE <<p>> \o from[p + strlen(a, p) + 1]
  IN  from[1]

EntryAt(a, p) == SubSeq(a, p, p + strlen(a, p) - 1)

-----------------------------------------------------------------------------
(* The functions that change the vector v, and the vector they leave. *)

Vector(block, len) == [argz |-> block, len |-> len]

argz_append(v, buf) ==
  LET copy(m, s) == memcpy(m, v.len + 1, s, Len(buf)).mem
  IN  Vector(Into(realloc(v.argz, v.len + Len(buf)), buf, copy), v.len + Len(buf))
argz_add(v, s) == argz_append(v, Bytes(s))

(* Each string is copied over the terminator of the place of the former. *)
argz_create(strs) ==
  LET put(acc, s) ==
        LET r == stpcpy(acc.block \o <<Outside>> \o Bytes(s), acc.p, Len(acc.block) + 2)
        IN  [block |-> SubSeq(r.mem, 1, Len(acc.block)), p |-> r.ret + 1]
      tlen == Len(Joint(strs))
  IN  Vector(FoldLeft(put, [block |-> malloc(tlen), p |-> 1], strs).block, tlen)

(* One turn of the loop that splits a string: wp is where it writes, nlen  *)
(* what it counts; a separator ends an entry unless nothing was written    *)
(* since the former.                                                       *)
SplitFirst(acc, c) ==   \* mutant
  IF c # Sep THEN [acc EXCEPT !.block[acc.wp] = c, !.wp = acc.wp + 1]
  ELSE IF acc.wp > 1
  THEN [acc EXCEPT !.block[acc.wp] = NUL, !.wp = acc.wp + 1]
  ELSE [acc EXCEPT !.nlen = acc.nlen - 1]
Split(acc, c) ==
  IF c # Sep THEN [acc EXCEPT !.block[acc.wp] = c, !.wp = acc.wp + 1]
  ELSE IF acc.wp > 1 /\ At(acc.block, acc.wp - 1) # NUL
  THEN [acc EXCEPT !.block[acc.wp] = NUL, !.wp = acc.wp + 1]
  ELSE [acc EXCEPT !.nlen = acc.nlen - 1]
argz_create_sep(s) ==
  LET nlen == Len(s) + 1
      end == FoldLeft(Split, [block |-> malloc(nlen), wp |-> 1, nlen |-> nlen], Bytes(s))
  IN  IF nlen > 1 THEN Vector(end.block, end.nlen) ELSE Vector(<<>>, 0)
argz_add_sep(v, s) ==
  LET nlen == Len(s) + 1
      end == FoldLeft(Split, [block |-> realloc(v.argz, v.len + nlen), wp |-> v.len + 1, nlen |-> nlen],
                      Bytes(s))
  IN  IF nlen > 1 THEN Vector(end.block, v.len + end.nlen) ELSE v

(* before: an entry, or a place in the middle of one after the first *)
StartOfVector(a, before) == 1   \* mutant
EntryStart(a, before) == CHOOSE p \in 1 .. before :
  /\ p = 1 \/ a[p - 1] = NUL
  /\ \A q \in p + 1 .. before : a[q - 1] # NUL
argz_insert(v, before, entry) ==
  LET p == EntryStart(v.argz, before)
      entry_len == Len(entry) + 1
      block == realloc(v.argz, v.len + entry_len)
      moved == memmove(block, p + entry_len, p, v.len - (p - 1)).mem
      copy(m, s) == memmove(m, p, s, entry_len).mem
  IN  IF before = NULL THEN argz_add(v, entry)
      ELSE Vector(Into(moved, Bytes(entry), copy), v.len + entry_len)

argz_delete(v, entry) ==
  LET entry_len == strlen(v.argz, entry) + 1
      len == v.len - entry_len
      block == memmove(v.argz, entry, entry + entry_len, len - (entry - 1)).mem
  IN  Vector(IF len = 0 THEN <<>> ELSE block, len)

StringifyEarly(v) ==   \* mutant
  LET cut[p \in 1 .. v.len + 1] ==
        LET q == p + strnlen(v.argz, p, v.len + 1 - p)
        IN  IF v.len - q <= 1 THEN {} ELSE {q} \cup cut[q + 1]
  IN  Vector([i \in DOMAIN v.argz |-> IF i \in cut[1] THEN Sep ELSE v.argz[i]], v.len)
argz_stringify(v) ==
  LET cut[p \in 1 .. v.len + 1] ==
        LET q == p + strnlen(v.argz, p, v.len + 1 - p)
        IN  IF v.len + 1 - q <= 1 THEN {} ELSE {q} \cup cut[q + 1]
  IN  Vector([i \in DOMAIN v.argz |-> IF i \in cut[1] THEN Sep ELSE v.argz[i]], v.len)

(* The entry at arg with every match of str replaced, from is where the    *)
(* rest of the entry starts.                                               *)
Match(a, from, str) == strstr(a \o <<Outside>> \o Bytes(str), from, Len(a) + 2)
Substituted(a, arg, str, with) ==
  LET rest[from \in 1 .. Len(a) + 1] ==
        LET match == Match(a, from, str)
        IN  IF match = NULL THEN EntryAt(a, from)
            ELSE SubSeq(a, from, match - 1) \o with \o rest[match + Len(str)]
  IN  rest[arg]

(* The copy starts at the first entry that matches, with those before it. *)
ReplaceWithoutFirst(v, str, with) ==   \* mutant
  LET put(dst, arg) ==
        IF Match(v.argz, arg, str) # NULL
        THEN argz_add(dst, Substituted(v.argz, arg, str, with))
        ELSE IF dst.argz # <<>> THEN argz_add(dst, EntryAt(v.argz, arg))
        ELSE dst
      dst == FoldLeft(put, Vector(<<>>, 0), argz_extract(v.argz, v.len))
  IN  IF dst.argz = <<>> THEN v ELSE dst
argz_replace(v, str, with) ==
  LET put(dst, arg) ==
        IF Match(v.argz, arg, str) # NULL
        THEN argz_add(IF dst.argz = <<>> /\ arg > 1 THEN argz_append(dst, SubSeq(v.argz, 1, arg - 1)) ELSE dst,
                      Substituted(v.argz, arg, str, with))
        ELSE IF dst.argz # <<>> THEN argz_add(dst, EntryAt(v.argz, arg))
        ELSE dst
      dst == FoldLeft(put, Vector(<<>>, 0), argz_extract(v.argz, v.len))
  IN  IF dst.argz = <<>> THEN v ELSE dst

-----------------------------------------------------------------------------
(* The program.  It creates a vector when it has none; it uses none that   *)
(* argz_add_sep lost.  A call that fails to allocate changes nothing,      *)
(* argz_add_sep excepted.                                                  *)

Current == Vector(argz, argz_len)
Init == argz = <<>> /\ argz_len = 0

Leaves(v) == Len(v.argz) <= MaxLen /\ argz' = v.argz /\ argz_len' = v.len
Intact == argz # <<>> \/ argz_len = 0

Create == argz = <<>> /\ \E strs \in Vectors : Leaves(argz_create(strs))
CreateSep == argz = <<>> /\ \E s \in Strings : Leaves(argz_create_sep(s))
AppendVector == Intact /\ \E strs \in Vectors \ {<<>>} : Leaves(argz_append(Current, Joint(strs)))
Add == Intact /\ \E s \in Strings : Leaves(argz_add(Current, s))
AddSep == Intact /\ \E s \in Strings : Leaves(argz_add_sep(Current, s))

(* realloc fails: the address and the contents are lost, the length kept. *)
AddSepFails ==
  Intact /\ argz_len > 0 /\ (\E s \in Strings : s # <<>>) /\ Leaves(Vector(<<>>, argz_len))

FirstEntry == 1 .. strlen(argz, 1) + 1
Places == {NULL, 1} \cup (1 .. argz_len \ FirstEntry)
Insert ==
  Intact /\ \E before \in IF argz_len = 0 THEN {NULL} ELSE Places, s \in Strings :
    Leaves(argz_insert(Current, before, s))
Delete ==
  argz # <<>> /\ \E p \in Range(argz_extract(argz, argz_len)) : Leaves(argz_delete(Current, p))
Replace == argz # <<>> /\ \E str \in Patterns, with \in Strings : Leaves(argz_replace(Current, str, with))
Stringify == argz # <<>> /\ Leaves(argz_stringify(Current))

Next ==
  \/ Create \/ CreateSep \/ AppendVector \/ Add \/ AddSep \/ AddSepFails
  \/ Insert \/ Delete \/ Replace \/ Stringify

Spec == Init /\ [][Next]_vars

-----------------------------------------------------------------------------
(* Properties. *)

Entries == IF Intact THEN argz_extract(argz, argz_len) ELSE <<>>

(* argz_count, argz_extract and the iteration by argz_next find the same   *)
(* entries, from the start of an entry or from its middle.                 *)
WalkAgrees ==
  Intact =>
    /\ argz_count(argz, argz_len) = Len(Entries)
    /\ \A p \in 0 .. argz_len :
         LET later == {q \in Range(Entries) : q > p}
         IN  argz_next(argz, argz_len, p) = IF later = {} THEN NULL ELSE CHOOSE q \in later : \A r \in later : q <= r

(* The strings of a block, and the entry of E around the place p *)
StringsIn(block, len) == LET E == argz_extract(block, len) IN [i \in DOMAIN E |-> EntryAt(block, E[i])]
Around(E, p, i) == E[i] <= p /\ (i = Len(E) \/ p < E[i + 1])

(* argz_add appends, argz_insert inserts before the entry around the place *)
(* it is given, and argz_delete removes the entry it is given.             *)
EditsPlaced ==
  (Intact /\ argz_len > 0) =>
    LET ss == StringsIn(argz, argz_len)
        Makes(v, strings) == \E w \in {v} : StringsIn(w.argz, w.len) = strings   \* evaluates v once
    IN  /\ \A s \in Strings :
             /\ Makes(argz_insert(Current, NULL, s), ss \o <<s>>)
             /\ \A p \in Places \ {NULL} : \E i \in DOMAIN Entries :
                  Around(Entries, p, i) /\ Makes(argz_insert(Current, p, s), InsertAt(ss, i, s))
        /\ \A p \in Range(Entries) : \E i \in DOMAIN Entries :
             Entries[i] = p /\ Makes(argz_delete(Current, p), RemoveAt(ss, i))

Vec == INSTANCE ArgzVector WITH entries <- [i \in DOMAIN Entries |-> EntryAt(argz, Entries[i])], intact <- Intact

(* The blocks and lengths argz.c maintains are a vector of strings, each   *)
(* function does to it what its name says, at the place it is given,       *)
(* whatever the entries, the empty ones included, and every way to walk    *)
(* the vector finds its entries.                                           *)
ImplementsVector == Vec!Spec /\ [](WalkAgrees /\ EditsPlaced)

(* The memory of the vector and that of a string constant apart from it *)
Constant == <<97, NUL>>
Memory == SubSeq(argz, 1, IF argz = <<>> THEN 0 ELSE argz_len) \o <<Outside>> \o Constant
ReadOnly == Len(Memory) - 1 .. Len(Memory)

(* On the memories the vectors make, every function of string.c does what  *)
(* its contract in string.h says, for pointers to one block or to two.     *)
ContractsMet == MeetsContracts(Memory)

(* E-ACSL's builtins let a call through only when it stays in the blocks   *)
(* it may touch and does what the runtime records.                         *)
BuiltinsSound ==
  \A d, s \in 0 .. Len(Memory) + 1 :
    /\ LetsThrough(Memory, ReadOnly, d, s)
    /\ \A n \in 0 .. Len(Memory) : LetsThroughBytes(Memory, ReadOnly, d, s, n)
=============================================================================
