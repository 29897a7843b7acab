----------------------------- MODULE LibcString -----------------------------
(***************************************************************************)
(* The string functions of Frama-C's C library (share/libc/string.c) and   *)
(* the ACSL contracts string.h gives them.  A memory is a sequence of      *)
(* bytes, one or several blocks apart; a pointer is a position in it and 0 *)
(* the null pointer.  A loop is modelled by where it stops and by the      *)
(* memory it leaves, byte by byte in the order of the code, since source   *)
(* and destination may be parts of one block.                              *)
(***************************************************************************)
EXTENDS Integers, Sequences

NULL == 0
NUL == 0
Outside == -1   \* what lies between two blocks: no valid access reads it
Uninit == -2    \* an allocated byte that was never written

At(m, p) == IF p \in DOMAIN m THEN m[p] ELSE Outside

(* The first i <= n that satisfies Stop, n when there is none before: how  *)
(* the loops of string.c end.                                              *)
FirstStop(n, Stop(_)) == CHOOSE i \in 0 .. n :
  /\ i = n \/ Stop(i)
  /\ \A j \in 0 .. i - 1 : ~Stop(j)
LastStop(n, Stop(_)) == CHOOSE i \in 0 .. n :
  /\ i = 0 \/ Stop(i)
  /\ \A j \in i + 1 .. n : ~Stop(j)

-----------------------------------------------------------------------------
(* Reading. *)

strnlen(m, s, maxlen) == FirstStop(maxlen, LAMBDA i : At(m, s + i) \in {NUL, Outside})
strlen(m, s) == strnlen(m, s, Len(m) + 1 - s)

memcmp(m, s1, s2, n) ==
  LET i == FirstStop(n, LAMBDA k : m[s1 + k] # m[s2 + k])
  IN  IF i = n THEN 0 ELSE m[s1 + i] - m[s2 + i]

strncmp(m, s1, s2, n) ==
  LET i == FirstStop(n, LAMBDA k : At(m, s1 + k) # At(m, s2 + k) \/ At(m, s1 + k) = NUL)
  IN  IF i = n THEN 0 ELSE At(m, s1 + i) - At(m, s2 + i)
strcmp(m, s1, s2) == strncmp(m, s1, s2, Len(m) + 1)

strchr(m, s, c) ==
  LET i == FirstStop(Len(m) + 1 - s, LAMBDA k : At(m, s + k) \in {c, NUL, Outside})
  IN  IF At(m, s + i) = c THEN s + i ELSE NULL

strrchr(m, s, c) ==
  LET i == LastStop(strlen(m, s) + 1, LAMBDA k : At(m, s + k - 1) = c)
  IN  IF i = 0 THEN NULL ELSE s + i - 1

memchr(m, s, c, n) ==
  LET i == FirstStop(n, LAMBDA k : At(m, s + k) = c) IN IF i = n THEN NULL ELSE s + i

memrchr(m, s, c, n) ==
  LET i == LastStop(n, LAMBDA k : m[s + k - 1] = c) IN IF i = 0 THEN NULL ELSE s + i - 1

rawmemchr(m, s, c) == s + FirstStop(Len(m) + 1 - s, LAMBDA k : At(m, s + k) \in {c, Outside})

(* The inner loop of strstr stops at the end of the haystack or at the     *)
(* first difference, the end of the needle being one.                      *)
Matched(m, h, needle) ==
  LET j == FirstStop(Len(m), LAMBDA k : At(m, h + k) = NUL \/ At(m, h + k) # At(m, needle + k))
  IN  At(m, needle + j) = NUL
strstr(m, haystack, needle) ==
  IF m[needle] = NUL THEN haystack
  ELSE LET i == FirstStop(strlen(m, haystack), LAMBDA k : Matched(m, haystack + k, needle))
       IN  IF i = strlen(m, haystack) THEN NULL ELSE haystack + i

-----------------------------------------------------------------------------
(* Writing.  The functions return the memory they leave and their result.  *)

Written(m, p, c) == [m EXCEPT ![p] = c]
Returned(m, p) == [mem |-> m, ret |-> p]

CopyUp(m, d, s, n) ==
  LET after[i \in 0 .. n] ==
        IF i = 0 THEN m ELSE Written(after[i - 1], d + i - 1, At(after[i - 1], s + i - 1))
  IN  after[n]
CopyDown(m, d, s, n) ==
  LET after[i \in 0 .. n] ==
        IF i = n THEN m ELSE Written(after[i + 1], d + i, At(after[i + 1], s + i))
  IN  after[0]

memcpy(m, d, s, n) == Returned(CopyUp(m, d, s, n), d)
mempcpy(m, d, s, n) == Returned(CopyUp(m, d, s, n), d + n)

memoverlapBefore(p, q, n) == IF p <= q /\ p + n > q THEN -1 ELSE 0   \* mutant
memoverlap(p, q, n) ==
  IF p <= q /\ p + n > q THEN -1
  ELSE IF q <= p /\ q + n > p THEN 1
  ELSE 0
memmove(m, d, s, n) ==
  IF n = 0 \/ memoverlap(d, s, n) <= 0 THEN memcpy(m, d, s, n)
  ELSE Returned(CopyDown(m, d, s, n), d)

memset(m, s, c, n) ==
  Returned([p \in DOMAIN m |-> IF p \in s .. s + n - 1 THEN c ELSE m[p]], s)

(* for (i = 0; i < n && src[i] != 0; i++) dest[i] = src[i]: how many bytes *)
(* it copies, the source being read in the memory already written.         *)
Copied(m, d, s, n) ==
  FirstStop(n, LAMBDA i : At(CopyUp(m, d, s, i), s + i) \in {NUL, Outside})
Terminated(m, d, s, n) == Written(CopyUp(m, d, s, n), d + n, NUL)

stpcpy(m, d, s) ==
  LET n == Copied(m, d, s, Len(m)) IN Returned(Terminated(m, d, s, n), d + n)
strcpy(m, d, s) == Returned(stpcpy(m, d, s).mem, d)
strcat(m, d, s) == Returned(stpcpy(m, d + strlen(m, d), s).mem, d)
strncat(m, d, s, n) ==
  LET e == d + strlen(m, d) IN Returned(Terminated(m, e, s, Copied(m, e, s, n)), d)
strncpy(m, d, s, n) ==
  LET i == Copied(m, d, s, n)
  IN  Returned(memset(CopyUp(m, d, s, i), d + i, NUL, n - i).mem, d)

(* A fresh block, a memory of its own; malloc may fail. *)
strndup(m, s, n) == SubSeq(m, s, s + strnlen(m, s, n) - 1) \o <<NUL>>
strdup(m, s) == SubSeq(m, s, s + strlen(m, s))

-----------------------------------------------------------------------------
(* The logic functions of __fc_string_axiomatic.h, as their axioms say.    *)
(* strlen is negative where there is no terminator, and the header tests   *)
(* strlen(s) < n all the same; it is read here as what the contracts mean, *)
(* a terminator among the n first bytes.                                   *)

logic_strlen(m, s) ==
  IF \E i \in 0 .. Len(m) - s : At(m, s + i) = NUL
  THEN CHOOSE i \in 0 .. Len(m) - s : At(m, s + i) = NUL /\ \A j \in 0 .. i - 1 : At(m, s + j) # NUL
  ELSE -1
logic_strnlen(m, s, n) == IF logic_strlen(m, s) \in 0 .. n THEN logic_strlen(m, s) ELSE n
SameBytes(m1, s1, m2, s2, n) == \A i \in 0 .. n - 1 : At(m1, s1 + i) = At(m2, s2 + i)
SameStrings(m1, s1, m2, s2) ==
  /\ logic_strlen(m1, s1) = logic_strlen(m2, s2)
  /\ SameBytes(m1, s1, m2, s2, logic_strlen(m1, s1) + 1)
SamePrefix(m1, s1, m2, s2, n) ==
  \/ logic_strlen(m1, s1) \in 0 .. n - 1 /\ SameStrings(m1, s1, m2, s2)
  \/ SameBytes(m1, s1, m2, s2, n)

valid(m, s, n) == \A i \in 0 .. n - 1 : At(m, s + i) # Outside
initialized(m, bytes) == \A p \in bytes : At(m, p) # Uninit
separated(p, n, q, k) == n = 0 \/ k = 0 \/ p + n <= q \/ q + k <= p
valid_string(m, s) == logic_strlen(m, s) >= 0 /\ valid(m, s, logic_strlen(m, s) + 1)
valid_read_nstring(m, s, n) == (valid(m, s, n) /\ initialized(m, s .. s + n - 1)) \/ valid_string(m, s)

(* The bytes a call may assign, and nothing else. *)
Assigns(m, r, bytes) ==
  DOMAIN r.mem = DOMAIN m /\ \A p \in DOMAIN m \ bytes : r.mem[p] = m[p]

-----------------------------------------------------------------------------
(* The contracts of string.h: what a call requires, and what it ensures of *)
(* the memory it finds and of what it returns.                             *)

memcmp_contract(m, s, t, n) ==
  valid(m, s, n) /\ valid(m, t, n) => (memcmp(m, s, t, n) = 0 <=> SameBytes(m, s, m, t, n))

(* The bytes up to the first c are enough, n may reach beyond the block.   *)
memchr_requires(m, s, c, n) ==
  valid(m, s, n) \/ \E k \in 0 .. n - 1 : At(m, s + k) = c /\ valid(m, s, k + 1)
memchr_contract(m, s, c, n) ==
  memchr_requires(m, s, c, n) =>
    LET r == memchr(m, s, c, n)
    IN  IF \E i \in 0 .. n - 1 : At(m, s + i) = c
        THEN /\ valid(m, r, 1) /\ At(m, r) = c
             /\ \A i \in 0 .. n - 1 : At(m, s + i) = c => r <= s + i
        ELSE r = NULL
memrchr_contract(m, s, c, n) ==
  valid(m, s, n) =>
    LET r == memrchr(m, s, c, n)
    IN  IF \E i \in 0 .. n - 1 : m[s + i] = c THEN valid(m, r, 1) ELSE r = NULL
rawmemchr_contract(m, s, c) ==
  (\E p \in s .. Len(m) : m[p] = c /\ valid(m, s, p + 1 - s)) => valid(m, rawmemchr(m, s, c), 1)

Copies(m, r, d, s, n) == Assigns(m, r, d .. d + n - 1) /\ SameBytes(r.mem, d, m, s, n)
memcpy_requires(m, d, s, n) == valid(m, d, n) /\ valid(m, s, n) /\ separated(d, n, s, n)
memcpy_contract(m, d, s, n) ==
  memcpy_requires(m, d, s, n) =>
    LET r == memcpy(m, d, s, n) IN Copies(m, r, d, s, n) /\ r.ret = d
mempcpy_contract(m, d, s, n) ==
  memcpy_requires(m, d, s, n) =>
    LET r == mempcpy(m, d, s, n) IN Copies(m, r, d, s, n) /\ r.ret = d + n
memmove_requires(m, d, s, n) == valid(m, d, n) /\ valid(m, s, n)
memmove_contract(m, d, s, n) ==
  memmove_requires(m, d, s, n) =>
    LET r == memmove(m, d, s, n) IN Copies(m, r, d, s, n) /\ r.ret = d
memoverlap_contract(p, q, n) ==
  memoverlap(p, q, n) = IF separated(p, n, q, n) THEN 0 ELSE IF p <= q THEN -1 ELSE 1
memset_contract(m, s, c, n) ==
  valid(m, s, n) =>
    LET r == memset(m, s, c, n)
    IN  Assigns(m, r, s .. s + n - 1) /\ r.ret = s /\ \A i \in 0 .. n - 1 : r.mem[s + i] = c

strlen_contract(m, s) == valid_string(m, s) => strlen(m, s) = logic_strlen(m, s)
strnlen_contract(m, s, n) ==
  valid_read_nstring(m, s, n) => strnlen(m, s, n) \in {logic_strlen(m, s), n}
strcmp_contract(m, s, t) ==
  valid_string(m, s) /\ valid_string(m, t) => (strcmp(m, s, t) = 0 <=> SameStrings(m, s, m, t))
strncmp_contract(m, s, t, n) ==
  valid_read_nstring(m, s, n) /\ valid_read_nstring(m, t, n) =>
    (strncmp(m, s, t, n) = 0 <=> SamePrefix(m, s, m, t, n))
strchr_contract(m, s, c) ==
  valid_string(m, s) =>
    LET r == strchr(m, s, c)
    IN  IF \E i \in 0 .. logic_strlen(m, s) : m[s + i] = c
        THEN /\ valid_string(m, r) /\ m[r] = c /\ r \in s .. s + logic_strlen(m, s)
             /\ \A p \in s .. r - 1 : m[p] # c
        ELSE r = NULL
strrchr_contract(m, s, c) ==
  valid_string(m, s) => strrchr(m, s, c) = NULL \/ valid_string(m, strrchr(m, s, c))
strstr_contract(m, h, s) ==
  valid_string(m, h) /\ valid_string(m, s) =>
    LET r == strstr(m, h, s)
    IN  r = NULL \/ (valid_string(m, r) /\ SameBytes(m, r, m, s, logic_strlen(m, s)))

strcpy_requires(m, d, s) ==
  LET n == logic_strlen(m, s) + 1
  IN  valid_string(m, s) /\ valid(m, d, n) /\ separated(d, n, s, n)
strcpy_contract(m, d, s) ==
  strcpy_requires(m, d, s) =>
    LET r == strcpy(m, d, s)
    IN  /\ Assigns(m, r, d .. d + logic_strlen(m, s))
        /\ SameStrings(r.mem, d, m, s) /\ r.ret = d
stpcpy_contract(m, d, s) ==
  strcpy_requires(m, d, s) =>
    LET r == stpcpy(m, d, s)
    IN  /\ Assigns(m, r, d .. d + logic_strlen(m, s))
        /\ SameStrings(r.mem, d, m, s) /\ r.ret = d + logic_strlen(r.mem, d)
strncpy_requires(m, d, s, n) ==
  valid_read_nstring(m, s, n) /\ valid(m, d, n) /\ separated(d, n, s, n)
strncpy_contract(m, d, s, n) ==
  strncpy_requires(m, d, s, n) =>
    LET r == strncpy(m, d, s, n)
        l == logic_strlen(m, s)
    IN  /\ Assigns(m, r, d .. d + n - 1) /\ r.ret = d /\ initialized(r.mem, d .. d + n - 1)
        /\ l \in 0 .. n - 1 => SameStrings(r.mem, d, r.mem, s)
        /\ l \notin 0 .. n - 1 => SameBytes(r.mem, d, r.mem, s, n)

strcat_requires(m, d, s) ==
  LET n == logic_strlen(m, d) + logic_strlen(m, s) + 1
  IN  /\ valid_string(m, s) /\ valid_string(m, d) /\ valid(m, d, n)
      /\ separated(d, n, s, logic_strlen(m, s) + 1)
strcat_contract(m, d, s) ==
  strcat_requires(m, d, s) =>
    LET r == strcat(m, d, s)
        l == logic_strlen(m, d)
    IN  /\ Assigns(m, r, d + l .. d + l + logic_strlen(m, s)) /\ r.ret = d
        /\ logic_strlen(r.mem, d) = l + logic_strlen(m, s)
strncat_requires(m, d, s, n) ==
  LET l == logic_strlen(m, d)
      k == logic_strnlen(m, s, n)
  IN  /\ valid_read_nstring(m, s, n) /\ valid_string(m, d)
      /\ separated(d, l + k + 1, s, k + 1) /\ valid(m, d + l, k + 1)
strncat_contract(m, d, s, n) ==
  strncat_requires(m, d, s, n) =>
    LET r == strncat(m, d, s, n)
        l == logic_strlen(m, d)
        k == logic_strnlen(m, s, n)
    IN  Assigns(m, r, d + l .. d + l + k) /\ r.ret = d /\ logic_strlen(r.mem, d) = l + k

strdup_contract(m, s) ==
  valid_string(m, s) => valid_string(strdup(m, s), 1) /\ SameStrings(strdup(m, s), 1, m, s)
strndup_contract(m, s, n) ==
  valid_string(m, s) =>
    LET r == strndup(m, s, n)
    IN  /\ Len(r) = logic_strnlen(m, s, n) + 1 /\ valid_string(r, 1)
        /\ logic_strlen(r, 1) <= n /\ SamePrefix(r, 1, m, s, n)

(* Every function meets its contract on the memory m, with any pointers    *)
(* into it, equal, overlapping or apart, any count and any character.      *)
MeetsContracts(m) ==
  \A s \in DOMAIN m :
    /\ strlen_contract(m, s) /\ strdup_contract(m, s)
    /\ \A c \in {m[p] : p \in DOMAIN m} \ {Outside} :
         strchr_contract(m, s, c) /\ strrchr_contract(m, s, c) /\ rawmemchr_contract(m, s, c)
    /\ \A n \in 0 .. Len(m) + 1 :
         /\ strnlen_contract(m, s, n) /\ strndup_contract(m, s, n)
         /\ \A c \in {m[p] : p \in DOMAIN m} \ {Outside} :
              memchr_contract(m, s, c, n) /\ memrchr_contract(m, s, c, n) /\ memset_contract(m, s, c, n)
    /\ \A d \in DOMAIN m :
         /\ strcmp_contract(m, d, s) /\ strstr_contract(m, d, s)
         /\ strcpy_contract(m, d, s) /\ stpcpy_contract(m, d, s) /\ strcat_contract(m, d, s)
         /\ \A n \in 0 .. Len(m) + 1 :
              /\ memcmp_contract(m, d, s, n) /\ strncmp_contract(m, d, s, n)
              /\ memcpy_contract(m, d, s, n) /\ mempcpy_contract(m, d, s, n)
              /\ memoverlap_contract(d, s, n) /\ memmove_contract(m, d, s, n)
              /\ strncpy_contract(m, d, s, n)
              /\ strncat_contract(m, d, s, n)
=============================================================================
