----------------------------- MODULE Argz_proofs -----------------------------
(***************************************************************************)
(* In four parts.                                                          *)
(*                                                                         *)
(* The functions of string.c meet their contracts of string.h on every     *)
(* memory.  A loop is a first position, which the least number principle   *)
(* gives; a copy is a recursive function, whose value is found by looking  *)
(* at the least place where it would be something else.                    *)
(*                                                                         *)
(* E-ACSL's builtins let through only the calls those contracts allow.     *)
(*                                                                         *)
(* A vector represents the strings that stand in it one after the other,   *)
(* and each function of argz.c makes of it the vector of the strings       *)
(* ArgzVector says.  A loop is a fold or a recursive function that jumps   *)
(* from entry to entry: it is shown to exist, then followed from place to  *)
(* place.                                                                  *)
(*                                                                         *)
(* So the program implements ArgzVector, and the two former results hold   *)
(* of the memories its vectors make.                                       *)
(***************************************************************************)
EXTENDS Argz, SequenceTheorems, WellFoundedInduction, TLAPS

(* A memory of any length, blocks and bytes.  The contracts that promise   *)
(* initialized bytes need one whose bytes are all written.                 *)
Memories == Seq(Int)

Clean(m) == \A p \in Int : At(m, p) # Uninit

(* A set of numbers that is not empty has a least element. *)
LEMMA LeastNat ==
  ASSUME NEW T, T \subseteq Nat, T # {}
  PROVE  \E x \in T : \A y \in T : x <= y
<1>1. PICK x \in T : \A y \in T : <<y, x>> \notin OpToRel(<, Nat)
  BY WFMin, NatLessThanWellFounded
<1>2. \A y \in T : ~(y < x)
  BY <1>1 DEF OpToRel
<1> QED
  BY <1>2

(* Where FirstStop and LastStop stop. *)
LEMMA FirstExists ==
  ASSUME NEW n \in Nat, NEW S
  PROVE  \E i \in 0 .. n : (i = n \/ i \in S) /\ \A j \in 0 .. i - 1 : j \notin S
<1> DEFINE T == {i \in 0 .. n : i = n \/ i \in S}
<1>1. T \subseteq Nat /\ n \in T
  OBVIOUS
<1>2. PICK i \in T : \A y \in T : i <= y
  BY <1>1, LeastNat
<1> QED
  BY <1>2

(* A last position of S up to n, or 0. *)
LEMMA LastExists ==
  ASSUME NEW n \in Nat, NEW S
  PROVE  \E i \in 0 .. n : (i = 0 \/ i \in S) /\ \A j \in i + 1 .. n : j \notin S
<1> DEFINE T == {n - i : i \in {k \in 0 .. n : k = 0 \/ k \in S}}
<1>1. T \subseteq Nat /\ n \in T
  OBVIOUS
<1>2. PICK k \in T : \A y \in T : k <= y
  BY <1>1, LeastNat
<1>3. PICK i \in 0 .. n : k = n - i /\ (i = 0 \/ i \in S)
  BY <1>2
<1>4. ASSUME NEW j \in i + 1 .. n, j \in S PROVE FALSE
  <2>1. n - j \in T
    BY <1>3, <1>4
  <2>2. k <= n - j
    BY <1>2, <2>1
  <2> QED
    BY <1>3, <1>4, <2>2
<1> QED
  BY <1>3, <1>4

-----------------------------------------------------------------------------
(* Bytes and strings. *)

(* A byte read is the byte stored there, Outside elsewhere. *)
LEMMA AtIs ==
  ASSUME NEW m \in Memories, NEW p \in Int
  PROVE  /\ At(m, p) \in Int
         /\ At(m, p) # Outside => p \in DOMAIN m
         /\ p \in DOMAIN m => At(m, p) = m[p]
         /\ p \in DOMAIN m <=> p \in 1 .. Len(m)
         /\ Len(m) \in Nat
  BY DEF At, Memories, Outside

(* The string at s has length l. *)
StringOf(m, s, l) == At(m, s + l) = NUL /\ \A j \in 0 .. l - 1 : At(m, s + j) \notin {NUL, Outside}

(* The logical length of a string is where its first null byte is, or -1. *)
LEMMA LogicStrlen ==
  ASSUME NEW m \in Memories, NEW s \in Int
  PROVE  \/ logic_strlen(m, s) = -1 /\ \A i \in Nat : At(m, s + i) # NUL
         \/ /\ logic_strlen(m, s) \in Nat
            /\ At(m, s + logic_strlen(m, s)) = NUL
            /\ \A j \in 0 .. logic_strlen(m, s) - 1 : At(m, s + j) # NUL
<1>1. \A i \in Nat : At(m, s + i) = NUL => i \in 0 .. Len(m) - s
  BY AtIs DEF NUL, Outside
<1>2. CASE \E i \in 0 .. Len(m) - s : At(m, s + i) = NUL
  <2> DEFINE T == {i \in 0 .. Len(m) - s : At(m, s + i) = NUL}
  <2>0. Len(m) \in Nat
    BY AtIs
  <2>a. 0 .. Len(m) - s \subseteq Nat
    OBVIOUS
  <2>b. T \subseteq Nat
    BY <2>a
  <2>1. T \subseteq Nat /\ T # {}
    BY <1>2, <2>b
  <2>2. PICK l \in T : \A i \in T : l <= i
    BY <2>1, LeastNat
  <2>3. \A j \in 0 .. l - 1 : At(m, s + j) # NUL
    BY <2>0, <2>2
  <2>4. \E i \in 0 .. Len(m) - s : At(m, s + i) = NUL /\ \A j \in 0 .. i - 1 : At(m, s + j) # NUL
    BY <2>2, <2>3
  <2>5. /\ logic_strlen(m, s) \in 0 .. Len(m) - s
        /\ At(m, s + logic_strlen(m, s)) = NUL
        /\ \A j \in 0 .. logic_strlen(m, s) - 1 : At(m, s + j) # NUL
    BY <1>2, <2>4 DEF logic_strlen
  <2> QED
    BY <2>0, <2>5
<1>3. CASE ~\E i \in 0 .. Len(m) - s : At(m, s + i) = NUL
  BY <1>1, <1>3 DEF logic_strlen
<1> QED
  BY <1>2, <1>3

(* There is one first null byte. *)
LEMMA StringLength ==
  ASSUME NEW m \in Memories, NEW s \in Int, NEW l \in Nat,
         At(m, s + l) = NUL, \A j \in 0 .. l - 1 : At(m, s + j) # NUL
  PROVE  logic_strlen(m, s) = l
<1> DEFINE k == logic_strlen(m, s)
<1>1. k \in Nat /\ At(m, s + k) = NUL /\ \A j \in 0 .. k - 1 : At(m, s + j) # NUL
  BY LogicStrlen
<1> HIDE DEF k
<1>2. ~(k < l) /\ ~(l < k)
  BY <1>1
<1>3. k = l
  BY <1>1, <1>2
<1> QED
  BY <1>3 DEF k

(* valid_string of string.h says that a string starts there, in one block. *)
LEMMA ValidString ==
  ASSUME NEW m \in Memories, NEW s \in Int
  PROVE  valid_string(m, s) <=> \E l \in Nat : l = logic_strlen(m, s) /\ StringOf(m, s, l)
<1>1. ASSUME valid_string(m, s)
      PROVE  logic_strlen(m, s) \in Nat /\ StringOf(m, s, logic_strlen(m, s))
  <2> DEFINE l == logic_strlen(m, s)
  <2>1. l >= 0 /\ \A i \in 0 .. l : At(m, s + i) # Outside
    BY <1>1, LogicStrlen DEF valid_string, valid
  <2>2. l \in Nat /\ At(m, s + l) = NUL /\ \A j \in 0 .. l - 1 : At(m, s + j) # NUL
    BY <2>1, LogicStrlen
  <2> HIDE DEF l
  <2>3. StringOf(m, s, l)
    BY <2>1, <2>2 DEF StringOf
  <2> QED
    BY <2>2, <2>3 DEF l
<1>2. ASSUME NEW l \in Nat, l = logic_strlen(m, s), StringOf(m, s, l)
      PROVE  valid_string(m, s)
  <2>1. \A i \in 0 .. l + 1 - 1 : At(m, s + i) # Outside
    BY <1>2 DEF StringOf, NUL, Outside
  <2> QED
    BY <1>2, <2>1 DEF valid_string, valid
<1> QED
  BY <1>1, <1>2

(* A string of length l is valid and has that logical length. *)
LEMMA StringIsValid ==
  ASSUME NEW m \in Memories, NEW s \in Int, NEW l \in Nat, StringOf(m, s, l)
  PROVE  valid_string(m, s) /\ logic_strlen(m, s) = l
<1>1. logic_strlen(m, s) = l
  BY StringLength DEF StringOf
<1> QED
  BY <1>1, ValidString

(* A string lies in one block: what comes after s in it is a string too.   *)
LEMMA StringBytes ==
  ASSUME NEW m \in Memories, NEW s \in Int, NEW l \in Nat, StringOf(m, s, l)
  PROVE  /\ \A i \in 0 .. l : s + i \in 1 .. Len(m) /\ At(m, s + i) # Outside /\ m[s + i] = At(m, s + i)
         /\ \A k \in 0 .. l : StringOf(m, s + k, l - k)
<1>1. ASSUME NEW i \in 0 .. l
      PROVE  s + i \in 1 .. Len(m) /\ At(m, s + i) # Outside /\ m[s + i] = At(m, s + i)
  <2>1. s + i \in Int /\ At(m, s + i) # Outside
    BY DEF StringOf, NUL, Outside
  <2> QED
    BY <2>1, AtIs
<1>2. ASSUME NEW k \in 0 .. l PROVE StringOf(m, s + k, l - k)
  <2>1. At(m, (s + k) + (l - k)) = NUL
    BY DEF StringOf
  <2>2. ASSUME NEW j \in 0 .. (l - k) - 1 PROVE At(m, (s + k) + j) \notin {NUL, Outside}
    <3>1. k + j \in 0 .. l - 1 /\ (s + k) + j = s + (k + j)
      OBVIOUS
    <3> QED
      BY <3>1 DEF StringOf
  <2> QED
    BY <2>1, <2>2 DEF StringOf
<1> QED
  BY <1>1, <1>2

-----------------------------------------------------------------------------
(* The functions that read. *)

(* Where strnlen stops. *)
LEMMA StrnlenIs ==
  ASSUME NEW m \in Memories, NEW s \in Int, NEW n \in Nat
  PROVE  /\ strnlen(m, s, n) \in 0 .. n
         /\ strnlen(m, s, n) = n \/ At(m, s + strnlen(m, s, n)) \in {NUL, Outside}
         /\ \A j \in 0 .. strnlen(m, s, n) - 1 : At(m, s + j) \notin {NUL, Outside}
<1> DEFINE S == {i \in Int : At(m, s + i) \in {NUL, Outside}}
<1>1. PICK i \in 0 .. n : (i = n \/ i \in S) /\ \A j \in 0 .. i - 1 : j \notin S
  BY FirstExists
<1>2. (i = n \/ At(m, s + i) \in {NUL, Outside}) /\ \A j \in 0 .. i - 1 : ~(At(m, s + j) \in {NUL, Outside})
  BY <1>1
<1>3. \E k \in 0 .. n : /\ k = n \/ At(m, s + k) \in {NUL, Outside}
                        /\ \A j \in 0 .. k - 1 : ~(At(m, s + j) \in {NUL, Outside})
  BY <1>2
<1> QED
  BY <1>3 DEF strnlen, FirstStop

(* strlen finds the length of a string. *)
LEMMA StrlenIs ==
  ASSUME NEW m \in Memories, NEW s \in Int, NEW l \in Nat, StringOf(m, s, l)
  PROVE  strlen(m, s) = l
<1> DEFINE k == strlen(m, s)
           n == Len(m) + 1 - s
<1>a. s + l \in 1 .. Len(m)
  BY StringBytes
<1>b. Len(m) \in Nat
  BY AtIs
<1>0. l < n /\ n \in Nat
  BY <1>a, <1>b
<1>1. /\ k \in 0 .. n
      /\ k = n \/ At(m, s + k) \in {NUL, Outside}
      /\ \A j \in 0 .. k - 1 : At(m, s + j) \notin {NUL, Outside}
  BY <1>0, StrnlenIs DEF strlen
<1> HIDE DEF k, n
<1>2. ~(l < k)
  BY <1>1 DEF StringOf
<1>3. ~(k < l)
  BY <1>0, <1>1 DEF StringOf
<1>4. k = l
  BY <1>0, <1>1, <1>2, <1>3
<1> QED
  BY <1>4 DEF k

(* strlen returns the logical length. *)
LEMMA strlen_meets ==
  ASSUME NEW m \in Memories, NEW s \in Int PROVE strlen_contract(m, s)
  BY ValidString, StrlenIs DEF strlen_contract

(* What valid says of each of n bytes. *)
LEMMA ValidBytes ==
  ASSUME NEW m \in Memories, NEW s \in Int, NEW n \in Nat, valid(m, s, n)
  PROVE  \A i \in 0 .. n - 1 : /\ s + i \in 1 .. Len(m) /\ s + i \in DOMAIN m
                               /\ At(m, s + i) # Outside /\ m[s + i] = At(m, s + i)
<1> SUFFICES ASSUME NEW i \in 0 .. n - 1
             PROVE  /\ s + i \in 1 .. Len(m) /\ s + i \in DOMAIN m
                    /\ At(m, s + i) # Outside /\ m[s + i] = At(m, s + i)
  OBVIOUS
<1>1. s + i \in Int /\ At(m, s + i) # Outside
  BY DEF valid
<1> QED
  BY <1>1, AtIs

(* What a call that reads n bytes of a string at most may read. *)
NStringOf(m, s, n, k) ==
  /\ k \in 0 .. n
  /\ k = n \/ At(m, s + k) = NUL
  /\ \A j \in 0 .. k - 1 : At(m, s + j) \notin {NUL, Outside}

(* A string readable up to n ends before n, or has n bytes that may be     *)
(* read.                                                                   *)
LEMMA NString ==
  ASSUME NEW m \in Memories, NEW s \in Int, NEW n \in Nat, valid_read_nstring(m, s, n)
  PROVE  NStringOf(m, s, n, logic_strnlen(m, s, n))
<1> DEFINE l == logic_strlen(m, s)
<1>1. \/ l = -1 /\ \A i \in Nat : At(m, s + i) # NUL
      \/ l \in Nat /\ At(m, s + l) = NUL /\ \A j \in 0 .. l - 1 : At(m, s + j) # NUL
  BY LogicStrlen
<1>2. \/ \A i \in 0 .. n - 1 : At(m, s + i) # Outside
      \/ l >= 0 /\ \A i \in 0 .. l : At(m, s + i) # Outside
  BY <1>1 DEF valid_read_nstring, valid_string, valid
<1>3. logic_strnlen(m, s, n) = IF l \in 0 .. n THEN l ELSE n
  BY DEF logic_strnlen
<1> HIDE DEF l
<1>4. CASE l \in 0 .. n
  <2>1. At(m, s + l) = NUL /\ \A j \in 0 .. l - 1 : At(m, s + j) # NUL
    BY <1>1, <1>4
  <2>2. \A j \in 0 .. l - 1 : At(m, s + j) # Outside
    BY <1>2, <1>4
  <2> QED
    BY <1>3, <1>4, <2>1, <2>2 DEF NStringOf
<1>5. CASE l \notin 0 .. n
  <2>1. \A j \in 0 .. n - 1 : At(m, s + j) # NUL
    BY <1>1, <1>5
  <2>2. \A j \in 0 .. n - 1 : At(m, s + j) # Outside
    BY <1>1, <1>2, <1>5
  <2> QED
    BY <1>3, <1>5, <2>1, <2>2 DEF NStringOf
<1> QED
  BY <1>4, <1>5

(* There is one such place. *)
LEMMA NStringUnique ==
  ASSUME NEW m, NEW s \in Int, NEW n \in Nat, NEW k, NEW i,
         NStringOf(m, s, n, k),
         i \in 0 .. n, i = n \/ At(m, s + i) \in {NUL, Outside},
         \A j \in 0 .. i - 1 : At(m, s + j) \notin {NUL, Outside}
  PROVE  i = k
<1>1. k \in 0 .. n
  BY DEF NStringOf
<1>2. ~(k < i)
  BY <1>1 DEF NStringOf
<1>3. ~(i < k)
  BY <1>1 DEF NStringOf
<1> QED
  BY <1>1, <1>2, <1>3

(* strnlen finds where a string that is read up to n bytes stops. *)
LEMMA StrnlenOf ==
  ASSUME NEW m \in Memories, NEW s \in Int, NEW n \in Nat, NEW k, NStringOf(m, s, n, k)
  PROVE  strnlen(m, s, n) = k
<1> DEFINE i == strnlen(m, s, n)
<1>1. /\ i \in 0 .. n /\ (i = n \/ At(m, s + i) \in {NUL, Outside})
      /\ \A j \in 0 .. i - 1 : At(m, s + j) \notin {NUL, Outside}
  BY StrnlenIs
<1> HIDE DEF i
<1>2. i = k
  BY <1>1, NStringUnique
<1> QED
  BY <1>2 DEF i

(* strnlen returns the logical length or n. *)
LEMMA strnlen_meets ==
  ASSUME NEW m \in Memories, NEW s \in Int, NEW n \in Nat PROVE strnlen_contract(m, s, n)
<1> SUFFICES ASSUME valid_read_nstring(m, s, n)
             PROVE  strnlen(m, s, n) \in {logic_strlen(m, s), n}
  BY DEF strnlen_contract
<1>1. strnlen(m, s, n) = logic_strnlen(m, s, n)
  BY NString, StrnlenOf
<1> QED
  BY <1>1 DEF logic_strnlen

(* memcmp returns 0 exactly when the bytes are equal. *)
LEMMA memcmp_meets ==
  ASSUME NEW m \in Memories, NEW s \in Int, NEW t \in Int, NEW n \in Nat
  PROVE  memcmp_contract(m, s, t, n)
<1> SUFFICES ASSUME valid(m, s, n), valid(m, t, n)
             PROVE  memcmp(m, s, t, n) = 0 <=> SameBytes(m, s, m, t, n)
  BY DEF memcmp_contract
<1> DEFINE S == {k \in Int : m[s + k] # m[t + k]}
           i == FirstStop(n, LAMBDA k : m[s + k] # m[t + k])
<1>1. \A j \in 0 .. n - 1 : /\ m[s + j] = At(m, s + j) /\ m[t + j] = At(m, t + j)
                            /\ m[s + j] \in Int /\ m[t + j] \in Int
  <2> SUFFICES ASSUME NEW j \in 0 .. n - 1
               PROVE  /\ m[s + j] = At(m, s + j) /\ m[t + j] = At(m, t + j)
                      /\ m[s + j] \in Int /\ m[t + j] \in Int
    OBVIOUS
  <2>1. m[s + j] = At(m, s + j) /\ m[t + j] = At(m, t + j)
    BY ValidBytes
  <2>2. At(m, s + j) \in Int
    BY AtIs
  <2>3. At(m, t + j) \in Int
    BY AtIs
  <2> QED
    BY <2>1, <2>2, <2>3
<1>2. PICK k \in 0 .. n : (k = n \/ k \in S) /\ \A j \in 0 .. k - 1 : j \notin S
  BY FirstExists
<1>3. \E x \in 0 .. n : (x = n \/ m[s + x] # m[t + x]) /\ \A j \in 0 .. x - 1 : ~(m[s + j] # m[t + j])
  BY <1>2
<1>4. i \in 0 .. n /\ (i = n \/ m[s + i] # m[t + i]) /\ \A j \in 0 .. i - 1 : m[s + j] = m[t + j]
  BY <1>3 DEF FirstStop
<1>5. memcmp(m, s, t, n) = IF i = n THEN 0 ELSE m[s + i] - m[t + i]
  BY DEF memcmp
<1> HIDE DEF i
<1>6. CASE i = n
  BY <1>1, <1>4, <1>5, <1>6 DEF SameBytes
<1>7. CASE i # n
  BY <1>1, <1>4, <1>5, <1>7 DEF SameBytes
<1> QED
  BY <1>6, <1>7

(* memchr returns a valid pointer to the first byte c, NULL when there is  *)
(* none, and reads no byte behind it.                                      *)
LEMMA memchr_meets ==
  ASSUME NEW m \in Memories, NEW s \in DOMAIN m, NEW c, NEW n \in Nat
  PROVE  memchr_contract(m, s, c, n)
<1> DEFINE S == {k \in Int : At(m, s + k) = c}
           i == FirstStop(n, LAMBDA k : At(m, s + k) = c)
<1> SUFFICES ASSUME memchr_requires(m, s, c, n)
             PROVE  IF \E j \in 0 .. n - 1 : At(m, s + j) = c
                    THEN /\ valid(m, memchr(m, s, c, n), 1) /\ At(m, memchr(m, s, c, n)) = c
                         /\ \A j \in 0 .. n - 1 : At(m, s + j) = c => memchr(m, s, c, n) <= s + j
                    ELSE memchr(m, s, c, n) = NULL
  BY DEF memchr_contract
<1>0. s \in Int
  BY DEF Memories
<1>1. PICK k \in 0 .. n : (k = n \/ k \in S) /\ \A j \in 0 .. k - 1 : j \notin S
  BY FirstExists
<1>2. \E x \in 0 .. n : (x = n \/ At(m, s + x) = c) /\ \A j \in 0 .. x - 1 : ~(At(m, s + j) = c)
  BY <1>1
<1>3. i \in 0 .. n /\ (i = n \/ At(m, s + i) = c) /\ \A j \in 0 .. i - 1 : At(m, s + j) # c
  BY <1>2 DEF FirstStop
<1>4. memchr(m, s, c, n) = IF i = n THEN NULL ELSE s + i
  BY DEF memchr
<1> HIDE DEF i, S
<1>5. CASE i = n
  BY <1>3, <1>4, <1>5
<1>6. CASE i # n
  <2>1. At(m, s + i) # Outside
    <3>1. CASE valid(m, s, n)
      BY <1>3, <1>6, <3>1 DEF valid
    <3>2. ASSUME NEW x \in 0 .. n - 1, At(m, s + x) = c, valid(m, s, x + 1)
          PROVE  At(m, s + i) # Outside
      <4>1. i \in 0 .. (x + 1) - 1
        BY <1>3, <3>2
      <4> QED
        BY <3>2, <4>1 DEF valid
    <3> QED
      BY <3>1, <3>2 DEF memchr_requires
  <2>2. valid(m, s + i, 1)
    <3>1. \A j \in 0 .. 1 - 1 : (s + i) + j = s + i
      BY <1>0, <1>3
    <3> QED
      BY <2>1, <3>1 DEF valid
  <2>3. \A j \in 0 .. n - 1 : At(m, s + j) = c => s + i <= s + j
    BY <1>0, <1>3
  <2> QED
    BY <1>3, <1>4, <1>6, <2>2, <2>3
<1> QED
  BY <1>5, <1>6

(* memrchr returns NULL when there is no byte c, a valid pointer           *)
(* otherwise.                                                              *)
LEMMA memrchr_meets ==
  ASSUME NEW m \in Memories, NEW s \in DOMAIN m, NEW c, NEW n \in Nat
  PROVE  memrchr_contract(m, s, c, n)
<1> SUFFICES ASSUME valid(m, s, n)
             PROVE  IF \E i \in 0 .. n - 1 : m[s + i] = c
                    THEN valid(m, memrchr(m, s, c, n), 1) ELSE memrchr(m, s, c, n) = NULL
  BY DEF memrchr_contract
<1> DEFINE S == {k \in Int : m[s + k - 1] = c}
           i == LastStop(n, LAMBDA k : m[s + k - 1] = c)
<1>0. s \in Int
  BY DEF Memories
<1>1. \A j \in 0 .. n - 1 : At(m, s + j) # Outside
  BY <1>0, ValidBytes
<1>2. PICK k \in 0 .. n : (k = 0 \/ k \in S) /\ \A j \in k + 1 .. n : j \notin S
  BY LastExists
<1>3. \E x \in 0 .. n : (x = 0 \/ m[s + x - 1] = c) /\ \A j \in x + 1 .. n : ~(m[s + j - 1] = c)
  BY <1>2
<1>4. i \in 0 .. n /\ (i = 0 \/ m[s + i - 1] = c) /\ \A j \in i + 1 .. n : m[s + j - 1] # c
  BY <1>3 DEF LastStop
<1>5. memrchr(m, s, c, n) = IF i = 0 THEN NULL ELSE s + i - 1
  BY DEF memrchr
<1> HIDE DEF i
<1>6. CASE i = 0
  <2>1. ASSUME NEW j \in 0 .. n - 1 PROVE m[s + j] # c
    <3>1. j + 1 \in i + 1 .. n /\ s + (j + 1) - 1 = s + j
      BY <1>0, <1>6
    <3> QED
      BY <1>4, <3>1
  <2> QED
    BY <1>5, <1>6, <2>1
<1>7. CASE i # 0
  <2>1. i - 1 \in 0 .. n - 1 /\ s + i - 1 = s + (i - 1) /\ s + (i - 1) + 0 = s + (i - 1)
    BY <1>0, <1>4, <1>7
  <2>2. m[s + (i - 1)] = c /\ At(m, s + (i - 1) + 0) # Outside
    BY <1>1, <1>4, <1>7, <2>1
  <2>3. valid(m, s + (i - 1), 1)
    BY <2>2 DEF valid
  <2> QED
    BY <1>5, <1>7, <2>1, <2>2, <2>3
<1> QED
  BY <1>6, <1>7

(* rawmemchr returns the first byte c, when there is one. *)
LEMMA rawmemchr_meets ==
  ASSUME NEW m \in Memories, NEW s \in DOMAIN m, NEW c
  PROVE  rawmemchr_contract(m, s, c)
<1> SUFFICES ASSUME NEW p \in s .. Len(m), m[p] = c, valid(m, s, p + 1 - s)
             PROVE  valid(m, rawmemchr(m, s, c), 1)
  BY DEF rawmemchr_contract
<1> DEFINE n == Len(m) + 1 - s
           S == {k \in Int : At(m, s + k) \in {c, Outside}}
           i == FirstStop(n, LAMBDA k : At(m, s + k) \in {c, Outside})
<1>0. s \in Int /\ Len(m) \in Nat /\ n \in Nat /\ p \in Int /\ s <= p /\ p <= Len(m)
  <2>1. Len(m) \in Nat /\ DOMAIN m = 1 .. Len(m)
    BY DEF Memories
  <2> QED
    BY <2>1
<1>1. \A j \in 0 .. p - s : At(m, s + j) # Outside /\ m[s + j] = At(m, s + j)
  <2> HIDE DEF n, S, i
  <2> DEFINE k == p + 1 - s
  <2>1. k \in Nat /\ k - 1 = p - s
    BY <1>0
  <2>2. valid(m, s, k)
    OBVIOUS
  <2> HIDE DEF k
  <2>3. \A j \in 0 .. k - 1 : At(m, s + j) # Outside /\ m[s + j] = At(m, s + j)
    BY <1>0, <2>1, <2>2, ValidBytes
  <2> QED
    BY <2>1, <2>3
<1>2. PICK k \in 0 .. n : (k = n \/ k \in S) /\ \A j \in 0 .. k - 1 : j \notin S
  BY <1>0, FirstExists
<1>3. \E x \in 0 .. n : (x = n \/ At(m, s + x) \in {c, Outside})
                      /\ \A j \in 0 .. x - 1 : ~(At(m, s + j) \in {c, Outside})
  <2>1. /\ k = n \/ At(m, s + k) \in {c, Outside}
        /\ \A j \in 0 .. k - 1 : ~(At(m, s + j) \in {c, Outside})
    BY <1>0, <1>2
  <2> QED
    BY <2>1
<1>4. i \in 0 .. n /\ (i = n \/ At(m, s + i) \in {c, Outside})
      /\ \A j \in 0 .. i - 1 : At(m, s + j) \notin {c, Outside}
  BY <1>3 DEF FirstStop
<1>5. rawmemchr(m, s, c) = s + i
  BY DEF rawmemchr
<1> HIDE DEF i
<1>6. p - s \in 0 .. p - s /\ s + (p - s) = p
  BY <1>0
<1>7. At(m, s + (p - s)) = c
  BY <1>1, <1>6
<1>8. i <= p - s
  BY <1>0, <1>4, <1>7
<1>9. At(m, s + i + 0) # Outside
  BY <1>0, <1>1, <1>4, <1>8
<1> QED
  BY <1>5, <1>9 DEF valid

(* strncmp compares prefixes, whatever is readable. *)
LEMMA StrncmpIs ==
  ASSUME NEW m \in Memories, NEW s \in Int, NEW t \in Int, NEW n \in Nat
  PROVE  strncmp(m, s, t, n) = 0 <=> SamePrefix(m, s, m, t, n)
<1> DEFINE S == {k \in Int : At(m, s + k) # At(m, t + k) \/ At(m, s + k) = NUL}
           i == FirstStop(n, LAMBDA k : At(m, s + k) # At(m, t + k) \/ At(m, s + k) = NUL)
<1>1. PICK k \in 0 .. n : (k = n \/ k \in S) /\ \A j \in 0 .. k - 1 : j \notin S
  BY FirstExists
<1>2. \E x \in 0 .. n : /\ x = n \/ (At(m, s + x) # At(m, t + x) \/ At(m, s + x) = NUL)
                        /\ \A j \in 0 .. x - 1 : ~(At(m, s + j) # At(m, t + j) \/ At(m, s + j) = NUL)
  BY <1>1
<1>3. /\ i \in 0 .. n
      /\ i = n \/ At(m, s + i) # At(m, t + i) \/ At(m, s + i) = NUL
      /\ \A j \in 0 .. i - 1 : At(m, s + j) = At(m, t + j) /\ At(m, s + j) # NUL
  BY <1>2 DEF FirstStop
<1>4. strncmp(m, s, t, n) = IF i = n THEN 0 ELSE At(m, s + i) - At(m, t + i)
  BY DEF strncmp
<1> HIDE DEF i
<1>5. At(m, s + i) \in Int /\ At(m, t + i) \in Int
  <2>1. s + i \in Int /\ t + i \in Int
    BY <1>3
  <2> QED
    BY <2>1, AtIs
<1>6. CASE i = n
  BY <1>3, <1>4, <1>6 DEF SamePrefix, SameBytes
<1>7. CASE i # n /\ At(m, s + i) = At(m, t + i)
  <2>1. At(m, s + i) = NUL /\ At(m, t + i) = NUL /\ i \in Nat
    BY <1>3, <1>7
  <2>2. logic_strlen(m, s) = i
    BY <1>3, <2>1, StringLength
  <2>3. logic_strlen(m, t) = i
    <3>1. \A j \in 0 .. i - 1 : At(m, t + j) # NUL
      BY <1>3
    <3> QED
      BY <2>1, <3>1, StringLength
  <2>4. SameBytes(m, s, m, t, i + 1)
    BY <1>3, <1>7 DEF SameBytes
  <2>5. SamePrefix(m, s, m, t, n)
    BY <1>3, <1>7, <2>2, <2>3, <2>4 DEF SamePrefix, SameStrings
  <2> QED
    BY <1>4, <1>5, <1>7, <2>5
<1>8. CASE i # n /\ At(m, s + i) # At(m, t + i)
  <2>1. strncmp(m, s, t, n) # 0
    BY <1>4, <1>5, <1>8
  <2>2. ~SameBytes(m, s, m, t, n)
    BY <1>3, <1>8 DEF SameBytes
  <2>3. ASSUME logic_strlen(m, s) \in 0 .. n - 1, SameStrings(m, s, m, t) PROVE FALSE
    <3> DEFINE l == logic_strlen(m, s)
    <3>1. l \in Nat /\ At(m, s + l) = NUL
      BY <2>3, LogicStrlen
    <3>2. \A j \in 0 .. l + 1 - 1 : At(m, s + j) = At(m, t + j)
      BY <2>3 DEF SameStrings, SameBytes
    <3> HIDE DEF l
    <3>3. ~(l < i)
      BY <1>3, <3>1
    <3>4. i \in 0 .. l + 1 - 1
      BY <1>3, <3>1, <3>3
    <3> QED
      BY <1>8, <3>2, <3>4
  <2> QED
    BY <2>1, <2>2, <2>3 DEF SamePrefix
<1> QED
  BY <1>6, <1>7, <1>8

(* strncmp returns 0 exactly when the prefixes are equal. *)
LEMMA strncmp_meets ==
  ASSUME NEW m \in Memories, NEW s \in Int, NEW t \in Int, NEW n \in Nat
  PROVE  strncmp_contract(m, s, t, n)
  BY StrncmpIs DEF strncmp_contract

(* strcmp returns 0 exactly when the strings are equal. *)
LEMMA strcmp_meets ==
  ASSUME NEW m \in Memories, NEW s \in DOMAIN m, NEW t \in DOMAIN m
  PROVE  strcmp_contract(m, s, t)
<1> SUFFICES ASSUME valid_string(m, s), valid_string(m, t)
             PROVE  strcmp(m, s, t) = 0 <=> SameStrings(m, s, m, t)
  BY DEF strcmp_contract
<1> DEFINE n == Len(m) + 1
<1>0. s \in Int /\ t \in Int /\ s >= 1 /\ Len(m) \in Nat /\ n \in Nat
  BY DEF Memories
<1>1. PICK l \in Nat : l = logic_strlen(m, s) /\ StringOf(m, s, l)
  BY <1>0, ValidString
<1>2. s + l \in 1 .. Len(m)
  BY <1>0, <1>1, StringBytes
<1>3. l \in 0 .. n - 1
  BY <1>0, <1>2
<1>4. strcmp(m, s, t) = 0 <=> SamePrefix(m, s, m, t, n)
  BY <1>0, StrncmpIs DEF strcmp
<1> HIDE DEF n
<1>5. ASSUME SameBytes(m, s, m, t, n) PROVE SameStrings(m, s, m, t)
  <2>1. At(m, t + l) = NUL
    BY <1>1, <1>3, <1>5 DEF SameBytes, StringOf
  <2>2. \A j \in 0 .. l - 1 : At(m, t + j) # NUL
    BY <1>0, <1>1, <1>3, <1>5 DEF SameBytes, StringOf
  <2>3. logic_strlen(m, t) = l
    BY <1>0, <2>1, <2>2, StringLength
  <2>4. SameBytes(m, s, m, t, l + 1)
    BY <1>0, <1>3, <1>5 DEF SameBytes
  <2> QED
    BY <1>1, <2>3, <2>4 DEF SameStrings
<1> QED
  BY <1>1, <1>3, <1>4, <1>5 DEF SamePrefix

(* strchr returns the first c of a string, its terminator included. *)
LEMMA strchr_meets ==
  ASSUME NEW m \in Memories, NEW s \in DOMAIN m, NEW c, c # Outside
  PROVE  strchr_contract(m, s, c)
<1> DEFINE n == Len(m) + 1 - s
           S == {k \in Int : At(m, s + k) \in {c, NUL, Outside}}
           i == FirstStop(n, LAMBDA k : At(m, s + k) \in {c, NUL, Outside})
<1> SUFFICES ASSUME NEW l \in Nat, l = logic_strlen(m, s), StringOf(m, s, l)
             PROVE  IF \E k \in 0 .. l : m[s + k] = c
                    THEN /\ valid_string(m, strchr(m, s, c)) /\ m[strchr(m, s, c)] = c
                         /\ strchr(m, s, c) \in s .. s + l
                         /\ \A p \in s .. strchr(m, s, c) - 1 : m[p] # c
                    ELSE strchr(m, s, c) = NULL
  <2>1. s \in Int
    BY DEF Memories
  <2> QED
    BY <2>1, ValidString DEF strchr_contract
<1>0. s \in Int /\ Len(m) \in Nat /\ n \in Nat
  BY DEF Memories
<1>1. \A j \in 0 .. l : m[s + j] = At(m, s + j) /\ StringOf(m, s + j, l - j)
  BY <1>0, StringBytes
<1>2. PICK k \in 0 .. n : (k = n \/ k \in S) /\ \A j \in 0 .. k - 1 : j \notin S
  BY <1>0, FirstExists
<1>3. \E x \in 0 .. n : /\ x = n \/ At(m, s + x) \in {c, NUL, Outside}
                        /\ \A j \in 0 .. x - 1 : ~(At(m, s + j) \in {c, NUL, Outside})
  <2> HIDE DEF n
  <2>1. k = n \/ At(m, s + k) \in {c, NUL, Outside}
    BY <1>2
  <2>2. \A j \in 0 .. k - 1 : ~(At(m, s + j) \in {c, NUL, Outside})
    BY <1>0, <1>2
  <2> QED
    BY <2>1, <2>2
<1>4. /\ i \in 0 .. n
      /\ i = n \/ At(m, s + i) \in {c, NUL, Outside}
      /\ \A j \in 0 .. i - 1 : At(m, s + j) \notin {c, NUL, Outside}
  BY <1>3 DEF FirstStop
<1>5. strchr(m, s, c) = IF At(m, s + i) = c THEN s + i ELSE NULL
  BY DEF strchr
<1>a. s + l \in 1 .. Len(m)
  BY <1>0, StringBytes
<1>b. l < n
  BY <1>0, <1>a
<1> HIDE DEF i, n
<1>6. i <= l /\ i \in 0 .. l
  BY <1>0, <1>4 DEF StringOf
<1>7. CASE At(m, s + i) = c
  <2>1. m[s + i] = c /\ valid_string(m, s + i)
    <3>1. s + i \in Int /\ l - i \in Nat /\ StringOf(m, s + i, l - i)
      BY <1>0, <1>1, <1>6
    <3>2. valid_string(m, s + i)
      BY <3>1, StringIsValid
    <3> QED
      BY <1>1, <1>6, <1>7, <3>2
  <2>2. ASSUME NEW p \in s .. s + i - 1 PROVE m[p] # c
    <3>1. p - s \in 0 .. i - 1 /\ p - s \in 0 .. l /\ s + (p - s) = p
      BY <1>0, <1>6
    <3> QED
      BY <1>1, <1>4, <3>1
  <2>3. s + i \in s .. s + l
    BY <1>0, <1>6
  <2>4. strchr(m, s, c) = s + i
    BY <1>5, <1>7
  <2>5. \E j \in 0 .. l : m[s + j] = c
    BY <1>6, <2>1
  <2>6. /\ valid_string(m, strchr(m, s, c)) /\ m[strchr(m, s, c)] = c
        /\ strchr(m, s, c) \in s .. s + l
    BY <2>1, <2>3, <2>4
  <2>7. \A p \in s .. strchr(m, s, c) - 1 : m[p] # c
    BY <1>0, <1>6, <2>2, <2>4
  <2> QED
    BY <2>5, <2>6, <2>7
<1>8. CASE At(m, s + i) # c
  <2>1. At(m, s + i) \in {NUL, Outside}
    BY <1>b, <1>4, <1>6, <1>8
  <2>2. i = l
    BY <1>6, <2>1 DEF StringOf
  <2>3. \A j \in 0 .. l : m[s + j] # c
    BY <1>1, <1>4, <1>8, <2>2
  <2> QED
    BY <1>5, <1>8, <2>3
<1> QED
  BY <1>7, <1>8

(* strrchr returns the last c of a string, its terminator included. *)
LEMMA strrchr_meets ==
  ASSUME NEW m \in Memories, NEW s \in DOMAIN m, NEW c
  PROVE  strrchr_contract(m, s, c)
<1>0. s \in Int
  BY DEF Memories
<1> SUFFICES ASSUME NEW l \in Nat, StringOf(m, s, l)
             PROVE  strrchr(m, s, c) = NULL \/ valid_string(m, strrchr(m, s, c))
  BY <1>0, ValidString DEF strrchr_contract
<1> DEFINE n == strlen(m, s) + 1
           S == {k \in Int : At(m, s + k - 1) = c}
           i == LastStop(n, LAMBDA k : At(m, s + k - 1) = c)
<1>1. n = l + 1 /\ n \in Nat
  BY <1>0, StrlenIs
<1>2. PICK k \in 0 .. n : (k = 0 \/ k \in S) /\ \A j \in k + 1 .. n : j \notin S
  BY <1>1, LastExists
<1>3. \E x \in 0 .. n : (x = 0 \/ At(m, s + x - 1) = c) /\ \A j \in x + 1 .. n : ~(At(m, s + j - 1) = c)
  BY <1>1, <1>2
<1>4. i \in 0 .. n
  BY <1>3 DEF LastStop
<1>5. strrchr(m, s, c) = IF i = 0 THEN NULL ELSE s + i - 1
  BY DEF strrchr
<1> HIDE DEF i, n
<1>6. CASE i # 0
  <2>1. i - 1 \in 0 .. l /\ s + i - 1 = s + (i - 1) /\ s + (i - 1) \in Int /\ l - (i - 1) \in Nat
    BY <1>0, <1>1, <1>4, <1>6
  <2>2. StringOf(m, s + (i - 1), l - (i - 1))
    BY <1>0, <2>1, StringBytes
  <2>3. valid_string(m, s + (i - 1))
    BY <2>1, <2>2, StringIsValid
  <2> QED
    BY <1>5, <1>6, <2>1, <2>3
<1> QED
  BY <1>5, <1>6

(* strstr returns the first occurrence of a string in another, if any. *)
LEMMA strstr_meets ==
  ASSUME NEW m \in Memories, NEW h \in DOMAIN m, NEW s \in DOMAIN m
  PROVE  strstr_contract(m, h, s)
<1>0. h \in Int /\ s \in Int /\ s >= 1 /\ Len(m) \in Nat
  BY DEF Memories
<1> SUFFICES ASSUME NEW l \in Nat, StringOf(m, h, l),
                    NEW ls \in Nat, ls = logic_strlen(m, s), StringOf(m, s, ls)
             PROVE  \/ strstr(m, h, s) = NULL
                    \/ valid_string(m, strstr(m, h, s)) /\ SameBytes(m, strstr(m, h, s), m, s, ls)
  BY <1>0, ValidString DEF strstr_contract
<1>1. CASE m[s] = NUL
  <2>1. m[s] = At(m, s + 0)
    BY <1>0, AtIs
  <2>2. ls = 0
    BY <1>1, <2>1 DEF StringOf
  <2>3. SameBytes(m, h, m, s, ls)
    BY <2>2 DEF SameBytes
  <2>4. valid_string(m, h)
    BY <1>0, StringIsValid
  <2> QED
    BY <1>1, <2>3, <2>4 DEF strstr
<1>2. CASE m[s] # NUL
  <2> DEFINE n == strlen(m, h)
             S == {k \in Int : Matched(m, h + k, s)}
             i == FirstStop(n, LAMBDA k : Matched(m, h + k, s))
  <2>1. n = l /\ n \in Nat
    BY <1>0, StrlenIs
  <2>2. PICK k \in 0 .. n : (k = n \/ k \in S) /\ \A j \in 0 .. k - 1 : j \notin S
    BY <2>1, FirstExists
  <2>3. \E x \in 0 .. n : (x = n \/ Matched(m, h + x, s)) /\ \A j \in 0 .. x - 1 : ~Matched(m, h + j, s)
    BY <2>1, <2>2
  <2>4. i \in 0 .. n /\ (i = n \/ Matched(m, h + i, s))
    BY <2>3 DEF FirstStop
  <2>5. strstr(m, h, s) = IF i = n THEN NULL ELSE h + i
    BY <1>2 DEF strstr
  <2> HIDE DEF i, n
  <2>6. CASE i # n
    <3> DEFINE r == h + i
    <3>1. r \in Int /\ i \in 0 .. l /\ l - i \in Nat
      BY <1>0, <2>1, <2>4
    <3>2. valid_string(m, r)
      <4>1. StringOf(m, r, l - i)
        BY <1>0, <3>1, StringBytes
      <4> QED
        BY <3>1, <4>1, StringIsValid
    <3>3. Matched(m, r, s)
      BY <2>4, <2>6
    <3> HIDE DEF r
    <3> DEFINE N == Len(m)
               D == {x \in Int : At(m, r + x) = NUL \/ At(m, r + x) # At(m, s + x)}
               j == FirstStop(N, LAMBDA x : At(m, r + x) = NUL \/ At(m, r + x) # At(m, s + x))
    <3>4. PICK z \in 0 .. N : (z = N \/ z \in D) /\ \A x \in 0 .. z - 1 : x \notin D
      BY <1>0, FirstExists
    <3>5. \E x \in 0 .. N :
             /\ x = N \/ (At(m, r + x) = NUL \/ At(m, r + x) # At(m, s + x))
             /\ \A y \in 0 .. x - 1 : ~(At(m, r + y) = NUL \/ At(m, r + y) # At(m, s + y))
      BY <1>0, <3>4
    <3>6. j \in 0 .. N /\ \A y \in 0 .. j - 1 : At(m, r + y) = At(m, s + y)
      BY <3>5 DEF FirstStop
    <3>7. At(m, s + j) = NUL
      BY <3>3 DEF Matched
    <3> HIDE DEF j, N
    <3>8. ~(j < ls)
      BY <3>6, <3>7 DEF StringOf
    <3>9. SameBytes(m, r, m, s, ls)
      BY <3>6, <3>8 DEF SameBytes
    <3> QED
      BY <2>5, <2>6, <3>2, <3>9 DEF r
  <2> QED
    BY <2>5, <2>6
<1> QED
  BY <1>1, <1>2

-----------------------------------------------------------------------------
(* The functions that allocate. *)

(* strdup returns a block with the string and its terminator. *)
LEMMA strdup_meets ==
  ASSUME NEW m \in Memories, NEW s \in DOMAIN m PROVE strdup_contract(m, s)
<1>0. s \in Int /\ s >= 1 /\ Len(m) \in Nat
  BY DEF Memories
<1> SUFFICES ASSUME NEW l \in Nat, l = logic_strlen(m, s), StringOf(m, s, l)
             PROVE  valid_string(strdup(m, s), 1) /\ SameStrings(strdup(m, s), 1, m, s)
  BY <1>0, ValidString DEF strdup_contract
<1> DEFINE r == SubSeq(m, s, s + l)
<1>1. s + l \in 1 .. Len(m)
  BY <1>0, StringBytes
<1>2. r \in Memories /\ Len(r) = l + 1 /\ \A i \in 1 .. l + 1 : r[i] = m[s + i - 1]
  <2>1. \A p \in s .. s + l : m[p] \in Int
    BY <1>0, <1>1 DEF Memories
  <2> QED
    BY <1>0, <2>1, SubSeqProperties DEF Memories
<1>3. strdup(m, s) = r
  BY <1>0, StrlenIs DEF strdup
<1> HIDE DEF r
<1>4. ASSUME NEW i \in 0 .. l PROVE At(r, 1 + i) = At(m, s + i)
  <2>1. 1 + i \in 1 .. l + 1 /\ s + (1 + i) - 1 = s + i /\ 1 + i \in Int
    BY <1>0
  <2>2. At(r, 1 + i) = r[1 + i]
    BY <1>2, <2>1, AtIs
  <2>3. m[s + i] = At(m, s + i)
    BY <1>0, StringBytes
  <2> QED
    BY <1>2, <2>1, <2>2, <2>3
<1>5. StringOf(r, 1, l)
  BY <1>4 DEF StringOf
<1>6. valid_string(r, 1) /\ logic_strlen(r, 1) = l
  BY <1>2, <1>5, StringIsValid
<1>7. SameStrings(r, 1, m, s)
  BY <1>4, <1>6 DEF SameStrings, SameBytes
<1> QED
  BY <1>3, <1>6, <1>7

(* strndup returns a block with at most n bytes of the string and a        *)
(* terminator.                                                             *)
LEMMA strndup_meets ==
  ASSUME NEW m \in Memories, NEW s \in DOMAIN m, NEW n \in Nat PROVE strndup_contract(m, s, n)
<1>0. s \in Int /\ s >= 1 /\ Len(m) \in Nat
  BY DEF Memories
<1> DEFINE k == logic_strnlen(m, s, n)
           b == SubSeq(m, s, s + k - 1)
           r == b \o <<NUL>>
<1> SUFFICES ASSUME valid_string(m, s)
             PROVE  /\ Len(strndup(m, s, n)) = k + 1 /\ valid_string(strndup(m, s, n), 1)
                    /\ logic_strlen(strndup(m, s, n), 1) <= n
                    /\ SamePrefix(strndup(m, s, n), 1, m, s, n)
  BY DEF strndup_contract
<1>1. PICK l \in Nat : l = logic_strlen(m, s) /\ StringOf(m, s, l)
  BY <1>0, ValidString
<1>2. k = IF l <= n THEN l ELSE n
  BY <1>1 DEF logic_strnlen
<1>3. k \in 0 .. l /\ k \in 0 .. n /\ k \in Nat
  BY <1>2
<1>4. strndup(m, s, n) = r
  <2>1. valid_read_nstring(m, s, n)
    BY DEF valid_read_nstring
  <2>2. strnlen(m, s, n) = k
    BY <1>0, <2>1, NString, StrnlenOf
  <2> QED
    BY <2>2 DEF strndup
<1> HIDE DEF k
<1>5. \A i \in 0 .. l : s + i \in 1 .. Len(m) /\ m[s + i] = At(m, s + i)
  BY <1>0, <1>1, StringBytes
<1>a. s + l \in 1 .. Len(m)
  BY <1>5
<1>b. NUL \in Int
  BY DEF NUL
<1>6. b \in Memories /\ Len(b) = k /\ \A i \in 1 .. k : b[i] = m[s + i - 1]
  <2>1. \A p \in s .. s + k - 1 : m[p] \in Int
    BY <1>0, <1>3, <1>a DEF Memories
  <2>2. s + k - 1 \in Int /\ (s + k - 1) - s + 1 = k
    BY <1>0, <1>3
  <2>3. /\ b \in Seq(Int)
        /\ Len(b) = IF s <= s + k - 1 THEN (s + k - 1) - s + 1 ELSE 0
        /\ \A i \in 1 .. (s + k - 1) - s + 1 : b[i] = m[s + i - 1]
    BY <1>0, <2>1, <2>2, SubSeqProperties
  <2> HIDE DEF b
  <2>4. Len(b) = k
    BY <1>0, <1>3, <2>2, <2>3
  <2>5. \A i \in 1 .. k : b[i] = m[s + i - 1]
    BY <2>2, <2>3
  <2> QED
    BY <2>3, <2>4, <2>5 DEF Memories
<1> HIDE DEF b
<1>7. r \in Memories /\ Len(r) = k + 1 /\ r[k + 1] = NUL /\ \A i \in 1 .. k : r[i] = b[i]
  <2>1. <<NUL>> \in Seq(Int) /\ Len(<<NUL>>) = 1 /\ <<NUL>>[1] = NUL
    BY <1>b
  <2>2. /\ r \in Seq(Int) /\ Len(r) = k + 1
        /\ \A i \in 1 .. k + 1 : r[i] = IF i <= k THEN b[i] ELSE <<NUL>>[i - k]
    BY <1>6, <2>1, ConcatProperties DEF Memories
  <2>3. (k + 1) - k = 1 /\ ~(k + 1 <= k) /\ k + 1 \in 1 .. k + 1
    BY <1>3
  <2>4. r[k + 1] = NUL
    BY <2>1, <2>2, <2>3
  <2> QED
    BY <1>3, <2>2, <2>4 DEF Memories
<1> HIDE DEF r
<1>8. ASSUME NEW i \in 0 .. k - 1 PROVE At(r, 1 + i) = At(m, s + i)
  <2>1. 1 + i \in 1 .. k /\ s + (1 + i) - 1 = s + i /\ 1 + i \in Int /\ 1 + i \in 1 .. k + 1
    BY <1>0, <1>3
  <2>2. At(r, 1 + i) = r[1 + i]
    BY <1>7, <2>1, AtIs
  <2>3. m[s + i] = At(m, s + i)
    BY <1>3, <1>5
  <2> QED
    BY <1>6, <1>7, <2>1, <2>2, <2>3
<1>9. At(r, 1 + k) = NUL
  <2>1. 1 + k \in Int /\ 1 + k \in 1 .. k + 1 /\ 1 + k = k + 1
    BY <1>3
  <2>2. At(r, 1 + k) = r[1 + k]
    BY <1>7, <2>1, AtIs
  <2> QED
    BY <1>7, <2>1, <2>2
<1>10. StringOf(r, 1, k)
  BY <1>1, <1>3, <1>8, <1>9 DEF StringOf
<1>11. valid_string(r, 1) /\ logic_strlen(r, 1) = k
  BY <1>3, <1>7, <1>10, StringIsValid
<1>12. SamePrefix(r, 1, m, s, n)
  <2>1. CASE n <= l
    <3>1. SameBytes(r, 1, m, s, n)
      BY <1>2, <1>8, <2>1 DEF SameBytes
    <3> QED
      BY <3>1 DEF SamePrefix
  <2>2. CASE l < n
    <3>1. k = l
      BY <1>2, <2>2
    <3>2. \A i \in 0 .. l + 1 - 1 : At(r, 1 + i) = At(m, s + i)
      BY <1>1, <1>8, <1>9, <3>1 DEF StringOf
    <3>3. SameStrings(r, 1, m, s)
      BY <1>1, <1>11, <3>1, <3>2 DEF SameStrings, SameBytes
    <3> QED
      BY <1>11, <2>2, <3>1, <3>3 DEF SamePrefix
  <2> QED
    BY <2>1, <2>2
<1> QED
  BY <1>3, <1>4, <1>7, <1>11, <1>12

-----------------------------------------------------------------------------
(* The functions that write, from what memoverlap and the copies do. *)

(* memoverlap tells blocks that overlap, and which starts first. *)
LEMMA memoverlap_meets ==
  ASSUME NEW p \in Int, NEW q \in Int, NEW n \in Nat PROVE memoverlap_contract(p, q, n)
  BY DEF memoverlap_contract, memoverlap, separated

(* memset writes n bytes c and nothing else. *)
LEMMA memset_meets ==
  ASSUME NEW m \in Memories, NEW s \in DOMAIN m, NEW c, NEW n \in Nat
  PROVE  memset_contract(m, s, c, n)
<1>0. s \in Int
  BY DEF Memories
<1> SUFFICES ASSUME valid(m, s, n)
             PROVE  /\ Assigns(m, memset(m, s, c, n), s .. s + n - 1) /\ memset(m, s, c, n).ret = s
                    /\ \A i \in 0 .. n - 1 : memset(m, s, c, n).mem[s + i] = c
  BY DEF memset_contract
<1>1. \A i \in 0 .. n - 1 : s + i \in DOMAIN m /\ s + i \in s .. s + n - 1
  BY <1>0, ValidBytes
<1> QED
  BY <1>1 DEF memset, Returned, Assigns

-----------------------------------------------------------------------------
(* What the copies leave. *)

(* The bytes a to b - 1 of the destination are those of the source.        *)
Shifted(m, d, s, a, b) ==
  [p \in DOMAIN m |-> IF p \in d + a .. d + b - 1 THEN At(m, s + (p - d)) ELSE m[p]]

(* A copy leaves every byte outside the destination. *)
LEMMA ShiftedIs ==
  ASSUME NEW m \in Memories, NEW d \in Int, NEW s \in Int, NEW a \in Int, NEW b \in Int
  PROVE  /\ Shifted(m, d, s, a, b) \in Memories
         /\ DOMAIN Shifted(m, d, s, a, b) = DOMAIN m
         /\ \A p \in Int : p \notin d + a .. d + b - 1 => At(Shifted(m, d, s, a, b), p) = At(m, p)
<1> DEFINE r == Shifted(m, d, s, a, b)
<1>1. Len(m) \in Nat /\ DOMAIN m = 1 .. Len(m)
  BY DEF Memories
<1>2. \A p \in DOMAIN m : m[p] \in Int /\ At(m, s + (p - d)) \in Int
  <2>1. \A p \in DOMAIN m : p \in Int /\ s + (p - d) \in Int
    BY <1>1
  <2>2. \A p \in DOMAIN m : m[p] \in Int
    BY DEF Memories
  <2> QED
    BY <2>1, <2>2, AtIs
<1>3. r \in [1 .. Len(m) -> Int]
  BY <1>1, <1>2 DEF Shifted
<1>4. r \in Memories
  <2> HIDE DEF r
  <2> QED
    BY <1>1, <1>3 DEF Memories
<1>5. DOMAIN r = DOMAIN m
  BY DEF Shifted
<1>6. ASSUME NEW p \in Int, p \notin d + a .. d + b - 1 PROVE At(r, p) = At(m, p)
  BY <1>6 DEF At, Shifted
<1> QED
  BY <1>4, <1>5, <1>6

(* A byte of the destination is that of the source. *)
LEMMA ShiftedByte ==
  ASSUME NEW m \in Memories, NEW d \in Int, NEW s \in Int, NEW a \in Int, NEW b \in Int,
         NEW p \in DOMAIN m, p \in d + a .. d + b - 1
  PROVE  At(Shifted(m, d, s, a, b), p) = At(m, s + (p - d))
  BY DEF At, Shifted

(* A copy of no byte changes nothing. *)
LEMMA ShiftedNone ==
  ASSUME NEW m \in Memories, NEW d \in Int, NEW s \in Int, NEW a \in Int
  PROVE  Shifted(m, d, s, a, a) = m
<1>1. \A p \in Int : p \notin d + a .. d + a - 1
  OBVIOUS
<1>2. DOMAIN m \subseteq Int /\ m = [p \in DOMAIN m |-> m[p]]
  BY DEF Memories
<1> QED
  BY <1>1, <1>2 DEF Shifted

(* One more byte, at either end, when its source is still what it was.     *)
LEMMA ShiftUp ==
  ASSUME NEW m \in Memories, NEW d \in Int, NEW s \in Int, NEW i \in Nat,
         s >= d \/ s + i < d
  PROVE  Written(Shifted(m, d, s, 0, i), d + i, At(Shifted(m, d, s, 0, i), s + i))
           = Shifted(m, d, s, 0, i + 1)
<1> DEFINE before == Shifted(m, d, s, 0, i)
           after == Shifted(m, d, s, 0, i + 1)
<1>1. At(before, s + i) = At(m, s + i)
  <2>1. s + i \in Int /\ s + i \notin d + 0 .. d + i - 1
    OBVIOUS
  <2> QED
    BY <2>1, ShiftedIs
<1>2. \A p \in DOMAIN m : p \in Int
  BY DEF Memories
<1>3. before = [p \in DOMAIN m |-> IF p \in d + 0 .. d + i - 1 THEN At(m, s + (p - d)) ELSE m[p]]
  BY DEF Shifted
<1>4. after = [p \in DOMAIN m |-> IF p \in d + 0 .. d + (i + 1) - 1 THEN At(m, s + (p - d)) ELSE m[p]]
  BY DEF Shifted
<1> HIDE DEF before, after
<1>5. Written(before, d + i, At(m, s + i)) = [p \in DOMAIN m |-> IF p = d + i THEN At(m, s + i) ELSE before[p]]
  BY <1>3 DEF Written
<1>6. ASSUME NEW p \in DOMAIN m
      PROVE  (IF p = d + i THEN At(m, s + i) ELSE before[p]) = after[p]
  <2>1. CASE p = d + i
    <3>1. p \in d + 0 .. d + (i + 1) - 1 /\ s + (p - d) = s + i
      BY <2>1
    <3> QED
      BY <1>4, <2>1, <3>1
  <2>2. CASE p # d + i
    <3>1. p \in d + 0 .. d + (i + 1) - 1 <=> p \in d + 0 .. d + i - 1
      BY <1>2, <2>2
    <3> QED
      BY <1>3, <1>4, <2>2, <3>1
  <2> QED
    BY <2>1, <2>2
<1>7. Written(before, d + i, At(m, s + i)) = after
  BY <1>4, <1>5, <1>6
<1> QED
  BY <1>1, <1>7 DEF before, after

(* The same from the other end. *)
LEMMA ShiftDown ==
  ASSUME NEW m \in Memories, NEW d \in Int, NEW s \in Int, NEW i \in Nat, NEW n \in Nat,
         i < n, s <= d
  PROVE  Written(Shifted(m, d, s, i + 1, n), d + i, At(Shifted(m, d, s, i + 1, n), s + i))
           = Shifted(m, d, s, i, n)
<1> DEFINE before == Shifted(m, d, s, i + 1, n)
           after == Shifted(m, d, s, i, n)
<1>1. At(before, s + i) = At(m, s + i)
  <2>1. s + i \in Int /\ s + i \notin d + (i + 1) .. d + n - 1
    OBVIOUS
  <2> QED
    BY <2>1, ShiftedIs
<1>2. \A p \in DOMAIN m : p \in Int
  BY DEF Memories
<1>3. before = [p \in DOMAIN m |-> IF p \in d + (i + 1) .. d + n - 1 THEN At(m, s + (p - d)) ELSE m[p]]
  BY DEF Shifted
<1>4. after = [p \in DOMAIN m |-> IF p \in d + i .. d + n - 1 THEN At(m, s + (p - d)) ELSE m[p]]
  BY DEF Shifted
<1> HIDE DEF before, after
<1>5. Written(before, d + i, At(m, s + i)) = [p \in DOMAIN m |-> IF p = d + i THEN At(m, s + i) ELSE before[p]]
  BY <1>3 DEF Written
<1>6. ASSUME NEW p \in DOMAIN m
      PROVE  (IF p = d + i THEN At(m, s + i) ELSE before[p]) = after[p]
  <2>1. CASE p = d + i
    <3>1. p \in d + i .. d + n - 1 /\ s + (p - d) = s + i
      BY <2>1
    <3> QED
      BY <1>4, <2>1, <3>1
  <2>2. CASE p # d + i
    <3>1. p \in d + i .. d + n - 1 <=> p \in d + (i + 1) .. d + n - 1
      BY <1>2, <2>2
    <3> QED
      BY <1>3, <1>4, <2>2, <3>1
  <2> QED
    BY <2>1, <2>2
<1>7. Written(before, d + i, At(m, s + i)) = after
  BY <1>4, <1>5, <1>6
<1> QED
  BY <1>1, <1>7 DEF before, after

(* The loop that copies from the first byte on, when the source does not   *)
(* start below the destination and run into it.                            *)
LEMMA CopyUpIs ==
  ASSUME NEW m \in Memories, NEW d \in Int, NEW s \in Int, NEW n \in Nat,
         s >= d \/ s + n <= d
  PROVE  CopyUp(m, d, s, n) = Shifted(m, d, s, 0, n)
<1> DEFINE g == [i \in 0 .. n |-> Shifted(m, d, s, 0, i)]
           Loop(f) == f = [i \in 0 .. n |-> IF i = 0 THEN m
                                            ELSE Written(f[i - 1], d + i - 1, At(f[i - 1], s + i - 1))]
<1>1. ASSUME NEW i \in 1 .. n
      PROVE  Written(Shifted(m, d, s, 0, i - 1), d + i - 1, At(Shifted(m, d, s, 0, i - 1), s + i - 1))
               = Shifted(m, d, s, 0, i)
  <2>1. /\ i - 1 \in Nat /\ (s >= d \/ s + (i - 1) < d)
        /\ d + i - 1 = d + (i - 1) /\ s + i - 1 = s + (i - 1) /\ (i - 1) + 1 = i
    OBVIOUS
  <2> QED
    BY <2>1, ShiftUp
<1>2. Shifted(m, d, s, 0, 0) = m
  BY ShiftedNone
<1>3. Loop(g)
  <2>1. ASSUME NEW i \in 0 .. n
        PROVE  g[i] = IF i = 0 THEN m ELSE Written(g[i - 1], d + i - 1, At(g[i - 1], s + i - 1))
    <3>1. CASE i = 0
      BY <1>2, <3>1
    <3>2. CASE i # 0
      <4>1. i \in 1 .. n /\ i - 1 \in 0 .. n
        BY <3>2
      <4>2. g[i - 1] = Shifted(m, d, s, 0, i - 1)
        BY <4>1
      <4> QED
        BY <1>1, <3>2, <4>1, <4>2
    <3> QED
      BY <3>1, <3>2
  <2> QED
    BY <2>1
<1>4. ASSUME NEW f, Loop(f) PROVE f[n] = Shifted(m, d, s, 0, n)
  <2> DEFINE T == {i \in 0 .. n : f[i] # Shifted(m, d, s, 0, i)}
  <2>1. \A i \in 0 .. n : f[i] = IF i = 0 THEN m ELSE Written(f[i - 1], d + i - 1, At(f[i - 1], s + i - 1))
    BY <1>4
  <2>2. SUFFICES ASSUME T # {} PROVE FALSE
    <3>1. n \in 0 .. n
      OBVIOUS
    <3> QED
      BY <2>2, <3>1
  <2>3. PICK i \in T : \A j \in T : i <= j
    <3>1. T \subseteq Nat
      OBVIOUS
    <3> QED
      BY <2>2, <3>1, LeastNat
  <2>4. i # 0
    BY <1>2, <2>1, <2>3
  <2>5. i \in 1 .. n /\ i - 1 \in 0 .. n /\ i - 1 \notin T
    BY <2>3, <2>4
  <2>6. f[i - 1] = Shifted(m, d, s, 0, i - 1)
    BY <2>5
  <2>7. f[i] = Shifted(m, d, s, 0, i)
    BY <1>1, <2>1, <2>4, <2>5, <2>6
  <2> QED
    BY <2>3, <2>7
<1>5. \E f : Loop(f)
  BY <1>3
<1> HIDE DEF g
<1>6. \E f : f = [i \in 0 .. n |-> IF i = 0 THEN m
                                   ELSE Written(f[i - 1], d + i - 1, At(f[i - 1], s + i - 1))]
  BY <1>5
<1>7. \E f : Loop(f) /\ CopyUp(m, d, s, n) = f[n]
  BY <1>6 DEF CopyUp
<1> QED
  BY <1>4, <1>7

(* The loop that copies from the last byte down, when the destination is   *)
(* not below the source.                                                   *)
LEMMA CopyDownIs ==
  ASSUME NEW m \in Memories, NEW d \in Int, NEW s \in Int, NEW n \in Nat, s <= d
  PROVE  CopyDown(m, d, s, n) = Shifted(m, d, s, 0, n)
<1> DEFINE g == [i \in 0 .. n |-> Shifted(m, d, s, i, n)]
           Loop(f) == f = [i \in 0 .. n |-> IF i = n THEN m
                                            ELSE Written(f[i + 1], d + i, At(f[i + 1], s + i))]
<1>1. \A i \in 0 .. n - 1 :
        Written(Shifted(m, d, s, i + 1, n), d + i, At(Shifted(m, d, s, i + 1, n), s + i))
          = Shifted(m, d, s, i, n)
  BY ShiftDown
<1>2. Shifted(m, d, s, n, n) = m
  BY ShiftedNone
<1>3. Loop(g)
  <2>1. ASSUME NEW i \in 0 .. n
        PROVE  g[i] = IF i = n THEN m ELSE Written(g[i + 1], d + i, At(g[i + 1], s + i))
    <3>1. CASE i = n
      BY <1>2, <3>1
    <3>2. CASE i # n
      <4>1. i \in 0 .. n - 1 /\ i + 1 \in 0 .. n
        BY <3>2
      <4>2. g[i + 1] = Shifted(m, d, s, i + 1, n)
        BY <4>1
      <4> QED
        BY <1>1, <3>2, <4>1, <4>2
    <3> QED
      BY <3>1, <3>2
  <2> QED
    BY <2>1
<1>4. ASSUME NEW f, Loop(f) PROVE f[0] = Shifted(m, d, s, 0, n)
  <2> DEFINE T == {n - i : i \in {k \in 0 .. n : f[k] # Shifted(m, d, s, k, n)}}
  <2>1. \A i \in 0 .. n : f[i] = IF i = n THEN m ELSE Written(f[i + 1], d + i, At(f[i + 1], s + i))
    BY <1>4
  <2>2. SUFFICES ASSUME T # {} PROVE FALSE
    <3>1. 0 \in 0 .. n
      OBVIOUS
    <3> QED
      BY <2>2, <3>1
  <2>3. PICK t \in T : \A j \in T : t <= j
    <3>1. T \subseteq Nat
      OBVIOUS
    <3> QED
      BY <2>2, <3>1, LeastNat
  <2>4. PICK i \in 0 .. n : t = n - i /\ f[i] # Shifted(m, d, s, i, n)
    BY <2>3
  <2>5. i # n
    BY <1>2, <2>1, <2>4
  <2>6. i \in 0 .. n - 1 /\ i + 1 \in 0 .. n /\ n - (i + 1) < t
    BY <2>4, <2>5
  <2>7. f[i + 1] = Shifted(m, d, s, i + 1, n)
    <3>1. ASSUME f[i + 1] # Shifted(m, d, s, i + 1, n) PROVE FALSE
      <4>1. n - (i + 1) \in T
        BY <2>6, <3>1
      <4>2. t <= n - (i + 1)
        BY <2>3, <4>1
      <4> QED
        BY <2>4, <2>6, <4>2
    <3> QED
      BY <3>1
  <2>8. f[i] = Shifted(m, d, s, i, n)
    BY <1>1, <2>1, <2>5, <2>6, <2>7
  <2> QED
    BY <2>4, <2>8
<1>5. \E f : Loop(f)
  BY <1>3
<1> HIDE DEF g
<1>6. \E f : f = [i \in 0 .. n |-> IF i = n THEN m
                                   ELSE Written(f[i + 1], d + i, At(f[i + 1], s + i))]
  BY <1>5
<1>7. \E f : Loop(f) /\ CopyDown(m, d, s, n) = f[0]
  BY <1>6 DEF CopyDown
<1> QED
  BY <1>4, <1>7

-----------------------------------------------------------------------------
(* The functions that write. *)

(* What a copy of n bytes writes and leaves. *)
LEMMA CopyLeaves ==
  ASSUME NEW m \in Memories, NEW d \in Int, NEW s \in Int, NEW n \in Nat
  PROVE  /\ Shifted(m, d, s, 0, n) \in Memories
         /\ DOMAIN Shifted(m, d, s, 0, n) = DOMAIN m
         /\ \A p \in Int : p \notin d .. d + n - 1 => At(Shifted(m, d, s, 0, n), p) = At(m, p)
         /\ \A i \in 0 .. n - 1 :
               d + i \in DOMAIN m => At(Shifted(m, d, s, 0, n), d + i) = At(m, s + i)
<1>1. n \in Int /\ 0 \in Int /\ d + 0 = d
  OBVIOUS
<1>2. Shifted(m, d, s, 0, n) \in Memories /\ DOMAIN Shifted(m, d, s, 0, n) = DOMAIN m
  BY <1>1, ShiftedIs
<1>3. \A p \in Int : p \notin d + 0 .. d + n - 1 => At(Shifted(m, d, s, 0, n), p) = At(m, p)
  BY <1>1, ShiftedIs
<1>4. ASSUME NEW i \in 0 .. n - 1, d + i \in DOMAIN m
      PROVE  At(Shifted(m, d, s, 0, n), d + i) = At(m, s + i)
  <2>1. d + i \in d + 0 .. d + n - 1 /\ s + ((d + i) - d) = s + i
    OBVIOUS
  <2>2. At(Shifted(m, d, s, 0, n), d + i) = At(m, s + ((d + i) - d))
    BY <1>1, <1>4, <2>1, ShiftedByte
  <2> QED
    BY <2>1, <2>2
<1> QED
  BY <1>1, <1>2, <1>3, <1>4

(* A copy of written bytes leaves all bytes written. *)
LEMMA CleanCopy ==
  ASSUME NEW m \in Memories, NEW d \in Int, NEW s \in Int, NEW n \in Nat, Clean(m)
  PROVE  Clean(Shifted(m, d, s, 0, n))
<1> SUFFICES ASSUME NEW p \in Int PROVE At(Shifted(m, d, s, 0, n), p) # Uninit
  BY DEF Clean
<1>1. CASE p \notin d .. d + n - 1
  BY <1>1, CopyLeaves DEF Clean
<1>2. CASE p \in d .. d + n - 1 /\ p \in DOMAIN m
  <2>1. p \in d + 0 .. d + n - 1 /\ s + (p - d) \in Int
    BY <1>2
  <2>2. At(Shifted(m, d, s, 0, n), p) = At(m, s + (p - d))
    BY <1>2, <2>1, ShiftedByte
  <2> QED
    BY <2>1, <2>2 DEF Clean
<1>3. CASE p \notin DOMAIN m
  <2>1. DOMAIN Shifted(m, d, s, 0, n) = DOMAIN m
    BY CopyLeaves
  <2> QED
    BY <1>3, <2>1 DEF At, Outside, Uninit
<1> QED
  BY <1>1, <1>2, <1>3

(* A copy of n bytes leaves the source in the destination, and the rest    *)
(* of the memory as it was.                                                *)
LEMMA CopiesShifted ==
  ASSUME NEW m \in Memories, NEW d \in Int, NEW s \in Int, NEW n \in Nat, valid(m, d, n), NEW q
  PROVE  Copies(m, Returned(Shifted(m, d, s, 0, n), q), d, s, n)
<1> DEFINE r == Shifted(m, d, s, 0, n)
<1>1. DOMAIN r = DOMAIN m
  BY ShiftedIs
<1>2. \A p \in DOMAIN m \ (d .. d + n - 1) : r[p] = m[p]
  <2>1. \A p \in DOMAIN m : p \in Int
    BY DEF Memories
  <2> QED
    BY <2>1 DEF Shifted
<1>3. \A i \in 0 .. n - 1 : At(r, d + i) = At(m, s + i)
  <2>1. \A i \in 0 .. n - 1 : d + i \in DOMAIN m
    BY ValidBytes
  <2>2. \A i \in 0 .. n - 1 : d + i \in DOMAIN m => At(r, d + i) = At(m, s + i)
    BY CopyLeaves, ZenonT(30)
  <2> HIDE DEF r
  <2> QED
    BY <2>1, <2>2
<1> HIDE DEF r
<1>4. Returned(r, q).mem = r
  BY DEF Returned
<1> QED
  BY <1>1, <1>2, <1>3, <1>4 DEF Copies, Assigns, SameBytes, r

(* memcpy and mempcpy copy n bytes between blocks that do not overlap. *)
LEMMA memcpy_meets ==
  ASSUME NEW m \in Memories, NEW d \in Int, NEW s \in Int, NEW n \in Nat
  PROVE  memcpy_contract(m, d, s, n) /\ mempcpy_contract(m, d, s, n)
<1> SUFFICES ASSUME memcpy_requires(m, d, s, n)
             PROVE  /\ Copies(m, memcpy(m, d, s, n), d, s, n) /\ memcpy(m, d, s, n).ret = d
                    /\ Copies(m, mempcpy(m, d, s, n), d, s, n) /\ mempcpy(m, d, s, n).ret = d + n
  BY DEF memcpy_contract, mempcpy_contract
<1>1. valid(m, d, n) /\ (n = 0 \/ d + n <= s \/ s + n <= d)
  BY DEF memcpy_requires, separated
<1>2. s >= d \/ s + n <= d
  BY <1>1
<1>3. CopyUp(m, d, s, n) = Shifted(m, d, s, 0, n)
  BY <1>2, CopyUpIs
<1>4. \A q : Copies(m, Returned(Shifted(m, d, s, 0, n), q), d, s, n)
  BY <1>1, CopiesShifted
<1> QED
  BY <1>3, <1>4 DEF memcpy, mempcpy, Returned

(* memmove copies from the end of the source that the destination does not *)
(* reach.                                                                  *)
LEMMA memmoveIs ==
  ASSUME NEW m, m \in Memories, NEW d \in Int, NEW s \in Int, NEW n \in Nat
  PROVE  memmove(m, d, s, n) = Returned(Shifted(m, d, s, 0, n), d)
<1>1. CASE n = 0 \/ memoverlap(d, s, n) <= 0
  <2>1. s >= d \/ s + n <= d
    BY <1>1 DEF memoverlap
  <2>2. CopyUp(m, d, s, n) = Shifted(m, d, s, 0, n)
    BY <2>1, CopyUpIs
  <2> QED
    BY <1>1, <2>2 DEF memmove, memcpy
<1>2. CASE ~(n = 0 \/ memoverlap(d, s, n) <= 0)
  <2>1. s <= d
    BY <1>2 DEF memoverlap
  <2>2. CopyDown(m, d, s, n) = Shifted(m, d, s, 0, n)
    BY <2>1, CopyDownIs
  <2> QED
    BY <1>2, <2>2 DEF memmove
<1> QED
  BY <1>1, <1>2

(* memmove copies n bytes, of blocks that may overlap. *)
LEMMA memmove_meets ==
  ASSUME NEW m \in Memories, NEW d \in Int, NEW s \in Int, NEW n \in Nat
  PROVE  memmove_contract(m, d, s, n)
<1> SUFFICES ASSUME memmove_requires(m, d, s, n)
             PROVE  Copies(m, memmove(m, d, s, n), d, s, n) /\ memmove(m, d, s, n).ret = d
  BY DEF memmove_contract
<1>1. Copies(m, Returned(Shifted(m, d, s, 0, n), d), d, s, n)
  BY CopiesShifted DEF memmove_requires
<1>2. memmove(m, d, s, n) = Returned(Shifted(m, d, s, 0, n), d)
  BY memmoveIs
<1> QED
  BY <1>1, <1>2 DEF Returned

(* The loop that copies a string stops at its end when what it writes      *)
(* does not reach the rest of it first.                                    *)
LEMMA CopiedIs ==
  ASSUME NEW m \in Memories, NEW d \in Int, NEW s \in Int, NEW n \in Nat, NEW k,
         NStringOf(m, s, n, k), s >= d \/ s + k <= d, k = n \/ s >= d \/ s + k < d
  PROVE  Copied(m, d, s, n) = k
<1> DEFINE i == Copied(m, d, s, n)
<1>1. /\ k \in 0 .. n
      /\ k = n \/ At(m, s + k) = NUL
      /\ \A j \in 0 .. k - 1 : At(m, s + j) \notin {NUL, Outside}
  BY DEF NStringOf
<1>2. ASSUME NEW j \in 0 .. k, s >= d \/ s + j < d
      PROVE  At(CopyUp(m, d, s, j), s + j) = At(m, s + j)
  <2>1. j \in Nat /\ (s >= d \/ s + j <= d)
    BY <1>1, <1>2
  <2>2. CopyUp(m, d, s, j) = Shifted(m, d, s, 0, j)
    BY <2>1, CopyUpIs
  <2>3. s + j \in Int /\ s + j \notin d + 0 .. d + j - 1
    BY <1>2, <2>1
  <2> QED
    BY <2>1, <2>2, <2>3, ShiftedIs
<1>3. \A j \in 0 .. k - 1 : At(CopyUp(m, d, s, j), s + j) \notin {NUL, Outside}
  <2> SUFFICES ASSUME NEW j \in 0 .. k - 1
               PROVE  At(CopyUp(m, d, s, j), s + j) \notin {NUL, Outside}
    OBVIOUS
  <2>1. j \in 0 .. k /\ (s >= d \/ s + j < d)
    BY <1>1
  <2> QED
    BY <1>1, <1>2, <2>1
<1>4. k = n \/ At(CopyUp(m, d, s, k), s + k) \in {NUL, Outside}
  <2>1. CASE k = n
    BY <2>1
  <2>2. CASE k # n
    <3>1. k \in 0 .. k /\ (s >= d \/ s + k < d)
      BY <1>1, <2>2
    <3> QED
      BY <1>1, <1>2, <2>2, <3>1
  <2> QED
    BY <2>1, <2>2
<1>5. \E x \in 0 .. n : /\ x = n \/ At(CopyUp(m, d, s, x), s + x) \in {NUL, Outside}
                        /\ \A j \in 0 .. x - 1 : ~(At(CopyUp(m, d, s, j), s + j) \in {NUL, Outside})
  BY <1>1, <1>3, <1>4
<1>6. /\ i \in 0 .. n
      /\ i = n \/ At(CopyUp(m, d, s, i), s + i) \in {NUL, Outside}
      /\ \A j \in 0 .. i - 1 : ~(At(CopyUp(m, d, s, j), s + j) \in {NUL, Outside})
  BY <1>5 DEF Copied, FirstStop
<1> HIDE DEF i
<1>7. ~(i < k)
  BY <1>1, <1>3, <1>6
<1>8. ~(k < i)
  BY <1>1, <1>4, <1>6
<1>9. i = k
  BY <1>1, <1>6, <1>7, <1>8
<1> QED
  BY <1>9 DEF i

(* A copy and its terminator. *)
LEMMA TerminatedIs ==
  ASSUME NEW m \in Memories, NEW d \in Int, NEW s \in Int, NEW k \in Nat,
         s >= d \/ s + k <= d, valid(m, d, k + 1)
  PROVE  /\ Terminated(m, d, s, k) \in Memories
         /\ DOMAIN Terminated(m, d, s, k) = DOMAIN m
         /\ \A p \in Int : p \notin d .. d + k => At(Terminated(m, d, s, k), p) = At(m, p)
         /\ \A p \in DOMAIN m \ (d .. d + k) : Terminated(m, d, s, k)[p] = m[p]
         /\ \A i \in 0 .. k - 1 : At(Terminated(m, d, s, k), d + i) = At(m, s + i)
         /\ At(Terminated(m, d, s, k), d + k) = NUL
<1> DEFINE c == Shifted(m, d, s, 0, k)
           r == Terminated(m, d, s, k)
<1>1. r = [c EXCEPT ![d + k] = NUL]
  BY CopyUpIs DEF Terminated, Written
<1>2. /\ c \in Memories
      /\ DOMAIN c = DOMAIN m
      /\ \A p \in Int : p \notin d .. d + k - 1 => At(c, p) = At(m, p)
      /\ \A i \in 0 .. k - 1 : d + i \in DOMAIN m => At(c, d + i) = At(m, s + i)
  BY CopyLeaves
<1>3. \A i \in 0 .. k : d + i \in DOMAIN m
  <2>1. k + 1 \in Nat /\ (k + 1) - 1 = k
    OBVIOUS
  <2> QED
    BY <2>1, ValidBytes
<1> HIDE DEF c, r
<1>4. r \in Memories /\ DOMAIN r = DOMAIN m
  <2>1. c \in Seq(Int) /\ NUL \in Int
    BY <1>2 DEF Memories, NUL
  <2>2. c \in [1 .. Len(c) -> Int] /\ Len(c) \in Nat
    BY <2>1
  <2>3. r \in [1 .. Len(c) -> Int]
    BY <1>1, <2>1, <2>2
  <2>4. r \in Seq(Int)
    BY <2>2, <2>3
  <2> QED
    BY <1>1, <1>2, <2>4 DEF Memories
<1>5. ASSUME NEW p \in Int, p # d + k PROVE At(r, p) = At(c, p)
  BY <1>1, <1>2, <1>4, <1>5 DEF At
<1>6. At(r, d + k) = NUL
  <2>1. d + k \in DOMAIN m
    BY <1>3
  <2> QED
    BY <1>1, <1>2, <1>4, <2>1 DEF At
<1>7. ASSUME NEW p \in Int, p \notin d .. d + k PROVE At(r, p) = At(m, p)
  <2>1. p # d + k /\ p \notin d .. d + k - 1
    BY <1>7
  <2> QED
    BY <1>2, <1>5, <2>1
<1>8. ASSUME NEW p \in DOMAIN m \ (d .. d + k) PROVE r[p] = m[p]
  <2>1. p \in Int
    BY DEF Memories
  <2> QED
    BY <1>4, <1>7, <2>1 DEF At
<1>9. ASSUME NEW i \in 0 .. k - 1 PROVE At(r, d + i) = At(m, s + i)
  <2>1. d + i \in Int /\ d + i # d + k /\ i \in 0 .. k
    OBVIOUS
  <2> QED
    BY <1>2, <1>3, <1>5, <2>1
<1> QED
  BY <1>4, <1>6, <1>7, <1>8, <1>9 DEF r

(* A string copied into a memory of written bytes leaves all bytes         *)
(* written.                                                                *)
LEMMA CleanTerminated ==
  ASSUME NEW m \in Memories, NEW d \in Int, NEW s \in Int, NEW k \in Nat,
         s >= d \/ s + k <= d, valid(m, d, k + 1), Clean(m)
  PROVE  Clean(Terminated(m, d, s, k))
<1> DEFINE r == Terminated(m, d, s, k)
<1>1. \A p \in Int : p \notin d .. d + k => At(r, p) = At(m, p)
  BY TerminatedIs
<1>2. \A i \in 0 .. k - 1 : At(r, d + i) = At(m, s + i)
  BY TerminatedIs
<1>3. At(r, d + k) = NUL
  BY TerminatedIs
<1> HIDE DEF r
<1>4. ASSUME NEW p \in Int PROVE At(r, p) # Uninit
  <2>1. CASE p \notin d .. d + k
    BY <1>1, <2>1 DEF Clean
  <2>2. CASE p = d + k
    BY <1>3, <2>2 DEF NUL, Uninit
  <2>3. CASE p - d \in 0 .. k - 1
    <3>1. d + (p - d) = p /\ s + (p - d) \in Int
      OBVIOUS
    <3>2. At(r, p) = At(m, s + (p - d))
      BY <1>2, <2>3, <3>1
    <3> QED
      BY <3>1, <3>2 DEF Clean
  <2> QED
    BY <2>1, <2>2, <2>3
<1> QED
  BY <1>4 DEF Clean, r

(* k bytes of a string *)
Characters(m, s, k) == \A j \in 0 .. k - 1 : At(m, s + j) \notin {NUL, Outside}

(* What the functions that copy a string leave: the string of length k at  *)
(* e, and nothing else written.                                            *)
LEMMA StringPut ==
  ASSUME NEW m \in Memories, NEW e \in Int, NEW s \in Int, NEW k \in Nat, NEW q,
         s >= e \/ s + k <= e, valid(m, e, k + 1),
         Characters(m, s, k)
  PROVE  /\ Assigns(m, Returned(Terminated(m, e, s, k), q), e .. e + k)
         /\ StringOf(Terminated(m, e, s, k), e, k)
         /\ logic_strlen(Terminated(m, e, s, k), e) = k
         /\ SameBytes(Terminated(m, e, s, k), e, m, s, k)
         /\ At(m, s + k) = NUL => SameStrings(Terminated(m, e, s, k), e, m, s)
<1> DEFINE r == Terminated(m, e, s, k)
<1>1. /\ r \in Memories /\ DOMAIN r = DOMAIN m
      /\ \A p \in DOMAIN m \ (e .. e + k) : r[p] = m[p]
      /\ \A i \in 0 .. k - 1 : At(r, e + i) = At(m, s + i)
      /\ At(r, e + k) = NUL
  <2>1. r \in Memories /\ DOMAIN r = DOMAIN m /\ At(r, e + k) = NUL
    BY TerminatedIs
  <2>2. \A p \in DOMAIN m \ (e .. e + k) : r[p] = m[p]
    BY TerminatedIs
  <2>3. \A i \in 0 .. k - 1 : At(r, e + i) = At(m, s + i)
    BY TerminatedIs, SMTT(30)
  <2> QED
    BY <2>1, <2>2, <2>3
<1> HIDE DEF r
<1>2. StringOf(r, e, k)
  BY <1>1 DEF StringOf, Characters
<1>3. logic_strlen(r, e) = k
  BY <1>1, <1>2, StringIsValid
<1>4. Assigns(m, Returned(r, q), e .. e + k)
  <2>1. Returned(r, q).mem = r
    BY DEF Returned
  <2> QED
    BY <1>1, <2>1 DEF Assigns
<1>5. SameBytes(r, e, m, s, k)
  BY <1>1 DEF SameBytes
<1>6. ASSUME At(m, s + k) = NUL PROVE SameStrings(r, e, m, s)
  <2>1. logic_strlen(m, s) = k
    BY <1>6, StringLength DEF Characters
  <2>2. \A j \in 0 .. k + 1 - 1 : At(r, e + j) = At(m, s + j)
    BY <1>1, <1>6
  <2>3. SameBytes(r, e, m, s, k + 1)
    BY <2>2 DEF SameBytes
  <2> QED
    BY <1>3, <2>1, <2>3 DEF SameStrings
<1> QED
  BY <1>2, <1>3, <1>4, <1>5, <1>6 DEF r

(* A string of length l can be read up to any n from l on. *)
LEMMA StringIsNString ==
  ASSUME NEW m, NEW s \in Int, NEW l \in Nat, NEW n \in Nat, l <= n, StringOf(m, s, l)
  PROVE  NStringOf(m, s, n, l)
  BY DEF StringOf, NStringOf

(* stpcpy copies a string and its terminator and returns where it ends. *)
LEMMA stpcpyIs ==
  ASSUME NEW m \in Memories, NEW e \in Int, NEW s \in DOMAIN m, NEW l \in Nat,
         StringOf(m, s, l), s >= e \/ s + l < e
  PROVE  stpcpy(m, e, s) = Returned(Terminated(m, e, s, l), e + l)
<1>1. s \in Int /\ s >= 1 /\ Len(m) \in Nat
  BY DEF Memories
<1>2. s + l \in 1 .. Len(m)
  BY <1>1, StringBytes
<1>3. l <= Len(m)
  BY <1>1, <1>2
<1>4. NStringOf(m, s, Len(m), l)
  BY <1>1, <1>3, StringIsNString
<1>5. (s >= e \/ s + l <= e) /\ (l = Len(m) \/ s >= e \/ s + l < e)
  BY <1>1
<1>6. Copied(m, e, s, Len(m)) = l
  BY <1>1, <1>4, <1>5, CopiedIs
<1> QED
  BY <1>6 DEF stpcpy

(* strcpy and stpcpy leave a copy of the string. *)
LEMMA strcpy_meets ==
  ASSUME NEW m \in Memories, NEW d \in Int, NEW s \in DOMAIN m
  PROVE  strcpy_contract(m, d, s) /\ stpcpy_contract(m, d, s)
<1>0. s \in Int
  BY DEF Memories
<1> DEFINE l == logic_strlen(m, s)
           T == Terminated(m, d, s, l)
<1> SUFFICES ASSUME strcpy_requires(m, d, s)
             PROVE  /\ Assigns(m, strcpy(m, d, s), d .. d + l)
                    /\ SameStrings(strcpy(m, d, s).mem, d, m, s) /\ strcpy(m, d, s).ret = d
                    /\ Assigns(m, stpcpy(m, d, s), d .. d + l)
                    /\ SameStrings(stpcpy(m, d, s).mem, d, m, s)
                    /\ stpcpy(m, d, s).ret = d + logic_strlen(stpcpy(m, d, s).mem, d)
  BY DEF strcpy_contract, stpcpy_contract
<1>1. l \in Nat /\ StringOf(m, s, l)
  BY <1>0, ValidString DEF strcpy_requires
<1>2. valid(m, d, l + 1) /\ separated(d, l + 1, s, l + 1)
  BY DEF strcpy_requires
<1> HIDE DEF l
<1>3. s >= d \/ s + l < d
  BY <1>0, <1>1, <1>2 DEF separated
<1>4. stpcpy(m, d, s) = Returned(T, d + l)
  BY <1>1, <1>3, stpcpyIs
<1>5. strcpy(m, d, s) = Returned(T, d)
  BY <1>4 DEF strcpy, Returned
<1>a. s >= d \/ s + l <= d
  BY <1>0, <1>1, <1>3
<1>b. At(m, s + l) = NUL /\ Characters(m, s, l)
  BY <1>1 DEF StringOf, Characters
<1>6. \A q : Assigns(m, Returned(T, q), d .. d + l)
  BY <1>0, <1>1, <1>2, <1>a, <1>b, StringPut
<1>7. logic_strlen(T, d) = l /\ SameStrings(T, d, m, s)
  BY <1>0, <1>1, <1>2, <1>a, <1>b, StringPut
<1> HIDE DEF T
<1> QED
  BY <1>4, <1>5, <1>6, <1>7 DEF Returned

(* A string put where another ends makes one string of the two.            *)
LEMMA StringAppended ==
  ASSUME NEW m \in Memories, NEW d \in Int, NEW ld \in Nat, NEW s \in Int, NEW k \in Nat,
         NEW e \in Int, e = d + ld, StringOf(m, d, ld), s >= e \/ s + k <= e, valid(m, e, k + 1),
         Characters(m, s, k)
  PROVE  /\ logic_strlen(Terminated(m, e, s, k), d) = ld + k
         /\ SameBytes(Terminated(m, e, s, k), d, m, d, ld)
<1> DEFINE r == Terminated(m, e, s, k)
<1>1. r \in Memories /\ At(r, e + k) = NUL
  BY TerminatedIs
<1>2. \A p \in Int : p \notin e .. e + k => At(r, p) = At(m, p)
  BY TerminatedIs
<1>3. \A i \in 0 .. k - 1 : At(r, e + i) = At(m, s + i)
  BY TerminatedIs
<1> HIDE DEF r
<1>4. ASSUME NEW i \in 0 .. ld - 1 PROVE At(r, d + i) = At(m, d + i)
  <2>1. d + i \in Int /\ d + i \notin e .. e + k
    OBVIOUS
  <2> QED
    BY <1>2, <2>1
<1>5. ASSUME NEW j \in 0 .. (ld + k) - 1 PROVE At(r, d + j) \notin {NUL, Outside}
  <2>1. CASE j < ld
    <3>1. j \in 0 .. ld - 1
      BY <2>1
    <3> QED
      BY <1>4, <3>1 DEF StringOf
  <2>2. CASE j >= ld
    <3>1. j - ld \in 0 .. k - 1 /\ e + (j - ld) = d + j
      BY <2>2
    <3> QED
      BY <1>3, <3>1 DEF Characters
  <2> QED
    BY <2>1, <2>2
<1>6. At(r, d + (ld + k)) = NUL /\ ld + k \in Nat
  <2>1. d + (ld + k) = e + k
    OBVIOUS
  <2> QED
    BY <1>1, <2>1
<1>7. StringOf(r, d, ld + k)
  BY <1>5, <1>6 DEF StringOf
<1>8. logic_strlen(r, d) = ld + k
  BY <1>1, <1>6, <1>7, StringIsValid
<1>9. SameBytes(r, d, m, d, ld)
  BY <1>4 DEF SameBytes
<1> QED
  BY <1>8, <1>9 DEF r

(* The end of a valid block of bytes is valid. *)
LEMMA ValidTail ==
  ASSUME NEW m, NEW d \in Int, NEW a \in Nat, NEW b \in Nat, valid(m, d, a + b)
  PROVE  valid(m, d + a, b)
<1> SUFFICES ASSUME NEW i \in 0 .. b - 1 PROVE At(m, (d + a) + i) # Outside
  BY DEF valid
<1>1. a + i \in 0 .. (a + b) - 1 /\ (d + a) + i = d + (a + i)
  OBVIOUS
<1> QED
  BY <1>1 DEF valid

(* strcat writes the second string over the terminator of the first. *)
LEMMA strcatIs ==
  ASSUME NEW m \in Memories, NEW d \in Int, NEW ld \in Nat, NEW s \in DOMAIN m, NEW l \in Nat,
         StringOf(m, d, ld), StringOf(m, s, l), s >= d + ld \/ s + l < d + ld
  PROVE  strcat(m, d, s) = Returned(Terminated(m, d + ld, s, l), d)
<1>1. strlen(m, d) = ld
  BY StrlenIs
<1>2. stpcpy(m, d + ld, s) = Returned(Terminated(m, d + ld, s, l), (d + ld) + l)
  <2>1. d + ld \in Int
    OBVIOUS
  <2> QED
    BY <2>1, stpcpyIs
<1> QED
  BY <1>1, <1>2 DEF strcat, Returned

(* strcat leaves the two strings one after the other. *)
LEMMA strcat_meets ==
  ASSUME NEW m \in Memories, NEW d \in Int, NEW s \in DOMAIN m
  PROVE  strcat_contract(m, d, s)
<1>0. s \in Int
  BY DEF Memories
<1> DEFINE ld == logic_strlen(m, d)
           l == logic_strlen(m, s)
           T == Terminated(m, d + ld, s, l)
<1> SUFFICES ASSUME strcat_requires(m, d, s)
             PROVE  /\ Assigns(m, strcat(m, d, s), d + ld .. d + ld + l) /\ strcat(m, d, s).ret = d
                    /\ logic_strlen(strcat(m, d, s).mem, d) = ld + l
  BY DEF strcat_contract
<1>1. l \in Nat /\ StringOf(m, s, l) /\ ld \in Nat /\ StringOf(m, d, ld)
  BY <1>0, ValidString DEF strcat_requires
<1>2. valid(m, d, ld + l + 1) /\ separated(d, ld + l + 1, s, l + 1)
  BY DEF strcat_requires
<1> HIDE DEF l, ld
<1>4. d + ld \in Int /\ (s >= d + ld \/ s + l < d + ld) /\ (s >= d + ld \/ s + l <= d + ld)
  BY <1>0, <1>1, <1>2 DEF separated
<1>5. valid(m, d + ld, l + 1)
  <2>1. ld + l + 1 = ld + (l + 1) /\ l + 1 \in Nat
    BY <1>1
  <2> QED
    BY <1>1, <1>2, <2>1, ValidTail
<1>6. strcat(m, d, s) = Returned(T, d)
  BY <1>1, <1>4, strcatIs
<1>7. Characters(m, s, l)
  BY <1>1 DEF StringOf, Characters
<1>8. Assigns(m, Returned(T, d), d + ld .. d + ld + l)
  BY <1>0, <1>1, <1>4, <1>5, <1>7, StringPut
<1>9. logic_strlen(T, d) = ld + l
  <2>1. ASSUME NEW e \in Int, e = d + ld
        PROVE  logic_strlen(Terminated(m, e, s, l), d) = ld + l
    <3>1. (s >= e \/ s + l <= e) /\ valid(m, e, l + 1)
      BY <1>4, <1>5, <2>1
    <3> QED
      BY <1>0, <1>1, <1>7, <2>1, <3>1, StringAppended
  <2> QED
    BY <1>4, <2>1
<1> HIDE DEF T
<1> QED
  BY <1>6, <1>8, <1>9 DEF Returned

(* What strncat leaves, when what it writes does not reach its source.     *)
LEMMA strncatIs ==
  ASSUME NEW m \in Memories, NEW d \in Int, NEW ld \in Nat, NEW s \in Int, NEW n \in Nat, NEW k,
         StringOf(m, d, ld), NStringOf(m, s, n, k),
         s >= d + ld \/ s + k <= d + ld, k = n \/ s >= d + ld \/ s + k < d + ld
  PROVE  strncat(m, d, s, n) = Returned(Terminated(m, d + ld, s, k), d)
<1>1. strlen(m, d) = ld
  BY StrlenIs
<1>2. Copied(m, d + ld, s, n) = k
  <2>1. d + ld \in Int
    OBVIOUS
  <2> QED
    BY <2>1, CopiedIs
<1> QED
  BY <1>1, <1>2 DEF strncat

(* strncat leaves a string and at most n bytes of another after it. *)
LEMMA strncat_meets ==
  ASSUME NEW m \in Memories, NEW d \in Int, NEW s \in Int, NEW n \in Nat
  PROVE  strncat_contract(m, d, s, n)
<1> DEFINE ld == logic_strlen(m, d)
           k == logic_strnlen(m, s, n)
           T == Terminated(m, d + ld, s, k)
<1> SUFFICES ASSUME strncat_requires(m, d, s, n)
             PROVE  /\ Assigns(m, strncat(m, d, s, n), d + ld .. d + ld + k)
                    /\ strncat(m, d, s, n).ret = d
                    /\ logic_strlen(strncat(m, d, s, n).mem, d) = ld + k
  BY DEF strncat_contract
<1>1. ld \in Nat /\ StringOf(m, d, ld)
  BY ValidString DEF strncat_requires
<1>2. NStringOf(m, s, n, k)
  BY NString DEF strncat_requires
<1>3. valid(m, d + ld, k + 1) /\ separated(d, ld + k + 1, s, k + 1)
  BY DEF strncat_requires
<1> HIDE DEF ld, k
<1>4. k \in Nat /\ k <= n /\ Characters(m, s, k)
  BY <1>2 DEF NStringOf, Characters
<1>5. d + ld \in Int /\ (s >= d + ld \/ s + k < d + ld) /\ (s >= d + ld \/ s + k <= d + ld)
  BY <1>1, <1>3, <1>4 DEF separated
<1>6. strncat(m, d, s, n) = Returned(T, d)
  BY <1>1, <1>2, <1>5, strncatIs
<1>7. Assigns(m, Returned(T, d), d + ld .. d + ld + k)
  BY <1>3, <1>4, <1>5, StringPut
<1>8. logic_strlen(T, d) = ld + k
  <2>1. /\ ld \in Nat /\ k \in Nat /\ StringOf(m, d, ld) /\ (s >= d + ld \/ s + k <= d + ld)
        /\ valid(m, d + ld, k + 1)
    BY <1>1, <1>3, <1>4, <1>5
  <2>2. Characters(m, s, k)
    BY <1>4
  <2>3. ASSUME NEW e \in Int, e = d + ld
        PROVE  logic_strlen(Terminated(m, e, s, k), d) = ld + k
    <3>1. (s >= e \/ s + k <= e) /\ valid(m, e, k + 1)
      BY <2>1, <2>3
    <3> QED
      BY <2>1, <2>2, <2>3, <3>1, StringAppended
  <2> QED
    BY <1>5, <2>3
<1> HIDE DEF T
<1> QED
  BY <1>6, <1>7, <1>8 DEF Returned

(* What strncpy leaves: k bytes of the source, and zeros up to n.          *)
LEMMA strncpyIs ==
  ASSUME NEW m \in Memories, NEW d \in Int, NEW s \in Int, NEW n \in Nat, NEW k,
         NStringOf(m, s, n, k), valid(m, d, n), s >= d \/ s + n <= d
  PROVE  /\ strncpy(m, d, s, n).ret = d
         /\ strncpy(m, d, s, n).mem \in Memories
         /\ DOMAIN strncpy(m, d, s, n).mem = DOMAIN m
         /\ \A p \in Int : p \notin d .. d + n - 1 => At(strncpy(m, d, s, n).mem, p) = At(m, p)
         /\ \A i \in 0 .. k - 1 : At(strncpy(m, d, s, n).mem, d + i) = At(m, s + i)
         /\ \A i \in k .. n - 1 : At(strncpy(m, d, s, n).mem, d + i) = NUL
<1> DEFINE c == Shifted(m, d, s, 0, k)
           r == strncpy(m, d, s, n).mem
<1>1. k \in Nat /\ k <= n
  BY DEF NStringOf
<1>2. (s >= d \/ s + k <= d) /\ (k = n \/ s >= d \/ s + k < d)
  BY <1>1
<1>3. Copied(m, d, s, n) = k
  BY <1>2, CopiedIs
<1>4. CopyUp(m, d, s, k) = c
  BY <1>1, <1>2, CopyUpIs
<1>5. /\ strncpy(m, d, s, n).ret = d
      /\ r = [p \in DOMAIN c |-> IF p \in d + k .. d + k + (n - k) - 1 THEN NUL ELSE c[p]]
  BY <1>3, <1>4 DEF strncpy, memset, Returned
<1>6. /\ c \in Memories /\ DOMAIN c = DOMAIN m
      /\ \A p \in Int : p \notin d .. d + k - 1 => At(c, p) = At(m, p)
      /\ \A i \in 0 .. k - 1 : d + i \in DOMAIN m => At(c, d + i) = At(m, s + i)
  <2>1. c \in Memories /\ DOMAIN c = DOMAIN m
    BY <1>1, CopyLeaves
  <2>2. \A p \in Int : p \notin d .. d + k - 1 => At(c, p) = At(m, p)
    BY <1>1, CopyLeaves
  <2>3. \A i \in 0 .. k - 1 : d + i \in DOMAIN m => At(c, d + i) = At(m, s + i)
    BY <1>1, CopyLeaves, SMTT(20)
  <2> QED
    BY <2>1, <2>2, <2>3
<1>7. \A i \in 0 .. n - 1 : d + i \in DOMAIN m
  BY ValidBytes
<1> HIDE DEF c, r
<1>8. r \in Memories /\ DOMAIN r = DOMAIN m
  <2>1. NUL \in Int
    BY DEF NUL
  <2>2. c \in [1 .. Len(c) -> Int] /\ Len(c) \in Nat /\ DOMAIN c = 1 .. Len(c)
    BY <1>6 DEF Memories
  <2>3. \A p \in 1 .. Len(c) : r[p] \in Int
    BY <1>5, <2>1, <2>2
  <2>4. r = [p \in 1 .. Len(c) |-> r[p]]
    BY <1>5, <2>2
  <2>5. r \in Memories
    BY <2>2, <2>3, <2>4 DEF Memories
  <2> QED
    BY <1>5, <1>6, <2>5
<1>9. ASSUME NEW p \in Int, p \notin d + k .. d + n - 1 PROVE At(r, p) = At(c, p)
  <2>1. p \notin d + k .. d + k + (n - k) - 1
    BY <1>1, <1>9
  <2> QED
    BY <1>5, <1>6, <1>8, <2>1 DEF At
<1>10. ASSUME NEW p \in Int, p \notin d .. d + n - 1 PROVE At(r, p) = At(m, p)
  <2>1. p \notin d + k .. d + n - 1 /\ p \notin d .. d + k - 1
    BY <1>1, <1>10
  <2> QED
    BY <1>6, <1>9, <2>1
<1>11. ASSUME NEW i \in 0 .. k - 1 PROVE At(r, d + i) = At(m, s + i)
  <2>1. d + i \in Int /\ d + i \notin d + k .. d + n - 1 /\ i \in 0 .. n - 1
    BY <1>1
  <2> QED
    BY <1>6, <1>7, <1>9, <2>1
<1>12. ASSUME NEW i \in k .. n - 1 PROVE At(r, d + i) = NUL
  <2>1. d + i \in d + k .. d + k + (n - k) - 1 /\ i \in 0 .. n - 1
    BY <1>1
  <2>2. d + i \in DOMAIN m
    BY <1>7, <2>1
  <2> QED
    BY <1>5, <1>6, <1>8, <2>1, <2>2 DEF At
<1> QED
  BY <1>5, <1>8, <1>10, <1>11, <1>12 DEF r

(* strncpy leaves all bytes written. *)
LEMMA CleanStrncpy ==
  ASSUME NEW m \in Memories, NEW d \in Int, NEW s \in Int, NEW n \in Nat, NEW k,
         NStringOf(m, s, n, k), valid(m, d, n), s >= d \/ s + n <= d, Clean(m)
  PROVE  Clean(strncpy(m, d, s, n).mem)
<1> DEFINE r == strncpy(m, d, s, n).mem
<1>1. \A p \in Int : p \notin d .. d + n - 1 => At(r, p) = At(m, p)
  BY strncpyIs
<1>2. \A i \in 0 .. k - 1 : At(r, d + i) = At(m, s + i)
  BY strncpyIs
<1>3. \A i \in k .. n - 1 : At(r, d + i) = NUL
  BY strncpyIs
<1>4. k \in 0 .. n
  BY DEF NStringOf
<1> HIDE DEF r
<1>5. ASSUME NEW p \in Int PROVE At(r, p) # Uninit
  <2>1. CASE p \notin d .. d + n - 1
    BY <1>1, <2>1 DEF Clean
  <2>2. CASE p - d \in 0 .. k - 1
    <3>1. d + (p - d) = p /\ s + (p - d) \in Int
      OBVIOUS
    <3>2. At(r, p) = At(m, s + (p - d))
      BY <1>2, <2>2, <3>1
    <3> QED
      BY <3>1, <3>2 DEF Clean
  <2>3. CASE p - d \in k .. n - 1
    <3>1. d + (p - d) = p
      OBVIOUS
    <3> QED
      BY <1>3, <2>3, <3>1 DEF NUL, Uninit
  <2> QED
    BY <1>4, <2>1, <2>2, <2>3
<1> QED
  BY <1>5 DEF Clean, r

(* strncpy leaves n bytes, those of the string first, then zeros. *)
LEMMA strncpy_meets ==
  ASSUME NEW m \in Memories, Clean(m), NEW d \in Int, NEW s \in Int, NEW n \in Nat
  PROVE  strncpy_contract(m, d, s, n)
<1> DEFINE r == strncpy(m, d, s, n)
           l == logic_strlen(m, s)
           k == logic_strnlen(m, s, n)
<1> SUFFICES ASSUME strncpy_requires(m, d, s, n)
             PROVE  /\ Assigns(m, r, d .. d + n - 1) /\ r.ret = d
                    /\ initialized(r.mem, d .. d + n - 1)
                    /\ l \in 0 .. n - 1 => SameStrings(r.mem, d, r.mem, s)
                    /\ l \notin 0 .. n - 1 => SameBytes(r.mem, d, r.mem, s, n)
  BY DEF strncpy_contract
<1>1. NStringOf(m, s, n, k)
  BY NString DEF strncpy_requires
<1>2. valid(m, d, n) /\ (n = 0 \/ d + n <= s \/ s + n <= d)
  BY DEF strncpy_requires, separated
<1>3. s >= d \/ s + n <= d
  BY <1>2
<1>4. r.ret = d /\ r.mem \in Memories /\ DOMAIN r.mem = DOMAIN m
  BY <1>1, <1>2, <1>3, strncpyIs
<1>5. \A p \in Int : p \notin d .. d + n - 1 => At(r.mem, p) = At(m, p)
  BY <1>1, <1>2, <1>3, strncpyIs
<1>6. \A i \in 0 .. k - 1 : At(r.mem, d + i) = At(m, s + i)
  BY <1>1, <1>2, <1>3, strncpyIs
<1>7. \A i \in k .. n - 1 : At(r.mem, d + i) = NUL
  BY <1>1, <1>2, <1>3, strncpyIs
<1>8. k = IF l \in 0 .. n THEN l ELSE n
  BY DEF logic_strnlen
<1>a. k \in 0 .. n /\ (k = n \/ At(m, s + k) = NUL) /\ \A j \in 0 .. k - 1 : At(m, s + j) \notin {NUL, Outside}
  BY <1>1 DEF NStringOf
<1> HIDE DEF r, k, l
<1>9. Assigns(m, r, d .. d + n - 1)
  <2>1. ASSUME NEW p \in DOMAIN m, p \notin d .. d + n - 1 PROVE r.mem[p] = m[p]
    <3>1. p \in Int
      BY DEF Memories
    <3> QED
      BY <1>4, <1>5, <2>1, <3>1 DEF At
  <2> QED
    BY <1>4, <2>1 DEF Assigns
<1>10. initialized(r.mem, d .. d + n - 1)
  <2>1. \A p \in d .. d + n - 1 : p \in Int
    OBVIOUS
  <2>2. Clean(r.mem)
    BY <1>1, <1>2, <1>3, CleanStrncpy DEF r
  <2> QED
    BY <2>1, <2>2 DEF initialized, Clean
<1>11. \A i \in 0 .. n - 1 : At(r.mem, s + i) = At(m, s + i)
  <2>1. \A i \in 0 .. n - 1 : s + i \in Int /\ s + i \notin d .. d + n - 1
    BY <1>2
  <2> QED
    BY <1>5, <2>1
<1>12. ASSUME l \in 0 .. n - 1 PROVE SameStrings(r.mem, d, r.mem, s)
  <2>1. k = l /\ l \in Nat /\ k \in 0 .. n - 1 /\ k \in k .. n - 1
    BY <1>8, <1>12
  <2>2. At(r.mem, d + l) = NUL /\ At(r.mem, s + l) = NUL
    BY <1>7, <1>11, <1>a, <2>1
  <2>3. \A j \in 0 .. l - 1 : At(r.mem, d + j) = At(m, s + j) /\ At(r.mem, s + j) = At(m, s + j)
    BY <1>6, <1>11, <2>1
  <2>4. StringOf(r.mem, d, l) /\ StringOf(r.mem, s, l)
    BY <1>a, <2>1, <2>2, <2>3 DEF StringOf
  <2>5. logic_strlen(r.mem, d) = l /\ logic_strlen(r.mem, s) = l
    BY <1>4, <2>1, <2>4, StringIsValid
  <2>6. \A j \in 0 .. l + 1 - 1 : At(r.mem, d + j) = At(r.mem, s + j)
    BY <2>1, <2>2, <2>3
  <2>7. SameBytes(r.mem, d, r.mem, s, l + 1)
    BY <2>1, <2>6 DEF SameBytes
  <2> QED
    BY <2>5, <2>7 DEF SameStrings
<1>13. ASSUME l \notin 0 .. n - 1 PROVE SameBytes(r.mem, d, r.mem, s, n)
  <2>1. k = n
    BY <1>8, <1>13
  <2> QED
    BY <1>6, <1>11, <2>1 DEF SameBytes
<1> QED
  BY <1>4, <1>9, <1>10, <1>12, <1>13

-----------------------------------------------------------------------------
(* On every memory of written bytes, whatever its blocks, each function of *)
(* string.c does what its contract in string.h requires and ensures: for   *)
(* all pointers to a byte, all characters and all counts up to the size of *)
(* the memory.                                                             *)
THEOREM StringContracts == \A m \in Memories : Clean(m) => MeetsContracts(m)
<1> SUFFICES ASSUME NEW m \in Memories, Clean(m), NEW s \in DOMAIN m
             PROVE  /\ strlen_contract(m, s) /\ strdup_contract(m, s)
                    /\ \A c \in {m[p] : p \in DOMAIN m} \ {Outside} :
                         strchr_contract(m, s, c) /\ strrchr_contract(m, s, c) /\ rawmemchr_contract(m, s, c)
                    /\ \A n \in 0 .. Len(m) + 1 :
                         /\ strnlen_contract(m, s, n) /\ strndup_contract(m, s, n)
                         /\ \A c \in {m[p] : p \in DOMAIN m} \ {Outside} :
                              memchr_contract(m, s, c, n) /\ memrchr_contract(m, s, c, n) /\ memset_contract(m, s, c, n)
                    /\ \A d \in DOMAIN m :
                         /\ strcmp_contract(m, d, s) /\ strstr_contract(m, d, s)
                         /\ strcpy_contract(m, d, s) /\ stpcpy_contract(m, d, s) /\ strcat_contract(m, d, s)
                         /\ \A n \in 0 .. Len(m) + 1 :
                              /\ memcmp_contract(m, d, s, n) /\ strncmp_contract(m, d, s, n)
                              /\ memcpy_contract(m, d, s, n) /\ mempcpy_contract(m, d, s, n)
                              /\ memoverlap_contract(d, s, n) /\ memmove_contract(m, d, s, n)
                              /\ strncpy_contract(m, d, s, n)
                              /\ strncat_contract(m, d, s, n)
  BY DEF MeetsContracts
<1>1. DOMAIN m \subseteq Int /\ s \in Int
  BY DEF Memories
<1>2. 0 .. Len(m) + 1 \subseteq Nat
  BY DEF Memories
<1>3. strlen_contract(m, s) /\ strdup_contract(m, s)
  BY <1>1, strlen_meets, strdup_meets
<1>4. \A c \in {m[p] : p \in DOMAIN m} \ {Outside} :
        strchr_contract(m, s, c) /\ strrchr_contract(m, s, c) /\ rawmemchr_contract(m, s, c)
  BY strchr_meets, strrchr_meets, rawmemchr_meets
<1>5. \A n \in Nat : \A c :
        memchr_contract(m, s, c, n) /\ memrchr_contract(m, s, c, n) /\ memset_contract(m, s, c, n)
  BY memchr_meets, memrchr_meets, memset_meets
<1>6. \A n \in Nat : strnlen_contract(m, s, n) /\ strndup_contract(m, s, n)
  BY <1>1, strnlen_meets, strndup_meets
<1>7. \A d \in DOMAIN m :
        /\ strcmp_contract(m, d, s) /\ strstr_contract(m, d, s)
        /\ strcpy_contract(m, d, s) /\ stpcpy_contract(m, d, s) /\ strcat_contract(m, d, s)
  BY <1>1, strcmp_meets, strstr_meets, strcpy_meets, strcat_meets
<1>8. \A d \in DOMAIN m, n \in Nat :
        /\ memcmp_contract(m, d, s, n) /\ strncmp_contract(m, d, s, n)
        /\ memcpy_contract(m, d, s, n) /\ mempcpy_contract(m, d, s, n)
  BY <1>1, memcmp_meets, strncmp_meets, memcpy_meets
<1>9. \A d \in DOMAIN m, n \in Nat :
        /\ memoverlap_contract(d, s, n) /\ memmove_contract(m, d, s, n)
        /\ strncpy_contract(m, d, s, n)
        /\ strncat_contract(m, d, s, n)
  BY <1>1, memoverlap_meets, memmove_meets, strncpy_meets, strncat_meets
<1> QED
  BY <1>2, <1>3, <1>4, <1>5, <1>6, <1>7, <1>8, <1>9

-----------------------------------------------------------------------------
(* The builtins. *)

(* The read-only bytes of a block are all of it or none. *)
BlockWise(m, ro) ==
  \A p, q \in DOMAIN m : p <= q /\ (\A i \in p .. q : At(m, i) # Outside) => (p \in ro <=> q \in ro)

Pointers(m) == 0 .. Len(m) + 1

(* The room at p is bytes of one block. *)
LEMMA RoomIs ==
  ASSUME NEW m \in Memories, NEW p \in Pointers(m)
  PROVE  Room(m, p) \in Nat /\ \A j \in 0 .. Room(m, p) - 1 : At(m, p + j) # Outside
<1> DEFINE n == Len(m) + 1 - p
           S == {i \in Int : At(m, p + i) = Outside}
<1>0. n \in Nat
  BY DEF Memories, Pointers
<1> HIDE DEF n
<1>1. PICK k \in 0 .. n : (k = n \/ k \in S) /\ \A j \in 0 .. k - 1 : j \notin S
  BY <1>0, FirstExists
<1>2. \E x \in 0 .. n : (x = n \/ At(m, p + x) = Outside) /\ \A j \in 0 .. x - 1 : ~(At(m, p + j) = Outside)
  BY <1>0, <1>1
<1>3. Room(m, p) \in 0 .. n /\ \A j \in 0 .. Room(m, p) - 1 : ~(At(m, p + j) = Outside)
  BY <1>2 DEF Room, FirstStop, n
<1> QED
  BY <1>0, <1>3

(* As many bytes as there is room for are valid. *)
LEMMA RoomIsValid ==
  ASSUME NEW m \in Memories, NEW p \in Pointers(m), NEW size \in Nat, size <= Room(m, p)
  PROVE  valid(m, p, size)
  BY RoomIs DEF valid

(* validate_allocated_space lets valid bytes through. *)
LEMMA AllocatedIsValid ==
  ASSUME NEW m \in Memories, NEW p \in Pointers(m), NEW size \in Nat, allocated(m, p, size)
  PROVE  valid(m, p, size)
  BY RoomIsValid DEF allocated

(* From a byte that may be written to the end of its block, the bytes are  *)
(* the program's to write.                                                 *)
LEMMA Writeable ==
  ASSUME NEW m \in Memories, NEW ro, BlockWise(m, ro), NEW p \in Int, NEW size \in Nat,
         valid(m, p, size), p \notin ro
  PROVE  p .. p + size - 1 \subseteq {q \in DOMAIN m \ ro : m[q] # Outside}
<1> SUFFICES ASSUME NEW q \in p .. p + size - 1
             PROVE  q \in DOMAIN m /\ q \notin ro /\ m[q] # Outside
  OBVIOUS
<1>1. \A i \in p .. q : i \in DOMAIN m /\ At(m, i) # Outside /\ m[i] = At(m, i)
  <2> SUFFICES ASSUME NEW i \in p .. q
               PROVE  i \in DOMAIN m /\ At(m, i) # Outside /\ m[i] = At(m, i)
    OBVIOUS
  <2>1. i - p \in 0 .. size - 1 /\ p + (i - p) = i
    OBVIOUS
  <2> QED
    BY <2>1, ValidBytes
<1>2. p \in p .. q /\ q \in p .. q /\ p <= q
  OBVIOUS
<1>3. p \in ro <=> q \in ro
  BY <1>1, <1>2 DEF BlockWise
<1> QED
  BY <1>1, <1>2, <1>3

(* What the test of a string finds. *)
LEMMA ValidatedString ==
  ASSUME NEW m \in Memories, NEW ro, NEW s \in Pointers(m), NEW w \in BOOLEAN,
         valid_nstring(m, ro, s, -1, w) >= 0
  PROVE  /\ valid_nstring(m, ro, s, -1, w) \in Nat
         /\ StringOf(m, s, valid_nstring(m, ro, s, -1, w))
         /\ w => s \notin ro
<1> DEFINE size == Room(m, s)
           v == valid_nstring(m, ro, s, -1, w)
           S == {k \in Int : At(m, s + k) = NUL \/ k = -1}
           i == FirstStop(size, LAMBDA k : At(m, s + k) = NUL \/ k = -1)
<1>1. size \in Nat /\ \A j \in 0 .. size - 1 : At(m, s + j) # Outside
  BY RoomIs
<1>2. PICK k \in 0 .. size : (k = size \/ k \in S) /\ \A j \in 0 .. k - 1 : j \notin S
  <2> HIDE DEF size
  <2> QED
    BY <1>1, FirstExists
<1>3. \E x \in 0 .. size : /\ x = size \/ (At(m, s + x) = NUL \/ x = -1)
                           /\ \A j \in 0 .. x - 1 : ~(At(m, s + j) = NUL \/ j = -1)
  <2> HIDE DEF size
  <2> QED
    BY <1>1, <1>2
<1>4. /\ i \in 0 .. size
      /\ i = size \/ (At(m, s + i) = NUL \/ i = -1)
      /\ \A j \in 0 .. i - 1 : ~(At(m, s + j) = NUL \/ j = -1)
  BY <1>3 DEF FirstStop
<1>5. v = IF ~allocated(m, s, 1) THEN -1
          ELSE IF w /\ s \in ro THEN -2
          ELSE IF i < size THEN i
          ELSE IF -1 = size THEN -1
          ELSE IF -1 > size THEN -3 ELSE -4
  BY DEF valid_nstring
<1> HIDE DEF i, size, v
<1>6. v >= 0
  BY DEF v
<1>7. v = i /\ i < size /\ ~(w /\ s \in ro)
  BY <1>1, <1>5, <1>6
<1>8. StringOf(m, s, i) /\ i \in Nat
  <2>1. i \in Nat /\ At(m, s + i) = NUL
    BY <1>1, <1>4, <1>7
  <2>2. \A j \in 0 .. i - 1 : At(m, s + j) \notin {NUL, Outside}
    BY <1>1, <1>4, <1>7
  <2> QED
    BY <2>1, <2>2 DEF StringOf
<1> QED
  BY <1>7, <1>8 DEF v

(* validate_allocated_nstring returns where a readable string stops. *)
LEMMA ValidatedNString ==
  ASSUME NEW m \in Memories, Clean(m), NEW s \in Pointers(m), NEW n \in Nat,
         validate_allocated_string(m, s, n) >= 0
  PROVE  /\ NStringOf(m, s, n, validate_allocated_string(m, s, n))
         /\ valid_read_nstring(m, s, n)
         /\ logic_strnlen(m, s, n) = validate_allocated_string(m, s, n)
<1> DEFINE size == Room(m, s)
           v == validate_allocated_string(m, s, n)
           S == {k \in Int : At(m, s + k) = NUL \/ k = n}
           i == FirstStop(size, LAMBDA k : At(m, s + k) = NUL \/ k = n)
<1>0. s \in Int
  BY DEF Pointers
<1>1. size \in Nat /\ \A j \in 0 .. size - 1 : At(m, s + j) # Outside
  BY RoomIs
<1>2. PICK k \in 0 .. size : (k = size \/ k \in S) /\ \A j \in 0 .. k - 1 : j \notin S
  <2> HIDE DEF size
  <2> QED
    BY <1>1, FirstExists
<1>3. \E x \in 0 .. size : /\ x = size \/ (At(m, s + x) = NUL \/ x = n)
                           /\ \A j \in 0 .. x - 1 : ~(At(m, s + j) = NUL \/ j = n)
  <2> HIDE DEF size
  <2> QED
    BY <1>1, <1>2
<1>4. /\ i \in 0 .. size
      /\ i = size \/ (At(m, s + i) = NUL \/ i = n)
      /\ \A j \in 0 .. i - 1 : ~(At(m, s + j) = NUL \/ j = n)
  BY <1>3 DEF FirstStop
<1>5. v = IF n = 0 THEN 0
          ELSE IF ~allocated(m, s, 1) THEN -1
          ELSE IF FALSE /\ s \in {} THEN -2
          ELSE IF i < size THEN i
          ELSE IF n = size THEN n
          ELSE IF n > size THEN -3 ELSE -4
  BY DEF valid_nstring, validate_allocated_string
<1> HIDE DEF i, size, v
<1>6. v >= 0
  BY DEF v
<1>7. NStringOf(m, s, n, v)
  <2>1. CASE n = 0
    BY <1>5, <2>1 DEF NStringOf
  <2>2. CASE n # 0 /\ i < size
    <3>1. v = i
      BY <1>5, <1>6, <2>2
    <3>2. i \in 0 .. n
      BY <1>1, <1>4
    <3>3. \A j \in 0 .. i - 1 : At(m, s + j) \notin {NUL, Outside}
      BY <1>1, <1>4, <2>2
    <3> QED
      BY <1>4, <2>2, <3>1, <3>2, <3>3 DEF NStringOf
  <2>3. CASE n # 0 /\ ~(i < size)
    <3>1. v = n /\ n = size /\ i = size
      BY <1>1, <1>4, <1>5, <1>6, <2>3
    <3>2. \A j \in 0 .. n - 1 : At(m, s + j) \notin {NUL, Outside}
      BY <1>1, <1>4, <3>1
    <3> QED
      BY <3>1, <3>2 DEF NStringOf
  <2> QED
    BY <2>1, <2>2, <2>3
<1>8. valid_read_nstring(m, s, n)
  <2>1. v \in 0 .. n /\ \A j \in 0 .. v - 1 : At(m, s + j) \notin {NUL, Outside}
    BY <1>7 DEF NStringOf
  <2>2. CASE v = n
    <3>1. valid(m, s, n)
      BY <2>1, <2>2 DEF valid
    <3>2. \A p \in s .. s + n - 1 : p \in Int
      BY <1>0
    <3>3. initialized(m, s .. s + n - 1)
      BY <3>2 DEF initialized, Clean
    <3> QED
      BY <3>1, <3>3 DEF valid_read_nstring
  <2>3. CASE v # n
    <3>1. StringOf(m, s, v)
      BY <1>7, <2>3 DEF NStringOf, StringOf
    <3>2. valid_string(m, s)
      BY <1>0, <2>1, <3>1, StringIsValid
    <3> QED
      BY <3>2 DEF valid_read_nstring
  <2> QED
    BY <2>2, <2>3
<1>9. logic_strnlen(m, s, n) = v
  <2> DEFINE x == logic_strnlen(m, s, n)
  <2>1. NStringOf(m, s, n, x)
    BY <1>0, <1>8, NString
  <2> HIDE DEF x
  <2>2. x \in 0 .. n /\ (x = n \/ At(m, s + x) \in {NUL, Outside})
        /\ \A j \in 0 .. x - 1 : At(m, s + j) \notin {NUL, Outside}
    BY <2>1 DEF NStringOf
  <2>3. x = v
    BY <1>0, <1>7, <2>2, NStringUnique
  <2> QED
    BY <2>3 DEF x
<1> QED
  BY <1>7, <1>8, <1>9 DEF v

(* What a builtin marks is the program's to write, and written. *)
LEMMA MarkedIs ==
  ASSUME NEW m \in Memories, NEW ro, BlockWise(m, ro), NEW p \in Int, NEW a \in Nat, NEW size \in Nat,
         valid(m, p, a + size), p \notin ro, NEW r, Clean(r.mem),
         NEW acc, Assigns(m, r, p + a .. p + a + size - 1)
  PROVE  Marked(Builtin(acc, p + a, size), m, ro, r)
<1>1. p .. p + (a + size) - 1 \subseteq {q \in DOMAIN m \ ro : m[q] # Outside}
  BY Writeable
<1>2. p + a .. p + a + size - 1 \subseteq p .. p + (a + size) - 1
  OBVIOUS
<1>3. \A q \in p + a .. p + a + size - 1 : q \in Int
  OBVIOUS
<1>4. initialized(r.mem, p + a .. p + a + size - 1)
  BY <1>3 DEF initialized, Clean
<1>5. Builtin(acc, p + a, size).initializes = p + a .. p + a + size - 1
  BY DEF Builtin
<1> QED
  BY <1>1, <1>2, <1>4, <1>5 DEF Marked

(* The builtins of the functions that take strings. *)
LEMMA StringBuiltinsSound ==
  ASSUME NEW m \in Memories, Clean(m), NEW ro, BlockWise(m, ro), NEW d \in Pointers(m), NEW s \in Pointers(m)
  PROVE  LetsThrough(m, ro, d, s)
<1>0. d \in Int /\ s \in Int
  BY DEF Pointers
<1>1. ASSUME NEW p \in Pointers(m), validate_allocated_string(m, p, -1) >= 0
      PROVE  /\ validate_allocated_string(m, p, -1) \in Nat
             /\ StringOf(m, p, validate_allocated_string(m, p, -1))
             /\ valid_string(m, p) /\ logic_strlen(m, p) = validate_allocated_string(m, p, -1)
             /\ p \in DOMAIN m
  <2> DEFINE l == validate_allocated_string(m, p, -1)
  <2>1. l \in Nat /\ StringOf(m, p, l)
    BY <1>1, ValidatedString DEF validate_allocated_string
  <2> HIDE DEF l
  <2>2. p \in Int
    BY DEF Pointers
  <2>3. valid_string(m, p) /\ logic_strlen(m, p) = l
    BY <2>1, <2>2, StringIsValid
  <2>4. p + 0 \in 1 .. Len(m)
    <3>1. \A i \in 0 .. l : p + i \in 1 .. Len(m)
      BY <2>1, <2>2, StringBytes
    <3>2. 0 \in 0 .. l
      BY <2>1
    <3> QED
      BY <3>1, <3>2
  <2>5. p \in DOMAIN m
    BY <2>2, <2>4 DEF Memories
  <2> QED
    BY <2>1, <2>3, <2>5 DEF l
<1>2. eacsl_builtin_strlen(m, s).accepts => valid_string(m, s)
  BY <1>1 DEF eacsl_builtin_strlen, Query, Builtin
<1>3. eacsl_builtin_strcmp(m, d, s).accepts => valid_string(m, d) /\ valid_string(m, s)
  BY <1>1 DEF eacsl_builtin_strcmp, Query, Builtin
<1>4. ASSUME eacsl_builtin_strcpy(m, ro, d, s).accepts
      PROVE  strcpy_requires(m, d, s) /\ Marked(eacsl_builtin_strcpy(m, ro, d, s), m, ro, strcpy(m, d, s))
  <2> DEFINE l == validate_allocated_string(m, s, -1)
             T == Terminated(m, d, s, l)
             acc == eacsl_builtin_strcpy(m, ro, d, s).accepts
  <2>1. l >= 0 /\ writeable(m, ro, d, l + 1) /\ disjoint_spaces(d, l + 1, s, l + 1)
    BY <1>4 DEF eacsl_builtin_strcpy, Builtin
  <2>2. l \in Nat /\ StringOf(m, s, l) /\ valid_string(m, s) /\ logic_strlen(m, s) = l /\ s \in DOMAIN m
    BY <1>1, <2>1
  <2>3. eacsl_builtin_strcpy(m, ro, d, s) = Builtin(acc, d, l + 1)
    BY DEF eacsl_builtin_strcpy, Builtin
  <2> HIDE DEF l, acc
  <2>4. l + 1 \in Nat /\ valid(m, d, l + 1) /\ d \notin ro
    BY <2>1, <2>2, AllocatedIsValid DEF writeable
  <2>5. strcpy_requires(m, d, s)
    BY <2>1, <2>2, <2>4 DEF strcpy_requires, disjoint_spaces, separated
  <2>6. s >= d \/ s + l < d
    BY <1>0, <2>1, <2>2 DEF disjoint_spaces
  <2>7. strcpy(m, d, s) = Returned(T, d)
    BY <1>0, <2>2, <2>6, stpcpyIs DEF strcpy, Returned
  <2>8. Clean(T)
    <3>1. s >= d \/ s + l <= d
      BY <1>0, <2>2, <2>6
    <3> QED
      BY <1>0, <2>2, <2>4, <3>1, CleanTerminated
  <2>9. Assigns(m, strcpy(m, d, s), d .. d + l)
    BY <1>0, <2>2, <2>5, strcpy_meets DEF strcpy_contract
  <2>10. Clean(strcpy(m, d, s).mem)
    BY <2>7, <2>8 DEF Returned
  <2>11. /\ valid(m, d, 0 + (l + 1)) /\ Assigns(m, strcpy(m, d, s), d + 0 .. d + 0 + (l + 1) - 1)
         /\ d + 0 = d
    <3>1. 0 + (l + 1) = l + 1 /\ d + 0 = d /\ d + 0 + (l + 1) - 1 = d + l
      BY <1>0, <2>2
    <3> QED
      BY <2>4, <2>9, <3>1
  <2> HIDE DEF T
  <2>12. Marked(Builtin(acc, d + 0, l + 1), m, ro, strcpy(m, d, s))
    BY <1>0, <2>4, <2>10, <2>11, MarkedIs
  <2> QED
    BY <2>3, <2>5, <2>11, <2>12
<1>5. ASSUME eacsl_builtin_strcat(m, ro, d, s).accepts
      PROVE  /\ Marked(eacsl_builtin_strcat(m, ro, d, s), m, ro, strcat(m, d, s))
             /\ Concatenates(m, d, s, logic_strlen(m, s), strcat(m, d, s))
  <2> DEFINE l == validate_allocated_string(m, s, -1)
             ld == validate_writeable_string(m, ro, d, -1)
             T == Terminated(m, d + ld, s, l)
             acc == eacsl_builtin_strcat(m, ro, d, s).accepts
  <2>1. l >= 0 /\ ld >= 0 /\ Room(m, d) >= l + ld + 1 /\ disjoint_spaces(s, l + 1, d, ld + 1)
    BY <1>5 DEF eacsl_builtin_strcat, Builtin
  <2>2. l \in Nat /\ StringOf(m, s, l) /\ valid_string(m, s) /\ logic_strlen(m, s) = l /\ s \in DOMAIN m
    BY <1>1, <2>1
  <2>3. ld \in Nat /\ StringOf(m, d, ld) /\ d \notin ro
    BY <2>1, ValidatedString DEF validate_writeable_string
  <2>4. eacsl_builtin_strcat(m, ro, d, s) = Builtin(acc, d + ld, l + 1)
    BY DEF eacsl_builtin_strcat, Builtin
  <2> HIDE DEF l, ld, acc
  <2>5. logic_strlen(m, d) = ld
    BY <1>0, <2>3, StringIsValid
  <2>6. valid(m, d, ld + (l + 1))
    <3>1. Room(m, d) \in Nat
      BY RoomIs
    <3>2. ld + (l + 1) \in Nat /\ ld + (l + 1) <= Room(m, d)
      BY <2>1, <2>2, <2>3, <3>1
    <3> QED
      BY <3>2, RoomIsValid
  <2>7. d + ld \in Int /\ l + 1 \in Nat /\ valid(m, d + ld, l + 1)
    <3>1. d + ld \in Int /\ l + 1 \in Nat
      BY <1>0, <2>2, <2>3
    <3>2. valid(m, d + ld, l + 1)
      BY <1>0, <2>3, <2>6, <3>1, ValidTail
    <3> QED
      BY <3>1, <3>2
  <2>8. (s >= d + ld \/ s + l < d + ld) /\ (s >= d + ld \/ s + l <= d + ld)
    BY <1>0, <2>1, <2>2, <2>3 DEF disjoint_spaces
  <2>9. strcat(m, d, s) = Returned(T, d)
    BY <1>0, <2>2, <2>3, <2>8, strcatIs
  <2>10. Characters(m, s, l)
    BY <2>2 DEF StringOf, Characters
  <2>11. Clean(T)
    BY <1>0, <2>2, <2>7, <2>8, CleanTerminated
  <2>12. Assigns(m, Returned(T, d), d + ld .. d + ld + l) /\ SameBytes(T, d + ld, m, s, l)
    BY <1>0, <2>2, <2>7, <2>8, <2>10, StringPut
  <2>13. logic_strlen(T, d) = ld + l /\ SameBytes(T, d, m, d, ld)
    <3>1. /\ l \in Nat /\ ld \in Nat /\ StringOf(m, d, ld) /\ (s >= d + ld \/ s + l <= d + ld)
          /\ valid(m, d + ld, l + 1)
      BY <2>2, <2>3, <2>7, <2>8
    <3>2. ASSUME NEW e \in Int, e = d + ld
          PROVE  /\ logic_strlen(Terminated(m, e, s, l), d) = ld + l
                 /\ SameBytes(Terminated(m, e, s, l), d, m, d, ld)
      <4>1. (s >= e \/ s + l <= e) /\ valid(m, e, l + 1)
        BY <3>1, <3>2
      <4> QED
        BY <1>0, <2>10, <3>1, <3>2, <4>1, StringAppended
    <3> QED
      BY <2>7, <3>2
  <2> HIDE DEF T
  <2>14. Assigns(m, Returned(T, d), d + ld .. d + ld + (l + 1) - 1)
    <3>1. d + ld + (l + 1) - 1 = d + ld + l
      BY <2>2, <2>7
    <3> QED
      BY <2>12, <3>1
  <2>15. Returned(T, d).mem = T
    BY DEF Returned
  <2>16. Marked(Builtin(acc, d + ld, l + 1), m, ro, Returned(T, d))
    BY <1>0, <2>3, <2>6, <2>7, <2>11, <2>14, <2>15, MarkedIs
  <2>17. Concatenates(m, d, s, l, Returned(T, d))
    BY <2>5, <2>12, <2>13, <2>15 DEF Concatenates
  <2> QED
    BY <2>2, <2>4, <2>9, <2>16, <2>17
<1> QED
  BY <1>2, <1>3, <1>4, <1>5 DEF LetsThrough

(* The builtins of the functions that take a number of bytes. *)
LEMMA ByteBuiltinsSound ==
  ASSUME NEW m \in Memories, Clean(m), NEW ro, BlockWise(m, ro), NEW d \in Pointers(m), NEW s \in Pointers(m),
         NEW n \in Nat
  PROVE  LetsThroughBytes(m, ro, d, s, n)
<1>0. d \in Int /\ s \in Int
  BY DEF Pointers
<1>1. eacsl_builtin_strncmp(m, d, s, n).accepts => valid_read_nstring(m, d, n) /\ valid_read_nstring(m, s, n)
  BY ValidatedNString DEF eacsl_builtin_strncmp, Query, Builtin
<1>2. eacsl_builtin_memcmp(m, d, s, n).accepts => valid(m, d, n) /\ valid(m, s, n)
  BY AllocatedIsValid DEF eacsl_builtin_memcmp, Query, Builtin
<1>a. ASSUME NEW p \in Pointers(m), writeable(m, ro, p, n) PROVE valid(m, p, n) /\ p \notin ro /\ p \in Int
  BY <1>a, AllocatedIsValid DEF writeable, Pointers
(* the builtins that mark n bytes from p on *)
<1>b. ASSUME NEW p \in Int, valid(m, p, n), p \notin ro,
             NEW r, Clean(r.mem), Assigns(m, r, p .. p + n - 1), NEW acc
      PROVE  Marked(Builtin(acc, p, n), m, ro, r)
  <2>1. p + 0 = p /\ 0 + n = n
    OBVIOUS
  <2>2. Assigns(m, r, p + 0 .. p + 0 + n - 1) /\ valid(m, p, 0 + n)
    BY <1>b, <2>1
  <2>3. Marked(Builtin(acc, p + 0, n), m, ro, r)
    BY <1>b, <2>2, MarkedIs
  <2> QED
    BY <2>1, <2>3
<1>3. ASSUME eacsl_builtin_strncpy(m, ro, d, s, n).accepts
      PROVE  /\ strncpy_requires(m, d, s, n)
             /\ Marked(eacsl_builtin_strncpy(m, ro, d, s, n), m, ro, strncpy(m, d, s, n))
  <2> DEFINE acc == eacsl_builtin_strncpy(m, ro, d, s, n).accepts
             k == validate_allocated_string(m, s, n)
  <2>1. k >= 0 /\ writeable(m, ro, d, n) /\ disjoint_spaces(d, n, s, n)
    BY <1>3 DEF eacsl_builtin_strncpy, Builtin
  <2>2. eacsl_builtin_strncpy(m, ro, d, s, n) = Builtin(acc, d, n)
    BY DEF eacsl_builtin_strncpy, Builtin
  <2>3. NStringOf(m, s, n, k) /\ valid_read_nstring(m, s, n)
    BY <2>1, ValidatedNString
  <2> HIDE DEF acc, k
  <2>4. valid(m, d, n) /\ d \notin ro
    BY <1>a, <2>1
  <2>5. strncpy_requires(m, d, s, n)
    BY <2>1, <2>3, <2>4 DEF strncpy_requires, disjoint_spaces, separated
  <2>6. s >= d \/ s + n <= d
    BY <1>0, <2>1 DEF disjoint_spaces
  <2>7. Clean(strncpy(m, d, s, n).mem)
    BY <1>0, <2>3, <2>4, <2>6, CleanStrncpy
  <2>8. Assigns(m, strncpy(m, d, s, n), d .. d + n - 1)
    BY <1>0, <2>5, strncpy_meets DEF strncpy_contract
  <2>9. Marked(Builtin(acc, d, n), m, ro, strncpy(m, d, s, n))
    BY <1>0, <1>b, <2>4, <2>7, <2>8
  <2> QED
    BY <2>2, <2>5, <2>9
<1>4. ASSUME eacsl_builtin_strncat(m, ro, d, s, n).accepts
      PROVE  /\ Marked(eacsl_builtin_strncat(m, ro, d, s, n), m, ro, strncat(m, d, s, n))
             /\ Concatenates(m, d, s, logic_strnlen(m, s, n), strncat(m, d, s, n))
  <2> DEFINE k == validate_allocated_string(m, s, n)
             ld == validate_writeable_string(m, ro, d, -1)
             T == Terminated(m, d + ld, s, k)
             acc == eacsl_builtin_strncat(m, ro, d, s, n).accepts
  <2>1. k >= 0 /\ ld >= 0 /\ Room(m, d) >= n + ld + 1 /\ disjoint_spaces(s, n, d, ld)
    BY <1>4 DEF eacsl_builtin_strncat, Builtin
  <2>2. NStringOf(m, s, n, k) /\ logic_strnlen(m, s, n) = k
    BY <2>1, ValidatedNString
  <2>3. ld \in Nat /\ StringOf(m, d, ld) /\ d \notin ro
    BY <2>1, ValidatedString DEF validate_writeable_string
  <2>4. eacsl_builtin_strncat(m, ro, d, s, n) = Builtin(acc, d + ld, k + 1)
    BY DEF eacsl_builtin_strncat, Builtin
  <2> HIDE DEF k, ld, acc
  <2>5. logic_strlen(m, d) = ld
    BY <1>0, <2>3, StringIsValid
  <2>a. k \in Nat /\ k <= n /\ Characters(m, s, k)
    BY <2>2 DEF NStringOf, Characters
  <2>6. valid(m, d, ld + (k + 1))
    <3>1. Room(m, d) \in Nat
      BY RoomIs
    <3>2. ld + (k + 1) \in Nat /\ ld + (k + 1) <= Room(m, d)
      BY <2>1, <2>3, <2>a, <3>1
    <3> QED
      BY <3>2, RoomIsValid
  <2>7. d + ld \in Int /\ k + 1 \in Nat /\ valid(m, d + ld, k + 1)
    <3>1. d + ld \in Int /\ k + 1 \in Nat
      BY <1>0, <2>3, <2>a
    <3>2. valid(m, d + ld, k + 1)
      BY <1>0, <2>3, <2>6, <3>1, ValidTail
    <3> QED
      BY <3>1, <3>2
  <2>8. (s >= d + ld \/ s + k <= d + ld) /\ (k = n \/ s >= d + ld \/ s + k < d + ld)
    BY <1>0, <2>1, <2>3, <2>a DEF disjoint_spaces
  <2>9. strncat(m, d, s, n) = Returned(T, d)
    BY <1>0, <2>2, <2>3, <2>8, strncatIs
  <2>10. Clean(T)
    BY <1>0, <2>7, <2>8, <2>a, CleanTerminated
  <2>11. Assigns(m, Returned(T, d), d + ld .. d + ld + k) /\ SameBytes(T, d + ld, m, s, k)
    BY <1>0, <2>7, <2>8, <2>a, StringPut
  <2>12. logic_strlen(T, d) = ld + k /\ SameBytes(T, d, m, d, ld)
    <3>1. /\ k \in Nat /\ ld \in Nat /\ StringOf(m, d, ld) /\ (s >= d + ld \/ s + k <= d + ld)
          /\ valid(m, d + ld, k + 1)
      BY <2>3, <2>7, <2>8, <2>a
    <3>2. Characters(m, s, k)
      BY <2>a
    <3>3. ASSUME NEW e \in Int, e = d + ld
          PROVE  /\ logic_strlen(Terminated(m, e, s, k), d) = ld + k
                 /\ SameBytes(Terminated(m, e, s, k), d, m, d, ld)
      <4>1. (s >= e \/ s + k <= e) /\ valid(m, e, k + 1)
        BY <3>1, <3>3
      <4> QED
        BY <1>0, <3>1, <3>2, <3>3, <4>1, StringAppended
    <3> QED
      BY <2>7, <3>3
  <2> HIDE DEF T
  <2>13. Assigns(m, Returned(T, d), d + ld .. d + ld + (k + 1) - 1)
    <3>1. d + ld + (k + 1) - 1 = d + ld + k
      BY <2>7, <2>a
    <3> QED
      BY <2>11, <3>1
  <2>14. Returned(T, d).mem = T
    BY DEF Returned
  <2>15. Marked(Builtin(acc, d + ld, k + 1), m, ro, Returned(T, d))
    BY <1>0, <2>3, <2>6, <2>7, <2>10, <2>13, <2>14, MarkedIs
  <2>16. Concatenates(m, d, s, k, Returned(T, d))
    BY <2>5, <2>11, <2>12, <2>14 DEF Concatenates
  <2> QED
    BY <2>2, <2>4, <2>9, <2>15, <2>16
<1>5. ASSUME eacsl_builtin_memcpy(m, ro, d, s, n).accepts
      PROVE  /\ memcpy_requires(m, d, s, n)
             /\ Marked(eacsl_builtin_memcpy(m, ro, d, s, n), m, ro, memcpy(m, d, s, n))
  <2> DEFINE acc == eacsl_builtin_memcpy(m, ro, d, s, n).accepts
  <2>1. allocated(m, s, n) /\ writeable(m, ro, d, n) /\ disjoint_spaces(s, n, d, n)
    BY <1>5 DEF eacsl_builtin_memcpy, Builtin
  <2>2. eacsl_builtin_memcpy(m, ro, d, s, n) = Builtin(acc, d, n)
    BY DEF eacsl_builtin_memcpy, Builtin
  <2> HIDE DEF acc
  <2>3. valid(m, d, n) /\ d \notin ro /\ valid(m, s, n)
    BY <1>a, <2>1, AllocatedIsValid
  <2>4. memcpy_requires(m, d, s, n)
    BY <2>1, <2>3 DEF memcpy_requires, disjoint_spaces, separated
  <2>5. s >= d \/ s + n <= d
    BY <1>0, <2>1 DEF disjoint_spaces
  <2>6. Clean(memcpy(m, d, s, n).mem)
    BY <1>0, <2>5, CopyUpIs, CleanCopy DEF memcpy, Returned
  <2>7. Assigns(m, memcpy(m, d, s, n), d .. d + n - 1)
    BY <1>0, <2>4, memcpy_meets DEF memcpy_contract, Copies
  <2>8. Marked(Builtin(acc, d, n), m, ro, memcpy(m, d, s, n))
    BY <1>0, <1>b, <2>3, <2>6, <2>7
  <2> QED
    BY <2>2, <2>4, <2>8
<1>6. ASSUME eacsl_builtin_memmove(m, ro, d, s, n).accepts
      PROVE  /\ memmove_requires(m, d, s, n)
             /\ Marked(eacsl_builtin_memmove(m, ro, d, s, n), m, ro, memmove(m, d, s, n))
  <2> DEFINE acc == eacsl_builtin_memmove(m, ro, d, s, n).accepts
  <2>1. allocated(m, s, n) /\ writeable(m, ro, d, n)
    BY <1>6 DEF eacsl_builtin_memmove, Builtin
  <2>2. eacsl_builtin_memmove(m, ro, d, s, n) = Builtin(acc, d, n)
    BY DEF eacsl_builtin_memmove, Builtin
  <2> HIDE DEF acc
  <2>3. valid(m, d, n) /\ d \notin ro /\ valid(m, s, n)
    BY <1>a, <2>1, AllocatedIsValid
  <2>4. memmove_requires(m, d, s, n)
    BY <2>3 DEF memmove_requires
  <2>5. Clean(memmove(m, d, s, n).mem)
    BY <1>0, memmoveIs, CleanCopy DEF Returned
  <2>6. Assigns(m, memmove(m, d, s, n), d .. d + n - 1)
    BY <1>0, <2>4, memmove_meets DEF memmove_contract, Copies
  <2>7. Marked(Builtin(acc, d, n), m, ro, memmove(m, d, s, n))
    BY <1>0, <1>b, <2>3, <2>5, <2>6
  <2> QED
    BY <2>2, <2>4, <2>7
<1>7. ASSUME eacsl_builtin_memset(m, ro, s, n).accepts
      PROVE  valid(m, s, n) /\ Marked(eacsl_builtin_memset(m, ro, s, n), m, ro, memset(m, s, NUL, n))
  <2> DEFINE acc == eacsl_builtin_memset(m, ro, s, n).accepts
             r == memset(m, s, NUL, n)
  <2>1. writeable(m, ro, s, n)
    BY <1>7 DEF eacsl_builtin_memset, Builtin
  <2>2. eacsl_builtin_memset(m, ro, s, n) = Builtin(acc, s, n)
    BY DEF eacsl_builtin_memset, Builtin
  <2> HIDE DEF acc
  <2>3. valid(m, s, n) /\ s \notin ro
    BY <1>a, <2>1
  <2>4. r.mem = [p \in DOMAIN m |-> IF p \in s .. s + n - 1 THEN NUL ELSE m[p]]
    BY DEF memset, Returned
  <2> HIDE DEF r
  <2>5. Clean(r.mem)
    <3> SUFFICES ASSUME NEW p \in Int PROVE At(r.mem, p) # Uninit
      BY DEF Clean
    <3>1. DOMAIN r.mem = DOMAIN m /\ At(m, p) # Uninit
      BY <2>4 DEF Clean
    <3> QED
      BY <2>4, <3>1 DEF At, NUL, Outside, Uninit
  <2>6. Assigns(m, r, s .. s + n - 1)
    BY <2>4 DEF Assigns
  <2>7. Marked(Builtin(acc, s, n), m, ro, r)
    BY <1>0, <1>b, <2>3, <2>5, <2>6
  <2> QED
    BY <2>2, <2>3, <2>7 DEF r
<1> QED
  BY <1>1, <1>2, <1>3, <1>4, <1>5, <1>6, <1>7 DEF LetsThroughBytes

(* E-ACSL's string builtins let a call through only when what it reads and *)
(* writes is there and not read-only, and mark as initialized only bytes   *)
(* the call leaves written; after strcat and strncat the two strings are   *)
(* one. For every memory of written bytes, set of read-only blocks,        *)
(* pointers and number of bytes.                                           *)
THEOREM BuiltinsLetThrough ==
  ASSUME NEW m \in Memories, Clean(m), NEW ro, BlockWise(m, ro)
  PROVE  \A d, s \in Pointers(m) :
           LetsThrough(m, ro, d, s) /\ \A n \in Nat : LetsThroughBytes(m, ro, d, s, n)
  BY StringBuiltinsSound, ByteBuiltinsSound

-----------------------------------------------------------------------------
(* Numbers up and down.                                                    *)

(* Up to n, one by one.                                                    *)
LEMMA UpTo ==
  ASSUME NEW n \in Nat, NEW S, 0 \in S, \A k \in 1 .. n : k - 1 \in S => k \in S
  PROVE  \A k \in 0 .. n : k \in S
<1> DEFINE T == {k \in 0 .. n : k \notin S}
<1>1. SUFFICES ASSUME T # {} PROVE FALSE
  OBVIOUS
<1>2. PICK k \in T : \A y \in T : k <= y
  <2>1. T \subseteq Nat
    OBVIOUS
  <2> QED
    BY <1>1, <2>1, LeastNat
<1>3. k \in 1 .. n /\ k - 1 \in 0 .. n /\ k - 1 < k
  BY <1>2
<1>4. k - 1 \notin T
  BY <1>2, <1>3
<1> QED
  BY <1>2, <1>3, <1>4

(* From n down, each number after all those above it.                      *)
LEMMA DownFrom ==
  ASSUME NEW n \in Nat, NEW S, \A p \in 1 .. n : (\A q \in p + 1 .. n : q \in S) => p \in S
  PROVE  \A p \in 1 .. n : p \in S
<1> DEFINE U == {k \in Int : \A p \in 1 .. n : p > n - k => p \in S}
<1>1. 0 \in U
  OBVIOUS
<1>2. ASSUME NEW k \in 1 .. n, k - 1 \in U PROVE k \in U
  <2>1. n - k + 1 \in 1 .. n
    OBVIOUS
  <2>2. \A q \in n - k + 2 .. n : q \in S
    BY <1>2
  <2>3. n - k + 1 \in S
    BY <2>1, <2>2
  <2> QED
    BY <1>2, <2>3
<1>3. n \in U
  <2> HIDE DEF U
  <2>1. \A k \in 0 .. n : k \in U
    BY <1>1, <1>2, UpTo
  <2> QED
    BY <2>1
<1> QED
  BY <1>3

(* The largest element of a set of numbers up to n                         *)
LEMMA MaxIs ==
  ASSUME NEW n \in Nat, NEW s \in SUBSET (1 .. n), s # {}
  PROVE  Max(s) \in s /\ Max(s) \in 1 .. n /\ \A x \in s : x <= Max(s)
<1>1. PICK i \in 0 .. n : (i = 0 \/ i \in s) /\ \A j \in i + 1 .. n : j \notin s
  BY LastExists
<1>2. \A x \in s : x \in 1 .. n
  OBVIOUS
<1>3. i \in s /\ \A x \in s : i >= x
  <2>1. PICK x \in s : TRUE
    OBVIOUS
  <2>2. i # 0
    BY <1>1, <1>2, <2>1
  <2>3. ASSUME NEW y \in s PROVE i >= y
    BY <1>1, <1>2
  <2> QED
    BY <1>1, <2>2, <2>3
<1>4. \E x \in s : \A y \in s : x >= y
  BY <1>3
<1>5. Max(s) \in s /\ \A y \in s : Max(s) >= y
  BY <1>4 DEF Max
<1> QED
  BY <1>2, <1>5

(* A recursive function that goes on at a place further on, J[p], or stops *)
(* at those of C.                                                          *)
JumpOf(f, n, C, B, J, G) == f = [p \in 1 .. n |-> IF p \in C THEN B[p] ELSE G[p][f[J[p]]]]

Jumps(n, V, C, B, J, G) ==
  /\ \A p \in 1 .. n : p \in C => B[p] \in V
  /\ \A p \in 1 .. n : p \notin C => J[p] \in p + 1 .. n /\ \A v \in V : G[p][v] \in V

(* The function exists when the places it goes on at are further on and    *)
(* what it makes there stays in V.                                         *)
LEMMA JumpExists ==
  ASSUME NEW n \in Nat, NEW V, NEW C, NEW B, NEW J, NEW G, Jumps(n, V, C, B, J, G)
  PROVE  \E f \in [1 .. n -> V] : JumpOf(f, n, C, B, J, G)
<1>0. /\ \A p \in 1 .. n : p \in C => B[p] \in V
      /\ \A p \in 1 .. n : p \notin C => J[p] \in p + 1 .. n /\ \A v \in V : G[p][v] \in V
  BY DEF Jumps
<1> DEFINE Sol(f, k) == \A p \in n - k + 1 .. n : f[p] = IF p \in C THEN B[p] ELSE G[p][f[J[p]]]
           U == {k \in Int : \E f \in [n - k + 1 .. n -> V] : Sol(f, k)}
<1>1. 0 \in U
  <2>1. n - 0 + 1 .. n = {}
    OBVIOUS
  <2> DEFINE f == [p \in {} |-> 0]
  <2>2. f \in [n - 0 + 1 .. n -> V] /\ Sol(f, 0)
    BY <2>1
  <2> HIDE DEF f, Sol
  <2>3. \E h \in [n - 0 + 1 .. n -> V] : Sol(h, 0)
    BY <2>2
  <2> QED
    BY <2>3
<1>2. ASSUME NEW k \in 1 .. n, k - 1 \in U PROVE k \in U
  <2> DEFINE a == n - k + 1
  <2>0. a \in 1 .. n /\ n - (k - 1) + 1 = a + 1
    OBVIOUS
  <2>1. PICK f \in [a + 1 .. n -> V] : Sol(f, k - 1)
    BY <1>2, <2>0
  <2>2. \A p \in a + 1 .. n : f[p] = IF p \in C THEN B[p] ELSE G[p][f[J[p]]]
    BY <2>0, <2>1
  <2> HIDE DEF a
  <2> DEFINE x == IF a \in C THEN B[a] ELSE G[a][f[J[a]]]
             g == [p \in a .. n |-> IF p = a THEN x ELSE f[p]]
  <2>3. x \in V
    <3>1. CASE a \in C
      BY <1>0, <2>0, <3>1
    <3>2. CASE a \notin C
      <4>1. J[a] \in a + 1 .. n
        BY <1>0, <2>0, <3>2
      <4>2. f[J[a]] \in V
        BY <2>1, <4>1
      <4> QED
        BY <1>0, <2>0, <3>2, <4>2
    <3> QED
      BY <3>1, <3>2
  <2> HIDE DEF x
  <2>4. g \in [a .. n -> V]
    BY <2>0, <2>1, <2>3
  <2>5. ASSUME NEW p \in a .. n PROVE g[p] = IF p \in C THEN B[p] ELSE G[p][g[J[p]]]
    <3>0. p \in 1 .. n /\ (p = a \/ p \in a + 1 .. n)
      BY <2>0
    <3>1. p \notin C => J[p] \in p + 1 .. n
      BY <1>0, <3>0
    <3>2. p \notin C => J[p] \in a .. n /\ J[p] # a
      BY <2>0, <3>0, <3>1
    <3>3. p \notin C => g[J[p]] = f[J[p]]
      BY <3>2
    <3>4. CASE p = a
      BY <3>3, <3>4 DEF x
    <3>5. CASE p # a
      BY <2>2, <3>0, <3>3, <3>5
    <3> QED
      BY <3>4, <3>5
  <2>6. Sol(g, k)
    BY <2>5 DEF a
  <2>7. g \in [n - k + 1 .. n -> V]
    BY <2>4 DEF a
  <2> HIDE DEF g
  <2> QED
    BY <2>6, <2>7
<1>3. n \in U
  <2> HIDE DEF U
  <2>1. \A k \in 0 .. n : k \in U
    BY <1>1, <1>2, UpTo
  <2> QED
    BY <2>1
<1>4. PICK f \in [1 .. n -> V] : Sol(f, n)
  <2>1. n - n + 1 = 1
    OBVIOUS
  <2> QED
    BY <1>3, <2>1
<1>5. \A p \in 1 .. n : f[p] = IF p \in C THEN B[p] ELSE G[p][f[J[p]]]
  BY <1>4
<1>6. f = [p \in 1 .. n |-> IF p \in C THEN B[p] ELSE G[p][f[J[p]]]]
  BY <1>5
<1> QED
  BY <1>6 DEF JumpOf

-----------------------------------------------------------------------------
(* Sequences put together, and folds.                                      *)

(* The prefixes FlattenSeq makes                                           *)
LEMMA FlattenIs ==
  ASSUME NEW S, NEW q \in Seq(Seq(S))
  PROVE  \E f \in [0 .. Len(q) -> Seq(S)] :
           /\ f[0] = <<>>
           /\ \A i \in 1 .. Len(q) : f[i] = f[i - 1] \o q[i]
           /\ FlattenSeq(q) = f[Len(q)]
<1> DEFINE n == Len(q)
           Sol(f, k) == f[0] = <<>> /\ \A i \in 1 .. k : f[i] = f[i - 1] \o q[i]
           U == {k \in 0 .. n : \E f \in [0 .. k -> Seq(S)] : Sol(f, k)}
<1>0. n \in Nat /\ DOMAIN q = 1 .. n /\ \A i \in 1 .. n : q[i] \in Seq(S)
  OBVIOUS
<1>1. 0 \in U
  <2> DEFINE f == [i \in 0 .. 0 |-> <<>>]
  <2>1. f \in [0 .. 0 -> Seq(S)] /\ Sol(f, 0)
    OBVIOUS
  <2> HIDE DEF f, Sol
  <2>2. \E h \in [0 .. 0 -> Seq(S)] : Sol(h, 0)
    BY <2>1
  <2> QED
    BY <1>0, <2>2
<1>a. n \in Nat
  BY <1>0
<1> HIDE DEF n
<1>2. ASSUME NEW k \in 1 .. n, k - 1 \in U PROVE k \in U
  <2>1. PICK f \in [0 .. k - 1 -> Seq(S)] : Sol(f, k - 1)
    BY <1>2
  <2> DEFINE g == [i \in 0 .. k |-> IF i = k THEN f[k - 1] \o q[k] ELSE f[i]]
  <2>2. f[k - 1] \in Seq(S) /\ f[k - 1] \o q[k] \in Seq(S)
    BY <1>0, <2>1
  <2>3. g \in [0 .. k -> Seq(S)]
    BY <2>1, <2>2
  <2>4. Sol(g, k)
    <3>1. g[0] = <<>>
      BY <1>a, <2>1
    <3>2. ASSUME NEW i \in 1 .. k PROVE g[i] = g[i - 1] \o q[i]
      <4>1. g[i - 1] = f[i - 1]
        BY <1>a
      <4>2. g[i] = f[i - 1] \o q[i]
        <5>1. CASE i = k
          <6>1. k \in 0 .. k
            BY <1>a
          <6>2. g[k] = f[k - 1] \o q[k]
            BY <6>1, Zenon
          <6> HIDE DEF g
          <6> QED
            BY <5>1, <6>2, Zenon
        <5>2. CASE i # k
          <6>1. i \in 1 .. k - 1 /\ g[i] = f[i]
            BY <1>a, <5>2
          <6> QED
            BY <2>1, <6>1
        <5> QED
          BY <5>1, <5>2
      <4> HIDE DEF g
      <4> QED
        BY <4>1, <4>2
    <3> QED
      BY <3>1, <3>2
  <2> HIDE DEF g, Sol
  <2> QED
    BY <2>3, <2>4
<1>3. n \in U
  <2> HIDE DEF U
  <2>1. \A k \in 0 .. n : k \in U
    BY <1>0, <1>1, <1>2, UpTo
  <2> QED
    BY <1>0, <2>1
<1>4. PICK f \in [0 .. n -> Seq(S)] : Sol(f, n)
  BY <1>3
<1>5. CASE n = 0
  <2>1. FlattenSeq(q) = <<>>
    BY <1>0, <1>5 DEF FlattenSeq, n
  <2> QED
    BY <1>4, <1>5, <2>1 DEF n
<1>6. CASE n # 0
  <2> DEFINE Loop(h) == h = [i \in 1 .. n |-> IF i = 1 THEN q[i] ELSE h[i - 1] \o q[i]]
             g == [i \in 1 .. n |-> f[i]]
  <2>1. \A i \in 1 .. n : f[i] = IF i = 1 THEN q[i] ELSE f[i - 1] \o q[i]
    <3>1. 1 \in 1 .. n /\ q[1] \in Seq(S)
      BY <1>0, <1>6
    <3>2. <<>> \o q[1] = q[1]
      BY <3>1
    <3>4. \A i \in 1 .. n : f[i] = f[i - 1] \o q[i]
      BY <1>4
    <3>5. f[1] = f[1 - 1] \o q[1]
      BY <3>1, <3>4, Zenon
    <3>6. f[1 - 1] = <<>>
      BY <1>4
    <3>3. f[1] = q[1]
      BY <3>2, <3>5, <3>6, Zenon
    <3> HIDE DEF Sol
    <3> QED
      BY <3>3, <3>4
  <2>2. Loop(g)
    <3>1. ASSUME NEW i \in 1 .. n PROVE g[i] = IF i = 1 THEN q[i] ELSE g[i - 1] \o q[i]
      <4>1. g[i] = f[i] /\ (i # 1 => g[i - 1] = f[i - 1])
        BY <1>a
      <4> QED
        BY <2>1, <4>1
    <3> QED
      BY <3>1
  <2> HIDE DEF g
  <2>3. \E h : h = [i \in 1 .. n |-> IF i = 1 THEN q[i] ELSE h[i - 1] \o q[i]]
    BY <2>2
  <2>4. \E h : Loop(h) /\ FlattenSeq(q) = h[n]
    BY <1>6, <2>3 DEF FlattenSeq, n
  <2>5. PICK h : Loop(h) /\ FlattenSeq(q) = h[n]
    BY <2>4
  <2> DEFINE E == {k \in 0 .. n : k = 0 \/ h[k] = f[k]}
  <2>6. \A i \in 1 .. n : h[i] = IF i = 1 THEN q[i] ELSE h[i - 1] \o q[i]
    BY <2>5
  <2>7. 0 \in E
    BY <1>0
  <2>8. ASSUME NEW k \in 1 .. n, k - 1 \in E PROVE k \in E
    BY <2>1, <2>6, <2>8
  <2> HIDE DEF E
  <2>9. \A k \in 0 .. n : k \in E
    BY <1>0, <2>7, <2>8, UpTo
  <2>10. h[n] = f[n]
    BY <1>0, <1>6, <2>9 DEF E
  <2> QED
    BY <1>4, <2>5, <2>10 DEF n
<1> QED
  BY <1>5, <1>6

(* The value of a fold on each set of positions: it exists when the        *)
(* operation, the functions of G, stays in V.                              *)
FoldOf(h, n, base, G) ==
  h = [s \in SUBSET (1 .. n) |-> IF s = {} THEN base ELSE G[Max(s)][h[s \ {Max(s)}]]]

(* Such values exist, by induction on the size of the set.                 *)
LEMMA FoldExists ==
  ASSUME NEW n \in Nat, NEW V, NEW base \in V, NEW G, \A k \in 1 .. n : \A v \in V : G[k][v] \in V
  PROVE  \E h \in [SUBSET (1 .. n) -> V] : FoldOf(h, n, base, G)
<1> DEFINE Sol(f, k) == \A s \in SUBSET (1 .. k) :
             f[s] = IF s = {} THEN base ELSE G[Max(s)][f[s \ {Max(s)}]]
           U == {k \in Int : \E f \in [SUBSET (1 .. k) -> V] : Sol(f, k)}
<1>1. 0 \in U
  <2> DEFINE f == [s \in SUBSET (1 .. 0) |-> base]
  <2>1. f \in [SUBSET (1 .. 0) -> V] /\ Sol(f, 0)
    <3>1. \A s \in SUBSET (1 .. 0) : s = {}
      OBVIOUS
    <3> QED
      BY <3>1
  <2> HIDE DEF f, Sol
  <2>2. \E h \in [SUBSET (1 .. 0) -> V] : Sol(h, 0)
    BY <2>1
  <2>3. 0 \in Int
    OBVIOUS
  <2> QED
    BY <2>2, <2>3, Zenon
<1>2. ASSUME NEW k \in 1 .. n, k - 1 \in U PROVE k \in U
  <2>1. PICK f \in [SUBSET (1 .. k - 1) -> V] : Sol(f, k - 1)
    BY <1>2
  <2> DEFINE g == [s \in SUBSET (1 .. k) |-> IF k \in s THEN G[k][f[s \ {k}]] ELSE f[s]]
  <2>2. ASSUME NEW s \in SUBSET (1 .. k)
        PROVE  /\ k \in s => s \ {k} \in SUBSET (1 .. k - 1)
               /\ k \notin s => s \in SUBSET (1 .. k - 1)
    OBVIOUS
  <2>3. g \in [SUBSET (1 .. k) -> V]
    BY <2>1, <2>2
  <2>4. ASSUME NEW s \in SUBSET (1 .. k)
        PROVE  g[s] = IF s = {} THEN base ELSE G[Max(s)][g[s \ {Max(s)}]]
    <3>1. CASE s = {}
      <4>1. s \in SUBSET (1 .. k - 1) /\ k \notin s
        BY <3>1
      <4> QED
        BY <2>1, <3>1, <4>1
    <3>2. CASE k \in s
      <4>1. Max(s) \in s /\ Max(s) \in 1 .. k /\ \A x \in s : x <= Max(s)
        BY <3>2, MaxIs
      <4>2. Max(s) = k
        BY <3>2, <4>1
      <4>3. s \ {k} \in SUBSET (1 .. k) /\ k \notin s \ {k}
        OBVIOUS
      <4> QED
        BY <3>2, <4>2, <4>3
    <3>3. CASE s # {} /\ k \notin s
      <4>1. s \in SUBSET (1 .. k - 1)
        BY <2>2, <3>3
      <4>2. s \ {Max(s)} \in SUBSET (1 .. k) /\ k \notin s \ {Max(s)}
        BY <3>3
      <4>3. g[s] = f[s] /\ g[s \ {Max(s)}] = f[s \ {Max(s)}]
        BY <3>3, <4>2
      <4> QED
        BY <2>1, <3>3, <4>1, <4>3
    <3> QED
      BY <3>1, <3>2, <3>3
  <2>5. Sol(g, k)
    BY <2>4
  <2> HIDE DEF g, Sol
  <2> QED
    BY <2>3, <2>5
<1>3. n \in U
  <2> HIDE DEF U
  <2>1. \A k \in 0 .. n : k \in U
    BY <1>1, <1>2, UpTo
  <2> QED
    BY <2>1
<1>4. PICK f \in [SUBSET (1 .. n) -> V] : Sol(f, n)
  BY <1>3
<1>5. f = [s \in SUBSET (1 .. n) |-> IF s = {} THEN base ELSE G[Max(s)][f[s \ {Max(s)}]]]
  BY <1>4
<1> QED
  BY <1>5 DEF FoldOf

(* A fold goes through the prefixes of a sequence.                         *)
LEMMA PrefixMax ==
  ASSUME NEW k \in Nat \ {0}
  PROVE  1 .. k # {} /\ Max(1 .. k) = k /\ (1 .. k) \ {k} = 1 .. k - 1
<1>1. 1 .. k # {} /\ k \in 1 .. k
  OBVIOUS
<1>2. Max(1 .. k) \in 1 .. k /\ \A x \in 1 .. k : x <= Max(1 .. k)
  BY <1>1, MaxIs
<1>3. \A x \in 1 .. k : x <= k
  OBVIOUS
<1>4. Max(1 .. k) \in Int /\ k <= Max(1 .. k) /\ Max(1 .. k) <= k
  BY <1>1, <1>2, <1>3
<1>5. Max(1 .. k) = k
  <2> DEFINE x == Max(1 .. k)
  <2> HIDE DEF x
  <2> QED
    BY <1>4 DEF x
<1> QED
  BY <1>1, <1>5

-----------------------------------------------------------------------------
(* Vectors.  A block of written bytes, the last one a terminator; what is  *)
(* beyond the length is left over from a longer vector.                    *)
Octet == Char \union {NUL}

Good(v) ==
  /\ v.argz \in Seq(Int) /\ v.len \in 0 .. Len(v.argz)
  /\ \A i \in 1 .. v.len : v.argz[i] \in Octet
  /\ v.len > 0 => v.argz[v.len] = NUL

(* The written bytes of a string, with and without the terminator          *)
LEMMA OctetIs ==
  /\ Octet = Int \ {Outside, Uninit} /\ Char \subseteq Octet /\ Octet \subseteq Int
  /\ NUL \in Octet /\ NUL \notin Char /\ NUL \in Int
BY DEF Octet, Char, NUL, Outside, Uninit

(* A string with its terminator                                            *)
LEMMA BytesIs ==
  ASSUME NEW S, NUL \in S, NEW s \in Seq(S)
  PROVE  /\ Bytes(s) \in Seq(S) /\ Len(Bytes(s)) = Len(s) + 1 /\ Bytes(s)[Len(s) + 1] = NUL
         /\ \A i \in 1 .. Len(s) : Bytes(s)[i] = s[i]
         /\ \A i \in 1 .. Len(s) + 1 : Bytes(s)[i] \in S
<1>1. <<NUL>> \in Seq(S) /\ Len(<<NUL>>) = 1 /\ <<NUL>>[1] = NUL
  OBVIOUS
<1>2. Bytes(s) \in Seq(S) /\ Len(Bytes(s)) = Len(s) + 1
  BY <1>1, ConcatProperties DEF Bytes
<1>3. ASSUME NEW i \in 1 .. Len(s) + 1
      PROVE  Bytes(s)[i] = IF i <= Len(s) THEN s[i] ELSE <<NUL>>[i - Len(s)]
  BY <1>1, ConcatProperties DEF Bytes
<1>4. Len(s) + 1 \in 1 .. Len(s) + 1 /\ (Len(s) + 1) - Len(s) = 1 /\ ~(Len(s) + 1 <= Len(s)) /\ Len(s) \in Nat
  OBVIOUS
<1>5. Bytes(s)[Len(s) + 1] = NUL
  BY <1>1, <1>3, <1>4
<1>6. \A i \in 1 .. Len(s) : Bytes(s)[i] = s[i]
  BY <1>3, <1>4
<1>7. \A i \in 1 .. Len(s) + 1 : Bytes(s)[i] \in S
  BY <1>2
<1> QED
  BY <1>2, <1>5, <1>6, <1>7

(* Two sequences, one after the other                                      *)
LEMMA Concat ==
  ASSUME NEW S, NEW a \in Seq(S), NEW b \in Seq(S)
  PROVE  /\ Len(a) \in Nat /\ Len(b) \in Nat
         /\ a \o b \in Seq(S) /\ Len(a \o b) = Len(a) + Len(b)
         /\ \A i \in 1 .. Len(a) : (a \o b)[i] = a[i]
         /\ \A i \in 1 .. Len(b) : (a \o b)[Len(a) + i] = b[i]
<1> DEFINE x == Len(a)
           y == Len(b)
<1>1. x \in Nat /\ y \in Nat
  OBVIOUS
<1>2. /\ a \o b \in Seq(S) /\ Len(a \o b) = x + y
      /\ \A i \in 1 .. x + y : (a \o b)[i] = IF i <= x THEN a[i] ELSE b[i - x]
  BY ConcatProperties
<1> HIDE DEF x, y
<1>3. ASSUME NEW i \in 1 .. y PROVE (a \o b)[x + i] = b[i]
  <2>1. x + i \in 1 .. x + y /\ ~(x + i <= x) /\ (x + i) - x = i
    BY <1>1
  <2> QED
    BY <1>2, <2>1
<1>4. ASSUME NEW i \in 1 .. x PROVE (a \o b)[i] = a[i]
  <2>1. i \in 1 .. x + y /\ i <= x
    BY <1>1
  <2> QED
    BY <1>2, <2>1
<1> QED
  BY <1>1, <1>2, <1>3, <1>4 DEF x, y

(* realloc keeps what it has room for.                                     *)
LEMMA reallocIs ==
  ASSUME NEW block \in Seq(Int), NEW n \in Nat
  PROVE  /\ realloc(block, n) \in Seq(Int) /\ Len(realloc(block, n)) = n
         /\ \A i \in 1 .. n : i <= Len(block) => realloc(block, n)[i] = block[i]
<1>1. \A i \in 1 .. n : (IF i <= Len(block) THEN block[i] ELSE Uninit) \in Int
  BY DEF Uninit
<1>2. realloc(block, n) \in [1 .. n -> Int]
  BY <1>1 DEF realloc
<1> QED
  BY <1>2 DEF realloc

(* malloc gives a block of the size asked for.                             *)
LEMMA mallocIs ==
  ASSUME NEW n \in Nat
  PROVE  malloc(n) \in Seq(Int) /\ Len(malloc(n)) = n
<1>1. malloc(n) \in [1 .. n -> Int]
  BY DEF malloc, Uninit
<1> QED
  BY <1>1

(* A block, and another one apart from it                                  *)
LEMMA Apart ==
  ASSUME NEW block \in Seq(Int), NEW other \in Seq(Int)
  PROVE  LET m == block \o <<Outside>> \o other
         IN  /\ m \in Memories /\ Len(m) = Len(block) + 1 + Len(other)
             /\ \A i \in 1 .. Len(block) : m[i] = block[i] /\ At(m, i) = block[i]
             /\ At(m, Len(block) + 1) = Outside
             /\ \A i \in 1 .. Len(other) :
                  m[Len(block) + 1 + i] = other[i] /\ At(m, Len(block) + 1 + i) = other[i]
<1> DEFINE a == block \o <<Outside>>
           m == a \o other
           x == Len(block)
           y == Len(other)
<1>1. <<Outside>> \in Seq(Int) /\ Len(<<Outside>>) = 1 /\ <<Outside>>[1] = Outside /\ x \in Nat /\ y \in Nat
  BY DEF Outside
<1>2. /\ a \in Seq(Int) /\ Len(a) = x + 1
      /\ \A i \in 1 .. x : a[i] = block[i]
      /\ \A i \in 1 .. 1 : a[x + i] = <<Outside>>[i]
  BY <1>1, Concat
<1>3. a[x + 1] = Outside
  <2> HIDE DEF a
  <2>1. 1 \in 1 .. 1
    OBVIOUS
  <2> QED
    BY <1>1, <1>2, <2>1
<1> HIDE DEF a
<1>b. /\ m \in Seq(Int) /\ Len(m) = Len(a) + y
      /\ \A i \in 1 .. Len(a) : m[i] = a[i]
      /\ \A i \in 1 .. y : m[Len(a) + i] = other[i]
  <2>1. a \in Seq(Int)
    BY <1>2
  <2> QED
    BY <2>1, Concat
<1> HIDE DEF m, x, y
<1>4. /\ m \in Seq(Int) /\ Len(m) = (x + 1) + y
      /\ \A i \in 1 .. x + 1 : m[i] = a[i]
      /\ \A i \in 1 .. y : m[(x + 1) + i] = other[i]
  BY <1>2, <1>b
<1>5. \A i \in 1 .. x : m[i] = block[i]
  <2>1. \A i \in 1 .. x : i \in 1 .. x + 1
    BY <1>1
  <2> QED
    BY <1>2, <1>4, <2>1
<1>6. m[x + 1] = Outside
  BY <1>1, <1>3, <1>4
<1>7. \A i \in 1 .. y : m[x + 1 + i] = other[i]
  BY <1>1, <1>4
<1>8. DOMAIN m = 1 .. x + 1 + y
  BY <1>4
<1>9. /\ \A i \in 1 .. x : At(m, i) = m[i]
      /\ At(m, x + 1) = m[x + 1]
      /\ \A i \in 1 .. y : At(m, x + 1 + i) = m[x + 1 + i]
  BY <1>1, <1>8 DEF At
<1>10. m = block \o <<Outside>> \o other
  BY DEF m, a
<1>11. /\ m \in Memories /\ Len(m) = Len(block) + 1 + Len(other)
       /\ \A i \in 1 .. Len(block) : m[i] = block[i] /\ At(m, i) = block[i]
       /\ At(m, Len(block) + 1) = Outside
       /\ \A i \in 1 .. Len(other) :
            m[Len(block) + 1 + i] = other[i] /\ At(m, Len(block) + 1 + i) = other[i]
  BY <1>4, <1>5, <1>6, <1>7, <1>9 DEF x, y, Memories
<1> QED
  BY <1>10, <1>11

(* A byte of a copy                                                        *)
LEMMA CopyByte ==
  ASSUME NEW m \in Memories, NEW d \in Int, NEW s \in Int, NEW n \in Nat, NEW i \in 0 .. n - 1, d + i \in DOMAIN m
  PROVE  At(Shifted(m, d, s, 0, n), d + i) = At(m, s + i)
<1>1. \A k \in 0 .. n - 1 : d + k \in DOMAIN m => At(Shifted(m, d, s, 0, n), d + k) = At(m, s + k)
  BY CopyLeaves
<1> QED
  BY <1>1

(* A copy from another block                                               *)
LEMMA SpliceIs ==
  ASSUME NEW block \in Seq(Int), NEW other \in Seq(Int), NEW d \in Int,
         d >= 1, d + Len(other) - 1 <= Len(block)
  PROVE  LET r == SubSeq(Shifted(block \o <<Outside>> \o other, d, Len(block) + 2, 0, Len(other)), 1, Len(block))
         IN  /\ r \in Seq(Int) /\ Len(r) = Len(block)
             /\ \A i \in 1 .. Len(block) : i \notin d .. d + Len(other) - 1 => r[i] = block[i]
             /\ \A i \in 1 .. Len(other) : r[d + i - 1] = other[i]
<1> DEFINE n == Len(other)
           m == block \o <<Outside>> \o other
           x == Len(block)
           c == Shifted(m, d, x + 2, 0, n)
           r == SubSeq(c, 1, x)
<1>1. /\ m \in Memories /\ Len(m) = x + 1 + n
      /\ \A i \in 1 .. x : At(m, i) = block[i]
      /\ \A i \in 1 .. n : At(m, x + 1 + i) = other[i]
  BY Apart
<1>2. x \in Nat /\ n \in Nat
  OBVIOUS
<1>a. x + 2 \in Int
  BY <1>2
<1> HIDE DEF m, x, n
<1>3. /\ c \in Memories /\ DOMAIN c = DOMAIN m
      /\ \A p \in Int : p \notin d .. d + n - 1 => At(c, p) = At(m, p)
      /\ \A i \in 0 .. n - 1 : d + i \in DOMAIN m => At(c, d + i) = At(m, x + 2 + i)
  <2>1. x + 2 \in Int /\ m \in Memories /\ n \in Nat /\ d \in Int
    BY <1>1, <1>2, <1>a
  <2> DEFINE y == x + 2
  <2>2. y \in Int
    BY <2>1
  <2> HIDE DEF y
  <2>3. /\ Shifted(m, d, y, 0, n) \in Memories
        /\ DOMAIN Shifted(m, d, y, 0, n) = DOMAIN m
    BY <2>1, <2>2, CopyLeaves
  <2>4. \A p \in Int : p \notin d .. d + n - 1 => At(Shifted(m, d, y, 0, n), p) = At(m, p)
    BY <2>1, <2>2, CopyLeaves
  <2>5. \A i \in 0 .. n - 1 :
          d + i \in DOMAIN m => At(Shifted(m, d, y, 0, n), d + i) = At(m, y + i)
    <3> SUFFICES ASSUME NEW i \in 0 .. n - 1, d + i \in DOMAIN m
                 PROVE  At(Shifted(m, d, y, 0, n), d + i) = At(m, y + i)
      OBVIOUS
    <3> QED
      BY <2>1, <2>2, CopyByte, ZenonT(30)
  <2> QED
    BY <2>3, <2>4, <2>5 DEF y
<1> HIDE DEF c
<1>4. c \in Seq(Int) /\ Len(c) = x + 1 + n /\ DOMAIN c = 1 .. x + 1 + n /\ DOMAIN m = 1 .. x + 1 + n
  BY <1>1, <1>2, <1>3 DEF Memories
<1>5. r \in Seq(Int) /\ Len(r) = x /\ \A i \in 1 .. x : r[i] = c[i]
  <2>1. c \in Seq(Int) /\ 1 \in 1 .. Len(c) + 1 /\ x \in 1 - 1 .. Len(c)
    BY <1>2, <1>4
  <2>2. r \in Seq(Int) /\ Len(r) = x - 1 + 1 /\ \A i \in 1 .. x - 1 + 1 : r[i] = c[1 + i - 1]
    BY <2>1, SubSeqProperties, SMTT(15)
  <2> HIDE DEF r
  <2>3. x - 1 + 1 = x /\ \A i \in 1 .. x : 1 + i - 1 = i
    BY <1>2
  <2> QED
    BY <2>2, <2>3
<1>6. \A i \in 1 .. x : c[i] = At(c, i)
  BY <1>2, <1>4 DEF At
<1> HIDE DEF r
<1>7. \A i \in 1 .. x : i \notin d .. d + n - 1 => r[i] = block[i]
  BY <1>1, <1>2, <1>3, <1>5, <1>6
<1>8. ASSUME NEW i \in 1 .. n PROVE r[d + i - 1] = other[i]
  <2>1. i - 1 \in 0 .. n - 1 /\ d + i - 1 = d + (i - 1) /\ x + 2 + (i - 1) = x + 1 + i /\ d + i - 1 \in 1 .. x
    BY <1>2 DEF x, n
  <2>2. d + (i - 1) \in DOMAIN m
    BY <1>2, <1>4, <2>1
  <2>3. At(c, d + (i - 1)) = At(m, x + 2 + (i - 1))
    BY <1>3, <2>1, <2>2
  <2> QED
    BY <1>1, <1>5, <1>6, <2>1, <2>3, ZenonT(30)
<1> QED
  BY <1>5, <1>7, <1>8 DEF r, c, x, m, n

(* The strings of a vector, with their terminators                         *)
LEMMA JointIs ==
  ASSUME NEW S, NUL \in S, NEW v \in Seq(Seq(S))
  PROVE  \E f \in [0 .. Len(v) -> Seq(S)] :
           /\ f[0] = <<>>
           /\ \A i \in 1 .. Len(v) : f[i] = f[i - 1] \o Bytes(v[i])
           /\ Joint(v) = f[Len(v)]
<1> DEFINE q == [i \in DOMAIN v |-> Bytes(v[i])]
<1>1. q \in Seq(Seq(S)) /\ Len(q) = Len(v) /\ \A i \in 1 .. Len(v) : q[i] = Bytes(v[i])
  <2>1. \A i \in DOMAIN v : Bytes(v[i]) \in Seq(S)
    BY BytesIs
  <2>2. DOMAIN v = 1 .. Len(v) /\ Len(v) \in Nat
    OBVIOUS
  <2>3. q \in [1 .. Len(v) -> Seq(S)]
    BY <2>1, <2>2
  <2> QED
    BY <2>2, <2>3
<1>2. Joint(v) = FlattenSeq(q)
  BY DEF Joint
<1> HIDE DEF q
<1>3. PICK f \in [0 .. Len(q) -> Seq(S)] :
        /\ f[0] = <<>>
        /\ \A i \in 1 .. Len(q) : f[i] = f[i - 1] \o q[i]
        /\ FlattenSeq(q) = f[Len(q)]
  BY <1>1, FlattenIs
<1> QED
  BY <1>1, <1>2, <1>3

(* An insertion splits the vector at the start of an entry.                *)
LEMMA EntryStartIs ==
  ASSUME NEW a, NEW before \in Nat \ {0}
  PROVE  EntryStart(a, before) \in 1 .. before
<1> DEFINE S == {q \in Int : q = 1 \/ a[q - 1] = NUL}
<1>1. PICK i \in 0 .. before : (i = 0 \/ i \in S) /\ \A j \in i + 1 .. before : j \notin S
  BY LastExists
<1>2. i # 0
  BY <1>1
<1>3. \E p \in 1 .. before :
        (p = 1 \/ a[p - 1] = NUL) /\ \A q \in p + 1 .. before : a[q - 1] # NUL
  <2>1. i \in 1 .. before /\ (i = 1 \/ a[i - 1] = NUL)
    BY <1>1, <1>2
  <2>2. \A q \in i + 1 .. before : a[q - 1] # NUL
    BY <1>1
  <2> QED
    BY <2>1, <2>2
<1> QED
  BY <1>3 DEF EntryStart

(* One turn of the loop that splits writes a byte or drops a separator.    *)
Splits == [block : Seq(Int), wp : Int, nlen : Int]

(* It counts as written, or as not written, exactly one byte.              *)
LEMMA SplitIs ==
  ASSUME NEW acc \in Splits, NEW c \in Octet
  PROVE  /\ Split(acc, c) \in Splits
         /\ Len(Split(acc, c).block) = Len(acc.block)
         /\ \/ /\ \E x \in Octet : /\ Split(acc, c).block = [acc.block EXCEPT ![acc.wp] = x]
                                   /\ c = NUL => x = NUL
               /\ Split(acc, c).wp = acc.wp + 1 /\ Split(acc, c).nlen = acc.nlen
            \/ /\ c # NUL /\ Split(acc, c).block = acc.block
               /\ Split(acc, c).wp = acc.wp /\ Split(acc, c).nlen = acc.nlen - 1
<1>0. acc.block \in Seq(Int) /\ acc.wp \in Int /\ acc.nlen \in Int
  BY DEF Splits
<1>1. Sep # NUL
  BY StringsAssumption DEF Char
<1>2. ASSUME NEW x \in Octet
      PROVE  [acc.block EXCEPT ![acc.wp] = x] \in Seq(Int) /\ Len([acc.block EXCEPT ![acc.wp] = x]) = Len(acc.block)
  <2>1. x \in Int
    BY OctetIs
  <2> DEFINE f == acc.block
             g == [f EXCEPT ![acc.wp] = x]
             n == Len(f)
  <2>2. f \in [1 .. n -> Int] /\ n \in Nat
    BY <1>0
  <2> HIDE DEF f, n
  <2>3. g \in [1 .. n -> Int]
    BY <2>1, <2>2
  <2>4. g \in Seq(Int) /\ Len(g) = n
    BY <2>2, <2>3
  <2> QED
    BY <2>4 DEF f, n
<1>3. ASSUME NEW x \in Octet,
             Split(acc, c) = [acc EXCEPT !.block[acc.wp] = x, !.wp = acc.wp + 1]
      PROVE  /\ Split(acc, c) \in Splits
             /\ Len(Split(acc, c).block) = Len(acc.block)
             /\ Split(acc, c).block = [acc.block EXCEPT ![acc.wp] = x]
             /\ Split(acc, c).wp = acc.wp + 1 /\ Split(acc, c).nlen = acc.nlen
  <2> DEFINE new == [acc.block EXCEPT ![acc.wp] = x]
  <2>1. Split(acc, c) = [block |-> new, wp |-> acc.wp + 1, nlen |-> acc.nlen]
    BY <1>3 DEF Splits
  <2>2. new \in Seq(Int) /\ Len(new) = Len(acc.block)
    BY <1>2
  <2> HIDE DEF new
  <2>3. Split(acc, c) \in Splits
    BY <1>0, <2>1, <2>2 DEF Splits
  <2>4. Split(acc, c).block = new /\ Split(acc, c).wp = acc.wp + 1 /\ Split(acc, c).nlen = acc.nlen
    BY <2>1
  <2> QED
    BY <2>2, <2>3, <2>4 DEF new
<1>4. CASE c # Sep
  <2>1. Split(acc, c) = [acc EXCEPT !.block[acc.wp] = c, !.wp = acc.wp + 1]
    BY <1>4 DEF Split
  <2> QED
    BY <1>3, <2>1
<1>5. CASE c = Sep /\ acc.wp > 1 /\ At(acc.block, acc.wp - 1) # NUL
  <2>1. Split(acc, c) = [acc EXCEPT !.block[acc.wp] = NUL, !.wp = acc.wp + 1]
    BY <1>5 DEF Split
  <2> QED
    BY <1>3, <2>1, OctetIs
<1>6. CASE c = Sep /\ ~(acc.wp > 1 /\ At(acc.block, acc.wp - 1) # NUL)
  <2>1. Split(acc, c) = [acc EXCEPT !.nlen = acc.nlen - 1]
    BY <1>6 DEF Split
  <2>2. /\ Split(acc, c).block = acc.block /\ Split(acc, c).wp = acc.wp
        /\ Split(acc, c).nlen = acc.nlen - 1 /\ Split(acc, c) \in Splits
    BY <1>0, <2>1 DEF Splits
  <2> QED
    BY <1>1, <1>6, <2>2
<1> QED
  BY <1>4, <1>5, <1>6

(* The whole loop, over a string of length n - 1 and its terminator        *)
SplitAll(block, l, s) ==
  FoldLeft(Split, [block |-> block, wp |-> l + 1, nlen |-> Len(s) + 1], Bytes(s))

(* What the loop holds after each character, the terminator included       *)
LEMMA SplitChain ==
  ASSUME NEW block \in Seq(Int), NEW l \in Nat, NEW s \in Seq(Octet)
  PROVE  \E f \in [0 .. Len(s) + 1 -> Splits] :
           /\ f[0] = [block |-> block, wp |-> l + 1, nlen |-> Len(s) + 1]
           /\ \A k \in 1 .. Len(s) + 1 : f[k] = Split(f[k - 1], Bytes(s)[k])
           /\ SplitAll(block, l, s) = f[Len(s) + 1]
<1> DEFINE b == Bytes(s)
           n == Len(s) + 1
           base == [block |-> block, wp |-> l + 1, nlen |-> n]
           G == [k \in 1 .. n |-> [v \in Splits |-> Split(v, b[k])]]
           Loop(h) == h = [t \in SUBSET (1 .. n) |-> IF t = {} THEN base ELSE Split(h[t \ {Max(t)}], b[Max(t)])]
<1>1. b \in Seq(Octet) /\ Len(b) = n /\ n \in Nat /\ DOMAIN b = 1 .. n
  <2>1. b \in Seq(Octet) /\ Len(b) = n
    BY BytesIs, OctetIs
  <2>2. n \in Nat
    OBVIOUS
  <2> HIDE DEF b, n
  <2> QED
    BY <2>1, <2>2
<1>2. base \in Splits
  BY DEF Splits
<1> HIDE DEF b, n, base
<1>3. \A k \in 1 .. n : \A v \in Splits : G[k][v] = Split(v, b[k]) /\ G[k][v] \in Splits
  <2> SUFFICES ASSUME NEW k \in 1 .. n, NEW v \in Splits
               PROVE  G[k][v] = Split(v, b[k]) /\ G[k][v] \in Splits
    OBVIOUS
  <2>1. b[k] \in Octet
    BY <1>1
  <2>2. G[k][v] = Split(v, b[k])
    OBVIOUS
  <2> HIDE DEF G
  <2> QED
    BY <2>1, <2>2, SplitIs
<1> HIDE DEF G
<1>4. PICK g \in [SUBSET (1 .. n) -> Splits] : FoldOf(g, n, base, G)
  <2>1. \A k \in 1 .. n : \A v \in Splits : G[k][v] \in Splits
    BY <1>3
  <2> QED
    BY <1>1, <1>2, <2>1, FoldExists
<1>5. Loop(g)
  <2>1. ASSUME NEW t \in SUBSET (1 .. n)
        PROVE  g[t] = IF t = {} THEN base ELSE Split(g[t \ {Max(t)}], b[Max(t)])
    <3>1. g[t] = IF t = {} THEN base ELSE G[Max(t)][g[t \ {Max(t)}]]
      BY <1>4 DEF FoldOf
    <3>2. ASSUME t # {} PROVE G[Max(t)][g[t \ {Max(t)}]] = Split(g[t \ {Max(t)}], b[Max(t)])
      <4>1. Max(t) \in 1 .. n
        BY <1>1, <3>2, MaxIs
      <4>2. g[t \ {Max(t)}] \in Splits
        OBVIOUS
      <4> QED
        BY <1>3, <4>1, <4>2
    <3> QED
      BY <3>1, <3>2
  <2>2. g = [t \in SUBSET (1 .. n) |-> g[t]]
    BY <1>4
  <2> QED
    BY <2>1, <2>2
<1>6. \E h : h = [t \in SUBSET (1 .. n) |-> IF t = {} THEN base ELSE Split(h[t \ {Max(t)}], b[Max(t)])]
  BY <1>5
<1>7. \E h : Loop(h) /\ SplitAll(block, l, s) = h[1 .. n]
  <2>1. DOMAIN b = 1 .. n
    BY <1>1
  <2>2. SplitAll(block, l, s) = FoldLeft(Split, base, b)
    BY DEF SplitAll, base, b, n
  <2>3. \E h : Loop(h) /\ FoldLeft(Split, base, b) = h[1 .. n]
    BY <1>6, <2>1 DEF FoldLeft, MapThenFoldSet
  <2> QED
    BY <2>2, <2>3
<1>8. PICK h : Loop(h) /\ SplitAll(block, l, s) = h[1 .. n]
  BY <1>7
<1> DEFINE f == [k \in 0 .. n |-> h[1 .. k]]
<1>9. ASSUME NEW t \in SUBSET (1 .. n)
      PROVE  h[t] = IF t = {} THEN base ELSE Split(h[t \ {Max(t)}], b[Max(t)])
  BY <1>8
<1>10. h[1 .. 0] = base
  <2>1. 1 .. 0 = {} /\ 1 .. 0 \in SUBSET (1 .. n)
    OBVIOUS
  <2> QED
    BY <1>9, <2>1
<1>11. ASSUME NEW k \in 1 .. n PROVE h[1 .. k] = Split(h[1 .. k - 1], b[k])
  <2>1. k \in Nat \ {0} /\ 1 .. k \in SUBSET (1 .. n)
    BY <1>1
  <2>2. 1 .. k # {} /\ Max(1 .. k) = k /\ (1 .. k) \ {k} = 1 .. k - 1
    BY <2>1, PrefixMax
  <2> QED
    BY <1>9, <2>1, <2>2
<1>12. \A k \in 0 .. n : h[1 .. k] \in Splits
  <2> DEFINE E == {k \in Int : h[1 .. k] \in Splits}
  <2>1. 0 \in E
    BY <1>2, <1>10
  <2>2. ASSUME NEW k \in 1 .. n, k - 1 \in E PROVE k \in E
    <3>1. h[1 .. k] = Split(h[1 .. k - 1], b[k]) /\ h[1 .. k - 1] \in Splits /\ b[k] \in Octet
      BY <1>1, <1>11, <2>2
    <3>2. h[1 .. k] \in Splits
      BY <3>1, SplitIs
    <3> QED
      BY <3>2
  <2> HIDE DEF E
  <2>3. \A k \in 0 .. n : k \in E
    BY <1>1, <2>1, <2>2, UpTo
  <2> QED
    BY <2>3 DEF E
<1>13. /\ f \in [0 .. n -> Splits] /\ f[0] = base
       /\ \A k \in 1 .. n : f[k] = Split(f[k - 1], b[k])
       /\ SplitAll(block, l, s) = f[n]
  <2>1. f \in [0 .. n -> Splits]
    BY <1>12
  <2>2. f[0] = base /\ SplitAll(block, l, s) = f[n]
    <3>1. 0 \in 0 .. n /\ n \in 0 .. n
      BY <1>1
    <3>2. f[0] = h[1 .. 0] /\ f[n] = h[1 .. n]
      BY <3>1, Zenon
    <3> HIDE DEF f
    <3> QED
      BY <1>8, <1>10, <3>2, Zenon
  <2>3. ASSUME NEW k \in 1 .. n PROVE f[k] = Split(f[k - 1], b[k])
    <3>1. k \in 0 .. n /\ k - 1 \in 0 .. n
      BY <1>1
    <3>2. f[k] = h[1 .. k] /\ f[k - 1] = h[1 .. k - 1]
      BY <3>1
    <3> HIDE DEF f
    <3> QED
      BY <1>11, <3>2
  <2> QED
    BY <2>1, <2>2, <2>3
<1> HIDE DEF f
<1> QED
  BY <1>13 DEF base, b, n

-----------------------------------------------------------------------------
(* argz_create.                                                            *)

(* A copy keeps the size of the memory, whatever it copies.                *)
LEMMA CopyUpTyped ==
  ASSUME NEW m \in Memories, NEW d \in Int, NEW s \in Int, NEW n \in Nat
  PROVE  CopyUp(m, d, s, n) \in Memories /\ DOMAIN CopyUp(m, d, s, n) = DOMAIN m
<1> DEFINE V == {c \in Memories : DOMAIN c = DOMAIN m}
           Turn(c, i) == Written(c, d + i - 1, At(c, s + i - 1))
           Loop(f) == f = [i \in 0 .. n |-> IF i = 0 THEN m ELSE Turn(f[i - 1], i)]
           G == [k \in 1 .. n |-> [c \in V |-> Turn(c, k)]]
<1>0. m \in V
  OBVIOUS
<1>1. ASSUME NEW c \in V, NEW i \in 1 .. n PROVE Turn(c, i) \in V
  <2>1. c \in [1 .. Len(m) -> Int] /\ Len(m) \in Nat
    BY DEF Memories
  <2>2. At(c, s + i - 1) \in Int
    BY AtIs
  <2> DEFINE x == At(c, s + i - 1)
             p == d + i - 1
  <2> HIDE DEF x, p
  <2>3. [c EXCEPT ![p] = x] \in [1 .. Len(m) -> Int]
    BY <2>1, <2>2 DEF x
  <2>4. [c EXCEPT ![p] = x] \in V
    BY <2>1, <2>3 DEF Memories
  <2> QED
    BY <2>4 DEF Written, x, p
<1> HIDE DEF V
<1>2. PICK h \in [SUBSET (1 .. n) -> V] : FoldOf(h, n, m, G)
  <2>1. \A k \in 1 .. n : \A c \in V : G[k][c] \in V
    BY <1>1
  <2> HIDE DEF G
  <2> QED
    BY <1>0, <2>1, FoldExists
<1>3. h[1 .. 0] = m
  <2>1. 1 .. 0 = {} /\ 1 .. 0 \in SUBSET (1 .. n)
    OBVIOUS
  <2> QED
    BY <1>2, <2>1 DEF FoldOf
<1>4. ASSUME NEW k \in 1 .. n PROVE h[1 .. k] = Turn(h[1 .. k - 1], k)
  <2>1. k \in Nat \ {0} /\ 1 .. k \in SUBSET (1 .. n) /\ 1 .. k - 1 \in SUBSET (1 .. n)
    OBVIOUS
  <2>2. 1 .. k # {} /\ Max(1 .. k) = k /\ (1 .. k) \ {k} = 1 .. k - 1
    BY <2>1, PrefixMax
  <2>3. h[1 .. k] = G[k][h[1 .. k - 1]]
    <3> DEFINE t == 1 .. k
    <3>1. t \in SUBSET (1 .. n) /\ t # {} /\ Max(t) = k /\ t \ {k} = 1 .. k - 1
      BY <2>1, <2>2
    <3> HIDE DEF t, G
    <3>2. h[t] = G[Max(t)][h[t \ {Max(t)}]]
      BY <1>2, <3>1 DEF FoldOf
    <3> QED
      BY <3>1, <3>2 DEF t
  <2>4. h[1 .. k - 1] \in V
    BY <2>1
  <2> HIDE DEF Turn
  <2> QED
    BY <2>3, <2>4
<1> DEFINE g == [i \in 0 .. n |-> h[1 .. i]]
<1>5. Loop(g)
  <2> HIDE DEF Turn
  <2>1. ASSUME NEW i \in 0 .. n PROVE g[i] = IF i = 0 THEN m ELSE Turn(g[i - 1], i)
    <3>1. CASE i = 0
      BY <1>3, <3>1
    <3>2. CASE i # 0
      <4>1. i \in 1 .. n /\ i - 1 \in 0 .. n
        BY <3>2
      <4> QED
        BY <1>4, <3>2, <4>1
    <3> QED
      BY <3>1, <3>2
  <2> QED
    BY <2>1
<1> HIDE DEF g
<1>6. \E f : f = [i \in 0 .. n |-> IF i = 0 THEN m ELSE Written(f[i - 1], d + i - 1, At(f[i - 1], s + i - 1))]
  BY <1>5
<1>7. PICK f : Loop(f) /\ CopyUp(m, d, s, n) = f[n]
  BY <1>6 DEF CopyUp
<1>8. \A i \in 0 .. n : f[i] = IF i = 0 THEN m ELSE Turn(f[i - 1], i)
  BY <1>7
<1> DEFINE E == {i \in 0 .. n : f[i] \in V}
<1> HIDE DEF Turn
<1>9. 0 \in E
  BY <1>0, <1>8
<1>10. ASSUME NEW k \in 1 .. n, k - 1 \in E PROVE k \in E
  <2>1. f[k] = Turn(f[k - 1], k)
    BY <1>8
  <2> QED
    BY <1>1, <1>10, <2>1
<1> HIDE DEF E
<1>11. \A k \in 0 .. n : k \in E
  BY <1>9, <1>10, UpTo
<1>12. f[n] \in V
  BY <1>11 DEF E
<1> QED
  BY <1>7, <1>12 DEF V

(* So does a copy followed by a terminator.                                *)
LEMMA TerminatedTyped ==
  ASSUME NEW m \in Memories, NEW d \in Int, NEW s \in Int, NEW n \in Nat
  PROVE  Terminated(m, d, s, n) \in Memories /\ DOMAIN Terminated(m, d, s, n) = DOMAIN m
<1> DEFINE c == CopyUp(m, d, s, n)
           k == Len(m)
<1>1. c \in Memories /\ DOMAIN c = DOMAIN m
  BY CopyUpTyped
<1>2. k \in Nat /\ DOMAIN m = 1 .. k
  BY DEF Memories
<1> HIDE DEF c, k
<1>3. c \in [1 .. k -> Int] /\ NUL \in Int
  BY <1>1, <1>2 DEF Memories, NUL
<1>4. [c EXCEPT ![d + n] = NUL] \in [1 .. k -> Int]
  BY <1>3
<1> DEFINE u == [c EXCEPT ![d + n] = NUL]
<1>5. Terminated(m, d, s, n) = u
  BY DEF Terminated, Written, c
<1> HIDE DEF u
<1>6. u \in Seq(Int) /\ DOMAIN u = 1 .. k
  <2>1. u \in [1 .. k -> Int]
    BY <1>4 DEF u
  <2> QED
    BY <1>2, <2>1
<1> QED
  BY <1>2, <1>5, <1>6 DEF Memories

(* A bounded copy of a string stays in its bound.                          *)
LEMMA CopiedTyped ==
  ASSUME NEW m, NEW d \in Int, NEW s \in Int, NEW n \in Nat
  PROVE  Copied(m, d, s, n) \in 0 .. n
<1> DEFINE S == {i \in Int : At(CopyUp(m, d, s, i), s + i) \in {NUL, Outside}}
<1>1. PICK i \in 0 .. n : (i = n \/ i \in S) /\ \A j \in 0 .. i - 1 : j \notin S
  BY FirstExists
<1>2. /\ i = n \/ At(CopyUp(m, d, s, i), s + i) \in {NUL, Outside}
      /\ \A j \in 0 .. i - 1 : ~(At(CopyUp(m, d, s, j), s + j) \in {NUL, Outside})
  BY <1>1
<1>3. \E k \in 0 .. n : /\ k = n \/ At(CopyUp(m, d, s, k), s + k) \in {NUL, Outside}
                        /\ \A j \in 0 .. k - 1 : ~(At(CopyUp(m, d, s, j), s + j) \in {NUL, Outside})
  BY <1>2
<1> QED
  BY <1>3 DEF Copied, FirstStop

(* One string put in a block                                               *)
Puts == [block : Seq(Int), p : Int]

PutString(acc, s) ==
  LET r == stpcpy(acc.block \o <<Outside>> \o Bytes(s), acc.p, Len(acc.block) + 2)
  IN  [block |-> SubSeq(r.mem, 1, Len(acc.block)), p |-> r.ret + 1]

(* One turn of the loop of argz_create keeps the size of the block.        *)
LEMMA PutTyped ==
  ASSUME NEW acc \in Puts, NEW s \in Seq(Octet)
  PROVE  PutString(acc, s) \in Puts /\ Len(PutString(acc, s).block) = Len(acc.block)
<1> DEFINE b == Bytes(s)
           x == Len(acc.block)
           m == acc.block \o <<Outside>> \o b
           n == Copied(m, acc.p, x + 2, Len(m))
           t == Terminated(m, acc.p, x + 2, n)
<1>1. acc.block \in Seq(Int) /\ acc.p \in Int /\ x \in Nat
  BY DEF Puts
<1>2. b \in Seq(Int)
  <2>1. b \in Seq(Octet)
    BY BytesIs, OctetIs
  <2> HIDE DEF b
  <2> QED
    BY <2>1, OctetIs
<1> HIDE DEF b
<1>3. m \in Memories /\ Len(m) = x + 1 + Len(b)
  BY <1>1, <1>2, Apart
<1>4. Len(m) \in Nat /\ Len(b) \in Nat /\ x + 2 \in Int
  BY <1>1, <1>2, <1>3
<1> DEFINE y == x + 2
<1> HIDE DEF m, y
<1>5. n \in Nat
  <2>1. y \in Int
    BY <1>4 DEF y
  <2>2. Copied(m, acc.p, y, Len(m)) \in 0 .. Len(m)
    BY <1>1, <1>4, <2>1, CopiedTyped
  <2>3. Copied(m, acc.p, y, Len(m)) \in Nat
    BY <1>4, <2>2
  <2> QED
    BY <2>3 DEF y
<1> HIDE DEF n
<1>6. t \in Memories /\ DOMAIN t = DOMAIN m
  <2>1. y \in Int
    BY <1>4 DEF y
  <2>2. Terminated(m, acc.p, y, n) \in Memories /\ DOMAIN Terminated(m, acc.p, y, n) = DOMAIN m
    BY <1>1, <1>3, <1>5, <2>1, TerminatedTyped
  <2> QED
    BY <2>2 DEF y
<1>7. PutString(acc, s) = [block |-> SubSeq(t, 1, x), p |-> acc.p + n + 1]
  BY DEF PutString, stpcpy, Returned, b, m, n
<1> HIDE DEF t, x
<1>8. t \in Seq(Int) /\ Len(t) = x + 1 + Len(b)
  <2>1. t \in Seq(Int) /\ m \in Seq(Int)
    BY <1>3, <1>6 DEF Memories
  <2>2. Len(t) = Len(m)
    BY <1>6, <2>1
  <2> QED
    BY <1>3, <2>1, <2>2
<1>9. SubSeq(t, 1, x) \in Seq(Int) /\ Len(SubSeq(t, 1, x)) = x
  <2>1. 1 \in 1 .. Len(t) + 1 /\ x \in 1 - 1 .. Len(t) /\ x - 1 + 1 = x
    BY <1>1, <1>2, <1>8
  <2> QED
    BY <1>8, <2>1, SubSeqProperties
<1>10. acc.p + n + 1 \in Int
  BY <1>1, <1>5
<1> DEFINE q == SubSeq(t, 1, x)
<1>11. PutString(acc, s) = [block |-> q, p |-> acc.p + n + 1]
  BY <1>7
<1> HIDE DEF q
<1>12. PutString(acc, s).block = q
  BY <1>11
<1>13. q \in Seq(Int) /\ Len(q) = x
  BY <1>9 DEF q
<1>14. PutString(acc, s) \in Puts
  BY <1>10, <1>11, <1>13 DEF Puts
<1> QED
  BY <1>12, <1>13, <1>14 DEF x

(* A string of the program is made of written bytes.                       *)
LEMMA StringIs ==
  ASSUME NEW s \in Seq(Char)
  PROVE  s \in Seq(Octet)
<1>1. s \in [1 .. Len(s) -> Char] /\ Len(s) \in Nat
  OBVIOUS
<1> DEFINE n == Len(s)
<1> HIDE DEF n
<1>2. s \in [1 .. n -> Octet]
  BY <1>1, OctetIs DEF n
<1>3. n \in Nat
  BY <1>1 DEF n
<1> QED
  BY <1>2, <1>3

(* A string put where there is room for it, with its terminator            *)
LEMMA PutIs ==
  ASSUME NEW acc \in Puts, NEW s \in Seq(Char), acc.p >= 1, acc.p + Len(s) <= Len(acc.block),
         \A i \in 1 .. Len(acc.block) : acc.block[i] # Outside
  PROVE  LET r == PutString(acc, s)
         IN  /\ r \in Puts /\ Len(r.block) = Len(acc.block) /\ r.p = acc.p + Len(s) + 1
             /\ \A i \in 1 .. Len(acc.block) : i \notin acc.p .. acc.p + Len(s) => r.block[i] = acc.block[i]
             /\ \A i \in 1 .. Len(s) : r.block[acc.p + i - 1] = s[i]
             /\ r.block[acc.p + Len(s)] = NUL
<1> DEFINE block == acc.block
           b == Bytes(s)
           x == Len(block)
           l == Len(s)
           e == acc.p
           y == x + 2
           m == block \o <<Outside>> \o b
           t == Terminated(m, e, y, l)
           q == SubSeq(t, 1, x)
           r == PutString(acc, s)
<1>1. /\ block \in Seq(Int) /\ x \in Nat /\ e \in Int /\ e >= 1 /\ e + l <= x /\ l \in Nat
      /\ \A i \in 1 .. x : block[i] # Outside
  BY DEF Puts
<1>2. /\ b \in Seq(Octet) /\ b \in Seq(Int) /\ Len(b) = l + 1 /\ b[l + 1] = NUL
      /\ \A i \in 1 .. l : b[i] = s[i]
  <2>0. s \in Seq(Octet) /\ NUL \in Octet
    BY OctetIs, StringIs
  <2>1. /\ b \in Seq(Octet) /\ Len(b) = l + 1 /\ b[l + 1] = NUL
        /\ \A i \in 1 .. l : b[i] = s[i]
    BY <2>0, BytesIs
  <2> HIDE DEF b, l
  <2>2. b \in Seq(Int)
    BY <2>1, OctetIs
  <2> QED
    BY <2>1, <2>2
<1>3. \A i \in 1 .. l : s[i] \in Char /\ s[i] \notin {NUL, Outside}
  <2>1. \A i \in 1 .. l : s[i] \in Char
    OBVIOUS
  <2> HIDE DEF l
  <2> QED
    BY <2>1 DEF Char
<1> HIDE DEF b, l, x, block, e
<1>4. /\ m \in Memories /\ Len(m) = x + 1 + (l + 1)
      /\ \A i \in 1 .. x : At(m, i) = block[i]
      /\ \A i \in 1 .. l + 1 : At(m, x + 1 + i) = b[i]
  <2>1. /\ m \in Memories /\ Len(m) = Len(block) + 1 + Len(b)
        /\ \A i \in 1 .. Len(block) : At(m, i) = block[i]
        /\ \A i \in 1 .. Len(b) : At(m, Len(block) + 1 + i) = b[i]
    BY <1>1, <1>2, Apart
  <2> HIDE DEF m
  <2> QED
    BY <1>2, <2>1 DEF x
<1> HIDE DEF m
<1>5. StringOf(m, y, l)
  <2>1. At(m, y + l) = NUL
    <3>1. l + 1 \in 1 .. l + 1 /\ x + 1 + (l + 1) = y + l
      BY <1>1
    <3> QED
      BY <1>2, <1>4, <3>1
  <2>2. ASSUME NEW j \in 0 .. l - 1 PROVE At(m, y + j) \notin {NUL, Outside}
    <3>1. j + 1 \in 1 .. l + 1 /\ j + 1 \in 1 .. l /\ x + 1 + (j + 1) = y + j
      BY <1>1
    <3>2. At(m, y + j) = s[j + 1]
      BY <1>2, <1>4, <3>1
    <3> QED
      BY <1>3, <3>1, <3>2
  <2> QED
    BY <2>1, <2>2 DEF StringOf
<1>6. y \in DOMAIN m /\ y \in Int /\ y >= e /\ DOMAIN m = 1 .. x + 1 + (l + 1)
  <2>1. DOMAIN m = 1 .. x + 1 + (l + 1)
    BY <1>4 DEF Memories
  <2> QED
    BY <1>1, <2>1
<1> HIDE DEF y
<1>7. stpcpy(m, e, y) = Returned(t, e + l)
  BY <1>1, <1>4, <1>5, <1>6, stpcpyIs
<1>8. valid(m, e, l + 1)
  <2>1. ASSUME NEW i \in 0 .. (l + 1) - 1 PROVE At(m, e + i) # Outside
    <3>1. e + i \in 1 .. x
      BY <1>1
    <3> QED
      BY <1>1, <1>4, <3>1
  <2> QED
    BY <2>1 DEF valid
<1>9. /\ t \in Memories /\ DOMAIN t = DOMAIN m
      /\ \A p \in Int : p \notin e .. e + l => At(t, p) = At(m, p)
      /\ \A i \in 0 .. l - 1 : At(t, e + i) = At(m, y + i)
      /\ At(t, e + l) = NUL
  BY <1>1, <1>4, <1>6, <1>8, TerminatedIs
<1>10. r = [block |-> q, p |-> e + l + 1]
  <2>1. r = [block |-> SubSeq(stpcpy(m, e, y).mem, 1, x), p |-> stpcpy(m, e, y).ret + 1]
    BY DEF PutString, m, b, e, y, x, block
  <2> HIDE DEF t
  <2>2. stpcpy(m, e, y).mem = t /\ stpcpy(m, e, y).ret = e + l
    BY <1>7 DEF Returned
  <2> HIDE DEF r
  <2> QED
    BY <2>1, <2>2
<1> HIDE DEF t, r
<1>11. t \in Seq(Int) /\ Len(t) = x + 1 + (l + 1) /\ DOMAIN t = 1 .. x + 1 + (l + 1)
  <2>1. t \in Seq(Int) /\ DOMAIN t = 1 .. x + 1 + (l + 1)
    BY <1>6, <1>9 DEF Memories
  <2>2. Len(t) \in Nat /\ DOMAIN t = 1 .. Len(t)
    BY <2>1
  <2> QED
    BY <1>1, <2>1, <2>2
<1>12. q \in Seq(Int) /\ Len(q) = x /\ \A i \in 1 .. x : q[i] = At(t, i)
  <2>1. 1 \in 1 .. Len(t) + 1 /\ x \in 1 - 1 .. Len(t) /\ x - 1 + 1 = x
    BY <1>1, <1>11
  <2>2. q \in Seq(Int) /\ Len(q) = x /\ \A i \in 1 .. x : q[i] = t[1 + i - 1]
    BY <1>11, <2>1, SubSeqProperties
  <2> HIDE DEF q
  <2>3. \A i \in 1 .. x : t[1 + i - 1] = At(t, i)
    <3>1. \A i \in 1 .. x : 1 + i - 1 = i /\ i \in DOMAIN t
      BY <1>1, <1>11
    <3> QED
      BY <3>1 DEF At
  <2> QED
    BY <2>2, <2>3
<1> HIDE DEF q
<1>13. r \in Puts /\ r.block = q /\ r.p = e + l + 1
  BY <1>1, <1>10, <1>12 DEF Puts
<1>14. \A i \in 1 .. x : i \notin e .. e + l => q[i] = block[i]
  <2>1. \A i \in 1 .. x : i \in Int
    OBVIOUS
  <2> QED
    BY <1>4, <1>9, <1>12, <2>1
<1>15. ASSUME NEW i \in 1 .. l PROVE q[e + i - 1] = s[i]
  <2>1. i - 1 \in 0 .. l - 1 /\ e + i - 1 = e + (i - 1) /\ e + i - 1 \in 1 .. x /\ y + (i - 1) = x + 1 + i /\ i \in 1 .. l + 1
    BY <1>1 DEF y
  <2>2. At(t, e + (i - 1)) = At(m, y + (i - 1))
    BY <1>9, <2>1
  <2> QED
    BY <1>2, <1>4, <1>12, <2>1, <2>2
<1>16. q[e + l] = NUL
  <2>1. e + l \in 1 .. x
    BY <1>1
  <2> QED
    BY <1>9, <1>12, <2>1
<1> QED
  BY <1>12, <1>13, <1>14, <1>15, <1>16 DEF r, block, e, l, x

(* What a fold, computed by h, leaves after each element of a sequence     *)
Folds(h, n, V, base, G) ==
  /\ h[{}] = base
  /\ \A k \in 1 .. n : h[1 .. k - 1] \in V => h[1 .. k] = G[k][h[1 .. k - 1]]

Chain(f, n, base, G) == f[0] = base /\ \A k \in 1 .. n : f[k] = G[k][f[k - 1]]

(* The values after each element are those of a function on the places.    *)
LEMMA FoldChain ==
  ASSUME NEW n \in Nat, NEW V, NEW base \in V, NEW G, \A k \in 1 .. n : \A v \in V : G[k][v] \in V,
         NEW h, Folds(h, n, V, base, G)
  PROVE  \E f \in [0 .. n -> V] : f[n] = h[1 .. n] /\ Chain(f, n, base, G)
<1> DEFINE E == {k \in Int : h[1 .. k] \in V}
           f == [k \in 0 .. n |-> h[1 .. k]]
<1>1. h[1 .. 0] = base
  <2>1. 1 .. 0 = {}
    OBVIOUS
  <2> QED
    BY <2>1 DEF Folds
<1>2. 0 \in E
  BY <1>1
<1>3. ASSUME NEW k \in 1 .. n, k - 1 \in E PROVE k \in E
  <2>1. h[1 .. k - 1] \in V
    BY <1>3
  <2>2. h[1 .. k] = G[k][h[1 .. k - 1]]
    BY <2>1 DEF Folds
  <2>3. h[1 .. k] \in V
    BY <2>1, <2>2
  <2> QED
    BY <2>3
<1> HIDE DEF E
<1>4. \A k \in 0 .. n : k \in E
  BY <1>2, <1>3, UpTo
<1>5. \A k \in 0 .. n : h[1 .. k] \in V
  BY <1>4 DEF E
<1>6. f \in [0 .. n -> V]
  BY <1>5
<1>7. f[0] = base /\ f[n] = h[1 .. n]
  <2>1. 0 \in 0 .. n /\ n \in 0 .. n
    OBVIOUS
  <2>2. f[0] = h[1 .. 0] /\ f[n] = h[1 .. n]
    BY <2>1, Zenon
  <2> HIDE DEF f
  <2> QED
    BY <1>1, <2>2, Zenon
<1>8. ASSUME NEW k \in 1 .. n PROVE f[k] = G[k][f[k - 1]]
  <2>1. k \in 0 .. n /\ k - 1 \in 0 .. n
    OBVIOUS
  <2>2. f[k] = h[1 .. k] /\ f[k - 1] = h[1 .. k - 1]
    BY <2>1
  <2>3. h[1 .. k] = G[k][h[1 .. k - 1]]
    BY <1>5, <2>1 DEF Folds
  <2> HIDE DEF f
  <2> QED
    BY <2>2, <2>3
<1> HIDE DEF f
<1>9. Chain(f, n, base, G)
  BY <1>7, <1>8 DEF Chain
<1> QED
  BY <1>6, <1>7, <1>9

(* The block argz_create allocates has room for each string.               *)
Joins(f, v, n) == f[0] = <<>> /\ \A i \in 1 .. n : f[i] = f[i - 1] \o Bytes(v[i])

Grows(a, s, b) == \E x \in Nat : \E y \in Nat : x = Len(a) /\ y = Len(s) /\ Len(b) = x + y + 1

(* Each string makes what precedes it longer by its bytes and one.         *)
LEMMA JointRoom ==
  ASSUME NEW n \in Nat, NEW S, NUL \in S, NEW v \in Seq(Seq(S)), n = Len(v),
         NEW f \in [0 .. n -> Seq(S)], Joins(f, v, n)
  PROVE  /\ \A i \in 1 .. n : Grows(f[i - 1], v[i], f[i])
         /\ \A i \in 1 .. n : Len(f[i]) <= Len(f[n])
<1>1. ASSUME NEW i \in 1 .. n
      PROVE  v[i] \in Seq(S) /\ Len(f[i]) = Len(f[i - 1]) + Len(v[i]) + 1 /\ Len(f[i]) \in Nat /\ Len(f[i - 1]) \in Nat
             /\ Len(v[i]) \in Nat
  <2>1. v[i] \in Seq(S) /\ f[i - 1] \in Seq(S) /\ f[i] \in Seq(S) /\ f[i] = f[i - 1] \o Bytes(v[i])
    <3>1. i - 1 \in 0 .. n /\ i \in 0 .. n
      OBVIOUS
    <3>2. f[i - 1] \in Seq(S) /\ f[i] \in Seq(S)
      BY <3>1
    <3>3. f[i] = f[i - 1] \o Bytes(v[i])
      BY DEF Joins
    <3>4. v[i] \in Seq(S)
      OBVIOUS
    <3> QED
      BY <3>2, <3>3, <3>4
  <2>2. Bytes(v[i]) \in Seq(S) /\ Len(Bytes(v[i])) = Len(v[i]) + 1
    BY <2>1, BytesIs
  <2> DEFINE a == f[i - 1]
             b == Bytes(v[i])
  <2>3. a \in Seq(S) /\ b \in Seq(S) /\ f[i] = a \o b
    BY <2>1, <2>2
  <2> HIDE DEF a, b
  <2>4. Len(a \o b) = Len(a) + Len(b)
    BY <2>3, Concat
  <2>5. Len(v[i]) \in Nat /\ Len(a) \in Nat /\ Len(f[i]) \in Nat
    BY <2>1, <2>3
  <2> DEFINE z == Len(v[i])
  <2>6. Len(f[i]) = Len(a) + (z + 1)
    BY <2>2, <2>3, <2>4 DEF b
  <2> HIDE DEF z
  <2>7. Len(f[i]) = Len(a) + z + 1
    BY <2>5, <2>6 DEF z
  <2> QED
    BY <2>1, <2>5, <2>7 DEF a, z
<1> DEFINE E == {p \in Int : p \in 1 .. n => Len(f[p]) <= Len(f[n])}
<1>2. \A p \in 1 .. n : (\A q \in p + 1 .. n : q \in E) => p \in E
  <2> SUFFICES ASSUME NEW p \in 1 .. n, \A q \in p + 1 .. n : q \in E PROVE p \in E
    OBVIOUS
  <2>1. CASE p = n
    <3>1. Len(f[n]) \in Nat
      BY <1>1, <2>1
    <3>2. Len(f[p]) <= Len(f[n])
      BY <2>1, <3>1
    <3> QED
      BY <3>2
  <2>2. CASE p # n
    <3>1. p + 1 \in 1 .. n /\ p + 1 \in p + 1 .. n /\ (p + 1) - 1 = p /\ p + 1 \in Int /\ n \in 1 .. n
      BY <2>2
    <3>2. Len(f[p + 1]) <= Len(f[n])
      BY <3>1
    <3>3. Len(f[p + 1]) = Len(f[p]) + Len(v[p + 1]) + 1 /\ Len(f[p]) \in Nat /\ Len(v[p + 1]) \in Nat
      BY <1>1, <3>1
    <3>4. Len(f[n]) \in Nat
      BY <1>1, <3>1
    <3>5. Len(f[p]) <= Len(f[n])
      <4> DEFINE x == Len(f[p])
                 y == Len(f[p + 1])
                 z == Len(f[n])
                 w == Len(v[p + 1])
      <4>1. x \in Nat /\ w \in Nat /\ z \in Nat /\ y = x + w + 1 /\ y <= z
        BY <3>2, <3>3, <3>4
      <4> HIDE DEF x, y, z, w
      <4>2. x <= z
        BY <4>1
      <4> QED
        BY <4>2 DEF x, z
    <3> QED
      BY <3>5
  <2> QED
    BY <2>1, <2>2
<1> HIDE DEF E
<1>3. \A p \in 1 .. n : p \in E
  BY <1>2, DownFrom
<1>4. \A p \in 1 .. n : Len(f[p]) <= Len(f[n])
  BY <1>3 DEF E
<1>5. \A i \in 1 .. n : Grows(f[i - 1], v[i], f[i])
  BY <1>1 DEF Grows
<1> QED
  BY <1>4, <1>5

(* The fold of argz_create                                                 *)
CreateFold(strs) ==
  FoldLeft(PutString, [block |-> malloc(Len(Joint(strs))), p |-> 1], strs)

(* argz_create is that fold.                                               *)
LEMMA CreateIs ==
  ASSUME NEW strs
  PROVE  argz_create(strs) = Vector(CreateFold(strs).block, Len(Joint(strs)))
BY DEF argz_create, CreateFold, PutString, FoldLeft, MapThenFoldSet

-----------------------------------------------------------------------------
(* Entries and matches.                                                    *)

(* A place in a vector has a string, which ends in the vector.             *)
LEMMA EntryIs ==
  ASSUME NEW v, Good(v), NEW p \in 1 .. v.len
  PROVE  \E l \in Nat : StringOf(v.argz, p, l) /\ p + l <= v.len /\ strlen(v.argz, p) = l
<1> DEFINE a == v.argz
           len == v.len
           S == {i \in Int : At(a, p + i) = NUL}
<1>1. a \in Memories /\ len \in Nat /\ DOMAIN a = 1 .. Len(a) /\ len <= Len(a) /\ p \in Int /\ p <= len /\ p >= 1
  BY DEF Good, Memories
<1>2. \A i \in 1 .. len : At(a, i) \in Octet
  BY <1>1 DEF Good, At
<1>3. At(a, len) = NUL
  BY <1>1 DEF Good, At
<1> HIDE DEF a, len
<1>4. PICK l \in 0 .. len - p : (l = len - p \/ l \in S) /\ \A j \in 0 .. l - 1 : j \notin S
  <2>1. len - p \in Nat
    BY <1>1
  <2> QED
    BY <2>1, FirstExists
<1>5. l \in Nat /\ p + l <= len /\ (l = len - p => p + l = len)
  BY <1>1
<1>6. At(a, p + l) = NUL
  BY <1>3, <1>4, <1>5
<1>7. ASSUME NEW j \in 0 .. l - 1 PROVE At(a, p + j) \notin {NUL, Outside}
  <2>1. p + j \in 1 .. len /\ j \in Int
    BY <1>1, <1>5
  <2> QED
    BY <1>2, <1>4, <2>1, OctetIs
<1>8. StringOf(a, p, l)
  BY <1>6, <1>7 DEF StringOf
<1>9. strlen(a, p) = l
  BY <1>1, <1>5, <1>8, StrlenIs
<1> QED
  BY <1>5, <1>8, <1>9 DEF a, len

(* Where the entries of a vector start                                     *)
Starts(v) == {p \in 1 .. v.len : p = 1 \/ v.argz[p - 1] = NUL}

(* argz_extract finds starts of entries.                                   *)
LEMMA ExtractIs ==
  ASSUME NEW v, Good(v)
  PROVE  argz_extract(v.argz, v.len) \in Seq(Starts(v))
<1> DEFINE a == v.argz
           l == v.len
           n == l + 1
           S == Starts(v)
           K == [p \in 1 .. n |-> p + strlen(a, p) + 1]
           Loop(f) == f = [p \in 1 .. n |-> IF p > l THEN <<>> ELSE <<p>> \o f[K[p]]]
           W == Seq(1 .. l)
           C == {p \in 1 .. n : p > l}
           B == [p \in 1 .. n |-> <<>>]
           G == [p \in 1 .. n |-> [x \in W |-> <<p>> \o x]]
<1>1. l \in Nat /\ n = l + 1 /\ n \in Nat
  BY DEF Good
<1>s. S = {p \in 1 .. l : p = 1 \/ a[p - 1] = NUL}
  BY DEF Starts
<1> HIDE DEF a, n, S
<1>2. ASSUME NEW p \in 1 .. l
      PROVE  K[p] \in p + 1 .. n /\ (K[p] \in S \/ K[p] = n)
  <2>1. PICK k \in Nat : StringOf(a, p, k) /\ p + k <= l /\ strlen(a, p) = k
    BY EntryIs DEF a
  <2>2. p \in 1 .. n
    BY <1>1
  <2>3. K[p] = p + k + 1
    BY <2>1, <2>2
  <2>4. p + k + 1 \in p + 1 .. n /\ p + k \in 1 .. l /\ (p + k + 1) - 1 = p + k /\ p \in Int
    BY <1>1, <2>1
  <2>5. a[p + k] = NUL
    <3>1. a \in Memories /\ DOMAIN a = 1 .. Len(a) /\ l <= Len(a) /\ Len(a) \in Nat
      BY DEF Good, Memories, a
    <3>2. At(a, p + k) = NUL
      BY <2>1 DEF StringOf
    <3>3. p + k \in DOMAIN a
      BY <1>1, <2>4, <3>1
    <3> QED
      BY <3>2, <3>3 DEF At
  <2>6. p + k + 1 \in 1 .. l => p + k + 1 \in S
    BY <1>s, <2>4, <2>5
  <2> HIDE DEF K, l
  <2> QED
    BY <1>1, <2>3, <2>4, <2>6
<1>k. \A p \in 1 .. n : K[p] = p + strlen(a, p) + 1
  OBVIOUS
<1> HIDE DEF K, l
<1>3. ASSUME NEW p \in 1 .. l, NEW T, p \in T, NEW x \in Seq(T) PROVE <<p>> \o x \in Seq(T)
  <2>1. <<p>> \in Seq(T)
    BY <1>3
  <2> QED
    BY <2>1, Concat
<1>4. PICK g \in [1 .. n -> W] : JumpOf(g, n, C, B, K, G)
  <2>1. \A p \in 1 .. n : p \in C => B[p] \in W
    OBVIOUS
  <2>2. \A p \in 1 .. n : p \notin C => K[p] \in p + 1 .. n /\ \A x \in W : G[p][x] \in W
    <3> SUFFICES ASSUME NEW p \in 1 .. n, p \notin C
                 PROVE  K[p] \in p + 1 .. n /\ \A x \in W : G[p][x] \in W
      OBVIOUS
    <3>1. p \in 1 .. l
      BY <1>1
    <3>2. \A x \in W : <<p>> \o x \in W
      BY <1>3, <3>1
    <3> QED
      BY <1>2, <3>1, <3>2
  <2> HIDE DEF W, C, B, G
  <2>3. Jumps(n, W, C, B, K, G)
    BY <2>1, <2>2 DEF Jumps
  <2> QED
    BY <1>1, <2>3, JumpExists
<1>5. Loop(g)
  <2>1. ASSUME NEW p \in 1 .. n
        PROVE  g[p] = IF p > l THEN <<>> ELSE <<p>> \o g[K[p]]
    <3>1. g[p] = IF p \in C THEN B[p] ELSE G[p][g[K[p]]]
      BY <1>4 DEF JumpOf
    <3>2. CASE p \in C
      <4>1. B[p] = <<>> /\ p > l
        BY <3>2, SMTT(15)
      <4> QED
        BY <3>1, <3>2, <4>1
    <3>3. CASE p \notin C
      <4>1. p \in 1 .. l /\ ~(p > l)
        BY <1>1, <3>3
      <4>2. K[p] \in 1 .. n
        BY <1>1, <1>2, <4>1
      <4>3. g[K[p]] \in W
        BY <4>2
      <4>4. G[p][g[K[p]]] = <<p>> \o g[K[p]]
        BY <4>3
      <4> QED
        BY <3>1, <3>3, <4>1, <4>4
    <3> QED
      BY <3>2, <3>3
  <2>2. g = [p \in 1 .. n |-> g[p]]
    BY <1>4
  <2> HIDE DEF W, C, B, G
  <2> QED
    BY <2>1, <2>2
<1> DEFINE From(f) == f = [p \in 1 .. n |-> IF p > l THEN <<>> ELSE <<p>> \o f[p + strlen(a, p) + 1]]
<1>6. ASSUME NEW f PROVE Loop(f) <=> From(f)
  BY <1>k
<1>7. \E f : f = [p \in 1 .. l + 1 |-> IF p > l THEN <<>> ELSE <<p>> \o f[p + strlen(a, p) + 1]]
  <2>1. From(g)
    BY <1>5, <1>6
  <2> QED
    BY <1>1, <2>1
<1>8. PICK f : From(f) /\ argz_extract(v.argz, v.len) = f[1]
  BY <1>1, <1>7 DEF argz_extract, a, l
<1>9. \A p \in 1 .. n : f[p] = IF p > l THEN <<>> ELSE <<p>> \o f[K[p]]
  <2>1. Loop(f)
    BY <1>6, <1>8
  <2> QED
    BY <2>1
<1> DEFINE E == {p \in Int : p \in S \/ p = n => f[p] \in Seq(S)}
<1>10. ASSUME NEW p \in 1 .. n, \A q \in p + 1 .. n : q \in E PROVE p \in E
  <2> SUFFICES ASSUME p \in S \/ p = n PROVE f[p] \in Seq(S)
    OBVIOUS
  <2>1. CASE p > l
    <3>1. f[p] = <<>>
      BY <1>9, <2>1
    <3> QED
      BY <3>1
  <2>2. CASE ~(p > l)
    <3>1. p \in 1 .. l /\ p \in S
      BY <1>1, <2>2
    <3>2. K[p] \in p + 1 .. n /\ (K[p] \in S \/ K[p] = n)
      BY <1>2, <3>1
    <3>3. f[K[p]] \in Seq(S)
      BY <1>10, <3>2
    <3>4. f[p] = <<p>> \o f[K[p]]
      BY <1>9, <2>2
    <3> QED
      BY <1>3, <3>1, <3>3, <3>4
  <2> QED
    BY <2>1, <2>2
<1>11. \A p \in 1 .. n : p \in E
  <2> HIDE DEF E
  <2> QED
    BY <1>1, <1>10, DownFrom
<1>12. 1 \in 1 .. n /\ (1 \in S \/ 1 = n)
  BY <1>1, <1>s
<1>13. f[1] \in Seq(S)
  BY <1>11, <1>12
<1> QED
  BY <1>8, <1>13 DEF S

(* A match lies in the block, after the place where the search starts, and *)
(* before the terminator that follows it.                                  *)
LEMMA MatchIs ==
  ASSUME NEW a \in Seq(Int), NEW from \in 1 .. Len(a) + 1, NEW str \in Seq(Char), str # <<>>
  PROVE  \/ Match(a, from, str) = NULL
         \/ /\ Match(a, from, str) \in Int /\ Match(a, from, str) >= from
            /\ \A q \in from .. Match(a, from, str) + Len(str) - 1 : q \in 1 .. Len(a) /\ a[q] # NUL
<1> DEFINE n == Len(a)
           l == Len(str)
           b == Bytes(str)
           m == a \o <<Outside>> \o b
           needle == n + 2
           L == strlen(m, from)
           S == {k \in Int : Matched(m, from + k, needle)}
<1>1. n \in Nat /\ l \in Nat \ {0} /\ from \in Int /\ from >= 1 /\ from <= n + 1
  <2>1. l # 0
    OBVIOUS
  <2>2. n \in Nat /\ l \in Nat
    OBVIOUS
  <2>3. from \in 1 .. n + 1
    OBVIOUS
  <2> HIDE DEF n, l
  <2> QED
    BY <2>1, <2>2, <2>3
<1>2. /\ b \in Seq(Int) /\ Len(b) = l + 1 /\ b[l + 1] = NUL
      /\ \A i \in 1 .. l : b[i] \in Char
  <2>1. str \in Seq(Octet) /\ NUL \in Octet
    BY StringIs, OctetIs
  <2>2. /\ b \in Seq(Octet) /\ Len(b) = l + 1 /\ b[l + 1] = NUL
        /\ \A i \in 1 .. l : b[i] = str[i]
    BY <2>1, BytesIs
  <2>3. \A i \in 1 .. l : str[i] \in Char
    OBVIOUS
  <2> HIDE DEF b, l
  <2>4. b \in Seq(Int)
    BY <2>2, OctetIs
  <2> QED
    BY <2>2, <2>3, <2>4
<1> HIDE DEF b, l
<1>3. /\ m \in Memories /\ Len(m) = n + 1 + (l + 1)
      /\ \A i \in 1 .. n : At(m, i) = a[i]
      /\ At(m, n + 1) = Outside
      /\ \A i \in 1 .. l + 1 : At(m, n + 1 + i) = b[i]
      /\ m[n + 1 + 1] = b[1]
  <2>1. /\ m \in Memories /\ Len(m) = n + 1 + Len(b)
        /\ \A i \in 1 .. n : At(m, i) = a[i]
        /\ At(m, n + 1) = Outside
        /\ \A i \in 1 .. Len(b) : m[n + 1 + i] = b[i] /\ At(m, n + 1 + i) = b[i]
    BY <1>2, Apart
  <2> HIDE DEF m, n
  <2>2. 1 \in 1 .. Len(b)
    BY <1>1, <1>2
  <2> QED
    BY <1>2, <2>1, <2>2
<1> HIDE DEF m, n
<1>4. /\ \A i \in 0 .. l - 1 : At(m, needle + i) \notin {NUL, Outside}
      /\ At(m, needle + l) = NUL
      /\ m[needle] # NUL
  <2>1. ASSUME NEW i \in 0 .. l - 1 PROVE At(m, needle + i) \notin {NUL, Outside}
    <3>1. i + 1 \in 1 .. l /\ i + 1 \in 1 .. l + 1 /\ n + 1 + (i + 1) = needle + i
      BY <1>1
    <3>2. At(m, needle + i) = b[i + 1]
      BY <1>3, <3>1
    <3> QED
      BY <1>2, <3>1, <3>2 DEF Char
  <2>2. l + 1 \in 1 .. l + 1 /\ n + 1 + (l + 1) = needle + l /\ 1 \in 1 .. l /\ n + 1 + 1 = needle
    BY <1>1
  <2>3. m[needle] # NUL
    BY <1>2, <1>3, <2>2 DEF Char
  <2> QED
    BY <1>2, <1>3, <2>1, <2>2, <2>3
<1>5. needle \in Int
  BY <1>1
<1> HIDE DEF needle
<1>6. L \in Nat /\ \A j \in 0 .. L - 1 : At(m, from + j) \notin {NUL, Outside}
  <2>1. Len(m) + 1 - from \in Nat
    BY <1>1, <1>3
  <2>2. /\ strnlen(m, from, Len(m) + 1 - from) \in 0 .. (Len(m) + 1 - from)
        /\ \A j \in 0 .. strnlen(m, from, Len(m) + 1 - from) - 1 : At(m, from + j) \notin {NUL, Outside}
    BY <1>1, <1>3, <2>1, StrnlenIs
  <2> QED
    BY <2>1, <2>2 DEF strlen
<1> HIDE DEF L
<1>7. PICK i \in 0 .. L : /\ (i = L \/ i \in S) /\ \A j \in 0 .. i - 1 : j \notin S
                          /\ Match(a, from, str) = IF i = L THEN NULL ELSE from + i
  <2>1. \E i \in 0 .. L : (i = L \/ i \in S) /\ \A j \in 0 .. i - 1 : j \notin S
    BY <1>6, FirstExists
  <2>2. \E i \in 0 .. L : (i = L \/ Matched(m, from + i, needle)) /\ \A j \in 0 .. i - 1 : ~Matched(m, from + j, needle)
    <3>1. PICK x \in 0 .. L : (x = L \/ x \in S) /\ \A j \in 0 .. x - 1 : j \notin S
      BY <2>1
    <3>2. x = L \/ Matched(m, from + x, needle)
      BY <3>1
    <3>3. ASSUME NEW j \in 0 .. x - 1 PROVE ~Matched(m, from + j, needle)
      <4>1. j \in Int
        BY <1>6
      <4> HIDE DEF S
      <4>2. j \notin S
        BY <3>1
      <4> QED
        BY <4>1, <4>2 DEF S
    <3> QED
      BY <3>2, <3>3
  <2> DEFINE i == FirstStop(L, LAMBDA k : Matched(m, from + k, needle))
  <2>3. i \in 0 .. L /\ (i = L \/ Matched(m, from + i, needle)) /\ \A j \in 0 .. i - 1 : ~Matched(m, from + j, needle)
    BY <2>2 DEF FirstStop
  <2>4. Match(a, from, str) = IF i = L THEN NULL ELSE from + i
    BY <1>4 DEF Match, strstr, m, b, n, L, needle
  <2> HIDE DEF i
  <2>5. (i = L \/ i \in S) /\ \A j \in 0 .. i - 1 : j \notin S
    BY <1>6, <2>3
  <2> QED
    BY <2>3, <2>4, <2>5
<1>8. CASE i = L
  BY <1>7, <1>8
<1>9. CASE i # L
  <2> DEFINE h == from + i
  <2>1. Match(a, from, str) = h /\ Matched(m, h, needle)
    BY <1>7, <1>9
  <2>2. h \in Int /\ h >= from /\ i \in 0 .. L - 1 /\ i \in Int
    BY <1>1, <1>6, <1>9
  <2>3. \A q \in from .. h : At(m, q) \notin {NUL, Outside}
    <3> SUFFICES ASSUME NEW q \in from .. h PROVE At(m, q) \notin {NUL, Outside}
      OBVIOUS
    <3>1. q - from \in 0 .. L - 1 /\ from + (q - from) = q
      BY <1>1, <1>6, <2>2
    <3>2. At(m, from + (q - from)) \notin {NUL, Outside}
      BY <1>6, <3>1
    <3> QED
      BY <3>1, <3>2
  <2> HIDE DEF h
  <2> DEFINE T == {k \in Int : At(m, h + k) = NUL \/ At(m, h + k) # At(m, needle + k)}
             M == Len(m)
  <2>4. M \in Nat
    BY <1>1, <1>3
  <2> HIDE DEF M
  <2>5. PICK j \in 0 .. M : /\ (j = M \/ j \in T) /\ \A k \in 0 .. j - 1 : k \notin T
                            /\ At(m, needle + j) = NUL
    <3>1. \E j \in 0 .. M : (j = M \/ j \in T) /\ \A k \in 0 .. j - 1 : k \notin T
      BY <2>4, FirstExists
    <3>2. \E j \in 0 .. M : /\ j = M \/ At(m, h + j) = NUL \/ At(m, h + j) # At(m, needle + j)
                            /\ \A k \in 0 .. j - 1 : ~(At(m, h + k) = NUL \/ At(m, h + k) # At(m, needle + k))
      BY <3>1
    <3> DEFINE x == FirstStop(M, LAMBDA k : At(m, h + k) = NUL \/ At(m, h + k) # At(m, needle + k))
    <3>3. /\ x \in 0 .. M
          /\ x = M \/ At(m, h + x) = NUL \/ At(m, h + x) # At(m, needle + x)
          /\ \A k \in 0 .. x - 1 : ~(At(m, h + k) = NUL \/ At(m, h + k) # At(m, needle + k))
      BY <3>2 DEF FirstStop
    <3>4. At(m, needle + x) = NUL
      BY <2>1 DEF Matched, M
    <3> HIDE DEF x
    <3>5. (x = M \/ x \in T) /\ \A k \in 0 .. x - 1 : k \notin T
      BY <2>4, <3>3
    <3> QED
      BY <3>3, <3>4, <3>5
  <2>6. j \in Int /\ j >= l
    <3>1. j \in Int /\ j >= 0
      BY <2>4
    <3>2. j \notin 0 .. l - 1
      BY <1>4, <2>5
    <3> QED
      BY <1>1, <3>1, <3>2
  <2>7. \A q \in h .. h + l - 1 : At(m, q) \notin {NUL, Outside}
    <3> SUFFICES ASSUME NEW q \in h .. h + l - 1 PROVE At(m, q) \notin {NUL, Outside}
      OBVIOUS
    <3>1. q - h \in 0 .. l - 1 /\ h + (q - h) = q /\ q - h \in 0 .. j - 1 /\ q - h \in Int
      BY <1>1, <2>2, <2>6
    <3>2. At(m, h + (q - h)) = At(m, needle + (q - h))
      BY <2>5, <3>1
    <3> QED
      BY <1>4, <3>1, <3>2
  <2>8. \A q \in from .. h + l - 1 : At(m, q) \notin {NUL, Outside}
    <3>1. \A q \in from .. h + l - 1 : q \in from .. h \/ q \in h .. h + l - 1
      BY <1>1, <2>2
    <3> QED
      BY <2>3, <2>7, <3>1
  <2>9. ASSUME NEW q \in from .. h + l - 1 PROVE q \in 1 .. n /\ a[q] # NUL
    <3>1. q <= n
      <4>1. n + 1 \notin from .. h + l - 1
        BY <1>3, <2>8
      <4> QED
        BY <1>1, <2>2, <4>1
    <3>2. q \in 1 .. n
      BY <1>1, <3>1
    <3> QED
      BY <1>3, <2>8, <3>2
  <2> QED
    BY <2>1, <2>2, <2>9 DEF l, n
<1> QED
  BY <1>8, <1>9

ReplaceEntry(v, str, with, dst, arg) ==
  IF Match(v.argz, arg, str) # NULL
  THEN argz_add(IF dst.argz = <<>> /\ arg > 1 THEN argz_append(dst, SubSeq(v.argz, 1, arg - 1)) ELSE dst,
                Substituted(v.argz, arg, str, with))
  ELSE IF dst.argz # <<>> THEN argz_add(dst, EntryAt(v.argz, arg))
  ELSE dst

(* The whole loop                                                          *)
ReplaceFold(v, str, with) ==
  FoldLeft(LAMBDA dst, arg : ReplaceEntry(v, str, with, dst, arg), Vector(<<>>, 0), argz_extract(v.argz, v.len))

(* argz_replace is that fold, or the vector it has when nothing matches.   *)
LEMMA ReplaceIs ==
  ASSUME NEW v, NEW str, NEW with
  PROVE  argz_replace(v, str, with) =
           IF ReplaceFold(v, str, with).argz = <<>> THEN v ELSE ReplaceFold(v, str, with)
BY DEF argz_replace, ReplaceFold, ReplaceEntry, FoldLeft, MapThenFoldSet

-----------------------------------------------------------------------------
(* Strings in a block, one after the other.                                *)

(* The string s stands in a after the place b, its terminator at e. *)
StringAt(a, b, e, s) ==
  /\ s \in Seq(Char) /\ e = b + Len(s) + 1 /\ e <= Len(a)
  /\ a[e] = NUL
  /\ \A j \in 1 .. Len(s) : a[b + j] = s[j]

(* The strings ss stand in a one after the other: o[i] is where the i-th   *)
(* ends.                                                                   *)
Laid(a, ss, o) ==
  /\ ss \in Seq(Seq(Char)) /\ o \in [0 .. Len(ss) -> Nat] /\ o[Len(ss)] <= Len(a)
  /\ \A i \in 1 .. Len(ss) : StringAt(a, o[i - 1], o[i], ss[i])

(* Those from b to e are the strings ss.                                   *)
Holds(a, b, e, ss) == \E o : Laid(a, ss, o) /\ o[0] = b /\ o[Len(ss)] = e

(* The bytes of a string and where it ends *)
LEMMA StringAtIs ==
  ASSUME NEW a \in Seq(Int), NEW b \in Nat, NEW e \in Nat, NEW s, StringAt(a, b, e, s)
  PROVE  \E l \in Nat :
           /\ l = Len(s) /\ e = b + l + 1 /\ e <= Len(a)
           /\ \A j \in 1 .. l : a[b + j] = s[j] /\ s[j] \in Char
           /\ a[e] = NUL
           /\ StringOf(a, b + 1, l) /\ strlen(a, b + 1) = l
           /\ SubSeq(a, b + 1, b + l) = s /\ s \in Seq(Char)
<1>1. PICK l \in Nat : l = Len(s)
  BY DEF StringAt
<1>2. s \in Seq(Char) /\ e = b + l + 1 /\ e <= Len(a) /\ Len(a) \in Nat /\ a[e] = NUL
  BY <1>1 DEF StringAt
<1>3. ASSUME NEW j \in 1 .. l PROVE a[b + j] = s[j] /\ s[j] \in Char /\ b + j \in 1 .. Len(a)
  BY <1>1, <1>2, <1>3 DEF StringAt
<1>4. a \in Memories /\ DOMAIN a = 1 .. Len(a) /\ b + 1 \in Int
  BY DEF Memories
<1>5. StringOf(a, b + 1, l)
  <2>1. At(a, b + 1 + l) = NUL
    <3>1. b + 1 + l = e /\ e \in 1 .. Len(a)
      BY <1>2
    <3> QED
      BY <1>2, <1>4, <3>1 DEF At
  <2>2. ASSUME NEW j \in 0 .. l - 1 PROVE At(a, b + 1 + j) \notin {NUL, Outside}
    <3>1. j + 1 \in 1 .. l /\ b + (j + 1) = b + 1 + j
      OBVIOUS
    <3>2. a[b + 1 + j] \in Char /\ b + 1 + j \in DOMAIN a
      BY <1>3, <1>4, <3>1
    <3>3. At(a, b + 1 + j) = a[b + 1 + j]
      BY <3>2 DEF At
    <3> QED
      BY <3>2, <3>3 DEF Char
  <2> QED
    BY <2>1, <2>2 DEF StringOf
<1>6. strlen(a, b + 1) = l
  BY <1>4, <1>5, StrlenIs
<1>7. SubSeq(a, b + 1, b + l) = s
  <2> DEFINE r == SubSeq(a, b + 1, b + l)
  <2>0. b + 1 \in Int /\ b + l \in Int /\ 1 <= b + 1 /\ b + l <= Len(a)
    BY <1>2
  <2>1. r \in Seq(Int) /\ Len(r) = l /\ \A j \in 1 .. l : r[j] = a[b + j]
    <3>1. Len(r) = l /\ \A j \in 1 .. l : r[j] = a[b + j]
      BY <1>2, <2>0
    <3> QED
      BY <3>1, <1>2, <2>0, SubSeqProperties, SMTT(15)
  <2>2. s \in Seq(Int)
    BY <1>2 DEF Char
  <2> HIDE DEF r
  <2>3. \A j \in 1 .. l : r[j] = s[j]
    BY <1>3, <2>1
  <2>4. r = s
    BY <1>1, <2>1, <2>2, <2>3, SeqEqual
  <2> QED
    BY <2>4 DEF r
<1> QED
  BY <1>1, <1>2, <1>3, <1>5, <1>6, <1>7

(* A string takes room.                                                    *)
LEMMA StringAtUp ==
  ASSUME NEW a \in Seq(Int), NEW b \in Nat, NEW e \in Nat, NEW s, StringAt(a, b, e, s)
  PROVE  b < e
<1>1. s \in Seq(Char) /\ e = b + Len(s) + 1
  BY DEF StringAt
<1>2. Len(s) \in Nat
  BY <1>1
<1> QED
  BY <1>1, <1>2

(* The ends go up, one by one at least.                                    *)
LEMMA LaidOrder ==
  ASSUME NEW a \in Seq(Int), NEW ss, NEW o, Laid(a, ss, o)
  PROVE  \E n \in Nat :
           /\ n = Len(ss) /\ o \in [0 .. n -> Nat] /\ o[n] <= Len(a)
           /\ \A i \in 1 .. n : o[i - 1] \in Nat /\ o[i] \in Nat /\ o[i - 1] < o[i]
           /\ \A j \in 0 .. n : \A i \in 0 .. j : o[i] + (j - i) <= o[j]
<1>1. PICK n \in Nat : n = Len(ss)
  BY DEF Laid
<1>2. o \in [0 .. n -> Nat] /\ o[n] <= Len(a)
  BY <1>1 DEF Laid
<1>3. ASSUME NEW i \in 1 .. n PROVE o[i - 1] \in Nat /\ o[i] \in Nat /\ o[i - 1] < o[i]
  <2>1. i - 1 \in 0 .. n /\ i \in 0 .. n
    OBVIOUS
  <2>2. o[i - 1] \in Nat /\ o[i] \in Nat
    BY <1>2, <2>1
  <2>3. StringAt(a, o[i - 1], o[i], ss[i])
    BY <1>1 DEF Laid
  <2> QED
    BY <2>2, <2>3, StringAtUp
<1> DEFINE S == {j \in Int : \A i \in 0 .. j : o[i] + (j - i) <= o[j]}
<1>4. 0 \in S
  BY <1>2
<1>5. ASSUME NEW j \in 1 .. n, j - 1 \in S PROVE j \in S
  <2> SUFFICES ASSUME NEW i \in 0 .. j PROVE o[i] + (j - i) <= o[j]
    OBVIOUS
  <2>1. o[j] \in Nat /\ o[j - 1] \in Nat /\ o[j - 1] < o[j] /\ i \in Int /\ o[i] \in Nat
    BY <1>2, <1>3
  <2>2. CASE i = j
    BY <2>1, <2>2
  <2>3. CASE i # j
    <3>1. i \in 0 .. j - 1
      BY <2>3
    <3>2. o[i] + ((j - 1) - i) <= o[j - 1]
      BY <1>5, <3>1
    <3> QED
      BY <2>1, <3>2
  <2> QED
    BY <2>2, <2>3
<1>6. \A j \in 0 .. n : j \in S
  <2> HIDE DEF S
  <2> QED
    BY <1>4, <1>5, UpTo
<1> QED
  BY <1>1, <1>2, <1>3, <1>6

(* Strings laid from b to e                                                *)
LEMMA HoldsIs ==
  ASSUME NEW a \in Seq(Int), NEW b, NEW e, NEW ss, Holds(a, b, e, ss)
  PROVE  /\ b \in Nat /\ e \in Nat /\ b <= e /\ e <= Len(a) /\ Len(a) \in Nat
         /\ ss \in Seq(Seq(Char)) /\ Len(ss) \in Nat /\ e - b >= Len(ss)
         /\ ss = <<>> <=> b = e
<1>1. PICK o : Laid(a, ss, o) /\ o[0] = b /\ o[Len(ss)] = e
  BY DEF Holds
<1>2. PICK n \in Nat :
           /\ n = Len(ss) /\ o \in [0 .. n -> Nat] /\ o[n] <= Len(a)
           /\ \A j \in 0 .. n : \A i \in 0 .. j : o[i] + (j - i) <= o[j]
  BY <1>1, LaidOrder
<1>3. o[0] + n <= o[n] /\ o[0] \in Nat /\ o[n] \in Nat
  <2>1. n \in 0 .. n /\ 0 \in 0 .. n /\ n - 0 = n
    OBVIOUS
  <2>2. o[0] + (n - 0) <= o[n]
    BY <1>2, <2>1
  <2>3. o[0] \in Nat /\ o[n] \in Nat
    BY <1>2, <2>1
  <2> QED
    BY <2>1, <2>2, <2>3
<1>4. ss \in Seq(Seq(Char))
  BY <1>1 DEF Laid
<1>5. ss = <<>> <=> n = 0
  BY <1>2, <1>4, EmptySeq
<1> QED
  BY <1>1, <1>2, <1>3, <1>4, <1>5

(* No string                                                               *)
LEMMA HoldsNone ==
  ASSUME NEW a \in Seq(Int), NEW b \in 0 .. Len(a)
  PROVE  Holds(a, b, b, <<>>)
<1> DEFINE o == [i \in 0 .. 0 |-> b]
<1>1. <<>> \in Seq(Seq(Char)) /\ Len(<<>>) = 0 /\ b \in Nat /\ o \in [0 .. 0 -> Nat] /\ o[0] = b
  OBVIOUS
<1>2. Laid(a, <<>>, o)
  BY <1>1 DEF Laid
<1> QED
  BY <1>1, <1>2 DEF Holds

(* One string                                                              *)
LEMMA HoldsOne ==
  ASSUME NEW a \in Seq(Int), NEW b \in Nat, NEW e \in Nat, NEW s, StringAt(a, b, e, s)
  PROVE  Holds(a, b, e, <<s>>)
<1> DEFINE o == [i \in 0 .. 1 |-> IF i = 0 THEN b ELSE e]
           ss == <<s>>
<1>1. /\ ss \in Seq(Seq(Char)) /\ Len(ss) = 1 /\ ss[1] = s
      /\ o \in [0 .. 1 -> Nat] /\ o[0] = b /\ o[1] = e /\ e <= Len(a)
  BY DEF StringAt
<1>2. Laid(a, ss, o)
  <2> SUFFICES ASSUME NEW i \in 1 .. 1 PROVE StringAt(a, o[i - 1], o[i], ss[i])
    BY <1>1 DEF Laid
  <2>1. i = 1 /\ i - 1 = 0
    OBVIOUS
  <2> QED
    BY <1>1, <2>1
<1> QED
  BY <1>1, <1>2 DEF Holds

(* Strings followed by others                                              *)
LEMMA HoldsJoin ==
  ASSUME NEW a \in Seq(Int), NEW b, NEW m, NEW e, NEW ss, NEW tt, Holds(a, b, m, ss), Holds(a, m, e, tt)
  PROVE  Holds(a, b, e, ss \o tt)
<1>1. PICK o : Laid(a, ss, o) /\ o[0] = b /\ o[Len(ss)] = m
  BY DEF Holds
<1>2. PICK q : Laid(a, tt, q) /\ q[0] = m /\ q[Len(tt)] = e
  BY DEF Holds
<1>3. PICK n \in Nat : n = Len(ss) /\ o \in [0 .. n -> Nat] /\ o[n] <= Len(a)
  BY <1>1, LaidOrder
<1>4. PICK k \in Nat : k = Len(tt) /\ q \in [0 .. k -> Nat] /\ q[k] <= Len(a)
  BY <1>2, LaidOrder
<1> DEFINE r == ss \o tt
           h == [i \in 0 .. n + k |-> IF i <= n THEN o[i] ELSE q[i - n]]
<1>5. /\ r \in Seq(Seq(Char)) /\ Len(r) = n + k
      /\ \A i \in 1 .. n : r[i] = ss[i]
      /\ \A i \in 1 .. k : r[n + i] = tt[i]
  <2>1. ss \in Seq(Seq(Char)) /\ tt \in Seq(Seq(Char))
    BY <1>1, <1>2 DEF Laid
  <2> QED
    BY <1>3, <1>4, <2>1, Concat
<1>6. \A i \in 0 .. n : h[i] = o[i]
  OBVIOUS
<1>7. \A i \in 0 .. k : h[n + i] = q[i]
  <2> SUFFICES ASSUME NEW i \in 0 .. k PROVE h[n + i] = q[i]
    OBVIOUS
  <2>1. n + i \in 0 .. n + k /\ (n + i) - n = i /\ (n + i <= n <=> i = 0)
    OBVIOUS
  <2>2. h[n + i] = IF n + i <= n THEN o[n + i] ELSE q[(n + i) - n]
    BY <2>1
  <2>3. CASE i = 0
    BY <1>1, <1>2, <1>3, <2>1, <2>2, <2>3
  <2>4. CASE i # 0
    BY <2>1, <2>2, <2>4
  <2> QED
    BY <2>3, <2>4
<1>8. h \in [0 .. n + k -> Nat]
  <2> SUFFICES ASSUME NEW i \in 0 .. n + k PROVE (IF i <= n THEN o[i] ELSE q[i - n]) \in Nat
    OBVIOUS
  <2>1. CASE i <= n
    <3>1. i \in 0 .. n
      BY <2>1
    <3>2. o[i] \in Nat
      BY <1>3, <3>1
    <3> QED
      BY <2>1, <3>2
  <2>2. CASE ~(i <= n)
    <3>1. i - n \in 0 .. k
      BY <2>2
    <3> QED
      BY <1>4, <2>2, <3>1
  <2> QED
    BY <2>1, <2>2
<1>9. h[0] = b /\ h[n + k] = e
  <2>1. 0 \in 0 .. n /\ k \in 0 .. k
    OBVIOUS
  <2> HIDE DEF h
  <2> QED
    BY <1>1, <1>2, <1>4, <1>6, <1>7, <2>1
<1> HIDE DEF h, r
<1>10. ASSUME NEW i \in 1 .. n + k PROVE StringAt(a, h[i - 1], h[i], r[i])
  <2>1. CASE i <= n
    <3>1. i \in 1 .. n /\ i \in 0 .. n /\ i - 1 \in 0 .. n
      BY <2>1
    <3>2. StringAt(a, o[i - 1], o[i], ss[i])
      BY <1>1, <1>3, <3>1 DEF Laid
    <3> QED
      BY <1>5, <1>6, <3>1, <3>2
  <2>2. CASE ~(i <= n)
    <3> DEFINE j == i - n
    <3>1. j \in 1 .. k /\ j \in 0 .. k /\ j - 1 \in 0 .. k /\ n + j = i /\ n + (j - 1) = i - 1
      BY <2>2
    <3>2. StringAt(a, q[j - 1], q[j], tt[j])
      BY <1>2, <1>4, <3>1 DEF Laid
    <3> HIDE DEF j
    <3>3. h[i] = q[j] /\ h[i - 1] = q[j - 1] /\ r[i] = tt[j]
      BY <1>5, <1>7, <3>1
    <3> QED
      BY <3>2, <3>3
  <2> QED
    BY <2>1, <2>2
<1>11. Laid(a, r, h)
  <2>1. h[n + k] <= Len(a)
    BY <1>2, <1>4, <1>9
  <2> QED
    BY <1>5, <1>8, <1>10, <2>1 DEF Laid
<1> QED
  BY <1>5, <1>9, <1>11 DEF Holds, r

(* The strings up to one, and those after it                               *)
LEMMA LaidCut ==
  ASSUME NEW a \in Seq(Int), NEW ss, NEW o, Laid(a, ss, o), NEW n \in Nat, n = Len(ss), NEW i \in 0 .. n
  PROVE  /\ Holds(a, o[0], o[i], SubSeq(ss, 1, i))
         /\ Holds(a, o[i], o[n], SubSeq(ss, i + 1, n))
<1>1. /\ ss \in Seq(Seq(Char)) /\ o \in [0 .. n -> Nat] /\ o[n] <= Len(a)
      /\ \A j \in 1 .. n : StringAt(a, o[j - 1], o[j], ss[j])
  BY DEF Laid
<1>2. o[i] \in Nat /\ o[i] <= o[n] /\ Len(a) \in Nat /\ o[n] \in Nat
  <2>1. n \in 0 .. n /\ i \in 0 .. n
    OBVIOUS
  <2>2. o[i] + (n - i) <= o[n]
    <3>1. \A j \in 0 .. n : \A k \in 0 .. j : o[k] + (j - k) <= o[j]
      BY LaidOrder
    <3> QED
      BY <2>1, <3>1
  <2>3. o[i] \in Nat /\ o[n] \in Nat
    BY <1>1, <2>1
  <2> QED
    BY <2>2, <2>3
<1> DEFINE s == SubSeq(ss, 1, i)
           t == SubSeq(ss, i + 1, n)
           p == [j \in 0 .. i |-> o[j]]
           q == [j \in 0 .. n - i |-> o[i + j]]
<1>3. s \in Seq(Seq(Char)) /\ Len(s) = i /\ \A j \in 1 .. i : s[j] = ss[j]
  <2>1. 1 \in Int /\ i \in Int /\ i <= Len(ss)
    OBVIOUS
  <2>2. Len(s) = i /\ \A j \in 1 .. i : s[j] = ss[j]
    BY <1>1, <2>1
  <2>3. \A j \in 1 .. i : s[j] \in Seq(Char)
    BY <1>1, <2>2
  <2> QED
    BY <1>1, <2>2, SubSeqProperties
<1>4. t \in Seq(Seq(Char)) /\ Len(t) = n - i /\ \A j \in 1 .. n - i : t[j] = ss[i + j]
  <2>1. i + 1 \in Int /\ n \in Int /\ 1 <= i + 1 /\ n <= Len(ss)
    OBVIOUS
  <2>2. Len(t) = n - i /\ \A j \in 1 .. n - i : t[j] = ss[i + j]
    BY <1>1, <2>1
  <2> QED
    BY <1>1, <2>2, SubSeqProperties
<1>5. p \in [0 .. i -> Nat] /\ \A j \in 0 .. i : p[j] = o[j]
  <2> HIDE DEF s, t, q
  <2>1. ASSUME NEW j \in 0 .. i PROVE o[j] \in Nat
    <3>1. j \in 0 .. n
      OBVIOUS
    <3> QED
      BY <1>1, <3>1
  <2> QED
    BY <2>1
<1>6. q \in [0 .. n - i -> Nat] /\ \A j \in 0 .. n - i : q[j] = o[i + j]
  BY <1>1
<1> HIDE DEF s, t, p, q
<1>7. Holds(a, o[0], o[i], s)
  <2>1. ASSUME NEW j \in 1 .. i PROVE StringAt(a, p[j - 1], p[j], s[j])
    <3>1. j \in 1 .. n /\ j \in 0 .. i /\ j - 1 \in 0 .. i
      OBVIOUS
    <3> QED
      BY <1>1, <1>3, <1>5, <3>1
  <2>2. p[0] = o[0] /\ p[i] = o[i] /\ p[i] <= Len(a)
    <3>1. 0 \in 0 .. i /\ i \in 0 .. i
      OBVIOUS
    <3> QED
      BY <1>1, <1>2, <1>5, <3>1
  <2>3. Laid(a, s, p)
    BY <1>3, <1>5, <2>1, <2>2 DEF Laid
  <2> QED
    BY <1>3, <2>2, <2>3 DEF Holds
<1>8. Holds(a, o[i], o[n], t)
  <2>1. ASSUME NEW j \in 1 .. n - i PROVE StringAt(a, q[j - 1], q[j], t[j])
    <3>1. i + j \in 1 .. n /\ j \in 0 .. n - i /\ j - 1 \in 0 .. n - i /\ i + (j - 1) = (i + j) - 1
      OBVIOUS
    <3>2. StringAt(a, o[(i + j) - 1], o[i + j], ss[i + j])
      BY <1>1, <3>1
    <3>3. q[j] = o[i + j] /\ q[j - 1] = o[(i + j) - 1] /\ t[j] = ss[i + j]
      BY <1>4, <1>6, <3>1
    <3> QED
      BY <3>2, <3>3
  <2>2. q[0] = o[i] /\ q[n - i] = o[n] /\ q[n - i] <= Len(a)
    <3>1. 0 \in 0 .. n - i /\ n - i \in 0 .. n - i /\ i + 0 = i /\ i + (n - i) = n
      OBVIOUS
    <3> QED
      BY <1>1, <1>6, <3>1
  <2>3. Laid(a, t, q)
    BY <1>4, <1>6, <2>1, <2>2 DEF Laid
  <2> QED
    BY <1>4, <2>2, <2>3 DEF Holds
<1> QED
  BY <1>7, <1>8 DEF s, t

(* A string whose bytes are found elsewhere                                *)
LEMMA StringAtMove ==
  ASSUME NEW a \in Seq(Int), NEW c \in Seq(Int), NEW b \in Nat, NEW e \in Nat, NEW s, StringAt(a, b, e, s),
         NEW d \in Int, b + d >= 0, e + d <= Len(c), \A p \in b + 1 .. e : c[p + d] = a[p]
  PROVE  StringAt(c, b + d, e + d, s)
<1>1. PICK l \in Nat : /\ l = Len(s) /\ e = b + l + 1 /\ a[e] = NUL /\ s \in Seq(Char)
                       /\ \A j \in 1 .. l : a[b + j] = s[j]
  BY StringAtIs
<1>2. c[e + d] = NUL
  <2>1. e \in b + 1 .. e
    BY <1>1
  <2> QED
    BY <1>1, <2>1
<1>3. ASSUME NEW j \in 1 .. l PROVE c[(b + d) + j] = s[j]
  <2>1. b + j \in b + 1 .. e /\ (b + j) + d = (b + d) + j
    BY <1>1
  <2>2. c[(b + j) + d] = a[b + j]
    BY <2>1
  <2> QED
    BY <1>1, <2>1, <2>2
<1>4. e + d = (b + d) + l + 1
  BY <1>1
<1> QED
  BY <1>1, <1>2, <1>3, <1>4 DEF StringAt

(* Strings whose bytes are found elsewhere                                 *)
LEMMA HoldsMove ==
  ASSUME NEW a \in Seq(Int), NEW c \in Seq(Int), NEW b \in Nat, NEW e \in Nat, NEW ss, Holds(a, b, e, ss),
         NEW d \in Int, b + d >= 0, e + d <= Len(c), \A p \in b + 1 .. e : c[p + d] = a[p]
  PROVE  Holds(c, b + d, e + d, ss)
<1>1. PICK o : Laid(a, ss, o) /\ o[0] = b /\ o[Len(ss)] = e
  BY DEF Holds
<1>2. PICK n \in Nat :
           /\ n = Len(ss) /\ o \in [0 .. n -> Nat]
           /\ \A j \in 0 .. n : \A i \in 0 .. j : o[i] + (j - i) <= o[j]
  BY <1>1, LaidOrder
<1>3. ASSUME NEW i \in 0 .. n PROVE o[i] \in Nat /\ b <= o[i] /\ o[i] <= e
  <2>0. n \in 0 .. n /\ 0 \in 0 .. i /\ i \in 0 .. n
    OBVIOUS
  <2>1. o[i] \in Nat /\ n \in 0 .. n /\ 0 \in 0 .. i /\ i \in 0 .. n
    BY <1>2, <2>0
  <2>2. o[0] + (i - 0) <= o[i] /\ o[i] + (n - i) <= o[n]
    BY <1>2, <2>1
  <2> QED
    BY <1>1, <1>2, <2>1, <2>2
<1> DEFINE q == [i \in 0 .. n |-> o[i] + d]
<1>4. q \in [0 .. n -> Nat]
  <2> SUFFICES ASSUME NEW i \in 0 .. n PROVE o[i] + d \in Nat
    OBVIOUS
  <2>1. o[i] \in Nat /\ b <= o[i]
    BY <1>3
  <2> QED
    BY <2>1
<1>5. \A i \in 0 .. n : q[i] = o[i] + d
  OBVIOUS
<1>6. q[0] = b + d /\ q[n] = e + d
  <2>1. 0 \in 0 .. n /\ n \in 0 .. n
    OBVIOUS
  <2> QED
    BY <1>1, <1>2, <1>5, <2>1
<1> HIDE DEF q
<1>7. ASSUME NEW i \in 1 .. n PROVE StringAt(c, q[i - 1], q[i], ss[i])
  <2> DEFINE x == o[i - 1]
             y == o[i]
  <2>1. i \in 0 .. n /\ i - 1 \in 0 .. n
    OBVIOUS
  <2>2. x \in Nat /\ y \in Nat /\ b <= x /\ y <= e
    BY <1>3, <2>1
  <2>3. StringAt(a, x, y, ss[i])
    BY <1>1, <1>2 DEF Laid
  <2>4. q[i - 1] = x + d /\ q[i] = y + d
    BY <1>5, <2>1
  <2> HIDE DEF x, y
  <2>5. x + d >= 0 /\ y + d <= Len(c)
    BY <2>2
  <2>6. ASSUME NEW p \in x + 1 .. y PROVE c[p + d] = a[p]
    <3>1. p \in b + 1 .. e
      BY <2>2
    <3> QED
      BY <3>1
  <2> QED
    BY <2>2, <2>3, <2>4, <2>5, <2>6, StringAtMove
<1>8. Laid(c, ss, q)
  <2>1. ss \in Seq(Seq(Char)) /\ q[Len(ss)] <= Len(c)
    BY <1>1, <1>2, <1>6 DEF Laid
  <2> QED
    BY <1>2, <1>4, <1>7, <2>1 DEF Laid
<1> QED
  BY <1>2, <1>6, <1>8 DEF Holds

(* Where a block holds the same bytes                                      *)
LEMMA HoldsSame ==
  ASSUME NEW a \in Seq(Int), NEW c \in Seq(Int), NEW b, NEW e, NEW ss, Holds(a, b, e, ss),
         e <= Len(c), \A p \in b + 1 .. e : c[p] = a[p]
  PROVE  Holds(c, b, e, ss)
<1>1. b \in Nat /\ e \in Nat
  BY HoldsIs
<1>2. \A p \in b + 1 .. e : c[p + 0] = a[p]
  BY <1>1
<1>3. 0 \in Int /\ b + 0 >= 0 /\ e + 0 <= Len(c) /\ b + 0 = b /\ e + 0 = e
  BY <1>1
<1>4. Holds(c, b + 0, e + 0, ss)
  BY <1>1, <1>2, <1>3, HoldsMove
<1> QED
  BY <1>3, <1>4

-----------------------------------------------------------------------------
(* argz_count and argz_extract.                                            *)

(* The recursion of argz_count and argz_extract, from an entry to the next *)
WalkOf(f, v, base, G) ==
  \A p \in 1 .. v.len + 1 : f[p] = IF p > v.len THEN base ELSE G[p][f[p + strlen(v.argz, p) + 1]]

(* What such a recursion stays in                                          *)
Closed(v, V, G) == \A p \in 1 .. v.len : \A x \in V : G[p][x] \in V

(* That recursion has a value everywhere: it goes up the block.            *)
LEMMA WalkExists ==
  ASSUME NEW v, Good(v), NEW V, NEW base \in V, NEW G, Closed(v, V, G)
  PROVE  \E f \in [1 .. v.len + 1 -> V] : WalkOf(f, v, base, G)
<1> DEFINE a == v.argz
           l == v.len
           n == l + 1
           K == [p \in 1 .. n |-> p + strlen(a, p) + 1]
           C == {p \in 1 .. n : p > l}
           B == [p \in 1 .. n |-> base]
<1>1. l \in Nat /\ n = l + 1 /\ n \in Nat
  BY DEF Good
<1>2. ASSUME NEW p \in 1 .. l PROVE K[p] \in p + 1 .. n /\ K[p] = p + strlen(a, p) + 1
  <2>1. PICK k \in Nat : StringOf(a, p, k) /\ p + k <= l /\ strlen(a, p) = k
    BY EntryIs DEF a
  <2>2. p \in 1 .. n
    BY <1>1
  <2>3. K[p] = p + k + 1
    BY <2>1, <2>2
  <2>4. p + k + 1 \in p + 1 .. n
    BY <1>1, <2>1
  <2> QED
    BY <2>1, <2>3, <2>4
<1> HIDE DEF a, n, K, l
<1>3. PICK f \in [1 .. n -> V] : JumpOf(f, n, C, B, K, G)
  <2>1. \A p \in 1 .. n : p \in C => B[p] \in V
    OBVIOUS
  <2>2. ASSUME NEW p \in 1 .. n, p \notin C PROVE K[p] \in p + 1 .. n /\ \A x \in V : G[p][x] \in V
    <3>1. p \in 1 .. l
      BY <1>1, <2>2
    <3> QED
      BY <1>2, <3>1 DEF l, Closed
  <2> HIDE DEF C, B
  <2>3. Jumps(n, V, C, B, K, G)
    BY <2>1, <2>2 DEF Jumps
  <2> QED
    BY <1>1, <2>3, JumpExists
<1>4. ASSUME NEW p \in 1 .. n
      PROVE  f[p] = IF p > l THEN base ELSE G[p][f[p + strlen(a, p) + 1]]
  <2>1. f[p] = IF p \in C THEN B[p] ELSE G[p][f[K[p]]]
    BY <1>3 DEF JumpOf
  <2>2. CASE p > l
    <3>1. p \in C /\ B[p] = base
      BY <2>2
    <3> QED
      BY <2>1, <2>2, <3>1
  <2>3. CASE ~(p > l)
    <3>1. p \in 1 .. l /\ p \notin C
      BY <1>1, <2>3
    <3>2. K[p] = p + strlen(a, p) + 1
      BY <1>2, <3>1
    <3> HIDE DEF C, B
    <3> QED
      BY <2>1, <2>3, <3>1, <3>2
  <2> QED
    BY <2>2, <2>3
<1> QED
  BY <1>3, <1>4 DEF a, n, l, WalkOf

(* The places argz_extract finds from each place of the vector             *)
LEMMA ExtractFrom ==
  ASSUME NEW v, Good(v)
  PROVE  \E f : /\ argz_extract(v.argz, v.len) = f[1]
                /\ \A p \in 1 .. v.len + 1 :
                     f[p] = IF p > v.len THEN <<>> ELSE <<p>> \o f[p + strlen(v.argz, p) + 1]
<1> DEFINE l == v.len
           a == v.argz
           W == Seq(1 .. l)
           G == [p \in 1 .. l |-> [x \in W |-> <<p>> \o x]]
           From(f) == f = [p \in 1 .. l + 1 |-> IF p > l THEN <<>> ELSE <<p>> \o f[p + strlen(a, p) + 1]]
<1>1. l \in Nat
  BY DEF Good
<1>2. ASSUME NEW p \in 1 .. l, NEW x \in W PROVE <<p>> \o x \in W
  <2>1. <<p>> \in W
    OBVIOUS
  <2> QED
    BY <2>1, Concat
<1>3. <<>> \in W
  OBVIOUS
<1>4. \A p \in 1 .. l : \A x \in W : G[p][x] \in W
  BY <1>2
<1>5. PICK g \in [1 .. l + 1 -> W] :
        \A p \in 1 .. l + 1 : g[p] = IF p > l THEN <<>> ELSE G[p][g[p + strlen(a, p) + 1]]
  <2>1. Closed(v, W, G)
    BY <1>4 DEF Closed
  <2> HIDE DEF W, G
  <2>2. PICK g \in [1 .. v.len + 1 -> W] : WalkOf(g, v, <<>>, G)
    BY <1>3, <2>1, WalkExists
  <2> QED
    BY <2>2 DEF WalkOf
<1>6. ASSUME NEW p \in 1 .. l + 1 PROVE g[p] = IF p > l THEN <<>> ELSE <<p>> \o g[p + strlen(a, p) + 1]
  <2>1. CASE p > l
    BY <1>5, <2>1
  <2>2. CASE ~(p > l)
    <3>1. p \in 1 .. l
      BY <1>1, <2>2
    <3>2. PICK k \in Nat : p + k <= l /\ strlen(a, p) = k
      BY <3>1, EntryIs
    <3>3. p + k + 1 \in 1 .. l + 1
      BY <1>1, <3>1, <3>2
    <3>4. g[p + strlen(a, p) + 1] \in W
      BY <1>5, <3>2, <3>3
    <3>5. G[p][g[p + strlen(a, p) + 1]] = <<p>> \o g[p + strlen(a, p) + 1]
      <4> HIDE DEF W
      <4> QED
        BY <3>1, <3>4
    <3> HIDE DEF G, W
    <3> QED
      BY <1>5, <2>2, <3>5
  <2> QED
    BY <2>1, <2>2
<1>7. From(g)
  <2>1. g = [p \in 1 .. l + 1 |-> g[p]]
    BY <1>5
  <2> HIDE DEF W, G
  <2> QED
    BY <1>6, <2>1
<1>8. \E f : f = [p \in 1 .. v.len + 1 |-> IF p > v.len THEN <<>> ELSE <<p>> \o f[p + strlen(v.argz, p) + 1]]
  BY <1>7
<1>9. PICK f : From(f) /\ argz_extract(v.argz, v.len) = f[1]
  BY <1>8 DEF argz_extract
<1>10. \A p \in 1 .. l + 1 : f[p] = IF p > l THEN <<>> ELSE <<p>> \o f[p + strlen(a, p) + 1]
  BY <1>9
<1> QED
  BY <1>9, <1>10

(* What argz_count finds from each place of the vector                     *)
LEMMA CountFrom ==
  ASSUME NEW v, Good(v)
  PROVE  \E f : /\ argz_count(v.argz, v.len) = f[1]
                /\ \A p \in 1 .. v.len + 1 :
                     f[p] = IF p > v.len THEN 0 ELSE 1 + f[p + strlen(v.argz, p) + 1]
<1> DEFINE l == v.len
           a == v.argz
           G == [p \in 1 .. l |-> [x \in Nat |-> 1 + x]]
           From(f) == f = [p \in 1 .. l + 1 |-> IF p > l THEN 0 ELSE 1 + f[p + strlen(a, p) + 1]]
<1>1. l \in Nat
  BY DEF Good
<1>4. \A p \in 1 .. l : \A x \in Nat : G[p][x] \in Nat
  OBVIOUS
<1>5. PICK g \in [1 .. l + 1 -> Nat] :
        \A p \in 1 .. l + 1 : g[p] = IF p > l THEN 0 ELSE G[p][g[p + strlen(a, p) + 1]]
  <2>1. 0 \in Nat /\ Closed(v, Nat, G)
    BY <1>4 DEF Closed
  <2> HIDE DEF G
  <2>2. PICK g \in [1 .. v.len + 1 -> Nat] : WalkOf(g, v, 0, G)
    BY <2>1, WalkExists
  <2> QED
    BY <2>2 DEF WalkOf
<1>6. ASSUME NEW p \in 1 .. l + 1 PROVE g[p] = IF p > l THEN 0 ELSE 1 + g[p + strlen(a, p) + 1]
  <2>1. CASE p > l
    BY <1>5, <2>1
  <2>2. CASE ~(p > l)
    <3>1. p \in 1 .. l
      BY <1>1, <2>2
    <3>2. PICK k \in Nat : p + k <= l /\ strlen(a, p) = k
      BY <3>1, EntryIs
    <3>3. p + k + 1 \in 1 .. l + 1
      BY <1>1, <3>1, <3>2
    <3>4. g[p + strlen(a, p) + 1] \in Nat
      BY <1>5, <3>2, <3>3
    <3>5. G[p][g[p + strlen(a, p) + 1]] = 1 + g[p + strlen(a, p) + 1]
      BY <3>1, <3>4
    <3> HIDE DEF G
    <3> QED
      BY <1>5, <2>2, <3>5
  <2> QED
    BY <2>1, <2>2
<1>7. From(g)
  <2>1. g = [p \in 1 .. l + 1 |-> g[p]]
    BY <1>5
  <2> HIDE DEF G
  <2> QED
    BY <1>6, <2>1
<1>8. \E f : f = [p \in 1 .. v.len + 1 |-> IF p > v.len THEN 0 ELSE 1 + f[p + strlen(v.argz, p) + 1]]
  BY <1>7
<1>9. PICK f : From(f) /\ argz_count(v.argz, v.len) = f[1]
  BY <1>8 DEF argz_count
<1>10. \A p \in 1 .. l + 1 : f[p] = IF p > l THEN 0 ELSE 1 + f[p + strlen(a, p) + 1]
  BY <1>9
<1> QED
  BY <1>9, <1>10

(* The vector of a block that holds strings                                *)
LEMMA HoldsGood ==
  ASSUME NEW v, v.argz \in Seq(Int), NEW ss, Holds(v.argz, 0, v.len, ss)
  PROVE  Good(v)
<1> DEFINE a == v.argz
<1>1. PICK o : Laid(a, ss, o) /\ o[0] = 0 /\ o[Len(ss)] = v.len
  BY DEF Holds
<1>2. PICK n \in Nat :
           /\ n = Len(ss) /\ o \in [0 .. n -> Nat] /\ o[n] <= Len(a)
           /\ \A i \in 1 .. n : o[i - 1] \in Nat /\ o[i] \in Nat /\ o[i - 1] < o[i]
  <2>1. a \in Seq(Int)
    OBVIOUS
  <2> QED
    BY <1>1, <2>1, LaidOrder
<1> DEFINE S == {i \in Int : \A p \in 1 .. o[i] : a[p] \in Octet}
<1>3. 0 \in S
  BY <1>1
<1>4. ASSUME NEW i \in 1 .. n, i - 1 \in S PROVE i \in S
  <2> DEFINE x == o[i - 1]
             y == o[i]
             s == ss[i]
  <2>1. x \in Nat /\ y \in Nat /\ a \in Seq(Int)
    BY <1>2
  <2>2. StringAt(a, x, y, s)
    BY <1>1, <1>2 DEF Laid
  <2>3. \A p \in 1 .. x : a[p] \in Octet
    BY <1>4
  <2> HIDE DEF x, y, a, s
  <2>3a. PICK l \in Nat : /\ l = Len(s) /\ y = x + l + 1 /\ a[y] = NUL /\ s \in Seq(Char)
                          /\ \A j \in 1 .. l : a[x + j] = s[j]
    BY <2>1, <2>2, StringAtIs
  <2>4. /\ y = x + l + 1 /\ a[y] = NUL
        /\ \A j \in 1 .. l : a[x + j] = s[j] /\ s[j] \in Char
    BY <2>3a
  <2>5. ASSUME NEW p \in 1 .. y PROVE a[p] \in Octet
    <3>1. CASE p <= x
      BY <2>1, <2>3, <3>1
    <3>2. CASE p = y
      BY <2>4, <3>2 DEF Octet
    <3>3. CASE ~(p <= x) /\ p # y
      <4>1. p - x \in 1 .. l /\ x + (p - x) = p
        BY <2>1, <2>4, <3>3
      <4>2. a[p] \in Char
        BY <2>4, <4>1
      <4> QED
        BY <4>2 DEF Octet
    <3> QED
      BY <3>1, <3>2, <3>3
  <2> QED
    BY <2>5 DEF y
<1>5. \A i \in 0 .. n : i \in S
  <2> HIDE DEF S
  <2> QED
    BY <1>3, <1>4, UpTo
<1>6. v.len \in 0 .. Len(a) /\ \A p \in 1 .. v.len : a[p] \in Octet
  <2>1. n \in 0 .. n
    OBVIOUS
  <2>2. n \in S /\ o[n] \in Nat
    BY <1>2, <1>5, <2>1
  <2> QED
    BY <1>1, <1>2, <2>2
<1>7. v.len > 0 => a[v.len] = NUL
  <2> SUFFICES ASSUME v.len > 0 PROVE a[v.len] = NUL
    OBVIOUS
  <2>1. n # 0
    BY <1>1, <1>2
  <2>2. n \in 1 .. n
    BY <2>1
  <2>3. StringAt(a, o[n - 1], o[n], ss[n])
    BY <1>1, <1>2, <2>2 DEF Laid
  <2>4. a[o[n]] = NUL
    BY <2>3 DEF StringAt
  <2> QED
    BY <1>1, <1>2, <2>4
<1> QED
  BY <1>6, <1>7 DEF Good

(* An entry, and where the next one starts                                *)
LEMMA EntryOf ==
  ASSUME NEW a \in Seq(Int), NEW x \in Nat, NEW y \in Nat, NEW s, StringAt(a, x, y, s)
  PROVE  /\ (x + 1) + strlen(a, x + 1) + 1 = y + 1
         /\ EntryAt(a, x + 1) = s
         /\ \A q \in x + 1 .. y - 1 : a[q] # NUL
<1>1. PICK l \in Nat : /\ l = Len(s) /\ y = x + l + 1 /\ a[y] = NUL /\ s \in Seq(Char)
                       /\ \A j \in 1 .. l : a[x + j] = s[j]
                       /\ strlen(a, x + 1) = l /\ SubSeq(a, x + 1, x + l) = s
  BY StringAtIs
<1>2. (x + 1) + strlen(a, x + 1) + 1 = y + 1
  <2>1. (x + 1) + l + 1 = y + 1
    BY <1>1
  <2>2. strlen(a, x + 1) = l
    BY <1>1
  <2> QED
    BY <2>1, <2>2
<1>3. EntryAt(a, x + 1) = s
  <2>1. x + 1 + l - 1 = x + l
    OBVIOUS
  <2> QED
    BY <1>1, <2>1 DEF EntryAt
<1>4. ASSUME NEW q \in x + 1 .. y - 1 PROVE a[q] # NUL
  <2>1. q - x \in 1 .. l /\ x + (q - x) = q
    BY <1>1
  <2>2. a[q] \in Char
    BY <1>1, <2>1
  <2> QED
    BY <2>2 DEF Char
<1> QED
  BY <1>2, <1>3, <1>4

(* Where an entry of a vector that holds strings stands                    *)
LEMMA LaidStep ==
  ASSUME NEW a \in Seq(Int), NEW ss, NEW o, Laid(a, ss, o), NEW n \in Nat, n = Len(ss), NEW i \in 1 .. n
  PROVE  /\ o[i - 1] \in Nat /\ o[i] \in Nat /\ o[i - 1] < o[i] /\ o[i] <= o[n] /\ o[n] \in Nat
         /\ StringAt(a, o[i - 1], o[i], ss[i]) /\ a[o[i]] = NUL
<1> DEFINE x == o[i - 1]
           y == o[i]
           s == ss[i]
<1>1. o \in [0 .. n -> Nat]
  BY DEF Laid
<1>2. i - 1 \in 0 .. n /\ i \in 0 .. n /\ n \in 0 .. n /\ i \in 0 .. n
  OBVIOUS
<1>3. x \in Nat /\ y \in Nat /\ o[n] \in Nat
  BY <1>1, <1>2
<1>4. StringAt(a, x, y, s)
  BY DEF Laid
<1>5. y <= o[n]
  <2>1. \A j \in 0 .. n : \A k \in 0 .. j : o[k] + (j - k) <= o[j]
    BY LaidOrder
  <2>2. o[i] + (n - i) <= o[n]
    BY <1>2, <2>1
  <2> QED
    BY <1>3, <2>2
<1>6. x < y
  BY <1>3, <1>4, StringAtUp
<1>7. a[y] = NUL
  BY <1>4 DEF StringAt
<1> QED
  BY <1>3, <1>4, <1>5, <1>6, <1>7

(* A function on 1 .. n is a sequence.                                     *)
LEMMA TableIs ==
  ASSUME NEW S, NEW n \in Nat, NEW f \in [1 .. n -> S]
  PROVE  f \in Seq(S) /\ Len(f) = n
OBVIOUS

(* argz_extract finds the first character of every string, argz_count how  *)
(* many there are.                                                         *)
LEMMA ExtractLaid ==
  ASSUME NEW a \in Seq(Int), NEW len, NEW ss, NEW o, Laid(a, ss, o), NEW n \in Nat, n = Len(ss),
         o[0] = 0, o[n] = len
  PROVE  /\ argz_extract(a, len) = [i \in 1 .. n |-> o[i - 1] + 1]
         /\ argz_count(a, len) = n
<1> DEFINE v == Vector(a, len)
           q(k) == [i \in 1 .. k |-> o[n - k + i - 1] + 1]
<1>0. o \in [0 .. n -> Nat] /\ len \in Nat
  <2>1. o \in [0 .. n -> Nat] /\ n \in 0 .. n
    BY DEF Laid
  <2> QED
    BY <2>1
<1>v. v.argz = a /\ v.len = len
  BY DEF Vector
<1>g. Good(v)
  <2>1. Holds(a, 0, len, ss)
    BY DEF Holds
  <2> HIDE DEF v
  <2> QED
    BY <1>v, <2>1, HoldsGood
<1> HIDE DEF v
<1>1. PICK f : /\ argz_extract(a, len) = f[1]
               /\ \A p \in 1 .. len + 1 : f[p] = IF p > len THEN <<>> ELSE <<p>> \o f[p + strlen(a, p) + 1]
  <2>1. PICK f : /\ argz_extract(v.argz, v.len) = f[1]
                 /\ \A p \in 1 .. v.len + 1 :
                      f[p] = IF p > v.len THEN <<>> ELSE <<p>> \o f[p + strlen(v.argz, p) + 1]
    BY <1>g, ExtractFrom
  <2> QED
    BY <1>v, <2>1
<1>2. PICK h : /\ argz_count(a, len) = h[1]
               /\ \A p \in 1 .. len + 1 : h[p] = IF p > len THEN 0 ELSE 1 + h[p + strlen(a, p) + 1]
  <2>1. PICK h : /\ argz_count(v.argz, v.len) = h[1]
                 /\ \A p \in 1 .. v.len + 1 :
                      h[p] = IF p > v.len THEN 0 ELSE 1 + h[p + strlen(v.argz, p) + 1]
    BY <1>g, CountFrom
  <2> QED
    BY <1>v, <2>1
<1> DEFINE S == {k \in Int : f[o[n - k] + 1] = q(k) /\ h[o[n - k] + 1] = k}
<1>3. 0 \in S
  <2>1. n - 0 = n /\ len + 1 \in 1 .. len + 1 /\ len + 1 > len
    BY <1>0
  <2>2. f[len + 1] = <<>> /\ h[len + 1] = 0
    BY <1>1, <1>2, <2>1
  <2>3. q(0) = <<>>
    OBVIOUS
  <2> HIDE DEF q
  <2> QED
    BY <2>1, <2>2, <2>3
<1>4. ASSUME NEW k \in 1 .. n, k - 1 \in S PROVE k \in S
  <2> DEFINE i == n - k + 1
             p == o[i - 1] + 1
  <2>1. i \in 1 .. n /\ i - 1 = n - k /\ i = n - (k - 1)
    OBVIOUS
  <2> HIDE DEF i
  <2>a. /\ o[i - 1] \in Nat /\ o[i] \in Nat /\ o[i - 1] < o[i] /\ o[i] <= o[n] /\ o[n] \in Nat
        /\ StringAt(a, o[i - 1], o[i], ss[i])
    BY <1>0, <2>1, LaidStep
  <2>b. p + strlen(a, p) + 1 = o[i] + 1
    BY <2>a, EntryOf
  <2>2. /\ o[i - 1] \in Nat /\ o[i] \in Nat /\ o[i - 1] < o[i] /\ o[i] <= o[n] /\ o[n] \in Nat
        /\ p + strlen(a, p) + 1 = o[i] + 1
    BY <2>a, <2>b
  <2>3. p \in 1 .. len /\ p \in 1 .. len + 1 /\ ~(p > len)
    BY <2>2
  <2>4. f[p] = <<p>> \o f[o[i] + 1] /\ h[p] = 1 + h[o[i] + 1]
    <3>1. f[p] = <<p>> \o f[p + strlen(a, p) + 1] /\ h[p] = 1 + h[p + strlen(a, p) + 1]
      BY <1>1, <1>2, <2>3
    <3> QED
      BY <2>2, <3>1
  <2>5. f[o[i] + 1] = q(k - 1) /\ h[o[i] + 1] = k - 1
    <3> HIDE DEF q
    <3> QED
      BY <1>4, <2>1
  <2>6. <<p>> \o q(k - 1) = q(k)
    <3>1. \A j \in 0 .. n : o[j] \in Nat
      BY <1>0
    <3>2. q(k - 1) \in Seq(Nat) /\ Len(q(k - 1)) = k - 1
      <4>0. k - 1 \in Nat
        OBVIOUS
      <4>1. ASSUME NEW j \in 1 .. k - 1 PROVE o[n - (k - 1) + j - 1] + 1 \in Nat
        <5>1. n - (k - 1) + j - 1 \in 0 .. n
          OBVIOUS
        <5>2. \A x \in 0 .. n : o[x] + 1 \in Nat
          BY <3>1
        <5> QED
          BY <5>1, <5>2
      <4>2. q(k - 1) \in [1 .. k - 1 -> Nat]
        BY <4>1
      <4> HIDE DEF q
      <4> QED
        BY <4>0, <4>2, TableIs
    <3>3. q(k) \in Seq(Nat) /\ Len(q(k)) = k
      <4>1. ASSUME NEW j \in 1 .. k PROVE o[n - k + j - 1] + 1 \in Nat
        <5>1. n - k + j - 1 \in 0 .. n
          OBVIOUS
        <5> QED
          BY <3>1, <5>1, SMTT(15)
      <4>2. q(k) \in [1 .. k -> Nat]
        BY <4>1
      <4> HIDE DEF q
      <4> QED
        BY <4>2, TableIs
    <3>4. <<p>> \in Seq(Nat) /\ Len(<<p>>) = 1 /\ <<p>>[1] = p
      BY <2>2
    <3> DEFINE r == <<p>> \o q(k - 1)
    <3>5. /\ r \in Seq(Nat) /\ Len(r) = k
          /\ \A j \in 1 .. 1 : r[j] = <<p>>[j]
          /\ \A j \in 1 .. k - 1 : r[1 + j] = q(k - 1)[j]
      <4> HIDE DEF p, q
      <4>0. 1 + (k - 1) = k
        OBVIOUS
      <4> QED
        BY <3>2, <3>4, <4>0, Concat
    <3>6. ASSUME NEW j \in 1 .. k PROVE r[j] = q(k)[j]
      <4>1. CASE j = 1
        <5>1. q(k)[1] = o[n - k + 1 - 1] + 1
          BY <4>1
        <5>2. n - k + 1 - 1 = n - k
          OBVIOUS
        <5> HIDE DEF q, r
        <5> QED
          BY <2>1, <3>4, <3>5, <4>1, <5>1, <5>2
      <4>2. CASE j # 1
        <5>1. j - 1 \in 1 .. k - 1 /\ 1 + (j - 1) = j
          BY <4>2
        <5>2. q(k - 1)[j - 1] = o[n - (k - 1) + (j - 1) - 1] + 1
          BY <5>1
        <5>3. q(k)[j] = o[n - k + j - 1] + 1
          OBVIOUS
        <5>4. n - (k - 1) + (j - 1) - 1 = n - k + j - 1
          OBVIOUS
        <5> HIDE DEF q, r
        <5> QED
          BY <3>5, <5>1, <5>2, <5>3, <5>4
      <4> QED
        BY <4>1, <4>2
    <3> HIDE DEF q, r
    <3> QED
      <4>1. r = q(k)
        BY <3>3, <3>5, <3>6, SeqEqual
      <4> QED
        BY <4>1 DEF r
  <2>7. o[n - k] + 1 = p
    BY <2>1
  <2> HIDE DEF q, p
  <2>8. 1 + (k - 1) = k
    OBVIOUS
  <2>9. f[o[n - k] + 1] = q(k)
    BY <2>4, <2>5, <2>6, <2>7
  <2>10. h[o[n - k] + 1] = k
    BY <2>4, <2>5, <2>7, <2>8
  <2> QED
    BY <2>9, <2>10
<1>5. \A k \in 0 .. n : k \in S
  <2> HIDE DEF S
  <2> QED
    BY <1>3, <1>4, UpTo
<1>6. f[1] = q(n) /\ h[1] = n
  <2>1. n \in 0 .. n /\ n - n = 0 /\ o[n - n] + 1 = 1
    OBVIOUS
  <2>2. n \in S
    BY <1>5, <2>1
  <2> HIDE DEF q
  <2> QED
    BY <2>1, <2>2
<1>7. q(n) = [i \in 1 .. n |-> o[i - 1] + 1]
  <2>1. \A i \in 1 .. n : n - n + i - 1 = i - 1
    OBVIOUS
  <2> QED
    BY <2>1
<1> HIDE DEF q
<1> QED
  BY <1>1, <1>2, <1>6, <1>7

(* The entries of a vector that holds strings are these.                   *)
LEMMA EntriesAre ==
  ASSUME NEW a \in Seq(Int), NEW len, NEW ss, Holds(a, 0, len, ss)
  PROVE  LET E == argz_extract(a, len) IN [i \in DOMAIN E |-> EntryAt(a, E[i])] = ss
<1> DEFINE E == argz_extract(a, len)
           r == [i \in DOMAIN E |-> EntryAt(a, E[i])]
<1>2. PICK o : Laid(a, ss, o) /\ o[0] = 0 /\ o[Len(ss)] = len
  BY DEF Holds
<1>3. PICK n \in Nat : n = Len(ss) /\ ss \in Seq(Seq(Char))
  BY <1>2 DEF Laid
<1>4. E = [i \in 1 .. n |-> o[i - 1] + 1]
  BY <1>2, <1>3, ExtractLaid
<1>5. r = [i \in 1 .. n |-> EntryAt(a, E[i])] /\ \A i \in 1 .. n : E[i] = o[i - 1] + 1
  BY <1>4
<1> HIDE DEF E
<1>6. ASSUME NEW i \in 1 .. n PROVE r[i] = ss[i]
  <2>0. o[i - 1] \in Nat /\ o[i] \in Nat /\ StringAt(a, o[i - 1], o[i], ss[i])
    BY <1>2, <1>3, LaidStep
  <2>1. EntryAt(a, o[i - 1] + 1) = ss[i]
    BY <2>0, EntryOf
  <2> QED
    BY <1>5, <2>1
<1>7. r \in Seq(Seq(Char)) /\ Len(r) = n
  <2>1. \A i \in 1 .. n : ss[i] \in Seq(Char)
    BY <1>3
  <2>2. r = [i \in 1 .. n |-> ss[i]]
    <3> HIDE DEF r
    <3>1. r = [i \in 1 .. n |-> r[i]]
      BY <1>5
    <3> QED
      BY <1>6, <3>1
  <2> HIDE DEF r
  <2> QED
    BY <2>1, <2>2
<1> HIDE DEF r
<1>8. r = ss
  BY <1>3, <1>6, <1>7, SeqEqual
<1> QED
  BY <1>8 DEF r, E

-----------------------------------------------------------------------------
(* What the functions leave, byte by byte.                                 *)

(* A vector whose length its block has                                     *)
Fits(v) == v.argz \in Seq(Int) /\ v.len \in 0 .. Len(v.argz)

(* What argz_append leaves: the bytes of the vector, then those it appends *)
Appended(v, buf, r) ==
  /\ r \in Seq(Int) /\ Len(r) = v.len + Len(buf)
  /\ \A i \in 1 .. v.len : r[i] = v.argz[i]
  /\ \A i \in 1 .. Len(buf) : r[v.len + i] = buf[i]

(* argz_append copies the bytes after those of the vector.                 *)
LEMMA AppendIs ==
  ASSUME NEW v, Fits(v), NEW buf \in Seq(Int)
  PROVE  \E r : argz_append(v, buf) = Vector(r, v.len + Len(buf)) /\ Appended(v, buf, r)
<1>0. v.argz \in Seq(Int) /\ v.len \in 0 .. Len(v.argz)
  BY DEF Fits
<1> DEFINE n == Len(buf)
           l == v.len
           block == realloc(v.argz, l + n)
           r == SubSeq(Shifted(block \o <<Outside>> \o buf, l + 1, Len(block) + 2, 0, n), 1, Len(block))
<1>1. /\ n \in Nat /\ l \in Nat /\ l <= Len(v.argz) /\ v.argz \in Seq(Int) /\ buf \in Seq(Int)
  <2>1. Len(v.argz) \in Nat
    BY <1>0
  <2> QED
    BY <1>0, <2>1
<1>2. /\ block \in Seq(Int) /\ Len(block) = l + n
      /\ \A i \in 1 .. l : block[i] = v.argz[i]
  <2> HIDE DEF n, l
  <2>1. l + n \in Nat
    BY <1>1
  <2>2. /\ block \in Seq(Int) /\ Len(block) = l + n
        /\ \A i \in 1 .. l + n : i <= Len(v.argz) => block[i] = v.argz[i]
    BY <1>1, <2>1, reallocIs
  <2> HIDE DEF block
  <2>3. \A i \in 1 .. l : i \in 1 .. l + n /\ i <= Len(v.argz)
    BY <1>1
  <2> QED
    BY <2>2, <2>3
<1>3. argz_append(v, buf) = Vector(r, l + n)
  <2> DEFINE m == block \o <<Outside>> \o buf
  <2>1. m \in Memories
    <3> HIDE DEF block
    <3> QED
      BY <1>1, <1>2, Apart
  <2>2. CopyUp(m, l + 1, Len(block) + 2, n) = Shifted(m, l + 1, Len(block) + 2, 0, n)
    <3> HIDE DEF m, block, l, n
    <3>1. l + 1 \in Int /\ Len(block) + 2 \in Int /\ Len(block) + 2 >= l + 1
      BY <1>1, <1>2
    <3> QED
      BY <1>1, <2>1, <3>1, CopyUpIs
  <2> QED
    BY <2>2 DEF argz_append, Into, memcpy, Returned
<1> HIDE DEF block
<1>4. /\ r \in Seq(Int) /\ Len(r) = l + n
      /\ \A i \in 1 .. l + n : i \notin l + 1 .. l + 1 + n - 1 => r[i] = block[i]
      /\ \A i \in 1 .. n : r[l + 1 + i - 1] = buf[i]
  <2>1. l + 1 \in Int /\ l + 1 >= 1 /\ l + 1 + n - 1 <= Len(block)
    <3> HIDE DEF l, n
    <3> QED
      BY <1>1, <1>2
  <2> DEFINE d == l + 1
  <2>2. d \in Int /\ d >= 1 /\ d + Len(buf) - 1 <= Len(block) /\ buf \in Seq(Int) /\ block \in Seq(Int)
    BY <1>1, <1>2, <2>1
  <2> HIDE DEF d
  <2>3. LET x == SubSeq(Shifted(block \o <<Outside>> \o buf, d, Len(block) + 2, 0, Len(buf)), 1, Len(block))
        IN  /\ x \in Seq(Int) /\ Len(x) = Len(block)
            /\ \A i \in 1 .. Len(block) : i \notin d .. d + Len(buf) - 1 => x[i] = block[i]
            /\ \A i \in 1 .. Len(buf) : x[d + i - 1] = buf[i]
    BY <2>2, SpliceIs
  <2> QED
    BY <1>2, <2>3 DEF d
<1> HIDE DEF r, l, n
<1>5. \A i \in 1 .. l : r[i] = v.argz[i]
  BY <1>1, <1>2, <1>4
<1>6. \A i \in 1 .. n : r[l + i] = buf[i]
  <2>1. \A i \in 1 .. n : l + 1 + i - 1 = l + i
    BY <1>1
  <2> QED
    BY <1>4, <2>1
<1>7. Appended(v, buf, r)
  BY <1>4, <1>5, <1>6 DEF Appended, l, n
<1> QED
  BY <1>3, <1>7 DEF l, n

(* What argz_insert leaves: the entry at the start p of the one before     *)
Inserted(v, p, s, r) ==
  /\ r \in Seq(Int) /\ Len(r) = v.len + (Len(s) + 1)
  /\ \A i \in 1 .. p - 1 : r[i] = v.argz[i]
  /\ \A i \in 1 .. Len(s) + 1 : r[p + i - 1] = Bytes(s)[i]
  /\ \A i \in p .. v.len : r[i + (Len(s) + 1)] = v.argz[i]

(* argz_insert moves the rest of the vector up and copies the entry.       *)
LEMMA InsertIs ==
  ASSUME NEW v, Fits(v), NEW before \in 1 .. v.len, NEW s \in Seq(Octet)
  PROVE  \E r : /\ argz_insert(v, before, s) = Vector(r, v.len + (Len(s) + 1))
                /\ Inserted(v, EntryStart(v.argz, before), s, r)
<1>0. v.argz \in Seq(Int) /\ v.len \in 0 .. Len(v.argz)
  BY DEF Fits
<1> DEFINE l == v.len
           a == v.argz
           p == EntryStart(a, before)
           e == Len(s) + 1
           block == realloc(a, l + e)
           moved == Shifted(block, p + e, p, 0, l - (p - 1))
           b == Bytes(s)
           r == SubSeq(Shifted(moved \o <<Outside>> \o b, p, Len(moved) + 2, 0, e), 1, Len(moved))
<1>1. /\ l \in Nat /\ l <= Len(a) /\ a \in Seq(Int)
  <2>1. Len(a) \in Nat
    BY <1>0
  <2> QED
    BY <1>0, <2>1
<1>2. p \in 1 .. l
  <2>1. before \in Nat \ {0} /\ \A x \in 1 .. before : x \in 1 .. l
    BY <1>1
  <2> QED
    BY <2>1, EntryStartIs
<1>3. /\ b \in Seq(Octet) /\ b \in Seq(Int) /\ Len(b) = e /\ e \in Nat \ {0}
      /\ \A i \in 1 .. e : b[i] \in Octet
  <2>1. b \in Seq(Octet) /\ Len(b) = e /\ \A i \in 1 .. e : b[i] \in Octet
    BY BytesIs, OctetIs
  <2>2. e \in Nat \ {0}
    OBVIOUS
  <2> HIDE DEF b, e
  <2>3. b \in Seq(Int)
    BY <2>1, OctetIs
  <2> QED
    BY <2>1, <2>2, <2>3
<1> HIDE DEF l, a, p, e, b
<1>4. /\ block \in Seq(Int) /\ Len(block) = l + e
      /\ \A i \in 1 .. l : block[i] = a[i]
  <2>1. l + e \in Nat
    BY <1>1, <1>3
  <2>2. /\ block \in Seq(Int) /\ Len(block) = l + e
        /\ \A i \in 1 .. l + e : i <= Len(a) => block[i] = a[i]
    BY <1>1, <2>1, reallocIs
  <2> HIDE DEF block
  <2>3. \A i \in 1 .. l : i \in 1 .. l + e /\ i <= Len(a)
    BY <1>1, <1>3
  <2> QED
    BY <2>2, <2>3
<1>5. p \in Int /\ p + e \in Int /\ l - (p - 1) \in Nat
  BY <1>1, <1>2, <1>3
<1>6. argz_insert(v, before, s) = Vector(r, l + e)
  <2>1. before # NULL
    BY DEF NULL
  <2>2. block \in Memories
    BY <1>4 DEF Memories
  <2>3. memmove(block, p + e, p, l - (p - 1)).mem = moved
    <3> HIDE DEF block
    <3> DEFINE d == p + e
               n == l - (p - 1)
    <3> HIDE DEF d, n
    <3>1. memmove(block, d, p, n) = Returned(Shifted(block, d, p, 0, n), d)
      BY <1>5, <2>2, memmoveIs DEF d, n
    <3> QED
      BY <3>1 DEF Returned, d, n
  <2>4. moved \in Seq(Int)
    <3> HIDE DEF block
    <3> DEFINE d == p + e
               n == l - (p - 1)
    <3> HIDE DEF d, n
    <3>1. Shifted(block, d, p, 0, n) \in Memories
      BY <1>5, <2>2, CopyLeaves DEF d, n
    <3> QED
      BY <3>1 DEF Memories, d, n
  <2> DEFINE m == moved \o <<Outside>> \o b
  <2>5. m \in Memories
    <3> HIDE DEF moved
    <3> QED
      BY <1>3, <2>4, Apart
  <2>6. memmove(m, p, Len(moved) + 2, e).mem = Shifted(m, p, Len(moved) + 2, 0, e)
    <3>1. Len(moved) + 2 \in Int
      <4> HIDE DEF moved
      <4> QED
        BY <2>4
    <3> HIDE DEF m, moved
    <3> DEFINE y == Len(moved) + 2
    <3> HIDE DEF y
    <3>2. memmove(m, p, y, e) = Returned(Shifted(m, p, y, 0, e), p)
      BY <1>3, <1>5, <2>5, <3>1, memmoveIs DEF y
    <3> QED
      BY <3>2 DEF Returned, y
  <2> QED
    BY <2>1, <2>3, <2>6 DEF argz_insert, Into, l, a, p, e, b
<1> HIDE DEF block
<1>7. /\ moved \in Seq(Int) /\ Len(moved) = l + e
      /\ \A i \in 1 .. p - 1 : moved[i] = a[i]
      /\ \A i \in p .. l : moved[i + e] = a[i]
  <2> DEFINE d == p + e
             n == l - (p - 1)
  <2>1. d \in Int /\ n \in Nat /\ block \in Memories /\ moved = Shifted(block, d, p, 0, n)
    BY <1>4, <1>5 DEF Memories
  <2>0. d = p + e /\ n = l - (p - 1)
    OBVIOUS
  <2> HIDE DEF d, n, moved
  <2>2. /\ moved \in Memories /\ DOMAIN moved = DOMAIN block
        /\ \A i \in Int : i \notin d .. d + n - 1 => At(moved, i) = At(block, i)
    BY <1>5, <2>1, CopyLeaves
  <2>3. DOMAIN block = 1 .. l + e /\ DOMAIN moved = 1 .. l + e /\ l + e \in Nat
    BY <1>1, <1>3, <1>4, <2>2
  <2>4. moved \in Seq(Int) /\ Len(moved) = l + e
    BY <2>2, <2>3 DEF Memories
  <2>5. ASSUME NEW i \in 1 .. p - 1 PROVE moved[i] = a[i]
    <3>1. i \in 1 .. l /\ i \in 1 .. l + e /\ i \notin d .. d + n - 1 /\ i \in Int
      BY <1>1, <1>2, <1>3, <2>0
    <3>2. At(moved, i) = At(block, i)
      BY <2>2, <3>1
    <3> QED
      BY <1>4, <2>3, <3>1, <3>2 DEF At
  <2>6. ASSUME NEW i \in p .. l PROVE moved[i + e] = a[i]
    <3>1. /\ i \in 1 .. l /\ i \in 1 .. l + e /\ i + e \in 1 .. l + e /\ i - p \in 0 .. n - 1
          /\ d + (i - p) = i + e /\ p + (i - p) = i
      BY <1>1, <1>2, <1>3, <2>0
    <3>2. At(moved, d + (i - p)) = At(block, p + (i - p))
      <4>1. d + (i - p) \in DOMAIN block
        BY <2>3, <3>1
      <4> QED
        BY <1>5, <2>1, <3>1, <4>1, CopyByte, ZenonT(30)
    <3> QED
      BY <1>4, <2>3, <3>1, <3>2 DEF At
  <2> QED
    BY <2>4, <2>5, <2>6
<1> HIDE DEF moved
<1>8. /\ r \in Seq(Int) /\ Len(r) = l + e
      /\ \A i \in 1 .. l + e : i \notin p .. p + e - 1 => r[i] = moved[i]
      /\ \A i \in 1 .. e : r[p + i - 1] = b[i]
  <2>1. p >= 1 /\ p + Len(b) - 1 <= Len(moved)
    BY <1>1, <1>2, <1>3, <1>7
  <2>2. LET x == SubSeq(Shifted(moved \o <<Outside>> \o b, p, Len(moved) + 2, 0, Len(b)), 1, Len(moved))
        IN  /\ x \in Seq(Int) /\ Len(x) = Len(moved)
            /\ \A i \in 1 .. Len(moved) : i \notin p .. p + Len(b) - 1 => x[i] = moved[i]
            /\ \A i \in 1 .. Len(b) : x[p + i - 1] = b[i]
    BY <1>3, <1>5, <1>7, <2>1, SpliceIs, ZenonT(30)
  <2> QED
    BY <1>3, <1>7, <2>2
<1> HIDE DEF r
<1>9. \A i \in 1 .. p - 1 : r[i] = a[i]
  <2> SUFFICES ASSUME NEW i \in 1 .. p - 1 PROVE r[i] = a[i]
    OBVIOUS
  <2>1. i \in 1 .. l + e /\ i \notin p .. p + e - 1
    BY <1>1, <1>2, <1>3
  <2> QED
    BY <1>7, <1>8, <2>1
<1>10. \A i \in p .. l : r[i + e] = a[i]
  <2> SUFFICES ASSUME NEW i \in p .. l PROVE r[i + e] = a[i]
    OBVIOUS
  <2>1. i + e \in 1 .. l + e /\ i + e \notin p .. p + e - 1
    BY <1>1, <1>2, <1>3
  <2> QED
    BY <1>7, <1>8, <2>1
<1>11. Inserted(v, p, s, r)
  BY <1>8, <1>9, <1>10 DEF Inserted, l, a, e, b
<1> QED
  BY <1>6, <1>11 DEF l, a, e, p

(* What argz_delete leaves: the bytes before the entry and those after it  *)
Deleted(v, p, e, r) ==
  /\ r \in Seq(Int) /\ Len(r) = Len(v.argz)
  /\ \A i \in 1 .. p - 1 : r[i] = v.argz[i]
  /\ \A i \in p .. v.len - e : r[i] = v.argz[i + e]

(* argz_delete moves the rest of the vector down.                          *)
LEMMA DeleteIs ==
  ASSUME NEW v, Good(v), NEW p \in Starts(v)
  PROVE  \E r : LET e == strlen(v.argz, p) + 1
                IN  /\ argz_delete(v, p) = Vector(IF v.len - e = 0 THEN <<>> ELSE r, v.len - e)
                    /\ Deleted(v, p, e, r)
<1> DEFINE a == v.argz
           l == v.len
<1>1. /\ l \in Nat /\ l <= Len(a) /\ a \in Seq(Int) /\ p \in 1 .. l
      /\ \A i \in 1 .. l : a[i] \in Octet
      /\ a[l] = NUL /\ (p = 1 \/ a[p - 1] = NUL)
  BY DEF Good, Starts
<1>2. PICK k \in Nat : p + k <= l /\ strlen(a, p) = k
  BY <1>1, EntryIs
<1> DEFINE e == k + 1
           n == (l - e) - (p - 1)
           r == Shifted(a, p, p + e, 0, n)
<1>3. p \in Int /\ p + e \in Int /\ n \in Nat /\ l - e \in Nat /\ l - e < l /\ e \in Nat /\ p >= 1 /\ l \in Nat
  BY <1>1, <1>2, SMTT(15)
<1>4. argz_delete(v, p) = Vector(IF l - e = 0 THEN <<>> ELSE r, l - e)
  <2>1. a \in Memories
    BY <1>1 DEF Memories
  <2> DEFINE s == p + e
  <2> HIDE DEF a, n, s, r
  <2>2. memmove(a, p, s, n) = Returned(Shifted(a, p, s, 0, n), p)
    BY <1>3, <2>1, memmoveIs DEF s
  <2>3. memmove(a, p, p + e, n).mem = r
    BY <2>2 DEF Returned, s, r
  <2> QED
    BY <1>2, <2>3 DEF argz_delete, a, n
<1> HIDE DEF a, l
<1>5. /\ r \in Memories /\ DOMAIN r = DOMAIN a
      /\ \A i \in Int : i \notin p .. p + n - 1 => At(r, i) = At(a, i)
      /\ \A i \in 0 .. n - 1 : p + i \in DOMAIN a => At(r, p + i) = At(a, p + e + i)
  <2>1. a \in Memories
    BY <1>1 DEF Memories
  <2> DEFINE s == p + e
  <2> HIDE DEF n, s
  <2>2. s \in Int /\ p \in Int
    BY <1>3 DEF s
  <2>3. /\ Shifted(a, p, s, 0, n) \in Memories /\ DOMAIN Shifted(a, p, s, 0, n) = DOMAIN a
        /\ \A i \in Int : i \notin p .. p + n - 1 => At(Shifted(a, p, s, 0, n), i) = At(a, i)
        /\ \A i \in 0 .. n - 1 : p + i \in DOMAIN a => At(Shifted(a, p, s, 0, n), p + i) = At(a, s + i)
    <3>1. Shifted(a, p, s, 0, n) \in Memories /\ DOMAIN Shifted(a, p, s, 0, n) = DOMAIN a
      BY <1>3, <2>1, <2>2, CopyLeaves
    <3>2. \A i \in Int : i \notin p .. p + n - 1 => At(Shifted(a, p, s, 0, n), i) = At(a, i)
      BY <1>3, <2>1, <2>2, CopyLeaves
    <3>3. ASSUME NEW i \in 0 .. n - 1, p + i \in DOMAIN a
          PROVE  At(Shifted(a, p, s, 0, n), p + i) = At(a, s + i)
      BY <1>3, <2>1, <2>2, <3>3, CopyByte
    <3> QED
      BY <3>1, <3>2, <3>3
  <2> QED
    BY <2>3 DEF s
<1>n. n = (l - e) - (p - 1)
  OBVIOUS
<1> HIDE DEF r, n, e
<1>6. r \in Seq(Int) /\ DOMAIN r = 1 .. Len(a) /\ DOMAIN a = 1 .. Len(a) /\ Len(a) \in Nat /\ Len(r) = Len(a)
  <2>1. r \in Seq(Int) /\ a \in Seq(Int) /\ DOMAIN r = DOMAIN a
    BY <1>1, <1>5 DEF Memories
  <2> QED
    BY <2>1
<1>7. ASSUME NEW i \in 1 .. l - e
      PROVE  r[i] = IF i < p THEN a[i] ELSE a[i + e]
  <2>1. i \in 1 .. Len(a) /\ i \in Int /\ i + e \in 1 .. l /\ i + e \in 1 .. Len(a)
    BY <1>1, <1>3, <1>6
  <2>2. r[i] = At(r, i)
    BY <1>6, <2>1 DEF At
  <2>3. CASE i < p
    <3>1. i \notin p .. p + n - 1
      BY <1>3, <2>3
    <3>2. At(r, i) = At(a, i)
      BY <1>5, <2>1, <3>1
    <3> QED
      BY <1>6, <2>1, <2>2, <2>3, <3>2 DEF At
  <2>4. CASE ~(i < p)
    <3>1. i - p \in 0 .. n - 1 /\ p + (i - p) = i /\ p + e + (i - p) = i + e
      BY <1>3, <1>n, <2>1, <2>4
    <3>2. p + (i - p) \in DOMAIN a
      BY <1>6, <2>1, <3>1
    <3>3. At(r, p + (i - p)) = At(a, p + e + (i - p))
      BY <1>5, <3>1, <3>2
    <3> QED
      BY <1>6, <2>1, <2>2, <2>4, <3>1, <3>3 DEF At
  <2> QED
    BY <2>3, <2>4
<1>8. ASSUME NEW i \in 1 .. p - 1 PROVE r[i] = a[i]
  <2>1. CASE i \in 1 .. l - e
    <3>1. i < p
      BY <1>3
    <3> QED
      BY <1>7, <2>1, <3>1
  <2>2. CASE i \notin 1 .. l - e
    <3>1. i \in Int /\ i \notin p .. p + n - 1 /\ i \in 1 .. Len(a)
      BY <1>1, <1>3, <1>6
    <3>2. At(r, i) = At(a, i)
      BY <1>5, <3>1
    <3> QED
      BY <1>6, <3>1, <3>2 DEF At
  <2> QED
    BY <2>1, <2>2
<1>9. ASSUME NEW i \in p .. l - e PROVE r[i] = a[i + e]
  <2>1. i \in 1 .. l - e /\ ~(i < p)
    BY <1>1, <1>3
  <2> QED
    BY <1>7, <2>1
<1>10. e = strlen(a, p) + 1
  BY <1>2 DEF e, a
<1>11. Deleted(v, p, e, r)
  BY <1>6, <1>8, <1>9 DEF Deleted, l, a
<1> QED
  BY <1>4, <1>10, <1>11 DEF l, a

-----------------------------------------------------------------------------
(* Vectors of strings, appended, inserted and deleted.                     *)

(* The vector v is that of the strings ss.                                 *)
Represents(v, ss) == v.argz \in Seq(Int) /\ Holds(v.argz, 0, v.len, ss)

(* Then it is a block of written bytes, empty when there is no string.     *)
LEMMA RepresentsIs ==
  ASSUME NEW v, NEW ss, Represents(v, ss)
  PROVE  /\ Good(v) /\ Fits(v) /\ v.argz \in Seq(Int) /\ v.len \in Nat /\ v.len <= Len(v.argz)
         /\ ss \in Seq(Seq(Char)) /\ Holds(v.argz, 0, v.len, ss) /\ (ss = <<>> <=> v.len = 0)
<1>1. v.argz \in Seq(Int) /\ Holds(v.argz, 0, v.len, ss)
  BY DEF Represents
<1>2. Good(v)
  BY <1>1, HoldsGood
<1>3. /\ v.len \in Nat /\ v.len <= Len(v.argz) /\ Len(v.argz) \in Nat /\ ss \in Seq(Seq(Char))
      /\ (ss = <<>> <=> 0 = v.len)
  BY <1>1, HoldsIs
<1> QED
  BY <1>1, <1>2, <1>3 DEF Fits

(* The empty vector                                                        *)
LEMMA RepresentsNone == Represents(Vector(<<>>, 0), <<>>)
<1>1. <<>> \in Seq(Int) /\ 0 \in 0 .. Len(<<>>)
  OBVIOUS
<1>2. Holds(<<>>, 0, 0, <<>>)
  BY <1>1, HoldsNone
<1> QED
  BY <1>1, <1>2 DEF Represents, Vector

(* The block of a string                                                   *)
LEMMA BytesHold ==
  ASSUME NEW s \in Seq(Char)
  PROVE  \E l \in Nat : /\ l = Len(s) /\ Bytes(s) \in Seq(Int) /\ Bytes(s) \in Seq(Octet) /\ Len(Bytes(s)) = l + 1
                        /\ StringAt(Bytes(s), 0, l + 1, s)
<1>1. PICK l \in Nat : l = Len(s)
  OBVIOUS
<1>2. s \in Seq(Octet) /\ NUL \in Octet
  BY StringIs, OctetIs
<1> DEFINE b == Bytes(s)
<1>3. /\ b \in Seq(Octet) /\ Len(b) = l + 1 /\ b[l + 1] = NUL
      /\ \A i \in 1 .. l : b[i] = s[i]
  BY <1>1, <1>2, BytesIs
<1> HIDE DEF b
<1>4. b \in Seq(Int)
  BY <1>3, OctetIs
<1>5. StringAt(b, 0, l + 1, s)
  <2>1. \A j \in 1 .. l : b[0 + j] = s[j]
    BY <1>3
  <2>2. 0 + l + 1 = l + 1
    OBVIOUS
  <2> QED
    BY <1>1, <1>3, <2>1, <2>2 DEF StringAt
<1> QED
  BY <1>1, <1>3, <1>4, <1>5 DEF b

(* The strings before one, and it                                          *)
LEMMA SubSeqNext ==
  ASSUME NEW S, NEW q \in Seq(S), NEW n \in Nat, n = Len(q), NEW k \in 1 .. n
  PROVE  /\ SubSeq(q, 1, k) = SubSeq(q, 1, k - 1) \o <<q[k]>>
         /\ SubSeq(q, 1, 0) = <<>> /\ SubSeq(q, 1, n) = q /\ q[k] \in S
<1> DEFINE a == SubSeq(q, 1, k)
           b == SubSeq(q, 1, k - 1)
           c == <<q[k]>>
           d == b \o c
<1>1. a \in Seq(S) /\ Len(a) = k /\ \A i \in 1 .. k : a[i] = q[i]
  <2>1. Len(a) = k /\ \A i \in 1 .. k : a[i] = q[i]
    OBVIOUS
  <2> QED
    BY <2>1, SubSeqProperties
<1>2. b \in Seq(S) /\ Len(b) = k - 1 /\ \A i \in 1 .. k - 1 : b[i] = q[i]
  <2>1. Len(b) = k - 1 /\ \A i \in 1 .. k - 1 : b[i] = q[i]
    OBVIOUS
  <2> QED
    BY <2>1, SubSeqProperties
<1>3. c \in Seq(S) /\ Len(c) = 1 /\ c[1] = q[k] /\ q[k] \in S
  OBVIOUS
<1>z. SubSeq(q, 1, 0) = <<>> /\ SubSeq(q, 1, n) = q
  <2>1. SubSeq(q, 1, 0) = <<>>
    OBVIOUS
  <2>2. SubSeq(q, 1, n) = q
    OBVIOUS
  <2> QED
    BY <2>1, <2>2
<1> HIDE DEF a, b, c
<1>4. /\ d \in Seq(S) /\ Len(d) = (k - 1) + 1
      /\ \A i \in 1 .. k - 1 : d[i] = b[i]
      /\ \A i \in 1 .. 1 : d[(k - 1) + i] = c[i]
  <2>1. b \in Seq(S) /\ c \in Seq(S)
    BY <1>2, <1>3
  <2>2. /\ d \in Seq(S) /\ Len(d) = Len(b) + Len(c)
        /\ \A i \in 1 .. Len(b) : d[i] = b[i]
        /\ \A i \in 1 .. Len(c) : d[Len(b) + i] = c[i]
    BY <2>1, Concat
  <2>3. Len(b) = k - 1 /\ Len(c) = 1
    BY <1>2, <1>3
  <2> HIDE DEF d
  <2> QED
    BY <2>2, <2>3
<1> HIDE DEF d
<1>5. Len(d) = k
  BY <1>4
<1>6. ASSUME NEW i \in 1 .. k PROVE d[i] = a[i]
  <2>1. CASE i = k
    <3>1. (k - 1) + 1 = k /\ 1 \in 1 .. 1
      OBVIOUS
    <3>2. d[(k - 1) + 1] = c[1]
      BY <1>2, <1>3, <1>4, <3>1
    <3> QED
      BY <1>1, <1>3, <2>1, <3>1, <3>2
  <2>2. CASE i # k
    <3>1. i \in 1 .. k - 1
      BY <2>2
    <3> QED
      BY <1>1, <1>2, <1>4, <3>1
  <2> QED
    BY <2>1, <2>2
<1>7. d = a
  BY <1>1, <1>4, <1>5, <1>6, SeqEqual
<1> QED
  BY <1>3, <1>z, <1>7 DEF a, b, c, d

(* A block at the end of another                                           *)
LEMMA HoldsAfter ==
  ASSUME NEW a \in Seq(Int), NEW b \in Seq(Int), NEW ss, Holds(a, 0, Len(a), ss), NEW tt, Holds(b, 0, Len(b), tt)
  PROVE  Holds(a \o b, 0, Len(a \o b), ss \o tt)
<1> DEFINE c == a \o b
<1>1. PICK x \in Nat : x = Len(a)
  OBVIOUS
<1>2. PICK y \in Nat : y = Len(b)
  OBVIOUS
<1>3. /\ c \in Seq(Int) /\ Len(c) = x + y
      /\ \A i \in 1 .. x : c[i] = a[i]
      /\ \A i \in 1 .. y : c[x + i] = b[i]
  BY <1>1, <1>2, Concat
<1> HIDE DEF c
<1>4. Holds(c, 0, x, ss)
  <2>1. \A p \in 0 + 1 .. x : c[p] = a[p]
    BY <1>3
  <2>2. x <= Len(c)
    BY <1>3
  <2> QED
    BY <1>1, <1>3, <2>1, <2>2, HoldsSame
<1>5. Holds(c, x, x + y, tt)
  <2>1. ASSUME NEW p \in 0 + 1 .. y PROVE c[p + x] = b[p]
    <3>1. x + p = p + x /\ p \in 1 .. y
      OBVIOUS
    <3> QED
      BY <1>3, <3>1
  <2>2. 0 + x >= 0 /\ y + x <= Len(c) /\ x \in Int /\ 0 + x = x /\ y + x = x + y /\ 0 \in Nat
    BY <1>3
  <2>3. Holds(c, 0 + x, y + x, tt)
    BY <1>2, <1>3, <2>1, <2>2, HoldsMove
  <2> QED
    BY <2>2, <2>3
<1>6. Holds(c, 0, x + y, ss \o tt)
  BY <1>3, <1>4, <1>5, HoldsJoin
<1> QED
  BY <1>3, <1>6 DEF c

(* The block that joins strings holds them.                                *)
LEMMA JointHolds ==
  ASSUME NEW v \in Seq(Seq(Char))
  PROVE  Joint(v) \in Seq(Int) /\ Holds(Joint(v), 0, Len(Joint(v)), v)
<1>1. v \in Seq(Seq(Octet))
  <2>1. \A i \in 1 .. Len(v) : v[i] \in Seq(Octet)
    BY StringIs
  <2>2. v = [i \in 1 .. Len(v) |-> v[i]] /\ Len(v) \in Nat
    OBVIOUS
  <2> QED
    BY <2>1, <2>2
<1>2. PICK f \in [0 .. Len(v) -> Seq(Octet)] :
           /\ f[0] = <<>>
           /\ \A i \in 1 .. Len(v) : f[i] = f[i - 1] \o Bytes(v[i])
           /\ Joint(v) = f[Len(v)]
  BY <1>1, JointIs, OctetIs
<1>3. PICK n \in Nat : n = Len(v)
  OBVIOUS
<1> DEFINE H(k) == f[k] \in Seq(Int) /\ Holds(f[k], 0, Len(f[k]), SubSeq(v, 1, k))
           S == {k \in Int : H(k)}
<1>4. 0 \in S
  <2>1. <<>> \in Seq(Int) /\ Len(<<>>) = 0 /\ 0 \in 0 .. 0
    OBVIOUS
  <2>2. SubSeq(v, 1, 0) = <<>>
    OBVIOUS
  <2>3. Holds(<<>>, 0, 0, <<>>)
    BY <2>1, HoldsNone
  <2> QED
    <3>1. H(0)
      BY <1>2, <2>1, <2>2, <2>3
    <3> QED
      BY <3>1
<1>5. ASSUME NEW k \in 1 .. n, k - 1 \in S PROVE k \in S
  <2> DEFINE s == v[k]
             b == Bytes(s)
             a == f[k - 1]
  <2>1. s \in Seq(Char) /\ SubSeq(v, 1, k) = SubSeq(v, 1, k - 1) \o <<s>>
    BY <1>3, SubSeqNext
  <2>2. f[k] = a \o b
    BY <1>2, <1>3
  <2>3. a \in Seq(Int) /\ Holds(a, 0, Len(a), SubSeq(v, 1, k - 1))
    BY <1>5
  <2> HIDE DEF s
  <2>4. PICK l \in Nat : b \in Seq(Int) /\ Len(b) = l + 1 /\ StringAt(b, 0, l + 1, s)
    BY <2>1, BytesHold
  <2> HIDE DEF a, b
  <2>5. Holds(b, 0, Len(b), <<s>>)
    <3>1. l + 1 \in Nat /\ 0 \in Nat
      OBVIOUS
    <3> QED
      BY <2>4, <3>1, HoldsOne
  <2>6. Holds(a \o b, 0, Len(a \o b), SubSeq(v, 1, k - 1) \o <<s>>)
    BY <2>3, <2>4, <2>5, HoldsAfter
  <2>7. a \o b \in Seq(Int)
    BY <2>3, <2>4
  <2> QED
    <3>1. H(k)
      BY <2>1, <2>2, <2>6, <2>7
    <3> HIDE DEF H
    <3> QED
      BY <3>1
<1>6. \A k \in 0 .. n : k \in S
  <2> HIDE DEF S
  <2> QED
    BY <1>4, <1>5, UpTo
<1>7. n \in S
  <2>1. n \in 0 .. n
    OBVIOUS
  <2> HIDE DEF S
  <2> QED
    BY <1>6, <2>1
<1>8. SubSeq(v, 1, n) = v
  BY <1>3
<1>9. H(n)
  <2> HIDE DEF H
  <2> QED
    BY <1>7
<1> QED
  BY <1>2, <1>3, <1>8, <1>9

(* argz_append appends the strings of the vector it is given.              *)
LEMMA AppendHolds ==
  ASSUME NEW v, NEW ss, Represents(v, ss), NEW buf \in Seq(Int), NEW tt, Holds(buf, 0, Len(buf), tt)
  PROVE  Represents(argz_append(v, buf), ss \o tt)
<1>1. Fits(v) /\ v.argz \in Seq(Int) /\ v.len \in Nat /\ Holds(v.argz, 0, v.len, ss)
  BY RepresentsIs
<1>2. PICK r : argz_append(v, buf) = Vector(r, v.len + Len(buf)) /\ Appended(v, buf, r)
  BY <1>1, AppendIs
<1>3. PICK y \in Nat : y = Len(buf)
  OBVIOUS
<1>4. PICK x \in Nat : x = v.len
  BY <1>1
<1>5. /\ r \in Seq(Int) /\ Len(r) = x + y
      /\ \A i \in 1 .. x : r[i] = v.argz[i]
      /\ \A i \in 1 .. y : r[x + i] = buf[i]
  BY <1>2, <1>3, <1>4 DEF Appended
<1>6. Holds(r, 0, x, ss)
  <2>1. \A p \in 0 + 1 .. x : r[p] = v.argz[p]
    BY <1>5
  <2>2. x <= Len(r)
    BY <1>5
  <2> QED
    BY <1>1, <1>4, <1>5, <2>1, <2>2, HoldsSame
<1>7. Holds(r, x, x + y, tt)
  <2>1. ASSUME NEW p \in 0 + 1 .. y PROVE r[p + x] = buf[p]
    <3>1. x + p = p + x /\ p \in 1 .. y
      OBVIOUS
    <3> QED
      BY <1>5, <3>1
  <2>2. 0 + x >= 0 /\ y + x <= Len(r) /\ x \in Int /\ 0 + x = x /\ y + x = x + y /\ 0 \in Nat
    BY <1>5
  <2>3. Holds(r, 0 + x, y + x, tt)
    BY <1>3, <1>5, <2>1, <2>2, HoldsMove
  <2> QED
    BY <2>2, <2>3
<1>8. Holds(r, 0, x + y, ss \o tt)
  BY <1>5, <1>6, <1>7, HoldsJoin
<1> QED
  BY <1>2, <1>3, <1>4, <1>5, <1>8 DEF Represents, Vector

(* argz_add appends a string.                                              *)
LEMMA AddHolds ==
  ASSUME NEW v, NEW ss, Represents(v, ss), NEW s \in Seq(Char)
  PROVE  Represents(argz_add(v, s), ss \o <<s>>)
<1>1. PICK l \in Nat : Bytes(s) \in Seq(Int) /\ Len(Bytes(s)) = l + 1 /\ StringAt(Bytes(s), 0, l + 1, s)
  BY BytesHold
<1>2. Holds(Bytes(s), 0, Len(Bytes(s)), <<s>>)
  <2>1. l + 1 \in Nat /\ 0 \in Nat
    OBVIOUS
  <2> QED
    BY <1>1, <2>1, HoldsOne
<1> QED
  BY <1>1, <1>2, AppendHolds DEF argz_add

(* The entry around a place                                                *)
LEMMA EntryAround ==
  ASSUME NEW a \in Seq(Int), NEW ss, NEW o, Laid(a, ss, o), NEW n \in Nat, n = Len(ss), o[0] = 0, NEW p \in 1 .. o[n]
  PROVE  \E i \in 1 .. n : o[i - 1] < p /\ p <= o[i]
<1>1. o \in [0 .. n -> Nat]
  BY DEF Laid
<1> DEFINE S == {j \in 0 .. n : p <= o[j]}
<1>2. PICK i \in 0 .. n : (i = n \/ i \in S) /\ \A j \in 0 .. i - 1 : j \notin S
  BY FirstExists
<1>3. p \in Nat /\ 1 <= p /\ p <= o[i]
  <2>1. n \in 0 .. n
    OBVIOUS
  <2>2. o[n] \in Nat
    BY <1>1, <2>1
  <2> QED
    BY <1>2, <2>2
<1>4. i \in 1 .. n
  <2>1. i # 0
    BY <1>3
  <2> QED
    BY <2>1
<1>5. o[i - 1] < p
  <2>1. i - 1 \in 0 .. i - 1 /\ i - 1 \in 0 .. n
    BY <1>4
  <2>2. o[i - 1] \in Nat /\ ~(p <= o[i - 1])
    BY <1>1, <1>2, <2>1
  <2> QED
    BY <1>3, <2>2
<1> QED
  BY <1>3, <1>4, <1>5

(* argz_insert finds the start of the entry around the place it is given.  *)
LEMMA EntryStartOf ==
  ASSUME NEW a \in Seq(Int), NEW x \in Nat, NEW y \in Nat, NEW before \in x + 1 .. y,
         x = 0 \/ a[x] = NUL, \A q \in x + 1 .. y - 1 : a[q] # NUL
  PROVE  EntryStart(a, before) = x + 1
<1> DEFINE P(p) == (p = 1 \/ a[p - 1] = NUL) /\ \A q \in p + 1 .. before : a[q - 1] # NUL
<1>1. x + 1 \in 1 .. before /\ P(x + 1)
  <2>1. x + 1 \in 1 .. before /\ (x + 1) - 1 = x
    OBVIOUS
  <2>2. x + 1 = 1 \/ a[(x + 1) - 1] = NUL
    BY <2>1
  <2>3. ASSUME NEW q \in (x + 1) + 1 .. before PROVE a[q - 1] # NUL
    <3>1. q - 1 \in x + 1 .. y - 1
      OBVIOUS
    <3> QED
      BY <3>1
  <2> QED
    BY <2>1, <2>2, <2>3
<1>2. ASSUME NEW p \in 1 .. before, P(p) PROVE p = x + 1
  <2>1. CASE p < x + 1
    <3>1. x + 1 \in p + 1 .. before /\ (x + 1) - 1 = x /\ x # 0
      BY <2>1
    <3>2. a[(x + 1) - 1] # NUL
      BY <1>2, <3>1
    <3> QED
      BY <3>1, <3>2
  <2>2. CASE p > x + 1
    <3>1. p # 1 /\ p - 1 \in x + 1 .. y - 1
      BY <2>2
    <3>2. a[p - 1] = NUL
      BY <1>2, <3>1
    <3> QED
      BY <3>1, <3>2
  <2> QED
    BY <2>1, <2>2
<1>3. EntryStart(a, before) = CHOOSE p \in 1 .. before : P(p)
  BY DEF EntryStart
<1> HIDE DEF P
<1> QED
  BY <1>1, <1>2, <1>3

(* What stands before an entry is no byte, or the end of the former one.   *)
LEMMA LaidBefore ==
  ASSUME NEW a \in Seq(Int), NEW ss, NEW o, Laid(a, ss, o), NEW n \in Nat, n = Len(ss), o[0] = 0, NEW i \in 1 .. n
  PROVE  o[i - 1] = 0 \/ a[o[i - 1]] = NUL
<1>1. CASE i = 1
  BY <1>1
<1>2. CASE i # 1
  <2>1. i - 1 \in 1 .. n
    BY <1>2
  <2> QED
    BY <2>1, LaidStep
<1> QED
  BY <1>1, <1>2

(* argz_insert inserts the string before the entry around that place.      *)
LEMMA InsertHolds ==
  ASSUME NEW v, NEW ss, Represents(v, ss), NEW before \in 1 .. v.len, NEW s \in Seq(Char)
  PROVE  \E i \in 1 .. Len(ss) : /\ Around(argz_extract(v.argz, v.len), before, i)
                                  /\ Represents(argz_insert(v, before, s), InsertAt(ss, i, s))
<1> DEFINE a == v.argz
           l == v.len
<1>1. Fits(v) /\ a \in Seq(Int) /\ l \in Nat /\ l <= Len(a) /\ ss \in Seq(Seq(Char)) /\ Holds(a, 0, l, ss)
  BY RepresentsIs
<1>2. PICK o : Laid(a, ss, o) /\ o[0] = 0 /\ o[Len(ss)] = l
  BY <1>1 DEF Holds
<1>3. PICK n \in Nat : n = Len(ss)
  BY <1>1
<1>e. argz_extract(a, l) = [j \in 1 .. n |-> o[j - 1] + 1]
  <2> HIDE DEF a, l
  <2> QED
    BY <1>1, <1>2, <1>3, ExtractLaid
<1>4. PICK r : /\ argz_insert(v, before, s) = Vector(r, l + (Len(s) + 1))
               /\ Inserted(v, EntryStart(a, before), s, r)
  BY <1>1, StringIs, InsertIs
<1>5. before \in 1 .. o[n]
  BY <1>2, <1>3
<1>6. PICK k \in Nat : k = Len(s) /\ Bytes(s) \in Seq(Int) /\ Len(Bytes(s)) = k + 1 /\ StringAt(Bytes(s), 0, k + 1, s)
  BY BytesHold
<1> HIDE DEF a, l
<1>7. PICK i \in 1 .. n : o[i - 1] < before /\ before <= o[i]
  BY <1>1, <1>2, <1>3, <1>5, EntryAround
<1> DEFINE x == o[i - 1]
           y == o[i]
<1>8. /\ x \in Nat /\ y \in Nat /\ x < y /\ y <= l
      /\ StringAt(a, x, y, ss[i])
  BY <1>1, <1>2, <1>3, LaidStep
<1>r. Around(argz_extract(a, l), before, i)
  <2>1. Len(argz_extract(a, l)) = n /\ argz_extract(a, l)[i] = x + 1
    BY <1>e, <1>8
  <2>2. CASE i = n
    BY <1>5, <1>7, <1>8, <2>1, <2>2 DEF Around
  <2>3. CASE i # n
    <3>1. argz_extract(a, l)[i + 1] = y + 1
      BY <1>e, <1>8, <2>3
    <3>2. before \in Int /\ x < before /\ before <= y
      BY <1>7
    <3>3. x + 1 <= before /\ before < y + 1
      BY <1>8, <3>2
    <3>4. argz_extract(a, l)[i] <= before /\ before < argz_extract(a, l)[i + 1]
      BY <2>1, <3>1, <3>3
    <3> QED
      BY <3>4 DEF Around
  <2> QED
    BY <2>2, <2>3
<1>9. x = 0 \/ a[x] = NUL
  BY <1>1, <1>2, <1>3, LaidBefore
<1>10. Holds(a, 0, x, SubSeq(ss, 1, i - 1)) /\ Holds(a, x, l, SubSeq(ss, i, n))
  <2>1. i - 1 \in 0 .. n /\ (i - 1) + 1 = i
    OBVIOUS
  <2>2. Holds(a, o[0], o[i - 1], SubSeq(ss, 1, i - 1)) /\ Holds(a, o[i - 1], o[n], SubSeq(ss, (i - 1) + 1, n))
    BY <1>1, <1>2, <1>3, <2>1, LaidCut
  <2> QED
    BY <1>2, <1>3, <2>1, <2>2
<1>x. before \in x + 1 .. y
  <2>1. before \in Int /\ x < before /\ before <= y
    BY <1>7
  <2> QED
    BY <1>8, <2>1
<1> HIDE DEF x, y
<1>11. EntryStart(a, before) = x + 1
  <2>1. \A q \in x + 1 .. y - 1 : a[q] # NUL
    BY <1>1, <1>8, EntryOf
  <2> QED
    BY <1>1, <1>8, <1>9, <1>x, <2>1, EntryStartOf
<1> DEFINE e == k + 1
<1>12. /\ r \in Seq(Int) /\ Len(r) = l + e
       /\ \A p \in 1 .. x : r[p] = a[p]
       /\ \A p \in 1 .. e : r[p + x] = Bytes(s)[p]
       /\ \A p \in x + 1 .. l : r[p + e] = a[p]
  <2>1. /\ r \in Seq(Int) /\ Len(r) = l + e
        /\ \A p \in 1 .. (x + 1) - 1 : r[p] = a[p]
        /\ \A p \in 1 .. e : r[(x + 1) + p - 1] = Bytes(s)[p]
        /\ \A p \in x + 1 .. l : r[p + e] = a[p]
    BY <1>4, <1>6, <1>11 DEF Inserted, a, l
  <2>2. (x + 1) - 1 = x /\ \A p \in 1 .. e : (x + 1) + p - 1 = p + x
    BY <1>8
  <2> QED
    BY <2>1, <2>2
<1>z. e \in Nat /\ x + e \in Nat /\ x + e <= Len(r) /\ l + e <= Len(r) /\ l + e \in Nat
  <2>1. e \in Nat
    OBVIOUS
  <2> HIDE DEF e
  <2>2. l + e \in Nat /\ x + e \in Nat /\ x + e <= l + e
    BY <1>1, <1>8, <2>1
  <2> QED
    BY <1>12, <2>1, <2>2
<1>13. Holds(r, 0, x, SubSeq(ss, 1, i - 1))
  <2>1. x <= Len(r) /\ \A p \in 0 + 1 .. x : r[p] = a[p]
    BY <1>1, <1>8, <1>12
  <2> QED
    BY <1>1, <1>10, <1>12, <2>1, HoldsSame
<1>14. Holds(r, x, x + e, <<s>>)
  <2>1. /\ 0 \in Nat /\ k + 1 \in Nat /\ x \in Int /\ 0 + x >= 0 /\ (k + 1) + x <= Len(r)
        /\ 0 + x = x /\ (k + 1) + x = x + e /\ x + e \in Nat
    <3>1. (k + 1) + x = x + e
      BY <1>8
    <3> HIDE DEF e
    <3> QED
      BY <1>8, <1>z, <3>1
  <2>2. \A p \in 0 + 1 .. k + 1 : r[p + x] = Bytes(s)[p]
    BY <1>12
  <2>3. StringAt(r, 0 + x, (k + 1) + x, s)
    BY <1>6, <1>12, <2>1, <2>2, StringAtMove
  <2> QED
    BY <1>8, <1>12, <2>1, <2>3, HoldsOne
<1>15. Holds(r, x + e, l + e, SubSeq(ss, i, n))
  <2>1. e \in Int /\ x + e >= 0 /\ l + e <= Len(r)
    <3> HIDE DEF e
    <3> QED
      BY <1>z
  <2> QED
    BY <1>1, <1>8, <1>10, <1>12, <2>1, HoldsMove
<1>16. Holds(r, 0, l + e, InsertAt(ss, i, s))
  <2>1. Holds(r, 0, x + e, SubSeq(ss, 1, i - 1) \o <<s>>)
    BY <1>12, <1>13, <1>14, HoldsJoin
  <2>2. Holds(r, 0, l + e, (SubSeq(ss, 1, i - 1) \o <<s>>) \o SubSeq(ss, i, n))
    BY <1>12, <1>15, <2>1, HoldsJoin
  <2> QED
    BY <1>3, <2>2 DEF InsertAt
<1>17. Represents(argz_insert(v, before, s), InsertAt(ss, i, s))
  BY <1>4, <1>6, <1>12, <1>16 DEF Represents, Vector
<1> QED
  BY <1>3, <1>r, <1>17 DEF a, l

(* argz_delete removes the entry that starts where it is told.             *)
LEMMA DeleteHolds ==
  ASSUME NEW v, NEW ss, Represents(v, ss), NEW p \in Range(argz_extract(v.argz, v.len))
  PROVE  \E i \in 1 .. Len(ss) : /\ argz_extract(v.argz, v.len)[i] = p
                                  /\ Represents(argz_delete(v, p), RemoveAt(ss, i))
<1> DEFINE a == v.argz
           l == v.len
<1>1. Good(v) /\ a \in Seq(Int) /\ l \in Nat /\ l <= Len(a) /\ ss \in Seq(Seq(Char)) /\ Holds(a, 0, l, ss)
  BY RepresentsIs
<1>2. PICK o : Laid(a, ss, o) /\ o[0] = 0 /\ o[Len(ss)] = l
  BY <1>1 DEF Holds
<1>3. PICK n \in Nat : n = Len(ss)
  BY <1>1
<1>4. argz_extract(a, l) = [j \in 1 .. n |-> o[j - 1] + 1]
  <2> HIDE DEF a, l
  <2> QED
    BY <1>1, <1>2, <1>3, ExtractLaid
<1>5. PICK i \in 1 .. n : p = o[i - 1] + 1
  BY <1>4 DEF Range
<1>q. argz_extract(v.argz, v.len)[i] = p
  BY <1>4, <1>5
<1>6. p \in Starts(v)
  <2>1. argz_extract(v.argz, v.len) \in Seq(Starts(v))
    BY <1>1, ExtractIs
  <2> QED
    BY <2>1 DEF Range
<1> DEFINE e == strlen(a, p) + 1
<1>7. PICK r : argz_delete(v, p) = Vector(IF l - e = 0 THEN <<>> ELSE r, l - e) /\ Deleted(v, p, e, r)
  BY <1>1, <1>6, DeleteIs
<1>a. a = v.argz /\ l = v.len
  OBVIOUS
<1> HIDE DEF a, l
<1> DEFINE x == o[i - 1]
           y == o[i]
<1>8. /\ x \in Nat /\ y \in Nat /\ x < y /\ y <= l
      /\ StringAt(a, x, y, ss[i])
  BY <1>1, <1>2, <1>3, LaidStep
<1>9. Holds(a, 0, x, SubSeq(ss, 1, i - 1)) /\ Holds(a, y, l, SubSeq(ss, i + 1, n))
  <2>1. i - 1 \in 0 .. n /\ i \in 0 .. n
    OBVIOUS
  <2>2. Holds(a, o[0], o[i - 1], SubSeq(ss, 1, i - 1)) /\ Holds(a, o[i], o[n], SubSeq(ss, i + 1, n))
    BY <1>1, <1>2, <1>3, <2>1, LaidCut
  <2> QED
    BY <1>2, <1>3, <2>2
<1>p. p = x + 1
  BY <1>5
<1> HIDE DEF x, y
<1>10. e \in Nat /\ x + e = y
  <2>1. PICK k \in Nat : y = x + k + 1 /\ strlen(a, x + 1) = k
    BY <1>1, <1>8, StringAtIs
  <2> QED
    BY <1>8, <1>p, <2>1
<1> HIDE DEF e
<1>11. /\ r \in Seq(Int) /\ Len(r) = Len(a)
       /\ \A q \in 1 .. x : r[q] = a[q]
       /\ \A q \in x + 1 .. l - e : r[q] = a[q + e]
  <2>1. /\ r \in Seq(Int) /\ Len(r) = Len(a)
        /\ \A q \in 1 .. (x + 1) - 1 : r[q] = a[q]
        /\ \A q \in x + 1 .. l - e : r[q] = a[q + e]
    BY <1>7, <1>a, <1>p DEF Deleted
  <2>2. (x + 1) - 1 = x
    BY <1>8
  <2> QED
    BY <2>1, <2>2
<1>12. Holds(r, 0, x, SubSeq(ss, 1, i - 1))
  <2>1. x <= Len(r) /\ \A q \in 0 + 1 .. x : r[q] = a[q]
    BY <1>1, <1>8, <1>11
  <2> QED
    BY <1>1, <1>9, <1>11, <2>1, HoldsSame
<1>13. Holds(r, x, l - e, SubSeq(ss, i + 1, n))
  <2> DEFINE d == 0 - e
  <2>1. /\ d \in Int /\ y + d = x /\ l + d = l - e /\ y + d >= 0 /\ l + d <= Len(r)
    BY <1>1, <1>8, <1>10, <1>11
  <2>0. d = 0 - e
    OBVIOUS
  <2> HIDE DEF d
  <2>2. ASSUME NEW q \in y + 1 .. l PROVE r[q + d] = a[q]
    <3>1. q + d \in x + 1 .. l - e /\ (q + d) + e = q
      <4>1. q \in Int /\ y + 1 <= q /\ q <= l
        BY <1>1, <1>8
      <4>2. q + d = q - e
        BY <1>10, <2>0, <4>1
      <4>3. q - e \in x + 1 .. l - e /\ (q - e) + e = q
        BY <1>1, <1>8, <1>10, <4>1
      <4> QED
        BY <4>2, <4>3
    <3> QED
      BY <1>11, <3>1
  <2>3. Holds(r, y + d, l + d, SubSeq(ss, i + 1, n))
    BY <1>1, <1>8, <1>9, <1>11, <2>1, <2>2, HoldsMove
  <2> QED
    BY <2>1, <2>3
<1>14. Holds(r, 0, l - e, RemoveAt(ss, i))
  <2>1. Holds(r, 0, l - e, SubSeq(ss, 1, i - 1) \o SubSeq(ss, i + 1, n))
    BY <1>11, <1>12, <1>13, HoldsJoin
  <2> QED
    BY <1>3, <2>1 DEF RemoveAt
<1>15. Represents(argz_delete(v, p), RemoveAt(ss, i))
  <2>1. CASE l - e = 0
    <3>1. RemoveAt(ss, i) = <<>>
      BY <1>11, <1>14, <2>1, HoldsIs
    <3>2. argz_delete(v, p) = Vector(<<>>, 0)
      BY <1>7, <2>1
    <3> QED
      BY <3>1, <3>2, RepresentsNone
  <2>2. CASE l - e # 0
    <3>1. argz_delete(v, p) = Vector(r, l - e)
      BY <1>7, <2>2
    <3> QED
      BY <1>11, <1>14, <3>1 DEF Represents, Vector
  <2> QED
    BY <2>1, <2>2
<1> QED
  BY <1>3, <1>q, <1>15

-----------------------------------------------------------------------------
(* argz_create.                                                            *)

(* argz_create makes the vector of the strings it is given.                *)
LEMMA CreateHolds ==
  ASSUME NEW strs \in Seq(Seq(Char))
  PROVE  Represents(argz_create(strs), strs)
<1> DEFINE n == Len(strs)
           tlen == Len(Joint(strs))
           base == [block |-> malloc(tlen), p |-> 1]
           G == [k \in 1 .. n |-> [v \in Puts |-> PutString(v, strs[k])]]
           Loop(h) == h = [t \in SUBSET (1 .. n) |->
                             IF t = {} THEN base ELSE PutString(h[t \ {Max(t)}], strs[Max(t)])]
<1>0. n \in Nat /\ DOMAIN strs = 1 .. n /\ \A k \in 1 .. n : strs[k] \in Seq(Char)
  OBVIOUS
<1>1. \A k \in 1 .. n : strs[k] \in Seq(Octet)
  BY <1>0, StringIs
<1>2. strs \in Seq(Seq(Octet))
  <2> HIDE DEF n
  <2>1. strs \in [1 .. n -> Seq(Octet)]
    <3>1. strs = [k \in 1 .. n |-> strs[k]]
      BY <1>0
    <3> QED
      BY <1>1, <3>1
  <2> QED
    BY <1>0, <2>1
<1>3. PICK J \in [0 .. n -> Seq(Octet)] :
        J[0] = <<>> /\ (\A i \in 1 .. n : J[i] = J[i - 1] \o Bytes(strs[i])) /\ Joint(strs) = J[n]
  BY <1>2, OctetIs, JointIs
<1>4. /\ \A i \in 1 .. n : Grows(J[i - 1], strs[i], J[i])
      /\ \A i \in 1 .. n : Len(J[i]) <= Len(J[n])
  <2>1. n \in Nat /\ n = Len(strs) /\ NUL \in Octet
    BY <1>0, OctetIs
  <2>2. Joins(J, strs, n)
    BY <1>3 DEF Joins
  <2> HIDE DEF n
  <2> QED
    BY <1>2, <2>1, <2>2, JointRoom
<1>5. tlen \in Nat /\ tlen = Len(J[n]) /\ \A i \in 0 .. n : Len(J[i]) \in Nat
  <2>1. \A i \in 0 .. n : J[i] \in Seq(Octet)
    BY <1>3
  <2>2. n \in 0 .. n
    BY <1>0
  <2> QED
    BY <1>3, <2>1, <2>2
<1> HIDE DEF n, tlen
<1>6. malloc(tlen) \in Seq(Int) /\ Len(malloc(tlen)) = tlen /\ \A i \in 1 .. tlen : malloc(tlen)[i] # Outside
  <2>1. \A i \in 1 .. tlen : malloc(tlen)[i] = Uninit
    BY DEF malloc
  <2>2. Uninit # Outside
    BY DEF Uninit, Outside
  <2>3. malloc(tlen) \in Seq(Int) /\ Len(malloc(tlen)) = tlen
    BY <1>5, mallocIs
  <2> QED
    BY <2>1, <2>2, <2>3
<1>7. base \in Puts
  BY <1>6 DEF Puts
<1> HIDE DEF base
<1>8. \A k \in 1 .. n : \A v \in Puts : G[k][v] = PutString(v, strs[k]) /\ G[k][v] \in Puts
  <2> SUFFICES ASSUME NEW k \in 1 .. n, NEW v \in Puts
               PROVE  G[k][v] = PutString(v, strs[k]) /\ G[k][v] \in Puts
    OBVIOUS
  <2>2. G[k][v] = PutString(v, strs[k])
    OBVIOUS
  <2> HIDE DEF G
  <2> QED
    BY <1>1, <2>2, PutTyped
<1> HIDE DEF G
<1>9. PICK h : Loop(h) /\ CreateFold(strs) = h[1 .. n]
  <2>1. PICK g \in [SUBSET (1 .. n) -> Puts] : FoldOf(g, n, base, G)
    <3>1. \A k \in 1 .. n : \A v \in Puts : G[k][v] \in Puts
      BY <1>8
    <3> QED
      BY <1>0, <1>7, <3>1, FoldExists
  <2>2. ASSUME NEW t \in SUBSET (1 .. n)
        PROVE  g[t] = IF t = {} THEN base ELSE PutString(g[t \ {Max(t)}], strs[Max(t)])
    <3>1. g[t] = IF t = {} THEN base ELSE G[Max(t)][g[t \ {Max(t)}]]
      BY <2>1 DEF FoldOf
    <3>2. ASSUME t # {} PROVE G[Max(t)][g[t \ {Max(t)}]] = PutString(g[t \ {Max(t)}], strs[Max(t)])
      <4>1. Max(t) \in 1 .. n
        BY <1>0, <3>2, MaxIs
      <4>2. g[t \ {Max(t)}] \in Puts
        OBVIOUS
      <4> QED
        BY <1>8, <4>1, <4>2
    <3> QED
      BY <3>1, <3>2
  <2>3. g = [t \in SUBSET (1 .. n) |-> g[t]]
    BY <2>1
  <2>4. Loop(g)
    BY <2>2, <2>3
  <2>5. \E h : h = [t \in SUBSET (1 .. n) |-> IF t = {} THEN base ELSE PutString(h[t \ {Max(t)}], strs[Max(t)])]
    BY <2>4
  <2>6. \E h : Loop(h) /\ FoldLeft(PutString, base, strs) = h[1 .. n]
    BY <1>0, <2>5 DEF FoldLeft, MapThenFoldSet
  <2> QED
    BY <2>6 DEF CreateFold, base, tlen
<1>10. PICK f \in [0 .. n -> Puts] :
         f[n] = h[1 .. n] /\ Chain(f, n, base, G)
  <2>1. ASSUME NEW t \in SUBSET (1 .. n)
        PROVE  h[t] = IF t = {} THEN base ELSE PutString(h[t \ {Max(t)}], strs[Max(t)])
    BY <1>9
  <2>2. h[{}] = base
    BY <2>1
  <2>3. ASSUME NEW k \in 1 .. n, h[1 .. k - 1] \in Puts PROVE h[1 .. k] = G[k][h[1 .. k - 1]]
    <3> DEFINE t == 1 .. k
    <3>1. k \in Nat \ {0} /\ t \in SUBSET (1 .. n)
      BY <1>0
    <3>2. t # {} /\ Max(t) = k /\ t \ {k} = 1 .. k - 1
      BY <3>1, PrefixMax
    <3> HIDE DEF t
    <3>3. h[t] = PutString(h[1 .. k - 1], strs[k])
      BY <2>1, <3>1, <3>2
    <3> QED
      BY <1>8, <2>3, <3>3 DEF t
  <2>4. \A k \in 1 .. n : \A v \in Puts : G[k][v] \in Puts
    BY <1>8
  <2>5. \A k \in 1 .. n : h[1 .. k - 1] \in Puts => h[1 .. k] = G[k][h[1 .. k - 1]]
    BY <2>3
  <2>6. n \in Nat
    BY <1>0
  <2>7. Folds(h, n, Puts, base, G)
    BY <2>2, <2>5 DEF Folds
  <2> QED
    BY <1>7, <2>4, <2>6, <2>7, FoldChain
<1> DEFINE Typed(acc) == Len(acc.block) = tlen /\ \A i \in 1 .. tlen : acc.block[i] # Outside
           Writes(k, acc) == acc.p = Len(J[k]) + 1 /\ Holds(acc.block, 0, Len(J[k]), SubSeq(strs, 1, k))
           E == {k \in 0 .. n : Typed(f[k]) /\ Writes(k, f[k])}
<1>c. f[0] = base /\ \A k \in 1 .. n : f[k] = G[k][f[k - 1]]
  BY <1>10 DEF Chain
<1>11. 0 \in E
  <2>1. f[0].block = malloc(tlen) /\ f[0].p = 1 /\ Len(J[0]) = 0
    BY <1>3, <1>c DEF base
  <2>2. 0 \in 0 .. n
    BY <1>0
  <2>3. Holds(malloc(tlen), 0, 0, <<>>)
    <3>1. 0 \in 0 .. Len(malloc(tlen))
      BY <1>5, <1>6
    <3> QED
      BY <1>6, <3>1, HoldsNone
  <2>4. SubSeq(strs, 1, 0) = <<>>
    OBVIOUS
  <2>5. Typed(f[0]) /\ Writes(0, f[0])
    <3>1. Typed(f[0])
      BY <1>6, <2>1
    <3>2. f[0].p = Len(J[0]) + 1
      BY <2>1
    <3>3. Holds(f[0].block, 0, Len(J[0]), SubSeq(strs, 1, 0))
      BY <2>1, <2>3, <2>4
    <3> QED
      BY <3>1, <3>2, <3>3
  <2> HIDE DEF Typed, Writes
  <2> QED
    BY <2>2, <2>5
<1>12. ASSUME NEW k \in 1 .. n, k - 1 \in E PROVE k \in E
  <2> DEFINE acc == f[k - 1]
             new == PutString(acc, strs[k])
             s == strs[k]
             l == Len(s)
             e == acc.p
             old == acc.block
             nb == new.block
  <2>0. k - 1 \in 0 .. n /\ k \in 0 .. n /\ n \in Nat
    BY <1>0
  <2>1. acc \in Puts /\ s \in Seq(Char) /\ l \in Nat
    BY <1>0, <2>0
  <2>2. Typed(acc) /\ Writes(k - 1, acc)
    <3> HIDE DEF Typed, Writes
    <3> QED
      BY <1>12
  <2>3. f[k] = new
    BY <1>8, <1>c, <2>1
  <2>4. old \in Seq(Int) /\ e \in Int
    BY <2>1 DEF Puts
  <2>5. /\ e >= 1 /\ e + l <= tlen /\ e + l = Len(J[k])
    <3>1. e = Len(J[k - 1]) + 1 /\ Len(J[k - 1]) \in Nat /\ Len(J[k]) \in Nat
      BY <1>5, <2>0, <2>2
    <3>2. Grows(J[k - 1], s, J[k]) /\ Len(J[k]) <= tlen
      BY <1>4, <1>5
    <3>3. PICK x \in Nat, y \in Nat : x = Len(J[k - 1]) /\ y = l /\ Len(J[k]) = x + y + 1
      BY <3>2 DEF Grows
    <3> HIDE DEF e, l
    <3> QED
      BY <2>1, <3>1, <3>2, <3>3
  <2>6. Len(old) = tlen /\ (\A i \in 1 .. tlen : old[i] # Outside) /\ Holds(old, 0, e - 1, SubSeq(strs, 1, k - 1))
    <3>1. e = Len(J[k - 1]) + 1 /\ Len(J[k - 1]) \in Nat
      BY <1>5, <2>0, <2>2
    <3>2. e - 1 = Len(J[k - 1])
      <4> HIDE DEF e
      <4> QED
        BY <3>1
    <3> QED
      BY <2>2, <3>2
  <2>7. \A i \in 1 .. l : s[i] \in Octet
    <3>1. \A i \in 1 .. l : s[i] \in Char
      BY <2>1
    <3> QED
      BY <3>1, OctetIs
  <2>8. /\ new \in Puts /\ Len(nb) = tlen /\ new.p = e + l + 1
        /\ \A i \in 1 .. tlen : i \notin e .. e + l => nb[i] = old[i]
        /\ \A i \in 1 .. l : nb[e + i - 1] = s[i]
        /\ nb[e + l] = NUL
    <3>1. acc.p >= 1 /\ acc.p + Len(s) <= Len(acc.block)
      BY <2>5, <2>6
    <3>2. \A i \in 1 .. Len(acc.block) : acc.block[i] # Outside
      BY <2>6
    <3> HIDE DEF acc, s
    <3>3. PutString(acc, s) = new
      BY DEF s
    <3>4. /\ new \in Puts /\ Len(new.block) = Len(acc.block) /\ new.p = acc.p + Len(s) + 1
          /\ \A i \in 1 .. Len(acc.block) : i \notin acc.p .. acc.p + Len(s) => new.block[i] = acc.block[i]
          /\ \A i \in 1 .. Len(s) : new.block[acc.p + i - 1] = s[i]
          /\ new.block[acc.p + Len(s)] = NUL
      BY <2>1, <3>1, <3>2, <3>3, PutIs
    <3> HIDE DEF new
    <3> QED
      BY <2>6, <3>4
  <2> HIDE DEF acc, new, s, l, e, old, nb
  <2>a. nb \in Seq(Int)
    BY <2>8 DEF Puts, nb
  <2>b. SubSeq(strs, 1, k) = SubSeq(strs, 1, k - 1) \o <<s>>
    BY <1>0, SubSeqNext DEF n, s
  <2>9. Holds(nb, 0, e - 1, SubSeq(strs, 1, k - 1))
    <3>1. e - 1 <= Len(nb)
      BY <2>1, <2>4, <2>5, <2>8
    <3>2. ASSUME NEW i \in 0 + 1 .. e - 1 PROVE nb[i] = old[i]
      <4>1. i \in 1 .. tlen /\ i \notin e .. e + l
        BY <1>5, <2>1, <2>4, <2>5
      <4> QED
        BY <2>8, <4>1
    <3> QED
      BY <2>4, <2>6, <2>a, <3>1, <3>2, HoldsSame
  <2>10. Holds(nb, e - 1, e + l, <<s>>)
    <3>1. e - 1 \in Nat /\ e + l \in Nat /\ e + l = (e - 1) + l + 1 /\ e + l <= Len(nb)
      BY <2>1, <2>4, <2>5, <2>8
    <3>2. \A j \in 1 .. l : nb[(e - 1) + j] = s[j]
      <4>1. \A j \in 1 .. l : (e - 1) + j = e + j - 1
        BY <2>4
      <4> QED
        BY <2>8, <4>1
    <3>3. StringAt(nb, e - 1, e + l, s)
      BY <2>1, <2>8, <3>1, <3>2 DEF StringAt, l
    <3> QED
      BY <2>a, <3>1, <3>3, HoldsOne
  <2>c. Holds(nb, 0, e + l, SubSeq(strs, 1, k))
    BY <2>a, <2>9, <2>10, <2>b, HoldsJoin
  <2>11. \A i \in 1 .. tlen : nb[i] # Outside
    <3>1. ASSUME NEW i \in e .. e + l PROVE nb[i] # Outside
      <4>1. CASE i = e + l
        BY <2>8, <4>1 DEF NUL, Outside
      <4>2. CASE i # e + l
        <5>1. i - e + 1 \in 1 .. l /\ e + (i - e + 1) - 1 = i
          BY <2>1, <2>4, <4>2
        <5>2. nb[e + (i - e + 1) - 1] = s[i - e + 1]
          BY <2>8, <5>1
        <5>3. s[i - e + 1] \in Octet
          BY <2>7, <5>1
        <5> QED
          BY <5>1, <5>2, <5>3, OctetIs
      <4> QED
        BY <4>1, <4>2
    <3> QED
      BY <2>6, <2>8, <3>1
  <2>12. new.p = Len(J[k]) + 1
    <3>1. new.p = e + l + 1 /\ e + l = Len(J[k])
      BY <2>5, <2>8
    <3>2. e \in Int /\ l \in Int
      BY <2>1, <2>4
    <3> QED
      BY <3>1, <3>2
  <2>13. Typed(new) /\ Writes(k, new)
    BY <2>5, <2>8, <2>c, <2>11, <2>12 DEF nb
  <2> HIDE DEF Typed, Writes
  <2> QED
    BY <2>0, <2>3, <2>13
<1>13. Typed(f[n]) /\ Writes(n, f[n])
  <2> HIDE DEF E
  <2>1. \A k \in 0 .. n : k \in E
    BY <1>0, <1>11, <1>12, UpTo
  <2>2. n \in 0 .. n
    BY <1>0
  <2>3. n \in E
    BY <2>1, <2>2
  <2> HIDE DEF Typed, Writes
  <2> QED
    BY <2>3 DEF E
<1> DEFINE end == f[n].block
<1>14. argz_create(strs) = Vector(end, tlen)
  BY <1>9, <1>10, CreateIs DEF tlen
<1>15. end \in Seq(Int)
  <2>1. n \in 0 .. n
    BY <1>0
  <2>2. f[n] \in Puts
    BY <1>10, <2>1
  <2> QED
    BY <2>2 DEF Puts
<1>16. Holds(end, 0, tlen, strs)
  <2>1. SubSeq(strs, 1, n) = strs
    BY <1>0 DEF n
  <2> QED
    BY <1>5, <1>13, <2>1
<1> QED
  BY <1>14, <1>15, <1>16 DEF Represents, Vector

-----------------------------------------------------------------------------
(* argz_create_sep and argz_add_sep.                                       *)

(* What ArgzVector has of the first characters of a string that is split,  *)
(* and the next character of it.                                           *)
PartsSoFar == [parts : Seq(Seq(Char)), rest : Seq(Char)]

(* What one more character makes of them                                   *)
PartsNext(u, c) ==
  IF c # Sep THEN [u EXCEPT !.rest = Append(@, c)]
  ELSE IF u.rest = <<>> THEN u
  ELSE [parts |-> Append(u.parts, u.rest), rest |-> <<>>]

(* So they stay parts of a string.                                         *)
LEMMA PartsNextTyped ==
  ASSUME NEW u \in PartsSoFar, NEW c \in Char
  PROVE  /\ PartsNext(u, c) \in PartsSoFar
         /\ c # Sep => PartsNext(u, c) = [parts |-> u.parts, rest |-> Append(u.rest, c)]
<1>1. u.parts \in Seq(Seq(Char)) /\ u.rest \in Seq(Char) /\ u = [parts |-> u.parts, rest |-> u.rest]
  BY DEF PartsSoFar
<1>2. CASE c # Sep
  <2>1. PartsNext(u, c) = [parts |-> u.parts, rest |-> Append(u.rest, c)]
    BY <1>1, <1>2 DEF PartsNext
  <2>2. Append(u.rest, c) \in Seq(Char)
    BY <1>1
  <2> QED
    BY <1>1, <2>1, <2>2 DEF PartsSoFar
<1>3. CASE c = Sep /\ u.rest = <<>>
  BY <1>3 DEF PartsNext
<1>4. CASE c = Sep /\ u.rest # <<>>
  <2>1. PartsNext(u, c) = [parts |-> Append(u.parts, u.rest), rest |-> <<>>]
    BY <1>4 DEF PartsNext
  <2>2. Append(u.parts, u.rest) \in Seq(Seq(Char)) /\ <<>> \in Seq(Char)
    BY <1>1, SMTT(15)
  <2> QED
    BY <1>4, <2>1, <2>2 DEF PartsSoFar
<1> QED
  BY <1>2, <1>3, <1>4

(* Parts, character after character                                        *)
LEMMA PartsIs ==
  ASSUME NEW s \in Seq(Char), NEW n \in Nat, n = Len(s)
  PROVE  \E u \in [0 .. n -> PartsSoFar] :
           /\ u[0] = [parts |-> <<>>, rest |-> <<>>]
           /\ \A k \in 1 .. n : u[k] = PartsNext(u[k - 1], s[k])
           /\ Vec!Parts(s) = Append(u[n].parts, u[n].rest)
<1> DEFINE base == [parts |-> <<>>, rest |-> <<>>]
           G == [k \in 1 .. n |-> [u \in PartsSoFar |-> PartsNext(u, s[k])]]
           Loop(h) == h = [i \in 0 .. n |-> IF i = 0 THEN base ELSE PartsNext(h[i - 1], s[i])]
<1>1. base \in PartsSoFar
  BY DEF PartsSoFar
<1> HIDE DEF base
<1>2. \A k \in 1 .. n : \A u \in PartsSoFar : G[k][u] = PartsNext(u, s[k]) /\ G[k][u] \in PartsSoFar
  <2> SUFFICES ASSUME NEW k \in 1 .. n, NEW u \in PartsSoFar
               PROVE  G[k][u] = PartsNext(u, s[k]) /\ G[k][u] \in PartsSoFar
    OBVIOUS
  <2>1. s[k] \in Char
    OBVIOUS
  <2>2. G[k][u] = PartsNext(u, s[k])
    OBVIOUS
  <2> HIDE DEF G
  <2> QED
    BY <2>1, <2>2, PartsNextTyped
<1> HIDE DEF G
<1>3. PICK g \in [SUBSET (1 .. n) -> PartsSoFar] : FoldOf(g, n, base, G)
  <2>1. \A k \in 1 .. n : \A u \in PartsSoFar : G[k][u] \in PartsSoFar
    BY <1>2
  <2> QED
    BY <1>1, <2>1, FoldExists
<1> DEFINE f == [k \in 0 .. n |-> g[1 .. k]]
<1>4. f \in [0 .. n -> PartsSoFar] /\ f[0] = base /\ \A k \in 1 .. n : f[k] = PartsNext(f[k - 1], s[k])
  <2>1. f \in [0 .. n -> PartsSoFar]
    <3>1. \A k \in 0 .. n : 1 .. k \in SUBSET (1 .. n)
      OBVIOUS
    <3> QED
      BY <3>1
  <2>2. f[0] = base
    <3>1. 1 .. 0 = {} /\ 1 .. 0 \in SUBSET (1 .. n) /\ 0 \in 0 .. n
      OBVIOUS
    <3>2. g[1 .. 0] = base
      BY <1>3, <3>1 DEF FoldOf
    <3> QED
      BY <3>1, <3>2
  <2>3. ASSUME NEW k \in 1 .. n PROVE f[k] = PartsNext(f[k - 1], s[k])
    <3>1. k \in Nat \ {0} /\ 1 .. k \in SUBSET (1 .. n) /\ 1 .. k - 1 \in SUBSET (1 .. n) /\ k \in 0 .. n /\ k - 1 \in 0 .. n
      OBVIOUS
    <3>2. 1 .. k # {} /\ Max(1 .. k) = k /\ (1 .. k) \ {k} = 1 .. k - 1
      BY <3>1, PrefixMax
    <3>3. g[1 .. k] = G[k][g[1 .. k - 1]]
      BY <1>3, <3>1, <3>2, ZenonT(30) DEF FoldOf
    <3>4. g[1 .. k - 1] \in PartsSoFar
      BY <3>1
    <3>5. f[k] = g[1 .. k] /\ f[k - 1] = g[1 .. k - 1]
      BY <3>1
    <3> HIDE DEF f
    <3> QED
      BY <1>2, <3>3, <3>4, <3>5
  <2> QED
    BY <2>1, <2>2, <2>3
<1> HIDE DEF f
<1>5. Loop(f)
  <2>1. f = [i \in 0 .. n |-> f[i]]
    BY <1>4
  <2>2. \A i \in 0 .. n : f[i] = IF i = 0 THEN base ELSE PartsNext(f[i - 1], s[i])
    BY <1>4
  <2> DEFINE E(i) == IF i = 0 THEN base ELSE PartsNext(f[i - 1], s[i])
  <2>3. \A i \in 0 .. n : f[i] = E(i)
    BY <2>2
  <2>4. f = [i \in 0 .. n |-> E(i)]
    <3> HIDE DEF E, Loop
    <3> QED
      BY <2>1, <2>3
  <2> QED
    BY <2>4
<1>6. \E h : Loop(h) /\ Vec!Parts(s) = Append(h[n].parts, h[n].rest)
  <2>1. \E h : Loop(h)
    BY <1>5
  <2> QED
    BY <2>1, ZenonT(30) DEF Vec!Parts, PartsNext, base
<1>7. PICK h : Loop(h) /\ Vec!Parts(s) = Append(h[n].parts, h[n].rest)
  BY <1>6
<1>8. /\ h = [i \in 0 .. n |-> h[i]]
      /\ \A i \in 0 .. n : h[i] = IF i = 0 THEN base ELSE PartsNext(h[i - 1], s[i])
  <2>1. h = [i \in 0 .. n |-> IF i = 0 THEN base ELSE PartsNext(h[i - 1], s[i])]
    BY <1>7
  <2> HIDE DEF Loop
  <2>2. \A i \in 0 .. n : h[i] = IF i = 0 THEN base ELSE PartsNext(h[i - 1], s[i])
    BY <2>1
  <2>3. h = [i \in 0 .. n |-> h[i]]
    BY <2>1
  <2> QED
    BY <2>2, <2>3
<1>9. h[0] = base /\ \A k \in 1 .. n : h[k] = PartsNext(h[k - 1], s[k])
  BY <1>8
<1> DEFINE S == {i \in Int : h[i] \in PartsSoFar}
<1>10. 0 \in S
  BY <1>1, <1>9
<1>11. ASSUME NEW k \in 1 .. n, k - 1 \in S PROVE k \in S
  <2>1. h[k] = PartsNext(h[k - 1], s[k]) /\ s[k] \in Char
    BY <1>9
  <2> QED
    BY <1>11, <2>1, PartsNextTyped
<1>12. \A k \in 0 .. n : k \in S
  <2> HIDE DEF S
  <2> QED
    BY <1>10, <1>11, UpTo
<1>13. h \in [0 .. n -> PartsSoFar]
  BY <1>8, <1>12
<1> QED
  BY <1>7, <1>9, <1>13 DEF base

(* The loop of argz_create_sep and argz_add_sep has written the strings uu *)
(* up to b, and after it the characters r of the next string.              *)
Midway(acc, b, uu, r) ==
  /\ acc \in Splits /\ b \in Nat /\ Holds(acc.block, 0, b, uu)
  /\ r \in Seq(Char) /\ acc.wp = b + Len(r) + 1 /\ acc.wp <= Len(acc.block) + 1
  /\ \A j \in 1 .. Len(r) : acc.block[b + j] = r[j]

(* A byte written after them                                               *)
LEMMA MidwayWrites ==
  ASSUME NEW acc, NEW b, NEW uu, NEW r, Midway(acc, b, uu, r), acc.wp <= Len(acc.block), NEW x \in Int
  PROVE  LET c == [acc.block EXCEPT ![acc.wp] = x]
         IN  /\ c \in Seq(Int) /\ Len(c) = Len(acc.block) /\ Holds(c, 0, b, uu)
             /\ \A j \in 1 .. Len(r) : c[b + j] = r[j]
             /\ c[acc.wp] = x
<1> DEFINE a == acc.block
           w == acc.wp
           c == [a EXCEPT ![w] = x]
<1>1. PICK n \in Nat : n = Len(a) /\ a \in Seq(Int) /\ a \in [1 .. n -> Int]
  BY DEF Midway, Splits
<1>2. PICK l \in Nat : l = Len(r) /\ b \in Nat /\ w = b + l + 1 /\ \A j \in 1 .. l : a[b + j] = r[j]
  <2>1. b \in Nat /\ r \in Seq(Char) /\ w = b + Len(r) + 1 /\ \A j \in 1 .. Len(r) : a[b + j] = r[j]
    BY DEF Midway
  <2>2. Len(r) \in Nat
    BY <2>1
  <2> QED
    BY <2>1, <2>2
<1>3. Holds(a, 0, b, uu) /\ w <= n
  BY <1>1 DEF Midway
<1> HIDE DEF a, w
<1>4. w \in 1 .. n
  BY <1>1, <1>2, <1>3
<1>5. c \in [1 .. n -> Int] /\ c[w] = x /\ \A i \in 1 .. n : i # w => c[i] = a[i]
  BY <1>1, <1>4
<1>6. c \in Seq(Int) /\ Len(c) = n
  BY <1>1, <1>5
<1> HIDE DEF c
<1>7. Holds(c, 0, b, uu)
  <2>1. \A p \in 0 + 1 .. b : p \in 1 .. n /\ p # w
    BY <1>1, <1>2, <1>3
  <2>2. b <= Len(c)
    BY <1>2, <1>3, <1>6
  <2>3. \A p \in 0 + 1 .. b : c[p] = a[p]
    BY <1>5, <2>1
  <2> QED
    BY <1>1, <1>3, <1>6, <2>2, <2>3, HoldsSame
<1>8. \A j \in 1 .. l : c[b + j] = r[j]
  <2>1. \A j \in 1 .. l : b + j \in 1 .. n /\ b + j # w
    BY <1>1, <1>2, <1>3
  <2> QED
    BY <1>2, <1>5, <2>1
<1> QED
  BY <1>1, <1>2, <1>5, <1>6, <1>7, <1>8 DEF a, w, c

(* A terminator written after them ends the string.                        *)
LEMMA MidwayEnds ==
  ASSUME NEW acc, NEW b, NEW uu, NEW r, Midway(acc, b, uu, r), acc.wp <= Len(acc.block)
  PROVE  LET c == [acc.block EXCEPT ![acc.wp] = NUL]
         IN  /\ c \in Seq(Int) /\ Len(c) = Len(acc.block) /\ acc.wp \in Nat
             /\ Holds(c, 0, acc.wp, uu \o <<r>>)
<1> DEFINE a == acc.block
           w == acc.wp
           c == [a EXCEPT ![w] = NUL]
<1>1. PICK l \in Nat : l = Len(r) /\ b \in Nat /\ w = b + l + 1 /\ w <= Len(a) /\ r \in Seq(Char)
  BY DEF Midway
<1>2. NUL \in Int
  BY DEF NUL
<1>3. /\ c \in Seq(Int) /\ Len(c) = Len(a) /\ Holds(c, 0, b, uu)
      /\ \A j \in 1 .. l : c[b + j] = r[j]
      /\ c[w] = NUL
  <2>1. /\ c \in Seq(Int) /\ Len(c) = Len(a) /\ Holds(c, 0, b, uu)
        /\ \A j \in 1 .. Len(r) : c[b + j] = r[j]
        /\ c[w] = NUL
    BY <1>2, MidwayWrites
  <2> HIDE DEF a, w, c
  <2> QED
    BY <1>1, <2>1
<1> HIDE DEF a, w, c
<1>4. StringAt(c, b, w, r)
  BY <1>1, <1>3 DEF StringAt
<1>5. w \in Nat
  BY <1>1
<1>6. Holds(c, 0, w, uu \o <<r>>)
  <2>1. Holds(c, b, w, <<r>>)
    BY <1>1, <1>3, <1>4, <1>5, HoldsOne
  <2> QED
    BY <1>3, <2>1, HoldsJoin
<1> QED
  BY <1>3, <1>5, <1>6 DEF a, w, c

(* One more string                                                         *)
LEMMA PartsLast ==
  ASSUME NEW ss \in Seq(Seq(Char)), NEW u \in PartsSoFar
  PROVE  (ss \o u.parts) \o <<u.rest>> = ss \o Append(u.parts, u.rest)
<1> DEFINE S == Seq(Char)
           p == u.parts
           r == u.rest
<1>1. ss \in Seq(S) /\ p \in Seq(S) /\ r \in S /\ <<r>> \in Seq(S)
  BY DEF PartsSoFar
<1> HIDE DEF S, p, r
<1>2. Append(p, r) = p \o <<r>>
  BY <1>1, AppendIsConcat
<1>3. (ss \o p) \o <<r>> = ss \o (p \o <<r>>)
  BY <1>1, ConcatAssociative
<1> QED
  BY <1>2, <1>3 DEF p, r

(* A turn that writes, and one that does not                               *)
Writing(acc, x) == [acc EXCEPT !.block[acc.wp] = x, !.wp = acc.wp + 1]

(* A turn that writes keeps the size of the block.                         *)
LEMMA SplitWrites ==
  ASSUME NEW acc, acc \in Splits, NEW x \in Int
  PROVE  /\ Writing(acc, x) \in Splits
         /\ Writing(acc, x).block = [acc.block EXCEPT ![acc.wp] = x]
         /\ Writing(acc, x).wp = acc.wp + 1 /\ Writing(acc, x).nlen = acc.nlen
<1> DEFINE f == acc.block
           n == Len(f)
           g == [f EXCEPT ![acc.wp] = x]
<1>1. f \in [1 .. n -> Int] /\ n \in Nat /\ acc.wp \in Int /\ acc.nlen \in Int
  BY DEF Splits
<1>2. Writing(acc, x) = [block |-> g, wp |-> acc.wp + 1, nlen |-> acc.nlen]
  <2>1. Writing(acc, x) = [acc EXCEPT !.block[acc.wp] = x, !.wp = acc.wp + 1]
    BY DEF Writing
  <2> QED
    BY <2>1 DEF Splits
<1> HIDE DEF f, n
<1>3. g \in [1 .. n -> Int]
  BY <1>1
<1>4. g \in Seq(Int)
  BY <1>1, <1>3
<1> HIDE DEF g
<1>5. Writing(acc, x) \in Splits
  BY <1>1, <1>2, <1>4 DEF Splits
<1> QED
  BY <1>2, <1>5 DEF g, f

(* A turn that passes a separator by                                       *)
Passing(acc) == [acc EXCEPT !.nlen = acc.nlen - 1]

(* It only counts one byte less.                                           *)
LEMMA SplitPasses ==
  ASSUME NEW acc, acc \in Splits
  PROVE  /\ Passing(acc) \in Splits /\ Passing(acc).block = acc.block
         /\ Passing(acc).wp = acc.wp /\ Passing(acc).nlen = acc.nlen - 1
BY DEF Splits, Passing

(* The loop tells the end of a string from the beginning of one by the     *)
(* byte before.                                                            *)
LEMMA MidwayBefore ==
  ASSUME NEW acc, NEW b, NEW uu, NEW r, Midway(acc, b, uu, r)
  PROVE  r = <<>> <=> ~(acc.wp > 1 /\ At(acc.block, acc.wp - 1) # NUL)
<1> DEFINE a == acc.block
           w == acc.wp
<1>1. PICK l \in Nat : /\ l = Len(r) /\ b \in Nat /\ w = b + l + 1 /\ w <= Len(a) + 1 /\ r \in Seq(Char)
                       /\ \A j \in 1 .. l : a[b + j] = r[j]
                       /\ a \in Seq(Int) /\ Holds(a, 0, b, uu)
  BY DEF Midway, Splits
<1>2. Len(a) \in Nat /\ DOMAIN a = 1 .. Len(a)
  BY <1>1
<1>3. r = <<>> <=> l = 0
  BY <1>1, EmptySeq
<1> HIDE DEF a, w
<1>4. CASE l = 0
  <2>1. w = b + 1 /\ w - 1 = b
    BY <1>1, <1>4
  <2>2. ASSUME b > 0 PROVE At(a, b) = NUL
    <3>1. Good(Vector(a, b))
      BY <1>1, HoldsGood DEF Vector
    <3>2. a[b] = NUL
      BY <2>2, <3>1 DEF Good, Vector
    <3>3. b \in DOMAIN a
      BY <1>1, <1>2, <2>1, <2>2
    <3> QED
      BY <3>2, <3>3 DEF At
  <2> QED
    BY <1>1, <1>3, <1>4, <2>1, <2>2 DEF a, w
<1>5. CASE l # 0
  <2>1. w > 1 /\ w - 1 = b + l /\ l \in 1 .. l /\ w - 1 \in 1 .. Len(a)
    BY <1>1, <1>2, <1>5
  <2>2. a[b + l] = r[l] /\ r[l] \in Char
    BY <1>1, <2>1
  <2>3. r[l] # NUL
    BY <2>2 DEF Char
  <2>4. At(a, w - 1) # NUL
    BY <1>2, <2>1, <2>2, <2>3 DEF At
  <2> QED
    BY <1>3, <1>5, <2>1, <2>4 DEF a, w
<1> QED
  BY <1>4, <1>5

(* The bytes that turn counts                                              *)
Counted(acc, new) ==
  /\ Len(new.block) = Len(acc.block)
  /\ \/ new.wp = acc.wp + 1 /\ new.nlen = acc.nlen
     \/ new.wp = acc.wp /\ new.nlen = acc.nlen - 1

(* A turn of the loop does to the strings written what ArgzVector says.    *)
LEMMA SplitTurn ==
  ASSUME NEW acc, NEW u \in PartsSoFar, NEW ss \in Seq(Seq(Char)), NEW b,
         Midway(acc, b, ss \o u.parts, u.rest), acc.wp <= Len(acc.block), NEW c \in Char
  PROVE  /\ Counted(acc, Split(acc, c))
         /\ \E d : Midway(Split(acc, c), d, ss \o PartsNext(u, c).parts, PartsNext(u, c).rest)
<1> DEFINE new == Split(acc, c)
           n == PartsNext(u, c)
           r == u.rest
<1>0. /\ acc \in Splits /\ acc.wp \in Int /\ acc.nlen \in Int /\ acc.block \in Seq(Int) /\ Len(acc.block) \in Nat
      /\ u.parts \in Seq(Seq(Char)) /\ r \in Seq(Char)
  BY DEF Midway, Splits, PartsSoFar
<1>1. CASE c # Sep
  <2>1. new = Writing(acc, c)
    BY <1>1 DEF Split, Writing
  <2>2. c \in Int
    BY DEF Char
  <2>3. /\ new \in Splits /\ new.block = [acc.block EXCEPT ![acc.wp] = c]
        /\ new.wp = acc.wp + 1 /\ new.nlen = acc.nlen
    <3>1. /\ Writing(acc, c) \in Splits /\ Writing(acc, c).block = [acc.block EXCEPT ![acc.wp] = c]
          /\ Writing(acc, c).wp = acc.wp + 1 /\ Writing(acc, c).nlen = acc.nlen
      BY <1>0, <2>2, SplitWrites
    <3> HIDE DEF new
    <3> QED
      BY <2>1, <3>1
  <2>4. /\ new.block \in Seq(Int) /\ Len(new.block) = Len(acc.block) /\ Holds(new.block, 0, b, ss \o u.parts)
        /\ \A j \in 1 .. Len(r) : new.block[b + j] = r[j]
        /\ new.block[acc.wp] = c
    <3> DEFINE c1 == [acc.block EXCEPT ![acc.wp] = c]
    <3>1. /\ c1 \in Seq(Int) /\ Len(c1) = Len(acc.block) /\ Holds(c1, 0, b, ss \o u.parts)
          /\ \A j \in 1 .. Len(r) : c1[b + j] = r[j]
          /\ c1[acc.wp] = c
      BY <2>2, MidwayWrites
    <3> HIDE DEF new
    <3> QED
      BY <2>3, <3>1
  <2>5. n = [parts |-> u.parts, rest |-> Append(r, c)]
    BY <1>1, PartsNextTyped
  <2>6. PICK l \in Nat : l = Len(r) /\ acc.wp = b + l + 1 /\ b \in Nat
    BY DEF Midway
  <2> DEFINE q == Append(r, c)
  <2>7. q \in Seq(Char) /\ Len(q) = l + 1 /\ q[l + 1] = c /\ \A j \in 1 .. l : q[j] = r[j]
    BY <1>0, <2>6
  <2> HIDE DEF new, q, r
  <2>8. new.wp = b + (l + 1) + 1 /\ new.wp <= Len(new.block) + 1
    BY <1>0, <2>3, <2>4, <2>6
  <2>9. \A j \in 1 .. l + 1 : new.block[b + j] = q[j]
    <3>1. \A j \in 1 .. l + 1 : j = l + 1 \/ j \in 1 .. l
      OBVIOUS
    <3>2. b + (l + 1) = acc.wp
      BY <2>6
    <3> QED
      BY <2>4, <2>6, <2>7, <3>1, <3>2
  <2>10. Midway(new, b, ss \o u.parts, q)
    BY <2>3, <2>4, <2>6, <2>7, <2>8, <2>9 DEF Midway
  <2>11. n.parts = u.parts /\ n.rest = q
    BY <2>5 DEF q
  <2>12. Midway(new, b, ss \o n.parts, n.rest)
    BY <2>10, <2>11
  <2> QED
    BY <2>3, <2>4, <2>12 DEF Counted, new
<1>2. CASE c = Sep /\ r = <<>>
  <2>1. ~(acc.wp > 1 /\ At(acc.block, acc.wp - 1) # NUL)
    BY <1>2, MidwayBefore
  <2>2. new = Passing(acc)
    BY <1>2, <2>1 DEF Split, Passing
  <2>3. /\ new \in Splits /\ new.block = acc.block /\ new.wp = acc.wp /\ new.nlen = acc.nlen - 1
    BY <1>0, <2>2, SplitPasses
  <2>4. n = u
    BY <1>2 DEF PartsNext
  <2> HIDE DEF new
  <2>5. Midway(new, b, ss \o u.parts, r)
    BY <2>3 DEF Midway
  <2> QED
    BY <2>3, <2>4, <2>5 DEF Counted, new
<1>3. CASE c = Sep /\ r # <<>>
  <2>1. acc.wp > 1 /\ At(acc.block, acc.wp - 1) # NUL
    BY <1>3, MidwayBefore
  <2>2. new = Writing(acc, NUL)
    BY <1>3, <2>1 DEF Split, Writing
  <2>3. NUL \in Int
    BY DEF NUL
  <2>4. /\ new \in Splits /\ new.block = [acc.block EXCEPT ![acc.wp] = NUL]
        /\ new.wp = acc.wp + 1 /\ new.nlen = acc.nlen
    BY <1>0, <2>2, <2>3, SplitWrites
  <2>5. /\ new.block \in Seq(Int) /\ Len(new.block) = Len(acc.block) /\ acc.wp \in Nat
        /\ Holds(new.block, 0, acc.wp, (ss \o u.parts) \o <<r>>)
    <3> DEFINE uu == ss \o u.parts
    <3>1. Midway(acc, b, uu, r) /\ acc.wp <= Len(acc.block)
      OBVIOUS
    <3> HIDE DEF uu, new, r
    <3>2. /\ [acc.block EXCEPT ![acc.wp] = NUL] \in Seq(Int)
          /\ Len([acc.block EXCEPT ![acc.wp] = NUL]) = Len(acc.block) /\ acc.wp \in Nat
          /\ Holds([acc.block EXCEPT ![acc.wp] = NUL], 0, acc.wp, uu \o <<r>>)
      BY <3>1, MidwayEnds
    <3>3. Holds(new.block, 0, acc.wp, uu \o <<r>>)
      BY <2>4, <3>2
    <3> QED
      BY <2>4, <3>2, <3>3 DEF uu
  <2>6. n = [parts |-> Append(u.parts, r), rest |-> <<>>]
    BY <1>3 DEF PartsNext
  <2>7. (ss \o u.parts) \o <<r>> = ss \o Append(u.parts, r)
    BY PartsLast
  <2>8. n.parts = Append(u.parts, r) /\ n.rest = <<>>
    BY <2>6
  <2>9. <<>> \in Seq(Char) /\ Len(<<>>) = 0
    OBVIOUS
  <2> HIDE DEF new
  <2>10. new.wp = acc.wp + 0 + 1 /\ new.wp <= Len(new.block) + 1
    BY <1>0, <2>4, <2>5, SMTT(15)
  <2>11. Midway(new, acc.wp, (ss \o u.parts) \o <<r>>, <<>>)
    BY <2>4, <2>5, <2>9, <2>10 DEF Midway
  <2>12. Midway(new, acc.wp, ss \o n.parts, n.rest)
    BY <2>7, <2>8, <2>11
  <2> QED
    BY <2>4, <2>5, <2>12 DEF Counted, new
<1> QED
  BY <1>1, <1>2, <1>3

(* What is written and what is counted, after k of the n turns             *)
Turns(acc, l, n, k) ==
  /\ Len(acc.block) = l + n
  /\ acc.wp \in l + 1 .. l + 1 + k
  /\ acc.nlen = n - k + (acc.wp - (l + 1))

(* One more turn keeps that.                                               *)
LEMMA TurnsNext ==
  ASSUME NEW acc, NEW new, acc.wp \in Int, acc.nlen \in Int, Counted(acc, new),
         NEW l \in Nat, NEW n \in Nat, NEW k \in 1 .. n, Turns(acc, l, n, k - 1)
  PROVE  Turns(new, l, n, k) /\ acc.wp <= Len(acc.block)
<1> DEFINE w == acc.wp
           x == acc.nlen
           y == new.wp
           z == new.nlen
<1>1. /\ w \in l + 1 .. l + 1 + (k - 1) /\ x = n - (k - 1) + (w - (l + 1)) /\ Len(acc.block) = l + n
      /\ Len(new.block) = l + n
      /\ (y = w + 1 /\ z = x) \/ (y = w /\ z = x - 1)
  BY DEF Counted, Turns
<1> HIDE DEF w, x, y, z
<1>2. w \in Int /\ x \in Int
  BY DEF w, x
<1>3. l + 1 <= w /\ w <= l + k /\ w <= l + n
  BY <1>1, <1>2
<1>4. y \in l + 1 .. l + 1 + k
  BY <1>1, <1>2, <1>3
<1>5. z = n - k + (y - (l + 1))
  <2>1. CASE y = w + 1 /\ z = x
    BY <1>1, <1>2, <2>1
  <2>2. CASE y = w /\ z = x - 1
    BY <1>1, <1>2, <2>2
  <2> QED
    BY <1>1, <2>1, <2>2
<1> QED
  BY <1>1, <1>3, <1>4, <1>5 DEF Turns, w, x, y, z

(* So there is room for the next turn.                                     *)
LEMMA TurnsRoom ==
  ASSUME NEW acc, acc \in Splits, NEW l \in Nat, NEW n \in Nat, NEW k \in 0 .. n - 1, Turns(acc, l, n, k)
  PROVE  /\ acc.wp <= Len(acc.block) /\ acc.wp \in Int /\ acc.nlen \in Int
         /\ k = n - 1 => l + acc.nlen = acc.wp
<1> DEFINE w == acc.wp
           x == acc.nlen
<1>1. /\ w \in l + 1 .. l + 1 + k /\ x = n - k + (w - (l + 1)) /\ Len(acc.block) = l + n
      /\ w \in Int /\ x \in Int
  BY DEF Turns, Splits
<1> HIDE DEF w, x
<1>2. w <= l + n
  BY <1>1
<1>3. ASSUME k = n - 1 PROVE l + x = w
  BY <1>1, <1>3
<1> QED
  BY <1>1, <1>2, <1>3 DEF w, x

(* The whole loop adds the parts of the string it splits.                  *)
LEMMA SplitHolds ==
  ASSUME NEW block \in Seq(Int), NEW l \in Nat, NEW s \in Seq(Char), Len(block) = l + (Len(s) + 1),
         NEW ss, Holds(block, 0, l, ss)
  PROVE  LET end == SplitAll(block, l, s)
         IN  end.nlen \in Int /\ Represents(Vector(end.block, l + end.nlen), ss \o Vec!Parts(s))
<1>1. PICK m \in Nat : m = Len(s)
  OBVIOUS
<1> DEFINE n == m + 1
           b == Bytes(s)
<1>2. s \in Seq(Octet) /\ NUL \in Octet /\ ss \in Seq(Seq(Char))
  BY StringIs, OctetIs, HoldsIs
<1>3. b[m + 1] = NUL /\ \A i \in 1 .. m : b[i] = s[i]
  BY <1>1, <1>2, BytesIs
<1>4. PICK f \in [0 .. Len(s) + 1 -> Splits] :
        /\ f[0] = [block |-> block, wp |-> l + 1, nlen |-> Len(s) + 1]
        /\ \A k \in 1 .. Len(s) + 1 : f[k] = Split(f[k - 1], b[k])
        /\ SplitAll(block, l, s) = f[Len(s) + 1]
  BY <1>2, SplitChain
<1> HIDE DEF b
<1>5. /\ f \in [0 .. n -> Splits] /\ f[0] = [block |-> block, wp |-> l + 1, nlen |-> n]
      /\ \A k \in 1 .. n : f[k] = Split(f[k - 1], b[k])
      /\ SplitAll(block, l, s) = f[n]
  BY <1>1, <1>4
<1>6. PICK u \in [0 .. m -> PartsSoFar] :
        /\ u[0] = [parts |-> <<>>, rest |-> <<>>]
        /\ \A k \in 1 .. m : u[k] = PartsNext(u[k - 1], s[k])
        /\ Vec!Parts(s) = Append(u[m].parts, u[m].rest)
  BY <1>1, PartsIs
<1>7. Len(block) = l + n
  BY <1>1
<1> HIDE DEF n
<1>8. n = m + 1 /\ n \in Nat
  BY DEF n
<1> DEFINE Held(acc, x) == \E d : Midway(acc, d, ss \o x.parts, x.rest)
           H(k) == Turns(f[k], l, n, k) /\ Held(f[k], u[k])
           S == {k \in Int : H(k)}
<1>9. H(0)
  <2> DEFINE acc == f[0]
  <2>1. acc \in Splits /\ acc.block = block /\ acc.wp = l + 1 /\ acc.nlen = n
    <3>1. 0 \in 0 .. n
      BY <1>8
    <3> QED
      BY <1>5, <3>1
  <2>2. u[0].parts = <<>> /\ u[0].rest = <<>>
    BY <1>6
  <2> HIDE DEF acc
  <2>3. Turns(acc, l, n, 0)
    <3>1. l + 1 \in l + 1 .. l + 1 + 0 /\ n = n - 0 + ((l + 1) - (l + 1))
      BY <1>8
    <3> QED
      BY <1>7, <2>1, <3>1 DEF Turns
  <2>4. Midway(acc, l, ss \o <<>>, <<>>)
    <3>1. ss \o <<>> = ss
      BY <1>2
    <3>2. <<>> \in Seq(Char) /\ Len(<<>>) = 0 /\ l + 0 + 1 = l + 1 /\ l + 1 <= l + n + 1
      BY <1>8
    <3> QED
      BY <1>7, <2>1, <3>1, <3>2 DEF Midway
  <2>5. Held(acc, u[0])
    BY <2>2, <2>4
  <2> HIDE DEF Held
  <2> QED
    BY <2>3, <2>5 DEF acc
<1>10. ASSUME NEW k \in 1 .. m, H(k - 1) PROVE H(k)
  <2> DEFINE acc == f[k - 1]
             x == u[k - 1]
             c == s[k]
  <2>1. /\ k \in 1 .. n /\ k - 1 \in 0 .. n - 1 /\ k - 1 \in 0 .. n /\ k - 1 \in 0 .. m
    BY <1>8
  <2>2. acc \in Splits /\ x \in PartsSoFar /\ c \in Char
    <3>1. c \in Char
      BY <1>1
    <3>2. f[k - 1] \in Splits /\ u[k - 1] \in PartsSoFar
      BY <1>5, <1>6, <2>1
    <3> QED
      BY <3>1, <3>2
  <2>3. f[k] = Split(acc, c) /\ u[k] = PartsNext(x, c)
    BY <1>3, <1>5, <1>6, <2>1
  <2>4. Turns(acc, l, n, k - 1) /\ Held(acc, x)
    BY <1>10
  <2> HIDE DEF acc, x, c
  <2>5. acc.wp <= Len(acc.block) /\ acc.wp \in Int /\ acc.nlen \in Int
    BY <1>8, <2>1, <2>2, <2>4, TurnsRoom
  <2>6. PICK d : Midway(acc, d, ss \o x.parts, x.rest)
    BY <2>4
  <2>7. /\ Counted(acc, Split(acc, c))
        /\ \E g : Midway(Split(acc, c), g, ss \o PartsNext(x, c).parts, PartsNext(x, c).rest)
    BY <1>2, <2>2, <2>5, <2>6, SplitTurn
  <2>8. Turns(Split(acc, c), l, n, k)
    BY <1>8, <2>1, <2>4, <2>5, <2>7, TurnsNext
  <2>9. Held(Split(acc, c), PartsNext(x, c))
    BY <2>7
  <2> HIDE DEF Held
  <2> QED
    BY <2>3, <2>8, <2>9
<1>11. H(m)
  <2>1. 0 \in S
    <3> HIDE DEF H
    <3> QED
      BY <1>9
  <2>2. \A k \in 1 .. m : k - 1 \in S => k \in S
    <3> HIDE DEF H
    <3>1. \A k \in 1 .. m : H(k - 1) => H(k)
      BY <1>10
    <3> QED
      BY <3>1
  <2> HIDE DEF S
  <2>3. \A k \in 0 .. m : k \in S
    BY <2>1, <2>2, UpTo
  <2>4. m \in S
    BY <2>3
  <2> HIDE DEF H
  <2> QED
    BY <2>4 DEF S
<1> DEFINE acc == f[m]
           x == u[m]
<1>12. acc \in Splits /\ x \in PartsSoFar /\ m \in 0 .. n - 1
  <2>1. m \in 0 .. m /\ m \in 0 .. n /\ m \in 0 .. n - 1
    BY <1>8
  <2> QED
    BY <1>5, <1>6, <2>1
<1>13. Turns(acc, l, n, m) /\ Held(acc, x)
  BY <1>11
<1>14. f[n] = Split(acc, NUL)
  <2>1. n \in 1 .. n /\ n - 1 = m
    BY <1>8
  <2> QED
    BY <1>3, <1>5, <1>8, <2>1
<1>15. Vec!Parts(s) = Append(x.parts, x.rest)
  BY <1>6
<1> HIDE DEF acc, x, H
<1>16. acc.wp <= Len(acc.block) /\ acc.wp \in Int /\ acc.nlen \in Int /\ l + acc.nlen = acc.wp
  <2>1. m = n - 1
    BY <1>8
  <2> QED
    BY <1>8, <1>12, <1>13, <2>1, TurnsRoom
<1>17. PICK d : Midway(acc, d, ss \o x.parts, x.rest)
  BY <1>13
<1> DEFINE new == Split(acc, NUL)
<1>18. new = Writing(acc, NUL)
  <2>1. NUL # Sep
    BY StringsAssumption DEF Char
  <2> QED
    BY <2>1 DEF Split, Writing
<1>19. new.block = [acc.block EXCEPT ![acc.wp] = NUL] /\ new.nlen = acc.nlen
  <2>1. NUL \in Int
    BY DEF NUL
  <2>2. /\ Writing(acc, NUL).block = [acc.block EXCEPT ![acc.wp] = NUL]
        /\ Writing(acc, NUL).nlen = acc.nlen
    BY <1>12, <2>1, SplitWrites
  <2> HIDE DEF new
  <2> QED
    BY <1>18, <2>2
<1> DEFINE uu == ss \o x.parts
           r == x.rest
<1>20. uu \o <<r>> = ss \o Append(x.parts, r)
  BY <1>2, <1>12, PartsLast
<1>21. /\ [acc.block EXCEPT ![acc.wp] = NUL] \in Seq(Int)
       /\ Holds([acc.block EXCEPT ![acc.wp] = NUL], 0, acc.wp, uu \o <<r>>)
  <2> HIDE DEF uu, r
  <2>1. Midway(acc, d, uu, r)
    BY <1>17 DEF uu, r
  <2> QED
    BY <1>16, <2>1, MidwayEnds
<1> HIDE DEF new, uu
<1>22. new.block \in Seq(Int) /\ Holds(new.block, 0, l + new.nlen, ss \o Vec!Parts(s))
  BY <1>15, <1>16, <1>19, <1>20, <1>21
<1>23. Represents(Vector(new.block, l + new.nlen), ss \o Vec!Parts(s))
  BY <1>22 DEF Represents, Vector
<1>24. new.nlen \in Int
  BY <1>16, <1>19
<1> QED
  BY <1>5, <1>14, <1>23, <1>24 DEF new

(* argz_create_sep makes the vector of the parts.                          *)
LEMMA CreateSepHolds ==
  ASSUME NEW s \in Seq(Char)
  PROVE  Represents(argz_create_sep(s), IF s = <<>> THEN <<>> ELSE Vec!Parts(s))
<1>1. PICK n \in Nat : n = Len(s) + 1 /\ (n > 1 <=> s # <<>>)
  <2>1. Len(s) \in Nat /\ (s = <<>> <=> Len(s) = 0)
    BY EmptySeq
  <2> QED
    BY <2>1
<1> DEFINE block == malloc(n)
           end == SplitAll(block, 0, s)
<1>2. block \in Seq(Int) /\ Len(block) = n
  BY mallocIs
<1>3. argz_create_sep(s) = IF n > 1 THEN Vector(end.block, end.nlen) ELSE Vector(<<>>, 0)
  <2>1. 0 + 1 = 1
    OBVIOUS
  <2> QED
    BY <1>1, <2>1 DEF argz_create_sep, SplitAll
<1> HIDE DEF block
<1>4. Holds(block, 0, 0, <<>>)
  <2>1. 0 \in 0 .. Len(block)
    BY <1>2
  <2> QED
    BY <1>2, <2>1, HoldsNone
<1>5. end.nlen \in Int /\ Represents(Vector(end.block, 0 + end.nlen), <<>> \o Vec!Parts(s))
  <2>1. Len(block) = 0 + (Len(s) + 1) /\ 0 \in Nat
    BY <1>1, <1>2
  <2> QED
    BY <1>2, <1>4, <2>1, SplitHolds
<1> HIDE DEF end
<1>6. 0 + end.nlen = end.nlen
  BY <1>5
<1>7. <<>> \o Vec!Parts(s) = Vec!Parts(s)
  <2>1. Vec!Parts(s) \in Seq(Seq(Char))
    <3>1. PICK m \in Nat : m = Len(s)
      OBVIOUS
    <3>2. PICK u \in [0 .. m -> PartsSoFar] : Vec!Parts(s) = Append(u[m].parts, u[m].rest)
      BY <3>1, PartsIs
    <3>3. u[m] \in PartsSoFar
      OBVIOUS
    <3> QED
      BY <3>2, <3>3 DEF PartsSoFar
  <2> QED
    BY <2>1
<1>8. Represents(Vector(end.block, end.nlen), Vec!Parts(s))
  BY <1>5, <1>6, <1>7
<1> QED
  BY <1>1, <1>3, <1>8, RepresentsNone

(* argz_add_sep appends the parts.                                         *)
LEMMA AddSepHolds ==
  ASSUME NEW v, NEW ss, Represents(v, ss), NEW s \in Seq(Char)
  PROVE  /\ s # <<>> => Represents(argz_add_sep(v, s), ss \o Vec!Parts(s))
         /\ s = <<>> => argz_add_sep(v, s) = v
<1>1. PICK n \in Nat : n = Len(s) + 1 /\ (n > 1 <=> s # <<>>)
  <2>1. Len(s) \in Nat /\ (s = <<>> <=> Len(s) = 0)
    BY EmptySeq
  <2> QED
    BY <2>1
<1>2. PICK l \in Nat : l = v.len /\ l <= Len(v.argz) /\ v.argz \in Seq(Int) /\ Holds(v.argz, 0, l, ss)
  BY RepresentsIs
<1> DEFINE block == realloc(v.argz, l + n)
           end == SplitAll(block, l, s)
<1>3. argz_add_sep(v, s) = IF n > 1 THEN Vector(end.block, l + end.nlen) ELSE v
  BY <1>1, <1>2 DEF argz_add_sep, SplitAll
<1>4. /\ block \in Seq(Int) /\ Len(block) = l + n
      /\ \A i \in 1 .. l + n : i <= Len(v.argz) => block[i] = v.argz[i]
  <2>1. l + n \in Nat
    OBVIOUS
  <2> QED
    BY <1>2, <2>1, reallocIs
<1> HIDE DEF block
<1>5. Holds(block, 0, l, ss)
  <2>0. Len(v.argz) \in Nat
    BY <1>2
  <2>1. \A p \in 0 + 1 .. l : p \in 1 .. l + n /\ p <= Len(v.argz)
    BY <1>2, <2>0
  <2>2. l <= Len(block)
    BY <1>4
  <2>3. \A p \in 0 + 1 .. l : block[p] = v.argz[p]
    BY <1>4, <2>1
  <2> QED
    BY <1>2, <1>4, <2>2, <2>3, HoldsSame
<1>6. Represents(Vector(end.block, l + end.nlen), ss \o Vec!Parts(s))
  <2>1. Len(block) = l + (Len(s) + 1)
    BY <1>1, <1>4
  <2> QED
    BY <1>4, <1>5, <2>1, SplitHolds
<1> HIDE DEF end
<1> QED
  BY <1>1, <1>3, <1>6

-----------------------------------------------------------------------------
(* argz_stringify.                                                         *)

(* The terminators argz_stringify replaces, from each place of the vector. *)
CutOf(a, l, f) == \A p \in 1 .. l + 1 :
  LET q == p + strnlen(a, p, l + 1 - p)
  IN  f[p] = IF l + 1 - q <= 1 THEN {} ELSE {q} \cup f[q + 1]

(* argz_stringify replaces those from the first place on.                  *)
LEMMA StringifyIs ==
  ASSUME NEW v, Good(v)
  PROVE  \E f : /\ CutOf(v.argz, v.len, f)
                /\ argz_stringify(v) =
                     Vector([i \in DOMAIN v.argz |-> IF i \in f[1] THEN Sep ELSE v.argz[i]], v.len)
<1> DEFINE a == v.argz
           l == v.len
           q == [p \in 1 .. l + 1 |-> p + strnlen(a, p, l + 1 - p)]
           Loop(f) == f = [p \in 1 .. l + 1 |-> IF l + 1 - q[p] <= 1 THEN {} ELSE {q[p]} \cup f[q[p] + 1]]
<1>1. /\ l \in Nat /\ l <= Len(a) /\ a \in Seq(Int)
      /\ \A i \in 1 .. l : a[i] \in Octet
      /\ l > 0 => a[l] = NUL
  BY DEF Good
<1>2. a \in Memories
  BY <1>1 DEF Memories
<1> HIDE DEF a, l
<1>3. ASSUME NEW p \in 1 .. l + 1 PROVE q[p] \in Int /\ q[p] >= p
  <2>1. p \in Int /\ l + 1 - p \in Nat
    BY <1>1
  <2>2. strnlen(a, p, l + 1 - p) \in 0 .. (l + 1 - p)
    BY <1>2, <2>1, StrnlenIs
  <2> DEFINE k == strnlen(a, p, l + 1 - p)
  <2>3. k \in Nat /\ q[p] = p + k
    BY <2>1, <2>2
  <2> HIDE DEF k, q
  <2> QED
    BY <2>1, <2>3
<1>q. \A p \in 1 .. l + 1 : q[p] = p + strnlen(a, p, l + 1 - p)
  OBVIOUS
<1> HIDE DEF q
<1> DEFINE V == SUBSET (1 .. l - 1)
           C == {p \in 1 .. l + 1 : l + 1 - q[p] <= 1}
           B == [p \in 1 .. l + 1 |-> {}]
           J == [p \in 1 .. l + 1 |-> q[p] + 1]
           G == [p \in 1 .. l + 1 |-> [x \in V |-> {q[p]} \cup x]]
<1>4. ASSUME NEW p \in 1 .. l + 1, p \notin C
      PROVE  q[p] + 1 \in p + 1 .. l + 1 /\ \A x \in V : {q[p]} \cup x \in V
  <2>1. q[p] \in Int /\ q[p] >= p /\ l + 1 - q[p] > 1 /\ p \in Int /\ p >= 1
    BY <1>1, <1>3, <1>4
  <2> DEFINE y == q[p]
  <2>2. y \in Int /\ y >= p /\ l + 1 - y > 1 /\ p \in Int /\ p >= 1
    BY <2>1
  <2> HIDE DEF y, V, C, B, J, G, Loop
  <2>3. y \in 1 .. l - 1 /\ y + 1 \in p + 1 .. l + 1
    BY <1>1, <2>2
  <2>4. \A x \in V : {y} \cup x \in V
    BY <2>3 DEF V
  <2> QED
    BY <2>3, <2>4 DEF y
<1>5. PICK g \in [1 .. l + 1 -> V] : JumpOf(g, l + 1, C, B, J, G)
  <2>1. \A p \in 1 .. l + 1 : p \in C => B[p] \in V
    OBVIOUS
  <2>2. \A p \in 1 .. l + 1 : p \notin C => J[p] \in p + 1 .. l + 1 /\ \A x \in V : G[p][x] \in V
    BY <1>4
  <2>3. l + 1 \in Nat
    BY <1>1
  <2> HIDE DEF V, C, B, J, G
  <2>4. Jumps(l + 1, V, C, B, J, G)
    BY <2>1, <2>2 DEF Jumps
  <2> QED
    BY <2>3, <2>4, JumpExists
<1>6. Loop(g)
  <2>1. ASSUME NEW p \in 1 .. l + 1
        PROVE  g[p] = IF l + 1 - q[p] <= 1 THEN {} ELSE {q[p]} \cup g[q[p] + 1]
    <3>1. g[p] = IF p \in C THEN B[p] ELSE G[p][g[J[p]]]
      BY <1>5 DEF JumpOf
    <3>2. CASE p \in C
      <4>1. B[p] = {} /\ l + 1 - q[p] <= 1
        BY <3>2
      <4> QED
        BY <3>1, <3>2, <4>1
    <3>3. CASE p \notin C
      <4>1. J[p] = q[p] + 1 /\ ~(l + 1 - q[p] <= 1) /\ J[p] \in 1 .. l + 1
        BY <1>1, <1>3, <1>4, <3>3, SMTT(15)
      <4>2. g[J[p]] \in V
        BY <4>1
      <4>3. G[p][g[J[p]]] = {q[p]} \cup g[J[p]]
        BY <4>2
      <4> QED
        BY <3>1, <3>3, <4>1, <4>3
    <3> HIDE DEF V, B, J, G, Loop
    <3> QED
      BY <3>2, <3>3, SMTT(20)
  <2>2. g = [p \in 1 .. l + 1 |-> g[p]]
    BY <1>5
  <2> HIDE DEF V, C, B, J, G
  <2> QED
    BY <2>1, <2>2
<1> DEFINE Cut(f) == f = [p \in 1 .. l + 1 |->
                           LET x == p + strnlen(a, p, l + 1 - p)
                           IN  IF l + 1 - x <= 1 THEN {} ELSE {x} \cup f[x + 1]]
<1>7. ASSUME NEW f PROVE Loop(f) <=> Cut(f)
  BY <1>q
<1>8. \E f : f = [p \in 1 .. l + 1 |->
                    LET x == p + strnlen(a, p, l + 1 - p)
                    IN  IF l + 1 - x <= 1 THEN {} ELSE {x} \cup f[x + 1]]
  <2>1. Cut(g)
    BY <1>6, <1>7
  <2> QED
    BY <2>1
<1>9. PICK f : /\ Cut(f)
               /\ argz_stringify(v) = Vector([i \in DOMAIN a |-> IF i \in f[1] THEN Sep ELSE a[i]], l)
  BY <1>8 DEF argz_stringify, a, l
<1>10. CutOf(a, l, f)
  <2>1. \A p \in 1 .. l + 1 : f[p] = IF l + 1 - q[p] <= 1 THEN {} ELSE {q[p]} \cup f[q[p] + 1]
    <3>1. Loop(f)
      BY <1>7, <1>9
    <3> QED
      BY <3>1
  <2> QED
    BY <1>q, <2>1 DEF CutOf
<1> QED
  BY <1>9, <1>10 DEF a, l

(* strnlen goes to the end of a string.                                    *)
LEMMA EndOf ==
  ASSUME NEW a \in Seq(Int), NEW x \in Nat, NEW y \in Nat, NEW s, StringAt(a, x, y, s),
         NEW l \in Nat, y <= l
  PROVE  (x + 1) + strnlen(a, x + 1, l + 1 - (x + 1)) = y
<1>1. PICK k \in Nat : y = x + k + 1 /\ StringOf(a, x + 1, k)
  BY StringAtIs
<1> DEFINE n == l + 1 - (x + 1)
<1>2. a \in Memories /\ x + 1 \in Int /\ n \in Nat /\ k \in 0 .. n
  BY <1>1 DEF Memories
<1>3. NStringOf(a, x + 1, n, k)
  BY <1>1, <1>2 DEF NStringOf, StringOf
<1>4. strnlen(a, x + 1, n) = k
  BY <1>2, <1>3, StrnlenOf
<1> HIDE DEF n
<1>5. (x + 1) + k = y
  BY <1>1
<1> QED
  BY <1>4, <1>5 DEF n

(* It replaces all terminators but the last.                               *)
LEMMA CutIs ==
  ASSUME NEW a \in Seq(Int), NEW ss, NEW o, Laid(a, ss, o), NEW n \in Nat \ {0}, n = Len(ss),
         NEW l, NEW f, CutOf(a, l, f), o[0] = 0, o[n] = l
  PROVE  f[1] = {o[j] : j \in 1 .. n - 1}
<1>0. o \in [0 .. n -> Nat] /\ l \in Nat
  <2>1. o \in [0 .. n -> Nat] /\ n \in 0 .. n
    BY DEF Laid
  <2> QED
    BY <2>1
<1>1. ASSUME NEW i \in 1 .. n
      PROVE  /\ i < n => f[o[i - 1] + 1] = {o[i]} \cup f[o[i] + 1]
             /\ i = n => f[o[i - 1] + 1] = {}
  <2> DEFINE x == o[i - 1]
             y == o[i]
             p == x + 1
  <2>1. x \in Nat /\ y \in Nat /\ x < y /\ y <= l /\ StringAt(a, x, y, ss[i])
    BY LaidStep
  <2>2. p + strnlen(a, p, l + 1 - p) = y
    BY <1>0, <2>1, EndOf
  <2>3. i < n => y < l
    <3> SUFFICES ASSUME i < n PROVE y < l
      OBVIOUS
    <3>1. i + 1 \in 1 .. n /\ (i + 1) - 1 = i
      OBVIOUS
    <3>2. o[(i + 1) - 1] < o[i + 1] /\ o[i + 1] <= o[n] /\ o[i + 1] \in Nat
      BY <3>1, LaidStep
    <3> QED
      BY <1>0, <2>1, <3>1, <3>2
  <2>4. f[p] = IF l + 1 - y <= 1 THEN {} ELSE {y} \cup f[y + 1]
    <3>1. p \in 1 .. l + 1
      BY <1>0, <2>1
    <3> HIDE DEF p, y
    <3> QED
      BY <2>2, <3>1 DEF CutOf
  <2>5. i = n => y = l
    OBVIOUS
  <2> HIDE DEF x, y
  <2>6. (y < l => ~(l + 1 - y <= 1)) /\ (y = l => l + 1 - y <= 1)
    BY <1>0, <2>1
  <2> QED
    BY <2>3, <2>4, <2>5, <2>6 DEF x, y
<1> DEFINE S == {k \in Int : f[o[n - k - 1] + 1] = {o[j] : j \in n - k .. n - 1}}
<1>2. 0 \in S
  <2>1. n \in 1 .. n /\ n - 0 - 1 = n - 1
    OBVIOUS
  <2>2. f[o[n - 1] + 1] = {}
    BY <1>1, <2>1
  <2>3. n - 0 .. n - 1 = {}
    OBVIOUS
  <2>4. {o[j] : j \in n - 0 .. n - 1} = {}
    BY <2>3
  <2> QED
    BY <2>1, <2>2, <2>4
<1>3. ASSUME NEW k \in 1 .. n - 1, k - 1 \in S PROVE k \in S
  <2> DEFINE i == n - k
  <2>1. i \in 1 .. n /\ i < n /\ i - 1 = n - k - 1 /\ n - (k - 1) - 1 = i /\ n - (k - 1) = i + 1 /\ k \in Int
    OBVIOUS
  <2>2. f[o[i] + 1] = {o[j] : j \in i + 1 .. n - 1}
    BY <1>3, <2>1
  <2>3. f[o[i - 1] + 1] = {o[i]} \cup f[o[i] + 1]
    BY <1>1, <2>1
  <2>4. \A j : j \in i .. n - 1 <=> j = i \/ j \in i + 1 .. n - 1
    <3> DEFINE u == n - 1
    <3>1. i \in Int /\ u \in Int /\ i <= u
      BY <2>1
    <3> HIDE DEF i, u
    <3>2. \A j : j \in i .. u <=> j = i \/ j \in i + 1 .. u
      BY <3>1
    <3> QED
      BY <3>2 DEF u
  <2>5. {o[j] : j \in i .. n - 1} = {o[i]} \cup {o[j] : j \in i + 1 .. n - 1}
    BY <2>4
  <2>6. f[o[i - 1] + 1] = {o[j] : j \in i .. n - 1}
    BY <2>2, <2>3, <2>5
  <2> QED
    BY <2>1, <2>6
<1>4. n - 1 \in S
  <2> HIDE DEF S
  <2>1. \A k \in 0 .. n - 1 : k \in S
    <3>1. n - 1 \in Nat
      OBVIOUS
    <3> QED
      BY <1>2, <1>3, <3>1, UpTo
  <2>2. n - 1 \in 0 .. n - 1
    OBVIOUS
  <2> QED
    BY <2>1, <2>2
<1>5. n - (n - 1) - 1 = 0 /\ n - (n - 1) = 1 /\ o[0] + 1 = 1
  OBVIOUS
<1> QED
  BY <1>4, <1>5

(* An empty vector has none.                                               *)
LEMMA CutNone ==
  ASSUME NEW a \in Seq(Int), NEW f, CutOf(a, 0, f)
  PROVE  f[1] = {}
<1> DEFINE k == strnlen(a, 1, 0 + 1 - 1)
<1>1. f[1] = IF 0 + 1 - (1 + k) <= 1 THEN {} ELSE {1 + k} \cup f[(1 + k) + 1]
  <2>1. 1 \in 1 .. 0 + 1
    OBVIOUS
  <2> QED
    BY <2>1 DEF CutOf
<1>2. k \in Nat
  <2>1. a \in Memories /\ 1 \in Int /\ 0 + 1 - 1 \in Nat
    BY DEF Memories
  <2>2. k \in 0 .. 0 + 1 - 1
    BY <2>1, StrnlenIs
  <2> HIDE DEF k
  <2> QED
    BY <2>2
<1> HIDE DEF k
<1> QED
  BY <1>1, <1>2

(* What argz_stringify makes of strings                                    *)
WithSep(ss) == [i \in DOMAIN ss |-> IF i = 1 THEN ss[i] ELSE <<Sep>> \o ss[i]]

(* r starts with g, x is the place after it.                               *)
StartsWith(r, g, x) == g \in Seq(Char) /\ Len(g) = x - 1 /\ \A j \in 1 .. x - 1 : r[j] = g[j]

(* s stands in r after x.                                                  *)
StandsAfter(r, x, s) == \A j \in 1 .. Len(s) : r[x + j] = s[j]

(* A separator and a string                                                *)
LEMMA AfterSep ==
  ASSUME NEW s \in Seq(Char)
  PROVE  LET t == <<Sep>> \o s
         IN  /\ t \in Seq(Char) /\ Len(t) = 1 + Len(s) /\ t[1] = Sep
             /\ \A j \in 1 .. Len(s) : t[1 + j] = s[j]
<1> DEFINE c == <<Sep>>
           t == c \o s
<1>1. c \in Seq(Char) /\ Len(c) = 1 /\ c[1] = Sep /\ 1 \in 1 .. 1
  BY StringsAssumption
<1> HIDE DEF c
<1>2. /\ t \in Seq(Char) /\ Len(t) = Len(c) + Len(s)
      /\ \A j \in 1 .. Len(c) : t[j] = c[j]
      /\ \A j \in 1 .. Len(s) : t[Len(c) + j] = s[j]
  <2>1. c \in Seq(Char)
    BY <1>1
  <2> QED
    BY <2>1, Concat
<1> HIDE DEF t
<1> QED
  BY <1>1, <1>2 DEF t, c

(* The bytes of one more string                                            *)
LEMMA JoinNext ==
  ASSUME NEW r, NEW g, NEW s \in Seq(Char), NEW x \in Nat \ {0}, NEW y \in Nat, NEW l \in Nat,
         StartsWith(r, g, x), Len(s) = l, y = x + l + 1, r[x] = Sep, StandsAfter(r, x, s)
  PROVE  StartsWith(r, g \o (<<Sep>> \o s), y)
<1> DEFINE c == <<Sep>>
           t == c \o s
           h == g \o t
<1>1. c \in Seq(Char) /\ Len(c) = 1 /\ c[1] = Sep
  BY StringsAssumption
<1>0. g \in Seq(Char) /\ Len(g) = x - 1 /\ \A j \in 1 .. x - 1 : r[j] = g[j]
  BY DEF StartsWith
<1>s. \A j \in 1 .. l : r[x + j] = s[j]
  BY DEF StandsAfter
<1> HIDE DEF c
<1>2. /\ t \in Seq(Char) /\ Len(t) = 1 + l
      /\ \A j \in 1 .. 1 : t[j] = c[j]
      /\ \A j \in 1 .. l : t[1 + j] = s[j]
  <2>1. \A j \in 1 .. l : t[1 + j] = s[j]
    BY AfterSep DEF c
  <2>2. t \in Seq(Char) /\ Len(t) = 1 + Len(s) /\ t[1] = Sep
    BY AfterSep DEF c
  <2> HIDE DEF t
  <2> QED
    BY <1>1, <2>1, <2>2
<1> HIDE DEF t
<1>3. /\ h \in Seq(Char) /\ Len(h) = (x - 1) + (1 + l)
      /\ \A j \in 1 .. x - 1 : h[j] = g[j]
      /\ \A j \in 1 .. 1 + l : h[(x - 1) + j] = t[j]
  <2>1. /\ h \in Seq(Char) /\ Len(h) = Len(g) + Len(t)
        /\ \A j \in 1 .. Len(g) : h[j] = g[j]
        /\ \A j \in 1 .. Len(t) : h[Len(g) + j] = t[j]
    <3>1. g \in Seq(Char) /\ t \in Seq(Char)
      BY <1>0, <1>2
    <3> QED
      BY <3>1, Concat
  <2> HIDE DEF h
  <2> QED
    BY <1>0, <1>2, <2>1
<1> HIDE DEF h
<1>4. Len(h) = y - 1
  BY <1>3
<1>5. ASSUME NEW j \in 1 .. y - 1 PROVE r[j] = h[j]
  <2>1. CASE j < x
    <3>1. j \in 1 .. x - 1
      BY <2>1
    <3> QED
      BY <1>0, <1>3, <3>1
  <2>2. CASE j = x
    <3>1. 1 \in 1 .. 1 + l /\ (x - 1) + 1 = x /\ 1 \in 1 .. 1
      OBVIOUS
    <3>2. h[(x - 1) + 1] = t[1] /\ t[1] = c[1]
      BY <1>2, <1>3, <3>1
    <3> QED
      BY <1>1, <2>2, <3>1, <3>2
  <2>3. CASE j > x
    <3> DEFINE k == j - x
    <3>1. k \in 1 .. l /\ 1 + k \in 1 .. 1 + l /\ (x - 1) + (1 + k) = j /\ x + k = j
      BY <2>3
    <3> HIDE DEF k
    <3>2. h[(x - 1) + (1 + k)] = t[1 + k] /\ t[1 + k] = s[k] /\ r[x + k] = s[k]
      BY <1>2, <1>3, <1>s, <3>1
    <3> QED
      BY <3>1, <3>2
  <2> QED
    BY <2>1, <2>2, <2>3
<1> QED
  BY <1>3, <1>4, <1>5 DEF h, t, c, StartsWith

(* Strings whose terminators, but the last, become separators are one.     *)
SepsAt(a, r, o, n) ==
  /\ \A i \in 1 .. n - 1 : r[o[i]] = Sep
  /\ \A p \in 1 .. Len(a) : a[p] # NUL => r[p] = a[p]

(* So the block starts with the strings joined.                            *)
LEMMA JoinedIs ==
  ASSUME NEW a \in Seq(Int), NEW r, NEW ss, NEW o, Laid(a, ss, o), NEW n \in Nat \ {0}, n = Len(ss), o[0] = 0,
         SepsAt(a, r, o, n)
  PROVE  StartsWith(r, FlattenSeq(WithSep(ss)), o[n])
<1> DEFINE q == WithSep(ss)
<1>0. ss \in Seq(Seq(Char)) /\ DOMAIN ss = 1 .. n /\ o \in [0 .. n -> Nat] /\ o[n] <= Len(a) /\ Len(a) \in Nat
  BY DEF Laid
<1>1. q \in Seq(Seq(Char)) /\ Len(q) = n
  <2>1. ASSUME NEW i \in 1 .. n PROVE (IF i = 1 THEN ss[i] ELSE <<Sep>> \o ss[i]) \in Seq(Char)
    <3>1. ss[i] \in Seq(Char) /\ <<Sep>> \in Seq(Char)
      BY <1>0, StringsAssumption
    <3> QED
      BY <3>1
  <2>2. q \in [1 .. n -> Seq(Char)]
    BY <1>0, <2>1 DEF WithSep
  <2> HIDE DEF q
  <2> QED
    BY <2>2, TableIs
<1>2. \A i \in 1 .. n : q[i] = IF i = 1 THEN ss[i] ELSE <<Sep>> \o ss[i]
  BY <1>0 DEF WithSep
<1> HIDE DEF q
<1>3. PICK g \in [0 .. n -> Seq(Char)] :
        /\ g[0] = <<>>
        /\ \A i \in 1 .. n : g[i] = g[i - 1] \o q[i]
        /\ FlattenSeq(q) = g[n]
  <2>1. q \in Seq(Seq(Char))
    BY <1>1
  <2>2. PICK g \in [0 .. Len(q) -> Seq(Char)] :
          /\ g[0] = <<>>
          /\ \A i \in 1 .. Len(q) : g[i] = g[i - 1] \o q[i]
          /\ FlattenSeq(q) = g[Len(q)]
    BY <2>1, FlattenIs
  <2> QED
    BY <1>1, <2>2
<1>r. \A p \in 1 .. Len(a) : a[p] # NUL => r[p] = a[p]
  BY DEF SepsAt
<1>p. \A i \in 1 .. n - 1 : r[o[i]] = Sep
  BY DEF SepsAt
<1> DEFINE H(k) == StartsWith(r, g[k], o[k])
           S == {k \in Int : k > 0 => H(k)}
<1>4. ASSUME NEW k \in 1 .. n
      PROVE  \E l \in Nat : /\ l = Len(ss[k]) /\ ss[k] \in Seq(Char) /\ o[k] = o[k - 1] + l + 1
                            /\ StandsAfter(r, o[k - 1], ss[k])
                            /\ o[k - 1] \in Nat /\ o[k] \in Nat /\ o[k - 1] < o[k]
  <2> DEFINE x == o[k - 1]
             y == o[k]
             s == ss[k]
  <2>1. x \in Nat /\ y \in Nat /\ x < y /\ y <= o[n] /\ o[n] \in Nat /\ StringAt(a, x, y, s)
    BY LaidStep
  <2> HIDE DEF x, y, s, H, S
  <2>2. PICK l \in Nat : /\ l = Len(s) /\ y = x + l + 1 /\ y <= Len(a) /\ s \in Seq(Char)
                         /\ \A j \in 1 .. l : a[x + j] = s[j] /\ s[j] \in Char
    <3>1. x \in Nat /\ y \in Nat /\ StringAt(a, x, y, s)
      BY <2>1
    <3> QED
      <4>1. StringAt(a, x, y, s) => \E l \in Nat :
              /\ l = Len(s) /\ y = x + l + 1 /\ y <= Len(a)
              /\ \A j \in 1 .. l : a[x + j] = s[j] /\ s[j] \in Char
              /\ a[y] = NUL
              /\ StringOf(a, x + 1, l) /\ strlen(a, x + 1) = l
              /\ SubSeq(a, x + 1, x + l) = s /\ s \in Seq(Char)
        BY <3>1, StringAtIs, Zenon
      <4> QED
        BY <3>1, <4>1, Zenon
  <2>3. ASSUME NEW j \in 1 .. l PROVE r[x + j] = s[j]
    <3>a. x \in Nat /\ y = x + l + 1 /\ y <= Len(a)
      BY <2>1, <2>2, Zenon
    <3>b. Len(a) \in Nat
      OBVIOUS
    <3>1. x + j \in 1 .. Len(a)
      BY <3>a, <3>b
    <3>2. a[x + j] = s[j] /\ s[j] # NUL
      BY <2>2 DEF Char
    <3> QED
      BY <1>r, <3>1, <3>2
  <2>4. StandsAfter(r, x, s)
    BY <2>2, <2>3 DEF StandsAfter
  <2> QED
    BY <2>1, <2>2, <2>4 DEF x, y, s
<1>5. 0 \in S
  OBVIOUS
<1>6. ASSUME NEW k \in 1 .. n, k - 1 \in S PROVE k \in S
  <2> DEFINE x == o[k - 1]
             y == o[k]
             s == ss[k]
             p == g[k - 1]
  <2>1. PICK l \in Nat : /\ l = Len(s) /\ s \in Seq(Char) /\ y = x + l + 1
                         /\ StandsAfter(r, x, s)
                         /\ x \in Nat /\ y \in Nat /\ x < y
    BY <1>4
  <2>2. g[k] = p \o q[k]
    BY <1>3
  <2>3. CASE k = 1
    <3>1. x = 0 /\ q[k] = s /\ p = <<>>
      BY <1>2, <1>3, <2>3
    <3>2. g[k] = s
      BY <2>1, <2>2, <3>1
    <3> HIDE DEF x, y, s, p
    <3>3. l = y - 1 /\ \A j \in 1 .. l : r[j] = s[j]
      <4>1. \A j \in 1 .. l : x + j = j
        BY <3>1
      <4> QED
        BY <2>1, <3>1, <4>1 DEF StandsAfter
    <3>4. H(k)
      BY <2>1, <3>2, <3>3 DEF y, StartsWith
    <3> HIDE DEF H
    <3> QED
      BY <3>4
  <2>4. CASE k # 1
    <3>1. k - 1 > 0 /\ k - 1 \in 1 .. n - 1 /\ k - 1 \in 1 .. n
      BY <2>4
    <3>2. H(k - 1)
      <4> HIDE DEF H
      <4> QED
        BY <1>6, <3>1
    <3>3. StartsWith(r, p, x)
      BY <3>2
    <3>4. r[x] = Sep /\ q[k] = <<Sep>> \o s
      BY <1>2, <1>p, <2>4, <3>1
    <3>5. x # 0
      <4>1. o[(k - 1) - 1] \in Nat /\ o[(k - 1) - 1] < o[k - 1]
        BY <3>1, LaidStep
      <4> HIDE DEF H
      <4> QED
        BY <2>1, <4>1
    <3> HIDE DEF x, y, s, p, H
    <3>6. x \in Nat \ {0}
      BY <2>1, <3>5
    <3> DEFINE h == p \o (<<Sep>> \o s)
    <3>7. StartsWith(r, h, y)
      BY <2>1, <3>3, <3>4, <3>6, JoinNext
    <3>8. g[k] = h
      BY <2>2, <3>4
    <3> HIDE DEF h
    <3>9. H(k)
      BY <3>7, <3>8 DEF H, y
    <3> QED
      BY <3>9
  <2> QED
    BY <2>3, <2>4
<1>7. H(n)
  <2> HIDE DEF H
  <2>1. \A k \in 0 .. n : k \in S
    <3> HIDE DEF S
    <3> QED
      BY <1>5, <1>6, UpTo
  <2>2. n \in 0 .. n /\ n > 0
    OBVIOUS
  <2> QED
    BY <2>1, <2>2
<1> QED
  BY <1>3, <1>7 DEF q

(* argz_stringify makes one string of all, and nothing of none.            *)
LEMMA StringifyHolds ==
  ASSUME NEW v, NEW ss, Represents(v, ss)
  PROVE  /\ ss # <<>> => Represents(argz_stringify(v), <<FlattenSeq(WithSep(ss))>>)
         /\ ss = <<>> => argz_stringify(v).argz = v.argz /\ argz_stringify(v).len = v.len
<1> DEFINE a == v.argz
           l == v.len
<1>1. /\ Good(v) /\ a \in Seq(Int) /\ l \in Nat /\ l <= Len(a) /\ Len(a) \in Nat /\ DOMAIN a = 1 .. Len(a)
      /\ ss \in Seq(Seq(Char)) /\ Holds(a, 0, l, ss) /\ (ss = <<>> <=> l = 0)
  BY RepresentsIs
<1>2. PICK f : /\ CutOf(a, l, f)
               /\ argz_stringify(v) = Vector([i \in DOMAIN a |-> IF i \in f[1] THEN Sep ELSE a[i]], l)
  BY <1>1, StringifyIs
<1> DEFINE r == [i \in DOMAIN a |-> IF i \in f[1] THEN Sep ELSE a[i]]
<1>3. argz_stringify(v).argz = r /\ argz_stringify(v).len = l /\ argz_stringify(v) = Vector(r, l)
  BY <1>2 DEF Vector
<1>4. ASSUME ss = <<>> PROVE r = a
  <2>1. f[1] = {}
    BY <1>1, <1>2, <1>4, CutNone
  <2>2. r = [i \in DOMAIN a |-> a[i]]
    BY <2>1
  <2>3. a \in [1 .. Len(a) -> Int]
    BY <1>1
  <2> HIDE DEF r, a
  <2>4. a = [i \in DOMAIN a |-> a[i]]
    BY <2>3
  <2> QED
    BY <2>2, <2>4
<1> HIDE DEF a, l
<1>5. ASSUME ss # <<>> PROVE Represents(argz_stringify(v), <<FlattenSeq(WithSep(ss))>>)
  <2>1. PICK o : Laid(a, ss, o) /\ o[0] = 0 /\ o[Len(ss)] = l
    BY <1>1 DEF Holds
  <2>2. PICK n \in Nat \ {0} : n = Len(ss)
    BY <1>1, <1>5, EmptySeq
  <2>3. f[1] = {o[j] : j \in 1 .. n - 1}
    <3>1. Laid(a, ss, o) /\ o[0] = 0 /\ o[n] = l /\ n = Len(ss) /\ a \in Seq(Int) /\ CutOf(a, l, f)
      BY <1>1, <1>2, <2>1, <2>2
    <3> HIDE DEF r
    <3> QED
      BY <3>1, CutIs
  <2>4. ASSUME NEW i \in 1 .. n PROVE /\ o[i] \in Nat /\ 0 < o[i] /\ o[i] <= l /\ a[o[i]] = NUL
                                      /\ i # n => o[i] < l
    <3>0. a \in Seq(Int) /\ Laid(a, ss, o) /\ n = Len(ss)
      BY <1>1, <2>1, <2>2
    <3>1. o[i - 1] \in Nat /\ o[i] \in Nat /\ o[i - 1] < o[i] /\ o[i] <= o[n] /\ a[o[i]] = NUL
      <4> HIDE DEF r
      <4> QED
        BY <3>0, LaidStep
    <3>2. i # n => o[i] < l
      <4> SUFFICES ASSUME i # n PROVE o[i] < l
        OBVIOUS
      <4>1. i + 1 \in 1 .. n /\ (i + 1) - 1 = i
        OBVIOUS
      <4>2. o[(i + 1) - 1] < o[i + 1] /\ o[i + 1] <= o[n] /\ o[i + 1] \in Nat
        BY <1>1, <2>1, <2>2, <4>1, LaidStep
      <4>3. o[i] < o[i + 1] /\ o[i + 1] <= l /\ o[i] \in Nat /\ o[i + 1] \in Nat /\ l \in Nat
        BY <1>1, <2>1, <2>2, <3>1, <4>1, <4>2
      <4> QED
        BY <4>3
    <3> QED
      BY <2>1, <2>2, <3>1, <3>2
  <2>5. /\ \A i \in 1 .. n - 1 : r[o[i]] = Sep
        /\ \A p \in 1 .. Len(a) : a[p] # NUL => r[p] = a[p]
        /\ r[l] = NUL
    <3>1. ASSUME NEW i \in 1 .. n - 1 PROVE r[o[i]] = Sep
      <4>1. i \in 1 .. n
        OBVIOUS
      <4>2. o[i] \in 1 .. Len(a) /\ o[i] \in f[1]
        BY <1>1, <2>3, <2>4, <4>1
      <4> QED
        BY <1>1, <4>2
    <3>2. ASSUME NEW p \in 1 .. Len(a), a[p] # NUL PROVE r[p] = a[p]
      <4>1. p \notin f[1]
        <5>1. \A j \in 1 .. n - 1 : j \in 1 .. n
          OBVIOUS
        <5> QED
          BY <2>3, <2>4, <3>2, <5>1
      <4> QED
        BY <1>1, <4>1
    <3>3. r[l] = NUL
      <4>1. n \in 1 .. n /\ \A j \in 1 .. n - 1 : j \in 1 .. n /\ j # n
        OBVIOUS
      <4>2. l > 0 /\ a[l] = NUL /\ l \in 1 .. Len(a)
        <5>1. 0 < o[n] /\ a[o[n]] = NUL
          BY <2>4, <4>1
        <5>2. o[n] = l
          BY <2>1, <2>2
        <5> HIDE DEF r
        <5> QED
          BY <1>1, <5>1, <5>2
      <4>3. l \notin f[1]
        <5>1. ASSUME NEW j \in 1 .. n - 1 PROVE l # o[j]
          <6>1. o[j] \in Nat /\ o[j] < l
            BY <2>4, <4>1
          <6> QED
            BY <1>1, <6>1
        <5> HIDE DEF r
        <5> QED
          BY <2>3, <5>1
      <4> QED
        BY <1>1, <4>2, <4>3
    <3> QED
      BY <3>1, <3>2, <3>3
  <2>6. r \in Seq(Int) /\ Len(r) = Len(a)
    <3>1. Sep \in Int
      BY StringsAssumption DEF Char
    <3>2. r \in [1 .. Len(a) -> Int]
      BY <1>1, <3>1
    <3> HIDE DEF r
    <3> QED
      BY <1>1, <3>2, TableIs
  <2> HIDE DEF r
  <2> DEFINE h == FlattenSeq(WithSep(ss))
  <2>7. h \in Seq(Char) /\ Len(h) = l - 1 /\ \A j \in 1 .. l - 1 : r[j] = h[j]
    <3>1. SepsAt(a, r, o, n)
      BY <2>5 DEF SepsAt
    <3>2. StartsWith(r, h, o[n])
      BY <1>1, <2>1, <2>2, <3>1, JoinedIs
    <3>3. o[n] = l
      BY <2>1, <2>2
    <3> HIDE DEF h
    <3> QED
      BY <3>2, <3>3 DEF StartsWith
  <2> HIDE DEF h
  <2>8. StringAt(r, 0, l, h)
    <3>1. l = 0 + (l - 1) + 1 /\ \A j \in 1 .. l - 1 : 0 + j = j
      BY <1>1
    <3> QED
      BY <1>1, <2>5, <2>6, <2>7, <3>1 DEF StringAt
  <2>9. Holds(r, 0, l, <<h>>)
    <3>1. 0 \in Nat
      OBVIOUS
    <3> QED
      BY <1>1, <2>6, <2>8, <3>1, HoldsOne
  <2> QED
    BY <1>3, <2>6, <2>9 DEF Represents, h
<1> HIDE DEF r
<1> QED
  BY <1>3, <1>4, <1>5 DEF a, l

-----------------------------------------------------------------------------
(* argz_replace: strstr in an entry, one entry, all of them.               *)

(* The memory argz_replace searches                                        *)
Haystack(a, str) == a \o <<Outside>> \o Bytes(str)

(* It is a memory of two blocks, the second one a string.                  *)
LEMMA HaystackIs ==
  ASSUME NEW a \in Seq(Int), NEW str \in Seq(Char), str # <<>>
  PROVE  LET m == Haystack(a, str)
             n == Len(a)
             e == Len(str)
         IN  /\ n \in Nat /\ e \in Nat \ {0} /\ m \in Memories /\ Len(m) = n + 1 + (e + 1)
             /\ \A i \in 1 .. n : At(m, i) = a[i]
             /\ \A i \in 0 .. e - 1 : At(m, n + 2 + i) = str[i + 1] /\ str[i + 1] \in Char
             /\ At(m, n + 2 + e) = NUL
             /\ m[n + 2] # NUL
<1> DEFINE n == Len(a)
           l == Len(str)
           b == Bytes(str)
           m == Haystack(a, str)
<1>1. n \in Nat /\ l \in Nat \ {0}
  <2>1. l # 0
    OBVIOUS
  <2>2. n \in Nat /\ l \in Nat
    OBVIOUS
  <2> HIDE DEF n, l
  <2> QED
    BY <2>1, <2>2
<1>2. /\ b \in Seq(Int) /\ Len(b) = l + 1 /\ b[l + 1] = NUL
      /\ \A i \in 1 .. l : b[i] = str[i]
      /\ \A i \in 1 .. l : str[i] \in Char
  <2>1. str \in Seq(Octet) /\ NUL \in Octet
    BY StringIs, OctetIs
  <2>2. /\ b \in Seq(Octet) /\ Len(b) = l + 1 /\ b[l + 1] = NUL
        /\ \A i \in 1 .. l : b[i] = str[i]
    BY <2>1, BytesIs
  <2>3. \A i \in 1 .. l : str[i] \in Char
    OBVIOUS
  <2> HIDE DEF b, l
  <2>4. b \in Seq(Int)
    BY <2>2, OctetIs
  <2> QED
    BY <2>2, <2>3, <2>4
<1> HIDE DEF b, l
<1>3. /\ m \in Memories /\ Len(m) = n + 1 + (l + 1)
      /\ \A i \in 1 .. n : At(m, i) = a[i]
      /\ \A i \in 1 .. l + 1 : At(m, n + 1 + i) = b[i]
      /\ m[n + 1 + 1] = b[1]
  <2>1. /\ m \in Memories /\ Len(m) = n + 1 + Len(b)
        /\ \A i \in 1 .. n : At(m, i) = a[i]
        /\ At(m, n + 1) = Outside
        /\ \A i \in 1 .. Len(b) : m[n + 1 + i] = b[i] /\ At(m, n + 1 + i) = b[i]
    BY <1>2, Apart DEF Haystack, b
  <2> HIDE DEF m, n
  <2>2. 1 \in 1 .. Len(b)
    BY <1>1, <1>2
  <2> QED
    BY <1>2, <2>1, <2>2
<1> HIDE DEF m, n
<1>4. ASSUME NEW i \in 0 .. l - 1 PROVE At(m, n + 2 + i) = str[i + 1] /\ str[i + 1] \in Char
  <2>1. i + 1 \in 1 .. l /\ i + 1 \in 1 .. l + 1 /\ n + 1 + (i + 1) = n + 2 + i
    BY <1>1
  <2>2. At(m, n + 2 + i) = b[i + 1]
    BY <1>3, <2>1
  <2> QED
    BY <1>2, <2>1, <2>2
<1>5. At(m, n + 2 + l) = NUL /\ m[n + 2] # NUL
  <2>1. l + 1 \in 1 .. l + 1 /\ n + 1 + (l + 1) = n + 2 + l /\ 1 \in 1 .. l /\ n + 1 + 1 = n + 2
    BY <1>1
  <2>2. m[n + 2] # NUL
    BY <1>2, <1>3, <2>1 DEF Char
  <2> QED
    BY <1>2, <1>3, <2>1, <2>2
<1> QED
  BY <1>1, <1>3, <1>4, <1>5 DEF m, n, l

(* The inner loop of strstr finds the whole needle or not.                 *)
LEMMA MatchedIs ==
  ASSUME NEW a \in Seq(Int), NEW str \in Seq(Char), str # <<>>, NEW h \in Int
  PROVE  Matched(Haystack(a, str), h, Len(a) + 2)
           <=> \A k \in 0 .. Len(str) - 1 : At(Haystack(a, str), h + k) = str[k + 1]
<1> DEFINE m == Haystack(a, str)
           n == Len(a)
           e == Len(str)
           M == Len(m)
           Stop(k) == At(m, h + k) = NUL \/ At(m, h + k) # At(m, n + 2 + k)
           T == {k \in Int : Stop(k)}
<1>1. /\ n \in Nat /\ e \in Nat \ {0} /\ M = n + 1 + (e + 1)
      /\ \A i \in 0 .. e - 1 : At(m, n + 2 + i) = str[i + 1] /\ str[i + 1] \in Char
      /\ At(m, n + 2 + e) = NUL
  BY HaystackIs
<1> HIDE DEF m, n, e, M
<1>2. M \in Nat /\ e <= M
  BY <1>1
<1>3. PICK j \in 0 .. M : /\ j = M \/ Stop(j)
                          /\ \A k \in 0 .. j - 1 : ~Stop(k)
                          /\ Matched(m, h, n + 2) <=> At(m, n + 2 + j) = NUL
  <2>1. \E j \in 0 .. M : (j = M \/ j \in T) /\ \A k \in 0 .. j - 1 : k \notin T
    BY <1>2, FirstExists
  <2>2. \E j \in 0 .. M : /\ j = M \/ At(m, h + j) = NUL \/ At(m, h + j) # At(m, n + 2 + j)
                          /\ \A k \in 0 .. j - 1 : ~(At(m, h + k) = NUL \/ At(m, h + k) # At(m, n + 2 + k))
    BY <2>1, SMTT(15)
  <2> DEFINE x == FirstStop(M, LAMBDA k : At(m, h + k) = NUL \/ At(m, h + k) # At(m, n + 2 + k))
  <2>3. /\ x \in 0 .. M
        /\ x = M \/ At(m, h + x) = NUL \/ At(m, h + x) # At(m, n + 2 + x)
        /\ \A k \in 0 .. x - 1 : ~(At(m, h + k) = NUL \/ At(m, h + k) # At(m, n + 2 + k))
    BY <2>2 DEF FirstStop
  <2>4. Matched(m, h, n + 2) <=> At(m, n + 2 + x) = NUL
    BY DEF Matched, M
  <2> HIDE DEF x
  <2> QED
    BY <2>3, <2>4
<1>4. ASSUME At(m, n + 2 + j) = NUL, NEW k \in 0 .. e - 1 PROVE At(m, h + k) = str[k + 1]
  <2>1. ~(j < e)
    <3> SUFFICES ASSUME j < e PROVE FALSE
      OBVIOUS
    <3>1. j \in 0 .. e - 1
      BY <1>1, <1>2
    <3>2. At(m, n + 2 + j) \in Char
      BY <1>1, <3>1
    <3> QED
      BY <1>4, <3>2 DEF Char
  <2>2. k \in 0 .. j - 1
    BY <1>1, <1>2, <2>1
  <2>3. ~Stop(k)
    BY <1>3, <2>2
  <2> QED
    BY <1>1, <2>3
<1>5. ASSUME \A k \in 0 .. e - 1 : At(m, h + k) = str[k + 1] PROVE At(m, n + 2 + j) = NUL
  <2>1. \A k \in 0 .. e - 1 : ~Stop(k)
    <3> SUFFICES ASSUME NEW k \in 0 .. e - 1 PROVE ~Stop(k)
      OBVIOUS
    <3>1. At(m, h + k) = str[k + 1] /\ At(m, n + 2 + k) = str[k + 1] /\ str[k + 1] \in Char
      BY <1>1, <1>5
    <3> QED
      BY <3>1 DEF Char
  <2>2. Stop(e)
    BY <1>1
  <2>3. j = e
    <3> HIDE DEF Stop
    <3>1. ~(j < e)
      <4> SUFFICES ASSUME j < e PROVE FALSE
        OBVIOUS
      <4>1. j \in 0 .. e - 1 /\ j # M
        BY <1>1, <1>2
      <4> QED
        BY <1>3, <2>1, <4>1
    <3>2. ~(e < j)
      <4> SUFFICES ASSUME e < j PROVE FALSE
        OBVIOUS
      <4>1. e \in 0 .. j - 1
        BY <1>1, <1>2
      <4> QED
        BY <1>3, <2>2, <4>1
    <3> QED
      BY <1>1, <1>2, <3>1, <3>2
  <2> QED
    BY <1>1, <2>3
<1> QED
  BY <1>3, <1>4, <1>5 DEF m, n, e

(* The string p stands in s from the i-th character on.                    *)
Occurs(s, i, p) == i + Len(p) - 1 <= Len(s) /\ \A k \in 1 .. Len(p) : s[i + k - 1] = p[k]

(* An occurrence is a part of the string.                                  *)
LEMMA OccursIs ==
  ASSUME NEW s \in Seq(Char), NEW p \in Seq(Char), NEW l \in Nat, l = Len(s), NEW e \in Nat, e = Len(p),
         NEW i \in 1 .. l + 1
  PROVE  Occurs(s, i, p) <=> ~(l - i + 1 < e) /\ SubSeq(s, i, i + e - 1) = p
<1>1. i + e - 1 <= l <=> ~(l - i + 1 < e)
  OBVIOUS
<1>2. ASSUME i + e - 1 <= l
      PROVE  SubSeq(s, i, i + e - 1) = p <=> \A k \in 1 .. e : s[i + k - 1] = p[k]
  <2> DEFINE r == SubSeq(s, i, i + e - 1)
  <2>1. Len(r) = e /\ \A k \in 1 .. e : r[k] = s[i + k - 1]
    <3>1. i + e - 1 - i + 1 = e
      OBVIOUS
    <3>2. \A k \in 1 .. e : r[k] = s[i + k - 1]
      BY <1>2
    <3> QED
      BY <1>2, <3>1, <3>2
  <2>2. r \in Seq(Char)
    <3>1. i \in Int /\ i + e - 1 \in Int /\ \A k \in i .. i + e - 1 : k \in 1 .. l
      BY <1>2
    <3>2. \A k \in i .. i + e - 1 : s[k] \in Char
      BY <3>1
    <3> QED
      BY <3>1, <3>2, SubSeqProperties
  <2> HIDE DEF r
  <2>3. r = p => \A k \in 1 .. e : s[i + k - 1] = p[k]
    BY <2>1
  <2>4. ASSUME \A k \in 1 .. e : s[i + k - 1] = p[k] PROVE r = p
    <3>1. \A k \in 1 .. e : r[k] = p[k]
      BY <2>1, <2>4
    <3> QED
      BY <2>1, <2>2, <3>1, SeqEqual
  <2> QED
    BY <2>3, <2>4 DEF r
<1> QED
  BY <1>1, <1>2 DEF Occurs

(* The bytes of a string of a known length                                 *)
LEMMA StringAtBytes ==
  ASSUME NEW a \in Seq(Int), NEW x \in Nat, NEW y \in Nat, NEW s, StringAt(a, x, y, s), NEW l \in Nat, l = Len(s)
  PROVE  /\ s \in Seq(Char) /\ y = x + l + 1 /\ y <= Len(a) /\ a[y] = NUL
         /\ \A k \in 1 .. l : a[x + k] = s[k]
         /\ \A k \in 1 .. l : s[k] \in Char
<1>1. s \in Seq(Char) /\ y = x + l + 1 /\ y <= Len(a) /\ a[y] = NUL /\ \A k \in 1 .. l : a[x + k] = s[k]
  BY DEF StringAt
<1>2. \A k \in 1 .. l : s[k] \in Char
  BY <1>1
<1> QED
  BY <1>1, <1>2

(* strstr finds a needle in an entry where it occurs in the string there.  *)
LEMMA MatchedAt ==
  ASSUME NEW a \in Seq(Int), NEW x \in Nat, NEW y \in Nat, NEW s, StringAt(a, x, y, s),
         NEW str \in Seq(Char), str # <<>>, NEW l \in Nat, l = Len(s), NEW i \in 1 .. l
  PROVE  Matched(Haystack(a, str), x + i, Len(a) + 2) <=> Occurs(s, i, str)
<1> DEFINE m == Haystack(a, str)
           n == Len(a)
           e == Len(str)
<1>1. /\ n \in Nat /\ e \in Nat \ {0}
      /\ \A k \in 1 .. n : At(m, k) = a[k]
      /\ \A k \in 0 .. e - 1 : str[k + 1] \in Char
  BY HaystackIs
<1>2. /\ y = x + l + 1 /\ y <= n
      /\ \A j \in 1 .. l : a[x + j] = s[j]
      /\ a[y] = NUL
  <2> HIDE DEF m, e
  <2>1. y = x + l + 1 /\ y <= Len(a) /\ a[y] = NUL
    BY DEF StringAt
  <2>2. \A j \in 1 .. l : a[x + j] = s[j]
    BY StringAtBytes
  <2> QED
    BY <2>1, <2>2
<1>3. i \in 1 .. l
  OBVIOUS
<1>4. Matched(m, x + i, n + 2) <=> \A k \in 0 .. e - 1 : At(m, (x + i) + k) = str[k + 1]
  <2>1. x + i \in Int
    BY <1>3
  <2> QED
    BY <2>1, MatchedIs
<1> HIDE DEF m, n, e
<1>5. \A k \in 0 .. l - i : At(m, (x + i) + k) = s[i + k]
  <2> SUFFICES ASSUME NEW k \in 0 .. l - i PROVE At(m, (x + i) + k) = s[i + k]
    OBVIOUS
  <2>1. i + k \in 1 .. l /\ (x + i) + k = x + (i + k) /\ x + (i + k) \in 1 .. n
    BY <1>1, <1>2, <1>3
  <2> QED
    BY <1>1, <1>2, <2>1
<1>6. At(m, (x + i) + (l - i + 1)) = NUL
  <2>1. (x + i) + (l - i + 1) = y /\ y \in 1 .. n
    BY <1>1, <1>2, <1>3
  <2> QED
    BY <1>1, <1>2, <2>1
<1>7. ASSUME \A k \in 0 .. e - 1 : At(m, (x + i) + k) = str[k + 1]
      PROVE  i + e - 1 <= l /\ \A k \in 1 .. e : s[i + k - 1] = str[k]
  <2>1. i + e - 1 <= l
    <3> SUFFICES ASSUME ~(i + e - 1 <= l) PROVE FALSE
      OBVIOUS
    <3>1. l - i + 1 \in 0 .. e - 1
      BY <1>1, <1>3
    <3>2. str[(l - i + 1) + 1] = NUL /\ str[(l - i + 1) + 1] \in Char
      BY <1>1, <1>6, <1>7, <3>1
    <3> QED
      BY <3>2 DEF Char
  <2>2. ASSUME NEW k \in 1 .. e PROVE s[i + k - 1] = str[k]
    <3>1. k - 1 \in 0 .. e - 1 /\ k - 1 \in 0 .. l - i /\ (k - 1) + 1 = k /\ i + (k - 1) = i + k - 1
      BY <1>1, <1>3, <2>1
    <3> QED
      BY <1>5, <1>7, <3>1
  <2> QED
    BY <2>1, <2>2
<1>8. ASSUME i + e - 1 <= l, \A k \in 1 .. e : s[i + k - 1] = str[k]
      PROVE  \A k \in 0 .. e - 1 : At(m, (x + i) + k) = str[k + 1]
  <2> SUFFICES ASSUME NEW k \in 0 .. e - 1 PROVE At(m, (x + i) + k) = str[k + 1]
    OBVIOUS
  <2>1. k + 1 \in 1 .. e /\ k \in 0 .. l - i /\ i + (k + 1) - 1 = i + k
    BY <1>1, <1>3, <1>8
  <2> QED
    BY <1>5, <1>8, <2>1
<1>9. Occurs(s, i, str) <=> i + e - 1 <= l /\ \A k \in 1 .. e : s[i + k - 1] = str[k]
  BY DEF Occurs, e
<1>10. Matched(m, x + i, n + 2) <=> Occurs(s, i, str)
  BY <1>4, <1>7, <1>8, <1>9
<1> QED
  BY <1>10 DEF m, n

(* The places of a string where another occurs                             *)
Occurrences(s, p) == {i \in 1 .. Len(s) : Occurs(s, i, p)}

(* No occurrence of p starts in s from j to q - 1.                         *)
NoneIn(s, p, j, q) == \A i \in j .. q - 1 : i \notin Occurrences(s, p)

(* strstr finds the occurrence at q, the first one from j on.              *)
FoundAt(a, x, s, str, j, q) ==
  /\ NoneIn(s, str, j, q)
  /\ \/ q = Len(s) + 1 /\ Match(a, x + j, str) = NULL
     \/ q \in Occurrences(s, str) /\ Match(a, x + j, str) = x + q

(* From any place of an entry, strstr finds the first occurrence left.     *)
LEMMA MatchFirst ==
  ASSUME NEW a \in Seq(Int), NEW x \in Nat, NEW y \in Nat, NEW s, StringAt(a, x, y, s),
         NEW str \in Seq(Char), str # <<>>, NEW l \in Nat, l = Len(s), NEW j \in 1 .. l + 1
  PROVE  \E q \in j .. l + 1 : FoundAt(a, x, s, str, j, q)
<1> DEFINE m == Haystack(a, str)
           n == Len(a)
           from == x + j
           needle == n + 2
           L == strlen(m, from)
           S == {k \in Int : Matched(m, from + k, needle)}
<1>1. /\ n \in Nat
      /\ m \in Memories
      /\ \A k \in 1 .. n : At(m, k) = a[k]
      /\ m[needle] # NUL
  BY HaystackIs
<1>2. /\ y = x + l + 1 /\ y <= n
      /\ \A k \in 1 .. l : a[x + k] = s[k]
      /\ \A k \in 1 .. l : s[k] \in Char
      /\ a[y] = NUL
  <2>1. s \in Seq(Char) /\ y = x + l + 1 /\ y <= n /\ a[y] = NUL /\ \A k \in 1 .. l : a[x + k] = s[k]
    BY DEF StringAt
  <2> QED
    BY <2>1
<1>3. \A i \in 1 .. l : Matched(m, x + i, needle) <=> i \in Occurrences(s, str)
  <2> SUFFICES ASSUME NEW i \in 1 .. l PROVE Matched(m, x + i, needle) <=> i \in Occurrences(s, str)
    OBVIOUS
  <2>1. Matched(m, x + i, needle) <=> Occurs(s, i, str)
    BY MatchedAt
  <2> QED
    BY <2>1 DEF Occurrences
<1> HIDE DEF m, n
<1>4. L = l + 1 - j
  <2>1. from \in Int /\ l + 1 - j \in Nat
    OBVIOUS
  <2>2. At(m, from + (l + 1 - j)) = NUL
    <3>1. from + (l + 1 - j) = y /\ y \in 1 .. n
      BY <1>1, <1>2
    <3> QED
      BY <1>1, <1>2, <3>1
  <2>3. ASSUME NEW k \in 0 .. (l + 1 - j) - 1 PROVE At(m, from + k) \notin {NUL, Outside}
    <3>1. j + k \in 1 .. l /\ from + k = x + (j + k) /\ x + (j + k) \in 1 .. n
      BY <1>1, <1>2
    <3>2. At(m, from + k) \in Char
      BY <1>1, <1>2, <3>1, ZenonT(30)
    <3> QED
      BY <3>2 DEF Char
  <2>4. StringOf(m, from, l + 1 - j)
    BY <2>2, <2>3 DEF StringOf
  <2> QED
    BY <1>1, <2>1, <2>4, StrlenIs
<1> HIDE DEF L
<1>5. PICK i \in 0 .. L : /\ i = L \/ Matched(m, from + i, needle)
                          /\ \A k \in 0 .. i - 1 : ~Matched(m, from + k, needle)
                          /\ Match(a, from, str) = IF i = L THEN NULL ELSE from + i
  <2>0. L \in Nat
    BY <1>4
  <2>1. \E i \in 0 .. L : (i = L \/ i \in S) /\ \A k \in 0 .. i - 1 : k \notin S
    BY <2>0, FirstExists
  <2>2. \E i \in 0 .. L : (i = L \/ Matched(m, from + i, needle)) /\ \A k \in 0 .. i - 1 : ~Matched(m, from + k, needle)
    <3>1. PICK z \in 0 .. L : (z = L \/ z \in S) /\ \A k \in 0 .. z - 1 : k \notin S
      BY <2>1
    <3>2. z = L \/ Matched(m, from + z, needle)
      BY <3>1
    <3>3. ASSUME NEW k \in 0 .. z - 1 PROVE ~Matched(m, from + k, needle)
      <4>1. k \in Int
        BY <2>0
      <4> HIDE DEF S
      <4>2. k \notin S
        BY <3>1
      <4> QED
        BY <4>1, <4>2 DEF S
    <3> QED
      BY <3>2, <3>3
  <2> DEFINE i == FirstStop(L, LAMBDA k : Matched(m, from + k, needle))
  <2>3. i \in 0 .. L /\ (i = L \/ Matched(m, from + i, needle)) /\ \A k \in 0 .. i - 1 : ~Matched(m, from + k, needle)
    BY <2>2 DEF FirstStop
  <2>4. Match(a, from, str) = IF i = L THEN NULL ELSE from + i
    BY <1>1 DEF Match, strstr, m, n, L, needle, Haystack
  <2> HIDE DEF i
  <2> QED
    BY <2>3, <2>4
<1> DEFINE q == j + i
<1>6. q \in j .. l + 1 /\ from + i = x + q /\ (q = l + 1 <=> i = L)
  BY <1>4
<1>7. ASSUME NEW k \in j .. q - 1 PROVE k \notin Occurrences(s, str)
  <2>1. k \in 1 .. l /\ k - j \in 0 .. i - 1 /\ from + (k - j) = x + k
    BY <1>4
  <2>2. ~Matched(m, x + k, needle)
    BY <1>5, <2>1
  <2> QED
    BY <1>3, <2>1, <2>2
<1>8. CASE i = L
  <2>1. FoundAt(a, x, s, str, j, q)
    BY <1>5, <1>6, <1>7, <1>8 DEF FoundAt, NoneIn
  <2> QED
    BY <1>6, <2>1
<1>9. CASE i # L
  <2>0. l + 1 \in Nat /\ q # l + 1
    BY <1>6, <1>9
  <2>1. q \in 1 .. l
    BY <1>6, <2>0
  <2>2. Matched(m, x + q, needle) /\ Match(a, from, str) = x + q
    BY <1>5, <1>6, <1>9
  <2>3. q \in Occurrences(s, str)
    BY <1>3, <2>1, <2>2
  <2>4. FoundAt(a, x, s, str, j, q)
    BY <1>7, <2>2, <2>3 DEF FoundAt, NoneIn
  <2> QED
    BY <1>6, <2>4
<1> QED
  BY <1>8, <1>9

(* What replacing makes of the rest of a string, from each place of it     *)
RestOf(R, s, p, with) ==
  /\ R \in [1 .. Len(s) + 1 -> Seq(Char)]
  /\ R[Len(s) + 1] = <<>>
  /\ \A i \in 1 .. Len(s) :
       IF i \in Occurrences(s, p) THEN R[i] = with \o R[i + Len(p)] ELSE R[i] = <<s[i]>> \o R[i + 1]

(* An occurrence ends in the string.                                       *)
LEMMA OccurrenceEnds ==
  ASSUME NEW s \in Seq(Char), NEW p \in Seq(Char), p # <<>>, NEW l \in Nat, l = Len(s), NEW e \in Nat, e = Len(p),
         NEW i \in Occurrences(s, p)
  PROVE  i \in 1 .. l /\ i + e \in i + 1 .. l + 1
<1>1. e # 0
  BY EmptySeq
<1>2. i \in 1 .. l /\ i + e - 1 <= l
  BY DEF Occurrences, Occurs
<1> QED
  BY <1>1, <1>2

(* The string with its occurrences replaced, one by one                    *)
LEMMA ReplacedIs ==
  ASSUME NEW s \in Seq(Char), NEW p \in Seq(Char), p # <<>>, NEW with \in Seq(Char)
  PROVE  \E R : RestOf(R, s, p, with) /\ Vec!Replaced(s, p, with) = R[1]
<1> DEFINE l == Len(s)
           e == Len(p)
           n == l + 1
           V == Seq(Char)
           Far == {i \in 1 .. n : l - i + 1 < e}
           Here(i) == SubSeq(s, i, i + e - 1) = p
           B == [i \in 1 .. n |-> SubSeq(s, i, l)]
           J == [i \in 1 .. n |-> IF Here(i) THEN i + e ELSE i + 1]
           G == [i \in 1 .. n |-> [x \in V |-> IF Here(i) THEN with \o x ELSE <<s[i]>> \o x]]
           Loop(f) == f = [i \in 1 .. n |-> IF l - i + 1 < e THEN SubSeq(s, i, l)
                                            ELSE IF Here(i) THEN with \o f[i + e] ELSE <<s[i]>> \o f[i + 1]]
<1>1. l \in Nat /\ e \in Nat \ {0} /\ n \in Nat /\ n = l + 1
  <2>1. l \in Nat /\ e \in Nat /\ e # 0
    OBVIOUS
  <2> QED
    BY <2>1
<1>2. \A i \in 1 .. l : s[i] \in Char /\ <<s[i]>> \in V
  OBVIOUS
<1>3. ASSUME NEW i \in 1 .. n PROVE SubSeq(s, i, l) \in V
  <2>1. i \in Int /\ l \in Int /\ \A k \in i .. l : k \in 1 .. l
    BY <1>1
  <2>2. \A k \in i .. l : s[k] \in Char
    BY <1>2, <2>1
  <2> QED
    BY <2>1, <2>2, SubSeqProperties
<1> HIDE DEF l, e, n
<1>4. ASSUME NEW i \in 1 .. n, i \notin Far
      PROVE  i \in 1 .. l /\ i + e \in i + 1 .. n /\ i + 1 \in i + 1 .. n
  BY <1>1, <1>4
<1>5. ASSUME NEW i \in 1 .. n, i \notin Far, NEW x \in V
      PROVE  with \o x \in V /\ <<s[i]>> \o x \in V
  <2>1. <<s[i]>> \in V
    BY <1>2, <1>4, <1>5
  <2> HIDE DEF Far
  <2>2. with \in Seq(Char) /\ x \in Seq(Char) /\ <<s[i]>> \in Seq(Char)
    BY <2>1
  <2>3. with \o x \in Seq(Char)
    BY <2>2, Concat
  <2>4. <<s[i]>> \o x \in Seq(Char)
    BY <2>2, Concat
  <2> QED
    BY <2>3, <2>4
<1> HIDE DEF Here
<1>6. PICK g \in [1 .. n -> V] : JumpOf(g, n, Far, B, J, G)
  <2>1. \A i \in 1 .. n : i \in Far => B[i] \in V
    BY <1>3
  <2>2. ASSUME NEW i \in 1 .. n, i \notin Far PROVE J[i] \in i + 1 .. n /\ \A x \in V : G[i][x] \in V
    <3>1. J[i] \in i + 1 .. n
      <4>1. i + e \in i + 1 .. n /\ i + 1 \in i + 1 .. n
        BY <1>4, <2>2
      <4>2. J[i] = IF Here(i) THEN i + e ELSE i + 1
        OBVIOUS
      <4> HIDE DEF J
      <4> QED
        BY <4>1, <4>2
    <3>2. \A x \in V : G[i][x] \in V
      <4> SUFFICES ASSUME NEW x \in V PROVE G[i][x] \in V
        OBVIOUS
      <4>1. G[i][x] = IF Here(i) THEN with \o x ELSE <<s[i]>> \o x
        OBVIOUS
      <4> HIDE DEF G
      <4> QED
        BY <1>5, <2>2, <4>1
    <3> QED
      BY <3>1, <3>2
  <2> HIDE DEF V, Far, B, J, G
  <2>3. Jumps(n, V, Far, B, J, G)
    BY <2>1, <2>2 DEF Jumps
  <2> QED
    BY <1>1, <2>3, JumpExists
<1>7. Loop(g)
  <2>1. ASSUME NEW i \in 1 .. n
        PROVE  g[i] = IF l - i + 1 < e THEN SubSeq(s, i, l)
                      ELSE IF Here(i) THEN with \o g[i + e] ELSE <<s[i]>> \o g[i + 1]
    <3>1. g[i] = IF i \in Far THEN B[i] ELSE G[i][g[J[i]]]
      BY <1>6 DEF JumpOf
    <3>2. CASE i \in Far
      <4>1. B[i] = SubSeq(s, i, l) /\ l - i + 1 < e
        BY <3>2
      <4> QED
        BY <3>1, <3>2, <4>1
    <3>3. CASE i \notin Far
      <4>1. ~(l - i + 1 < e)
        BY <3>3
      <4>2. i + e \in 1 .. n /\ i + 1 \in 1 .. n
        BY <1>1, <1>4, <3>3
      <4>3. g[i + e] \in V /\ g[i + 1] \in V
        BY <1>6, <4>2
      <4>4. J[i] = IF Here(i) THEN i + e ELSE i + 1
        OBVIOUS
      <4>5. \A x \in V : G[i][x] = IF Here(i) THEN with \o x ELSE <<s[i]>> \o x
        OBVIOUS
      <4> HIDE DEF G, J, B, V, Far
      <4> QED
        BY <3>1, <3>3, <4>1, <4>3, <4>4, <4>5
    <3> QED
      BY <3>2, <3>3, SMTT(15)
  <2>2. g = [i \in 1 .. n |-> g[i]]
    BY <1>6
  <2> HIDE DEF V, Far, B, J, G
  <2> QED
    BY <2>1, <2>2
<1>8. PICK f : Loop(f) /\ Vec!Replaced(s, p, with) = f[1]
  <2>1. \E f : f = [i \in 1 .. Len(s) + 1 |->
                      IF Len(s) - i + 1 < Len(p) THEN SubSeq(s, i, Len(s))
                      ELSE IF SubSeq(s, i, i + Len(p) - 1) = p THEN with \o f[i + Len(p)] ELSE <<s[i]>> \o f[i + 1]]
    BY <1>7 DEF l, e, n, Here
  <2> QED
    BY <2>1 DEF Vec!Replaced, l, e, n, Here
<1>9. \A i \in 1 .. n : f[i] = IF l - i + 1 < e THEN SubSeq(s, i, l)
                               ELSE IF Here(i) THEN with \o f[i + e] ELSE <<s[i]>> \o f[i + 1]
  BY <1>8
<1>10. ASSUME NEW i \in 1 .. n PROVE i \in Occurrences(s, p) <=> ~(l - i + 1 < e) /\ Here(i)
  <2>1. Occurs(s, i, p) <=> ~(l - i + 1 < e) /\ SubSeq(s, i, i + e - 1) = p
    BY <1>1, OccursIs DEF l, e, n
  <2>2. i = n => l - i + 1 < e
    BY <1>1
  <2>3. i # n => i \in 1 .. l
    BY <1>1
  <2>4. i \in Occurrences(s, p) <=> i \in 1 .. l /\ Occurs(s, i, p)
    BY DEF Occurrences, l
  <2>5. n \notin 1 .. l
    BY <1>1
  <2> QED
    BY <2>1, <2>2, <2>3, <2>4, <2>5 DEF Here
<1>11. f[n] = <<>>
  <2>1. n \in 1 .. n /\ l - n + 1 < e /\ l < n /\ n \in Int /\ l \in Int
    BY <1>1
  <2>2. SubSeq(s, n, l) = <<>>
    BY <2>1, SubSeqEmpty
  <2> QED
    BY <1>9, <2>1, <2>2
<1>12. ASSUME NEW i \in 1 .. l
       PROVE  IF i \in Occurrences(s, p) THEN f[i] = with \o f[i + e] ELSE f[i] = <<s[i]>> \o f[i + 1]
  <2>0. i \in 1 .. n /\ i + 1 \in 1 .. n
    BY <1>1
  <2>1. CASE l - i + 1 < e
    <3>1. i \notin Occurrences(s, p) /\ f[i] = SubSeq(s, i, l)
      BY <1>9, <1>10, <2>0, <2>1
    <3>2. f[i + 1] = SubSeq(s, i + 1, l)
      <4>1. l - (i + 1) + 1 < e
        BY <1>1, <2>1
      <4> QED
        BY <1>9, <2>0, <4>1
    <3>3. SubSeq(s, i, l) = <<s[i]>> \o SubSeq(s, i + 1, l)
      <4>1. i \in 1 .. Len(s) /\ l \in i .. Len(s)
        BY <1>1 DEF l
      <4> QED
        BY <4>1, SubSeqRecursiveFirst
    <3> QED
      BY <3>1, <3>2, <3>3
  <2>2. CASE ~(l - i + 1 < e)
    BY <1>9, <1>10, <2>0, <2>2
  <2> QED
    BY <2>1, <2>2
<1> DEFINE E == {i \in Int : f[i] \in V}
<1>13. ASSUME NEW i \in 1 .. n, \A k \in i + 1 .. n : k \in E PROVE i \in E
  <2>1. CASE i = n
    <3>1. <<>> \in V
      OBVIOUS
    <3> HIDE DEF V
    <3>2. f[i] \in V
      BY <1>11, <2>1, <3>1
    <3>3. i \in Int
      BY <1>1, <2>1
    <3> QED
      BY <3>2, <3>3
  <2>2. CASE i # n
    <3>1. i \in 1 .. l /\ i + 1 \in i + 1 .. n /\ i \in Int
      BY <1>1, <2>2
    <3>2. f[i + 1] \in V
      BY <1>13, <3>1
    <3>3. CASE i \in Occurrences(s, p)
      <4>1. i + e \in i + 1 .. n
        BY <1>1, <3>3, OccurrenceEnds DEF l, e
      <4>2. f[i + e] \in V
        BY <1>13, <4>1
      <4>3. with \o f[i + e] \in Seq(Char)
        BY <4>2, Concat
      <4> QED
        BY <1>12, <3>1, <3>3, <4>3
    <3>4. CASE i \notin Occurrences(s, p)
      <4>1. <<s[i]>> \in Seq(Char) /\ f[i + 1] \in Seq(Char)
        BY <1>2, <3>1, <3>2
      <4>2. <<s[i]>> \o f[i + 1] \in Seq(Char)
        BY <4>1, Concat
      <4> QED
        BY <1>12, <3>1, <3>4, <4>2
    <3> QED
      BY <3>3, <3>4
  <2> QED
    BY <2>1, <2>2
<1>14. \A i \in 1 .. n : i \in E
  <2> HIDE DEF E
  <2> QED
    BY <1>1, <1>13, DownFrom
<1>15. f \in [1 .. n -> V]
  <2>1. DOMAIN f = 1 .. n
    BY <1>8
  <2>2. f = [i \in DOMAIN f |-> f[i]]
    BY <1>8
  <2>3. \A i \in 1 .. n : f[i] \in V
    BY <1>14
  <2> QED
    BY <2>1, <2>2, <2>3
<1>16. RestOf(f, s, p, with)
  BY <1>11, <1>12, <1>15 DEF RestOf, l, e, n
<1> QED
  BY <1>8, <1>16

(* Three strings put together, either way                                  *)
LEMMA Regroup ==
  ASSUME NEW b \in Seq(Char), NEW c \in Seq(Char), NEW d \in Seq(Char)
  PROVE  (b \o c) \o d = b \o (c \o d)
<1> DEFINE T == Seq(Char)
<1>1. b \in T /\ c \in T /\ d \in T
  OBVIOUS
<1> QED
  BY <1>1, ConcatAssociative, SMTT(15)

(* Replacing keeps the characters of s from j to q - 1.                    *)
KeptUntil(R, s, j, q) == R[j] = SubSeq(s, j, q - 1) \o R[q]

(* Up to the first occurrence left, the string stays as it is.             *)
LEMMA RestUntil ==
  ASSUME NEW s \in Seq(Char), NEW p, NEW with, NEW R, RestOf(R, s, p, with),
         NEW l \in Nat, l = Len(s), NEW q \in 1 .. l + 1, NEW j \in 1 .. q,
         NoneIn(s, p, j, q)
  PROVE  KeptUntil(R, s, j, q)
<1>1. /\ R \in [1 .. l + 1 -> Seq(Char)]
      /\ \A i \in 1 .. l : i \notin Occurrences(s, p) => R[i] = <<s[i]>> \o R[i + 1]
  BY DEF RestOf
<1> DEFINE Until(i) == i >= j => R[i] = SubSeq(s, i, q - 1) \o R[q]
           S == {i \in Int : Until(i)}
<1>2. ASSUME NEW i \in 1 .. q, \A k \in i + 1 .. q : k \in S PROVE i \in S
  <2>0. Until(i) => i \in S
    <3> HIDE DEF Until
    <3> QED
      OBVIOUS
  <2> SUFFICES ASSUME i >= j PROVE R[i] = SubSeq(s, i, q - 1) \o R[q]
    BY <2>0
  <2>1. R[q] \in Seq(Char) /\ q \in Int /\ i \in Int /\ j \in Int
    BY <1>1
  <2>2. CASE i = q
    <3>1. SubSeq(s, i, q - 1) = <<>>
      <4>1. q - 1 \in Int /\ q - 1 < i
        BY <2>1, <2>2
      <4> QED
        BY <2>1, <4>1, SubSeqEmpty
    <3>2. <<>> \o R[q] = R[q]
      BY <2>1, ConcatEmptySeq
    <3> QED
      BY <2>2, <3>1, <3>2
  <2>3. CASE i # q
    <3>1. i + 1 \in i + 1 .. q /\ i + 1 >= j /\ i \in j .. q - 1 /\ i \in 1 .. l /\ i + 1 \in 1 .. l + 1
      BY <2>1, <2>3
    <3>2. R[i + 1] = SubSeq(s, i + 1, q - 1) \o R[q]
      <4>1. Until(i + 1)
        <5> HIDE DEF Until
        <5> QED
          BY <1>2, <3>1
      <4> QED
        BY <3>1, <4>1
    <3>3. R[i] = <<s[i]>> \o R[i + 1]
      BY <1>1, <3>1 DEF NoneIn
    <3>4. SubSeq(s, i, q - 1) = <<s[i]>> \o SubSeq(s, i + 1, q - 1)
      <4>1. i \in 1 .. Len(s) /\ q - 1 \in i .. Len(s)
        BY <3>1
      <4> QED
        BY <4>1, SubSeqRecursiveFirst
    <3>5. <<s[i]>> \in Seq(Char) /\ SubSeq(s, i + 1, q - 1) \in Seq(Char)
      <4>1. \A k \in i + 1 .. q - 1 : k \in 1 .. l
        BY <3>1
      <4>2. \A k \in i + 1 .. q - 1 : s[k] \in Char
        BY <4>1
      <4>3. i + 1 \in Int /\ q - 1 \in Int
        BY <2>1
      <4>4. SubSeq(s, i + 1, q - 1) \in Seq(Char)
        BY <4>2, <4>3, SubSeqProperties
      <4> QED
        BY <3>1, <4>4
    <3> DEFINE b == SubSeq(s, i + 1, q - 1)
               c == <<s[i]>>
               d == R[q]
    <3>6. c \in Seq(Char) /\ b \in Seq(Char) /\ d \in Seq(Char)
      BY <2>1, <3>5
    <3>7. R[i] = c \o (b \o d) /\ SubSeq(s, i, q - 1) = c \o b
      BY <3>2, <3>3, <3>4
    <3> HIDE DEF b, c, d
    <3>8. (c \o b) \o d = c \o (b \o d)
      BY <3>6, Regroup, ZenonT(30)
    <3> QED
      BY <3>7, <3>8 DEF d
  <2> QED
    BY <2>2, <2>3
<1>3. j \in S
  <2> HIDE DEF S
  <2>1. q \in Nat
    OBVIOUS
  <2>2. \A i \in 1 .. q : i \in S
    BY <1>2, <2>1, DownFrom
  <2> QED
    BY <2>2
<1>4. Until(j)
  <2> HIDE DEF Until
  <2> QED
    BY <1>3
<1>5. j >= j
  OBVIOUS
<1> QED
  BY <1>4, <1>5 DEF KeptUntil

(* The rest of an entry from each place, with its matches replaced         *)
Substitutes(f, a, str, with) ==
  \A p \in 1 .. Len(a) + 1 :
    f[p] = IF Match(a, p, str) = NULL THEN EntryAt(a, p)
           ELSE SubSeq(a, p, Match(a, p, str) - 1) \o with \o f[Match(a, p, str) + Len(str)]

(* argz_replace computes it from where an entry starts.                    *)
LEMMA SubstitutedFrom ==
  ASSUME NEW a \in Seq(Int), NEW arg, NEW str \in Seq(Char), str # <<>>, NEW with \in Seq(Int)
  PROVE  \E f : Substituted(a, arg, str, with) = f[arg] /\ Substitutes(f, a, str, with)
<1> DEFINE n == Len(a) + 1
           e == Len(str)
           M == [p \in 1 .. n |-> Match(a, p, str)]
           V == Seq(Int)
           C == {p \in 1 .. n : M[p] = NULL}
           B == [p \in 1 .. n |-> EntryAt(a, p)]
           J == [p \in 1 .. n |-> M[p] + e]
           G == [p \in 1 .. n |-> [x \in V |-> SubSeq(a, p, M[p] - 1) \o with \o x]]
           Loop(f) == f = [p \in 1 .. n |-> IF M[p] = NULL THEN EntryAt(a, p)
                                            ELSE SubSeq(a, p, M[p] - 1) \o with \o f[M[p] + e]]
<1>1. a \in Memories /\ Len(a) \in Nat /\ n \in Nat /\ n = Len(a) + 1 /\ \A i \in 1 .. Len(a) : a[i] \in Int
  BY DEF Memories
<1>e. e \in Nat \ {0}
  <2>1. e # 0 /\ e \in Nat
    OBVIOUS
  <2> QED
    BY <2>1
<1>w. with \in Seq(Int)
  OBVIOUS
<1>m. \A p \in 1 .. n : M[p] = Match(a, p, str)
  OBVIOUS
<1> HIDE DEF e, M
<1>2. ASSUME NEW p \in 1 .. n, M[p] # NULL
      PROVE  /\ M[p] \in Int /\ M[p] >= p /\ M[p] + e \in p + 1 .. n /\ p \in Int /\ p >= 1
             /\ \A q \in p .. M[p] + e - 1 : q \in 1 .. Len(a) /\ a[q] # NUL
  <2>1. /\ Match(a, p, str) \in Int /\ Match(a, p, str) >= p
        /\ \A q \in p .. Match(a, p, str) + Len(str) - 1 : q \in 1 .. Len(a) /\ a[q] # NUL
    BY <1>1, <1>2, <1>m, MatchIs
  <2> DEFINE y == M[p]
  <2>2. y \in Int /\ y >= p /\ \A q \in p .. y + e - 1 : q \in 1 .. Len(a) /\ a[q] # NUL
    BY <1>m, <2>1 DEF e
  <2> HIDE DEF y
  <2>3. y + e - 1 \in p .. y + e - 1
    BY <1>e, <2>2
  <2>4. y + e - 1 \in 1 .. Len(a)
    BY <2>2, <2>3
  <2>5. y + e \in p + 1 .. n
    BY <1>1, <1>e, <2>2, <2>4
  <2> QED
    BY <1>1, <2>2, <2>5 DEF y
<1>3. ASSUME NEW p \in 1 .. n PROVE EntryAt(a, p) \in Seq(Int)
  <2>1. p \in Int /\ Len(a) + 1 - p \in Nat
    BY <1>1
  <2> DEFINE k == strlen(a, p)
  <2>2. k \in 0 .. (Len(a) + 1 - p)
    BY <1>1, <2>1, StrnlenIs DEF strlen
  <2> HIDE DEF k
  <2>3. p + k - 1 \in Int /\ \A i \in p .. p + k - 1 : i \in 1 .. Len(a)
    BY <1>1, <2>1, <2>2
  <2>4. \A i \in p .. p + k - 1 : a[i] \in Int
    BY <1>1, <2>3
  <2>5. SubSeq(a, p, p + k - 1) \in Seq(Int)
    BY <2>1, <2>3, <2>4, SubSeqProperties
  <2> QED
    BY <2>5 DEF EntryAt, k
<1>4. ASSUME NEW p \in 1 .. n, M[p] # NULL, NEW T, NEW x \in Seq(T), with \in Seq(T),
             \A q \in p .. M[p] - 1 : a[q] \in T
      PROVE  SubSeq(a, p, M[p] - 1) \o with \o x \in Seq(T)
  <2>1. M[p] - 1 \in Int /\ p \in Int
    BY <1>2, <1>4
  <2> DEFINE s == SubSeq(a, p, M[p] - 1)
  <2>2. s \in Seq(T)
    BY <1>4, <2>1, SubSeqProperties
  <2> HIDE DEF s
  <2>3. s \o with \in Seq(T)
    BY <1>4, <2>2, Concat
  <2>4. (s \o with) \o x \in Seq(T)
    BY <1>4, <2>3, Concat
  <2> QED
    BY <2>4 DEF s
<1>5. ASSUME NEW p \in 1 .. n, M[p] # NULL PROVE \A q \in p .. M[p] - 1 : q \in p .. M[p] + e - 1
  <2>1. M[p] \in Int /\ p \in Int
    BY <1>2, <1>5
  <2> DEFINE y == M[p]
  <2>2. y \in Int
    BY <2>1
  <2> HIDE DEF y
  <2>3. \A q \in p .. y - 1 : q \in p .. y + e - 1
    BY <1>e, <2>1, <2>2
  <2> QED
    BY <2>3 DEF y
<1>6. PICK g \in [1 .. n -> V] : JumpOf(g, n, C, B, J, G)
  <2>1. \A p \in 1 .. n : p \in C => B[p] \in V
    BY <1>3
  <2>2. \A p \in 1 .. n : p \notin C => J[p] \in p + 1 .. n /\ \A x \in V : G[p][x] \in V
    <3> SUFFICES ASSUME NEW p \in 1 .. n, p \notin C
                 PROVE  J[p] \in p + 1 .. n /\ \A x \in V : G[p][x] \in V
      OBVIOUS
    <3>1. M[p] # NULL
      OBVIOUS
    <3>2. M[p] + e \in p + 1 .. n
      BY <1>2, <3>1
    <3>3. \A q \in p .. M[p] - 1 : a[q] \in Int
      BY <1>1, <1>2, <1>5, <3>1
    <3>4. \A x \in V : SubSeq(a, p, M[p] - 1) \o with \o x \in V
      BY <1>4, <1>w, <3>1, <3>3
    <3> QED
      BY <3>2, <3>4
  <2> HIDE DEF V, C, B, J, G
  <2>3. Jumps(n, V, C, B, J, G)
    BY <2>1, <2>2 DEF Jumps
  <2> QED
    BY <1>1, <2>3, JumpExists
<1>7. Loop(g)
  <2>1. ASSUME NEW p \in 1 .. n
        PROVE  g[p] = IF M[p] = NULL THEN EntryAt(a, p) ELSE SubSeq(a, p, M[p] - 1) \o with \o g[M[p] + e]
    <3>1. g[p] = IF p \in C THEN B[p] ELSE G[p][g[J[p]]]
      BY <1>6 DEF JumpOf
    <3>2. CASE p \in C
      <4>1. B[p] = EntryAt(a, p) /\ M[p] = NULL
        BY <3>2
      <4> QED
        BY <3>1, <3>2, <4>1
    <3>3. CASE p \notin C
      <4>1. M[p] # NULL /\ J[p] = M[p] + e
        BY <3>3
      <4>2. J[p] \in 1 .. n
        BY <1>1, <1>2, <4>1
      <4>3. g[J[p]] \in V
        BY <4>2
      <4>4. G[p][g[J[p]]] = SubSeq(a, p, M[p] - 1) \o with \o g[J[p]]
        BY <4>3
      <4> HIDE DEF G, J, C, B, V
      <4> QED
        BY <3>1, <3>3, <4>1, <4>4
    <3> QED
      BY <3>2, <3>3
  <2>2. g = [p \in 1 .. n |-> g[p]]
    BY <1>6
  <2> HIDE DEF V, C, B, J, G
  <2> QED
    BY <2>1, <2>2
<1> DEFINE Rest(f) == f = [p \in 1 .. n |-> IF Match(a, p, str) = NULL THEN EntryAt(a, p)
                                            ELSE SubSeq(a, p, Match(a, p, str) - 1) \o with \o f[Match(a, p, str) + e]]
<1>8. ASSUME NEW f PROVE Loop(f) <=> Rest(f)
  BY <1>m
<1>9. PICK f : Rest(f) /\ Substituted(a, arg, str, with) = f[arg]
  <2>1. \E f : f = [p \in 1 .. Len(a) + 1 |->
                      IF Match(a, p, str) = NULL THEN EntryAt(a, p)
                      ELSE SubSeq(a, p, Match(a, p, str) - 1) \o with \o f[Match(a, p, str) + Len(str)]]
    <3>1. Rest(g)
      BY <1>7, <1>8
    <3> QED
      BY <3>1 DEF e
  <2> QED
    BY <2>1 DEF Substituted, e
<1>10. \A p \in 1 .. Len(a) + 1 :
         f[p] = IF Match(a, p, str) = NULL THEN EntryAt(a, p)
                ELSE SubSeq(a, p, Match(a, p, str) - 1) \o with \o f[Match(a, p, str) + Len(str)]
  BY <1>9 DEF e
<1>11. Substitutes(f, a, str, with)
  BY <1>10 DEF Substitutes
<1> QED
  BY <1>9, <1>11

(* A stretch of a string: its length and its characters.                    *)
LEMMA StretchOfString ==
  ASSUME NEW s, NEW j \in Int, NEW k \in Int, \A i \in j .. k : s[i] \in Char
  PROVE  /\ SubSeq(s, j, k) \in Seq(Char) /\ Len(SubSeq(s, j, k)) = IF j <= k THEN k - j + 1 ELSE 0
         /\ \A i \in 1 .. k - j + 1 : SubSeq(s, j, k)[i] = s[j + i - 1]
  BY SubSeqProperties

(* A stretch of the area: its length and its bytes.                         *)
LEMMA StretchOfArea ==
  ASSUME NEW s, NEW j \in Int, NEW k \in Int, \A i \in j .. k : s[i] \in Int
  PROVE  /\ SubSeq(s, j, k) \in Seq(Int) /\ Len(SubSeq(s, j, k)) = IF j <= k THEN k - j + 1 ELSE 0
         /\ \A i \in 1 .. k - j + 1 : SubSeq(s, j, k)[i] = s[j + i - 1]
  BY SubSeqProperties

(* The rest of an entry                                                    *)
EndsAs(a, x, s, j, l) ==
  /\ \A k \in j - 1 .. l : SubSeq(a, x + j, x + k) = SubSeq(s, j, k) /\ SubSeq(s, j, k) \in Seq(Char)
  /\ EntryAt(a, x + j) = SubSeq(s, j, l)

(* It is the rest of the string.                                           *)
LEMMA RestOfEntry ==
  ASSUME NEW a \in Seq(Int), NEW x \in Nat, NEW y \in Nat, NEW s, StringAt(a, x, y, s),
         NEW l \in Nat, l = Len(s), NEW j \in 1 .. l + 1
  PROVE  EndsAs(a, x, s, j, l)
<1>1. s \in Seq(Char) /\ y = x + l + 1 /\ y <= Len(a) /\ a[y] = NUL
  BY DEF StringAt
<1>2. \A k \in 1 .. l : a[x + k] = s[k]
  BY StringAtBytes
<1>3. \A k \in 1 .. l : s[k] \in Char
  BY <1>1
<1>4. ASSUME NEW k \in j - 1 .. l PROVE SubSeq(a, x + j, x + k) = SubSeq(s, j, k) /\ SubSeq(s, j, k) \in Seq(Char)
  <2> DEFINE b == SubSeq(a, x + j, x + k)
             c == SubSeq(s, j, k)
             d == k - j + 1
  <2>1. d \in Nat /\ (x + k) - (x + j) + 1 = d /\ (j <= k => k - j + 1 = d) /\ (~(j <= k) => d = 0)
    OBVIOUS
  <2>2. ASSUME NEW i \in 1 .. d PROVE a[x + j + i - 1] = s[j + i - 1] /\ s[j + i - 1] \in Char
    <3>1. j + i - 1 \in 1 .. l /\ x + (j + i - 1) = x + j + i - 1
      OBVIOUS
    <3> QED
      BY <1>2, <1>3, <3>1
  <2>3. c \in Seq(Char) /\ Len(c) = d /\ \A i \in 1 .. d : c[i] = s[j + i - 1]
    <3>1. j \in Int /\ k \in Int
      OBVIOUS
    <3>2. ASSUME NEW i \in j .. k PROVE s[i] \in Char
      <4>1. i \in 1 .. l
        OBVIOUS
      <4> QED
        BY <1>3, <4>1
    <3>a. \A i \in j .. k : s[i] \in Char
      BY <3>2
    <3>3. /\ c \in Seq(Char) /\ Len(c) = IF j <= k THEN k - j + 1 ELSE 0
          /\ \A i \in 1 .. k - j + 1 : c[i] = s[j + i - 1]
      BY <3>1, <3>a, StretchOfString
    <3> HIDE DEF c
    <3> QED
      BY <2>1, <3>3
  <2>4. b \in Seq(Int) /\ Len(b) = d /\ \A i \in 1 .. d : b[i] = a[x + j + i - 1]
    <3>1. x + j \in Int /\ x + k \in Int /\ (x + j <= x + k <=> j <= k)
      OBVIOUS
    <3>2. ASSUME NEW i \in x + j .. x + k PROVE a[i] \in Int
      <4>1. i \in 1 .. Len(a) /\ Len(a) \in Nat
        BY <1>1, SMTT(15)
      <4> QED
        BY <4>1
    <3> DEFINE g == x + j
               h == x + k
               c1 == SubSeq(a, g, h)
    <3>3. g \in Int /\ h \in Int /\ (\A i \in g .. h : a[i] \in Int) /\ h - g + 1 = d /\ (g <= h <=> j <= k)
      BY <2>1, <3>1, <3>2
    <3> HIDE DEF g, h, d
    <3>4. /\ c1 \in Seq(Int) /\ Len(c1) = IF g <= h THEN h - g + 1 ELSE 0
          /\ \A i \in 1 .. h - g + 1 : c1[i] = a[g + i - 1]
      BY <3>3, StretchOfArea
    <3> HIDE DEF c1
    <3>5. c1 \in Seq(Int) /\ Len(c1) = d /\ \A i \in 1 .. d : c1[i] = a[g + i - 1]
      BY <2>1, <3>3, <3>4
    <3> QED
      BY <3>5 DEF c1, g, h
  <2> HIDE DEF b, c, d
  <2>5. c \in Seq(Int)
    BY <2>3 DEF Char
  <2>6. \A i \in 1 .. d : b[i] = c[i]
    BY <2>2, <2>3, <2>4
  <2>7. b = c
    BY <2>3, <2>4, <2>5, <2>6, SeqEqual
  <2> QED
    BY <2>3, <2>7 DEF b, c
<1>5. strlen(a, x + j) = l + 1 - j
  <2>1. a \in Memories /\ DOMAIN a = 1 .. Len(a) /\ x + j \in Int /\ l + 1 - j \in Nat /\ Len(a) \in Nat
    BY DEF Memories
  <2>2. At(a, x + j + (l + 1 - j)) = NUL
    <3>1. x + j + (l + 1 - j) = y /\ y \in 1 .. Len(a)
      BY <1>1, <2>1
    <3> QED
      BY <1>1, <2>1, <3>1 DEF At
  <2>3. ASSUME NEW k \in 0 .. (l + 1 - j) - 1 PROVE At(a, x + j + k) \notin {NUL, Outside}
    <3>1. j + k \in 1 .. l /\ x + j + k = x + (j + k) /\ x + (j + k) \in 1 .. Len(a)
      <4>1. j + k \in 1 .. l /\ x + j + k = x + (j + k)
        OBVIOUS
      <4>2. \A i \in 1 .. l : x + i \in 1 .. Len(a)
        BY <1>1, <2>1
      <4> QED
        BY <4>1, <4>2
    <3>2. a[x + j + k] \in Char /\ x + j + k \in DOMAIN a
      BY <1>2, <1>3, <2>1, <3>1
    <3> QED
      BY <3>2 DEF At, Char
  <2>4. StringOf(a, x + j, l + 1 - j)
    BY <2>2, <2>3 DEF StringOf
  <2> QED
    BY <2>1, <2>4, StrlenIs
<1>6. EntryAt(a, x + j) = SubSeq(s, j, l)
  <2>1. x + j + (l + 1 - j) - 1 = x + l /\ l \in j - 1 .. l
    OBVIOUS
  <2>2. EntryAt(a, x + j) = SubSeq(a, x + j, x + l)
    BY <1>5, <2>1 DEF EntryAt
  <2> QED
    BY <1>4, <2>1, <2>2
<1> QED
  BY <1>4, <1>6 DEF EndsAs

(* argz_replace makes of an entry its string with the matches replaced.    *)
LEMMA SubstitutedHolds ==
  ASSUME NEW a \in Seq(Int), NEW x \in Nat, NEW y \in Nat, NEW s, StringAt(a, x, y, s),
         NEW str \in Seq(Char), str # <<>>, NEW with \in Seq(Char)
  PROVE  /\ Substituted(a, x + 1, str, with) = Vec!Replaced(s, str, with)
         /\ Vec!Replaced(s, str, with) \in Seq(Char)
         /\ Match(a, x + 1, str) = NULL => Vec!Replaced(s, str, with) = s
<1>1. s \in Seq(Char) /\ y = x + Len(s) + 1 /\ y <= Len(a)
  BY DEF StringAt
<1>2. PICK l \in Nat : l = Len(s)
  BY <1>1
<1>3. PICK e \in Nat : e = Len(str)
  OBVIOUS
<1>4. PICK R : RestOf(R, s, str, with) /\ Vec!Replaced(s, str, with) = R[1]
  BY <1>1, ReplacedIs
<1>5. /\ R \in [1 .. l + 1 -> Seq(Char)] /\ R[l + 1] = <<>>
      /\ \A i \in Occurrences(s, str) : R[i] = with \o R[i + e]
  <2>1. \A i \in 1 .. l : IF i \in Occurrences(s, str) THEN R[i] = with \o R[i + e] ELSE R[i] = <<s[i]>> \o R[i + 1]
    BY <1>2, <1>3, <1>4 DEF RestOf
  <2>2. \A i \in Occurrences(s, str) : i \in 1 .. l
    BY <1>2 DEF Occurrences
  <2>3. R \in [1 .. l + 1 -> Seq(Char)] /\ R[l + 1] = <<>>
    BY <1>2, <1>4 DEF RestOf
  <2> QED
    BY <2>1, <2>2, <2>3
<1>6. PICK f : Substituted(a, x + 1, str, with) = f[x + 1] /\ Substitutes(f, a, str, with)
  <2>1. with \in Seq(Int)
    BY DEF Char
  <2> QED
    BY <2>1, SubstitutedFrom
<1>6a. \A p \in 1 .. Len(a) + 1 :
         f[p] = IF Match(a, p, str) = NULL THEN EntryAt(a, p)
                ELSE SubSeq(a, p, Match(a, p, str) - 1) \o with \o f[Match(a, p, str) + e]
  BY <1>3, <1>6 DEF Substitutes
<1>6b. ASSUME NEW j \in 1 .. l + 1 PROVE EndsAs(a, x, s, j, l)
  BY <1>2, RestOfEntry
<1>7. ASSUME NEW j \in 1 .. l + 1
      PROVE  \E q \in j .. l + 1 : KeptUntil(R, s, j, q) /\ FoundAt(a, x, s, str, j, q)
  <2>1. PICK q \in j .. l + 1 : FoundAt(a, x, s, str, j, q)
    BY <1>2, MatchFirst
  <2>2. q \in 1 .. l + 1 /\ j \in 1 .. q
    OBVIOUS
  <2>3. NoneIn(s, str, j, q)
    BY <2>1 DEF FoundAt
  <2>4. KeptUntil(R, s, j, q)
    <3>1. s \in Seq(Char) /\ l = Len(s) /\ RestOf(R, s, str, with)
      BY <1>1, <1>2, <1>4
    <3> QED
      BY <2>2, <2>3, <3>1, RestUntil
  <2> QED
    BY <2>1, <2>4
<1>8. ASSUME NEW j \in 1 .. l + 1 PROVE SubSeq(s, j, l) \in Seq(Char) /\ SubSeq(s, j, l) \o R[l + 1] = SubSeq(s, j, l)
  <2>1. l \in j - 1 .. l
    OBVIOUS
  <2>2. SubSeq(s, j, l) \in Seq(Char)
    BY <1>6b, <2>1 DEF EndsAs
  <2> QED
    BY <1>5, <2>2, ConcatEmptySeq
<1> DEFINE Same(j) == f[x + j] = R[j]
           S == {j \in Int : Same(j)}
<1>9. ASSUME NEW j \in 1 .. l + 1, \A k \in j + 1 .. l + 1 : k \in S PROVE j \in S
  <2>0. Same(j) => j \in S
    <3> HIDE DEF Same
    <3> QED
      OBVIOUS
  <2>a. PICK q \in j .. l + 1 : KeptUntil(R, s, j, q) /\ FoundAt(a, x, s, str, j, q)
    BY <1>7
  <2>1. /\ R[j] = SubSeq(s, j, q - 1) \o R[q]
        /\ \/ q = l + 1 /\ Match(a, x + j, str) = NULL
           \/ q \in Occurrences(s, str) /\ Match(a, x + j, str) = x + q
    BY <1>2, <2>a DEF FoundAt, KeptUntil
  <2>2. x + j \in 1 .. Len(a) + 1 /\ q - 1 \in j - 1 .. l /\ q \in 1 .. l + 1 /\ x \in Int /\ q \in Int
    BY <1>1, <1>2
  <2>3. f[x + j] = IF Match(a, x + j, str) = NULL THEN EntryAt(a, x + j)
                   ELSE SubSeq(a, x + j, Match(a, x + j, str) - 1) \o with \o f[Match(a, x + j, str) + e]
    BY <1>6a, <2>2
  <2>4. CASE q = l + 1 /\ Match(a, x + j, str) = NULL
    <3>1. EntryAt(a, x + j) = SubSeq(s, j, l)
      BY <1>6b DEF EndsAs
    <3>2. q - 1 = l
      BY <2>4
    <3>3. Same(j)
      BY <1>8, <2>1, <2>3, <2>4, <3>1, <3>2
    <3> QED
      BY <2>0, <3>3
  <2>5. CASE q \in Occurrences(s, str) /\ Match(a, x + j, str) = x + q
    <3>1. q + e \in q + 1 .. l + 1
      BY <1>1, <1>2, <1>3, <2>5, OccurrenceEnds
    <3>2. q + e \in j + 1 .. l + 1 /\ q + e \in 1 .. l + 1 /\ x + q # NULL /\ (x + q) - 1 = x + (q - 1) /\ (x + q) + e = x + (q + e)
      BY <2>2, <3>1 DEF NULL
    <3>3. f[x + (q + e)] = R[q + e]
      <4>1. q + e \in S
        BY <1>9, <3>2
      <4>2. Same(q + e)
        <5> HIDE DEF Same
        <5> QED
          BY <4>1
      <4> QED
        BY <4>2
    <3>4. SubSeq(a, x + j, x + (q - 1)) = SubSeq(s, j, q - 1) /\ SubSeq(s, j, q - 1) \in Seq(Char)
      BY <1>6b, <2>2 DEF EndsAs
    <3> DEFINE b == SubSeq(s, j, q - 1)
               d == R[q + e]
    <3>5. b \in Seq(Char) /\ with \in Seq(Char) /\ d \in Seq(Char)
      BY <1>5, <3>2, <3>4
    <3>6. R[j] = b \o (with \o d)
      BY <1>5, <2>1, <2>5
    <3>7. f[x + j] = b \o with \o d
      BY <2>3, <2>5, <3>2, <3>3, <3>4
    <3> HIDE DEF b, d
    <3>8. (b \o with) \o d = b \o (with \o d)
      BY <3>5, Regroup, ZenonT(30)
    <3>9. Same(j)
      BY <3>6, <3>7, <3>8
    <3> QED
      BY <2>0, <3>9
  <2> QED
    BY <2>1, <2>4, <2>5
<1>10. f[x + 1] = R[1]
  <2>1. 1 \in 1 .. l + 1 /\ l + 1 \in Nat
    OBVIOUS
  <2> HIDE DEF S
  <2>2. \A j \in 1 .. l + 1 : j \in S
    BY <1>9, <2>1, DownFrom
  <2>3. 1 \in S
    BY <2>1, <2>2
  <2>4. Same(1)
    <3> HIDE DEF Same
    <3> QED
      BY <2>3 DEF S
  <2> QED
    BY <2>4
<1>11. ASSUME Match(a, x + 1, str) = NULL PROVE R[1] = s
  <2>1. 1 \in 1 .. l + 1
    OBVIOUS
  <2>a. PICK q \in 1 .. l + 1 : KeptUntil(R, s, 1, q) /\ FoundAt(a, x, s, str, 1, q)
    BY <1>7, <2>1
  <2>2. /\ R[1] = SubSeq(s, 1, q - 1) \o R[q]
        /\ \/ q = l + 1 /\ Match(a, x + 1, str) = NULL
           \/ q \in Occurrences(s, str) /\ Match(a, x + 1, str) = x + q
    BY <1>2, <2>a DEF FoundAt, KeptUntil
  <2>3. q = l + 1 /\ q - 1 = l
    <3>1. x + q # NULL
      BY DEF NULL
    <3> QED
      BY <1>11, <2>2, <3>1
  <2>4. SubSeq(s, 1, l) = s
    BY <1>1, <1>2, SubSeqFull
  <2> QED
    BY <1>8, <2>1, <2>2, <2>3, <2>4
<1>12. R[1] \in Seq(Char)
  <2>1. 1 \in 1 .. l + 1
    OBVIOUS
  <2> QED
    BY <1>5, <2>1
<1> QED
  BY <1>4, <1>6, <1>10, <1>11, <1>12

(* A vector of strings, whatever they are                                  *)
Owned == {d \in [argz : Seq(Int), len : Nat] : \E ss : Represents(d, ss)}

(* The vector a call leaves is one of them when it represents strings.     *)
LEMMA OwnedIs ==
  ASSUME NEW block, NEW len, NEW ss, Represents(Vector(block, len), ss)
  PROVE  Vector(block, len) \in Owned
<1> DEFINE v == Vector(block, len)
<1>1. v.argz = block /\ v.len = len
  BY DEF Vector
<1>2. v.argz \in Seq(Int) /\ v.len \in Nat
  <2> HIDE DEF v
  <2> QED
    BY RepresentsIs DEF v
<1>3. v \in [argz : Seq(Int), len : Nat]
  BY <1>1, <1>2 DEF Vector
<1> QED
  BY <1>3 DEF Owned

(* What a turn adds to the copy                                            *)
LEMMA AddOwned ==
  ASSUME NEW d, NEW ss, Represents(d, ss), NEW s \in Seq(Char)
  PROVE  /\ argz_add(d, s) \in Owned /\ Represents(argz_add(d, s), ss \o <<s>>) /\ argz_add(d, s).argz # <<>>
<1>1. Represents(argz_add(d, s), ss \o <<s>>)
  BY AddHolds
<1>2. \E block, len : argz_add(d, s) = Vector(block, len)
  BY DEF argz_add, argz_append
<1>3. argz_add(d, s) \in Owned
  BY <1>1, <1>2, OwnedIs
<1>4. argz_add(d, s).argz # <<>>
  <2> DEFINE b == argz_add(d, s).argz
             l == argz_add(d, s).len
             rr == ss \o <<s>>
  <2>1. ss \in Seq(Seq(Char)) /\ <<s>> \in Seq(Seq(Char)) /\ Len(<<s>>) = 1
    <3>1. ss \in Seq(Seq(Char))
      BY RepresentsIs
    <3> QED
      BY <3>1
  <2>2. b \in Seq(Int) /\ l \in Nat /\ l <= Len(b) /\ (rr = <<>> <=> l = 0)
    <3> HIDE DEF rr
    <3>1. Represents(argz_add(d, s), rr)
      BY <1>1 DEF rr
    <3> QED
      BY <3>1, RepresentsIs
  <2>3. Len(rr) = Len(ss) + 1 /\ Len(ss) \in Nat
    <3>1. ss \in Seq(Seq(Char)) /\ <<s>> \in Seq(Seq(Char))
      BY <2>1
    <3>2. Len(rr) = Len(ss) + Len(<<s>>) /\ Len(ss) \in Nat
      BY <3>1, Concat
    <3> HIDE DEF rr
    <3> QED
      BY <2>1, <3>2
  <2> HIDE DEF b, l, rr
  <2>4. rr # <<>>
    BY <2>3
  <2>5. b # <<>>
    BY <2>2, <2>4
  <2> QED
    BY <2>5 DEF b
<1> QED
  BY <1>1, <1>3, <1>4

(* The entries before one, appended to a vector                            *)
LEMMA PrefixHolds ==
  ASSUME NEW a \in Seq(Int), NEW ss, NEW o, Laid(a, ss, o), NEW n \in Nat, n = Len(ss), NEW k \in 1 .. n, o[0] = 0,
         NEW d, NEW tt, Represents(d, tt)
  PROVE  Represents(argz_append(d, SubSeq(a, 1, o[k - 1])), tt \o SubSeq(ss, 1, k - 1))
<1> DEFINE x == o[k - 1]
           b == SubSeq(a, 1, x)
           pp == SubSeq(ss, 1, k - 1)
<1>1. x \in Nat /\ o[n] \in Nat /\ x <= o[n] /\ Len(a) \in Nat /\ o[n] <= Len(a)
  <2>1. o[k - 1] \in Nat /\ o[k] \in Nat /\ o[k - 1] < o[k] /\ o[k] <= o[n] /\ o[n] \in Nat
    BY LaidStep
  <2>2. o[n] <= Len(a)
    BY DEF Laid
  <2> QED
    BY <2>1, <2>2
<1>2. Holds(a, 0, x, pp)
  <2>1. k - 1 \in 0 .. n
    OBVIOUS
  <2> QED
    BY <2>1, LaidCut
<1> HIDE DEF x, pp
<1>3. b \in Seq(Int) /\ Len(b) = x /\ \A p \in 1 .. x : b[p] = a[p]
  <2>1. Len(b) = x /\ \A p \in 1 .. x : b[p] = a[p]
    BY <1>1
  <2>2. b \in Seq(Int)
    BY <1>1
  <2> QED
    BY <2>1, <2>2
<1> HIDE DEF b
<1>4. Holds(b, 0, Len(b), pp)
  <2>1. \A p \in 0 + 1 .. x : b[p] = a[p]
    BY <1>3
  <2>2. x <= Len(b)
    BY <1>1, <1>3
  <2>3. Holds(b, 0, x, pp)
    BY <1>2, <1>3, <2>1, <2>2, HoldsSame
  <2> QED
    BY <1>3, <2>3
<1>5. Represents(argz_append(d, b), tt \o pp)
  BY <1>3, <1>4, AppendHolds
<1> QED
  BY <1>5 DEF b, x, pp

(* What the copy holds after k entries: nothing while none has matched,    *)
(* or those entries with the matches replaced.                             *)
Copying(d, a, o, tt, str, k) ==
  \/ d = Vector(<<>>, 0) /\ \A i \in 1 .. k : Match(a, o[i - 1] + 1, str) = NULL
  \/ d.argz # <<>> /\ Represents(d, SubSeq(tt, 1, k))

(* The entries with the matches replaced                                   *)
ReplacedAll(ss, tt, str, with) ==
  /\ tt \in Seq(Seq(Char)) /\ Len(tt) = Len(ss)
  /\ \A i \in 1 .. Len(ss) : tt[i] = Vec!Replaced(ss[i], str, with)

(* An entry and what the loop makes of it                                  *)
EntryBecomes(a, o, ss, str, with, k) ==
  /\ Substituted(a, o[k - 1] + 1, str, with) = Vec!Replaced(ss[k], str, with)
  /\ Vec!Replaced(ss[k], str, with) \in Seq(Char)
  /\ EntryAt(a, o[k - 1] + 1) = ss[k] /\ ss[k] \in Seq(Char)
  /\ Match(a, o[k - 1] + 1, str) = NULL => Vec!Replaced(ss[k], str, with) = ss[k]

(* The loop makes of an entry that entry with its matches replaced.        *)
LEMMA EntryReplaced ==
  ASSUME NEW a, a \in Seq(Int), NEW ss, NEW o, Laid(a, ss, o), NEW n, n \in Nat, n = Len(ss), NEW k, k \in 1 .. n,
         NEW str, str \in Seq(Char), str # <<>>, NEW with, with \in Seq(Char)
  PROVE  EntryBecomes(a, o, ss, str, with, k)
<1> DEFINE x == o[k - 1]
           y == o[k]
           s == ss[k]
<1>1. x \in Nat /\ y \in Nat /\ StringAt(a, x, y, s)
  BY LaidStep
<1> HIDE DEF x, y, s
<1>2. /\ Substituted(a, x + 1, str, with) = Vec!Replaced(s, str, with)
      /\ Vec!Replaced(s, str, with) \in Seq(Char)
      /\ Match(a, x + 1, str) = NULL => Vec!Replaced(s, str, with) = s
  BY <1>1, SubstitutedHolds
<1>3. EntryAt(a, x + 1) = s
  BY <1>1, EntryOf
<1>4. s \in Seq(Char)
  BY <1>1 DEF StringAt
<1> QED
  BY <1>2, <1>3, <1>4 DEF EntryBecomes, x, s

(* A turn of the loop stays in vectors.                                    *)
LEMMA ReplaceEntryOwned ==
  ASSUME NEW v, NEW ss, NEW o, v.argz \in Seq(Int), Laid(v.argz, ss, o), NEW n \in Nat, n = Len(ss), o[0] = 0,
         NEW k \in 1 .. n, NEW str \in Seq(Char), str # <<>>, NEW with \in Seq(Char), NEW d \in Owned
  PROVE  ReplaceEntry(v, str, with, d, o[k - 1] + 1) \in Owned
<1> DEFINE a == v.argz
           x == o[k - 1]
           e == IF d.argz = <<>> /\ x + 1 > 1 THEN argz_append(d, SubSeq(a, 1, x)) ELSE d
<1>1. PICK tt : Represents(d, tt)
  BY DEF Owned
<1>2. /\ Substituted(a, x + 1, str, with) \in Seq(Char)
      /\ EntryAt(a, x + 1) \in Seq(Char)
  <2>1. EntryBecomes(v.argz, o, ss, str, with, k)
    BY EntryReplaced
  <2> QED
    BY <2>1 DEF EntryBecomes
<1>3. x \in Nat
  BY LaidStep
<1>4. ReplaceEntry(v, str, with, d, x + 1) =
        IF Match(a, x + 1, str) # NULL THEN argz_add(e, Substituted(a, x + 1, str, with))
        ELSE IF d.argz # <<>> THEN argz_add(d, EntryAt(a, x + 1)) ELSE d
  <2>1. (x + 1) - 1 = x
    BY <1>3
  <2> QED
    BY <2>1 DEF ReplaceEntry
<1>5. \E uu : Represents(e, uu)
  <2>1. Represents(argz_append(d, SubSeq(a, 1, x)), tt \o SubSeq(ss, 1, k - 1))
    BY <1>1, PrefixHolds
  <2> QED
    BY <1>1, <2>1
<1> HIDE DEF e, a, x
<1>6. argz_add(e, Substituted(a, x + 1, str, with)) \in Owned
  BY <1>2, <1>5, AddOwned
<1>7. argz_add(d, EntryAt(a, x + 1)) \in Owned
  BY <1>1, <1>2, AddOwned
<1> QED
  BY <1>4, <1>6, <1>7 DEF x

(* A turn of the loop adds an entry to the copy.                           *)
LEMMA ReplaceTurn ==
  ASSUME NEW v, NEW ss, NEW o, v.argz \in Seq(Int), Laid(v.argz, ss, o), NEW n \in Nat, n = Len(ss), o[0] = 0,
         NEW str \in Seq(Char), str # <<>>, NEW with \in Seq(Char), NEW tt, ReplacedAll(ss, tt, str, with),
         NEW k \in 1 .. n, NEW d, Copying(d, v.argz, o, tt, str, k - 1)
  PROVE  Copying(ReplaceEntry(v, str, with, d, o[k - 1] + 1), v.argz, o, tt, str, k)
<1> DEFINE a == v.argz
           x == o[k - 1]
           e == IF d.argz = <<>> /\ x + 1 > 1 THEN argz_append(d, SubSeq(a, 1, x)) ELSE d
           r == ReplaceEntry(v, str, with, d, x + 1)
<1>1. /\ Substituted(a, x + 1, str, with) = tt[k] /\ tt[k] \in Seq(Char)
      /\ Match(a, x + 1, str) = NULL => EntryAt(a, x + 1) = tt[k]
  <2>1. tt[k] = Vec!Replaced(ss[k], str, with)
    BY DEF ReplacedAll
  <2>2. /\ Substituted(a, x + 1, str, with) = Vec!Replaced(ss[k], str, with)
        /\ Substituted(a, x + 1, str, with) \in Seq(Char)
        /\ EntryAt(a, x + 1) = ss[k]
        /\ Match(a, x + 1, str) = NULL => Vec!Replaced(ss[k], str, with) = ss[k]
    <3>1. EntryBecomes(v.argz, o, ss, str, with, k)
      BY EntryReplaced
    <3> QED
      BY <3>1 DEF EntryBecomes
  <2> QED
    BY <2>1, <2>2
<1>2. x \in Nat /\ (x + 1 > 1 <=> x # 0) /\ (x = 0 => k = 1)
  <2>1. x \in Nat
    BY LaidStep
  <2>2. ASSUME x = 0 PROVE k = 1
    <3>1. k \in 0 .. n /\ k - 1 \in 0 .. n /\ 0 \in 0 .. k - 1
      OBVIOUS
    <3>2. o[0] + ((k - 1) - 0) <= o[k - 1]
      <4>1. \A j \in 0 .. n : \A i \in 0 .. j : o[i] + (j - i) <= o[j]
        BY LaidOrder
      <4> QED
        BY <3>1, <4>1
    <3> QED
      BY <2>2, <3>2
  <2> QED
    BY <2>1, <2>2
<1>3. r = IF Match(a, x + 1, str) # NULL THEN argz_add(e, Substituted(a, x + 1, str, with))
          ELSE IF d.argz # <<>> THEN argz_add(d, EntryAt(a, x + 1)) ELSE d
  <2>1. (x + 1) - 1 = x
    BY <1>2
  <2> QED
    BY <2>1 DEF ReplaceEntry
<1>4. /\ SubSeq(tt, 1, k) = SubSeq(tt, 1, k - 1) \o <<tt[k]>> /\ SubSeq(tt, 1, 0) = <<>>
      /\ tt \in Seq(Seq(Char)) /\ n = Len(tt)
  <2>1. tt \in Seq(Seq(Char)) /\ n = Len(tt)
    BY DEF ReplacedAll
  <2> QED
    BY <2>1, SubSeqNext
<1>5. ASSUME d = Vector(<<>>, 0), \A i \in 1 .. k - 1 : Match(a, o[i - 1] + 1, str) = NULL
      PROVE  Represents(e, SubSeq(tt, 1, k - 1))
  <2>1. d.argz = <<>> /\ Represents(d, <<>>)
    BY <1>5, RepresentsNone DEF Vector
  <2>2. CASE x = 0
    <3>1. e = d /\ k - 1 = 0
      BY <1>2, <2>2
    <3> HIDE DEF e
    <3> QED
      BY <1>4, <2>1, <3>1
  <2>3. CASE x # 0
    <3>1. e = argz_append(d, SubSeq(a, 1, x))
      BY <1>2, <2>1, <2>3
    <3>2. Represents(argz_append(d, SubSeq(a, 1, x)), <<>> \o SubSeq(ss, 1, k - 1))
      BY <2>1, PrefixHolds
    <3>3. SubSeq(ss, 1, k - 1) = SubSeq(tt, 1, k - 1) /\ SubSeq(ss, 1, k - 1) \in Seq(Seq(Char))
      <4> DEFINE p == SubSeq(ss, 1, k - 1)
                 q == SubSeq(tt, 1, k - 1)
      <4>1. ss \in Seq(Seq(Char)) /\ k - 1 \in 0 .. n
        BY DEF Laid
      <4>2. p \in Seq(Seq(Char)) /\ Len(p) = k - 1 /\ \A i \in 1 .. k - 1 : p[i] = ss[i]
        <5>1. Len(p) = k - 1 /\ \A i \in 1 .. k - 1 : p[i] = ss[i]
          BY <4>1
        <5> QED
          BY <4>1, <5>1, SubSeqProperties
      <4>3. q \in Seq(Seq(Char)) /\ Len(q) = k - 1 /\ \A i \in 1 .. k - 1 : q[i] = tt[i]
        <5>1. Len(q) = k - 1 /\ \A i \in 1 .. k - 1 : q[i] = tt[i]
          BY <1>4, <4>1
        <5> QED
          BY <1>4, <4>1, <5>1, SubSeqProperties
      <4>4. ASSUME NEW i \in 1 .. k - 1 PROVE ss[i] = tt[i]
        <5>1. i \in 1 .. n /\ Match(a, o[i - 1] + 1, str) = NULL
          BY <1>5
        <5>2. Vec!Replaced(ss[i], str, with) = ss[i]
          <6>1. EntryBecomes(v.argz, o, ss, str, with, i)
            BY <5>1, EntryReplaced
          <6> QED
            BY <5>1, <6>1 DEF EntryBecomes
        <5> QED
          BY <5>1, <5>2 DEF ReplacedAll
      <4> HIDE DEF p, q
      <4>5. p = q
        <5>1. Len(p) = Len(q) /\ \A i \in 1 .. Len(p) : p[i] = q[i]
          BY <4>2, <4>3, <4>4
        <5>2. p \in Seq(Seq(Char)) /\ q \in Seq(Seq(Char))
          BY <4>2, <4>3
        <5> QED
          BY <5>1, <5>2, SeqEqual, SMTT(15)
      <4> QED
        BY <4>2, <4>5 DEF p, q
    <3>4. <<>> \o SubSeq(ss, 1, k - 1) = SubSeq(ss, 1, k - 1)
      BY <3>3, ConcatEmptySeq
    <3> HIDE DEF e
    <3> QED
      BY <3>1, <3>2, <3>3, <3>4
  <2> QED
    BY <2>2, <2>3
<1>6. ASSUME d.argz # <<>>, Represents(d, SubSeq(tt, 1, k - 1))
      PROVE  e = d /\ Represents(e, SubSeq(tt, 1, k - 1))
  BY <1>6
<1>7. Represents(e, SubSeq(tt, 1, k - 1))
  <2>1. \/ d = Vector(<<>>, 0) /\ \A i \in 1 .. k - 1 : Match(a, o[i - 1] + 1, str) = NULL
        \/ d.argz # <<>> /\ Represents(d, SubSeq(tt, 1, k - 1))
    BY DEF Copying
  <2> HIDE DEF e, a
  <2> QED
    BY <1>5, <1>6, <2>1
<1> HIDE DEF e, a, x, r
<1>8. CASE Match(a, x + 1, str) # NULL
  <2>1. r = argz_add(e, tt[k])
    BY <1>1, <1>3, <1>8
  <2>2. Represents(r, SubSeq(tt, 1, k)) /\ r.argz # <<>>
    BY <1>1, <1>4, <1>7, <2>1, AddOwned
  <2> QED
    BY <2>2 DEF Copying, r, x, a
<1>9. CASE Match(a, x + 1, str) = NULL /\ d.argz # <<>>
  <2>1. r = argz_add(d, tt[k])
    BY <1>1, <1>3, <1>9
  <2>2. Represents(d, SubSeq(tt, 1, k - 1))
    <3>1. Vector(<<>>, 0).argz = <<>>
      BY DEF Vector
    <3> QED
      BY <1>9, <3>1 DEF Copying
  <2>3. Represents(r, SubSeq(tt, 1, k)) /\ r.argz # <<>>
    BY <1>1, <1>4, <2>1, <2>2, AddOwned
  <2> QED
    BY <2>3 DEF Copying, r, x, a
<1>10. CASE Match(a, x + 1, str) = NULL /\ d.argz = <<>>
  <2>1. r = d
    BY <1>3, <1>10
  <2>2. d = Vector(<<>>, 0) /\ \A i \in 1 .. k - 1 : Match(a, o[i - 1] + 1, str) = NULL
    BY <1>10 DEF Copying, a
  <2>3. ASSUME NEW i \in 1 .. k PROVE Match(a, o[i - 1] + 1, str) = NULL
    <3>1. CASE i = k
      BY <1>10, <3>1 DEF x
    <3>2. CASE i # k
      <4>1. i \in 1 .. k - 1
        BY <3>2
      <4> QED
        BY <2>2, <4>1
    <3> QED
      BY <3>1, <3>2
  <2> QED
    BY <2>1, <2>2, <2>3 DEF Copying, r, x, a
<1> QED
  BY <1>8, <1>9, <1>10

(* argz_replace replaces the matches in every entry.                       *)
LEMMA ReplaceHolds ==
  ASSUME NEW v, NEW ss, Represents(v, ss), NEW str \in Seq(Char), str # <<>>, NEW with \in Seq(Char)
  PROVE  Represents(argz_replace(v, str, with), [i \in DOMAIN ss |-> Vec!Replaced(ss[i], str, with)])
<1> DEFINE x == argz_extract(v.argz, v.len)
           tt == [i \in DOMAIN ss |-> Vec!Replaced(ss[i], str, with)]
           base == Vector(<<>>, 0)
           Put(dst, arg) == ReplaceEntry(v, str, with, dst, arg)
<1>1. v.argz \in Seq(Int) /\ ss \in Seq(Seq(Char)) /\ Holds(v.argz, 0, v.len, ss)
  BY RepresentsIs
<1>2. PICK o : Laid(v.argz, ss, o) /\ o[0] = 0 /\ o[Len(ss)] = v.len
  BY <1>1 DEF Holds
<1>3. PICK n \in Nat : n = Len(ss)
  BY <1>1
<1> DEFINE G == [k \in 1 .. n |-> [d \in Owned |-> Put(d, x[k])]]
           Loop(h) == h = [t \in SUBSET (1 .. n) |-> IF t = {} THEN base ELSE Put(h[t \ {Max(t)}], x[Max(t)])]
<1>x. x = [k \in 1 .. n |-> o[k - 1] + 1] /\ Len(x) = n
  <2>1. x = [k \in 1 .. n |-> o[k - 1] + 1]
    <3> HIDE DEF tt, base
    <3>1. o[0] = 0 /\ o[n] = v.len
      BY <1>2, <1>3
    <3>2. PICK a : a = v.argz
      OBVIOUS
    <3>3. PICK len : len = v.len
      OBVIOUS
    <3>4. a \in Seq(Int) /\ Laid(a, ss, o) /\ o[n] = len
      BY <1>1, <1>2, <3>1, <3>2, <3>3
    <3>5. argz_extract(a, len) = [k \in 1 .. n |-> o[k - 1] + 1]
      BY <1>3, <3>1, <3>4, ExtractLaid
    <3> QED
      BY <3>2, <3>3, <3>5
  <2>2. [k \in 1 .. n |-> o[k - 1] + 1] \in [1 .. n -> Int]
    <3> SUFFICES ASSUME NEW k \in 1 .. n PROVE o[k - 1] + 1 \in Int
      OBVIOUS
    <3>1. o[k - 1] \in Nat
      BY <1>1, <1>2, <1>3, LaidStep
    <3> QED
      BY <3>1
  <2> HIDE DEF x
  <2>3. x \in [1 .. n -> Int]
    BY <2>1, <2>2
  <2> QED
    BY <2>1, <2>3, TableIs
<1>y. \A k \in 1 .. n : x[k] = o[k - 1] + 1
  <2> HIDE DEF x
  <2> QED
    BY <1>x
<1>b. base \in Owned
  BY RepresentsNone, OwnedIs
<1> HIDE DEF x, base
<1>4. \A k \in 1 .. n : \A d \in Owned : G[k][d] = Put(d, x[k]) /\ G[k][d] \in Owned
  <2> SUFFICES ASSUME NEW k \in 1 .. n, NEW d \in Owned
               PROVE  G[k][d] = Put(d, x[k]) /\ G[k][d] \in Owned
    OBVIOUS
  <2>1. G[k][d] = Put(d, x[k])
    OBVIOUS
  <2> HIDE DEF G
  <2>2. Put(d, o[k - 1] + 1) \in Owned
    BY <1>1, <1>2, <1>3, ReplaceEntryOwned
  <2> QED
    BY <1>y, <2>1, <2>2
<1> HIDE DEF G
<1>5. PICK h : Loop(h) /\ ReplaceFold(v, str, with) = h[1 .. n]
  <2>1. PICK g \in [SUBSET (1 .. n) -> Owned] : FoldOf(g, n, base, G)
    <3>1. \A k \in 1 .. n : \A d \in Owned : G[k][d] \in Owned
      BY <1>4
    <3> QED
      BY <1>b, <3>1, FoldExists
  <2>2. ASSUME NEW t \in SUBSET (1 .. n)
        PROVE  g[t] = IF t = {} THEN base ELSE Put(g[t \ {Max(t)}], x[Max(t)])
    <3> HIDE DEF Put
    <3>1. g[t] = IF t = {} THEN base ELSE G[Max(t)][g[t \ {Max(t)}]]
      BY <2>1 DEF FoldOf
    <3>2. ASSUME t # {} PROVE G[Max(t)][g[t \ {Max(t)}]] = Put(g[t \ {Max(t)}], x[Max(t)])
      <4>1. Max(t) \in 1 .. n
        BY <3>2, MaxIs
      <4>2. g[t \ {Max(t)}] \in Owned
        OBVIOUS
      <4> QED
        BY <1>4, <4>1, <4>2
    <3> QED
      BY <3>1, <3>2
  <2>3. g = [t \in SUBSET (1 .. n) |-> g[t]]
    BY <2>1
  <2>4. Loop(g)
    <3> HIDE DEF Put
    <3> QED
      BY <2>2, <2>3
  <2>5. \E h : h = [t \in SUBSET (1 .. n) |->
                      IF t = {} THEN base ELSE ReplaceEntry(v, str, with, h[t \ {Max(t)}], x[Max(t)])]
    BY <2>4
  <2>6. \E h : Loop(h) /\ FoldLeft(LAMBDA dst, arg : ReplaceEntry(v, str, with, dst, arg), base, x) = h[1 .. n]
    BY <1>x, <2>5 DEF FoldLeft, MapThenFoldSet
  <2> QED
    BY <2>6 DEF ReplaceFold, base, x
<1>6. PICK f \in [0 .. n -> Owned] : f[n] = h[1 .. n] /\ Chain(f, n, base, G)
  <2> HIDE DEF Put
  <2>1. ASSUME NEW t \in SUBSET (1 .. n)
        PROVE  h[t] = IF t = {} THEN base ELSE Put(h[t \ {Max(t)}], x[Max(t)])
    BY <1>5
  <2>2. h[{}] = base
    BY <2>1
  <2>3. ASSUME NEW k \in 1 .. n, h[1 .. k - 1] \in Owned PROVE h[1 .. k] = G[k][h[1 .. k - 1]]
    <3> DEFINE t == 1 .. k
    <3>1. k \in Nat \ {0} /\ t \in SUBSET (1 .. n)
      OBVIOUS
    <3>2. t # {} /\ Max(t) = k /\ t \ {k} = 1 .. k - 1
      BY <3>1, PrefixMax
    <3> HIDE DEF t
    <3>3. h[t] = Put(h[1 .. k - 1], x[k])
      BY <2>1, <3>1, <3>2
    <3> QED
      BY <1>4, <2>3, <3>3 DEF t
  <2>4. \A k \in 1 .. n : \A d \in Owned : G[k][d] \in Owned
    BY <1>4
  <2>5. Folds(h, n, Owned, base, G)
    BY <2>2, <2>3 DEF Folds
  <2> QED
    BY <1>b, <2>4, <2>5, FoldChain
<1>t. ReplacedAll(ss, tt, str, with)
  <2>1. DOMAIN ss = 1 .. n
    BY <1>1, <1>3
  <2>2. \A i \in 1 .. n : tt[i] = Vec!Replaced(ss[i], str, with)
    BY <2>1
  <2>3. \A i \in 1 .. n : Vec!Replaced(ss[i], str, with) \in Seq(Char)
    <3> SUFFICES ASSUME NEW i \in 1 .. n PROVE Vec!Replaced(ss[i], str, with) \in Seq(Char)
      OBVIOUS
    <3>1. EntryBecomes(v.argz, o, ss, str, with, i)
      <4> HIDE DEF x, tt
      <4> QED
        BY <1>1, <1>2, <1>3, EntryReplaced
    <3> QED
      BY <3>1 DEF EntryBecomes
  <2>4. tt = [i \in 1 .. n |-> Vec!Replaced(ss[i], str, with)]
    BY <2>1
  <2>5. tt \in [1 .. n -> Seq(Char)]
    <3> HIDE DEF tt
    <3> QED
      BY <2>3, <2>4
  <2> HIDE DEF tt
  <2>6. tt \in Seq(Seq(Char)) /\ Len(tt) = n
    BY <2>5, TableIs
  <2> QED
    BY <1>3, <2>2, <2>6 DEF ReplacedAll
<1> HIDE DEF tt
<1> DEFINE At_(k) == Copying(f[k], v.argz, o, tt, str, k)
           S == {k \in Int : At_(k)}
<1>7. 0 \in S
  <2>1. f[0] = Vector(<<>>, 0)
    BY <1>6 DEF Chain, base
  <2>2. At_(0)
    BY <2>1 DEF Copying
  <2> HIDE DEF At_
  <2> QED
    BY <2>2
<1>8. ASSUME NEW k \in 1 .. n, k - 1 \in S PROVE k \in S
  <2>1. f[k - 1] \in Owned
    <3>1. k - 1 \in 0 .. n
      OBVIOUS
    <3> QED
      BY <1>6, <3>1
  <2>2. f[k] = G[k][f[k - 1]]
    BY <1>6 DEF Chain
  <2>3. f[k] = ReplaceEntry(v, str, with, f[k - 1], o[k - 1] + 1)
    BY <1>4, <1>y, <2>1, <2>2
  <2>4. Copying(f[k - 1], v.argz, o, tt, str, k - 1)
    BY <1>8
  <2>5. Copying(ReplaceEntry(v, str, with, f[k - 1], o[k - 1] + 1), v.argz, o, tt, str, k)
    BY <1>1, <1>2, <1>3, <1>t, <2>4, ReplaceTurn
  <2>6. At_(k)
    BY <2>3, <2>5
  <2> HIDE DEF At_
  <2> QED
    BY <2>6
<1>9. At_(n)
  <2> HIDE DEF At_
  <2>1. \A k \in 0 .. n : k \in S
    <3> HIDE DEF S
    <3> QED
      BY <1>7, <1>8, UpTo
  <2>2. n \in 0 .. n
    OBVIOUS
  <2> QED
    BY <2>1, <2>2
<1>10. Copying(f[n], v.argz, o, tt, str, n)
  BY <1>9
<1>11. argz_replace(v, str, with) = IF f[n].argz = <<>> THEN v ELSE f[n]
  BY <1>5, <1>6, ReplaceIs
<1>12. SubSeq(tt, 1, n) = tt /\ tt \in Seq(Seq(Char)) /\ Len(tt) = n
  <2>1. tt \in Seq(Seq(Char)) /\ Len(tt) = n
    BY <1>3, <1>t DEF ReplacedAll
  <2> QED
    BY <2>1, SubSeqFull
<1>13. CASE f[n].argz = <<>>
  <2>1. \A i \in 1 .. n : Match(v.argz, o[i - 1] + 1, str) = NULL
    BY <1>10, <1>13 DEF Copying
  <2>2. ASSUME NEW i \in 1 .. n PROVE ss[i] = tt[i]
    <3>1. Vec!Replaced(ss[i], str, with) = ss[i]
      <4>1. EntryBecomes(v.argz, o, ss, str, with, i)
        BY <1>1, <1>2, <1>3, EntryReplaced
      <4> QED
        BY <2>1, <4>1 DEF EntryBecomes
    <3> QED
      BY <1>3, <1>t, <3>1 DEF ReplacedAll
  <2>3. ss = tt
    BY <1>1, <1>3, <1>12, <2>2, SeqEqual
  <2> QED
    BY <1>11, <1>13, <2>3 DEF tt
<1>14. CASE f[n].argz # <<>>
  <2>1. Vector(<<>>, 0).argz = <<>>
    BY DEF Vector
  <2>2. Represents(f[n], tt)
    BY <1>10, <1>12, <1>14, <2>1 DEF Copying
  <2> QED
    BY <1>11, <1>14, <2>2 DEF tt
<1> QED
  BY <1>13, <1>14

-----------------------------------------------------------------------------
(* argz_next.                                                              *)

(* From a place in a string strchr finds where the string ends.            *)
LEMMA EndFrom ==
  ASSUME NEW a \in Seq(Int), NEW x \in Nat, NEW y \in Nat, NEW s, StringAt(a, x, y, s), NEW p \in x + 1 .. y
  PROVE  strchr(a, p, NUL) = y
<1>1. PICK l \in Nat : y = x + l + 1 /\ y <= Len(a) /\ StringOf(a, x + 1, l) /\ a[y] = NUL
  BY StringAtIs
<1> DEFINE k == p - (x + 1)
           d == y - p
<1>2. k \in 0 .. l /\ x + 1 + k = p /\ l - k = d /\ d \in Nat /\ p + d = y /\ p \in Int /\ p \in DOMAIN a
  BY <1>1
<1>3. a \in Memories
  BY DEF Memories
<1>4. StringOf(a, p, d)
  <2>1. \A j \in 0 .. l : StringOf(a, x + 1 + j, l - j)
    <3>1. x + 1 \in Int
      OBVIOUS
    <3> QED
      BY <1>1, <1>3, <3>1, StringBytes
  <2> HIDE DEF k, d
  <2> QED
    BY <1>2, <2>1
<1> HIDE DEF k, d
<1>5. valid_string(a, p) /\ logic_strlen(a, p) = d
  BY <1>2, <1>3, <1>4, StringIsValid
<1>6. /\ strchr(a, p, NUL) \in p .. p + d
      /\ a[strchr(a, p, NUL)] = NUL
  <2>1. strchr_contract(a, p, NUL)
    <3>1. NUL # Outside
      BY DEF NUL, Outside
    <3> QED
      BY <1>2, <1>3, <3>1, strchr_meets
  <2>2. \E i \in 0 .. d : a[p + i] = NUL
    <3>1. d \in 0 .. d
      BY <1>2
    <3> QED
      BY <1>1, <1>2, <3>1
  <2> QED
    BY <1>5, <2>1, <2>2 DEF strchr_contract
<1>7. \A j \in 0 .. d - 1 : a[p + j] # NUL
  <2>1. \A j \in 0 .. d : a[p + j] = At(a, p + j)
    BY <1>2, <1>3, <1>4, StringBytes
  <2>2. \A j \in 0 .. d - 1 : At(a, p + j) # NUL
    BY <1>4 DEF StringOf
  <2>3. ASSUME NEW j \in 0 .. d - 1 PROVE a[p + j] # NUL
    <3>1. j \in 0 .. d
      BY <1>2
    <3> QED
      BY <2>1, <2>2, <3>1
  <2> QED
    BY <2>3
<1> DEFINE r == strchr(a, p, NUL)
<1> HIDE DEF r
<1>8. r \in p .. p + d /\ a[r] = NUL
  BY <1>6 DEF r
<1>9. r = y
  <2>1. ASSUME r # y PROVE FALSE
    <3>1. r - p \in 0 .. d - 1 /\ p + (r - p) = r
      BY <1>2, <1>8, <2>1
    <3> QED
      BY <1>7, <1>8, <3>1
  <2> QED
    BY <2>1
<1> QED
  BY <1>9 DEF r

(* Where argz_next goes from a place in an entry                           *)
NextInside(a, o, n, p, i) ==
  /\ o[i - 1] < p /\ p <= o[i]
  /\ argz_next(a, o[n], p) = IF i = n THEN NULL ELSE o[i] + 1

(* argz_next goes from an entry to the next one.                           *)
LEMMA NextFrom ==
  ASSUME NEW a, a \in Seq(Int), NEW ss, NEW o, Laid(a, ss, o), NEW n, n \in Nat, n = Len(ss), o[0] = 0,
         NEW p \in 1 .. o[n]
  PROVE  \E i \in 1 .. n : NextInside(a, o, n, p, i)
<1>1. PICK i \in 1 .. n : o[i - 1] < p /\ p <= o[i]
  BY EntryAround
<1> DEFINE x == o[i - 1]
           y == o[i]
           len == o[n]
<1>2. x \in Nat /\ y \in Nat /\ y <= len /\ len \in Nat /\ StringAt(a, x, y, ss[i])
  BY LaidStep
<1>3. i # n => y < len
  <2>1. ASSUME i # n PROVE y < len
    <3>1. i \in 0 .. n /\ n \in 0 .. n /\ i \in 0 .. n
      OBVIOUS
    <3>2. PICK m \in Nat : m = Len(ss) /\ \A j \in 0 .. m : \A h \in 0 .. j : o[h] + (j - h) <= o[j]
      BY LaidOrder
    <3>3. o[i] + (n - i) <= o[n]
      BY <3>1, <3>2
    <3>4. i < n
      BY <2>1
    <3> QED
      BY <1>2, <3>3, <3>4
  <2> QED
    BY <2>1
<1>4. i = n => y = len
  OBVIOUS
<1>5. x < p /\ p <= y /\ p \in Nat /\ p \in 1 .. len
  BY <1>1, <1>2
<1> HIDE DEF x, y, len
<1>6. strchr(a, p, NUL) = y
  <2>1. p \in x + 1 .. y
    BY <1>2, <1>5
  <2> QED
    BY <1>2, <2>1, EndFrom
<1>7. argz_next(a, len, p) = IF i = n THEN NULL ELSE y + 1
  <2>1. p # NULL /\ p < 1 + len
    BY <1>2, <1>5 DEF NULL
  <2>2. argz_next(a, len, p) = IF y + 1 >= 1 + len THEN NULL ELSE y + 1
    BY <1>6, <2>1 DEF argz_next
  <2> QED
    BY <1>2, <1>3, <1>4, <2>2
<1> QED
  BY <1>1, <1>7 DEF NextInside, len, y

(* The least element of a set, however it is found                         *)
LEMMA LeastIs ==
  ASSUME NEW T, T \subseteq Nat, NEW m \in T, \A r \in T : m <= r
  PROVE  m = IF T = {} THEN NULL ELSE CHOOSE q \in T : \A r \in T : q <= r
<1> DEFINE P(q) == \A r \in T : q <= r
           c == CHOOSE q \in T : P(q)
<1>1. c \in T /\ P(c)
  <2>1. \E q \in T : P(q)
    OBVIOUS
  <2> HIDE DEF P
  <2> QED
    BY <2>1
<1> HIDE DEF c
<1>2. c <= m /\ m <= c /\ c \in Nat /\ m \in Nat
  BY <1>1
<1>3. c = m
  BY <1>2
<1> QED
  BY <1>3 DEF c

(* The places where argz_extract finds entries are in order.               *)
InOrder(a, len, ss, n, o) ==
  /\ n \in Nat /\ n = Len(ss) /\ Laid(a, ss, o) /\ o[0] = 0 /\ o[n] = len /\ o \in [0 .. n -> Nat]
  /\ \A h, j \in 0 .. n : h <= j => o[h] <= o[j]
  /\ argz_count(a, len) = n /\ Len(argz_extract(a, len)) = n
  /\ Range(argz_extract(a, len)) = {o[i - 1] + 1 : i \in 1 .. n}

(* So they are, and argz_count counts them.                                *)
LEMMA ExtractOrder ==
  ASSUME NEW a \in Seq(Int), NEW len, NEW ss, Holds(a, 0, len, ss)
  PROVE  \E n \in Nat : \E o : InOrder(a, len, ss, n, o)
<1>1. PICK o : Laid(a, ss, o) /\ o[0] = 0 /\ o[Len(ss)] = len
  BY DEF Holds
<1>2. PICK n \in Nat : /\ n = Len(ss) /\ o \in [0 .. n -> Nat]
                       /\ \A j \in 0 .. n : \A h \in 0 .. j : o[h] + (j - h) <= o[j]
  BY <1>1, LaidOrder
<1>3. ASSUME NEW h \in 0 .. n, NEW j \in 0 .. n, h <= j PROVE o[h] <= o[j]
  <2>1. h \in 0 .. j /\ o[h] \in Nat /\ o[j] \in Nat
    <3>1. h \in 0 .. j
      BY <1>3
    <3>2. o \in [0 .. n -> Nat]
      BY <1>2
    <3> QED
      BY <3>1, <3>2
  <2>2. o[h] + (j - h) <= o[j]
    BY <1>2, <2>1
  <2> QED
    BY <1>3, <2>1, <2>2
<1>8. o[n] = len /\ o[0] = 0
  BY <1>1, <1>2
<1> DEFINE E == argz_extract(a, len)
<1>4. E = [i \in 1 .. n |-> o[i - 1] + 1] /\ argz_count(a, len) = n
  <2>1. n = Len(ss) /\ Laid(a, ss, o)
    BY <1>1, <1>2
  <2> QED
    BY <1>8, <2>1, ExtractLaid
<1>5. [i \in 1 .. n |-> o[i - 1] + 1] \in [1 .. n -> Int]
  <2> SUFFICES ASSUME NEW i \in 1 .. n PROVE o[i - 1] + 1 \in Int
    OBVIOUS
  <2>1. i - 1 \in 0 .. n
    OBVIOUS
  <2>2. o[i - 1] \in Nat
    BY <1>2, <2>1
  <2> QED
    BY <2>2
<1> HIDE DEF E
<1>6. Len(E) = n
  <2>1. E \in [1 .. n -> Int]
    BY <1>4, <1>5
  <2> QED
    BY <2>1, TableIs
<1>7. Range(E) = {o[i - 1] + 1 : i \in 1 .. n}
  <2>1. DOMAIN E = 1 .. n /\ \A i \in 1 .. n : E[i] = o[i - 1] + 1
    BY <1>4
  <2> QED
    BY <2>1 DEF Range
<1>9. InOrder(a, len, ss, n, o)
  <2>1. \A h, j \in 0 .. n : h <= j => o[h] <= o[j]
    BY <1>3
  <2> QED
    BY <1>1, <1>2, <1>4, <1>6, <1>7, <1>8, <2>1 DEF InOrder, E
<1> QED
  BY <1>9

(* argz_count counts the entries; argz_next finds the least that starts    *)
(* after a place.                                                          *)
LEMMA WalkHolds ==
  ASSUME NEW a \in Seq(Int), NEW len, NEW ss, Holds(a, 0, len, ss), NEW E, E = argz_extract(a, len)
  PROVE  /\ argz_count(a, len) = Len(E)
         /\ \A p \in 0 .. len :
              LET later == {q \in Range(E) : q > p}
              IN  argz_next(a, len, p) = IF later = {} THEN NULL ELSE CHOOSE q \in later : \A r \in later : q <= r
<1>a. PICK n \in Nat : \E o : InOrder(a, len, ss, n, o)
  BY ExtractOrder
<1>0. PICK o : InOrder(a, len, ss, n, o)
  BY <1>a
<1>1.   /\ n \in Nat /\ n = Len(ss) /\ Laid(a, ss, o) /\ o[0] = 0 /\ o[n] = len /\ o \in [0 .. n -> Nat]
        /\ \A h, j \in 0 .. n : h <= j => o[h] <= o[j]
        /\ argz_count(a, len) = n /\ Len(E) = n
        /\ Range(E) = {o[i - 1] + 1 : i \in 1 .. n}
  BY <1>0 DEF InOrder
<1>2. ASSUME NEW p \in 0 .. len, NEW later, later = {q \in Range(E) : q > p}
      PROVE  argz_next(a, len, p) = IF later = {} THEN NULL ELSE CHOOSE q \in later : \A r \in later : q <= r
  <2>0. /\ later \subseteq Nat /\ len \in Nat /\ p \in Nat /\ p <= len
        /\ \A i \in 1 .. n : o[i - 1] \in Nat
    <3>1. \A i \in 1 .. n : o[i - 1] \in Nat
      <4> SUFFICES ASSUME NEW i \in 1 .. n PROVE o[i - 1] \in Nat
        OBVIOUS
      <4>1. i - 1 \in 0 .. n
        OBVIOUS
      <4> QED
        BY <1>1, <4>1
    <3>2. len \in Nat
      <4>1. n \in 0 .. n
        OBVIOUS
      <4> QED
        BY <1>1, <4>1
    <3>3. later \subseteq Nat
      BY <1>1, <1>2, <3>1
    <3> QED
      BY <3>1, <3>2, <3>3
  <2>1. ASSUME NEW m \in later, \A r \in later : m <= r, argz_next(a, len, p) = m
        PROVE  argz_next(a, len, p) = IF later = {} THEN NULL ELSE CHOOSE q \in later : \A r \in later : q <= r
    BY <2>0, <2>1, LeastIs
  <2>2. CASE p = 0
    <3>1. argz_next(a, len, p) = IF len > 0 THEN 1 ELSE NULL
      BY <2>2 DEF argz_next, NULL
    <3>2. CASE n = 0
      <4>1. len = 0 /\ later = {}
        BY <1>1, <1>2, <3>2
      <4> QED
        BY <3>1, <4>1
    <3>3. CASE n # 0
      <4>1. 1 \in 1 .. n /\ 1 - 1 = 0
        BY <3>3
      <4>2. 1 \in Range(E)
        <5>1. o[1 - 1] + 1 = 1
          BY <1>1, <4>1
        <5>2. o[1 - 1] + 1 \in Range(E)
          BY <1>1, <4>1
        <5> QED
          BY <5>1, <5>2
      <4>3. 1 \in later
        BY <1>2, <2>2, <4>2
      <4>4. ASSUME NEW r \in later PROVE 1 <= r
        BY <1>2, <2>0, <2>2, <4>4
      <4>5. len > 0
        <5>1. n \in 1 .. n
          BY <3>3
        <5>2. o[n - 1] \in Nat /\ o[n - 1] < o[n]
          BY <1>1, <5>1, LaidStep
        <5> QED
          BY <1>1, <2>0, <5>2
      <4> QED
        BY <2>1, <3>1, <4>3, <4>4, <4>5
    <3> QED
      BY <3>2, <3>3
  <2>3. CASE p # 0
    <3>1. PICK i \in 1 .. n : /\ o[i - 1] < p /\ p <= o[i]
                              /\ argz_next(a, len, p) = IF i = n THEN NULL ELSE o[i] + 1
      <4>1. p \in 1 .. o[n]
        BY <1>1, <2>0, <2>3
      <4> QED
        <5>1. \E i \in 1 .. n : NextInside(a, o, n, p, i)
          BY <1>1, <4>1, NextFrom
        <5> QED
          BY <1>1, <5>1 DEF NextInside
    <3>2. ASSUME NEW r \in later PROVE i # n /\ o[i] + 1 <= r
      <4>1. PICK j \in 1 .. n : r = o[j - 1] + 1
        BY <1>1, <1>2
      <4>2. r > p /\ j - 1 \in 0 .. n /\ i - 1 \in 0 .. n /\ i \in 0 .. n
        BY <1>2
      <4>3. o[j - 1] \in Nat /\ o[i - 1] \in Nat /\ o[i] \in Nat
        BY <1>1, <4>2
      <4>4. ~(j - 1 <= i - 1)
        <5>1. ASSUME j - 1 <= i - 1 PROVE FALSE
          <6>1. o[j - 1] <= o[i - 1]
            BY <1>1, <4>2, <5>1
          <6> QED
            BY <2>0, <3>1, <4>1, <4>2, <4>3, <6>1
        <5> QED
          BY <5>1
      <4>5. i <= j - 1 /\ i # n
        BY <4>4
      <4>6. o[i] <= o[j - 1]
        BY <1>1, <4>2, <4>5
      <4> QED
        BY <4>1, <4>3, <4>5, <4>6
    <3>3. CASE i = n
      <4>1. later = {}
        BY <3>2, <3>3
      <4> QED
        BY <3>1, <3>3, <4>1
    <3>4. CASE i # n
      <4>1. i + 1 \in 1 .. n /\ (i + 1) - 1 = i /\ i \in 0 .. n
        BY <3>4
      <4>2. o[i] + 1 \in Range(E)
        BY <1>1, <4>1
      <4>3. o[i] \in Nat
        BY <1>1, <4>1
      <4>4. o[i] + 1 > p
        BY <2>0, <3>1, <4>3
      <4>5. o[i] + 1 \in later
        BY <1>2, <4>2, <4>4
      <4> DEFINE m == o[i] + 1
      <4>6. m \in later /\ (\A r \in later : m <= r) /\ argz_next(a, len, p) = m
        BY <3>1, <3>2, <3>4, <4>5
      <4> HIDE DEF m
      <4> QED
        BY <2>1, <4>6
    <3> QED
      BY <3>3, <3>4
  <2> QED
    BY <2>2, <2>3
<1> QED
  BY <1>1, <1>2, ZenonT(30)

-----------------------------------------------------------------------------
(* The program and ArgzVector.                                             *)

(* The strings of a block, as Entries finds them                           *)
Seen(a, l) ==
  LET E == IF a # <<>> \/ l = 0 THEN argz_extract(a, l) ELSE <<>>
  IN  [i \in DOMAIN E |-> EntryAt(a, E[i])]

(* What the program sees of its vector                                     *)
Shown == [i \in DOMAIN Entries |-> EntryAt(argz, Entries[i])]

(* They are those it represents.                                           *)
LEMMA SeenIs ==
  ASSUME NEW a, NEW l, NEW ss, Represents(Vector(a, l), ss)
  PROVE  (a # <<>> \/ l = 0) /\ Seen(a, l) = ss
<1> DEFINE v == Vector(a, l)
<1>1. v.argz = a /\ v.len = l
  BY DEF Vector
<1>2. a \in Seq(Int) /\ l \in Nat /\ l <= Len(a) /\ Holds(a, 0, l, ss)
  <2>1. Represents(v, ss)
    OBVIOUS
  <2> HIDE DEF v
  <2>2. v.argz \in Seq(Int) /\ v.len \in Nat /\ v.len <= Len(v.argz) /\ Holds(v.argz, 0, v.len, ss)
    BY <2>1, RepresentsIs
  <2> QED
    BY <1>1, <2>2
<1>3. a # <<>> \/ l = 0
  <2>1. a = <<>> => Len(a) = 0
    OBVIOUS
  <2> QED
    BY <1>2, <2>1
<1>4. LET E == argz_extract(a, l) IN [i \in DOMAIN E |-> EntryAt(a, E[i])] = ss
  BY <1>2, EntriesAre
<1> QED
  BY <1>3, <1>4 DEF Seen

(* A block the program lost has none.                                      *)
LEMMA SeenNone ==
  ASSUME NEW l PROVE Seen(<<>>, l) = <<>>
<1>1. CASE l = 0
  BY <1>1, RepresentsNone, SeenIs
<1>2. CASE l # 0
  <2> DEFINE r == [i \in DOMAIN <<>> |-> EntryAt(<<>>, <<>>[i])]
  <2>1. Seen(<<>>, l) = r
    BY <1>2 DEF Seen
  <2>2. r = [i \in 1 .. 0 |-> EntryAt(<<>>, <<>>[i])] /\ r \in [1 .. 0 -> Int] /\ 0 \in Nat
    OBVIOUS
  <2> HIDE DEF r
  <2>3. r \in Seq(Int) /\ Len(r) = 0
    BY <2>2, TableIs
  <2>4. r = <<>>
    BY <2>3, EmptySeq
  <2> QED
    BY <2>1, <2>4
<1> QED
  BY <1>1, <1>2

(* What the program sees of its vector, before a step and after it         *)
LEMMA ShownIs ==
  ASSUME NEW ss, Represents(Current, ss)
  PROVE  Intact /\ Shown = ss
<1>1. (argz # <<>> \/ argz_len = 0) /\ Seen(argz, argz_len) = ss
  BY SeenIs DEF Current
<1>2. Intact
  BY <1>1 DEF Intact
<1>3. Shown = Seen(argz, argz_len)
  BY DEF Shown, Seen, Entries, Intact
<1> QED
  BY <1>1, <1>2, <1>3

(* A program without a block sees none.                                    *)
LEMMA ShownNone ==
  ASSUME argz = <<>> PROVE Shown = <<>>
<1>1. Shown = Seen(argz, argz_len)
  BY DEF Shown, Seen, Entries, Intact
<1> QED
  BY <1>1, SeenNone

(* After a call it sees the strings of the vector the call leaves.         *)
LEMMA ShownNext ==
  ASSUME NEW v, NEW ss, Represents(v, ss), Leaves(v)
  PROVE  Intact' /\ Shown' = ss /\ Represents(Vector(argz', argz_len'), ss) /\ argz_len' \in Nat
<1>1. argz' = v.argz /\ argz_len' = v.len
  BY DEF Leaves
<1>2. Represents(Vector(argz', argz_len'), ss)
  BY <1>1 DEF Represents, Vector
<1>3. (argz' # <<>> \/ argz_len' = 0) /\ Seen(argz', argz_len') = ss
  BY <1>2, SeenIs
<1>4. Intact'
  BY <1>3 DEF Intact
<1>5. Shown' = Seen(argz', argz_len')
  BY DEF Shown, Seen, Entries, Intact
<1>6. argz_len' \in Nat
  BY <1>1, RepresentsIs
<1> QED
  BY <1>2, <1>3, <1>4, <1>5, <1>6

(* After a failed call it sees none.                                       *)
LEMMA ShownLost ==
  ASSUME argz' = <<>> PROVE Shown' = <<>>
<1>1. Shown' = Seen(argz', argz_len')
  BY DEF Shown, Seen, Entries, Intact
<1> QED
  BY <1>1, SeenNone

(* A vector the program has not lost holds strings.                        *)
RInv == argz_len \in Nat /\ (Intact => \E ss : Represents(Current, ss))

(* The strings a call leaves, when the program owns a vector after it      *)
LEMMA LeavesHolds ==
  ASSUME NEW v, NEW ss, Represents(v, ss), Leaves(v)
  PROVE  RInv'
<1>1. Represents(Vector(argz', argz_len'), ss) /\ argz_len' \in Nat
  BY ShownNext
<1>2. \E uu : Represents(Vector(argz', argz_len'), uu)
  BY <1>1
<1> QED
  BY <1>1, <1>2 DEF RInv, Current

(* Adding at the end                                                       *)
LEMMA InsertEnd ==
  ASSUME NEW ss \in Seq(Seq(Char)), NEW s \in Seq(Char)
  PROVE  InsertAt(ss, Len(ss) + 1, s) = ss \o <<s>>
<1>1. PICK n \in Nat : n = Len(ss)
  OBVIOUS
<1>2. SubSeq(ss, 1, n) = ss
  BY <1>1, SubSeqFull
<1>3. SubSeq(ss, n + 1, n) = <<>>
  BY <1>1, SubSeqEmpty
<1>4. InsertAt(ss, n + 1, s) = SubSeq(ss, 1, (n + 1) - 1) \o <<s>> \o SubSeq(ss, n + 1, n)
  BY <1>1 DEF InsertAt
<1>5. (n + 1) - 1 = n
  OBVIOUS
<1>6. InsertAt(ss, n + 1, s) = (ss \o <<s>>) \o <<>>
  BY <1>2, <1>3, <1>4, <1>5
<1>7. ss \o <<s>> \in Seq(Seq(Char))
  <2>1. <<s>> \in Seq(Seq(Char))
    OBVIOUS
  <2> QED
    BY <2>1, ConcatProperties
<1> QED
  BY <1>1, <1>6, <1>7, ConcatEmptySeq

(* Before the vector is lost the program sees the strings it holds.        *)
LEMMA ShownIntact ==
  ASSUME RInv, Intact
  PROVE  \E ss : Represents(Current, ss) /\ Shown = ss /\ ss \in Seq(Seq(Char))
<1>1. PICK ss : Represents(Current, ss)
  BY DEF RInv
<1>2. Shown = ss
  BY <1>1, ShownIs
<1>3. ss \in Seq(Seq(Char))
  BY <1>1, RepresentsIs
<1> QED
  BY <1>1, <1>2, <1>3

(* An entry is inserted and deleted as the library does.                   *)
LEMMA InsertedAt ==
  ASSUME Shown \in Seq(Seq(Char)), NEW i \in 0 .. Len(Shown), NEW s \in Strings, Intact, Intact',
         Shown' = InsertAt(Shown, i + 1, s)
  PROVE  Vec!Insert
<1>1. (i + 1) - 1 = i
  OBVIOUS
<1>2. Shown' = Vec!First(i) \o <<s>> \o Vec!After(i)
  BY <1>1 DEF InsertAt, Vec!First, Vec!After, Shown
<1> QED
  BY <1>2 DEF Vec!Insert, Vec!Becomes, Shown

LEMMA RemovedAt ==
  ASSUME NEW i \in DOMAIN Shown, Intact, Intact', Shown' = RemoveAt(Shown, i)
  PROVE  Vec!Delete
<1>1. Shown' = Vec!First(i - 1) \o Vec!After(i)
  BY DEF RemoveAt, Vec!First, Vec!After, Shown
<1> QED
  BY <1>1 DEF Vec!Delete, Vec!Becomes, Shown

(* Strings joined are flattened with their separators.                     *)
LEMMA JoinedFlat ==
  ASSUME Shown \in Seq(Seq(Char)), Shown # <<>>
  PROVE  Vec!Joined = FlattenSeq(WithSep(Shown))
<1> DEFINE ss == Shown
           q == WithSep(ss)
           n == Len(ss)
           Here(h, i) == IF i = 1 THEN ss[1] ELSE h[i - 1] \o (<<Sep>> \o ss[i])
           There(h, i) == IF i = 1 THEN q[i] ELSE h[i - 1] \o q[i]
           Mine(h) == h = [i \in 1 .. n |-> Here(h, i)]
           Theirs(h) == h = [i \in 1 .. n |-> There(h, i)]
<1>1. n \in Nat /\ n # 0 /\ DOMAIN ss = 1 .. n
  OBVIOUS
<1>2. Len(q) = n /\ \A i \in 1 .. n : q[i] = IF i = 1 THEN ss[1] ELSE <<Sep>> \o ss[i]
  <2>1. q = [i \in 1 .. n |-> IF i = 1 THEN ss[i] ELSE <<Sep>> \o ss[i]]
    BY <1>1 DEF WithSep
  <2> QED
    BY <1>1, <2>1
<1>3. Vec!Joined = (CHOOSE h : Mine(h))[n]
  BY DEF Vec!Joined, Shown
<1>4. FlattenSeq(q) = (CHOOSE h : Theirs(h))[n]
  BY <1>1, <1>2 DEF FlattenSeq
<1>5. ASSUME NEW h PROVE Mine(h) <=> Theirs(h)
  <2>1. \A i \in 1 .. n : Here(h, i) = There(h, i)
    BY <1>2
  <2> HIDE DEF Here, There
  <2> QED
    BY <2>1
<1> HIDE DEF Mine, Theirs
<1>6. (CHOOSE h : Mine(h)) = (CHOOSE h : Theirs(h))
  BY <1>5
<1> QED
  BY <1>3, <1>4, <1>6

(* argz_create does Create.                                                *)
LEMMA CreateShows == ASSUME RInv, Create PROVE RInv' /\ Vec!Create
<1>1. PICK strs \in Vectors : Leaves(argz_create(strs))
  BY DEF Create
<1>2. Represents(argz_create(strs), strs)
  BY CreateHolds, StringsAssumption DEF StringsAssumption
<1>3. RInv' /\ Intact' /\ Shown' = strs
  BY <1>1, <1>2, LeavesHolds, ShownNext
<1>4. Shown = <<>>
  BY ShownNone DEF Create
<1> QED
  BY <1>3, <1>4 DEF Vec!Create, Shown

(* argz_create_sep does CreateSep.                                         *)
LEMMA CreateSepShows == ASSUME RInv, CreateSep PROVE RInv' /\ Vec!CreateSep
<1>1. PICK s \in Strings : Leaves(argz_create_sep(s))
  BY DEF CreateSep
<1> DEFINE tt == IF s = <<>> THEN <<>> ELSE Vec!Parts(s)
<1>2. Represents(argz_create_sep(s), tt)
  BY CreateSepHolds, StringsAssumption DEF StringsAssumption
<1> HIDE DEF tt
<1>3. RInv' /\ Intact' /\ Shown' = tt
  BY <1>1, <1>2, LeavesHolds, ShownNext
<1>4. Shown = <<>>
  BY ShownNone DEF CreateSep
<1> QED
  BY <1>3, <1>4 DEF Vec!CreateSep, Shown, tt

(* argz_append does AppendVector, with the block of a vector of strings.   *)
LEMMA AppendShows == ASSUME RInv, AppendVector PROVE RInv' /\ Vec!AppendVector
<1>1. PICK strs \in Vectors : Leaves(argz_append(Current, Joint(strs))) /\ Intact
  BY DEF AppendVector
<1>2. PICK ss : Represents(Current, ss) /\ Shown = ss
  BY <1>1, ShownIntact
<1>3. Represents(argz_append(Current, Joint(strs)), ss \o strs)
  <2>1. strs \in Seq(Seq(Char))
    BY StringsAssumption DEF StringsAssumption
  <2> QED
    BY <1>2, <2>1, JointHolds, AppendHolds
<1> DEFINE tt == ss \o strs
<1> HIDE DEF tt
<1>4. RInv' /\ Intact' /\ Shown' = tt
  BY <1>1, <1>3, LeavesHolds, ShownNext DEF tt
<1> QED
  BY <1>1, <1>2, <1>4 DEF Vec!AppendVector, Vec!Becomes, Shown, tt

(* A string added to the vector is inserted at the end.                    *)
LEMMA AddedShows ==
  ASSUME RInv, Intact, NEW s \in Strings, Leaves(argz_add(Current, s)) PROVE RInv' /\ Vec!Insert
<1>1. PICK ss : Represents(Current, ss) /\ Shown = ss /\ ss \in Seq(Seq(Char))
  BY ShownIntact
<1>2. s \in Seq(Char)
  BY StringsAssumption DEF StringsAssumption
<1> DEFINE tt == ss \o <<s>>
<1>3. Represents(argz_add(Current, s), tt)
  BY <1>1, <1>2, AddHolds
<1>4. tt = InsertAt(ss, Len(ss) + 1, s) /\ Len(ss) \in 0 .. Len(ss)
  <2>1. InsertAt(ss, Len(ss) + 1, s) = ss \o <<s>>
    BY <1>1, <1>2, InsertEnd
  <2>2. Len(ss) \in Nat
    BY <1>1
  <2> QED
    BY <2>1, <2>2
<1> HIDE DEF tt
<1>5. RInv' /\ Intact' /\ Shown' = tt
  BY <1>3, LeavesHolds, ShownNext
<1>6. Vec!Insert
  BY <1>1, <1>4, <1>5, InsertedAt
<1> QED
  BY <1>5, <1>6

(* So argz_add does Insert.                                                *)
LEMMA AddShows == ASSUME RInv, Add PROVE RInv' /\ Vec!Insert
  BY AddedShows DEF Add

(* argz_add_sep does AddSep, or nothing with an empty string.              *)
LEMMA AddSepShows == ASSUME RInv, AddSep PROVE RInv' /\ (Vec!AddSep \/ UNCHANGED vars)
<1>1. PICK s \in Strings : Leaves(argz_add_sep(Current, s)) /\ Intact
  BY DEF AddSep
<1>2. PICK ss : Represents(Current, ss) /\ Shown = ss
  BY <1>1, ShownIntact
<1>3. s \in Seq(Char)
  BY StringsAssumption DEF StringsAssumption
<1>4. CASE s # <<>>
  <2> DEFINE tt == ss \o Vec!Parts(s)
  <2>1. Represents(argz_add_sep(Current, s), tt)
    BY <1>2, <1>3, <1>4, AddSepHolds
  <2> HIDE DEF tt
  <2>2. RInv' /\ Intact' /\ Shown' = tt
    BY <1>1, <2>1, LeavesHolds, ShownNext
  <2>3. s \in Strings \ {<<>>} /\ Shown' = Shown \o Vec!Parts(s)
    BY <1>2, <1>4, <2>2 DEF tt
  <2>4. Vec!AddSep
    BY <1>1, <2>2, <2>3 DEF Vec!AddSep, Vec!Becomes, Shown
  <2> QED
    BY <2>2, <2>4
<1>5. CASE s = <<>>
  <2>1. Leaves(Current)
    BY <1>1, <1>2, <1>3, <1>5, AddSepHolds
  <2>2. RInv' /\ UNCHANGED vars
    <3>1. RInv'
      BY <1>2, <2>1, LeavesHolds
    <3>2. UNCHANGED vars
      BY <2>1 DEF Leaves, Current, Vector, vars
    <3> QED
      BY <3>1, <3>2
  <2> QED
    BY <2>2
<1> QED
  BY <1>4, <1>5

(* argz_add_sep out of memory loses the vector.                            *)
LEMMA AddSepFailsShows == ASSUME RInv, AddSepFails PROVE RInv' /\ Vec!AddSep
<1>1. Intact /\ argz_len > 0 /\ argz_len \in Nat /\ argz' = <<>> /\ argz_len' = argz_len
  BY DEF AddSepFails, Leaves, Vector, RInv
<1>2. PICK s \in Strings : s # <<>>
  BY DEF AddSepFails
<1>3. Shown' = <<>>
  BY <1>1, ShownLost
<1>4. ~Intact'
  BY <1>1 DEF Intact
<1>5. RInv'
  BY <1>1, <1>4 DEF RInv
<1>6. s \in Strings \ {<<>>}
  BY <1>2
<1> QED
  BY <1>1, <1>3, <1>4, <1>5, <1>6 DEF Vec!AddSep, Vec!Lost, Shown

(* argz_insert does Insert, at the end or before the entry of the place.   *)
LEMMA InsertShows == ASSUME RInv, Insert PROVE RInv' /\ Vec!Insert
<1>1. PICK before \in IF argz_len = 0 THEN {NULL} ELSE Places, s \in Strings :
        Leaves(argz_insert(Current, before, s))
  BY DEF Insert
<1>2. Intact
  BY DEF Insert
<1>3. PICK ss : Represents(Current, ss) /\ Shown = ss /\ ss \in Seq(Seq(Char))
  BY <1>2, ShownIntact
<1>4. s \in Seq(Char)
  BY StringsAssumption DEF StringsAssumption
<1>5. Current.len = argz_len /\ argz_len \in Nat
  BY DEF Current, Vector, RInv
<1>6. before = NULL \/ before \in 1 .. argz_len
  BY <1>1, <1>5 DEF Places
<1>7. CASE before = NULL
  <2>1. argz_insert(Current, before, s) = argz_add(Current, s)
    BY <1>7 DEF argz_insert
  <2> QED
    BY <1>1, <1>2, <2>1, AddedShows
<1>8. CASE before \in 1 .. argz_len
  <2>1. PICK i \in 1 .. Len(ss) : Represents(argz_insert(Current, before, s), InsertAt(ss, i, s))
    BY <1>3, <1>4, <1>5, <1>8, InsertHolds
  <2> DEFINE tt == InsertAt(ss, i, s)
  <2> HIDE DEF tt
  <2>2. RInv' /\ Intact' /\ Shown' = tt
    BY <1>1, <2>1, LeavesHolds, ShownNext DEF tt
  <2>3. i - 1 \in 0 .. Len(ss) /\ (i - 1) + 1 = i
    <3>1. Len(ss) \in Nat
      BY <1>3
    <3> QED
      BY <3>1
  <2>4. tt = InsertAt(ss, (i - 1) + 1, s)
    BY <2>3 DEF tt
  <2>5. Vec!Insert
    BY <1>2, <1>3, <2>2, <2>3, <2>4, InsertedAt
  <2> QED
    BY <2>2, <2>5
<1> QED
  BY <1>6, <1>7, <1>8

(* argz_delete does Delete.                                                *)
LEMMA DeleteShows == ASSUME RInv, Delete PROVE RInv' /\ Vec!Delete
<1>1. PICK p \in Range(argz_extract(argz, argz_len)) : Leaves(argz_delete(Current, p))
  BY DEF Delete
<1>2. Intact /\ Current.argz = argz /\ Current.len = argz_len
  BY DEF Delete, Intact, Current, Vector
<1>3. PICK ss : Represents(Current, ss) /\ Shown = ss /\ ss \in Seq(Seq(Char))
  BY <1>2, ShownIntact
<1>4. PICK i \in 1 .. Len(ss) : Represents(argz_delete(Current, p), RemoveAt(ss, i))
  BY <1>1, <1>2, <1>3, DeleteHolds
<1> DEFINE tt == RemoveAt(ss, i)
<1> HIDE DEF tt
<1>5. RInv' /\ Intact' /\ Shown' = tt
  BY <1>1, <1>4, LeavesHolds, ShownNext DEF tt
<1>6. i \in DOMAIN ss
  BY <1>3
<1>7. Vec!Delete
  BY <1>2, <1>3, <1>5, <1>6, RemovedAt DEF tt
<1> QED
  BY <1>5, <1>7

(* The strings with the matches replaced                                   *)
AllReplaced(ss, p, w) == [i \in DOMAIN ss |-> Vec!Replaced(ss[i], p, w)]

(* argz_replace does Replace.                                              *)
LEMMA ReplaceShows == ASSUME RInv, Replace PROVE RInv' /\ Vec!Replace
<1>1. PICK str \in Patterns, with \in Strings : Leaves(argz_replace(Current, str, with))
  BY DEF Replace
<1>2. Intact
  BY DEF Replace, Intact
<1>3. PICK ss : Represents(Current, ss) /\ Shown = ss
  BY <1>2, ShownIntact
<1>4. str \in Seq(Char) /\ str # <<>> /\ with \in Seq(Char)
  BY StringsAssumption DEF StringsAssumption
<1>5. Represents(argz_replace(Current, str, with), AllReplaced(ss, str, with))
  BY <1>3, <1>4, ReplaceHolds DEF AllReplaced
<1>6. RInv' /\ Intact' /\ Shown' = AllReplaced(ss, str, with)
  BY <1>1, <1>5, LeavesHolds, ShownNext
<1>7. Shown' = AllReplaced(Shown, str, with)
  BY <1>3, <1>6
<1> QED
  BY <1>2, <1>6, <1>7 DEF Vec!Replace, Vec!Becomes, Shown, AllReplaced

(* argz_stringify does Stringify, or nothing to no string.                 *)
LEMMA StringifyShows == ASSUME RInv, Stringify PROVE RInv' /\ (Vec!Stringify \/ UNCHANGED vars)
<1>1. Leaves(argz_stringify(Current)) /\ Intact /\ Current.argz = argz /\ Current.len = argz_len
  BY DEF Stringify, Intact, Current, Vector
<1>2. PICK ss : Represents(Current, ss) /\ Shown = ss /\ ss \in Seq(Seq(Char))
  BY <1>1, ShownIntact
<1>3. CASE ss # <<>>
  <2> DEFINE tt == <<FlattenSeq(WithSep(ss))>>
  <2>1. Represents(argz_stringify(Current), tt)
    BY <1>2, <1>3, StringifyHolds
  <2> HIDE DEF tt
  <2>2. RInv' /\ Intact' /\ Shown' = tt
    BY <1>1, <2>1, LeavesHolds, ShownNext
  <2>3. Shown' = <<Vec!Joined>> /\ Shown # <<>>
    BY <1>2, <1>3, <2>2, JoinedFlat DEF tt
  <2>4. Vec!Stringify
    BY <1>1, <2>2, <2>3 DEF Vec!Stringify, Vec!Becomes, Shown
  <2> QED
    BY <2>2, <2>4
<1>4. CASE ss = <<>>
  <2>1. UNCHANGED vars
    BY <1>1, <1>2, <1>4, StringifyHolds DEF Leaves, vars
  <2>2. RInv'
    BY <2>1 DEF RInv, vars, Current, Intact
  <2> QED
    BY <2>1, <2>2
<1> QED
  BY <1>3, <1>4

(* Every step does to the strings what a step of ArgzVector does, or       *)
(* nothing.                                                                *)
LEMMA StepShows ==
  ASSUME RInv, [Next]_vars
  PROVE  RInv' /\ (Vec!Next \/ UNCHANGED vars)
<1>1. CASE Create
  BY <1>1, CreateShows DEF Vec!Next
<1>2. CASE CreateSep
  BY <1>2, CreateSepShows DEF Vec!Next
<1>3. CASE AppendVector
  BY <1>3, AppendShows DEF Vec!Next
<1>4. CASE Add
  BY <1>4, AddShows DEF Vec!Next
<1>5. CASE AddSep
  BY <1>5, AddSepShows DEF Vec!Next
<1>6. CASE AddSepFails
  BY <1>6, AddSepFailsShows DEF Vec!Next
<1>7. CASE Insert
  BY <1>7, InsertShows DEF Vec!Next
<1>8. CASE Delete
  BY <1>8, DeleteShows DEF Vec!Next
<1>9. CASE Replace
  BY <1>9, ReplaceShows DEF Vec!Next
<1>10. CASE Stringify
  BY <1>10, StringifyShows DEF Vec!Next
<1>11. CASE UNCHANGED vars
  BY <1>11 DEF RInv, vars, Current, Intact
<1> QED
  BY <1>1, <1>2, <1>3, <1>4, <1>5, <1>6, <1>7, <1>8, <1>9, <1>10, <1>11 DEF Next

(* The program starts without a vector.                                    *)
LEMMA InitShows == Init => RInv /\ Vec!Init
<1> SUFFICES ASSUME Init PROVE RInv /\ Vec!Init
  OBVIOUS
<1>1. argz = <<>> /\ argz_len = 0
  BY DEF Init
<1>2. Represents(Current, <<>>)
  BY <1>1, RepresentsNone DEF Current
<1>3. Intact /\ Shown = <<>>
  BY <1>2, ShownIs
<1> QED
  BY <1>1, <1>2, <1>3 DEF RInv, Vec!Init, Shown

(* A step that changes nothing shows nothing.                              *)
LEMMA SameShown ==
  ASSUME UNCHANGED vars
  PROVE  Shown' = Shown /\ Intact' = Intact
  BY DEF vars, Shown, Intact, Entries

(* The walks agree on a vector that holds strings.                         *)
LEMMA WalkShows == RInv => WalkAgrees
<1> SUFFICES ASSUME RInv, Intact PROVE WalkAgrees
  BY DEF WalkAgrees
<1>1. PICK ss : Represents(Current, ss)
  BY DEF RInv
<1>2. argz \in Seq(Int) /\ Holds(argz, 0, argz_len, ss)
  BY <1>1 DEF Represents, Current, Vector
<1>3. Entries = argz_extract(argz, argz_len)
  BY DEF Entries
<1> QED
  BY <1>2, <1>3, WalkHolds DEF WalkAgrees

(* What a vector that represents strings contains.                         *)
LEMMA StringsInIs ==
  ASSUME NEW v, NEW ss, Represents(v, ss) PROVE StringsIn(v.argz, v.len) = ss
<1>1. v.argz \in Seq(Int) /\ Holds(v.argz, 0, v.len, ss)
  BY DEF Represents
<1> QED
  BY <1>1, EntriesAre DEF StringsIn

(* What argz_add, argz_insert and argz_delete do to them, and where.       *)
LEMMA EditsShow == RInv => EditsPlaced
<1> SUFFICES ASSUME RInv, Intact, argz_len > 0 PROVE EditsPlaced
  BY DEF EditsPlaced
<1>1. PICK ss : Represents(Current, ss) /\ Shown = ss /\ ss \in Seq(Seq(Char))
  BY ShownIntact
<1>3. Current.argz = argz /\ Current.len = argz_len /\ argz_len \in Nat
  BY DEF Current, Vector, RInv
<1>2. StringsIn(argz, argz_len) = ss
  BY <1>1, <1>3, StringsInIs
<1>4. Entries = argz_extract(Current.argz, Current.len)
  BY <1>3 DEF Entries
<1>5. DOMAIN Entries = 1 .. Len(ss)
  BY <1>1 DEF Shown
<1>6. ASSUME NEW s \in Strings
      PROVE  \E w \in {argz_insert(Current, NULL, s)} : StringsIn(w.argz, w.len) = ss \o <<s>>
  <2>1. s \in Seq(Char)
    BY StringsAssumption DEF StringsAssumption
  <2>2. argz_insert(Current, NULL, s) = argz_add(Current, s)
    BY DEF argz_insert
  <2>3. Represents(argz_add(Current, s), ss \o <<s>>)
    BY <1>1, <2>1, AddHolds
  <2> QED
    BY <2>2, <2>3, StringsInIs
<1>7. ASSUME NEW s \in Strings, NEW p \in Places \ {NULL}
      PROVE  \E i \in DOMAIN Entries : /\ Around(Entries, p, i)
                                       /\ \E w \in {argz_insert(Current, p, s)} :
                                            StringsIn(w.argz, w.len) = InsertAt(ss, i, s)
  <2>1. s \in Seq(Char) /\ p \in 1 .. Current.len
    BY <1>3, StringsAssumption DEF StringsAssumption, Places
  <2>2. PICK i \in 1 .. Len(ss) : /\ Around(argz_extract(Current.argz, Current.len), p, i)
                                  /\ Represents(argz_insert(Current, p, s), InsertAt(ss, i, s))
    BY <1>1, <2>1, InsertHolds
  <2>3. \E w \in {argz_insert(Current, p, s)} : StringsIn(w.argz, w.len) = InsertAt(ss, i, s)
    BY <2>2, StringsInIs
  <2> QED
    BY <1>4, <1>5, <2>2, <2>3
<1>8. ASSUME NEW p \in Range(Entries)
      PROVE  \E i \in DOMAIN Entries :
               /\ Entries[i] = p
               /\ \E w \in {argz_delete(Current, p)} : StringsIn(w.argz, w.len) = RemoveAt(ss, i)
  <2>1. PICK i \in 1 .. Len(ss) : /\ argz_extract(Current.argz, Current.len)[i] = p
                                  /\ Represents(argz_delete(Current, p), RemoveAt(ss, i))
    BY <1>1, <1>4, DeleteHolds
  <2>2. \E w \in {argz_delete(Current, p)} : StringsIn(w.argz, w.len) = RemoveAt(ss, i)
    BY <2>1, StringsInIs
  <2> QED
    BY <1>4, <1>5, <2>1, <2>2
<1> QED
  BY <1>2, <1>6, <1>7, <1>8 DEF EditsPlaced

(* The blocks and lengths argz.c maintains are a vector of strings: each   *)
(* call does to it what the function promises, at the place it is given,   *)
(* and argz_count, argz_extract and argz_next find the same entries        *)
(* (argz.c, refinement of ArgzVector).                                     *)
THEOREM ImplementsVectorHolds == Spec => ImplementsVector
<1>1. Init => RInv /\ Vec!Init
  BY InitShows
<1>2. RInv /\ [Next]_vars => RInv' /\ [Vec!Next]_<<Shown, Intact>>
  BY StepShows, SameShown
<1>3. RInv => WalkAgrees /\ EditsPlaced
  BY WalkShows, EditsShow
<1> QED
  BY <1>1, <1>2, <1>3, PTL DEF Spec, ImplementsVector, Vec!Spec, Shown

-----------------------------------------------------------------------------
(* Owned or not: the program has a block of written bytes, or none; then   *)
(* the length is 0, or what argz_add_sep left when its allocation failed.  *)
IInv == argz_len \in Nat /\ (argz = <<>> \/ Good(Current))

(* At every time the program owns a block of written bytes that ends with a *)
(* terminator, or none, whatever functions of argz.c it called and whatever *)
(* allocations failed.                                                     *)
THEOREM VectorsKept == Spec => []IInv
<1>1. Init => RInv
  BY InitShows
<1>2. RInv /\ [Next]_vars => RInv'
  BY StepShows
<1>3. RInv => IInv
  <2> SUFFICES ASSUME RInv, argz # <<>> PROVE Good(Current)
    BY DEF RInv, IInv
  <2>1. PICK ss : Represents(Current, ss)
    BY DEF RInv, Intact
  <2> QED
    BY <2>1, RepresentsIs
<1> QED
  BY <1>1, <1>2, <1>3, PTL DEF Spec

-----------------------------------------------------------------------------
(* What the strings are copied from: a vector and a constant apart from it *)
Kept == IF argz = <<>> THEN 0 ELSE argz_len

(* Where the bytes of that memory are                                      *)
LEMMA MemoryIs ==
  ASSUME IInv
  PROVE  /\ Kept \in Nat
         /\ Memory \in Memories /\ Len(Memory) = Kept + 3
         /\ \A i \in 1 .. Kept : Memory[i] \in Octet
         /\ Memory[Kept + 1] = Outside /\ Memory[Kept + 2] = 97 /\ Memory[Kept + 3] = NUL
<1> DEFINE n == Kept
           b == SubSeq(argz, 1, n)
           c == <<97, NUL>>
<1>1. n \in Nat /\ argz \in Seq(Int) /\ \A i \in 1 .. n : argz[i] \in Octet
  <2>1. CASE argz = <<>>
    <3>1. n = 0 /\ <<>> \in Seq(Int)
      BY <2>1 DEF Kept
    <3> QED
      BY <2>1, <3>1
  <2>2. CASE argz # <<>>
    <3>1. Good(Current) /\ Current.argz = argz /\ Current.len = argz_len /\ n = argz_len
      BY <2>2 DEF IInv, Current, Vector, Kept
    <3> QED
      BY <3>1 DEF Good, IInv
  <2> QED
    BY <2>1, <2>2
<1> HIDE DEF n
<1>2. b \in Seq(Octet) /\ Len(b) = n /\ \A i \in 1 .. n : b[i] = argz[i]
  <2>1. /\ SubSeq(argz, 1, n) \in Seq(Octet)
        /\ Len(SubSeq(argz, 1, n)) = IF 1 <= n THEN n - 1 + 1 ELSE 0
        /\ \A i \in 1 .. n - 1 + 1 : SubSeq(argz, 1, n)[i] = argz[1 + i - 1]
    BY <1>1, SubSeqProperties
  <2>2. n - 1 + 1 = n /\ \A i \in 1 .. n : 1 + i - 1 = i
    BY <1>1
  <2> QED
    BY <1>1, <2>1, <2>2
<1>3. b \in Seq(Int) /\ \A i \in 1 .. n : b[i] \in Octet
  <2>1. \A i \in 1 .. n : b[i] \in Int
    BY <1>1, <1>2, OctetIs
  <2> HIDE DEF b
  <2> QED
    BY <1>1, <1>2, <2>1
<1>4. c \in Seq(Int) /\ Len(c) = 2 /\ c[1] = 97 /\ c[2] = NUL
  BY DEF NUL
<1>5. Memory = b \o <<Outside>> \o c
  BY DEF Memory, Constant, n, Kept
<1> HIDE DEF b, c
<1>6. /\ Memory \in Memories /\ Len(Memory) = Len(b) + 1 + Len(c)
      /\ \A i \in 1 .. Len(b) : Memory[i] = b[i] /\ At(Memory, i) = b[i]
      /\ At(Memory, Len(b) + 1) = Outside
      /\ \A i \in 1 .. Len(c) : Memory[Len(b) + 1 + i] = c[i] /\ At(Memory, Len(b) + 1 + i) = c[i]
  <2> DEFINE m == b \o <<Outside>> \o c
  <2>1. /\ m \in Memories /\ Len(m) = Len(b) + 1 + Len(c)
        /\ \A i \in 1 .. Len(b) : m[i] = b[i] /\ At(m, i) = b[i]
        /\ At(m, Len(b) + 1) = Outside
        /\ \A i \in 1 .. Len(c) : m[Len(b) + 1 + i] = c[i] /\ At(m, Len(b) + 1 + i) = c[i]
    <3> HIDE DEF b, c
    <3> QED
      BY <1>3, <1>4, Apart, ZenonT(30)
  <2>2. Memory = m
    BY <1>5
  <2> HIDE DEF m
  <2> QED
    BY <2>1, <2>2
<1>7. Len(Memory) = n + 3 /\ DOMAIN Memory = 1 .. n + 3 /\ n + 1 \in 1 .. n + 3
  BY <1>1, <1>2, <1>4, <1>6 DEF Memories
<1>8. Memory[n + 1] = Outside
  BY <1>2, <1>6, <1>7 DEF At
<1>9. Memory[n + 2] = 97 /\ Memory[n + 3] = NUL
  <2>1. 1 \in 1 .. Len(c) /\ 2 \in 1 .. Len(c)
    BY <1>4
  <2>2. Memory[n + 1 + 1] = c[1] /\ Memory[n + 1 + 2] = c[2]
    BY <1>2, <1>6, <2>1
  <2>3. n + 1 + 1 = n + 2 /\ n + 1 + 2 = n + 3
    BY <1>1
  <2> QED
    BY <1>4, <2>2, <2>3
<1> QED
  BY <1>1, <1>2, <1>3, <1>6, <1>7, <1>8, <1>9 DEF n

(* All of them are written: of the block, the part in the vector counts.   *)
LEMMA MemoryClean ==
  ASSUME IInv
  PROVE  Memory \in Memories /\ Clean(Memory)
<1> DEFINE n == Kept
<1>1. /\ n \in Nat /\ Memory \in Memories /\ DOMAIN Memory = 1 .. n + 3
      /\ \A i \in 1 .. n : Memory[i] \in Octet
      /\ Memory[n + 1] = Outside /\ Memory[n + 2] = 97 /\ Memory[n + 3] = NUL
  BY MemoryIs DEF Memories
<1> HIDE DEF n
<1>2. SUFFICES ASSUME NEW p \in Int PROVE At(Memory, p) # Uninit
  BY <1>1 DEF Clean
<1>3. p \in 1 .. n + 3 => p \in 1 .. n \/ p = n + 1 \/ p = n + 2 \/ p = n + 3
  BY <1>1
<1> QED
  BY <1>1, <1>3, OctetIs DEF At, Outside, Uninit, NUL

(* The constant is the read-only block.                                    *)
LEMMA MemoryBlockWise ==
  ASSUME IInv
  PROVE  BlockWise(Memory, ReadOnly)
<1> DEFINE n == Kept
<1>1. /\ n \in Nat /\ DOMAIN Memory = 1 .. n + 3 /\ Len(Memory) = n + 3 /\ Memory[n + 1] = Outside
  BY MemoryIs DEF Memories
<1>2. ReadOnly = n + 2 .. n + 3
  <2> HIDE DEF n
  <2> QED
    BY <1>1 DEF ReadOnly
<1> HIDE DEF n
<1>3. SUFFICES ASSUME NEW p \in 1 .. n + 3, NEW q \in 1 .. n + 3, p <= q, \A i \in p .. q : At(Memory, i) # Outside
               PROVE  p \in ReadOnly <=> q \in ReadOnly
  BY <1>1 DEF BlockWise
<1>4. n + 1 \notin p .. q
  BY <1>1, <1>3 DEF At
<1> QED
  BY <1>1, <1>2, <1>3, <1>4

(* On the memories the vectors make, every function of string.c does what  *)
(* its contract in string.h says, for pointers to one block or to two.     *)
THEOREM VectorContracts == Spec => []ContractsMet
<1>1. IInv => ContractsMet
  BY MemoryClean, StringContracts DEF ContractsMet
<1> QED
  BY <1>1, VectorsKept, PTL

(* On the memories the vectors make, E-ACSL's builtins let a call through  *)
(* only when it stays in the blocks it may touch and does what the runtime *)
(* records.                                                                *)
THEOREM VectorBuiltins == Spec => []BuiltinsSound
<1>1. IInv => BuiltinsSound
  <2> SUFFICES ASSUME IInv PROVE BuiltinsSound
    OBVIOUS
  <2>1. \A d, s \in Pointers(Memory) :
          LetsThrough(Memory, ReadOnly, d, s) /\ \A n \in Nat : LetsThroughBytes(Memory, ReadOnly, d, s, n)
    BY MemoryClean, MemoryBlockWise, BuiltinsLetThrough
  <2>2. Len(Memory) \in Nat
    BY MemoryIs
  <2>3. Pointers(Memory) = 0 .. Len(Memory) + 1 /\ \A n \in 0 .. Len(Memory) : n \in Nat
    BY <2>2 DEF Pointers
  <2> QED
    BY <2>1, <2>3 DEF BuiltinsSound
<1> QED
  BY <1>1, VectorsKept, PTL
=============================================================================
