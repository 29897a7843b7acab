--------------------------- MODULE SequenceCounts ---------------------------
(* How many elements of a sequence are in a set, as sequences grow and     *)
(* shrink: what the proofs about queues and links count.                   *)
EXTENDS Naturals, Sequences, FiniteSets, FiniteSetTheorems, TLAPS

Hits(s, M) == {k \in DOMAIN s : s[k] \in M}
Count(s, M) == Cardinality(Hits(s, M))

LEMMA CountType ==
  ASSUME NEW T, NEW s \in Seq(T), NEW M
  PROVE  IsFiniteSet(Hits(s, M)) /\ Count(s, M) \in Nat
<1>1. Hits(s, M) \subseteq 1 .. Len(s) /\ Len(s) \in Nat
  BY DEF Hits
<1>2. IsFiniteSet(1 .. Len(s))
  BY <1>1, FS_Interval
<1>3. IsFiniteSet(Hits(s, M))
  BY <1>1, <1>2, FS_Subset
<1> QED
  BY <1>3, FS_CardinalityType DEF Count

LEMMA CountZero ==
  ASSUME NEW T, NEW s \in Seq(T), NEW M
  PROVE  Count(s, M) = 0 <=> \A k \in DOMAIN s : s[k] \notin M
<1>1. IsFiniteSet(Hits(s, M))
  BY CountType
<1>2. Count(s, M) = 0 <=> Hits(s, M) = {}
  BY <1>1, FS_EmptySet DEF Count
<1> QED
  BY <1>2 DEF Hits

LEMMA CountEmpty == ASSUME NEW M PROVE Count(<<>>, M) = 0
<1>1. Hits(<<>>, M) = {}
  BY DEF Hits
<1> QED
  BY <1>1, FS_EmptySet DEF Count

LEMMA CountAppend ==
  ASSUME NEW T, NEW s \in Seq(T), NEW x \in T, NEW M
  PROVE  Count(Append(s, x), M) = Count(s, M) + (IF x \in M THEN 1 ELSE 0)
<1> DEFINE old == Hits(s, M)
<1>1. Len(s) \in Nat /\ Append(s, x) \in Seq(T) /\ Len(Append(s, x)) = Len(s) + 1
  OBVIOUS
<1>2. \A k \in 1 .. Len(s) : Append(s, x)[k] = s[k]
  OBVIOUS
<1>3. Append(s, x)[Len(s) + 1] = x
  OBVIOUS
<1>4. IsFiniteSet(old) /\ Cardinality(old) \in Nat
  BY CountType DEF Count
<1>5. CASE x \in M
  <2>1. Hits(Append(s, x), M) = old \cup {Len(s) + 1}
    BY <1>1, <1>2, <1>3, <1>5 DEF Hits
  <2>2. Len(s) + 1 \notin old
    BY <1>1 DEF Hits
  <2> HIDE DEF old
  <2>3. Cardinality(old \cup {Len(s) + 1}) = Cardinality(old) + 1
    BY <1>4, <2>2, FS_AddElement
  <2> QED
    BY <2>1, <2>3, <1>5 DEF Count, old
<1>6. CASE x \notin M
  <2>1. Hits(Append(s, x), M) = old
    BY <1>1, <1>2, <1>3, <1>6 DEF Hits
  <2> QED
    BY <2>1, <1>4, <1>6 DEF Count
<1> QED
  BY <1>5, <1>6

(* Cutting a sequence in two shares its elements.                          *)
LEMMA CountCut ==
  ASSUME NEW T, NEW s \in Seq(T), NEW n \in 0 .. Len(s), NEW M
  PROVE  Count(s, M) = Count(SubSeq(s, 1, n), M) + Count(SubSeq(s, n + 1, Len(s)), M)
<1> DEFINE a == SubSeq(s, 1, n)
           b == SubSeq(s, n + 1, Len(s))
           low == Hits(a, M)
           high == Hits(b, M)
           all == Hits(s, M)
<1>1. Len(s) \in Nat /\ n \in Nat /\ n <= Len(s)
  OBVIOUS
<1>2. /\ a \in Seq(T) /\ Len(a) = n /\ \A k \in 1 .. n : a[k] = s[k]
      /\ b \in Seq(T) /\ Len(b) = Len(s) - n /\ \A k \in 1 .. Len(s) - n : b[k] = s[k + n]
  BY <1>1
<1>3. DOMAIN s = 1 .. Len(s) /\ DOMAIN a = 1 .. n /\ DOMAIN b = 1 .. Len(s) - n
  BY <1>2
<1>4. low \subseteq all /\ IsFiniteSet(all) /\ IsFiniteSet(low) /\ IsFiniteSet(high)
  <2>1. low \subseteq all
    <3>1. \A k \in 1 .. n : k \in 1 .. Len(s) /\ a[k] = s[k]
      BY <1>1, <1>2
    <3> QED
      BY <3>1, <1>3 DEF Hits
  <2> HIDE DEF a, b
  <2>2. IsFiniteSet(all) /\ IsFiniteSet(low) /\ IsFiniteSet(high)
    BY <1>2, CountType
  <2> QED
    BY <2>1, <2>2
<1> DEFINE f == [k \in high |-> k + n]
<1>5. f \in Bijection(high, all \ low)
  <2>1. \A k \in high : k \in 1 .. Len(s) - n /\ s[k + n] \in M
    BY <1>2, <1>3 DEF Hits
  <2>2. \A k \in high : k + n \in all /\ k + n \notin low
    BY <2>1, <1>1, <1>3 DEF Hits
  <2>3. \A k \in all \ low : k \in n + 1 .. Len(s) /\ k - n \in high
    <3> SUFFICES ASSUME NEW k \in all \ low PROVE k \in n + 1 .. Len(s) /\ k - n \in high
      OBVIOUS
    <3>1. k \in 1 .. Len(s) /\ s[k] \in M
      BY <1>3 DEF Hits
    <3>2. ~(k \in 1 .. n)
      BY <3>1, <1>2, <1>3 DEF Hits
    <3>3. k \in n + 1 .. Len(s) /\ k - n \in 1 .. Len(s) - n /\ (k - n) + n = k
      BY <3>1, <3>2, <1>1
    <3>4. b[k - n] \in M
      BY <3>1, <3>3, <1>2
    <3> QED
      BY <3>3, <3>4, <1>3 DEF Hits
  <2> HIDE DEF a, b, low, high, all
  <2>4. f \in [high -> all \ low]
    BY <2>2
  <2>5. \A x, y \in high : f[x] = f[y] => x = y
    <3>1. \A x \in high : x \in Nat
      BY <2>1, <1>1
    <3> QED
      BY <3>1, <1>1
  <2>6. \A k \in all \ low : \E x \in high : f[x] = k
    <3> SUFFICES ASSUME NEW k \in all \ low PROVE \E x \in high : f[x] = k
      OBVIOUS
    <3>1. k - n \in high /\ k \in Nat
      BY <2>3, <1>1
    <3>2. f[k - n] = k
      BY <3>1, <1>1
    <3> QED
      BY <3>1, <3>2
  <2> QED
    BY <2>4, <2>5, <2>6 DEF Bijection, Injection, Surjection, IsInjective
<1> HIDE DEF f, low, high, all
<1>6. Cardinality(high) = Cardinality(all \ low)
  <2>1. ExistsBijection(high, all \ low)
    BY <1>5 DEF ExistsBijection
  <2> QED
    BY <2>1, <1>4, FS_Bijection
<1>7. all \cap low = low
  BY <1>4
<1>8. Cardinality(all \ low) = Cardinality(all) - Cardinality(low)
  BY <1>4, <1>7, FS_Difference
<1>9. Cardinality(all) \in Nat /\ Cardinality(low) \in Nat
  BY <1>4, FS_CardinalityType
<1> QED
  BY <1>6, <1>8, <1>9 DEF Count, low, high, all

LEMMA CountTail ==
  ASSUME NEW T, NEW s \in Seq(T), s # <<>>, NEW M
  PROVE  /\ Head(s) \in T /\ Tail(s) \in Seq(T)
         /\ Count(s, M) = Count(Tail(s), M) + (IF Head(s) \in M THEN 1 ELSE 0)
<1> DEFINE a == SubSeq(s, 1, 1)
<1>1. Len(s) \in Nat \ {0} /\ Tail(s) = SubSeq(s, 2, Len(s)) /\ Tail(s) \in Seq(T) /\ Head(s) \in T
  OBVIOUS
<1>2. DOMAIN a = {1} /\ a[1] = Head(s)
  <2>1. Len(a) = 1 /\ a \in Seq(T) /\ a[1] = s[1]
    BY <1>1
  <2> QED
    BY <2>1
<1>3. Count(a, M) = IF Head(s) \in M THEN 1 ELSE 0
  <2>1. CASE Head(s) \in M
    <3>1. Hits(a, M) = {1}
      BY <1>2, <2>1 DEF Hits
    <3> QED
      BY <2>1, <3>1, FS_Singleton DEF Count
  <2>2. CASE Head(s) \notin M
    <3>1. Hits(a, M) = {}
      BY <1>2, <2>2 DEF Hits
    <3> QED
      BY <2>2, <3>1, FS_EmptySet DEF Count
  <2> QED
    BY <2>1, <2>2
<1>4. Count(s, M) = Count(a, M) + Count(SubSeq(s, 1 + 1, Len(s)), M)
  BY <1>1, CountCut
<1>5. Count(Tail(s), M) \in Nat
  BY <1>1, CountType
<1> QED
  <2>1. Count(s, M) = Count(a, M) + Count(Tail(s), M)
    <3>1. 1 + 1 = 2
      OBVIOUS
    <3> QED
      BY <3>1, <1>1, <1>4
  <2> HIDE DEF a
  <2> QED
    BY <1>1, <1>3, <1>5, <2>1

(* A change of the elements that keeps who is in the set keeps the count.  *)
LEMMA CountSame ==
  ASSUME NEW s, NEW t, NEW M, DOMAIN s = DOMAIN t,
         \A k \in DOMAIN s : s[k] \in M <=> t[k] \in M
  PROVE  Count(s, M) = Count(t, M)
  BY DEF Count, Hits

(* What a set contributes is what its members contribute.                  *)
LEMMA CountMembers ==
  ASSUME NEW T, NEW s \in Seq(T), NEW M
  PROVE  Count(s, M) = 0 <=> \A x \in M : Count(s, {x}) = 0
<1>1. Count(s, M) = 0 <=> \A k \in DOMAIN s : s[k] \notin M
  BY CountZero
<1>2. ASSUME NEW x PROVE Count(s, {x}) = 0 <=> \A k \in DOMAIN s : s[k] # x
  <2>1. Count(s, {x}) = 0 <=> \A k \in DOMAIN s : s[k] \notin {x}
    BY CountZero
  <2> QED
    BY <2>1
<1>3. (\A x \in M : Count(s, {x}) = 0) <=> \A x \in M : \A k \in DOMAIN s : s[k] # x
  BY <1>2
<1>4. (\A x \in M : \A k \in DOMAIN s : s[k] # x) <=> \A k \in DOMAIN s : s[k] \notin M
  OBVIOUS
<1> QED
  BY <1>1, <1>3, <1>4
=============================================================================
