------------------------- MODULE SegmentMemory_proofs -------------------------
(***************************************************************************)
(* The shadows of the segment model tell the truth about the program's     *)
(* memory, for regions, sizes and segments of any extent.  The invariant,  *)
(* SegInv, says byte by byte what the static shadows hold (StaticOK), how  *)
(* the segments of the heap are marked (HeapOK), what the initialization   *)
(* bits of the heap mean (InitOK), and that the counters are right.  The   *)
(* properties of SegmentMemory are read off it: decoding a code gives back *)
(* the length and the offset that were encoded.                            *)
(***************************************************************************)
EXTENDS SegmentMemory, FiniteSetTheorems, TLAPS

-----------------------------------------------------------------------------
(* The memory of the program keeps its shape through every operation of    *)
(* ProgramMemory: a block lies in one region, no two blocks share a byte,  *)
(* and what is initialized in a block lies in it.                          *)
InOneRegion(p, n) ==
  \/ Room(p, n) \subseteq Stack
  \/ Room(p, n) \subseteq Globals
  \/ Room(p, n) \subseteq Heap /\ n > 0

BlockOK(p) ==
  /\ p \in Static \union Heap
  /\ InOneRegion(p, blocks[p].len)
  /\ blocks[p].init \subseteq Extent(p)
  /\ blocks[p].ro => p \in Globals

Apart(p, q) == Room(p, blocks[p].len) \intersect Room(q, blocks[q].len) = {}

Record == [len : Nat, init : SUBSET Int, ro : BOOLEAN]
MemoryOK ==
  /\ blocks \in [DOMAIN blocks -> Record]
  /\ \A p \in DOMAIN blocks : BlockOK(p)
  /\ \A p, q \in DOMAIN blocks : p # q => Apart(p, q)

LEMMA RegionsInt == Static \subseteq Int /\ Heap \subseteq Int /\ Stack \subseteq Int /\ Globals \subseteq Int
BY AddressesAssumption DEF Static

LEMMA NoBlocksOK ==
  ASSUME NoBlocks
  PROVE  MemoryOK /\ DOMAIN blocks = {}
BY DEF NoBlocks, MemoryOK

(* A base address is in its own room, so no block is at a free place. *)
LEMMA InRoom ==
  ASSUME NEW p \in Int, NEW n \in Nat
  PROVE  p \in Room(p, n) /\ Bytes(p, n) \subseteq Room(p, n)
BY DEF Room, Bytes

LEMMA PlacedOK ==
  ASSUME MemoryOK, NEW rest \in SUBSET DOMAIN blocks, NEW p \in Static \union Heap, NEW r \in Record,
         r.init \subseteq Bytes(p, r.len), r.ro = FALSE, InOneRegion(p, r.len),
         FreePlace(p, r.len, rest),
         blocks' = [q \in rest \union {p} |-> IF q = p THEN r ELSE blocks[q]]
  PROVE  MemoryOK' /\ p \notin rest
<1>1. p \notin rest
  <2> SUFFICES ASSUME p \in rest PROVE FALSE
    OBVIOUS
  <2>1. p \in Room(p, r.len) /\ p \in Room(p, blocks[p].len)
    BY InRoom, RegionsInt DEF MemoryOK, Record
  <2> QED
    BY <2>1 DEF FreePlace
<1>2. DOMAIN blocks' = rest \union {p} /\ blocks'[p] = r /\ \A q \in rest : blocks'[q] = blocks[q]
  BY <1>1
<1>3. blocks' \in [DOMAIN blocks' -> Record]
  BY DEF MemoryOK
<1>4. \A q \in DOMAIN blocks' : BlockOK(q)'
  BY <1>2 DEF MemoryOK, BlockOK, Extent
<1>5. \A s, q \in DOMAIN blocks' : s # q => Apart(s, q)'
  BY <1>2 DEF MemoryOK, Apart, FreePlace
<1> QED
  BY <1>1, <1>3, <1>4, <1>5 DEF MemoryOK

(* The block p changes in what is initialized or read-only. *)
LEMMA UpdatedOK ==
  ASSUME MemoryOK, NEW p \in DOMAIN blocks, NEW r \in Record, r.len = blocks[p].len,
         r.init \subseteq Extent(p), r.ro => p \in Globals,
         blocks' = [blocks EXCEPT ![p] = r]
  PROVE  MemoryOK'
<1>1. DOMAIN blocks' = DOMAIN blocks /\ blocks' \in [DOMAIN blocks' -> Record]
  BY DEF MemoryOK
<1>2. \A q \in DOMAIN blocks : blocks'[q] = IF q = p THEN r ELSE blocks[q]
  OBVIOUS
<1>3. \A q \in DOMAIN blocks : blocks'[q].len = blocks[q].len
  BY <1>2
<1>4. \A q \in DOMAIN blocks : Extent(q)' = Extent(q)
  BY <1>3 DEF Extent
<1>5. \A q \in DOMAIN blocks : BlockOK(q)'
  BY <1>2, <1>3, <1>4 DEF MemoryOK, BlockOK
<1>6. \A s, q \in DOMAIN blocks : s # q => Apart(s, q)'
  BY <1>3 DEF MemoryOK, Apart
<1> QED
  BY <1>1, <1>5, <1>6 DEF MemoryOK

LEMMA RemovedOK ==
  ASSUME MemoryOK, NEW p \in DOMAIN blocks, blocks' = Unbind(blocks, p)
  PROVE  /\ MemoryOK'
         /\ DOMAIN blocks' = DOMAIN blocks \ {p}
         /\ \A q \in DOMAIN blocks' : blocks'[q] = blocks[q]
<1>1. DOMAIN blocks' = DOMAIN blocks \ {p} /\ \A q \in DOMAIN blocks' : blocks'[q] = blocks[q]
  BY DEF Unbind
<1>2. blocks' \in [DOMAIN blocks' -> Record]
  BY DEF MemoryOK, Unbind
<1>3. \A q \in DOMAIN blocks' : BlockOK(q)'
  BY <1>1 DEF MemoryOK, BlockOK, Extent
<1>4. \A s, q \in DOMAIN blocks' : s # q => Apart(s, q)'
  BY <1>1 DEF MemoryOK, Apart
<1> QED
  BY <1>1, <1>2, <1>3, <1>4 DEF MemoryOK

-----------------------------------------------------------------------------
(* Each operation. *)
Bound(p, r, rest) ==
  /\ p \notin rest
  /\ DOMAIN blocks' = rest \union {p}
  /\ blocks'[p] = r
  /\ \A q \in rest : blocks'[q] = blocks[q]

LEMMA StoreOK ==
  ASSUME MemoryOK, NEW p \in Static, NEW n \in Nat, Store(p, n)
  PROVE  MemoryOK' /\ Bound(p, Fresh(n, {}), DOMAIN blocks)
<1> DEFINE r == Fresh(n, {})
<1>1. r \in Record /\ r.init \subseteq Bytes(p, r.len) /\ r.ro = FALSE /\ r.len = n
  BY DEF Fresh, Record
<1>2. blocks' = [q \in DOMAIN blocks \union {p} |-> IF q = p THEN r ELSE blocks[q]]
  BY DEF Store, Bind
<1>3. InOneRegion(p, r.len) /\ FreePlace(p, r.len, DOMAIN blocks)
  BY <1>1 DEF Store, InOneRegion
<1> HIDE DEF r
<1>4. MemoryOK' /\ p \notin DOMAIN blocks
  BY <1>1, <1>2, <1>3, PlacedOK
<1> QED
  BY <1>2, <1>4 DEF Bound, r

LEMMA StoreDuplicateOK ==
  ASSUME MemoryOK, NEW p \in Static, NEW n \in Nat, StoreDuplicate(p, n)
  PROVE  MemoryOK' /\ Bound(p, Fresh(n, {}), DOMAIN blocks \ {p})
<1> DEFINE r == Fresh(n, {})
           rest == DOMAIN blocks \ {p}
<1>1. r \in Record /\ r.init \subseteq Bytes(p, r.len) /\ r.ro = FALSE /\ r.len = n
  BY DEF Fresh, Record
<1>2. blocks' = [q \in rest \union {p} |-> IF q = p THEN r ELSE blocks[q]]
  BY DEF StoreDuplicate, Bind, Blocks
<1>3. InOneRegion(p, r.len) /\ FreePlace(p, r.len, rest)
  BY <1>1 DEF StoreDuplicate, InOneRegion
<1>4. rest \in SUBSET DOMAIN blocks
  OBVIOUS
<1> HIDE DEF r, rest
<1>5. MemoryOK' /\ p \notin rest
  BY <1>1, <1>2, <1>3, <1>4, PlacedOK
<1> QED
  BY <1>2, <1>5 DEF Bound, r, rest

LEMMA AllocateOK ==
  ASSUME MemoryOK, NEW p \in Heap, NEW n \in Nat, NEW zeroed \in BOOLEAN, Allocate(p, n, zeroed)
  PROVE  /\ MemoryOK'
         /\ Bound(p, Fresh(n, IF zeroed THEN Bytes(p, n) ELSE {}), DOMAIN blocks)
<1> DEFINE r == Fresh(n, IF zeroed THEN Bytes(p, n) ELSE {})
<1>1. Bytes(p, n) \in SUBSET Int
  BY RegionsInt DEF Bytes
<1>2. r \in Record /\ r.init \subseteq Bytes(p, r.len) /\ r.ro = FALSE /\ r.len = n
  BY <1>1 DEF Fresh, Record
<1>3. blocks' = [q \in DOMAIN blocks \union {p} |-> IF q = p THEN r ELSE blocks[q]]
  BY DEF Allocate, Bind
<1>4. InOneRegion(p, r.len) /\ FreePlace(p, r.len, DOMAIN blocks)
  BY <1>2 DEF Allocate, InOneRegion, Room
<1> HIDE DEF r
<1>5. MemoryOK' /\ p \notin DOMAIN blocks
  BY <1>2, <1>3, <1>4, PlacedOK
<1> QED
  BY <1>3, <1>5 DEF Bound, r

LEMMA ReallocateOK ==
  ASSUME MemoryOK, NEW p \in Heap, NEW q \in Heap, NEW n \in Nat, Reallocate(p, q, n)
  PROVE  MemoryOK' /\ Bound(q, Fresh(n, Kept(p, q, n)), DOMAIN blocks \ {p})
<1> DEFINE r == Fresh(n, Kept(p, q, n))
           rest == DOMAIN blocks \ {p}
<1>1. Bytes(q, n) \in SUBSET Int
  BY RegionsInt DEF Bytes
<1>2. r \in Record /\ r.init \subseteq Bytes(q, r.len) /\ r.ro = FALSE /\ r.len = n
  BY <1>1 DEF Fresh, Record, Kept
<1>3. blocks' = [s \in rest \union {q} |-> IF s = q THEN r ELSE blocks[s]]
  BY DEF Reallocate, Bind, Unbind
<1>4. InOneRegion(q, r.len) /\ FreePlace(q, r.len, rest)
  BY <1>2 DEF Reallocate, InOneRegion, Room
<1>5. rest \in SUBSET DOMAIN blocks
  OBVIOUS
<1> HIDE DEF r, rest
<1>6. MemoryOK' /\ q \notin rest
  BY <1>2, <1>3, <1>4, <1>5, PlacedOK
<1> QED
  BY <1>3, <1>6 DEF Bound, r, rest

Updated(p, r) ==
  /\ DOMAIN blocks' = DOMAIN blocks
  /\ \A q \in DOMAIN blocks : blocks'[q] = IF q = p THEN r ELSE blocks[q]

LEMMA InitializeOK ==
  ASSUME MemoryOK, NEW p, NEW a \in Int, NEW n \in Int, Initialize(p, a, n)
  PROVE  MemoryOK' /\ Updated(p, [blocks[p] EXCEPT !.init = @ \union Bytes(a, n)])
<1> DEFINE r == [blocks[p] EXCEPT !.init = @ \union Bytes(a, n)]
<1>1. p \in DOMAIN blocks /\ blocks[p] \in Record
  BY DEF Initialize, MemoryOK
<1>2. Bytes(a, n) \in SUBSET Int
  BY DEF Bytes
<1>3. r \in Record /\ r.len = blocks[p].len /\ r.init = blocks[p].init \union Bytes(a, n) /\ r.ro = blocks[p].ro
  BY <1>1, <1>2 DEF Record
<1>4. r.init \subseteq Extent(p) /\ (r.ro => p \in Globals)
  BY <1>1, <1>3 DEF Initialize, MemoryOK, BlockOK
<1>5. blocks' = [blocks EXCEPT ![p] = r]
  BY DEF Initialize
<1> HIDE DEF r
<1>6. MemoryOK'
  BY <1>1, <1>3, <1>4, <1>5, UpdatedOK
<1> QED
  BY <1>5, <1>6 DEF Updated, r

LEMMA MarkReadonlyOK ==
  ASSUME MemoryOK, NEW p, MarkReadonly(p)
  PROVE  MemoryOK' /\ Updated(p, [blocks[p] EXCEPT !.ro = TRUE])
<1> DEFINE r == [blocks[p] EXCEPT !.ro = TRUE]
<1>1. p \in DOMAIN blocks /\ p \in Globals /\ blocks[p] \in Record
  BY DEF MarkReadonly, MemoryOK, Blocks
<1>2. r \in Record /\ r.len = blocks[p].len /\ r.init = blocks[p].init
  BY <1>1 DEF Record
<1>3. r.init \subseteq Extent(p) /\ (r.ro => p \in Globals)
  BY <1>1, <1>2 DEF MemoryOK, BlockOK
<1>4. blocks' = [blocks EXCEPT ![p] = r]
  BY DEF MarkReadonly
<1> HIDE DEF r
<1>5. MemoryOK'
  BY <1>1, <1>2, <1>3, <1>4, UpdatedOK
<1> QED
  BY <1>4, <1>5 DEF Updated, r

-----------------------------------------------------------------------------
(* The number of bytes of the heap blocks changes by the length of the     *)
(* block that comes or goes: extents are disjoint.                         *)
LEMMA UnionSplit ==
  ASSUME NEW U, IsFiniteSet(U), NEW S, NEW E \in [S -> SUBSET U], NEW p \in S,
         \A q \in S : q # p => E[p] \intersect E[q] = {}
  PROVE  Cardinality(UNION {E[q] : q \in S})
           = Cardinality(UNION {E[q] : q \in S \ {p}}) + Cardinality(E[p])
<1> DEFINE A == UNION {E[q] : q \in S \ {p}}
<1>1. UNION {E[q] : q \in S} = A \union E[p] /\ A \intersect E[p] = {}
  OBVIOUS
<1>2. A \subseteq U /\ E[p] \subseteq U
  OBVIOUS
<1>3. IsFiniteSet(A) /\ IsFiniteSet(E[p])
  BY <1>2, FS_Subset
<1> HIDE DEF A
<1>4. Cardinality(A \union E[p])
        = Cardinality(A) + Cardinality(E[p]) - Cardinality(A \intersect E[p])
  BY <1>3, FS_Union
<1>5. Cardinality(A) \in Nat /\ Cardinality(E[p]) \in Nat /\ Cardinality({}) = 0
  BY <1>3, FS_CardinalityType, FS_EmptySet
<1>6. Cardinality(A \union E[p]) = Cardinality(A) + Cardinality(E[p])
  BY <1>1, <1>4, <1>5
<1> QED
  BY <1>1, <1>6 DEF A

LEMMA ExtentCardinality ==
  ASSUME NEW p \in Int, NEW n \in Nat
  PROVE  Cardinality(Bytes(p, n)) = n
<1>1. Cardinality(p .. (p + n - 1)) = IF p <= p + n - 1 THEN (p + n - 1) - p + 1 ELSE 0
  BY FS_Interval, p + n - 1 \in Int
<1> QED
  BY <1>1 DEF Bytes

LEMMA HeapExtent ==
  ASSUME MemoryOK, NEW q \in Blocks(Heap)
  PROVE  /\ Extent(q) \in SUBSET Heap
         /\ q \in DOMAIN blocks /\ q \in Int /\ blocks[q].len \in Nat /\ blocks[q].len > 0
<1>1. q \in DOMAIN blocks /\ q \in Heap /\ BlockOK(q) /\ blocks[q].len \in Nat
  BY DEF Blocks, MemoryOK, Record
<1>2. q \in Room(q, blocks[q].len) /\ Extent(q) \subseteq Room(q, blocks[q].len)
  BY <1>1, InRoom, RegionsInt DEF Extent
<1>3. q \notin Stack /\ q \notin Globals
  BY <1>1, DisjointAssumption
<1> QED
  BY <1>1, <1>2, <1>3, RegionsInt DEF BlockOK, InOneRegion

LEMMA HeapSplit ==
  ASSUME MemoryOK, NEW p \in Blocks(Heap)
  PROVE  /\ TotalLength(Blocks(Heap)) = TotalLength(Blocks(Heap) \ {p}) + blocks[p].len
         /\ Cardinality(Blocks(Heap)) = Cardinality(Blocks(Heap) \ {p}) + 1
         /\ TotalLength(Blocks(Heap) \ {p}) \in Nat /\ Cardinality(Blocks(Heap) \ {p}) \in Nat
<1> DEFINE S == Blocks(Heap)
           E == [q \in S |-> Extent(q)]
<1>1. IsFiniteSet(Heap) /\ S \subseteq Heap
  BY AddressesAssumption DEF Blocks
<1>2. E \in [S -> SUBSET Heap]
  BY HeapExtent
<1>3. ASSUME NEW q \in S, q # p PROVE E[p] \intersect E[q] = {}
  <2>1. Apart(p, q)
    BY <1>3 DEF MemoryOK, Blocks
  <2>2. Extent(p) \subseteq Room(p, blocks[p].len) /\ Extent(q) \subseteq Room(q, blocks[q].len)
    BY HeapExtent, InRoom DEF Extent
  <2> QED
    BY <2>1, <2>2 DEF Apart
<1>4. Cardinality(UNION {E[q] : q \in S})
        = Cardinality(UNION {E[q] : q \in S \ {p}}) + Cardinality(E[p])
  <2> HIDE DEF E, S
  <2> QED
    BY <1>1, <1>2, <1>3, UnionSplit DEF S
<1>5. UNION {E[q] : q \in S} = UNION {Extent(q) : q \in S}
  OBVIOUS
<1>6. UNION {E[q] : q \in S \ {p}} = UNION {Extent(q) : q \in S \ {p}}
  OBVIOUS
<1>7. Cardinality(E[p]) = blocks[p].len
  BY HeapExtent, ExtentCardinality DEF Extent
<1>8. IsFiniteSet(S) /\ IsFiniteSet(S \ {p}) /\ IsFiniteSet(UNION {Extent(q) : q \in S \ {p}})
  <2>1. UNION {Extent(q) : q \in S \ {p}} \subseteq Heap
    BY HeapExtent
  <2> QED
    BY <1>1, <2>1, FS_Subset
<1>9. Cardinality(S) = Cardinality(S \ {p}) + 1
  <2>1. Cardinality(S \ {p}) = Cardinality(S) - 1 /\ Cardinality(S) \in Nat
    BY <1>8, FS_RemoveElement, FS_CardinalityType
  <2> QED
    BY <2>1
<1> QED
  BY <1>4, <1>5, <1>6, <1>7, <1>8, <1>9, FS_CardinalityType DEF TotalLength

-----------------------------------------------------------------------------
(* Arithmetic of alignments. *)
LEMMA DivMod ==
  ASSUME NEW n \in Int, NEW m \in Nat \ {0}
  PROVE  n = m * (n \div m) + (n % m) /\ n \div m \in Int /\ n % m \in 0 .. (m - 1)
OBVIOUS

LEMMA Multiple ==
  ASSUME NEW m \in Nat \ {0}, NEW k \in Int
  PROVE  (m * k) % m = 0 /\ m * k \in Int
OBVIOUS

LEMMA MultiplesOrder ==
  ASSUME NEW m \in Nat \ {0}, NEW x \in Int, NEW y \in Int, x % m = 0, y % m = 0, x < y
  PROVE  x + m <= y
<1> DEFINE k == x \div m
           j == y \div m
<1>1. x = m * k /\ y = m * j /\ k \in Int /\ j \in Int
  BY DivMod
<1> HIDE DEF k, j
<1>2. k < j
  <2> SUFFICES ASSUME j <= k PROVE FALSE
    BY <1>1
  <2>1. k - j \in Nat
    BY <1>1
  <2>2. m * (k - j) >= 0
    BY <2>1
  <2> QED
    BY <1>1, <2>2
<1>3. (j - k) - 1 \in Nat
  BY <1>1, <1>2
<1>4. m * ((j - k) - 1) >= 0
  BY <1>3
<1> QED
  BY <1>1, <1>4

LEMMA MultiplesSum ==
  ASSUME NEW m \in Nat \ {0}, NEW x \in Int, NEW y \in Int, x % m = 0, y % m = 0
  PROVE  (x + y) % m = 0 /\ (x - y) % m = 0
<1> DEFINE k == x \div m
           j == y \div m
<1>1. x = m * k /\ y = m * j /\ k \in Int /\ j \in Int
  BY DivMod
<1> HIDE DEF k, j
<1>2. x + y = m * (k + j) /\ x - y = m * (k - j) /\ k + j \in Int /\ k - j \in Int
  BY <1>1
<1> QED
  BY <1>2, Multiple

LEMMA AlignLeft ==
  ASSUME NEW m \in Nat \ {0}, NEW n \in Int
  PROVE  /\ ALIGN_LEFT(n, m) \in Int /\ ALIGN_LEFT(n, m) % m = 0
         /\ ALIGN_LEFT(n, m) <= n /\ n < ALIGN_LEFT(n, m) + m
<1>1. ALIGN_LEFT(n, m) = m * (n \div m) /\ n \div m \in Int
  BY DivMod DEF ALIGN_LEFT
<1> QED
  BY <1>1, DivMod, Multiple DEF ALIGN_LEFT

LEMMA HeapSegment == HEAP_SEGMENT \in Nat \ {0} /\ BYTE \in Nat \ {0} /\ HEAP_SEGMENT % BYTE = 0
BY SegmentAssumption

LEMMA AllocSize ==
  ASSUME NEW n \in Nat
  PROVE  /\ ALLOC_SIZE(n) \in Nat /\ ALLOC_SIZE(n) % HEAP_SEGMENT = 0
         /\ n <= ALLOC_SIZE(n) /\ ALLOC_SIZE(n) < n + HEAP_SEGMENT
<1> DEFINE x == n + HEAP_SEGMENT - 1
<1>1. x \in Int /\ x = n + HEAP_SEGMENT - 1
  BY HeapSegment
<1>2. ALLOC_SIZE(n) = ALIGN_LEFT(x, HEAP_SEGMENT)
  BY DEF ALLOC_SIZE
<1> HIDE DEF x
<1>3. /\ ALIGN_LEFT(x, HEAP_SEGMENT) \in Int /\ ALIGN_LEFT(x, HEAP_SEGMENT) % HEAP_SEGMENT = 0
      /\ ALIGN_LEFT(x, HEAP_SEGMENT) <= x /\ x < ALIGN_LEFT(x, HEAP_SEGMENT) + HEAP_SEGMENT
  BY <1>1, AlignLeft, HeapSegment
<1> QED
  BY <1>1, <1>2, <1>3, HeapSegment

LEMMA AllocSizeGrows ==
  ASSUME NEW m \in Nat, NEW n \in Nat, m <= n
  PROVE  ALLOC_SIZE(m) <= ALLOC_SIZE(n)
<1> SUFFICES ASSUME ALLOC_SIZE(n) < ALLOC_SIZE(m) PROVE FALSE
  BY AllocSize
<1>1. ALLOC_SIZE(n) + HEAP_SEGMENT <= ALLOC_SIZE(m)
  BY AllocSize, MultiplesOrder, HeapSegment
<1> QED
  BY <1>1, AllocSize, HeapSegment

(* A segment is a whole number of bytes of the initialization shadow. *)
LEMMA SegmentBytes ==
  ASSUME NEW x \in Int, x % HEAP_SEGMENT = 0
  PROVE  x % BYTE = 0
<1> DEFINE k == x \div HEAP_SEGMENT
           j == HEAP_SEGMENT \div BYTE
<1>1. x = HEAP_SEGMENT * k /\ HEAP_SEGMENT = BYTE * j /\ k \in Int /\ j \in Int
  BY DivMod, HeapSegment
<1> HIDE DEF k, j
<1>2. x = BYTE * (j * k) /\ j * k \in Int
  BY <1>1, HeapSegment
<1> QED
  BY <1>2, Multiple, HeapSegment

(* The segment of an address is in a range of whole segments when the      *)
(* address is.                                                             *)
LEMMA SegmentInRange ==
  ASSUME NEW a \in Int, NEW p \in Int, NEW S \in Int, p % HEAP_SEGMENT = 0, S % HEAP_SEGMENT = 0
  PROVE  /\ SegmentOf(a) \in Int
         /\ SegmentOf(a) \in Bytes(p, S) <=> a \in Bytes(p, S)
<1>1. /\ SegmentOf(a) \in Int /\ SegmentOf(a) % HEAP_SEGMENT = 0
      /\ SegmentOf(a) <= a /\ a < SegmentOf(a) + HEAP_SEGMENT
  BY AlignLeft, HeapSegment DEF SegmentOf
<1>2. p <= a => p <= SegmentOf(a)
  <2> SUFFICES ASSUME p <= a, SegmentOf(a) < p PROVE FALSE
    BY <1>1
  <2>1. SegmentOf(a) + HEAP_SEGMENT <= p
    BY <1>1, MultiplesOrder, HeapSegment
  <2> QED
    BY <1>1, <2>1, HeapSegment
<1>3. SegmentOf(a) < p + S => a < p + S
  <2> SUFFICES ASSUME SegmentOf(a) < p + S PROVE a < p + S
    OBVIOUS
  <2>1. (p + S) % HEAP_SEGMENT = 0
    BY MultiplesSum, HeapSegment
  <2>2. SegmentOf(a) + HEAP_SEGMENT <= p + S
    BY <1>1, <2>1, MultiplesOrder, HeapSegment
  <2> QED
    BY <1>1, <2>2, HeapSegment
<1> QED
  BY <1>1, <1>2, <1>3 DEF Bytes

LEMMA SegmentOfHeap ==
  ASSUME NEW a \in Heap
  PROVE  SegmentOf(a) \in Segments
<1>1. a \in Int
  BY RegionsInt
<1>2. SegmentOf(a) \in Int /\ SegmentOf(a) % HEAP_SEGMENT = 0
  BY <1>1, AlignLeft, HeapSegment DEF SegmentOf
<1>3. SegmentOf(a) \in Bytes(SegmentOf(a), HEAP_SEGMENT)
  BY <1>2, HeapSegment DEF Bytes
<1> QED
  BY <1>2, <1>3, PlacesAssumption DEF Segments

LEMMA SegmentOfSegment ==
  ASSUME NEW s \in Segments
  PROVE  SegmentOf(s) = s /\ s \in Int /\ s \in Heap /\ s % HEAP_SEGMENT = 0
BY RegionsInt DEF SegmentOf, ALIGN_LEFT, Segments

-----------------------------------------------------------------------------
(* The encoding of lengths and offsets. *)
LEMMA ShortCodes ==
  ASSUME NEW n \in 1 .. 8, NEW i \in 0 .. (n - 1)
  PROVE  LET c == short_offsets_base[n + 1] + i
         IN  /\ c \in 1 .. 36
             /\ short_lengths[c + 1] = n
             /\ short_offsets[c + 1] = i
<1>1. CASE n = 1 BY <1>1 DEF short_offsets_base, short_lengths, short_offsets
<1>2. CASE n = 2 BY <1>2 DEF short_offsets_base, short_lengths, short_offsets
<1>3. CASE n = 3 BY <1>3 DEF short_offsets_base, short_lengths, short_offsets
<1>4. CASE n = 4 BY <1>4 DEF short_offsets_base, short_lengths, short_offsets
<1>5. CASE n = 5 BY <1>5 DEF short_offsets_base, short_lengths, short_offsets
<1>6. CASE n = 6 BY <1>6 DEF short_offsets_base, short_lengths, short_offsets
<1>7. CASE n = 7 BY <1>7 DEF short_offsets_base, short_lengths, short_offsets
<1>8. CASE n = 8 BY <1>8 DEF short_offsets_base, short_lengths, short_offsets
<1> QED
  BY <1>1, <1>2, <1>3, <1>4, <1>5, <1>6, <1>7, <1>8

(* What the static shadows say of a block of n bytes at p. *)
Coded(s, p, n, a) == s.code[a] = CodeOf(n, a - p) /\ s.sec[a] = CellOf(n, a - p, 0)
Marked(s, b, a) == (a \in s.inits <=> a \in b.init) /\ (a \in s.ronly <=> b.ro)
Blank(s, a) == s.code[a] = 0 /\ s.sec[a] = 0 /\ a \notin s.inits
ShadowSet == [code : [Static -> Int], inits : SUBSET Int, ronly : SUBSET Int, sec : [Static -> Int]]
Follows(s, S) ==
  /\ s \in ShadowSet
  /\ \A p \in S : \A a \in Extent(p) : Coded(s, p, blocks[p].len, a) /\ Marked(s, blocks[p], a)
  /\ \A a \in Static : (\A p \in S : a \notin Extent(p)) => Blank(s, a)
StaticOK == Follows(Shadows, Blocks(Static))

LEMMA Block == LONG_BLOCK \in Nat \ {0} /\ LONG_BLOCK \div 2 \in 1 .. (LONG_BLOCK - 1)
BY BlockAssumption

(* The pieces of a long block. *)
LEMMA Piece ==
  ASSUME NEW i \in Nat
  PROVE  LET q == i - (i % LONG_BLOCK)
             h == LONG_BLOCK \div 2
         IN  /\ q \in Nat /\ i % LONG_BLOCK \in 0 .. (LONG_BLOCK - 1)
             /\ q % LONG_BLOCK = 0 /\ (q + h) % LONG_BLOCK = h /\ h # 0
             /\ (q + h) - h = q
<1>1. CASE LONG_BLOCK = 2 BY <1>1
<1>2. CASE LONG_BLOCK = 4 BY <1>2
<1>3. CASE LONG_BLOCK = 8 BY <1>3
<1> QED
  BY <1>1, <1>2, <1>3, BlockAssumption

LEMMA StaticExtent ==
  ASSUME MemoryOK, NEW p \in Blocks(Static)
  PROVE  /\ p \in DOMAIN blocks /\ p \in Int /\ blocks[p].len \in Nat
         /\ Extent(p) \subseteq Static
<1>1. p \in DOMAIN blocks /\ p \in Static /\ BlockOK(p) /\ blocks[p].len \in Nat
  BY DEF Blocks, MemoryOK, Record
<1>2. p \in Room(p, blocks[p].len) /\ Extent(p) \subseteq Room(p, blocks[p].len)
  BY <1>1, InRoom, RegionsInt DEF Extent
<1>3. p \notin Heap
  BY <1>1, DisjointAssumption DEF Static
<1> QED
  BY <1>1, <1>2, <1>3, RegionsInt DEF BlockOK, InOneRegion, Static

LEMMA StaticApart ==
  ASSUME MemoryOK, NEW p \in DOMAIN blocks, NEW q \in DOMAIN blocks, p # q
  PROVE  Extent(p) \intersect Extent(q) = {}
<1>1. p \in Int /\ q \in Int /\ blocks[p].len \in Nat /\ blocks[q].len \in Nat
  BY RegionsInt DEF MemoryOK, Record, BlockOK
<1>2. Extent(p) \subseteq Room(p, blocks[p].len) /\ Extent(q) \subseteq Room(q, blocks[q].len)
  BY <1>1, InRoom DEF Extent
<1> QED
  BY <1>2 DEF MemoryOK, Apart

(* The code and the cells of a byte of a block give back its length and    *)
(* its offset.                                                             *)
LEMMA Decoded ==
  ASSUME MemoryOK, StaticOK, NEW p \in Blocks(Static), NEW a \in Extent(p)
  PROVE  /\ code[a] # 0
         /\ LengthAt(a) = blocks[p].len
         /\ OffsetAt(a) = a - p
<1> DEFINE n == blocks[p].len
           i == a - p
<1>1. p \in Int /\ n \in Nat /\ a \in Int /\ i \in Nat /\ i < n /\ a = p + i
  BY StaticExtent DEF Extent, Bytes
<1>2. \A b \in Extent(p) : code[b] = CodeOf(n, b - p) /\ sec[b] = CellOf(n, b - p, 0)
  BY DEF StaticOK, Follows, Coded, Shadows
<1>3. code[a] = CodeOf(n, i)
  BY <1>2
<1>4. \A j \in Nat : j < n => sec[p + j] = CellOf(n, j, 0)
  <2> SUFFICES ASSUME NEW j \in Nat, j < n PROVE sec[p + j] = CellOf(n, j, 0)
    OBVIOUS
  <2>1. p + j \in Extent(p) /\ (p + j) - p = j
    BY <1>1 DEF Extent, Bytes
  <2> QED
    BY <1>2, <2>1
<1> HIDE DEF n, i
<1>5. CASE n <= LONG_BLOCK
  <2>1. n \in 1 .. 8 /\ i \in 0 .. (n - 1)
    BY <1>1, <1>5, BlockAssumption
  <2>2. code[a] = short_offsets_base[n + 1] + i
    BY <1>3, <1>5 DEF CodeOf
  <2>3. code[a] \in 1 .. 36 /\ short_lengths[code[a] + 1] = n /\ short_offsets[code[a] + 1] = i
    BY <2>1, <2>2, ShortCodes
  <2>4. ~IsLong(a)
    BY <2>3 DEF IsLong, LONG_BLOCK_INDEX_START
  <2> QED
    BY <2>3, <2>4 DEF LengthAt, OffsetAt, n, i
<1>6. CASE n > LONG_BLOCK
  <2> DEFINE r == i % LONG_BLOCK
             q == i - r
             e == ALIGN_LEFT(n, LONG_BLOCK)
             h == LONG_BLOCK \div 2
  <2>1. /\ q \in Nat /\ r \in 0 .. (LONG_BLOCK - 1) /\ q % LONG_BLOCK = 0
        /\ (q + h) % LONG_BLOCK = h /\ h # 0 /\ (q + h) - h = q /\ i = q + r
    BY <1>1, Piece
  <2>2. e \in Int /\ e % LONG_BLOCK = 0 /\ e <= n /\ n < e + LONG_BLOCK
    BY <1>1, AlignLeft, Block
  <2>3. h \in 1 .. (LONG_BLOCK - 1) /\ LONG_BLOCK \in Nat \ {0}
    BY Block
  <2>7. i % LONG_BLOCK = r /\ ALIGN_LEFT(n, LONG_BLOCK) = e /\ LONG_BLOCK \div 2 = h
    OBVIOUS
  <2> HIDE DEF r, q, e, h
  <2>8. q \in Int /\ e \in Int /\ q % LONG_BLOCK = 0 /\ e % LONG_BLOCK = 0
    BY <2>1, <2>2
  (* The cells of a whole piece. *)
  <2>4. ASSUME NEW k \in Nat, k % LONG_BLOCK = 0, k < e,
               (k + h) % LONG_BLOCK = h
        PROVE  /\ k + LONG_BLOCK <= e
               /\ sec[p + k] = n /\ sec[p + k + h] = k
    <3>1. k + LONG_BLOCK <= e
      BY <2>2, <2>3, <2>4, MultiplesOrder
    <3>2. k < n /\ k + h < n /\ k + h < e /\ k + h \in Nat
      BY <1>1, <3>1, <2>2, <2>3
    <3>3. CellOf(n, k, 0) = n
      BY <2>4, <1>6, <1>1, <2>3, <2>2, <2>7 DEF CellOf
    <3>4. CellOf(n, k + h, 0) = (k + h) - h
      BY <2>4, <1>6, <1>1, <2>3, <2>2, <3>2, <2>7 DEF CellOf
    <3>5. sec[p + (k + h)] = k
      BY <1>4, <3>2, <3>4, <2>3
    <3> QED
      BY <1>1, <1>4, <3>1, <3>2, <3>3, <3>5, <2>3
  <2>5. CASE i < e
    <3>1. code[a] = LONG_BLOCK_INDEX_START + r
      BY <1>3, <1>6, <2>5, <1>1, <2>3, <2>7 DEF CodeOf
    <3>2. IsLong(a) /\ IndexOf(a) = r
      BY <3>1, <2>1 DEF IsLong, IndexOf, LONG_BLOCK_INDEX_START
    <3>3. q < e
      BY <2>1, <2>2, <2>5
    <3>4. sec[p + q] = n /\ sec[p + q + h] = q
      BY <2>1, <2>4, <3>3
    <3>5. a - IndexOf(a) = p + q
      BY <1>1, <2>1, <3>2
    <3>6. LengthAt(a) = n /\ OffsetAt(a) = q + r
      BY <3>2, <3>4, <3>5, <2>7 DEF LengthAt, OffsetAt
    <3> QED
      BY <3>1, <3>6, <2>1 DEF LONG_BLOCK_INDEX_START, n, i
  <2>6. CASE i >= e
    <3>1. code[a] = LONG_BLOCK_INDEX_START + LONG_BLOCK + r
      BY <1>3, <1>6, <2>6, <1>1, <2>2, <2>3, <2>7 DEF CodeOf
    <3>2. IsLong(a) /\ IndexOf(a) = LONG_BLOCK + r
      BY <3>1, <2>1, <2>3 DEF IsLong, IndexOf, LONG_BLOCK_INDEX_START
    <3>3. q = e
      <4>1. q < e + LONG_BLOCK /\ e < q + LONG_BLOCK
        BY <1>1, <2>1, <2>2, <2>3, <2>6
      <4>2. ASSUME q < e PROVE FALSE
        <5>1. q + LONG_BLOCK <= e
          BY <4>2, <2>8, <2>3, MultiplesOrder
        <5> QED
          BY <4>1, <5>1, <2>1, <2>2, <2>3
      <4>3. ASSUME e < q PROVE FALSE
        <5>1. e + LONG_BLOCK <= q
          BY <4>3, <2>8, <2>3, MultiplesOrder
        <5> QED
          BY <4>1, <5>1, <2>1, <2>2, <2>3
      <4> QED
        BY <4>2, <4>3, <2>1, <2>2
    <3> DEFINE k == q - LONG_BLOCK
    <3>4. k \in Nat /\ k < e /\ k = q - LONG_BLOCK
      <4>1. e > 0
        BY <1>6, <1>1, <2>2, <2>3
      <4>2. 0 % LONG_BLOCK = 0
        BY <2>3
      <4>3. 0 + LONG_BLOCK <= e
        BY <4>1, <4>2, <2>2, <2>3, MultiplesOrder
      <4> QED
        BY <4>3, <3>3, <2>3, <2>2
    <3>5. k % LONG_BLOCK = 0 /\ (k + h) % LONG_BLOCK = h
      <4>1. LONG_BLOCK % LONG_BLOCK = 0
        BY BlockAssumption
      <4>2. k % LONG_BLOCK = 0
        <5>1. LONG_BLOCK \in Int /\ q \in Int
          BY <2>1, <2>3
        <5>2. (q - LONG_BLOCK) % LONG_BLOCK = 0
          BY <4>1, <5>1, <2>1, <2>3, MultiplesSum
        <5> QED
          BY <5>2
      <4>3. k - (k % LONG_BLOCK) = k
        BY <4>2, <3>4
      <4> QED
        BY <4>2, <4>3, <3>4, <2>7, Piece
    <3> HIDE DEF k
    <3>6. sec[p + k] = n /\ sec[p + k + h] = k
      BY <2>4, <3>4, <3>5
    <3>7. a - IndexOf(a) = p + k
      BY <1>1, <2>1, <2>3, <3>2, <3>4
    <3>8. LengthAt(a) = n /\ OffsetAt(a) = k + (LONG_BLOCK + r)
      BY <3>2, <3>6, <3>7, <2>7 DEF LengthAt, OffsetAt
    <3> QED
      BY <3>1, <3>4, <3>8, <2>1, <2>3 DEF LONG_BLOCK_INDEX_START, n, i
  <2> QED
    BY <2>5, <2>6, <2>2, <1>1
<1> QED
  BY <1>1, <1>5, <1>6, Block

(* Elsewhere there is at most a read-only bit, which says nothing alone. *)
LEMMA Undecoded ==
  ASSUME StaticOK, NEW a \in Static, \A p \in Blocks(Static) : a \notin Extent(p)
  PROVE  code[a] = 0 /\ sec[a] = 0 /\ a \notin inits /\ LengthAt(a) = 0 /\ OffsetAt(a) = 0
<1>1. code[a] = 0 /\ sec[a] = 0 /\ a \notin inits
  BY DEF StaticOK, Follows, Blank, Shadows
<1> QED
  BY <1>1 DEF LengthAt, OffsetAt, IsLong, LONG_BLOCK_INDEX_START, short_lengths, short_offsets

(* What delete_block and the queries on the block itself read. *)
LEMMA StaticLength ==
  ASSUME MemoryOK, StaticOK, NEW p \in Blocks(Static)
  PROVE  static_info(p).len = blocks[p].len
<1>1. p \in Static /\ p \in Int /\ blocks[p].len \in Nat /\ p \in DOMAIN blocks
  BY StaticExtent DEF Blocks
<1>2. CASE blocks[p].len = 0
  <2>1. ASSUME NEW q \in Blocks(Static), p \in Extent(q) PROVE FALSE
    <3>1. q \in DOMAIN blocks /\ q \in Int /\ blocks[q].len \in Nat
      BY StaticExtent
    <3>2. p # q
      BY <2>1, <3>1, <1>2 DEF Extent, Bytes
    <3>3. p \in Room(p, blocks[p].len) /\ p \in Room(q, blocks[q].len)
      BY <1>1, <2>1, <3>1, InRoom DEF Extent
    <3> QED
      BY <1>1, <3>1, <3>2, <3>3 DEF MemoryOK, Apart
  <2>2. LengthAt(p) = 0
    BY <1>1, <2>1, Undecoded
  <2> QED
    BY <1>2, <2>2 DEF static_info
<1>3. CASE blocks[p].len # 0
  <2>1. p \in Extent(p)
    BY <1>1, <1>3 DEF Extent, Bytes
  <2>2. code[p] # 0 /\ LengthAt(p) = blocks[p].len
    BY <2>1, Decoded
  <2> QED
    BY <2>2 DEF static_info, static_allocated_one
<1> QED
  BY <1>2, <1>3

LEMMA FreeaFollows ==
  ASSUME MemoryOK, StaticOK, NEW p \in Blocks(Static)
  PROVE  Follows(shadow_freea(Shadows, p), Blocks(Static) \ {p})
<1> DEFINE s == shadow_freea(Shadows, p)
           here == Extent(p)
<1>1. here = Bytes(p, static_info(p).len)
  BY StaticLength DEF Extent
<1>2. s = [code |-> [a \in Static |-> IF a \in here THEN 0 ELSE code[a]],
           inits |-> inits \ here, ronly |-> ronly \ here,
           sec |-> [a \in Static |-> IF a \in here THEN 0 ELSE sec[a]]]
  BY <1>1 DEF shadow_freea, Shadows
<1>3. Shadows \in ShadowSet /\ code \in [Static -> Int] /\ sec \in [Static -> Int]
      /\ inits \in SUBSET Int /\ ronly \in SUBSET Int
  BY DEF StaticOK, Follows, Shadows, ShadowSet
<1> HIDE DEF s, here
<1>4. s \in ShadowSet
  <2>1. [a \in Static |-> IF a \in here THEN 0 ELSE code[a]] \in [Static -> Int]
    BY <1>3
  <2>2. [a \in Static |-> IF a \in here THEN 0 ELSE sec[a]] \in [Static -> Int]
    BY <1>3
  <2>3. inits \ here \in SUBSET Int /\ ronly \ here \in SUBSET Int
    BY <1>3
  <2> QED
    BY <1>2, <2>1, <2>2, <2>3 DEF ShadowSet
<1>5. ASSUME NEW q \in Blocks(Static) \ {p}, NEW a \in Extent(q)
      PROVE  Coded(s, q, blocks[q].len, a) /\ Marked(s, blocks[q], a)
  <2>1. a \notin here /\ a \in Static
    BY StaticApart, StaticExtent DEF here
  <2>2. Coded(Shadows, q, blocks[q].len, a) /\ Marked(Shadows, blocks[q], a)
    BY DEF StaticOK, Follows
  <2> QED
    BY <1>2, <2>1, <2>2 DEF Coded, Marked, Shadows
<1>6. ASSUME NEW a \in Static, \A q \in Blocks(Static) \ {p} : a \notin Extent(q)
      PROVE  Blank(s, a)
  <2>1. CASE a \in here
    BY <1>2, <2>1 DEF Blank
  <2>2. CASE a \notin here
    <3>1. Blank(Shadows, a)
      BY <1>6, <2>2 DEF here, StaticOK, Follows
    <3> QED
      BY <1>2, <2>2, <3>1 DEF Blank, Shadows
  <2> QED
    BY <2>1, <2>2
<1> QED
  BY <1>4, <1>5, <1>6 DEF Follows, s

LEMMA CodeTypes ==
  ASSUME NEW n \in Nat, NEW i \in Nat, i < n, NEW old \in Int
  PROVE  CodeOf(n, i) \in Int /\ CellOf(n, i, old) \in Int
<1>1. i % LONG_BLOCK \in Int
  BY DivMod, Block
<1>2. CASE n <= LONG_BLOCK
  <2>1. n \in 1 .. 8 /\ i \in 0 .. (n - 1)
    BY <1>2, BlockAssumption
  <2> QED
    BY <1>2, <2>1, ShortCodes DEF CodeOf, CellOf
<1>3. CASE n > LONG_BLOCK
  BY <1>1, <1>3, Block DEF CodeOf, CellOf, LONG_BLOCK_INDEX_START
<1> QED
  BY <1>2, <1>3, Block

(* Shadows that follow the blocks rest everywhere but where a block of n   *)
(* bytes is placed, at p, whose cells keep no other value.                 *)
FollowsApart(s, rest, p, n) ==
  /\ s \in ShadowSet
  /\ \A q \in rest : \A a \in Extent(q) : Coded(s, q, blocks[q].len, a) /\ Marked(s, blocks[q], a)
  /\ \A a \in Static \ Bytes(p, n) : (\A q \in rest : a \notin Extent(q)) => Blank(s, a)
  /\ \A a \in Bytes(p, n) : CellOf(n, a - p, s.sec[a]) = CellOf(n, a - p, 0)

LEMMA AllocaFollows ==
  ASSUME MemoryOK, MemoryOK', NEW rest \in SUBSET Blocks(Static), NEW s, NEW p \in Static, NEW n \in Nat,
         Bound(p, Fresh(n, {}), DOMAIN blocks \ (Blocks(Static) \ rest)),
         FollowsApart(s, rest, p, n),
         Shadows' = shadow_alloca(s, p, n)
  PROVE  StaticOK'
<1> DEFINE t == shadow_alloca(s, p, n)
           here == Bytes(p, n)
<1>1. p \in Int /\ p \notin rest /\ blocks'[p] = Fresh(n, {}) /\ Blocks(Static)' = rest \union {p}
  BY RegionsInt DEF Bound, Blocks
<1>2. \A q \in rest : blocks'[q] = blocks[q] /\ Extent(q)' = Extent(q)
  BY DEF Bound, Blocks, Extent
<1>3. Extent(p)' = here
  BY <1>1 DEF Extent, Fresh
<1>4. \A q \in rest : Extent(q) \intersect here = {}
  <2> SUFFICES ASSUME NEW q \in rest PROVE Extent(q) \intersect here = {}
    OBVIOUS
  <2>1. q \in DOMAIN blocks' /\ p \in DOMAIN blocks' /\ q # p
    BY <1>1 DEF Bound, Blocks
  <2>2. blocks'[q].len \in Nat /\ blocks'[q].len = blocks[q].len /\ blocks'[p].len = n
    BY <2>1, <1>1, <1>2 DEF MemoryOK, Record, Fresh
  <2>3. Room(q, blocks'[q].len) \intersect Room(p, blocks'[p].len) = {}
    BY <2>1 DEF MemoryOK, Apart
  <2>4. Extent(q) \subseteq Room(q, blocks'[q].len) /\ here \subseteq Room(p, blocks'[p].len)
    BY <1>1, <2>2, InRoom, RegionsInt DEF Extent, Blocks
  <2> QED
    BY <2>3, <2>4
<1>5. here \subseteq Static
  <2>1. p \in DOMAIN blocks' /\ p \notin Heap /\ BlockOK(p)' /\ blocks'[p].len = n
    BY <1>1, DisjointAssumption DEF Bound, MemoryOK, Fresh, Static
  <2>2. p \in Room(p, n) /\ here \subseteq Room(p, n)
    BY <1>1, InRoom
  <2> QED
    BY <2>1, <2>2 DEF BlockOK, InOneRegion, Static
<1>6. s \in ShadowSet
  BY DEF FollowsApart
<1>7. p \notin here => n = 0 /\ here = {} 
  BY <1>1 DEF Bytes
<1>8. /\ t \in ShadowSet
      /\ \A a \in Static : t.code[a] = (IF a \in here THEN CodeOf(n, a - p) ELSE s.code[a])
      /\ \A a \in Static : t.sec[a] = (IF a \in here THEN CellOf(n, a - p, s.sec[a]) ELSE s.sec[a])
      /\ \A a \in Static : a \in t.inits <=> a \in s.inits /\ a \notin here
      /\ \A a \in Static \ {p} : a \in t.ronly <=> a \in s.ronly /\ a \notin here
      /\ n > 0 => (p \in t.ronly <=> FALSE)
  <2>1. CASE n = 0
    <3>1. here = {}
      BY <1>1, <2>1 DEF Bytes
    <3>2. t = [s EXCEPT !.ronly = s.ronly \union {p}]
      BY <2>1 DEF shadow_alloca
    <3> HIDE DEF t
    <3>3. t.code = s.code /\ t.sec = s.sec /\ t.inits = s.inits /\ t.ronly = s.ronly \union {p} /\ t \in ShadowSet
      BY <1>1, <1>6, <3>2 DEF ShadowSet
    <3> HIDE DEF here
    <3>4. \A a : a \notin here
      BY <3>1
    <3> QED
      BY <2>1, <3>3, <3>4
  <2>2. CASE n # 0
    <3>1. t = [code |-> [a \in Static |-> IF a \in here THEN CodeOf(n, a - p) ELSE s.code[a]],
               inits |-> s.inits \ here,
               ronly |-> s.ronly \ here,
               sec |-> [a \in Static |-> IF a \in here THEN CellOf(n, a - p, s.sec[a]) ELSE s.sec[a]]]
      BY <2>2 DEF shadow_alloca
    <3>2. p \in here
      BY <1>7, <2>2
    <3> HIDE DEF t
    <3>3. \A a \in here : CodeOf(n, a - p) \in Int /\ CellOf(n, a - p, s.sec[a]) \in Int
      <4> SUFFICES ASSUME NEW a \in here PROVE CodeOf(n, a - p) \in Int /\ CellOf(n, a - p, s.sec[a]) \in Int
        OBVIOUS
      <4>1. a \in Static /\ a - p \in Nat /\ a - p < n /\ s.sec[a] \in Int
        BY <1>1, <1>5, <1>6 DEF here, Bytes, ShadowSet
      <4> QED
        BY <4>1, CodeTypes
    <3>4. t \in ShadowSet
      BY <1>6, <3>1, <3>3 DEF ShadowSet
    <3> HIDE DEF here
    <3> QED
      BY <3>1, <3>2, <3>4
  <2> QED
    BY <2>1, <2>2
<1>9. Shadows' = t
  OBVIOUS
<1> HIDE DEF t, here
<1>10. ASSUME NEW q \in rest, NEW a \in Extent(q)
       PROVE  Coded(t, q, blocks[q].len, a) /\ Marked(t, blocks[q], a)
  <2>1. a \notin here /\ a \in Static
    BY <1>4, StaticExtent
  <2>2. Coded(s, q, blocks[q].len, a) /\ Marked(s, blocks[q], a)
    BY DEF FollowsApart
  <2>3. a # p
    <3>1. q \in DOMAIN blocks' /\ p \in DOMAIN blocks' /\ q # p
      BY <1>1 DEF Bound, Blocks
    <3>2. blocks'[q].len \in Nat /\ blocks'[p].len \in Nat /\ q \in Int
      BY <3>1, RegionsInt DEF MemoryOK, Record, Blocks
    <3>3. a \in Room(q, blocks'[q].len)
      BY <3>2, <1>2, InRoom DEF Extent
    <3>4. p \in Room(p, blocks'[p].len)
      BY <3>2, <1>1, InRoom
    <3> QED
      BY <3>1, <3>3, <3>4 DEF MemoryOK, Apart
  <2>4. t.code[a] = s.code[a] /\ t.sec[a] = s.sec[a]
    BY <1>8, <2>1
  <2>5. (a \in t.inits <=> a \in s.inits) /\ (a \in t.ronly <=> a \in s.ronly)
    BY <1>8, <2>1, <2>3
  <2>6. Coded(t, q, blocks[q].len, a)
    BY <2>2, <2>4 DEF Coded
  <2>7. Marked(t, blocks[q], a)
    BY <2>2, <2>5 DEF Marked
  <2> QED
    BY <2>6, <2>7
<1>11. ASSUME NEW a \in here
       PROVE  Coded(t, p, n, a) /\ Marked(t, Fresh(n, {}), a)
  <2>1. a \in Static /\ n > 0
    BY <1>1, <1>5 DEF here, Bytes
  <2>2. CellOf(n, a - p, s.sec[a]) = CellOf(n, a - p, 0)
    BY DEF FollowsApart, here
  <2>3. Fresh(n, {}).init = {} /\ Fresh(n, {}).ro = FALSE
    BY DEF Fresh
  <2>4. Coded(t, p, n, a)
    BY <1>8, <2>1, <2>2 DEF Coded
  <2>5. a \notin t.inits
    BY <1>8, <2>1
  <2>6. a \notin t.ronly
    BY <1>8, <2>1
  <2>7. Marked(t, Fresh(n, {}), a)
    BY <2>3, <2>5, <2>6 DEF Marked
  <2> QED
    BY <2>4, <2>7
<1>12. ASSUME NEW a \in Static, \A q \in rest \union {p} : a \notin Extent(q)'
       PROVE  Blank(t, a)
  <2>1. a \notin here /\ \A q \in rest : a \notin Extent(q)
    BY <1>2, <1>3, <1>12
  <2>2. Blank(s, a)
    BY <2>1 DEF FollowsApart, here
  <2> QED
    BY <1>8, <2>1, <2>2 DEF Blank
<1> QED
  <2>1. \A q \in Blocks(Static)' : \A a \in Extent(q)' :
           Coded(t, q, blocks'[q].len, a) /\ Marked(t, blocks'[q], a)
    <3> SUFFICES ASSUME NEW q \in rest \union {p}, NEW a \in Extent(q)'
                 PROVE  Coded(t, q, blocks'[q].len, a) /\ Marked(t, blocks'[q], a)
      BY <1>1
    <3>1. CASE q \in rest
      BY <1>2, <1>10, <3>1
    <3>2. CASE q = p
      <4>1. blocks'[q] = Fresh(n, {}) /\ Fresh(n, {}).len = n
        BY <1>1, <3>2 DEF Fresh
      <4> QED
        BY <1>3, <1>11, <3>2, <4>1
    <3> QED
      BY <3>1, <3>2
  <2>2. \A a \in Static : (\A q \in Blocks(Static)' : a \notin Extent(q)') => Blank(t, a)
    BY <1>1, <1>12
  <2> QED
    BY <1>8, <1>9, <2>1, <2>2 DEF StaticOK, Follows, Coded, Marked, Blank

LEMMA CellOverwritten ==
  ASSUME NEW m \in Nat, NEW n \in Nat, m < n, NEW i \in Nat, i < m
  PROVE  CellOf(n, i, CellOf(m, i, 0)) = CellOf(n, i, 0)
<1> DEFINE d == ALIGN_LEFT(m, LONG_BLOCK)
           e == ALIGN_LEFT(n, LONG_BLOCK)
<1>1. d \in Int /\ d % LONG_BLOCK = 0 /\ d <= m /\ m < d + LONG_BLOCK
  BY AlignLeft, Block
<1>2. e \in Int /\ e % LONG_BLOCK = 0 /\ e <= n /\ n < e + LONG_BLOCK
  BY AlignLeft, Block
<1>3. d <= e
  <2> HIDE DEF d, e
  <2> SUFFICES ASSUME e < d PROVE FALSE
    BY <1>1, <1>2
  <2>1. e + LONG_BLOCK <= d
    BY <1>1, <1>2, Block, MultiplesOrder
  <2> QED
    BY <1>1, <1>2, <2>1, Block
<1>4. CASE m <= LONG_BLOCK \/ i >= d
  BY <1>4 DEF CellOf
<1>5. CASE m > LONG_BLOCK /\ i < d
  <2>1. n > LONG_BLOCK /\ i < e
    BY <1>1, <1>2, <1>3, <1>5, Block
  <2>2. ~(m <= LONG_BLOCK \/ i >= d) /\ ~(n <= LONG_BLOCK \/ i >= e)
    BY <1>1, <1>2, <1>5, <2>1, Block
  <2> HIDE DEF d, e
  <2> QED
    BY <2>2 DEF CellOf, d, e
<1> QED
  BY <1>1, <1>4, <1>5, Block

LEMMA FreeBytes ==
  ASSUME MemoryOK, NEW p \in Int, NEW n \in Nat, NEW others \in SUBSET DOMAIN blocks,
         FreePlace(p, n, others), NEW q \in others
  PROVE  Bytes(p, n) \intersect Extent(q) = {}
<1>1. q \in Int /\ blocks[q].len \in Nat
  BY RegionsInt DEF MemoryOK, BlockOK, Record
<1>2. Extent(q) \subseteq Room(q, blocks[q].len) /\ Bytes(p, n) \subseteq Room(p, n)
  BY <1>1, InRoom DEF Extent
<1> QED
  BY <1>2 DEF FreePlace

LEMMA StaticRoom ==
  ASSUME NEW p \in Static, NEW n \in Nat,
         Room(p, n) \subseteq Stack \/ Room(p, n) \subseteq Globals
  PROVE  Bytes(p, n) \subseteq Static
BY InRoom, RegionsInt DEF Static

LEMMA StoreStatic ==
  ASSUME MemoryOK, StaticOK, NEW p \in Bases, NEW n \in StaticSizes, store_block(p, n)
  PROVE  MemoryOK' /\ StaticOK' /\ Bound(p, Fresh(n, {}), DOMAIN blocks)
<1>1. p \in Static /\ p \in Int /\ n \in Nat
  BY PlacesAssumption, SizesAssumption, RegionsInt
<1>2. Store(p, n)
  BY DEF store_block
<1>3. MemoryOK' /\ Bound(p, Fresh(n, {}), DOMAIN blocks)
  BY <1>1, <1>2, StoreOK
<1>4. Shadows' = shadow_alloca(Shadows, p, n)
  <2>1. Shadows \in ShadowSet
    BY DEF StaticOK, Follows
  <2> DEFINE t == shadow_alloca(Shadows, p, n)
  <2>2. t = [code |-> t.code, inits |-> t.inits, ronly |-> t.ronly, sec |-> t.sec]
    BY <2>1 DEF shadow_alloca, ShadowSet, Shadows
  <2>3. code' = t.code /\ inits' = t.inits /\ ronly' = t.ronly /\ sec' = t.sec
    BY DEF store_block, SetShadows
  <2> HIDE DEF t
  <2> QED
    BY <2>2, <2>3 DEF Shadows, t
<1>5. FollowsApart(Shadows, Blocks(Static), p, n)
  <2>1. Follows(Shadows, Blocks(Static))
    BY DEF StaticOK
  <2>2. ASSUME NEW a \in Bytes(p, n) PROVE CellOf(n, a - p, Shadows.sec[a]) = CellOf(n, a - p, 0)
    <3>1. a \in Static
      BY <1>1, <1>2, StaticRoom DEF Store
    <3>2. \A q \in Blocks(Static) : a \notin Extent(q)
      BY <1>1, <1>2, FreeBytes DEF Store, Blocks
    <3>3. Shadows.sec[a] = 0
      BY <2>1, <3>1, <3>2 DEF Follows, Blank
    <3> QED
      BY <3>3
  <2> QED
    BY <2>1, <2>2 DEF FollowsApart, Follows
<1>6. DOMAIN blocks \ (Blocks(Static) \ Blocks(Static)) = DOMAIN blocks
  OBVIOUS
<1> QED
  BY <1>1, <1>3, <1>4, <1>5, <1>6, AllocaFollows

LEMMA DeleteStatic ==
  ASSUME MemoryOK, StaticOK, NEW p \in Blocks(Static), delete_block(p)
  PROVE  /\ MemoryOK' /\ StaticOK'
         /\ DOMAIN blocks' = DOMAIN blocks \ {p}
         /\ \A q \in DOMAIN blocks' : blocks'[q] = blocks[q]
<1>1. p \in DOMAIN blocks /\ blocks' = Unbind(blocks, p)
  BY DEF delete_block, Delete, Blocks
<1>2. /\ MemoryOK' /\ DOMAIN blocks' = DOMAIN blocks \ {p}
      /\ \A q \in DOMAIN blocks' : blocks'[q] = blocks[q]
  BY <1>1, RemovedOK
<1> DEFINE t == shadow_freea(Shadows, p)
<1>3. Follows(t, Blocks(Static) \ {p})
  BY FreeaFollows
<1>4. Shadows' = t
  <2>1. t = [code |-> t.code, inits |-> t.inits, ronly |-> t.ronly, sec |-> t.sec]
    BY DEF shadow_freea
  <2>2. code' = t.code /\ inits' = t.inits /\ ronly' = t.ronly /\ sec' = t.sec
    BY DEF delete_block, SetShadows
  <2> HIDE DEF t
  <2> QED
    BY <2>1, <2>2 DEF Shadows
<1>5. Blocks(Static)' = Blocks(Static) \ {p}
  BY <1>2 DEF Blocks
<1>6. \A q \in Blocks(Static)' : blocks'[q] = blocks[q] /\ Extent(q)' = Extent(q)
  BY <1>2 DEF Blocks, Extent
<1> HIDE DEF t
<1>7. StaticOK'
  <2>1. ASSUME NEW q \in Blocks(Static)', NEW a \in Extent(q)'
        PROVE  Coded(t, q, blocks'[q].len, a) /\ Marked(t, blocks'[q], a)
    BY <1>3, <1>5, <1>6 DEF Follows
  <2>2. ASSUME NEW a \in Static, \A q \in Blocks(Static)' : a \notin Extent(q)'
        PROVE  Blank(t, a)
    BY <1>3, <1>5, <1>6, <2>2 DEF Follows
  <2>3. t \in ShadowSet
    BY <1>3 DEF Follows
  <2> QED
    BY <1>4, <2>1, <2>2, <2>3 DEF StaticOK, Follows, Coded, Marked, Blank
<1> QED
  BY <1>2, <1>7

LEMMA DuplicateStatic ==
  ASSUME MemoryOK, StaticOK, NEW p \in Bases, NEW n \in StaticSizes, store_block_duplicate(p, n)
  PROVE  MemoryOK' /\ StaticOK' /\ Bound(p, Fresh(n, {}), DOMAIN blocks \ {p})
<1> DEFINE m == blocks[p].len
           rest == Blocks(Static) \ {p}
           s == IF allocated(p, n, p) THEN shadow_freea(Shadows, p) ELSE Shadows
<1>1. p \in Static /\ p \in Int /\ n \in Nat /\ p \in Blocks(Static) /\ StoreDuplicate(p, n)
  BY PlacesAssumption, SizesAssumption, RegionsInt DEF store_block_duplicate, StoreDuplicate
<1>2. MemoryOK' /\ Bound(p, Fresh(n, {}), DOMAIN blocks \ {p})
  BY <1>1, StoreDuplicateOK
<1>3. Follows(Shadows, Blocks(Static)) /\ Follows(shadow_freea(Shadows, p), rest)
  BY <1>1, FreeaFollows DEF StaticOK
<1>4. Shadows' = shadow_alloca(s, p, n)
  <2>1. s \in ShadowSet
    BY <1>3 DEF Follows
  <2> DEFINE t == shadow_alloca(s, p, n)
  <2>2. code' = t.code /\ inits' = t.inits /\ ronly' = t.ronly /\ sec' = t.sec
    BY DEF store_block_duplicate, SetShadows
  <2> HIDE DEF s
  <2>3. t = [code |-> t.code, inits |-> t.inits, ronly |-> t.ronly, sec |-> t.sec]
    BY <2>1 DEF shadow_alloca, ShadowSet
  <2> HIDE DEF t
  <2> QED
    BY <2>2, <2>3 DEF Shadows, t
<1>5. Bytes(p, n) \subseteq Static /\ \A q \in rest : Bytes(p, n) \intersect Extent(q) = {}
  <2>1. Bytes(p, n) \subseteq Static
    BY <1>1, StaticRoom DEF StoreDuplicate
  <2>2. ASSUME NEW q \in rest PROVE Bytes(p, n) \intersect Extent(q) = {}
    <3>1. q \in DOMAIN blocks \ {p} /\ FreePlace(p, n, DOMAIN blocks \ {p})
      BY <1>1 DEF StoreDuplicate, Blocks
    <3> QED
      BY <1>1, <3>1, FreeBytes, DOMAIN blocks \ {p} \in SUBSET DOMAIN blocks
  <2> QED
    BY <2>1, <2>2
<1>6. m \in Nat /\ Extent(p) = Bytes(p, m)
  BY <1>1, StaticExtent DEF Extent
<1>7. CASE allocated(p, n, p)
  <2>1. Follows(s, rest)
    BY <1>3, <1>7
  <2> HIDE DEF s, rest
  <2>2. ASSUME NEW a \in Bytes(p, n) PROVE s.sec[a] = 0
    BY <1>5, <2>1 DEF Follows, Blank
  <2>3. FollowsApart(s, rest, p, n)
    BY <2>1, <2>2 DEF Follows, FollowsApart
  <2> QED
    BY <2>3, <1>1, <1>2, <1>4, AllocaFollows, rest \in SUBSET Blocks(Static),
       DOMAIN blocks \ (Blocks(Static) \ rest) = DOMAIN blocks \ {p} DEF rest, Blocks
<1>8. CASE ~allocated(p, n, p)
  <2>1. m = 0 \/ m < n
    <3> SUFFICES ASSUME m # 0, n <= m PROVE FALSE
      BY <1>1, <1>6
    <3>1. p \in Extent(p)
      BY <1>1, <1>6 DEF Bytes
    <3>2. code[p] # 0 /\ LengthAt(p) = m /\ OffsetAt(p) = 0
      BY <1>1, <3>1, Decoded
    <3>3. p \notin Heap
      BY <1>1, DisjointAssumption DEF Static
    <3> QED
      BY <1>1, <1>6, <1>8, <3>2, <3>3 DEF allocated, static_allocated, static_allocated_one
  <2>2. Extent(p) \subseteq Bytes(p, n)
    BY <1>1, <1>6, <2>1 DEF Bytes
  <2>3. ASSUME NEW a \in Bytes(p, n) PROVE CellOf(n, a - p, sec[a]) = CellOf(n, a - p, 0)
    <3>1. CASE a \in Extent(p)
      <4>1. sec[a] = CellOf(m, a - p, 0)
        BY <1>1, <1>3, <3>1 DEF Follows, Coded, Shadows
      <4>2. a - p \in Nat /\ a - p < m /\ m < n
        BY <1>1, <1>6, <2>1, <3>1 DEF Bytes
      <4> QED
        BY <1>1, <1>6, <4>1, <4>2, CellOverwritten
    <3>2. CASE a \notin Extent(p)
      <4>1. a \in Static /\ \A q \in Blocks(Static) : a \notin Extent(q)
        BY <1>5, <3>2
      <4> QED
        BY <4>1, Undecoded
    <3> QED
      BY <3>1, <3>2
  <2>4. s = Shadows /\ Shadows.sec = sec
    BY <1>8 DEF Shadows
  <2>5. FollowsApart(Shadows, rest, p, n)
    <3>1. ASSUME NEW a \in Static \ Bytes(p, n), \A q \in rest : a \notin Extent(q)
          PROVE  Blank(Shadows, a)
      <4>1. \A q \in Blocks(Static) : a \notin Extent(q)
        BY <2>2, <3>1
      <4> QED
        BY <1>3, <4>1 DEF Follows
    <3> QED
      BY <1>3, <2>3, <2>4, <3>1 DEF Follows, FollowsApart
  <2> HIDE DEF s, rest
  <2> QED
    BY <2>4, <2>5, <1>1, <1>2, <1>4, AllocaFollows, rest \in SUBSET Blocks(Static),
       DOMAIN blocks \ (Blocks(Static) \ rest) = DOMAIN blocks \ {p} DEF rest, Blocks
<1> QED
  BY <1>2, <1>7, <1>8

-----------------------------------------------------------------------------
(* Initialization and read-only bits of static blocks. *)
LEMMA InitializeStatic ==
  ASSUME MemoryOK, StaticOK, NEW p \in Blocks(Static), NEW a \in Int, NEW n \in Int,
         Initialize(p, a, n), inits' = inits \union Bytes(a, n), UNCHANGED <<code, ronly, sec>>
  PROVE  StaticOK'
<1> DEFINE r == [blocks[p] EXCEPT !.init = @ \union Bytes(a, n)]
<1>1. p \in DOMAIN blocks /\ blocks[p] \in Record /\ Bytes(a, n) \subseteq Extent(p)
  BY DEF Initialize, MemoryOK
<1>2. r.len = blocks[p].len /\ r.init = blocks[p].init \union Bytes(a, n) /\ r.ro = blocks[p].ro
  BY <1>1 DEF Record
<1>3. Updated(p, r)
  BY InitializeOK
<1> HIDE DEF r
<1>4. /\ Blocks(Static)' = Blocks(Static)
      /\ \A q \in Blocks(Static) : blocks'[q] = (IF q = p THEN r ELSE blocks[q])
      /\ \A q \in Blocks(Static) : blocks'[q].len = blocks[q].len /\ Extent(q)' = Extent(q)
  BY <1>2, <1>3 DEF Updated, Blocks, Extent
<1>5. Follows(Shadows, Blocks(Static))
  BY DEF StaticOK
<1>6. Shadows' = [code |-> code, inits |-> inits \union Bytes(a, n), ronly |-> ronly, sec |-> sec]
  BY DEF Shadows
<1> DEFINE t == [code |-> code, inits |-> inits \union Bytes(a, n), ronly |-> ronly, sec |-> sec]
<1>7. t \in ShadowSet
  BY <1>5 DEF Follows, ShadowSet, Shadows, Bytes
<1>8. ASSUME NEW q \in Blocks(Static), NEW b \in Extent(q)
      PROVE  Coded(t, q, blocks'[q].len, b) /\ Marked(t, blocks'[q], b)
  <2>1. Coded(Shadows, q, blocks[q].len, b) /\ Marked(Shadows, blocks[q], b)
    BY <1>5 DEF Follows
  <2>2. Coded(t, q, blocks'[q].len, b)
    BY <1>4, <2>1 DEF Coded, Shadows
  <2>3. CASE q = p
    BY <1>2, <1>4, <2>1, <2>2, <2>3 DEF Marked, Shadows
  <2>4. CASE q # p
    <3>1. b \notin Bytes(a, n)
      BY <1>1, <2>4, StaticApart DEF Blocks
    <3>2. blocks'[q] = blocks[q]
      BY <1>4, <2>4
    <3> QED
      BY <2>1, <2>2, <3>1, <3>2 DEF Marked, Shadows
  <2> QED
    BY <2>3, <2>4
<1>9. ASSUME NEW b \in Static, \A q \in Blocks(Static) : b \notin Extent(q)
      PROVE  Blank(t, b)
  <2>1. Blank(Shadows, b) /\ b \notin Bytes(a, n)
    BY <1>1, <1>5, <1>9 DEF Follows
  <2> QED
    BY <2>1 DEF Blank, Shadows
<1> HIDE DEF t
<1> QED
  <2>1. Shadows' = t
    BY <1>6 DEF t
  <2> QED
    BY <2>1, <1>4, <1>7, <1>8, <1>9 DEF StaticOK, Follows, Coded, Marked, Blank

LEMMA MarkReadonlyStatic ==
  ASSUME MemoryOK, StaticOK, NEW p \in Blocks(Static), mark_readonly(p)
  PROVE  StaticOK'
<1> DEFINE r == [blocks[p] EXCEPT !.ro = TRUE]
<1>1. p \in DOMAIN blocks /\ blocks[p] \in Record /\ MarkReadonly(p)
  BY DEF mark_readonly, MarkReadonly, MemoryOK, Blocks
<1>2. r.len = blocks[p].len /\ r.init = blocks[p].init /\ r.ro = TRUE
  BY <1>1 DEF Record
<1>3. Updated(p, r)
  BY <1>1, MarkReadonlyOK
<1> HIDE DEF r
<1>4. /\ Blocks(Static)' = Blocks(Static)
      /\ \A q \in Blocks(Static) : blocks'[q] = (IF q = p THEN r ELSE blocks[q])
      /\ \A q \in Blocks(Static) : blocks'[q].len = blocks[q].len /\ Extent(q)' = Extent(q)
  BY <1>2, <1>3 DEF Updated, Blocks, Extent
<1>5. Follows(Shadows, Blocks(Static))
  BY DEF StaticOK
<1> DEFINE t == [code |-> code, inits |-> inits, ronly |-> ronly \union Extent(p), sec |-> sec]
<1>6. Shadows' = t
  BY StaticLength DEF Shadows, mark_readonly, Extent
<1>7. t \in ShadowSet
  <2>1. Extent(p) \subseteq Int
    BY StaticExtent, RegionsInt
  <2> QED
    BY <1>5, <2>1 DEF Follows, ShadowSet, Shadows
<1>8. ASSUME NEW q \in Blocks(Static), NEW b \in Extent(q)
      PROVE  Coded(t, q, blocks'[q].len, b) /\ Marked(t, blocks'[q], b)
  <2>1. Coded(Shadows, q, blocks[q].len, b) /\ Marked(Shadows, blocks[q], b)
    BY <1>5 DEF Follows
  <2>2. Coded(t, q, blocks'[q].len, b)
    BY <1>4, <2>1 DEF Coded, Shadows
  <2>3. CASE q = p
    BY <1>2, <1>4, <2>1, <2>2, <2>3 DEF Marked, Shadows
  <2>4. CASE q # p
    <3>1. b \notin Extent(p)
      BY <1>1, <2>4, StaticApart DEF Blocks
    <3>2. blocks'[q] = blocks[q]
      BY <1>4, <2>4
    <3> QED
      BY <2>1, <2>2, <3>1, <3>2 DEF Marked, Shadows
  <2> QED
    BY <2>3, <2>4
<1>9. ASSUME NEW b \in Static, \A q \in Blocks(Static) : b \notin Extent(q)
      PROVE  Blank(t, b)
  BY <1>5, <1>9 DEF Follows, Blank, Shadows
<1> HIDE DEF t
<1> QED
  BY <1>4, <1>6, <1>7, <1>8, <1>9 DEF StaticOK, Follows, Coded, Marked, Blank

(* A step that leaves the static shadows and the static blocks alone. *)
LEMMA StaticFrame ==
  ASSUME StaticOK, UNCHANGED static, Blocks(Static)' = Blocks(Static),
         \A q \in Blocks(Static) : blocks'[q] = blocks[q]
  PROVE  StaticOK'
<1>1. Shadows' = Shadows
  BY DEF static, Shadows
<1>2. \A q \in Blocks(Static) : Extent(q)' = Extent(q)
  BY DEF Extent
<1> QED
  BY <1>1, <1>2 DEF StaticOK, Follows, Coded, Marked, Blank

-----------------------------------------------------------------------------
(* The heap. *)
Reach(p) == Bytes(p, ALLOC_SIZE(blocks[p].len))

Shadowed(seg, p) ==
  /\ p \in Segments /\ Reach(p) \subseteq Heap
  /\ seg[p].len = blocks[p].len
  /\ \A s \in Segments \intersect Reach(p) : seg[s].base = p
HeapFollows(seg, S) ==
  /\ seg \in [Segments -> [base : Int, len : Int]]
  /\ \A p \in S : Shadowed(seg, p)
  /\ \A s \in Segments : (\A p \in S : s \notin Reach(p)) => seg[s] = NoSegment
ReachesApart(S) == \A p, q \in S : p # q => Reach(p) \intersect Reach(q) = {}
HeapOK == HeapFollows(segment, Blocks(Heap)) /\ ReachesApart(Blocks(Heap))

InitOK ==
  /\ initShadow \subseteq UNION {Reach(p) : p \in Blocks(Heap)}
  /\ \A p \in Blocks(Heap) :
       /\ blocks[p].init \subseteq initShadow
       /\ p \notin regrown => initShadow \intersect Extent(p) = blocks[p].init

LEMMA HeapFrame ==
  ASSUME HeapOK, InitOK, HeapAccounted, UNCHANGED heap, Blocks(Heap)' = Blocks(Heap),
         \A q \in Blocks(Heap) : blocks'[q] = blocks[q]
  PROVE  HeapOK' /\ InitOK' /\ HeapAccounted'
<1>1. \A q \in Blocks(Heap) : Extent(q)' = Extent(q) /\ Reach(q)' = Reach(q)
  BY DEF Extent, Reach
<1>2. HeapOK'
  BY <1>1 DEF HeapOK, HeapFollows, Shadowed, ReachesApart, heap
<1>3. InitOK'
  BY <1>1 DEF InitOK, heap
<1>4. TotalLength(Blocks(Heap))' = TotalLength(Blocks(Heap))
  <2>1. {Extent(q)' : q \in Blocks(Heap)'} = {Extent(q) : q \in Blocks(Heap)}
    BY <1>1
  <2> QED
    BY <2>1 DEF TotalLength
<1>5. HeapAccounted'
  BY <1>4 DEF HeapAccounted, heap
<1> QED
  BY <1>2, <1>3, <1>5

LEMMA ReachFacts ==
  ASSUME MemoryOK, NEW p \in Blocks(Heap)
  PROVE  /\ p \in Int /\ p \in Heap /\ p # 0 /\ p \in DOMAIN blocks
         /\ blocks[p].len \in Nat /\ blocks[p].len > 0
         /\ Extent(p) \subseteq Reach(p) /\ p \in Reach(p) /\ Extent(p) \subseteq Heap
         /\ ALLOC_SIZE(blocks[p].len) \in Nat /\ ALLOC_SIZE(blocks[p].len) % HEAP_SEGMENT = 0
<1>1. p \in Int /\ p \in Heap /\ p # 0
  BY AddressesAssumption, RegionsInt DEF Blocks
<1>2. p \in DOMAIN blocks /\ blocks[p].len \in Nat /\ blocks[p].len > 0 /\ Extent(p) \subseteq Heap
  BY HeapExtent
<1>3. /\ ALLOC_SIZE(blocks[p].len) \in Nat /\ ALLOC_SIZE(blocks[p].len) % HEAP_SEGMENT = 0
      /\ blocks[p].len <= ALLOC_SIZE(blocks[p].len)
  BY <1>2, AllocSize
<1> QED
  BY <1>1, <1>2, <1>3 DEF Extent, Reach, Bytes

LEMMA SegmentKnown ==
  ASSUME MemoryOK, HeapOK, NEW p \in Blocks(Heap), NEW a \in Reach(p)
  PROVE  /\ a \in Heap /\ SegmentOf(a) \in Segments /\ SegmentOf(a) \in Reach(p)
         /\ segment[SegmentOf(a)].base = p /\ segment[p].len = blocks[p].len
<1>1. Shadowed(segment, p)
  BY DEF HeapOK, HeapFollows
<1>2. a \in Heap /\ a \in Int /\ SegmentOf(a) \in Segments
  BY <1>1, RegionsInt, SegmentOfHeap DEF Shadowed
<1>3. p \in Int /\ p % HEAP_SEGMENT = 0
  BY <1>1, SegmentOfSegment DEF Shadowed
<1>4. SegmentOf(a) \in Reach(p)
  BY <1>2, <1>3, ReachFacts, SegmentInRange DEF Reach
<1> QED
  BY <1>1, <1>2, <1>4 DEF Shadowed

LEMMA SegmentUnknown ==
  ASSUME MemoryOK, HeapOK, NEW a \in Heap, \A p \in Blocks(Heap) : a \notin Reach(p)
  PROVE  segment[SegmentOf(a)] = NoSegment
<1>1. SegmentOf(a) \in Segments /\ a \in Int
  BY SegmentOfHeap, RegionsInt
<1>2. ASSUME NEW p \in Blocks(Heap), SegmentOf(a) \in Reach(p) PROVE FALSE
  <2>1. Shadowed(segment, p)
    BY DEF HeapOK, HeapFollows
  <2>2. p \in Int /\ p % HEAP_SEGMENT = 0
    BY <2>1, SegmentOfSegment DEF Shadowed
  <2>3. a \in Reach(p)
    BY <1>1, <1>2, <2>2, ReachFacts, SegmentInRange DEF Reach
  <2> QED
    BY <2>3
<1> QED
  BY <1>1, <1>2 DEF HeapOK, HeapFollows

LEMMA FreeableExact ==
  ASSUME MemoryOK, HeapOK, NEW a \in Heap
  PROVE  freeable(a) <=> a \in Blocks(Heap)
<1>1. ASSUME a \in Blocks(Heap) PROVE freeable(a)
  BY <1>1, ReachFacts, SegmentKnown DEF freeable
<1>2. ASSUME freeable(a) PROVE a \in Blocks(Heap)
  <2>1. segment[SegmentOf(a)].base = a /\ a # 0
    BY <1>2, AddressesAssumption DEF freeable
  <2>2. CASE \A p \in Blocks(Heap) : a \notin Reach(p)
    BY <2>1, <2>2, SegmentUnknown DEF NoSegment, NULL
  <2>3. CASE \E p \in Blocks(Heap) : a \in Reach(p)
    <3>1. PICK p \in Blocks(Heap) : a \in Reach(p)
      BY <2>3
    <3>2. p = a
      BY <2>1, <3>1, SegmentKnown
    <3> QED
      BY <3>2
  <2> QED
    BY <2>2, <2>3
<1> QED
  BY <1>1, <1>2

LEMMA UnsetFollows ==
  ASSUME MemoryOK, HeapOK, NEW p \in Blocks(Heap)
  PROVE  HeapFollows(unset_heap_segment(segment, p), Blocks(Heap) \ {p})
<1> DEFINE seg == unset_heap_segment(segment, p)
<1>1. HeapFollows(segment, Blocks(Heap)) /\ ReachesApart(Blocks(Heap)) /\ segment[p].len = blocks[p].len
  BY DEF HeapOK, HeapFollows, Shadowed
<1>2. seg = [s \in Segments |-> IF s \in Reach(p) THEN NoSegment ELSE segment[s]]
  BY <1>1 DEF unset_heap_segment, Reach
<1> HIDE DEF seg
<1>3. seg \in [Segments -> [base : Int, len : Int]]
  BY <1>1, <1>2 DEF HeapFollows, NoSegment, NULL
<1>4. ASSUME NEW q \in Blocks(Heap) \ {p} PROVE Shadowed(seg, q)
  <2>1. Shadowed(segment, q) /\ Reach(p) \intersect Reach(q) = {} /\ q \in Reach(q)
    BY <1>1, ReachFacts DEF HeapFollows, ReachesApart
  <2>2. \A s \in Segments \intersect Reach(q) : seg[s] = segment[s]
    BY <1>2, <2>1
  <2> QED
    BY <2>1, <2>2 DEF Shadowed
<1>5. ASSUME NEW s \in Segments, \A q \in Blocks(Heap) \ {p} : s \notin Reach(q)
      PROVE  seg[s] = NoSegment
  <2>1. s \notin Reach(p) => segment[s] = NoSegment
    BY <1>1, <1>5 DEF HeapFollows
  <2> QED
    BY <1>2, <2>1
<1> QED
  BY <1>3, <1>4, <1>5 DEF HeapFollows, seg

LEMMA SetFollows ==
  ASSUME MemoryOK, MemoryOK', NEW rest \in SUBSET Blocks(Heap), NEW seg, NEW p \in Heap, NEW n \in Nat,
         NEW r, r.len = n, Bound(p, r, DOMAIN blocks \ (Blocks(Heap) \ rest)),
         HeapFollows(seg, rest), ReachesApart(rest), Place(p, n, rest),
         segment' = set_heap_segment(seg, p, n)
  PROVE  /\ HeapOK' /\ Blocks(Heap)' = rest \union {p} /\ p \notin rest
         /\ \A q \in rest : Reach(q)' = Reach(q)
         /\ Reach(p)' = Bytes(p, ALLOC_SIZE(n))
         /\ \A q \in rest : Bytes(p, ALLOC_SIZE(n)) \intersect Reach(q) = {}
<1> DEFINE here == Bytes(p, ALLOC_SIZE(n))
<1>1. p \notin rest /\ blocks'[p] = r /\ Blocks(Heap)' = rest \union {p}
  BY DEF Bound, Blocks
<1>2. \A q \in rest : blocks'[q] = blocks[q] /\ Reach(q)' = Reach(q)
  BY DEF Bound, Blocks, Reach
<1>3. Reach(p)' = here
  BY <1>1 DEF Reach
<1>4. p \in Segments /\ here \subseteq Heap /\ \A q \in rest : here \intersect Reach(q) = {}
  BY DEF Place, Reach
<1> HIDE DEF here
<1>5. \A q \in rest : q \in Reach(q) /\ p \notin Reach(q)
  <2>1. n > 0 /\ p \in Int
    BY <1>1, RegionsInt, DisjointAssumption DEF MemoryOK, BlockOK, InOneRegion, Blocks, Room, Bytes, Static
  <2>2. p \in here
    BY <2>1, AllocSize DEF here, Bytes
  <2> QED
    BY <1>4, <2>2, ReachFacts
<1>6. segment' = [s \in Segments |-> IF s \in here THEN [base |-> p, len |-> IF s = p THEN n ELSE seg[s].len]
                                     ELSE seg[s]]
  BY DEF set_heap_segment, here
<1>7. segment' \in [Segments -> [base : Int, len : Int]]
  BY <1>6, RegionsInt DEF HeapFollows
<1>8. p \in here
  <2>1. n > 0 /\ p \in Int
    BY <1>1, RegionsInt, DisjointAssumption DEF MemoryOK, BlockOK, InOneRegion, Blocks, Room, Bytes, Static
  <2> QED
    BY <2>1, AllocSize DEF here, Bytes
<1>9. Shadowed(segment, p)'
  BY <1>1, <1>3, <1>4, <1>6, <1>8 DEF Shadowed
<1>10. ASSUME NEW q \in rest PROVE Shadowed(segment, q)'
  <2>1. Shadowed(seg, q) /\ here \intersect Reach(q) = {} /\ q \in Reach(q)
    BY <1>4, <1>5 DEF HeapFollows
  <2>2. \A s \in Segments \intersect Reach(q) : segment'[s] = seg[s]
    BY <1>6, <2>1
  <2> QED
    BY <1>2, <2>1, <2>2 DEF Shadowed
<1>11. ASSUME NEW s \in Segments, \A q \in rest \union {p} : s \notin Reach(q)'
       PROVE  segment'[s] = NoSegment
  <2>1. s \notin here /\ \A q \in rest : s \notin Reach(q)
    BY <1>2, <1>3, <1>11
  <2> QED
    BY <1>6, <2>1 DEF HeapFollows
<1>12. HeapFollows(segment, Blocks(Heap))'
  BY <1>1, <1>7, <1>9, <1>10, <1>11 DEF HeapFollows
<1>13. ReachesApart(Blocks(Heap))'
  BY <1>1, <1>2, <1>3, <1>4 DEF ReachesApart
<1> QED
  BY <1>1, <1>2, <1>3, <1>4, <1>12, <1>13 DEF HeapOK, here

-----------------------------------------------------------------------------
(* The counters. *)
Split(p) ==
  /\ TotalLength(Blocks(Heap)) = TotalLength(Blocks(Heap) \ {p}) + blocks[p].len
  /\ Cardinality(Blocks(Heap)) = Cardinality(Blocks(Heap) \ {p}) + 1
  /\ TotalLength(Blocks(Heap) \ {p}) \in Nat /\ Cardinality(Blocks(Heap) \ {p}) \in Nat
SplitOK == \A p \in Blocks(Heap) : Split(p)

LEMMA SplitAlways == MemoryOK => SplitOK
BY HeapSplit DEF SplitOK, Split

LEMMA CountPlaced ==
  ASSUME MemoryOK', NEW rest \in SUBSET Blocks(Heap), NEW p, p \notin rest, Blocks(Heap)' = rest \union {p},
         \A q \in rest : blocks'[q] = blocks[q]
  PROVE  /\ TotalLength(Blocks(Heap))' = TotalLength(rest) + blocks'[p].len
         /\ Cardinality(Blocks(Heap))' = Cardinality(rest) + 1
<1>1. SplitOK'
  BY SplitAlways, PTL
<1>2. Split(p)'
  BY <1>1 DEF SplitOK
<1>3. Blocks(Heap)' \ {p} = rest
  OBVIOUS
<1>4. {Extent(q)' : q \in rest} = {Extent(q) : q \in rest}
  BY DEF Extent
<1> QED
  BY <1>2, <1>3, <1>4 DEF Split, TotalLength

LEMMA CountRemoved ==
  ASSUME MemoryOK, NEW p \in Blocks(Heap)
  PROVE  Split(p) /\ blocks[p].len \in Nat
BY HeapSplit, HeapExtent DEF Split

-----------------------------------------------------------------------------
(* The steps of the heap. *)
HeapInv == MemoryOK /\ HeapOK /\ InitOK /\ HeapAccounted

(* malloc and calloc, which set the initialization bits of marks. *)
LEMMA AllocateHeap ==
  ASSUME HeapInv, NEW p \in Segments, NEW n \in HeapSizes, NEW zeroed \in BOOLEAN,
         Place(p, n, Blocks(Heap)), Allocate(p, n, zeroed),
         segment' = set_heap_segment(segment, p, n),
         initShadow' = initShadow \union (IF zeroed THEN Bytes(p, ALLOC_SIZE(n)) ELSE {}),
         heapSize' = heapSize + n, heapBlocks' = heapBlocks + 1, regrown' = regrown
  PROVE  HeapInv' /\ Blocks(Static)' = Blocks(Static)
         /\ \A q \in Blocks(Static) : blocks'[q] = blocks[q]
<1> DEFINE r == Fresh(n, IF zeroed THEN Bytes(p, n) ELSE {})
           rest == Blocks(Heap)
           marks == IF zeroed THEN Bytes(p, ALLOC_SIZE(n)) ELSE {}
<1>1. p \in Heap /\ p \in Int /\ n \in Nat /\ p \notin Static
  BY SegmentOfSegment, SizesAssumption, DisjointAssumption DEF Static
<1>2. MemoryOK' /\ Bound(p, r, DOMAIN blocks)
  BY <1>1, AllocateOK DEF HeapInv
<1>3. r.len = n /\ r.init = (IF zeroed THEN Bytes(p, n) ELSE {})
  BY DEF Fresh
<1>4. DOMAIN blocks \ (Blocks(Heap) \ rest) = DOMAIN blocks
  OBVIOUS
<1> HIDE DEF r
<1>5. /\ HeapOK' /\ Blocks(Heap)' = rest \union {p} /\ p \notin rest
      /\ \A q \in rest : Reach(q)' = Reach(q)
      /\ Reach(p)' = Bytes(p, ALLOC_SIZE(n))
      /\ \A q \in rest : Bytes(p, ALLOC_SIZE(n)) \intersect Reach(q) = {}
  <2>1. HeapFollows(segment, rest) /\ ReachesApart(rest) /\ rest \in SUBSET Blocks(Heap) /\ MemoryOK
    BY DEF HeapInv, HeapOK
  <2> HIDE DEF rest
  <2>2. Place(p, n, rest) /\ Bound(p, r, DOMAIN blocks \ (Blocks(Heap) \ rest))
    BY <1>2, <1>4 DEF rest
  <2> QED
    BY <1>1, <1>2, <1>3, <2>1, <2>2, SetFollows
<1>6. /\ blocks'[p] = r
      /\ \A q \in DOMAIN blocks : blocks'[q] = blocks[q]
  BY <1>2 DEF Bound
<1>7. Bytes(p, n) \subseteq Bytes(p, ALLOC_SIZE(n))
  BY <1>1, AllocSize DEF Bytes
<1>8. initShadow' = initShadow \union marks /\ marks \subseteq Bytes(p, ALLOC_SIZE(n))
  OBVIOUS
<1>9. InitOK'
  <2>1. initShadow' \subseteq UNION {Reach(q)' : q \in Blocks(Heap)'}
    BY <1>5, <1>8 DEF HeapInv, InitOK
  <2>2. ASSUME NEW q \in rest
        PROVE  /\ blocks'[q].init \subseteq initShadow'
               /\ q \notin regrown' => initShadow' \intersect Extent(q)' = blocks'[q].init
    <3>1. blocks'[q] = blocks[q] /\ Extent(q)' = Extent(q) /\ Extent(q) \subseteq Reach(q)
      BY <1>6, ReachFacts DEF HeapInv, Extent, Blocks
    <3>2. marks \intersect Extent(q) = {}
      BY <1>5, <1>8, <3>1
    <3> QED
      BY <1>8, <3>1, <3>2 DEF HeapInv, InitOK
  <2>3. /\ blocks'[p].init \subseteq initShadow'
        /\ initShadow' \intersect Extent(p)' = blocks'[p].init
    <3>1. Extent(p)' = Bytes(p, n)
      BY <1>3, <1>6 DEF Extent
    <3>2. initShadow \intersect Bytes(p, ALLOC_SIZE(n)) = {}
      BY <1>5 DEF HeapInv, InitOK
    <3>3. marks \intersect Bytes(p, n) = r.init
      BY <1>3, <1>7
    <3> HIDE DEF marks
    <3> QED
      BY <1>3, <1>6, <1>7, <1>8, <3>1, <3>2, <3>3
  <2> QED
    BY <1>5, <2>1, <2>2, <2>3 DEF InitOK
<1>10. HeapAccounted'
  <2>1. /\ TotalLength(Blocks(Heap))' = TotalLength(rest) + n
        /\ Cardinality(Blocks(Heap))' = Cardinality(rest) + 1
    BY <1>2, <1>3, <1>5, <1>6, CountPlaced DEF Blocks
  <2> QED
    BY <2>1 DEF HeapInv, HeapAccounted
<1>11. Blocks(Static)' = Blocks(Static) /\ \A q \in Blocks(Static) : blocks'[q] = blocks[q]
  BY <1>1, <1>2 DEF Bound, Blocks
<1> QED
  BY <1>2, <1>5, <1>9, <1>10, <1>11 DEF HeapInv

LEMMA FreeHeap ==
  ASSUME HeapInv, NEW p \in Blocks(Heap), free(p)
  PROVE  /\ HeapInv' /\ Blocks(Static)' = Blocks(Static)
         /\ \A q \in Blocks(Static) : blocks'[q] = blocks[q]
<1> DEFINE rest == Blocks(Heap) \ {p}
<1>1. p \in DOMAIN blocks /\ p \in Heap /\ p \notin Static
  BY DisjointAssumption DEF Blocks, Static
<1>2. MemoryOK' /\ DOMAIN blocks' = DOMAIN blocks \ {p} /\ \A q \in DOMAIN blocks' : blocks'[q] = blocks[q]
  BY <1>1, RemovedOK DEF HeapInv, free, Release
<1>3. Blocks(Heap)' = rest /\ Blocks(Static)' = Blocks(Static)
      /\ \A q \in Blocks(Static) : blocks'[q] = blocks[q]
  BY <1>1, <1>2 DEF Blocks
<1>4. \A q \in rest : blocks'[q] = blocks[q] /\ Reach(q)' = Reach(q) /\ Extent(q)' = Extent(q)
  BY <1>2, <1>3 DEF Reach, Extent, Blocks
<1>5. segment[p].len = blocks[p].len
  BY DEF HeapInv, HeapOK, HeapFollows, Shadowed
<1>6. HeapFollows(segment', rest) /\ ReachesApart(rest)
  BY UnsetFollows DEF HeapInv, HeapOK, ReachesApart, free
<1>7. HeapOK'
  BY <1>3, <1>4, <1>6 DEF HeapOK, HeapFollows, Shadowed, ReachesApart
<1>8. initShadow' = initShadow \ Reach(p) /\ \A q \in rest : Reach(q) \intersect Reach(p) = {}
  <2>1. initShadow' = initShadow \ Reach(p)
    BY <1>5 DEF free, Reach
  <2>2. \A q \in rest : Reach(q) \intersect Reach(p) = {}
    BY DEF HeapInv, HeapOK, ReachesApart
  <2> QED
    BY <2>1, <2>2
<1>9. InitOK'
  <2>1. initShadow' \subseteq UNION {Reach(q) : q \in rest}
    BY <1>8 DEF HeapInv, InitOK
  <2>2. ASSUME NEW q \in rest
        PROVE  /\ blocks[q].init \subseteq initShadow'
               /\ q \notin regrown' => initShadow' \intersect Extent(q) = blocks[q].init
    <3>1. Extent(q) \intersect Reach(p) = {} /\ blocks[q].init \subseteq Extent(q)
      BY <1>8, ReachFacts DEF HeapInv, MemoryOK, BlockOK, Blocks
    <3>2. q \notin regrown' => q \notin regrown
      BY DEF free
    <3> QED
      BY <1>8, <3>1, <3>2 DEF HeapInv, InitOK
  <2> QED
    BY <1>3, <1>4, <2>1, <2>2 DEF InitOK
<1>10. HeapAccounted'
  <2>1. Split(p) /\ blocks[p].len \in Nat
    BY CountRemoved DEF HeapInv
  <2>2. TotalLength(Blocks(Heap))' = TotalLength(rest)
    <3>1. {Extent(q)' : q \in rest} = {Extent(q) : q \in rest}
      BY <1>4
    <3> QED
      BY <1>3, <3>1 DEF TotalLength
  <2>3. heapSize' = heapSize - blocks[p].len /\ heapBlocks' = heapBlocks - 1
    BY <1>5 DEF free
  <2> QED
    BY <1>3, <2>1, <2>2, <2>3 DEF Split, HeapInv, HeapAccounted
<1> QED
  BY <1>2, <1>3, <1>7, <1>9, <1>10 DEF HeapInv

(* What realloc keeps of the initialization bits: kept is a whole number   *)
(* of bytes of the shadow, that of the least of both sizes.                *)
LEMMA KeptBytes ==
  ASSUME NEW m \in Nat, NEW n \in Nat, NEW k, k = (IF n < m THEN n ELSE m),
         NEW kept, kept = ((k + BYTE - 1) \div BYTE) * BYTE
  PROVE  /\ kept \in Nat /\ k <= kept
         /\ kept <= ALLOC_SIZE(m) /\ kept <= ALLOC_SIZE(n)
<1> DEFINE x == k + BYTE - 1
           d == x \div BYTE
<1>1. x \in Int /\ x = k + BYTE - 1 /\ k \in Nat /\ k <= m /\ k <= n
  BY HeapSegment
<1>2. kept = d * BYTE
  OBVIOUS
<1> HIDE DEF x
<1>3. x = BYTE * d + (x % BYTE) /\ d \in Int /\ x % BYTE \in 0 .. (BYTE - 1)
  BY <1>1, DivMod, HeapSegment
<1> HIDE DEF d
<1>4. kept = BYTE * d /\ kept \in Int
  BY <1>2, <1>3, HeapSegment
<1>5. k <= kept /\ kept < k + BYTE
  BY <1>1, <1>3, <1>4, HeapSegment
<1>6. kept % BYTE = 0
  BY <1>3, <1>4, Multiple, HeapSegment
<1>7. ASSUME NEW s \in Nat, k <= s PROVE kept <= ALLOC_SIZE(s)
  <2>1. ALLOC_SIZE(s) \in Int /\ ALLOC_SIZE(s) % BYTE = 0 /\ s <= ALLOC_SIZE(s)
    BY AllocSize, SegmentBytes
  <2>2. ASSUME ALLOC_SIZE(s) < kept PROVE FALSE
    <3>1. ALLOC_SIZE(s) + BYTE <= kept
      BY <1>4, <1>6, <2>1, <2>2, MultiplesOrder, HeapSegment
    <3> QED
      BY <1>1, <1>4, <1>5, <1>7, <2>1, <3>1, HeapSegment
  <2> QED
    BY <1>4, <2>1, <2>2
<1> QED
  BY <1>1, <1>4, <1>5, <1>7

(* The initialization bits after realloc, byte by byte: as before away     *)
(* from both places; where the block now is, those of the bytes it keeps.  *)
LEMMA GrownBits ==
  ASSUME HeapInv, NEW p \in Blocks(Heap), NEW q \in Segments, NEW n \in Nat, n > 0,
         p # q => Bytes(q, ALLOC_SIZE(n)) \intersect initShadow = {},
         p # q => Bytes(q, ALLOC_SIZE(n)) \intersect Reach(p) = {}
  PROVE  /\ Grown(p, q, n) \subseteq (initShadow \ Reach(p)) \union Bytes(q, ALLOC_SIZE(n))
         /\ (initShadow \ Reach(p)) \ Bytes(q, ALLOC_SIZE(n)) \subseteq Grown(p, q, n)
         /\ Kept(p, q, n) \subseteq Grown(p, q, n)
         /\ p \notin regrown /\ ~(p = q /\ n > blocks[p].len)
              => Grown(p, q, n) \intersect Bytes(q, n) = Kept(p, q, n)
<1> DEFINE m == blocks[p].len
           A == ALLOC_SIZE(m)
           B == ALLOC_SIZE(n)
           K == KeepBytes(p, n) * BYTE
           S == initShadow
           T == Truncated(p, n)
           G == Grown(p, q, n)
           I == blocks[p].init
<1>1. /\ p \in Int /\ m \in Nat /\ m > 0 /\ A \in Nat /\ Reach(p) = Bytes(p, A) /\ Extent(p) = Bytes(p, m)
      /\ segment[p].len = m /\ q \in Int
  BY ReachFacts, SegmentKnown, SegmentOfSegment DEF HeapInv, Reach, Extent
<1>2. B \in Nat /\ n <= B /\ m <= A /\ (m <= n => A <= B) /\ (n <= m => B <= A)
  BY <1>1, AllocSize, AllocSizeGrows
<1>3. K \in Nat /\ K <= A /\ K <= B /\ (n <= m => n <= K) /\ (m <= n => m <= K)
  <2>1. KeepBits(p, n) = (IF n < m THEN n ELSE m)
    BY <1>1 DEF KeepBits, Lesser
  <2>2. K = ((KeepBits(p, n) + BYTE - 1) \div BYTE) * BYTE
    BY DEF KeepBytes
  <2> HIDE DEF K, m, A, B
  <2>3. K \in Nat /\ KeepBits(p, n) <= K /\ K <= A /\ K <= B
    BY <1>1, <2>1, <2>2, KeptBytes DEF A, B
  <2> QED
    BY <1>1, <2>1, <2>3
<1>4. I \subseteq S /\ I \subseteq Bytes(p, m) /\ (p \notin regrown => S \intersect Bytes(p, m) = I)
  BY <1>1 DEF HeapInv, InitOK, MemoryOK, BlockOK, Blocks
<1>5. S \subseteq Int
  <2>1. \A r \in Blocks(Heap) : Reach(r) \subseteq Int
    BY RegionsInt DEF HeapInv, HeapOK, HeapFollows, Shadowed
  <2> QED
    BY <2>1 DEF HeapInv, InitOK
<1>6. T = (IF m > n THEN S \ (Bytes(p, A) \ Bytes(p, n)) ELSE S)
  BY <1>1 DEF Truncated
<1>7. \A a : a \in Kept(p, q, n) <=> a \in Bytes(q, n) /\ a - q < m /\ p + (a - q) \in I
  BY DEF Kept
<1>8. /\ T \subseteq S
      /\ m <= n => T = S
      /\ \A a \in S : a \notin Bytes(p, A) \/ a \in Bytes(p, n) => a \in T
      /\ \A a \in T : n < m /\ a \in Bytes(p, A) => a \in Bytes(p, n)
  <2> HIDE DEF m, A, B, K, S, T
  <2> QED
    BY <1>1, <1>6
<1>9. CASE p = q /\ n <= m
  <2>1. G = T
    BY <1>1, <1>9 DEF Grown, Carried
  <2> HIDE DEF m, A, B, K, S, T, G, I
  <2>2. ASSUME NEW a \in Int PROVE a \in Kept(p, q, n) <=> a \in I /\ a \in Bytes(p, n)
    <3>1. p + (a - q) = a /\ (a \in Bytes(q, n) <=> a \in Bytes(p, n))
      BY <1>1, <1>9
    <3>2. a \in I => a - q < m
      BY <1>1, <1>4, <1>9 DEF Bytes
    <3> QED
      BY <1>7, <3>1, <3>2
  <2>3. Kept(p, q, n) \subseteq Int
    BY <1>1, <1>7 DEF Bytes
  <2>4. Bytes(p, n) \subseteq Bytes(p, m) /\ Bytes(p, m) \subseteq Bytes(p, A) /\ Bytes(p, n) \subseteq Bytes(p, B)
        /\ (n = m => Bytes(p, A) = Bytes(p, B))
    BY <1>1, <1>2, <1>9 DEF Bytes, A, B
  <2>5. G \subseteq (S \ Reach(p)) \union Bytes(p, B)
    BY <1>1, <1>8, <1>9, <2>1, <2>4
  <2>6. (S \ Reach(p)) \subseteq G
    BY <1>1, <1>8, <2>1
  <2>7. Kept(p, q, n) \subseteq G
    BY <1>4, <1>8, <2>1, <2>2, <2>3
  <2>8. p \notin regrown => G \intersect Bytes(p, n) = Kept(p, q, n)
    BY <1>4, <1>5, <1>8, <2>1, <2>2, <2>3, <2>4
  <2> QED
    BY <1>9, <2>5, <2>6, <2>7, <2>8 DEF G, S, B
<1>10. CASE p = q /\ n > m
  <2> DEFINE E == ALIGN_LEFT(n, BYTE)
  <2>1. G = (T \ (Bytes(p, K) \ Bytes(p, m))) \ (Bytes(p, E) \ Bytes(p, K))
    BY <1>1, <1>10 DEF Grown, Carried
  <2>2. E \in Int /\ E <= n
    BY AlignLeft, HeapSegment
  <2> HIDE DEF m, A, B, K, S, T, G, I, E
  <2>3. \A a : a \in Kept(p, q, n) => a \in I /\ a \in Bytes(p, m)
    BY <1>1, <1>4, <1>7, <1>10 DEF Bytes
  <2>4. Bytes(p, m) \subseteq Bytes(p, K) /\ Bytes(p, K) \subseteq Bytes(p, B)
        /\ Bytes(p, E) \subseteq Bytes(p, B) /\ Bytes(p, A) \subseteq Bytes(p, B)
    BY <1>1, <1>2, <1>3, <1>10, <2>2 DEF Bytes
  <2>5. G \subseteq (S \ Reach(p)) \union Bytes(p, B)
    BY <1>1, <1>8, <2>1, <2>4
  <2>6. (S \ Reach(p)) \ Bytes(p, B) \subseteq G
    BY <1>1, <1>8, <1>10, <2>1, <2>4
  <2>7. Kept(p, q, n) \subseteq G
    BY <1>1, <1>4, <1>8, <1>10, <2>1, <2>3, <2>4
  <2> QED
    BY <1>10, <2>5, <2>6, <2>7 DEF G, S, B, m
<1>11. CASE p # q
  <2> DEFINE C == Carried(p, q, n)
  <2>1. C = ((T \ Bytes(q, K)) \ Bytes(p, A)) \union {q + (a - p) : a \in T \intersect Bytes(p, K)}
    <3>1. {a \in T : a \notin Bytes(q, K)} = T \ Bytes(q, K)
      OBVIOUS
    <3> QED
      BY <1>1, <1>11, <3>1 DEF Carried
  <2>2. G = (IF n <= m THEN C ELSE C \ (Bytes(q, K) \ Bytes(q, m)))
    BY <1>1, <1>11 DEF Grown
  <2> HIDE DEF m, A, B, K, S, T, G, I, C
  <2>3. \A b \in Int : b \in C <=> \/ b \in T /\ b \notin Bytes(q, K) /\ b \notin Bytes(p, A)
                                   \/ b \in Bytes(q, K) /\ p + (b - q) \in T
    <3> SUFFICES ASSUME NEW b \in Int
                 PROVE  (\E a \in T \intersect Bytes(p, K) : b = q + (a - p))
                          <=> (b \in Bytes(q, K) /\ p + (b - q) \in T)
      BY <2>1
    <3>1. ASSUME NEW a \in T \intersect Bytes(p, K), b = q + (a - p)
          PROVE  b \in Bytes(q, K) /\ p + (b - q) \in T
      <4>1. a \in Int /\ p + (b - q) = a
        BY <1>1, <1>3, <3>1 DEF Bytes
      <4> QED
        BY <1>1, <1>3, <3>1, <4>1 DEF Bytes
    <3>2. ASSUME b \in Bytes(q, K), p + (b - q) \in T
          PROVE  \E a \in T \intersect Bytes(p, K) : b = q + (a - p)
      <4>1. p + (b - q) \in Bytes(p, K) /\ b = q + ((p + (b - q)) - p)
        BY <1>1, <1>3, <3>2 DEF Bytes
      <4> QED
        BY <3>2, <4>1
    <3> QED
      BY <3>1, <3>2
  <2>4. G \subseteq Int /\ Kept(p, q, n) \subseteq Int
    <3>1. T \subseteq Int
      BY <1>5, <1>8
    <3>2. \A a \in Int : q + (a - p) \in Int
      BY <1>1
    <3>3. {q + (a - p) : a \in T \intersect Bytes(p, K)} \subseteq Int
      BY <3>1, <3>2
    <3>4. C \subseteq Int
      BY <2>1, <3>1, <3>3
    <3>5. G \subseteq Int
      BY <2>2, <3>4
    <3>6. Bytes(q, n) \subseteq Int
      BY <1>1 DEF Bytes
    <3> QED
      BY <1>7, <3>5, <3>6
  <2>5. Bytes(q, K) \subseteq Bytes(q, B) /\ Bytes(q, n) \subseteq Bytes(q, B)
        /\ Bytes(q, B) \intersect S = {}
    BY <1>1, <1>2, <1>3, <1>11 DEF Bytes, B, S
  <2>6. G \subseteq (S \ Reach(p)) \union Bytes(q, B)
    <3> SUFFICES ASSUME NEW b \in G PROVE b \in (S \ Reach(p)) \union Bytes(q, B)
      OBVIOUS
    <3>1. b \in C /\ b \in Int
      BY <2>2, <2>4
    <3> QED
      BY <1>1, <1>8, <2>3, <2>5, <3>1
  <2>7. (S \ Reach(p)) \ Bytes(q, B) \subseteq G
    <3> SUFFICES ASSUME NEW b \in (S \ Reach(p)) \ Bytes(q, B) PROVE b \in G
      OBVIOUS
    <3>1. b \in Int /\ b \in T /\ b \notin Bytes(q, K) /\ b \notin Bytes(p, A)
      BY <1>1, <1>5, <1>8, <2>5
    <3> QED
      BY <2>2, <2>3, <3>1
  <2>8. ASSUME NEW b \in Kept(p, q, n) PROVE b \in G
    <3>1. b \in Int /\ b \in Bytes(q, n) /\ b - q < m /\ p + (b - q) \in I
      BY <1>7, <2>4
    <3>2. b \in Bytes(q, K) /\ b \in Bytes(q, m)
      BY <1>1, <1>3, <3>1 DEF Bytes
    <3>3. p + (b - q) \in Bytes(p, n)
      BY <1>1, <3>1 DEF Bytes
    <3>4. p + (b - q) \in T
      BY <1>4, <1>8, <3>1, <3>3
    <3> QED
      BY <2>2, <2>3, <3>1, <3>2, <3>4
  <2>9. ASSUME p \notin regrown, NEW b \in G, b \in Bytes(q, n) PROVE b \in Kept(p, q, n)
    <3>1. b \in C /\ b \in Int /\ b \notin S
      BY <2>2, <2>4, <2>5, <2>9
    <3>2. b \in Bytes(q, K) /\ p + (b - q) \in T
      BY <1>8, <2>3, <3>1
    <3>3. b - q < m
      BY <1>1, <2>2, <2>9, <3>2 DEF Bytes
    <3>4. p + (b - q) \in Bytes(p, m)
      BY <1>1, <2>9, <3>1, <3>3 DEF Bytes
    <3> QED
      BY <1>4, <1>7, <1>8, <2>9, <3>2, <3>3, <3>4
  <2> QED
    BY <1>7, <1>11, <2>6, <2>7, <2>8, <2>9 DEF G, S, B
<1> QED
  BY <1>1, <1>9, <1>10, <1>11

LEMMA ReallocHeap ==
  ASSUME HeapInv, NEW p \in Blocks(Heap), NEW q \in Segments, NEW n \in HeapSizes, realloc(p, q, n)
  PROVE  /\ HeapInv' /\ Blocks(Static)' = Blocks(Static)
         /\ \A s \in Blocks(Static) : blocks'[s] = blocks[s]
<1> DEFINE rest == Blocks(Heap) \ {p}
           r == Fresh(n, Kept(p, q, n))
           there == Bytes(q, ALLOC_SIZE(n))
<1>1. /\ p \in Heap /\ p \in DOMAIN blocks /\ p \notin Static
      /\ q \in Heap /\ q \notin Static /\ q \in Int /\ n \in Nat /\ n > 0
  BY SegmentOfSegment, SizesAssumption, DisjointAssumption DEF Static, Blocks, realloc, Reallocate
<1>2. MemoryOK' /\ Bound(q, r, DOMAIN blocks \ {p})
  BY <1>1, ReallocateOK DEF HeapInv, realloc
<1>3. r.len = n /\ r.init = Kept(p, q, n)
  BY DEF Fresh
<1>4. DOMAIN blocks \ (Blocks(Heap) \ rest) = DOMAIN blocks \ {p}
  BY DEF Blocks
<1>5. /\ Place(q, n, rest)
      /\ p # q => there \intersect Reach(p) = {}
  <2>1. Place(q, n, Blocks(Heap) \ (IF p = q THEN {p} ELSE {}))
    BY DEF realloc
  <2>2. CASE p = q
    BY <2>1, <2>2
  <2>3. CASE p # q
    <3>1. Place(q, n, Blocks(Heap))
      BY <2>1, <2>3
    <3> QED
      BY <3>1 DEF Place, Reach
  <2> QED
    BY <2>2, <2>3
<1>6. HeapFollows(unset_heap_segment(segment, p), rest) /\ ReachesApart(rest)
  BY UnsetFollows DEF HeapInv, HeapOK, ReachesApart
<1>7. segment[p].len = blocks[p].len
  BY DEF HeapInv, HeapOK, HeapFollows, Shadowed
<1>8. \A s \in rest : Reach(s) \intersect Reach(p) = {}
  BY DEF HeapInv, HeapOK, ReachesApart
<1> HIDE DEF r
<1>9. /\ HeapOK' /\ Blocks(Heap)' = rest \union {q} /\ q \notin rest
      /\ \A s \in rest : Reach(s)' = Reach(s)
      /\ Reach(q)' = there
      /\ \A s \in rest : there \intersect Reach(s) = {}
  <2> DEFINE seg == unset_heap_segment(segment, p)
  <2>1. segment' = set_heap_segment(seg, q, n) /\ rest \in SUBSET Blocks(Heap) /\ MemoryOK
    BY DEF realloc, HeapInv
  <2>2. HeapFollows(seg, rest)
    BY <1>6
  <2> HIDE DEF seg, rest
  <2>3. Bound(q, r, DOMAIN blocks \ (Blocks(Heap) \ rest))
    BY <1>2, <1>4
  <2> QED
    <3>1. Place(q, n, rest) /\ ReachesApart(rest) /\ MemoryOK' /\ r.len = n
      BY <1>2, <1>3, <1>5, <1>6
    <3>2. /\ HeapOK' /\ Blocks(Heap)' = rest \union {q} /\ q \notin rest
          /\ \A s \in rest : Reach(s)' = Reach(s)
          /\ Reach(q)' = Bytes(q, ALLOC_SIZE(n))
          /\ \A s \in rest : Bytes(q, ALLOC_SIZE(n)) \intersect Reach(s) = {}
      <4> HIDE DEF there
      <4> QED
        BY <1>1, <2>1, <2>2, <2>3, <3>1, SetFollows
    <3> QED
      BY <3>2
<1> HIDE DEF there
<1>10. /\ blocks'[q] = r
       /\ \A s \in rest : blocks'[s] = blocks[s] /\ Extent(s)' = Extent(s)
  BY <1>2 DEF Bound, Extent, Blocks
<1> DEFINE S == initShadow
           G == Grown(p, q, n)
<1>11. p # q => there \intersect S = {}
  BY <1>5, <1>9 DEF HeapInv, InitOK
<1>12. /\ G \subseteq (S \ Reach(p)) \union there
       /\ (S \ Reach(p)) \ there \subseteq G
       /\ Kept(p, q, n) \subseteq G
       /\ p \notin regrown /\ ~(p = q /\ n > blocks[p].len) => G \intersect Bytes(q, n) = Kept(p, q, n)
  BY <1>1, <1>5, <1>11, GrownBits DEF there
<1>13. initShadow' = G
  BY DEF realloc
<1>14. /\ \A s \in rest : s \notin regrown' => s \notin regrown
       /\ q \notin regrown' => p \notin regrown /\ ~(p = q /\ n > blocks[p].len)
  BY <1>7 DEF realloc
<1> HIDE DEF S, G
<1>15. InitOK'
  <2>1. initShadow' \subseteq UNION {Reach(s)' : s \in Blocks(Heap)'}
    <3> SUFFICES ASSUME NEW b \in G PROVE \E s \in Blocks(Heap)' : b \in Reach(s)'
      BY <1>13
    <3>1. CASE b \in there
      BY <1>9, <3>1
    <3>2. CASE b \notin there
      <4>1. b \in S /\ b \notin Reach(p)
        BY <1>12, <3>2
      <4>2. PICK s \in Blocks(Heap) : b \in Reach(s)
        BY <4>1 DEF HeapInv, InitOK, S
      <4>3. s \in rest
        BY <4>1, <4>2
      <4> QED
        BY <1>9, <4>2, <4>3
    <3> QED
      BY <3>1, <3>2
  <2>2. ASSUME NEW s \in rest
        PROVE  /\ blocks'[s].init \subseteq initShadow'
               /\ s \notin regrown' => initShadow' \intersect Extent(s)' = blocks'[s].init
    <3>1. Extent(s) \intersect Reach(p) = {} /\ Extent(s) \intersect there = {} /\ blocks[s].init \subseteq Extent(s)
      BY <1>8, <1>9, ReachFacts DEF HeapInv, MemoryOK, BlockOK, Blocks
    <3>2. blocks[s].init \subseteq S /\ (s \notin regrown => S \intersect Extent(s) = blocks[s].init)
      BY DEF HeapInv, InitOK, S
    <3> QED
      BY <1>10, <1>12, <1>13, <1>14, <3>1, <3>2
  <2>3. /\ blocks'[q].init \subseteq initShadow'
        /\ q \notin regrown' => initShadow' \intersect Extent(q)' = blocks'[q].init
    <3>1. Extent(q)' = Bytes(q, n)
      BY <1>3, <1>10 DEF Extent
    <3> QED
      BY <1>3, <1>10, <1>12, <1>13, <1>14, <3>1
  <2> QED
    BY <1>9, <2>1, <2>2, <2>3 DEF InitOK
<1>16. HeapAccounted'
  <2>1. Split(p) /\ blocks[p].len \in Nat
    BY CountRemoved DEF HeapInv
  <2>2. /\ TotalLength(Blocks(Heap))' = TotalLength(rest) + n
        /\ Cardinality(Blocks(Heap))' = Cardinality(rest) + 1
    BY <1>2, <1>3, <1>9, <1>10, CountPlaced
  <2>3. heapSize' = heapSize - blocks[p].len + n /\ heapBlocks' = heapBlocks
    BY <1>7 DEF realloc, Resize
  <2> QED
    BY <1>1, <2>1, <2>2, <2>3 DEF Split, HeapInv, HeapAccounted
<1>17. Blocks(Static)' = Blocks(Static) /\ \A s \in Blocks(Static) : blocks'[s] = blocks[s]
  BY <1>1, <1>2 DEF Bound, Blocks
<1> QED
  BY <1>2, <1>9, <1>15, <1>16, <1>17 DEF HeapInv

LEMMA InitializeHeap ==
  ASSUME HeapInv, NEW p \in Blocks(Heap), NEW a \in Int, NEW n \in Int,
         Initialize(p, a, n), initShadow' = initShadow \union Bytes(a, n),
         UNCHANGED <<segment, heapSize, heapBlocks, regrown>>
  PROVE  /\ HeapInv' /\ Blocks(Static)' = Blocks(Static)
         /\ \A q \in Blocks(Static) : blocks'[q] = blocks[q]
<1> DEFINE r == [blocks[p] EXCEPT !.init = @ \union Bytes(a, n)]
<1>1. /\ p \in DOMAIN blocks /\ blocks[p] \in Record /\ Bytes(a, n) \subseteq Extent(p) /\ p \notin Static
  BY DisjointAssumption DEF Initialize, HeapInv, MemoryOK, Blocks, Static
<1>2. r.len = blocks[p].len /\ r.init = blocks[p].init \union Bytes(a, n)
  BY <1>1 DEF Record
<1>3. MemoryOK' /\ Updated(p, r)
  BY InitializeOK DEF HeapInv
<1> HIDE DEF r
<1>4. /\ Blocks(Heap)' = Blocks(Heap)
      /\ \A q \in Blocks(Heap) : blocks'[q] = (IF q = p THEN r ELSE blocks[q])
      /\ \A q \in Blocks(Heap) : blocks'[q].len = blocks[q].len
  BY <1>2, <1>3 DEF Updated, Blocks
<1>5. \A q \in Blocks(Heap) : Extent(q)' = Extent(q) /\ Reach(q)' = Reach(q)
  BY <1>4 DEF Extent, Reach
<1>6. HeapOK'
  BY <1>4, <1>5 DEF HeapInv, HeapOK, HeapFollows, Shadowed, ReachesApart
<1>7. InitOK'
  <2>1. Bytes(a, n) \subseteq Reach(p)
    BY <1>1, ReachFacts DEF HeapInv
  <2>2. initShadow' \subseteq UNION {Reach(q) : q \in Blocks(Heap)}
    BY <2>1 DEF HeapInv, InitOK
  <2>3. ASSUME NEW q \in Blocks(Heap)
        PROVE  /\ blocks'[q].init \subseteq initShadow'
               /\ q \notin regrown => initShadow' \intersect Extent(q) = blocks'[q].init
    <3>1. blocks[q].init \subseteq initShadow /\ (q \notin regrown => initShadow \intersect Extent(q) = blocks[q].init)
      BY DEF HeapInv, InitOK
    <3>2. CASE q = p
      BY <1>1, <1>2, <1>4, <3>1, <3>2
    <3>3. CASE q # p
      <4>1. Extent(q) \intersect Bytes(a, n) = {}
        BY <1>1, <3>3, StaticApart DEF HeapInv, Blocks
      <4> QED
        BY <1>4, <3>1, <3>3, <4>1
    <3> QED
      BY <3>2, <3>3
  <2> QED
    BY <1>4, <1>5, <2>2, <2>3 DEF InitOK
<1>8. HeapAccounted'
  <2>1. {Extent(q)' : q \in Blocks(Heap)} = {Extent(q) : q \in Blocks(Heap)}
    BY <1>5
  <2> QED
    BY <1>4, <2>1 DEF HeapInv, HeapAccounted, TotalLength
<1>9. Blocks(Static)' = Blocks(Static) /\ \A q \in Blocks(Static) : blocks'[q] = blocks[q]
  BY <1>1, <1>3 DEF Updated, Blocks
<1> QED
  BY <1>3, <1>6, <1>7, <1>8, <1>9 DEF HeapInv

-----------------------------------------------------------------------------
(* The invariant, and its preservation by each step. *)
SegInv == HeapInv /\ StaticOK

LEMMA InitInv == Init => SegInv
<1> SUFFICES ASSUME Init PROVE SegInv
  OBVIOUS
<1>1. MemoryOK /\ DOMAIN blocks = {} /\ Blocks(Heap) = {} /\ Blocks(Static) = {}
  BY NoBlocksOK DEF Init, Blocks
<1>2. HeapOK
  BY <1>1 DEF Init, HeapOK, HeapFollows, ReachesApart, NoSegment, NULL
<1>3. InitOK
  BY <1>1 DEF Init, InitOK
<1>4. HeapAccounted
  <2>1. Cardinality({}) = 0 /\ UNION {Extent(q) : q \in {}} = {}
    BY FS_EmptySet
  <2> QED
    BY <1>1, <2>1 DEF Init, HeapAccounted, TotalLength
<1>5. StaticOK
  <2>1. Shadows = [code |-> [a \in Static |-> 0], inits |-> {}, ronly |-> {}, sec |-> [a \in Static |-> 0]]
    BY DEF Init, Shadows
  <2>2. [a \in Static |-> 0] \in [Static -> Int]
    OBVIOUS
  <2>3. Shadows \in ShadowSet
    BY <2>1, <2>2 DEF ShadowSet
  <2>4. \A a \in Static : Blank(Shadows, a)
    BY <2>1 DEF Blank
  <2> QED
    BY <1>1, <2>3, <2>4 DEF StaticOK, Follows
<1> QED
  BY <1>1, <1>2, <1>3, <1>4, <1>5 DEF SegInv, HeapInv

(* A step on a static block leaves the heap as it is. *)
LEMMA StaticStep ==
  ASSUME SegInv, MemoryOK', StaticOK', UNCHANGED heap, NEW p \in Static,
         DOMAIN blocks' \ {p} = DOMAIN blocks \ {p},
         \A q \in DOMAIN blocks \ {p} : blocks'[q] = blocks[q]
  PROVE  SegInv'
<1>1. p \notin Heap
  BY DisjointAssumption DEF Static
<1>2. Blocks(Heap)' = Blocks(Heap) /\ \A q \in Blocks(Heap) : blocks'[q] = blocks[q]
  BY <1>1 DEF Blocks
<1> QED
  BY <1>2, HeapFrame DEF SegInv, HeapInv

LEMMA HeapStep ==
  ASSUME SegInv, HeapInv', UNCHANGED static, Blocks(Static)' = Blocks(Static),
         \A q \in Blocks(Static) : blocks'[q] = blocks[q]
  PROVE  SegInv'
BY StaticFrame DEF SegInv

LEMMA MarkedInv ==
  ASSUME SegInv, NEW p \in DOMAIN blocks, NEW a \in Int, NEW n \in Int, a \in Heap <=> p \in Heap,
         Initialize(p, a, n), Mark(a, n), UNCHANGED <<code, ronly, sec, crashed>>
  PROVE  SegInv'
<1>1. p \in Static \union Heap
  BY DEF SegInv, HeapInv, MemoryOK, BlockOK
<1>2. CASE p \in Heap
  <2>1. initShadow' = initShadow \union Bytes(a, n) /\ UNCHANGED <<segment, heapSize, heapBlocks, regrown>>
    BY <1>2 DEF Mark
  <2>2. UNCHANGED static
    BY <1>2 DEF Mark, static
  <2>3. p \in Blocks(Heap)
    BY <1>2 DEF Blocks
  <2>4. /\ HeapInv' /\ Blocks(Static)' = Blocks(Static)
        /\ \A q \in Blocks(Static) : blocks'[q] = blocks[q]
    BY <2>1, <2>3, InitializeHeap DEF SegInv
  <2> QED
    BY <2>2, <2>4, HeapStep
<1>3. CASE p \notin Heap
  <2>1. inits' = inits \union Bytes(a, n) /\ UNCHANGED heap /\ UNCHANGED <<code, ronly, sec>>
    BY <1>3 DEF Mark
  <2>2. p \in Static /\ p \in Blocks(Static)
    BY <1>1, <1>3 DEF Blocks
  <2>3. StaticOK'
    BY <2>1, <2>2, InitializeStatic DEF SegInv, HeapInv
  <2>4. MemoryOK' /\ Updated(p, [blocks[p] EXCEPT !.init = @ \union Bytes(a, n)])
    BY InitializeOK DEF SegInv, HeapInv
  <2>5. DOMAIN blocks' = DOMAIN blocks /\ \A q \in DOMAIN blocks \ {p} : blocks'[q] = blocks[q]
    BY <2>4 DEF Updated
  <2> QED
    BY <2>1, <2>2, <2>3, <2>4, <2>5, StaticStep
<1> QED
  BY <1>2, <1>3

LEMMA NextInv == SegInv /\ [Next]_vars => SegInv'
<1> SUFFICES ASSUME SegInv, [Next]_vars PROVE SegInv'
  OBVIOUS
<1>0. MemoryOK /\ StaticOK /\ HeapInv
  BY DEF SegInv, HeapInv
<1>1. ASSUME NEW p \in Bases, NEW n \in StaticSizes, store_block(p, n) PROVE SegInv'
  <2>1. MemoryOK' /\ StaticOK' /\ Bound(p, Fresh(n, {}), DOMAIN blocks)
    BY <1>0, <1>1, StoreStatic
  <2>2. UNCHANGED heap /\ p \in Static
    BY <1>1, PlacesAssumption DEF store_block, SetShadows
  <2> QED
    BY <2>1, <2>2, StaticStep DEF Bound
<1>2. ASSUME NEW p \in Bases, NEW n \in StaticSizes, store_block_duplicate(p, n) PROVE SegInv'
  <2>1. MemoryOK' /\ StaticOK' /\ Bound(p, Fresh(n, {}), DOMAIN blocks \ {p})
    BY <1>0, <1>2, DuplicateStatic
  <2>2. UNCHANGED heap /\ p \in Static
    BY <1>2, PlacesAssumption DEF store_block_duplicate, SetShadows
  <2> QED
    BY <2>1, <2>2, StaticStep DEF Bound
<1>3. ASSUME NEW p \in Blocks(Static), delete_block(p) PROVE SegInv'
  <2>1. /\ MemoryOK' /\ StaticOK'
        /\ DOMAIN blocks' = DOMAIN blocks \ {p}
        /\ \A q \in DOMAIN blocks' : blocks'[q] = blocks[q]
    BY <1>0, <1>3, DeleteStatic
  <2>2. UNCHANGED heap /\ p \in Static
    BY <1>3 DEF delete_block, SetShadows, Blocks
  <2> QED
    BY <2>1, <2>2, StaticStep
<1>4. ASSUME NEW p \in Blocks(Static), mark_readonly(p) PROVE SegInv'
  <2>1. MemoryOK' /\ Updated(p, [blocks[p] EXCEPT !.ro = TRUE])
    BY <1>0, <1>4, MarkReadonlyOK DEF mark_readonly
  <2>2. StaticOK'
    BY <1>0, <1>4, MarkReadonlyStatic
  <2>3. UNCHANGED heap /\ p \in Static
    BY <1>4 DEF mark_readonly, Blocks
  <2>4. DOMAIN blocks' = DOMAIN blocks /\ \A q \in DOMAIN blocks \ {p} : blocks'[q] = blocks[q]
    BY <2>1 DEF Updated
  <2> QED
    BY <2>1, <2>2, <2>3, <2>4, StaticStep
<1>5. ASSUME NEW p \in DOMAIN blocks, NEW a \in Extent(p), NEW n \in 1 .. blocks[p].len,
             initialize(p, a, n)
      PROVE  SegInv'
  <2>1. a \in Int /\ n \in Int
    BY <1>0, RegionsInt DEF Extent, Bytes, MemoryOK, BlockOK, Record
  <2>2. p \in Heap => a \in Heap
    BY <1>0, ReachFacts DEF Blocks
  <2>3. p \in Static => a \in Static
    BY <1>0, StaticExtent DEF Blocks
  <2>4. a \in Heap <=> p \in Heap
    BY <1>0, <2>2, <2>3, DisjointAssumption DEF MemoryOK, BlockOK, Static
  <2> QED
    BY <1>5, <2>1, <2>4, MarkedInv DEF initialize
<1>6. ASSUME NEW p \in DOMAIN blocks, full_init(p) PROVE SegInv'
  <2>1. p \in Int /\ blocks[p].len \in Nat /\ p \in Static \union Heap
    BY <1>0, RegionsInt DEF MemoryOK, BlockOK, Record
  <2>2. block_info(p).len = blocks[p].len
    <3>1. CASE p \in Heap
      <4>1. p \in Blocks(Heap) /\ p \in Reach(p)
        BY <1>0, <3>1, ReachFacts DEF Blocks
      <4>2. segment[SegmentOf(p)].base = p /\ segment[p].len = blocks[p].len
        BY <1>0, <4>1, SegmentKnown DEF HeapInv
      <4> QED
        BY <3>1, <4>2 DEF block_info, heap_info
    <3>2. CASE p \notin Heap
      BY <1>0, <2>1, <3>2, StaticLength DEF block_info, Blocks
    <3> QED
      BY <3>1, <3>2
  <2> QED
    BY <1>6, <2>1, <2>2, MarkedInv DEF full_init
<1>7. ASSUME NEW p \in Segments, NEW n \in HeapSizes, malloc(p, n) PROVE SegInv'
  <2>1. initShadow' = initShadow \union (IF FALSE THEN Bytes(p, ALLOC_SIZE(n)) ELSE {}) /\ UNCHANGED static
    BY <1>7 DEF malloc
  <2>2. /\ HeapInv' /\ Blocks(Static)' = Blocks(Static)
        /\ \A q \in Blocks(Static) : blocks'[q] = blocks[q]
    BY <1>0, <1>7, <2>1, AllocateHeap, FALSE \in BOOLEAN DEF malloc
  <2> QED
    BY <2>1, <2>2, HeapStep
<1>8. ASSUME NEW p \in Segments, NEW n \in HeapSizes, calloc(p, n) PROVE SegInv'
  <2>1. initShadow' = initShadow \union (IF TRUE THEN Bytes(p, ALLOC_SIZE(n)) ELSE {}) /\ UNCHANGED static
    BY <1>8 DEF calloc
  <2>2. /\ HeapInv' /\ Blocks(Static)' = Blocks(Static)
        /\ \A q \in Blocks(Static) : blocks'[q] = blocks[q]
    BY <1>0, <1>8, <2>1, AllocateHeap, TRUE \in BOOLEAN DEF calloc
  <2> QED
    BY <2>1, <2>2, HeapStep
<1>9. ASSUME NEW p \in Blocks(Heap), free(p) PROVE SegInv'
  <2>1. UNCHANGED static
    BY <1>9 DEF free
  <2> QED
    BY <1>0, <1>9, <2>1, FreeHeap, HeapStep
<1>10. ASSUME NEW p \in Blocks(Heap), NEW q \in Segments, NEW n \in HeapSizes, realloc(p, q, n)
       PROVE  SegInv'
  <2>1. UNCHANGED static
    BY <1>10 DEF realloc
  <2> QED
    BY <1>0, <1>10, <2>1, ReallocHeap, HeapStep
<1>11. CASE UNCHANGED vars
  <2>1. UNCHANGED heap /\ UNCHANGED static /\ blocks' = blocks
    BY <1>11 DEF vars
  <2>2. MemoryOK'
    BY <1>0, <2>1 DEF MemoryOK, BlockOK, Apart, Extent
  <2>3. Blocks(Heap)' = Blocks(Heap) /\ Blocks(Static)' = Blocks(Static)
    BY <2>1 DEF Blocks
  <2>4. StaticOK'
    BY <1>0, <2>1, <2>3, StaticFrame
  <2>5. HeapOK' /\ InitOK' /\ HeapAccounted'
    BY <1>0, <2>1, <2>3, HeapFrame DEF HeapInv
  <2> QED
    BY <2>2, <2>4, <2>5 DEF SegInv, HeapInv
<1> QED
  BY <1>1, <1>2, <1>3, <1>4, <1>5, <1>6, <1>7, <1>8, <1>9, <1>10, <1>11 DEF Next

LEMMA Always == Spec => []SegInv
BY InitInv, NextInv, PTL DEF Spec

-----------------------------------------------------------------------------
(* The properties follow from the invariant. *)

(* The counters of the heap are right whatever is allocated, freed or      *)
(* resized, and whatever the sizes.                                        *)
THEOREM HeapAccountedHolds == Spec => []HeapAccounted
<1>1. SegInv => HeapAccounted
  BY DEF SegInv, HeapInv
<1> QED
  BY <1>1, Always, PTL

LEMMA ReservedReaches == Reserved = UNION {Reach(p) : p \in Blocks(Heap)}
BY DEF Reserved, Reach

(* No block leaves anything behind in the shadows.                         *)
THEOREM UnusedShadowsNullHolds == Spec => []UnusedShadowsNull
<1>1. SegInv => UnusedShadowsNull
  <2> SUFFICES ASSUME SegInv PROVE UnusedShadowsNull
    OBVIOUS
  <2>1. \A a \in Static \ Tracked : code[a] = 0 /\ a \notin inits /\ sec[a] = 0
    <3> SUFFICES ASSUME NEW a \in Static \ Tracked
                 PROVE  code[a] = 0 /\ a \notin inits /\ sec[a] = 0
      OBVIOUS
    <3>1. \A p \in Blocks(Static) : a \notin Extent(p)
      BY DEF Tracked, Blocks
    <3> QED
      BY <3>1, Undecoded DEF SegInv
  <2>2. initShadow \subseteq Reserved
    BY ReservedReaches DEF SegInv, HeapInv, InitOK
  <2>3. \A s \in Segments \ Reserved : segment[s] = NoSegment
    BY ReservedReaches DEF SegInv, HeapInv, HeapOK, HeapFollows
  <2> QED
    BY <2>1, <2>2, <2>3 DEF UnusedShadowsNull
<1> QED
  BY <1>1, Always, PTL

(* What is initialized in a block is what the shadows say.                 *)
THEOREM InitializationExactHolds == Spec => []InitializationExact
<1>1. SegInv => InitializationExact
  <2> SUFFICES ASSUME SegInv PROVE InitializationExact
    OBVIOUS
  <2>1. ASSUME NEW p \in Blocks(Static) PROVE inits \intersect Extent(p) = blocks[p].init
    <3>1. \A a \in Extent(p) : a \in inits <=> a \in blocks[p].init
      BY DEF SegInv, StaticOK, Follows, Marked, Shadows
    <3>2. blocks[p].init \subseteq Extent(p)
      BY DEF SegInv, HeapInv, MemoryOK, BlockOK, Blocks
    <3> QED
      BY <3>1, <3>2
  <2> QED
    BY <2>1 DEF InitializationExact, SegInv, HeapInv, InitOK
<1> QED
  BY <1>1, Always, PTL

LEMMA NotSafe ==
  ASSUME NEW a \in Static \union Heap, NEW n \in Nat, n > 0
  PROVE  get_safe_location(a, n) = {} /\ ~IsSafe(a, n)
<1>1. ASSUME NEW l \in SafeLocations, l.address <= a, a + n <= l.address + l.length PROVE FALSE
  <2>1. l.address \in Nat /\ l.length \in Nat /\ a \in Int
    BY PlacesAssumption, RegionsInt
  <2>2. a \in Bytes(l.address, l.length)
    BY <1>1, <2>1 DEF Bytes
  <2> QED
    BY <2>2, PlacesAssumption
<1>2. get_safe_location(a, n) = {}
  BY <1>1 DEF get_safe_location
<1> QED
  BY <1>2 DEF IsSafe

LEMMA BlocksKnownInv == SegInv => BlocksKnown
<1> SUFFICES ASSUME SegInv PROVE BlocksKnown
  OBVIOUS
<1>1. MemoryOK /\ StaticOK /\ HeapOK
  BY DEF SegInv, HeapInv
<1>2. ASSUME NEW p \in DOMAIN blocks, NEW a \in Extent(p)
      PROVE  block_info(a) = [base |-> p, len |-> blocks[p].len, offset |-> a - p]
  <2>1. p \in Static \union Heap
    BY <1>1 DEF MemoryOK, BlockOK
  <2>2. CASE p \in Heap
    <3>1. p \in Blocks(Heap) /\ a \in Reach(p)
      BY <1>1, <2>2, ReachFacts DEF Blocks
    <3>2. a \in Heap /\ segment[SegmentOf(a)].base = p /\ segment[p].len = blocks[p].len
      BY <1>1, <3>1, SegmentKnown
    <3> QED
      BY <3>2 DEF block_info, heap_info
  <2>3. CASE p \in Static
    <3>1. p \in Blocks(Static) /\ a \in Static
      BY <1>1, <2>3, StaticExtent DEF Blocks
    <3>2. a \notin Heap /\ a \in Int /\ p \in Int
      BY <3>1, <2>3, DisjointAssumption, RegionsInt DEF Static
    <3>3. code[a] # 0 /\ LengthAt(a) = blocks[p].len /\ OffsetAt(a) = a - p
      BY <1>1, <3>1, Decoded
    <3>4. a - (a - p) = p
      BY <3>2
    <3> QED
      BY <3>2, <3>3, <3>4 DEF block_info, static_info, static_allocated_one
  <2> QED
    BY <2>1, <2>2, <2>3
<1>3. ASSUME NEW a \in Static \union Heap PROVE eacsl_freeable(a) <=> a \in Blocks(Heap)
  <2>1. ~IsSafe(a, 1)
    BY NotSafe
  <2>2. CASE a \in Heap
    BY <1>1, <2>1, <2>2, FreeableExact DEF eacsl_freeable
  <2>3. CASE a \notin Heap
    BY <2>1, <2>3 DEF eacsl_freeable, freeable, Blocks
  <2> QED
    BY <2>2, <2>3
<1> QED
  BY <1>2, <1>3 DEF BlocksKnown

(* An access the runtime accepts lies in a block that its base pointer     *)
(* points into, and the other way round.                                   *)
LEMMA InBlock ==
  ASSUME MemoryOK, NEW p \in DOMAIN blocks, NEW a \in Int, NEW n \in Nat, n > 0
  PROVE  /\ AllocatedIn(p, a, n) => a \in Extent(p)
         /\ AllocatedIn(p, a, 1) <=> a \in Extent(p)
         /\ p \in Int /\ blocks[p].len \in Nat
BY RegionsInt DEF MemoryOK, BlockOK, Record, AllocatedIn, Extent, Bytes

LEMMA Accepted ==
  ASSUME SegInv, NEW a \in Static \union Heap, NEW n \in Nat, n > 0,
         NEW base \in {a} \union Static \union Tracked, allocated(a, n, base)
  PROVE  \E p \in DOMAIN blocks : AllocatedIn(p, a, n) /\ AllocatedIn(p, base, 1)
<1>1. MemoryOK /\ StaticOK /\ HeapOK /\ a \in Int
  BY RegionsInt DEF SegInv, HeapInv
<1>2. CASE a \in Heap
  <2>1. base \in Heap /\ heap_allocated(a, n, base) /\ base \in Int
    BY <1>2, RegionsInt DEF allocated
  <2>2. ASSUME \A p \in Blocks(Heap) : a \notin Reach(p) PROVE FALSE
    BY <1>1, <1>2, <2>1, <2>2, SegmentUnknown DEF heap_allocated, NoSegment
  <2>3. PICK p \in Blocks(Heap) : a \in Reach(p)
    BY <2>2
  <2>4. segment[SegmentOf(a)].base = p /\ segment[p].len = blocks[p].len
    BY <1>1, <2>3, SegmentKnown
  <2>5. /\ p \in DOMAIN blocks /\ p \in Int /\ p # 0 /\ blocks[p].len \in Nat
        /\ Reach(p) = Bytes(p, ALLOC_SIZE(blocks[p].len))
    BY <1>1, ReachFacts DEF Reach
  <2>6. p <= a
    BY <1>1, <2>3, <2>5, ReachFacts DEF Bytes
  <2>7. segment[SegmentOf(base)].base = p /\ (a - p) + n <= blocks[p].len
    <3>1. SegmentOf(a) \in Segments
      BY <1>2, SegmentOfHeap
    <3>2. segment[SegmentOf(base)].base = segment[SegmentOf(a)].base
      BY <2>1 DEF heap_allocated
    <3>3. (a - segment[SegmentOf(a)].base) + n <= segment[segment[SegmentOf(a)].base].len
      BY <2>1 DEF heap_allocated
    <3> QED
      BY <2>4, <3>2, <3>3
  <2>8. AllocatedIn(p, a, n)
    BY <1>1, <2>5, <2>6, <2>7 DEF AllocatedIn
  <2>9. a \in Extent(p)
    BY <1>1, <2>5, <2>8, InBlock
  <2>10. base \in Extent(p)
    <3>1. CASE base = a
      BY <2>9, <3>1
    <3>2. CASE base \in Static
      BY <2>1, <3>2, DisjointAssumption DEF Static
    <3>3. CASE base \in Tracked
      <4>1. PICK q \in DOMAIN blocks : base \in Extent(q)
        BY <3>3 DEF Tracked
      <4>2. q \in Heap
        <5>1. q \in Static \union Heap
          BY <1>1 DEF MemoryOK, BlockOK
        <5>2. ASSUME q \in Static PROVE FALSE
          <6>1. base \in Static
            BY <1>1, <4>1, <5>2, StaticExtent DEF Blocks
          <6> QED
            BY <2>1, <6>1, DisjointAssumption DEF Static
        <5> QED
          BY <5>1, <5>2
      <4>3. q \in Blocks(Heap) /\ base \in Reach(q)
        BY <1>1, <4>1, <4>2, ReachFacts DEF Blocks
      <4>4. segment[SegmentOf(base)].base = q
        BY <1>1, <4>3, SegmentKnown
      <4> QED
        BY <2>7, <4>1, <4>4
    <3> QED
      BY <3>1, <3>2, <3>3
  <2> QED
    BY <1>1, <2>1, <2>5, <2>8, <2>10, InBlock
<1>3. CASE a \notin Heap
  <2>1. a \in Static /\ static_allocated(a, n, base)
    BY <1>3 DEF allocated
  <2>2. ASSUME \A p \in Blocks(Static) : a \notin Extent(p) PROVE FALSE
    <3>1. LengthAt(a) = 0 /\ OffsetAt(a) = 0
      BY <1>1, <2>1, <2>2, Undecoded
    <3> QED
      BY <2>1, <3>1 DEF static_allocated
  <2>3. PICK p \in Blocks(Static) : a \in Extent(p)
    BY <2>2
  <2>4. LengthAt(a) = blocks[p].len /\ OffsetAt(a) = a - p
    BY <1>1, <2>3, Decoded
  <2>5. p \in DOMAIN blocks /\ p \in Int /\ blocks[p].len \in Nat
    BY <1>1, StaticExtent
  <2>6. a - (a - p) = p
    BY <1>1, <2>5
  <2>7. (a - p) + n <= blocks[p].len /\ (a # base => base \in Extent(p))
    BY <2>1, <2>4, <2>6 DEF static_allocated, Extent
  <2>8. AllocatedIn(p, a, n) /\ base \in Extent(p) /\ base \in Int
    BY <1>1, <2>3, <2>5, <2>7 DEF AllocatedIn, Extent, Bytes
  <2> QED
    BY <1>1, <2>5, <2>8, InBlock
<1> QED
  BY <1>2, <1>3

LEMMA Accepts ==
  ASSUME SegInv, NEW a \in Static \union Heap, NEW n \in Nat, n > 0, NEW base \in Int,
         NEW p \in DOMAIN blocks, AllocatedIn(p, a, n), AllocatedIn(p, base, 1)
  PROVE  allocated(a, n, base)
<1>1. MemoryOK /\ StaticOK /\ HeapOK /\ a \in Int
  BY RegionsInt DEF SegInv, HeapInv
<1>2. a \in Extent(p) /\ base \in Extent(p) /\ p \in Int /\ blocks[p].len \in Nat /\ p \in Static \union Heap
  BY <1>1, InBlock DEF MemoryOK, BlockOK
<1>3. (a - p) + n <= blocks[p].len
  BY <1>1, <1>2 DEF AllocatedIn
<1>4. CASE p \in Heap
  <2>1. p \in Blocks(Heap) /\ a \in Reach(p) /\ base \in Reach(p) /\ p # 0
    BY <1>1, <1>2, <1>4, ReachFacts DEF Blocks
  <2>2. /\ a \in Heap /\ segment[SegmentOf(a)].base = p /\ segment[p].len = blocks[p].len
        /\ base \in Heap /\ segment[SegmentOf(base)].base = p
    BY <1>1, <2>1, SegmentKnown
  <2> QED
    BY <1>3, <2>1, <2>2 DEF allocated, heap_allocated, NULL
<1>5. CASE p \in Static
  <2>1. p \in Blocks(Static)
    BY <1>5 DEF Blocks
  <2>2. a \in Static /\ code[a] # 0 /\ LengthAt(a) = blocks[p].len /\ OffsetAt(a) = a - p
    BY <1>1, <1>2, <2>1, StaticExtent, Decoded
  <2>3. a \notin Heap /\ a - (a - p) = p
    BY <1>1, <1>2, <2>2, DisjointAssumption DEF Static
  <2> QED
    BY <1>2, <1>3, <2>2, <2>3 DEF allocated, static_allocated, static_allocated_one, Extent
<1> QED
  BY <1>2, <1>4, <1>5

LEMMA ReadonlyExact ==
  ASSUME SegInv, NEW p \in DOMAIN blocks, NEW a \in Extent(p)
  PROVE  readonly(a) <=> blocks[p].ro
<1>1. MemoryOK /\ StaticOK /\ BlockOK(p) /\ p \in Int /\ blocks[p].len \in Nat
  BY RegionsInt DEF SegInv, HeapInv, MemoryOK, BlockOK, Record
<1>2. a \in Room(p, blocks[p].len) /\ p \in Room(p, blocks[p].len)
  BY <1>1, InRoom DEF Extent
<1>3. CASE p \in Globals
  <2>1. a \in Globals
    BY <1>1, <1>2, <1>3, DisjointAssumption DEF BlockOK, InOneRegion, Static
  <2>2. p \in Blocks(Static)
    BY <1>3 DEF Blocks, Static
  <2>3. a \in ronly <=> blocks[p].ro
    BY <1>1, <2>2 DEF StaticOK, Follows, Marked, Shadows
  <2> QED
    BY <2>1, <2>3 DEF readonly
<1>4. CASE p \notin Globals
  <2>1. a \notin Globals
    BY <1>1, <1>2, <1>4, DisjointAssumption DEF BlockOK, InOneRegion, Static
  <2>2. ~blocks[p].ro
    BY <1>1, <1>4 DEF BlockOK
  <2> QED
    BY <2>1, <2>2 DEF readonly
<1> QED
  BY <1>3, <1>4

LEMMA ValidityExactInv == SegInv => ValidityExact
<1> SUFFICES ASSUME SegInv, NEW a \in Static \union Heap,
                    NEW access \in (Sizes \X {a}) \union ({1, LONG_BLOCK} \X (Bases \union Tracked))
             PROVE  LET n == access[1]
                        base == access[2]
                    IN  /\ eacsl_valid_read(a, n, base) <=> ValidRead(a, n, base)
                        /\ eacsl_valid(a, n, base) <=> Valid(a, n, base)
  BY DEF ValidityExact
<1> DEFINE n == access[1]
           base == access[2]
<1>1. n \in Nat /\ n > 0 /\ base \in {a} \union Static \union Tracked
  <2>1. CASE access \in Sizes \X {a}
    BY <2>1, SizesAssumption DEF Sizes
  <2>2. CASE access \in {1, LONG_BLOCK} \X (Bases \union Tracked)
    <3>1. n \in {1, LONG_BLOCK} /\ base \in Bases \union Tracked
      BY <2>2
    <3> QED
      BY <3>1, Block, PlacesAssumption
  <2> QED
    BY <2>1, <2>2
<1> HIDE DEF n, base
<1>2. MemoryOK /\ a \in Int /\ base \in Int
  <2>1. MemoryOK
    BY DEF SegInv, HeapInv
  <2>2. Tracked \subseteq Int
    BY <2>1, RegionsInt DEF Tracked, Extent, Bytes, MemoryOK, BlockOK, Record
  <2> QED
    BY <1>1, <2>1, <2>2, RegionsInt
<1>3. get_safe_location(a, n) = {} /\ ~IsSafe(a, n)
  BY <1>1, NotSafe
<1>4. /\ eacsl_valid_read(a, n, base) <=> allocated(a, n, base)
      /\ eacsl_valid(a, n, base) <=> allocated(a, n, base) /\ ~readonly(a)
  BY <1>1, <1>3 DEF eacsl_valid_read, eacsl_valid
<1>5. allocated(a, n, base) <=> \E p \in DOMAIN blocks : AllocatedIn(p, a, n) /\ AllocatedIn(p, base, 1)
  BY <1>1, <1>2, Accepted, Accepts
<1>6. \A p \in DOMAIN blocks : AllocatedIn(p, a, n) => (readonly(a) <=> blocks[p].ro)
  BY <1>1, <1>2, InBlock, ReadonlyExact
<1>7. eacsl_valid_read(a, n, base) <=> ValidRead(a, n, base)
  BY <1>4, <1>5 DEF ValidRead
<1>8. eacsl_valid(a, n, base) <=> Valid(a, n, base)
  BY <1>4, <1>5, <1>6 DEF Valid
<1> QED
  BY <1>7, <1>8 DEF n, base

(* Whatever blocks were stored, deleted, allocated, resized and freed      *)
(* before, the queries about a block and the validity of an access are     *)
(* answered from the shadows as the memory is.                             *)
THEOREM QueriesExactHolds == Spec => []QueriesExact
<1>1. SegInv => QueriesExact
  BY BlocksKnownInv, ValidityExactInv DEF QueriesExact
<1> QED
  BY <1>1, Always, PTL

===============================================================================
