---------------------------- MODULE SegmentMemory ----------------------------
(***************************************************************************)
(* The segment observation model of E-ACSL                                 *)
(* (observation_model/segment_model/e_acsl_segment_tracking.c): what the   *)
(* instrumented program does to its memory, together with the shadows that *)
(* track it.  A byte of a stack or global block is shadowed by a byte that *)
(* holds a code (the length and the offset of a short block, an offset to  *)
(* the metadata of a long one), a read-only and an initialization bit; a   *)
(* long block has its length and the offset of each of its pieces in a     *)
(* secondary shadow.  The heap is shadowed segment by segment (base        *)
(* address, length in the first), and has one initialization bit per byte. *)
(***************************************************************************)
EXTENDS ProgramMemory, Sequences

CONSTANTS
  LONG_BLOCK,    \* bytes of a long block that share a secondary shadow cell
  HEAP_SEGMENT,  \* bytes of a heap segment
  BYTE,          \* bits of a byte of the initialization shadow
  HEAP_START,    \* least address of the heap
  StaticSizes, HeapSizes,  \* bound: the sizes of the program's objects
  Bases,                   \* bound: where its stack and global objects start
  SafeLocations            \* errno and the standard streams: locs

ASSUME BlockAssumption == LONG_BLOCK \in {2, 4, 8}
ASSUME SegmentAssumption ==
  /\ HEAP_SEGMENT \in Nat \ {0} /\ BYTE \in Nat \ {0} /\ HEAP_START \in Nat
  /\ HEAP_SEGMENT % BYTE = 0 /\ HEAP_START % HEAP_SEGMENT = 0
ASSUME SizesAssumption == StaticSizes \subseteq Nat /\ HeapSizes \subseteq Nat

VARIABLES
  code, inits, ronly,     \* primary shadow: the code, and the bytes with each bit
  sec,                    \* secondary shadow: length, offset cells
  segment,                \* heap shadow: base and length of each segment
  initShadow,             \* heap addresses whose initialization bit is set
  heapSize, heapBlocks,   \* heap_internal_allocation_size, ..._allocated_blocks
  regrown,                \* history: heap blocks grown in place
  crashed                 \* the runtime wrote outside its shadows

static == <<code, inits, ronly, sec>>
heap == <<segment, initShadow, heapSize, heapBlocks, regrown>>
vars == <<blocks, static, heap, crashed>>

LONG_BLOCK_INDEX_START == 48
short_offsets_base == <<0, 1, 2, 4, 7, 11, 16, 22, 29>>
short_lengths ==
  <<0, 1, 2, 2, 3, 3, 3, 4, 4, 4, 4, 5, 5, 5, 5, 5, 6, 6, 6, 6, 6, 6,
    7, 7, 7, 7, 7, 7, 7, 8, 8, 8, 8, 8, 8, 8, 8>>
short_offsets ==
  <<0, 0, 0, 1, 0, 1, 2, 0, 1, 2, 3, 0, 1, 2, 3, 4, 0, 1, 2, 3, 4, 5,
    0, 1, 2, 3, 4, 5, 6, 0, 1, 2, 3, 4, 5, 6, 7>>

ALIGN_LEFT(n, m) == n - (n % m)
ALLOC_SIZE(n) == ALIGN_LEFT(n + HEAP_SEGMENT - 1, HEAP_SEGMENT)
SegmentOf(a) == ALIGN_LEFT(a, HEAP_SEGMENT)
ASSUME PlacesAssumption ==
  /\ \A a \in Heap : Bytes(SegmentOf(a), HEAP_SEGMENT) \subseteq Heap
  /\ Bases \subseteq Static
  /\ SafeLocations \subseteq [address : Nat, length : Nat, writeable : BOOLEAN]
  /\ \A l \in SafeLocations : Bytes(l.address, l.length) \intersect (Static \union Heap) = {}
Segments == {a \in Heap : a % HEAP_SEGMENT = 0}
NULL == 0
NoSegment == [base |-> NULL, len |-> 0]
Lesser(x, y) == IF x < y THEN x ELSE y

Init ==
  /\ NoBlocks
  /\ code = [a \in Static |-> 0] /\ inits = {} /\ ronly = {}
  /\ sec = [a \in Static |-> 0]
  /\ segment = [s \in Segments |-> NoSegment] /\ initShadow = {}
  /\ heapSize = 0 /\ heapBlocks = 0 /\ regrown = {}
  /\ crashed = FALSE

-----------------------------------------------------------------------------
(* Queries.                                                                *)
static_allocated_one(a) == code[a] # 0 \/ a \in inits \/ a \in ronly
IsLong(a) == code[a] >= LONG_BLOCK_INDEX_START
IndexOf(a) == code[a] - LONG_BLOCK_INDEX_START
LengthAt(a) ==
  IF IsLong(a) THEN sec[a - IndexOf(a)] ELSE short_lengths[code[a] + 1]
OffsetAt(a) ==
  IF IsLong(a) THEN sec[a - IndexOf(a) + LONG_BLOCK \div 2] + IndexOf(a)
  ELSE short_offsets[code[a] + 1]

static_info(a) ==
  IF static_allocated_one(a)
  THEN [base |-> a - OffsetAt(a), len |-> LengthAt(a), offset |-> OffsetAt(a)]
  ELSE [base |-> 0, len |-> 0, offset |-> 0]

BelongsNowhere(a, n, base) ==  \* mutant
  static_allocated_one(a) /\ OffsetAt(a) + n <= LengthAt(a)
static_allocated(a, n, base) ==
  /\ static_allocated_one(a)
  /\ a # base => base \in Bytes(a - OffsetAt(a), LengthAt(a))
  /\ OffsetAt(a) + n <= LengthAt(a)

static_initialized(a, n) ==
  static_allocated(a, n, a) /\ Bytes(a, n) \subseteq inits

heap_info(a) ==
  LET s == segment[SegmentOf(a)]
  IN  [base |-> s.base, len |-> segment[s.base].len, offset |-> a - s.base]

heap_allocated(a, n, base) ==
  LET s == segment[SegmentOf(a)]
  IN  /\ s.base # NULL
      /\ segment[SegmentOf(base)].base = s.base
      /\ (a - s.base) + n <= segment[s.base].len

(* The shadow pointer is not moved past the byte a starts in before the    *)
(* bits that follow that byte are checked.                                 *)
heap_initialized(a, n) ==
  LET skip == (a - HEAP_START) % BYTE
      set  == IF skip = 0 THEN 0 ELSE Lesser(n, BYTE - skip)
  IN  /\ Bytes(a, set) \subseteq initShadow
      /\ Bytes(a - skip, n - set) \subseteq initShadow

freeable(a) == a \in Heap /\ segment[SegmentOf(a)].base = a

allocated(a, n, base) ==
  IF a \in Heap THEN base \in Heap /\ heap_allocated(a, n, base)
  ELSE static_allocated(a, n, base)
readonly(a) == a \in Globals /\ a \in ronly

get_safe_location(a, n) ==
  {l \in SafeLocations : l.address <= a /\ a + n <= l.address + l.length}
IsSafe(a, n) == get_safe_location(a, n) # {}

eacsl_valid_read(a, n, base) == n = 0 \/ IsSafe(a, n) \/ allocated(a, n, base)
eacsl_valid(a, n, base) ==
  \/ n = 0
  \/ \E l \in get_safe_location(a, n) : l.writeable
  \/ ~IsSafe(a, n) /\ allocated(a, n, base) /\ ~readonly(a)
eacsl_initialized(a, n) ==
  \/ IsSafe(a, n)
  \/ a \in Heap /\ heap_initialized(a, n)
  \/ a \in Static /\ static_initialized(a, n)
eacsl_freeable(a) == IsSafe(a, 1) \/ freeable(a)
block_info(a) == IF a \in Heap THEN heap_info(a) ELSE static_info(a)

-----------------------------------------------------------------------------
(* Stack and global blocks.                                                *)
RemainderAsShort(n, i) ==  \* mutant
  IF n <= LONG_BLOCK THEN short_offsets_base[n + 1] + i
  ELSE LONG_BLOCK_INDEX_START + (i % LONG_BLOCK)
CodeOf(n, i) ==
  IF n <= LONG_BLOCK THEN short_offsets_base[n + 1] + i
  ELSE IF i < ALIGN_LEFT(n, LONG_BLOCK)
  THEN LONG_BLOCK_INDEX_START + (i % LONG_BLOCK)
  ELSE LONG_BLOCK_INDEX_START + LONG_BLOCK + (i % LONG_BLOCK)

(* The cell of the secondary shadow at the offset i of a long block.       *)
CellOf(n, i, old) ==
  IF n <= LONG_BLOCK \/ i >= ALIGN_LEFT(n, LONG_BLOCK) THEN old
  ELSE IF i % LONG_BLOCK = 0 THEN n
  ELSE IF i % LONG_BLOCK = LONG_BLOCK \div 2 THEN i - (i % LONG_BLOCK)
  ELSE old

(* shadow_alloca, over the shadows s of the addresses before the call.     *)
Shadows == [code |-> code, inits |-> inits, ronly |-> ronly, sec |-> sec]
shadow_alloca(s, p, n) ==
  IF n = 0 THEN [s EXCEPT !.ronly = @ \union {p}]
  ELSE [code |-> [a \in Static |-> IF a \in Bytes(p, n) THEN CodeOf(n, a - p) ELSE s.code[a]],
        inits |-> s.inits \ Bytes(p, n),
        ronly |-> s.ronly \ Bytes(p, n),
        sec |-> [a \in Static |-> IF a \in Bytes(p, n) THEN CellOf(n, a - p, s.sec[a]) ELSE s.sec[a]]]

shadow_freea(s, p) ==
  LET here == Bytes(p, static_info(p).len)
  IN  [code |-> [a \in Static |-> IF a \in here THEN 0 ELSE s.code[a]],
       inits |-> s.inits \ here,
       ronly |-> s.ronly \ here,
       sec |-> [a \in Static |-> IF a \in here THEN 0 ELSE s.sec[a]]]

SetShadows(s) ==
  /\ code' = s.code /\ inits' = s.inits /\ ronly' = s.ronly /\ sec' = s.sec
  /\ UNCHANGED <<heap, crashed>>

store_block(p, n) ==
  /\ ~crashed
  /\ Store(p, n)
  /\ SetShadows(shadow_alloca(Shadows, p, n))

delete_block(p) ==
  /\ ~crashed
  /\ Delete(p)
  /\ SetShadows(shadow_freea(Shadows, p))

store_block_duplicate(p, n) ==
  /\ ~crashed
  /\ StoreDuplicate(p, n)
  /\ SetShadows(shadow_alloca(
       IF allocated(p, n, p) THEN shadow_freea(Shadows, p) ELSE Shadows, p, n))

(* unsafe_initialize: initialize_static_region or initialize_heap_region.  *)
Mark(a, n) ==
  IF a \in Heap
  THEN /\ initShadow' = initShadow \union Bytes(a, n)
       /\ UNCHANGED <<inits, segment, heapSize, heapBlocks, regrown>>
  ELSE inits' = inits \union Bytes(a, n) /\ UNCHANGED heap

initialize(p, a, n) ==
  /\ ~crashed
  /\ Initialize(p, a, n)
  /\ Mark(a, n)
  /\ UNCHANGED <<code, ronly, sec, crashed>>

full_init(p) ==
  /\ ~crashed
  /\ Initialize(p, p, blocks[p].len)
  /\ Mark(p, block_info(p).len)
  /\ UNCHANGED <<code, ronly, sec, crashed>>

mark_readonly(p) ==
  /\ ~crashed
  /\ MarkReadonly(p)
  /\ ronly' = ronly \union Bytes(p, static_info(p).len)
  /\ UNCHANGED <<code, inits, sec, heap, crashed>>

-----------------------------------------------------------------------------
(* Heap blocks.                                                            *)
set_heap_segment(seg, p, n) ==
  [s \in Segments |->
     IF s \in Bytes(p, ALLOC_SIZE(n))
     THEN [base |-> p, len |-> IF s = p THEN n ELSE seg[s].len]
     ELSE seg[s]]

unset_heap_segment(seg, p) ==
  [s \in Segments |->
     IF s \in Bytes(p, ALLOC_SIZE(seg[p].len)) THEN NoSegment ELSE seg[s]]

(* The allocator gives an aligned place for the rounded size, apart from   *)
(* the rounded sizes of the other blocks.                                  *)
Place(p, n, others) ==
  /\ p \in Segments
  /\ Bytes(p, ALLOC_SIZE(n)) \subseteq Heap
  /\ \A q \in others :
       Bytes(p, ALLOC_SIZE(n)) \intersect Bytes(q, ALLOC_SIZE(blocks[q].len)) = {}

(* unsafe_malloc, unsafe_aligned_alloc and unsafe_posix_memalign.          *)
malloc(p, n) ==
  /\ ~crashed
  /\ Place(p, n, Blocks(Heap))
  /\ Allocate(p, n, FALSE)
  /\ segment' = set_heap_segment(segment, p, n)
  /\ heapSize' = heapSize + n /\ heapBlocks' = heapBlocks + 1
  /\ UNCHANGED <<static, initShadow, regrown, crashed>>

(* unsafe_calloc marks the whole allocation, not only its n bytes.         *)
calloc(p, n) ==
  /\ ~crashed
  /\ Place(p, n, Blocks(Heap))
  /\ Allocate(p, n, TRUE)
  /\ segment' = set_heap_segment(segment, p, n)
  /\ initShadow' = initShadow \union Bytes(p, ALLOC_SIZE(n))
  /\ heapSize' = heapSize + n /\ heapBlocks' = heapBlocks + 1
  /\ UNCHANGED <<static, regrown, crashed>>

free(p) ==
  /\ ~crashed
  /\ freeable(p)
  /\ Release(p)
  /\ heapSize' = heapSize - segment[p].len /\ heapBlocks' = heapBlocks - 1
  /\ initShadow' = initShadow \ Bytes(p, ALLOC_SIZE(segment[p].len))
  /\ segment' = unset_heap_segment(segment, p)
  /\ regrown' = regrown \ {p}
  /\ UNCHANGED <<static, crashed>>

(* unsafe_realloc once public_realloc gave q: the initialization bits are  *)
(* cleared past a smaller size, carried over byte by byte to a new place,  *)
(* and cleared from the old size to the new one when the block grows.      *)
NotTruncated(p, n) == initShadow  \* mutant
Truncated(p, n) ==
  LET old == segment[p].len
  IN  IF old > n THEN initShadow \ (Bytes(p, ALLOC_SIZE(old)) \ Bytes(p, n)) ELSE initShadow
KeepBits(p, n) == Lesser(n, segment[p].len)
KeepBytes(p, n) == (KeepBits(p, n) + BYTE - 1) \div BYTE
Carried(p, q, n) ==
  IF p = q THEN Truncated(p, n)
  ELSE LET kept == KeepBytes(p, n) * BYTE
           here == {a \in Truncated(p, n) : a \notin Bytes(q, kept)}
       IN  (here \ Bytes(p, ALLOC_SIZE(segment[p].len)))
             \union {q + (a - p) : a \in Truncated(p, n) \intersect Bytes(p, kept)}
GrownWithoutMask(p, q, n) == Carried(p, q, n)  \* mutant
Grown(p, q, n) ==
  LET old == segment[p].len
      keep == KeepBytes(p, n) * BYTE
      masked == Carried(p, q, n) \ (Bytes(q, keep) \ Bytes(q, old))
  IN  IF n <= old THEN Carried(p, q, n)
      ELSE IF p # q THEN masked
      ELSE masked \ (Bytes(q, ALIGN_LEFT(n, BYTE)) \ Bytes(q, keep))
(* The bytes to clear are counted with an unsigned subtraction.            *)
CountUnderflows(p, q, n) ==
  p = q /\ n > segment[p].len /\ n \div BYTE < KeepBytes(p, n)

ReallocForgetsOld(p, n) == heapSize' = heapSize + n  \* mutant
Resize(p, n) == heapSize' = heapSize - segment[p].len + n

realloc(p, q, n) ==
  /\ ~crashed
  /\ freeable(p)
  /\ Place(q, n, Blocks(Heap) \ (IF p = q THEN {p} ELSE {}))
  /\ Reallocate(p, q, n)
  /\ segment' = set_heap_segment(unset_heap_segment(segment, p), q, n)
  /\ Resize(p, n)
  /\ initShadow' = Grown(p, q, n)
  /\ regrown' = (regrown \ {p}) \union
       IF p \in regrown \/ (p = q /\ n > segment[p].len) THEN {q} ELSE {}
  /\ crashed' = CountUnderflows(p, q, n)
  /\ UNCHANGED <<static, heapBlocks>>

Next ==
  \/ \E p \in Bases, n \in StaticSizes : store_block(p, n) \/ store_block_duplicate(p, n)
  \/ \E p \in Blocks(Static) : delete_block(p) \/ mark_readonly(p)
  \/ \E p \in DOMAIN blocks :
       \/ \E a \in Extent(p), n \in 1 .. blocks[p].len : initialize(p, a, n)
       \/ full_init(p)
  \/ \E p \in Segments, n \in HeapSizes : malloc(p, n) \/ calloc(p, n)
  \/ \E p \in Blocks(Heap) : free(p) \/ \E q \in Segments, n \in HeapSizes : realloc(p, q, n)

Spec == Init /\ [][Next]_vars

-----------------------------------------------------------------------------
Sizes == {n \in StaticSizes \union HeapSizes : n > 0}
Tracked == UNION {Extent(p) : p \in DOMAIN blocks}
Reserved == UNION {Bytes(p, ALLOC_SIZE(blocks[p].len)) : p \in Blocks(Heap)}

(* The answers to \base_addr, \block_length, \offset and \freeable are   *)
(* those of the program's memory, whatever was stored, deleted or resized  *)
(* before: the lengths and offsets packed in the codes of a short block,   *)
(* in the secondary shadow of a long one (whose last bytes borrow the cell *)
(* of the piece before) or in the first segment of a heap block.           *)
BlocksKnown ==
  /\ \A p \in DOMAIN blocks : \A a \in Extent(p) :
       block_info(a) = [base |-> p, len |-> blocks[p].len, offset |-> a - p]
  /\ \A a \in Static \union Heap : eacsl_freeable(a) <=> a \in Blocks(Heap)

(* \valid and \valid_read hold of exactly the ranges that lie in the block *)
(* their base pointer points into (a base pointer into the unused end of a *)
(* heap block excepted), and \valid of none in a read-only block.          *)
ValidityExact ==
  \A a \in Static \union Heap :
    \A access \in (Sizes \X {a}) \union ({1, LONG_BLOCK} \X (Bases \union Tracked)) :
      LET n == access[1]
          base == access[2]
      IN  /\ eacsl_valid_read(a, n, base) <=> ValidRead(a, n, base)
          /\ eacsl_valid(a, n, base) <=> Valid(a, n, base)
QueriesExact == BlocksKnown /\ ValidityExact

(* Every initialized byte is known to be; and, but for a heap block that   *)
(* realloc grew in place, a byte nothing initialized since its block was   *)
(* created is known not to be, even where another block was before.        *)
InitializationExact ==
  /\ \A p \in Blocks(Static) : inits \intersect Extent(p) = blocks[p].init
  /\ \A p \in Blocks(Heap) :
       /\ blocks[p].init \subseteq initShadow
       /\ p \notin regrown => initShadow \intersect Extent(p) = blocks[p].init

(* Nothing is left behind: where no block is, the shadows that make a byte *)
(* look allocated or initialized are null (a deleted block of size 0       *)
(* leaves its read-only bit, which no query reads on its own).             *)
UnusedShadowsNull ==
  /\ \A a \in Static \ Tracked : code[a] = 0 /\ a \notin inits /\ sec[a] = 0
  /\ initShadow \subseteq Reserved
  /\ \A s \in Segments \ Reserved : segment[s] = NoSegment

(* eacsl_get_heap_allocation_size and eacsl_get_heap_allocated_blocks.     *)
HeapAccounted ==
  /\ heapBlocks = Cardinality(Blocks(Heap))
  /\ heapSize = TotalLength(Blocks(Heap))

(* realloc of a block the program allocated never brings the program down. *)
ReallocReturns == ~crashed

(* \initialized of a range of a block is what was initialized.             *)
InitializedAnswers ==
  \A p \in DOMAIN blocks \ regrown : \A a \in Extent(p) : \A n \in Sizes :
    a + n <= p + blocks[p].len => (eacsl_initialized(a, n) <=> Initialized(a, n))
=============================================================================
