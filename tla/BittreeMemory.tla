---------------------------- MODULE BittreeMemory ----------------------------
(***************************************************************************)
(* The bittree observation model of E-ACSL                                 *)
(* (observation_model/bittree_model): each block of the program has a      *)
(* record, kept in a Patricia trie under the address the block starts at;  *)
(* the record counts the initialized bytes of the block, and has a bit for *)
(* each of them while only some are.                                       *)
(*                                                                         *)
(* pt_lookup never assigns its result when it finds the block: whether a   *)
(* caller then gets the block or NULL is up to the compiler.  The model    *)
(* has both, remembers in missed that a block was not found, and follows a *)
(* program no further than that.                                           *)
(***************************************************************************)
EXTENDS ProgramMemory, PatriciaTrie

CONSTANTS
  BYTE,                    \* bits of a byte of init_ptr
  StaticSizes, HeapSizes,  \* bound: the sizes of the program's objects
  Bases, HeapBases         \* bound: where they start

VARIABLES
  bittree,               \* the trie; a leaf is the address of a record
  block,                 \* base address -> bt_block
  heapSize, heapBlocks,  \* heap_internal_allocation_size, ..._allocated_blocks
  moved, cut,            \* history: blocks realloc moved, or cut while partly initialized
  missed,                \* history: a block was looked up and not found
  aborted                \* the runtime stopped the program

tree == <<bittree, block>>
heap == <<heapSize, heapBlocks, moved, cut>>
vars == <<blocks, tree, heap, missed, aborted>>

NULL == 0
needed_bytes(n) == (n + BYTE - 1) \div BYTE

(* bits: the offsets set in init_ptr, none when it is NULL.                *)
bt_alloc_block(n) ==
  [size |-> n, bits |-> {}, init_bytes |-> 0, is_readonly |-> FALSE, is_freeable |-> FALSE]
CleanBlock(b) == [b EXCEPT !.bits = {}, !.init_bytes = 0]

bt_contains_ptr(p, a) ==
  a >= p /\ (a < p + block[p].size \/ (block[p].size = 0 /\ a = p))
LeafOf(n) == IF is_leaf(n) THEN n.leaf ELSE NULL
bt_find(a) == LeafOf(pt_find(bittree, a, bt_contains_ptr))
bt_lookup(a) == {LeafOf(pt_lookup(bittree, a)), NULL}

Running == ~missed /\ ~aborted
Notice(p, b) == missed' = (b = NULL) /\ UNCHANGED aborted

Init ==
  /\ NoBlocks
  /\ bittree = NullNode /\ block = [p \in {} |-> bt_alloc_block(0)]
  /\ heapSize = 0 /\ heapBlocks = 0 /\ moved = {} /\ cut = {}
  /\ missed = FALSE /\ aborted = FALSE

-----------------------------------------------------------------------------
(* Queries.                                                                *)
lookup_allocated(a, n, base) ==
  LET p == bt_find(a)
  IN  IF p = NULL \/ bt_find(base) # p THEN NULL
      ELSE IF block[p].size - (a - p) >= n THEN p ELSE NULL
eacsl_valid_read(a, n, base) == n = 0 \/ lookup_allocated(a, n, base) # NULL
eacsl_valid(a, n, base) ==
  \/ n = 0
  \/ LET p == lookup_allocated(a, n, base) IN p # NULL /\ ~block[p].is_readonly

eacsl_initialized(a, n) ==
  LET p == bt_find(a)
  IN  /\ p # NULL
      /\ block[p].init_bytes # 0
      /\ \/ block[p].init_bytes = block[p].size
         \/ \A i \in 0 .. (n - 1) : a - p + i \in block[p].bits

(* They stop the program when no block contains the address.               *)
block_info(a) ==
  LET p == bt_find(a)
  IN  IF p = NULL THEN [base |-> NULL, len |-> 0, offset |-> 0]
      ELSE [base |-> p, len |-> block[p].size, offset |-> a - p]

-----------------------------------------------------------------------------
(* Stack and global blocks.                                                *)
bt_insert(t, p) == pt_insert(t, LeafNode(p, p))
eacsl_store_block(t, bs, p, b) ==
  bittree' = bt_insert(t, p) /\ block' = Bind(bs, p, b)

store_block(p, n) ==
  /\ Running
  /\ Store(p, n)
  /\ eacsl_store_block(bittree, block, p, bt_alloc_block(n))
  /\ UNCHANGED <<heap, missed, aborted>>

delete_block(p) ==
  /\ Running
  /\ Delete(p)
  /\ \E b \in bt_lookup(p) :
       /\ Notice(p, b)
       /\ IF b = NULL THEN UNCHANGED tree
          ELSE bittree' = pt_remove(bittree, b) /\ block' = Unbind(block, b)
  /\ UNCHANGED heap

(* A duplicate that is not found is inserted next to the first one.        *)
store_block_duplicate(p, n) ==
  /\ Running
  /\ StoreDuplicate(p, n)
  /\ \E b \in bt_lookup(p) :
       /\ Notice(p, b)
       /\ eacsl_store_block(IF b = NULL THEN bittree ELSE pt_remove(bittree, b),
                            IF b = NULL THEN block ELSE Unbind(block, b), p, bt_alloc_block(n))
  /\ UNCHANGED heap

SetRecounted(b, offsets) ==  \* mutant
  LET count == b.init_bytes + Cardinality(offsets)
  IN  IF b.init_bytes = b.size THEN b
      ELSE [b EXCEPT !.bits = IF count = b.size THEN {} ELSE @ \union offsets, !.init_bytes = count]
Set(b, offsets) ==
  LET bits == b.bits \union offsets
      count == b.init_bytes + Cardinality(offsets \ b.bits)
  IN  IF b.init_bytes = b.size THEN b
      ELSE [b EXCEPT !.bits = IF count = b.size THEN {} ELSE bits, !.init_bytes = count]

initialize(p, a, n) ==
  /\ Running
  /\ Initialize(p, a, n)
  /\ LET b == bt_find(a)
     IN  block' = IF b = NULL THEN block
                  ELSE [block EXCEPT ![b] = Set(@, {a - b + i : i \in 0 .. (n - 1)})]
  /\ UNCHANGED <<bittree, heap, missed, aborted>>

full_init(p) ==
  /\ Running
  /\ Initialize(p, p, blocks[p].len)
  /\ \E b \in bt_lookup(p) :
       /\ Notice(p, b)
       /\ block' = IF b = NULL THEN block
                   ELSE [block EXCEPT ![b].bits = {}, ![b].init_bytes = block[b].size]
  /\ UNCHANGED <<bittree, heap>>

mark_readonly(p) ==
  /\ Running
  /\ MarkReadonly(p)
  /\ \E b \in bt_lookup(p) :
       /\ Notice(p, b)
       /\ block' = IF b = NULL THEN block ELSE [block EXCEPT ![b].is_readonly = TRUE]
  /\ UNCHANGED <<bittree, heap>>

-----------------------------------------------------------------------------
(* Heap blocks.  store_freeable_block follows each of malloc, calloc,      *)
(* aligned_alloc and posix_memalign.                                       *)
FreeableBlock(n, initialized) ==
  [bt_alloc_block(n) EXCEPT !.is_freeable = TRUE, !.init_bytes = IF initialized THEN n ELSE 0]
malloc(p, n, zeroed) ==
  /\ Running
  /\ Allocate(p, n, zeroed)
  /\ eacsl_store_block(bittree, block, p, FreeableBlock(n, zeroed))
  /\ heapSize' = heapSize + n /\ heapBlocks' = heapBlocks + 1
  /\ UNCHANGED <<moved, cut, missed, aborted>>

Abort == aborted' = TRUE /\ UNCHANGED <<blocks, tree, heap, missed>>

free(p) ==
  /\ Running
  /\ p \in Blocks(Heap)
  /\ \E b \in bt_lookup(p) :
       IF b = NULL THEN Abort
       ELSE /\ Release(p)
            /\ heapSize' = heapSize - block[b].size /\ heapBlocks' = heapBlocks - 1
            /\ bittree' = pt_remove(bittree, b) /\ block' = Unbind(block, b)
            /\ moved' = moved \ {p} /\ cut' = cut \ {p}
            /\ UNCHANGED <<missed, aborted>>

(* The initialization of a block resized to n bytes.  Removing a block     *)
(* from the trie forgets it, so that a block that moves has none.          *)
Partial(b) == b.init_bytes \notin {0, b.size}
Recount(b, n) ==
  LET bits == {o \in b.bits : o < BYTE * needed_bytes(n)}
      count == Cardinality(bits)
  IN  [b EXCEPT !.bits = IF count \in {0, n} THEN {} ELSE bits, !.init_bytes = count]
Resize(b, n) ==
  IF Partial(b) THEN Recount(b, n)
  ELSE IF b.init_bytes = 0 THEN b
  ELSE IF n <= b.size THEN [b EXCEPT !.init_bytes = n]
  ELSE [b EXCEPT !.bits = 0 .. (b.size - 1)]

Renamed(s, p, q, also) == (s \ {p}) \union IF p \in s \/ also THEN {q} ELSE {}
realloc(p, q, n) ==
  /\ Running
  /\ p \in Blocks(Heap)
  /\ \E b \in bt_lookup(p) :
       IF b = NULL THEN Abort
       ELSE LET old == IF p = q THEN block[b] ELSE CleanBlock(block[b])
                new == [Resize(old, n) EXCEPT !.size = n, !.is_freeable = TRUE]
            IN  /\ Reallocate(p, q, n)
                /\ heapSize' = heapSize + n - block[b].size
                /\ bittree' = IF p = q THEN bittree ELSE bt_insert(pt_remove(bittree, b), q)
                /\ block' = Bind(Unbind(block, b), q, new)
                /\ moved' = Renamed(moved, p, q, p # q)
                /\ cut' = Renamed(cut, p, q, p = q /\ Partial(old) /\ n < old.size)
                /\ UNCHANGED <<heapBlocks, missed, aborted>>

Next ==
  \/ \E p \in Bases, n \in StaticSizes : store_block(p, n) \/ store_block_duplicate(p, n)
  \/ \E p \in Blocks(Static) : delete_block(p) \/ mark_readonly(p)
  \/ \E p \in DOMAIN blocks :
       \/ \E a \in Extent(p), n \in 1 .. blocks[p].len : initialize(p, a, n)
       \/ full_init(p)
  \/ \E p \in HeapBases, n \in HeapSizes, zeroed \in BOOLEAN : malloc(p, n, zeroed)
  \/ \E p \in Blocks(Heap) : free(p) \/ \E q \in HeapBases, n \in HeapSizes : realloc(p, q, n)

Spec == Init /\ [][Next]_vars

-----------------------------------------------------------------------------
Sizes == {n \in StaticSizes \union HeapSizes : n > 0}
Tracked == UNION {Extent(p) : p \in DOMAIN blocks}

(* However blocks came and went, the trie has exactly the blocks of the    *)
(* program, each reached by its address, and its masks and the order of    *)
(* its children are those a search relies on.  The search for a mask ends  *)
(* at the bits two words share, whatever their number, on words of 16, 32  *)
(* and 64 bits.                                                            *)
MasksExact == \A w \in {16, 32, 64} : \A shared \in 0 .. w : Masks[w][shared] = shared
TrieExact ==
  ~missed =>
    /\ MasksExact
    /\ WellFormed(bittree)
    /\ {n.leaf : n \in LeavesOf(bittree)} = DOMAIN blocks
    /\ \A n \in LeavesOf(bittree) : pt_lookup(bittree, n.leaf) = n

BlocksAnswered ==
  \A p \in DOMAIN blocks : \A a \in Extent(p) :
    block_info(a) = [base |-> p, len |-> blocks[p].len, offset |-> a - p]
RangesAnswered ==
  \A a \in Static \union Heap :
    \A access \in (Sizes \X {a}) \union ({1} \X (Bases \union HeapBases \union Tracked)) :
      LET n == access[1]
          base == access[2]
      IN  /\ eacsl_valid_read(a, n, base) <=> ValidRead(a, n, base)
          /\ eacsl_valid(a, n, base) <=> Valid(a, n, base)
InitializationAnswered ==
  \A p \in DOMAIN blocks \ cut : \A a \in Extent(p), n \in Sizes :
    a + n <= p + blocks[p].len =>
      /\ eacsl_initialized(a, n) => Initialized(a, n)
      /\ p \notin moved => (Initialized(a, n) => eacsl_initialized(a, n))

(* While no block was missed, the answers about blocks, about ranges at    *)
(* every address and about initialization are those of the program's       *)
(* memory, in spite of the count that stands for all the initialization    *)
(* bits of a block.  A block that realloc moved may have forgotten some of *)
(* these, and one that realloc cut while it was partly initialized is not  *)
(* followed.                                                               *)
QueriesExact == ~missed => BlocksAnswered /\ RangesAnswered /\ InitializationAnswered

(* Freeing or resizing a block the program allocated does not stop it.     *)
FreeReturns == ~aborted
=============================================================================
