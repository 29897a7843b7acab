---------------------------- MODULE ProgramMemory ----------------------------
(***************************************************************************)
(* The memory of an instrumented C program, as the contracts of            *)
(* e_acsl_observation_model.h speak of it: the blocks that exist, their    *)
(* length, the bytes that were initialized and whether they may be         *)
(* written.  The observation models of E-ACSL follow this memory through   *)
(* the calls the instrumentation inserts and answer queries about it from  *)
(* shadows of their own; the modules that model them take each operation   *)
(* of this module together with what the runtime does to its shadows.      *)
(* The places and the order of the operations are those of the program     *)
(* and of its allocator: any that C allows.                                *)
(***************************************************************************)
EXTENDS Integers, FiniteSets

CONSTANTS
  Stack,      \* addresses of the stack (and of thread-local storage)
  Globals,    \* addresses of globals and string literals
  Heap,       \* addresses of the heap
  MaxBlocks,  \* bound: blocks that exist at a time
  MaxBytes    \* bound: bytes of all blocks that exist at a time

ASSUME AddressesAssumption ==
  Stack \union Globals \union Heap \subseteq Nat \ {0} /\ IsFiniteSet(Heap)
ASSUME DisjointAssumption ==
  /\ Stack \intersect Globals = {}
  /\ Heap \intersect (Stack \union Globals) = {}

VARIABLE blocks  \* base address -> length, initialized addresses, read-only

Static == Stack \union Globals
Bytes(p, n) == p .. (p + n - 1)
Room(p, n) == Bytes(p, IF n = 0 THEN 1 ELSE n)
Fresh(n, init) == [len |-> n, init |-> init, ro |-> FALSE]
Bind(f, p, r) == [q \in DOMAIN f \union {p} |-> IF q = p THEN r ELSE f[q]]
Unbind(f, p) == [q \in DOMAIN f \ {p} |-> f[q]]
Blocks(region) == DOMAIN blocks \intersect region
Extent(p) == Bytes(p, blocks[p].len)

(* Nothing else lives where a block of n bytes is placed at p.             *)
FreePlace(p, n, others) ==
  \A q \in others : Room(p, n) \intersect Room(q, blocks[q].len) = {}

TotalLength(others) == Cardinality(UNION {Extent(q) : q \in others})
WithinBounds(n, others) ==
  Cardinality(others) < MaxBlocks /\ TotalLength(others) + n <= MaxBytes

NoBlocks == blocks = [p \in {} |-> Fresh(0, {})]

Store(p, n) ==
  /\ WithinBounds(n, DOMAIN blocks)
  /\ Room(p, n) \subseteq Stack \/ Room(p, n) \subseteq Globals
  /\ FreePlace(p, n, DOMAIN blocks)
  /\ blocks' = Bind(blocks, p, Fresh(n, {}))

StoreDuplicate(p, n) ==
  /\ p \in Blocks(Static)
  /\ Room(p, n) \subseteq Stack \/ Room(p, n) \subseteq Globals
  /\ WithinBounds(n, DOMAIN blocks \ {p})
  /\ FreePlace(p, n, DOMAIN blocks \ {p})
  /\ blocks' = Bind(blocks, p, Fresh(n, {}))

Delete(p) ==
  /\ p \in Blocks(Static)
  /\ blocks' = Unbind(blocks, p)

Initialize(p, a, n) ==
  /\ p \in DOMAIN blocks
  /\ Bytes(a, n) \subseteq Extent(p)
  /\ blocks' = [blocks EXCEPT ![p].init = @ \union Bytes(a, n)]

MarkReadonly(p) ==
  /\ p \in Blocks(Globals)
  /\ blocks' = [blocks EXCEPT ![p].ro = TRUE]

Allocate(p, n, zeroed) ==
  /\ WithinBounds(n, DOMAIN blocks)
  /\ n > 0 /\ Bytes(p, n) \subseteq Heap
  /\ FreePlace(p, n, DOMAIN blocks)
  /\ blocks' = Bind(blocks, p, Fresh(n, IF zeroed THEN Bytes(p, n) ELSE {}))

Release(p) ==
  /\ p \in Blocks(Heap)
  /\ blocks' = Unbind(blocks, p)

(* A block keeps the contents that fit its new length, wherever it goes.   *)
Kept(p, q, n) ==
  {a \in Bytes(q, n) : a - q < blocks[p].len /\ p + (a - q) \in blocks[p].init}
Reallocate(p, q, n) ==
  /\ p \in Blocks(Heap)
  /\ n > 0 /\ Bytes(q, n) \subseteq Heap
  /\ WithinBounds(n, DOMAIN blocks \ {p})
  /\ FreePlace(q, n, DOMAIN blocks \ {p})
  /\ q # p => FreePlace(q, n, {p})
  /\ blocks' = Bind(Unbind(blocks, p), q, Fresh(n, Kept(p, q, n)))

-----------------------------------------------------------------------------
(* What the predicates of ACSL mean in this memory.  base is the pointer   *)
(* the address is computed from, which must point into the same block.     *)
AllocatedIn(p, a, n) == p <= a /\ a + n <= p + blocks[p].len
ValidRead(a, n, base) ==
  \E p \in DOMAIN blocks : AllocatedIn(p, a, n) /\ AllocatedIn(p, base, 1)
Valid(a, n, base) ==
  \E p \in DOMAIN blocks :
    AllocatedIn(p, a, n) /\ AllocatedIn(p, base, 1) /\ ~blocks[p].ro
Initialized(a, n) ==
  \E p \in DOMAIN blocks : Bytes(a, n) \subseteq blocks[p].init
=============================================================================
