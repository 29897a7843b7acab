---------------------------- MODULE PatriciaTrie ----------------------------
(***************************************************************************)
(* The Patricia tries of the E-ACSL runtime                                *)
(* (observation_model/internals/e_acsl_patricia_trie.c), as operators over *)
(* trees.  A node has an address and a mask, here the number of high bits  *)
(* the mask selects; the addresses below a node agree on those bits.  The  *)
(* parent pointers of the code are the path a recursion came along, and    *)
(* its mutations in place the tree an operator returns.                    *)
(***************************************************************************)
EXTENDS Integers, Sequences, FiniteSetsExt

CONSTANTS
  WORDBITS,  \* bits of an address: 16, 32 or 64
  LowBits    \* bound: the addresses of the model are below 2^LowBits

ASSUME WordAssumption == WORDBITS \in {16, 32, 64} /\ LowBits \in 1 .. 16

-----------------------------------------------------------------------------
(* The masks that select the high bits two addresses share.  The tables    *)
(* drive a dichotomic search that starts in the middle of the word: each   *)
(* step tests one mask, and an entry <= 0 is the opposite of the answer.   *)
PT_EQ(w) ==
  CASE w = 16 -> <<0, -1, 3, -3, 6, -5, 7, -7, 12, -9, 11, -11, 14, -13, 15, 16, -16>>
    [] w = 32 -> <<0, -1, 3, -3, 6, -5, 7, -7, 12, -9, 11, -11, 14, -13, 15, -15, 24, -17,
                   19, -19, 22, -21, 23, -23, 28, -25, 27, -27, 30, -29, 31, 32, -32>>
    [] w = 64 -> <<0, -1, 3, -3, 6, -5, 7, -7, 12, -9, 11, -11, 14, -13, 15, -15, 24, -17,
                   19, -19, 22, -21, 23, -23, 28, -25, 27, -27, 30, -29, 31, -31, 48, -33,
                   35, -35, 38, -37, 39, -39, 44, -41, 43, -43, 46, -45, 47, -47, 56, -49,
                   51, -51, 54, -53, 55, -55, 60, -57, 59, -59, 62, -61, 63, 64, -64>>

PT_NEQ(w) ==
  CASE w = 16 -> <<0, 0, 1, -2, 2, -4, 5, -6, 4, -8, 9, -10, 10, -12, 13, -14, -15>>
    [] w = 32 -> <<0, 0, 1, -2, 2, -4, 5, -6, 4, -8, 9, -10, 10, -12, 13, -14, 8, -16,
                   17, -18, 18, -20, 21, -22, 20, -24, 25, -26, 26, -28, 29, -30, -31>>
    [] w = 64 -> <<0, 0, 1, -2, 2, -4, 5, -6, 4, -8, 9, -10, 10, -12, 13, -14, 8, -16,
                   17, -18, 18, -20, 21, -22, 20, -24, 25, -26, 26, -28, 29, -30, 16, -32,
                   33, -34, 34, -36, 37, -38, 36, -40, 41, -42, 42, -44, 45, -46, 40, -48,
                   49, -50, 50, -52, 53, -54, 52, -56, 57, -58, 58, -60, 61, -62, -63>>

(* From the index i, for two words of w bits that share their `shared`     *)
(* high bits: nxor >= PT_MASKS[i] when they share i of them at least.      *)
RECURSIVE Search(_, _, _), SearchAbove(_, _, _)
SearchAbove(w, i, shared) ==  \* mutant
  IF i <= 0 THEN -i
  ELSE SearchAbove(w, IF shared > i THEN PT_EQ(w)[i + 1] ELSE PT_NEQ(w)[i + 1], shared)
Search(w, i, shared) ==
  IF i <= 0 THEN -i
  ELSE Search(w, IF shared >= i THEN PT_EQ(w)[i + 1] ELSE PT_NEQ(w)[i + 1], shared)

SharedBits(a, b) ==
  WORDBITS - (CHOOSE k \in 0 .. LowBits :
    a \div 2^k = b \div 2^k /\ (k = 0 \/ a \div 2^(k - 1) # b \div 2^(k - 1)))
Masks == [w \in {16, 32, 64} |-> [shared \in 0 .. w |-> Search(w, w \div 2, shared)]]
pt_mask(a, b) == Masks[WORDBITS][SharedBits(a, b)]

Masked(a, mask) == a - (a % 2^(WORDBITS - mask))
Bit(a, k) == (a \div 2^k) % 2
And(a, b) == MapThenSumSet(LAMBDA k : 2^k * Bit(a, k) * Bit(b, k), 0 .. (LowBits - 1))

-----------------------------------------------------------------------------
NullNode == [kind |-> "null"]
LeafNode(addr, leaf) ==
  [kind |-> "leaf", addr |-> addr, mask |-> WORDBITS, leaf |-> leaf]
InnerNode(addr, mask, left, right) ==
  [kind |-> "inner", addr |-> addr, mask |-> mask, left |-> left, right |-> right]
is_leaf(n) == n.kind = "leaf"

Prefix(n) == Masked(n.addr, n.mask)
HasPrefix(n, ptr) == Prefix(n) = Masked(ptr, n.mask)
Remasked(n) ==
  IF n.kind = "inner" THEN [n EXCEPT !.mask = pt_mask(Prefix(n.left), Prefix(n.right))] ELSE n

RECURSIVE NodesOf(_)
NodesOf(n) ==
  IF n.kind = "inner" THEN {n} \union NodesOf(n.left) \union NodesOf(n.right)
  ELSE IF is_leaf(n) THEN {n} ELSE {}
LeavesOf(n) == {m \in NodesOf(n) : is_leaf(m)}

(* pt_insert: the new leaf becomes the sibling of the most similar node.   *)
Join(n, x) ==
  LET addr == And(n.addr, x.addr)
      mask == pt_mask(Prefix(n), x.addr)
  IN  IF x.addr <= n.addr THEN InnerNode(addr, mask, x, Remasked(n))
      ELSE InnerNode(addr, mask, Remasked(n), x)

RECURSIVE pt_insert(_, _)
pt_insert(n, x) ==
  IF n.kind = "null" THEN x
  ELSE IF is_leaf(n) THEN Join(n, x)
  ELSE LET left == pt_mask(Prefix(n.left), x.addr)
           right == pt_mask(Prefix(n.right), x.addr)
       IN  IF left > right THEN [n EXCEPT !.left = pt_insert(@, x)]
           ELSE IF right > left THEN [n EXCEPT !.right = pt_insert(@, x)]
           ELSE Join(n, x)

(* pt_remove of a leaf that is in the trie: its sibling takes the place of *)
(* their parent, whose own parent gets a new mask.                         *)
Toward(n, ptr) == IF HasPrefix(n.right, ptr) THEN "right" ELSE "left"
Other(side) == IF side = "right" THEN "left" ELSE "right"
RECURSIVE pt_remove(_, _)
pt_remove(n, ptr) ==
  IF is_leaf(n) THEN NullNode
  ELSE LET side == Toward(n, ptr)
           child == n[side]
           rest == [n EXCEPT ![side] = pt_remove(@, ptr)]
       IN  IF is_leaf(child) THEN n[Other(side)]
           ELSE IF is_leaf(child[Toward(child, ptr)]) THEN Remasked(rest) ELSE rest

(* pt_remove_if of the leaves in S, which tests a node's left child again  *)
(* when it was a leaf that is gone, because the right one took the place   *)
(* of the node; that one is not tested when it is a leaf itself.  (The     *)
(* mask is computed again at every node above a removal, and not only at   *)
(* the next one: the two differ by nothing.)                               *)
Goes(n, S) == is_leaf(n) /\ n.leaf \in S
RECURSIVE RemoveBelow(_, _)
RemoveBelow(n, S) ==
  IF n.kind # "inner" THEN n
  ELSE IF Goes(n.left, S) THEN RemoveBelow(n.right, S)
  ELSE LET left == RemoveBelow(n.left, S)
       IN  IF Goes(n.right, S) THEN left
           ELSE Remasked([n EXCEPT !.left = left, !.right = RemoveBelow(@, S)])
pt_remove_if(root, S) == IF Goes(root, S) THEN NullNode ELSE RemoveBelow(root, S)

(* pt_lookup: the leaf that starts at ptr.                                 *)
RECURSIVE pt_lookup(_, _)
pt_lookup(n, ptr) ==
  IF n.kind = "null" THEN NullNode
  ELSE IF is_leaf(n) THEN IF n.addr = ptr THEN n ELSE NullNode
  ELSE IF ~HasPrefix(n, ptr) THEN NullNode
  ELSE IF HasPrefix(n.right, ptr) THEN pt_lookup(n.right, ptr)
  ELSE IF HasPrefix(n.left, ptr) THEN pt_lookup(n.left, ptr)
  ELSE NullNode

(* pt_find: the leaf that contains ptr.  The search keeps the last left    *)
(* child it did not take.                                                  *)
Below(n, ptr) == Prefix(n) <= Masked(ptr, n.mask)
RECURSIVE Reached(_, _, _), ReachedOnce(_, _, _)
ReachedOnce(n, ptr, other) ==  \* mutant
  IF n.kind = "null" \/ is_leaf(n) THEN n
  ELSE IF Below(n.right, ptr) THEN ReachedOnce(n.right, ptr, n.left)
  ELSE IF Below(n.left, ptr) THEN ReachedOnce(n.left, ptr, other)
  ELSE NullNode
Reached(n, ptr, other) ==
  IF n.kind = "null" \/ is_leaf(n) THEN n
  ELSE IF Below(n.right, ptr) THEN Reached(n.right, ptr, n.left)
  ELSE IF Below(n.left, ptr) THEN Reached(n.left, ptr, other)
  ELSE IF other.kind = "null" THEN NullNode ELSE Reached(other, ptr, NullNode)

pt_find(root, ptr, contains_ptr(_, _)) ==
  LET n == Reached(root, ptr, NullNode)
  IN  IF is_leaf(n) /\ n.addr <= ptr /\ contains_ptr(n.leaf, ptr) THEN n ELSE NullNode

-----------------------------------------------------------------------------
(* A node's children share exactly the high bits its mask selects, and its *)
(* own address has them; the children are ordered.                         *)
WellFormed(root) ==
  \A n \in NodesOf(root) : n.kind = "inner" =>
    \A a \in LeavesOf(n.left), b \in LeavesOf(n.right) :
      /\ SharedBits(a.addr, b.addr) = n.mask \/ a.addr = b.addr
      /\ HasPrefix(n, a.addr) /\ HasPrefix(n, b.addr)
      /\ a.addr <= b.addr
=============================================================================
