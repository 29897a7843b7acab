---------------------------- MODULE ShadowThreads ----------------------------
(***************************************************************************)
(* The memory of threads in the segment model of E-ACSL                    *)
(* (segment_model/e_acsl_shadow_concurrency.c).  pthread_create is wrapped *)
(* so that a thread inserts partitions for its stack and its thread-local  *)
(* storage into a trie before the program's routine runs, and removes them *)
(* when it ends.  A query about an address first finds out whether it is a *)
(* thread's, then finds the partition again and goes through it to the     *)
(* shadow.  The lock of the trie makes each operation on it one step; the  *)
(* global lock of the memory model, which queries hold, is not taken by a  *)
(* thread that begins or ends, and so is left out.                         *)
(***************************************************************************)
EXTENDS PatriciaTrie

CONSTANTS
  Threads,      \* identities the system gives to threads, and gives again
  Main,         \* the initial thread
  Base(_),      \* where the stack of a thread starts
  DEFAULT_STACK,  \* E_ACSL_THREAD_STACK_SIZE
  UserStack,    \* the stack size in the attributes of the program
  MaxCreations  \* bound: calls of pthread_create

ASSUME StackAssumption == DEFAULT_STACK \in Nat \ {0, 1} /\ UserStack \in Nat \ {0}

VARIABLES
  partitions,  \* the trie: leaves [id, of, gen, start, len]
  thread,      \* thread -> its state, generation, stack size, wrapper's stack_size
  attr,        \* stack size in the attributes the program passes
  creation,    \* caller -> where it is in a call with those attributes
  query,       \* caller -> where it is in a query
  creations,   \* calls so far
  overlapped,  \* history: two calls have used the attributes at a time
  failed       \* history: a query about a thread that kept running failed

vars == <<partitions, thread, attr, creation, query, creations, overlapped, failed>>

Callers == Threads \union {Main}
NoThread == [st |-> "none", gen |-> 0, size |-> 0, wrapped |-> 0]
NoCreation == [step |-> "none", original |-> 0, wrapped |-> 0]
NoQuery == [step |-> "none"]

Running(c) == c = Main \/ (c \in Threads /\ thread[c].st = "running")
Free(c) == Running(c) /\ creation[c].step = "none" /\ query[c].step = "none"

Init ==
  /\ partitions = NullNode
  /\ thread = [t \in Threads |-> NoThread]
  /\ attr = UserStack
  /\ creation = [c \in Callers |-> NoCreation]
  /\ query = [c \in Callers |-> NoQuery]
  /\ creations = 0 /\ overlapped = FALSE /\ failed = FALSE

-----------------------------------------------------------------------------
(* Partitions.                                                             *)
TlsStart(t) == Base(t) + thread[t].size - 1
StackPartition(t) ==
  [id |-> t, of |-> "stack", gen |-> thread[t].gen, start |-> Base(t), len |-> thread[t].wrapped]
TlsPartition(t) ==
  [id |-> t, of |-> "tls", gen |-> thread[t].gen, start |-> TlsStart(t), len |-> 1]

tp_contains_ptr(p, a) == p.start <= a /\ a < p.start + p.len
find_thread_partition(a) == pt_find(partitions, a, tp_contains_ptr)
Partitions == {n.leaf : n \in LeavesOf(partitions)}
tp_is_same_thread(p, t) == p.id = t
OwnedByOthersToo(t) == {p \in Partitions : p.gen <= thread[t].gen}  \* mutant
ForgetsTls(t) == {p \in Partitions : tp_is_same_thread(p, t) /\ p.of = "stack"}  \* mutant
Owned(t) == {p \in Partitions : tp_is_same_thread(p, t)}

(* pthread_create: the wrapper carries the size of the stack.              *)
StackSize(original) == IF original >= DEFAULT_STACK THEN original * 2 ELSE DEFAULT_STACK
Begin(t, size, wrapped) ==
  /\ thread[t].st = "none"
  /\ thread' = [thread EXCEPT ![t] =
       [st |-> "starting", gen |-> @.gen + 1, size |-> size, wrapped |-> wrapped]]
CountCreation == creations < MaxCreations /\ creations' = creations + 1

(* Without attributes of the program, the call uses its own.               *)
CreateDefault(c) ==
  /\ Free(c)
  /\ CountCreation
  /\ \E t \in Threads : Begin(t, DEFAULT_STACK, DEFAULT_STACK)
  /\ UNCHANGED <<partitions, attr, creation, query, overlapped, failed>>

(* With them: the size is read, replaced, used and put back.               *)
GetStackSize(c) ==
  /\ Free(c)
  /\ CountCreation
  /\ creation' = [creation EXCEPT ![c] =
       [step |-> "got", original |-> attr, wrapped |-> StackSize(attr)]]
  /\ overlapped' = (overlapped \/ \E d \in Callers : creation[d].step # "none")
  /\ UNCHANGED <<partitions, thread, attr, query, failed>>

SetStackSize(c) ==
  /\ creation[c].step = "got"
  /\ attr' = creation[c].wrapped
  /\ creation' = [creation EXCEPT ![c].step = "set"]
  /\ UNCHANGED <<partitions, thread, query, creations, overlapped, failed>>

Create(c) ==
  /\ creation[c].step = "set"
  /\ \/ \E t \in Threads : Begin(t, attr, creation[c].wrapped)
     \/ UNCHANGED thread  \* the system has no thread to give
  /\ creation' = [creation EXCEPT ![c].step = "called"]
  /\ UNCHANGED <<partitions, attr, query, creations, overlapped, failed>>

RestoreNothing(c) == attr' = attr  \* mutant
Restore(c) == attr' = creation[c].original
RestoreStackSize(c) ==
  /\ creation[c].step = "called"
  /\ Restore(c)
  /\ creation' = [creation EXCEPT ![c] = NoCreation]
  /\ UNCHANGED <<partitions, thread, query, creations, overlapped, failed>>

-----------------------------------------------------------------------------
(* The life of a thread.                                                   *)
Insert(p) == partitions' = pt_insert(partitions, LeafNode(p.start, p))

InsertStack(t) ==
  /\ thread[t].st = "starting"
  /\ Insert(StackPartition(t))
  /\ thread' = [thread EXCEPT ![t].st = "half"]
  /\ UNCHANGED <<attr, creation, query, creations, overlapped, failed>>

InsertTls(t) ==
  /\ thread[t].st = "half"
  /\ Insert(TlsPartition(t))
  /\ thread' = [thread EXCEPT ![t].st = "running"]
  /\ UNCHANGED <<attr, creation, query, creations, overlapped, failed>>

(* The routine of the program has returned.                                *)
clean_thread_shadow_layout(t) ==
  /\ t \in Threads /\ Free(t)
  /\ partitions' = pt_remove_if(partitions, Owned(t))
  /\ thread' = [thread EXCEPT ![t].st = "ended"]
  /\ UNCHANGED <<attr, creation, query, creations, overlapped, failed>>

(* The system takes the identity, the stack and the storage back.          *)
Reap(t) ==
  /\ thread[t].st = "ended"
  /\ thread' = [thread EXCEPT ![t].st = "none"]
  /\ UNCHANGED <<partitions, attr, creation, query, creations, overlapped, failed>>

-----------------------------------------------------------------------------
(* Queries about an address of a running thread.                           *)
Addresses(t) == Base(t) .. TlsStart(t)
StillThere(q) == thread[q.of].st = "running" /\ thread[q.of].gen = q.gen

IsOnThread(c) ==
  /\ Free(c)
  /\ \E t \in Threads : \E a \in {Base(t), TlsStart(t)} :
       /\ Running(t)
       /\ query' = [query EXCEPT ![c] =
            IF is_leaf(find_thread_partition(a))
            THEN [step |-> "on", of |-> t, gen |-> thread[t].gen, at |-> a] ELSE NoQuery]
  /\ UNCHANGED <<partitions, thread, attr, creation, creations, overlapped, failed>>

FindAgain(c) ==
  /\ query[c].step = "on"
  /\ LET n == find_thread_partition(query[c].at)
     IN  IF is_leaf(n)
         THEN /\ query' = [query EXCEPT ![c] =
                   [step |-> "found", of |-> @.of, gen |-> @.gen, leaf |-> n.leaf]]
              /\ UNCHANGED failed
         ELSE query' = [query EXCEPT ![c] = NoQuery] /\ failed' = (failed \/ StillThere(query[c]))
  /\ UNCHANGED <<partitions, thread, attr, creation, creations, overlapped>>

AccessShadow(c) ==
  /\ query[c].step = "found"
  /\ query' = [query EXCEPT ![c] = NoQuery]
  /\ failed' = (failed \/ (query[c].leaf \notin Partitions /\ StillThere(query[c])))
  /\ UNCHANGED <<partitions, thread, attr, creation, creations, overlapped>>

Next ==
  \/ \E c \in Callers :
       \/ CreateDefault(c) \/ GetStackSize(c) \/ SetStackSize(c)
       \/ Create(c) \/ RestoreStackSize(c)
       \/ IsOnThread(c) \/ FindAgain(c) \/ AccessShadow(c)
  \/ \E t \in Threads :
       InsertStack(t) \/ InsertTls(t) \/ clean_thread_shadow_layout(t) \/ Reap(t)

Spec == Init /\ [][Next]_vars

-----------------------------------------------------------------------------
Over(t) == thread[t].st \in {"none", "ended"}

(* While no two calls of pthread_create used the same attributes at a      *)
(* time, each address of a running thread's stack and storage is found in  *)
(* a partition of that thread, however others begin and end.               *)
AddressesMonitored ==
  ~overlapped =>
    \A t \in Threads : thread[t].st = "running" =>
      \A a \in Addresses(t) :
        LET n == find_thread_partition(a)
        IN  /\ is_leaf(n) /\ n.leaf.id = t
            /\ n.leaf.of = IF a = TlsStart(t) THEN "tls" ELSE "stack"

(* While no two calls used them at a time, the attributes of the program   *)
(* are as it set them once its calls return, and the stack a wrapper was   *)
(* told of is the stack its thread has.                                    *)
AttributesKept ==
  ~overlapped =>
    /\ (\A c \in Callers : creation[c].step = "none") => attr = UserStack
    /\ \A t \in Threads : thread[t].size = thread[t].wrapped

(* And no query about a thread that keeps running fails because other      *)
(* threads begin and end between its steps.                                *)
QueriesAnswered == AddressesMonitored /\ (~overlapped => ~failed)

(* What ended threads leave in the trie does not add up: one partition at  *)
(* most for an identity, however often it is given again.                  *)
LeftoversBounded ==
  ~overlapped =>
    \A t \in Threads :
      LET left == {p \in Partitions : p.id = t /\ (p.gen # thread[t].gen \/ Over(t))}
      IN  Cardinality(left) <= 1

(* pt_remove_if removes all leaves that satisfy the predicate: a thread    *)
(* that ended has no partition.                                            *)
EndedHasNone ==
  \A t \in Threads : Over(t) => \A p \in Partitions : p.id # t
=============================================================================
