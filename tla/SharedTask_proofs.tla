--------------------------- MODULE SharedTask_proofs ---------------------------
(***************************************************************************)
(* The instances of a shared task, for any number of them, each cancelled  *)
(* any number of times.                                                    *)
(***************************************************************************)
EXTENDS SharedTask, FiniteSetTheorems, TLAPS

Innocents == {i \in Instances : Innocent(i)}
Started == {i \in Instances : inst[i] # "todo"}

(* An instance is a client from its first Coin on, so there are no more    *)
(* clients than instances that started.                                    *)
ClientsBounded == clients \in Nat /\ clients <= Cardinality(Started)
TypeInv ==
  /\ retry \in Retries
  /\ shared \in SharedStates
  /\ inst \in [Instances -> InstStates]
  /\ kills \in [Instances -> 0 .. MaxKills]
  /\ ClientsBounded

LEMMA Finite ==
  ASSUME NEW S, S \subseteq Instances
  PROVE  IsFiniteSet(S) /\ Cardinality(S) \in Nat /\ Cardinality(S) <= Cardinality(Instances)
BY InstancesAssumption, FS_Subset, FS_CardinalityType

LEMMA Larger ==
  ASSUME NEW S, NEW T, S \subseteq T, T \subseteq Instances
  PROVE  Cardinality(S) <= Cardinality(T)
BY Finite, FS_Subset

LEMMA OneMore ==
  ASSUME NEW S, S \subseteq Instances, NEW i \in Instances, i \notin S
  PROVE  Cardinality(S \union {i}) = Cardinality(S) + 1
BY Finite, FS_AddElement

LEMMA OneLess ==
  ASSUME NEW S, S \subseteq Instances, NEW i \in S
  PROVE  Cardinality(S \ {i}) = Cardinality(S) - 1
BY Finite, FS_RemoveElement

LEMMA TypeStep ==
  ASSUME TypeInv, NEW i \in Instances, Progress(i) \/ Kill(i)
  PROVE  TypeInv'
<1>1. /\ retry \in Retries /\ shared \in SharedStates /\ inst \in [Instances -> InstStates]
      /\ kills \in [Instances -> 0 .. MaxKills] /\ clients \in Nat /\ MaxKills \in Nat
      /\ clients <= Cardinality(Started) /\ Started \subseteq Instances
  BY KillsAssumption DEF TypeInv, ClientsBounded, Started
<1>2. CASE Register(i)
  <2>1. Started' = Started \union {i} /\ i \notin Started
    BY <1>1, <1>2 DEF Register, Started
  <2>2. Cardinality(Started') = Cardinality(Started) + 1
    BY <1>1, <2>1, OneMore
  <2> QED
    BY <1>1, <1>2, <2>2, Finite DEF Register, Count, TypeInv, ClientsBounded, InstStates
<1>3. CASE Take(i)
  <2>1. Started' = Started
    BY <1>1, <1>3 DEF Take, Started, Finished, Status
  <2> QED
    BY <1>1, <1>3, <2>1 DEF Take, TypeInv, ClientsBounded, InstStates, SharedStates, Finished
<1>4. CASE Advance(i)
  <2>1. Started' = Started
    BY <1>4 DEF Advance, Started
  <2> QED
    BY <1>1, <1>4, <2>1 DEF Advance, TypeInv, ClientsBounded, SharedStates
<1>5. CASE KillTodo(i)
  <2>1. Started \subseteq Started' /\ Started' \subseteq Instances
    BY <1>1, <1>5 DEF KillTodo, Started
  <2>2. Cardinality(Started) <= Cardinality(Started')
    BY <2>1, Larger
  <2>3. clients <= Cardinality(Started')
    BY <1>1, <2>1, <2>2, Finite
  <2>4. inst' \in [Instances -> InstStates]
    BY <1>1, <1>5 DEF KillTodo, InstStates, Status
  <2>5. kills' \in [Instances -> 0 .. MaxKills]
    BY <1>1, <1>5 DEF KillTodo
  <2> QED
    BY <1>1, <1>5, <2>3, <2>4, <2>5 DEF KillTodo, TypeInv, ClientsBounded
<1>6. CASE KillOne(i)
  <2>1. Started' = Started
    BY <1>1, <1>6 DEF KillOne, Started
  <2>2. clients' \in Nat /\ clients' <= Cardinality(Started)
    BY <1>1, <1>6, Finite DEF KillOne, Others
  <2>3. inst' \in [Instances -> InstStates]
    BY <1>1, <1>6 DEF KillOne, InstStates, Status
  <2>4. kills' \in [Instances -> 0 .. MaxKills]
    BY <1>1, <1>6 DEF KillOne
  <2> QED
    BY <1>1, <1>6, <2>1, <2>2, <2>3, <2>4 DEF KillOne, TypeInv, ClientsBounded
<1>7. CASE KillLast(i)
  <2>1. Started' = Started
    BY <1>7 DEF KillLast, Started
  <2>2. clients' \in Nat /\ clients' <= Cardinality(Started)
    BY <1>1, <1>7, Finite DEF KillLast
  <2>3. kills' \in [Instances -> 0 .. MaxKills]
    BY <1>1, <1>7 DEF KillLast
  <2>4. shared' \in SharedStates
    BY <1>1, <1>7 DEF KillLast, KilledShared, SharedStates, Status
  <2> QED
    BY <1>1, <1>7, <2>1, <2>2, <2>3, <2>4 DEF KillLast, TypeInv, ClientsBounded
<1> QED
  BY <1>2, <1>3, <1>4, <1>5, <1>6, <1>7 DEF Progress, Kill

LEMMA TypeAlways == Spec => []TypeInv
<1>1. Init => TypeInv
  <2> SUFFICES ASSUME Init PROVE TypeInv
    OBVIOUS
  <2>1. Started = {}
    BY DEF Init, Started
  <2>2. Cardinality(Started) = 0
    BY <2>1, FS_EmptySet
  <2> QED
    BY <2>2, KillsAssumption DEF Init, TypeInv, ClientsBounded, SharedStates, InstStates
<1>2. TypeInv /\ [Next]_vars => TypeInv'
  <2>1. TypeInv /\ UNCHANGED vars => TypeInv'
    BY DEF TypeInv, ClientsBounded, Started, vars
  <2> QED
    BY <2>1, TypeStep DEF Next
<1> QED
  BY <1>1, <1>2, PTL DEF Spec

(* Every reachable state is well typed: in particular there are never more *)
(* clients than instances.                                                 *)
THEOREM TypeCorrect == Spec => []TypeOK
<1>1. TypeInv => TypeOK
  <2> SUFFICES ASSUME TypeInv PROVE TypeOK
    OBVIOUS
  <2>1. Cardinality(Started) <= Cardinality(Instances) /\ Cardinality(Started) \in Nat
        /\ Cardinality(Instances) \in Nat
    BY Finite DEF Started
  <2> QED
    BY <2>1 DEF TypeInv, ClientsBounded, TypeOK
<1> QED
  BY <1>1, TypeAlways, PTL

-----------------------------------------------------------------------------
LEMMA InnocentsFinite == Innocents \subseteq Instances
BY DEF Innocents

(* A Kill of i is a repeated one exactly if i was killed before.           *)
LEMMA RepeatedFinite ==
  ASSUME TypeInv
  PROVE  IsFiniteSet(RepeatedKills) /\ Cardinality(RepeatedKills) \in Nat
<1>1. IsFiniteSet(2 .. MaxKills)
  BY KillsAssumption, FS_Interval
<1>2. IsFiniteSet(Instances \X (2 .. MaxKills))
  BY <1>1, InstancesAssumption, FS_Product
<1>3. IsFiniteSet(RepeatedKills)
  BY <1>2, FS_Subset DEF RepeatedKills
<1> QED
  BY <1>3, FS_CardinalityType

LEMMA RepeatedStep ==
  ASSUME TypeInv, NEW i \in Instances, Kill(i)
  PROVE  Cardinality(RepeatedKills') = Cardinality(RepeatedKills) + (IF kills[i] = 0 THEN 0 ELSE 1)
<1>1. kills \in [Instances -> 0 .. MaxKills] /\ MaxKills \in Nat
  BY KillsAssumption DEF TypeInv
<1>2. kills[i] < MaxKills /\ kills' = [kills EXCEPT ![i] = @ + 1]
  BY DEF Kill, KillTodo, KillOne, KillLast
<1>3. CASE kills[i] = 0
  <2>1. RepeatedKills' = RepeatedKills
    BY <1>1, <1>2, <1>3 DEF RepeatedKills
  <2> QED
    BY <1>3, <2>1, RepeatedFinite
<1>4. CASE kills[i] # 0
  <2>1. <<i, kills[i] + 1>> \notin RepeatedKills
    BY <1>1 DEF RepeatedKills
  <2>2. RepeatedKills' = RepeatedKills \union {<<i, kills[i] + 1>>}
    BY <1>1, <1>2, <1>4 DEF RepeatedKills
  <2>3. Cardinality(RepeatedKills \union {<<i, kills[i] + 1>>}) = Cardinality(RepeatedKills) + 1
    BY <2>1, RepeatedFinite, FS_AddElement
  <2> QED
    BY <1>4, <2>2, <2>3
<1> QED
  BY <1>3, <1>4

(* An innocent that is killed is innocent no more; another one has cost a  *)
(* client already.                                                         *)
LEMMA InnocentsStep ==
  ASSUME TypeInv, NEW i \in Instances, KillOne(i) \/ KillLast(i)
  PROVE  Cardinality(Innocents') = Cardinality(Innocents) - (IF kills[i] = 0 THEN 1 ELSE 0)
<1>1. kills \in [Instances -> 0 .. MaxKills] /\ inst \in [Instances -> InstStates]
  BY DEF TypeInv
<1>2. inst[i] = "ping" /\ kills' = [kills EXCEPT ![i] = @ + 1]
      /\ (inst' = inst \/ inst' = [inst EXCEPT ![i] = "Canceled"])
  BY DEF KillOne, KillLast
<1>3. CASE kills[i] = 0
  <2>1. i \in Innocents /\ Innocents' = Innocents \ {i}
    BY <1>1, <1>2, <1>3 DEF Innocents, Innocent, Pending
  <2> QED
    BY <1>3, <2>1, InnocentsFinite, OneLess
<1>4. CASE kills[i] # 0
  <2>1. Innocents' = Innocents
    BY <1>1, <1>2, <1>4 DEF Innocents, Innocent, Pending
  <2> QED
    BY <1>4, <2>1, InnocentsFinite, Finite
<1> QED
  BY <1>3, <1>4

LEMMA CountStep ==
  ASSUME TypeInv, TypeInv', ClientsCounted, NEW i \in Instances, Progress(i) \/ Kill(i)
  PROVE  ClientsCounted'
<1>1. /\ clients \in Nat /\ clients' \in Nat /\ inst \in [Instances -> InstStates]
      /\ kills \in [Instances -> 0 .. MaxKills]
      /\ clients + Cardinality(RepeatedKills) >= Cardinality(Innocents)
      /\ Cardinality(Innocents) \in Nat
  BY InnocentsFinite, Finite DEF TypeInv, ClientsBounded, ClientsCounted, Innocents
<1>2. Cardinality(RepeatedKills) \in Nat
  BY RepeatedFinite
<1>3. Innocents' \subseteq Instances
  BY DEF Innocents
<1>4. SUFFICES clients' + Cardinality(RepeatedKills') >= Cardinality(Innocents')
  BY DEF ClientsCounted, Innocents
<1>5. CASE Register(i)
  <2>1. Innocents' \subseteq Innocents \union {i} /\ i \notin Innocents /\ RepeatedKills' = RepeatedKills
    BY <1>1, <1>5 DEF Register, Innocents, Innocent, Pending, RepeatedKills
  <2>2. Cardinality(Innocents') <= Cardinality(Innocents \union {i})
    BY <2>1, InnocentsFinite, Larger
  <2>3. Cardinality(Innocents \union {i}) = Cardinality(Innocents) + 1
    BY <2>1, InnocentsFinite, OneMore
  <2>4. clients' = clients + 1
    BY <1>5 DEF Register, Count
  <2>5. Cardinality(Innocents') \in Nat
    BY <1>3, Finite
  <2> QED
    BY <1>1, <1>2, <2>1, <2>2, <2>3, <2>4, <2>5
<1>6. CASE Take(i) \/ Advance(i)
  <2>1. Innocents' \subseteq Innocents /\ clients' = clients /\ RepeatedKills' = RepeatedKills
    BY <1>1, <1>6 DEF Take, Advance, Innocents, Innocent, Pending, Finished, Status, RepeatedKills
  <2>2. Cardinality(Innocents') <= Cardinality(Innocents)
    BY <2>1, InnocentsFinite, Larger
  <2>3. Cardinality(Innocents') \in Nat
    BY <1>3, Finite
  <2> QED
    BY <1>1, <1>2, <2>1, <2>2, <2>3
<1>7. CASE KillTodo(i)
  <2>1. Innocents' \subseteq Innocents /\ clients' = clients
    BY <1>1, <1>7 DEF KillTodo, Innocents, Innocent, Pending
  <2>2. Cardinality(Innocents') <= Cardinality(Innocents)
    BY <2>1, InnocentsFinite, Larger
  <2>3. Cardinality(RepeatedKills') = Cardinality(RepeatedKills) + (IF kills[i] = 0 THEN 0 ELSE 1)
    BY <1>7, RepeatedStep DEF Kill
  <2>4. Cardinality(Innocents') \in Nat
    BY <1>3, Finite
  <2> QED
    BY <1>1, <1>2, <2>1, <2>2, <2>3, <2>4
<1>8. CASE KillOne(i) \/ KillLast(i)
  <2>1. Cardinality(RepeatedKills') = Cardinality(RepeatedKills) + (IF kills[i] = 0 THEN 0 ELSE 1)
    BY <1>8, RepeatedStep DEF Kill
  <2>2. Cardinality(Innocents') = Cardinality(Innocents) - (IF kills[i] = 0 THEN 1 ELSE 0)
    BY <1>8, InnocentsStep
  <2>3. clients' >= clients - 1
    BY <1>1, <1>8 DEF KillOne, KillLast, Others
  <2> QED
    BY <1>1, <1>2, <2>1, <2>2, <2>3
<1> QED
  BY <1>5, <1>6, <1>7, <1>8 DEF Progress, Kill

LEMMA CountAlways == Spec => [](TypeInv /\ ClientsCounted)
<1>1. Init /\ TypeInv => ClientsCounted
  <2> SUFFICES ASSUME Init, TypeInv PROVE ClientsCounted
    OBVIOUS
  <2>1. Innocents = {}
    BY DEF Init, Innocents, Innocent, Pending
  <2> QED
    BY <2>1, FS_EmptySet, RepeatedFinite DEF Init, ClientsCounted, Innocents
<1>2. TypeInv /\ TypeInv' /\ ClientsCounted /\ [Next]_vars => ClientsCounted'
  <2>1. ClientsCounted /\ UNCHANGED vars => ClientsCounted'
    BY DEF ClientsCounted, Innocent, Pending, RepeatedKills, vars
  <2> QED
    BY <2>1, CountStep DEF Next
<1> QED
  BY <1>1, <1>2, TypeAlways, PTL DEF Spec

(* The count of clients covers the instances that wait and were not        *)
(* cancelled, up to one client per repeated Kill, for any number of        *)
(* instances killed any number of times.                                   *)
THEOREM ClientsCountedHolds == Spec => []ClientsCounted
BY CountAlways, PTL

(* Kill reaches a task in execution only when nobody else waits for it, up *)
(* to one instance per repeated Kill, that very Kill included.             *)
THEOREM CancelIsolatedHolds == Spec => CancelIsolated
<1> DEFINE A == \A i \in Instances :
       (kills'[i] # kills[i] /\ Pending(i) /\ clients # 0 /\ clients' = 0 /\ shared = "run") =>
         Cardinality({j \in Instances \ {i} : Innocent(j)}) <= Cardinality(RepeatedKills')
<1>1. TypeInv /\ ClientsCounted /\ [Next]_vars => [A]_vars
  <2> SUFFICES ASSUME TypeInv, ClientsCounted, Next,
                      NEW i \in Instances, kills'[i] # kills[i], Pending(i),
                      clients # 0, clients' = 0
               PROVE  Cardinality({j \in Instances \ {i} : Innocent(j)}) <= Cardinality(RepeatedKills')
    OBVIOUS
  <2>1. PICK k \in Instances : Progress(k) \/ Kill(k)
    BY DEF Next
  <2>2. /\ kills \in [Instances -> 0 .. MaxKills] /\ clients \in Nat
        /\ clients + Cardinality(RepeatedKills) >= Cardinality(Innocents)
    BY DEF TypeInv, ClientsBounded, ClientsCounted, Innocents
  <2>3. k = i /\ KillLast(i)
    BY <2>1, <2>2 DEF Progress, Kill, Register, Take, Advance, KillTodo, KillOne, KillLast, Pending, Others
  <2>4. clients = 1
    BY <2>2, <2>3 DEF KillLast, Others
  <2>5. Cardinality(RepeatedKills') = Cardinality(RepeatedKills) + (IF kills[i] = 0 THEN 0 ELSE 1)
    BY <2>3, RepeatedStep DEF Kill
  <2>6. Cardinality(RepeatedKills) \in Nat /\ Cardinality(Innocents) \in Nat
    BY RepeatedFinite, InnocentsFinite, Finite
  <2>7. CASE kills[i] = 0
    <3>1. i \in Innocents /\ {j \in Instances \ {i} : Innocent(j)} = Innocents \ {i}
      BY <2>3, <2>7 DEF Innocents, Innocent, KillLast, Pending
    <3>2. Cardinality(Innocents \ {i}) = Cardinality(Innocents) - 1
      BY <3>1, InnocentsFinite, OneLess
    <3>3. Cardinality(Innocents \ {i}) <= Cardinality(RepeatedKills')
      BY <2>2, <2>4, <2>5, <2>6, <2>7, <3>2
    <3> QED
      BY <3>1, <3>3
  <2>8. CASE kills[i] # 0
    <3>1. {j \in Instances \ {i} : Innocent(j)} = Innocents
      BY <2>8 DEF Innocents, Innocent
    <3> QED
      BY <2>2, <2>4, <2>5, <2>6, <2>8, <3>1
  <2> QED
    BY <2>7, <2>8
<1>2. [][A]_vars <=> CancelIsolated
  BY DEF CancelIsolated
<1> QED
  BY <1>1, <1>2, CountAlways, PTL DEF Spec

(* A result is never computed again, and without retry nor is a failure.   *)
THEOREM OutcomeIsFinalHolds == Spec => OutcomeIsFinal
<1> DEFINE A == (shared = "Result" \/ (shared = "Failed" /\ ~retry)) => shared' = shared
<1>1. [Next]_vars => [A]_vars
  <2> SUFFICES ASSUME NEW i \in Instances, Progress(i) \/ Kill(i),
                      shared = "Result" \/ (shared = "Failed" /\ ~retry)
               PROVE  shared' = shared
    BY DEF Next
  <2> QED
    BY DEF Progress, Kill, Register, Take, Advance, KillTodo, KillOne, KillLast, KilledShared,
           MustRetry, Finished, Status
<1>2. [][A]_vars <=> OutcomeIsFinal
  BY DEF OutcomeIsFinal
<1> QED
  BY <1>1, <1>2, PTL DEF Spec
================================================================================
