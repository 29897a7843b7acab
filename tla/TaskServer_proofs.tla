-------------------------- MODULE TaskServer_proofs --------------------------
(* Theorems about TaskServer and its history, for every value of the       *)
(* constants and any client.                                               *)
EXTENDS TaskServerHistory, FiniteSetTheorems, TLAPS

(* The part of TypeOK about the stack of activations; it is inductive once *)
(* a body is known to be the body of some thread.                          *)
FramesOK ==
  /\ \A d \in Depths : pc[d] = "body" => cur[d] \in Threads
  /\ depth \in 0 .. MaxDepth
  /\ pc \in [Depths -> Labels]
  /\ todo \in [Depths -> Seq(Threads)]
  /\ kept \in [Depths -> Seq(Threads)]
  /\ cur \in [Depths -> Threads \union {NoThread}]
  /\ stage \in [Depths -> -1 .. NStages]
  /\ via \in [Depths -> 0 .. MaxDaemons]

(* The other part: the server, its threads and the registered daemons.     *)
ServerOK ==
  /\ queue \in [Stages -> Seq(Threads)]
  /\ running \in Seq(Threads)
  /\ launched \in BOOLEAN
  /\ scheduled \in Nat
  /\ terminated \in Nat
  /\ procs \in Procs
  /\ waiting \in BOOLEAN
  /\ busy \in [Threads -> BOOLEAN]
  /\ lock \in [Threads -> BOOLEAN]
  /\ spawned \in SUBSET Threads
  /\ daemons \in SUBSET DaemonIds

TypeInv == FramesOK /\ ServerOK

LEMMA TypeParts == TypeInv => TypeOK
  BY DEF TypeOK, TypeInv, FramesOK, ServerOK

LEMMA PushFrames ==
  ASSUME FramesOK, NEW l \in Labels \ {"body"}, NEW list \in Seq(Threads), NEW d \in 0 .. MaxDaemons,
         Push(l, list, d)
  PROVE  FramesOK'
<1>0. \A e \in Depths : pc'[e] = "body" => cur'[e] \in Threads
  BY DEF FramesOK, Push
<1>1. depth' \in 0 .. MaxDepth /\ depth + 1 \in Depths
  BY BoundsAssumption DEF FramesOK, Push, Depths
<1>2. pc' \in [Depths -> Labels]
  BY <1>1 DEF FramesOK, Push
<1>3. todo' \in [Depths -> Seq(Threads)]
  BY <1>1 DEF FramesOK, Push
<1>4. via' \in [Depths -> 0 .. MaxDaemons]
  BY <1>1 DEF FramesOK, Push
<1> QED
  BY <1>0, <1>1, <1>2, <1>3, <1>4 DEF FramesOK, Push

LEMMA PopFrames ==
  ASSUME FramesOK, depth > 0, Pop
  PROVE  FramesOK'
<1>0. \A d \in Depths : pc'[d] = "body" => cur'[d] \in Threads
  BY DEF FramesOK, Pop
<1>1. depth' \in 0 .. MaxDepth
  BY BoundsAssumption DEF FramesOK, Pop
<1>2. pc' \in [Depths -> Labels]
  BY DEF FramesOK, Pop, Labels
<1>3. <<>> \in Seq(Threads)
  OBVIOUS
<1>7. todo' \in [Depths -> Seq(Threads)]
  BY <1>3 DEF FramesOK, Pop
<1>8. kept' \in [Depths -> Seq(Threads)]
  BY <1>3 DEF FramesOK, Pop
<1>4. cur' \in [Depths -> Threads \union {NoThread}]
  BY DEF FramesOK, Pop
<1>5. stage' \in [Depths -> -1 .. NStages]
  <2>1. -1 \in -1 .. NStages /\ stage \in [Depths -> -1 .. NStages]
    BY NStagesAssumption DEF FramesOK
  <2> QED
    BY <2>1 DEF Pop
<1>6. via' \in [Depths -> 0 .. MaxDaemons]
  <2>1. 0 \in 0 .. MaxDaemons /\ via \in [Depths -> 0 .. MaxDaemons]
    BY BoundsAssumption DEF FramesOK
  <2> QED
    BY <2>1 DEF Pop
<1> QED
  BY <1>0, <1>1, <1>2, <1>4, <1>5, <1>6, <1>7, <1>8 DEF FramesOK

LEMMA ActiveDepth == FramesOK /\ depth > 0 => depth \in Depths
  BY BoundsAssumption DEF FramesOK, Depths

LEMMA ReturnTrueFrames == ASSUME FramesOK, depth > 0, ReturnTrue PROVE FramesOK'
<1>1. CASE via[depth] = 0
  BY <1>1 DEF FramesOK, ReturnTrue, Labels
<1>2. CASE via[depth] # 0
  BY <1>2, PopFrames DEF ReturnTrue
<1> QED
  BY <1>1, <1>2

(* The steps of client code keep the types.                                *)
LEMMA ClientType == ASSUME TypeInv, Client PROVE TypeInv'
<1>0. FramesOK /\ ServerOK
  BY DEF TypeInv
<1>1. ASSUME NEW t \in Threads, NEW s \in Stages, Spawn(t, s) PROVE TypeInv'
  <2>1. queue' \in [Stages -> Seq(Threads)]
    BY <1>0, <1>1 DEF ServerOK, Spawn, Enqueue
  <2>2. scheduled' \in Nat /\ spawned' \in SUBSET Threads
    BY <1>0, <1>1 DEF ServerOK, Spawn, Enqueue
  <2>3. ServerOK'
    BY <1>0, <1>1, <2>1, <2>2 DEF ServerOK, Spawn, Enqueue
  <2>4. FramesOK'
    BY <1>0, <1>1 DEF FramesOK, Spawn, frameVars, Enqueue
  <2> QED
    BY <2>3, <2>4 DEF TypeInv, FramesOK, ServerOK
<1>2. ASSUME NEW p \in Procs, SetProcs(p) PROVE TypeInv'
  BY <1>2, <1>0 DEF SetProcs, TypeInv, FramesOK, ServerOK, threadVars, frameVars
<1>3. ASSUME NEW S \in SUBSET Threads, CancelAll(S) PROVE TypeInv'
  <2>1. busy' \in [Threads -> BOOLEAN]
    BY <1>0, <1>3 DEF CancelAll, ServerOK
  <2> QED
    BY <2>1, <1>0, <1>3 DEF CancelAll, TypeInv, FramesOK, ServerOK, serverVars, frameVars
<1>4. ASSUME Launch PROVE TypeInv'
  <2>0. "start" \in Labels \ {"body"} /\ <<>> \in Seq(Threads) /\ 0 \in 0 .. MaxDaemons
    BY BoundsAssumption DEF Labels
  <2>1. FramesOK'
    BY <1>0, <1>4, <2>0, PushFrames DEF Launch, MustLaunch
  <2>2. ServerOK'
    BY <1>0, <1>4 DEF Launch, ServerOK, threadVars, MustLaunch
  <2> QED
    BY <2>1, <2>2 DEF TypeInv, FramesOK, ServerOK
<1>5. ASSUME FireDaemon PROVE TypeInv'
  <2>1. PICK d \in daemons : Push("filter", running, d)
    BY <1>5 DEF FireDaemon
  <2>2. d \in 0 .. MaxDaemons /\ running \in Seq(Threads)
    BY <1>0, BoundsAssumption DEF ServerOK, DaemonIds
  <2>3. FramesOK'
    BY <1>0, <2>1, <2>2, PushFrames DEF Labels
  <2>4. ServerOK'
    BY <1>0, <1>5 DEF FireDaemon, ServerOK, serverVars, threadVars
  <2> QED
    BY <2>3, <2>4 DEF TypeInv, FramesOK, ServerOK
<1> QED
  BY <1>1, <1>2, <1>3, <1>4, <1>5 DEF Client

(* The steps of thread progress: the filter, the sweep, a body's return.   *)
LEMMA ProgressType ==
  ASSUME TypeInv,
         \/ FilterLocked \/ FilterFinished \/ FilterBody \/ FilterEnd
         \/ SweepNext \/ TakeBodyless \/ TakeBody \/ SweepEnd \/ Body
  PROVE  TypeInv'
<1>0. FramesOK /\ ServerOK
  BY DEF TypeInv
<1>1. ASSUME InFilter
      PROVE  /\ depth \in Depths
             /\ Head(todo[depth]) \in Threads
             /\ Tail(todo[depth]) \in Seq(Threads)
             /\ Append(kept[depth], Head(todo[depth])) \in Seq(Threads)
  <2>1. depth \in Depths
    BY <1>0, <1>1, ActiveDepth DEF InFilter
  <2>2. todo[depth] \in Seq(Threads) /\ todo[depth] # <<>> /\ kept[depth] \in Seq(Threads)
    BY <1>0, <1>1, <2>1 DEF InFilter, FramesOK
  <2> QED
    BY <2>1, <2>2
<1>2. ASSUME Sweeping
      PROVE  /\ depth \in Depths
             /\ stage[depth] \in Stages
             /\ CanTake => /\ Taken \in Threads
                           /\ Take => queue' \in [Stages -> Seq(Threads)]
  <2>1. depth \in Depths /\ stage[depth] \in Stages
    BY <1>0, <1>2, ActiveDepth DEF Sweeping
  <2>2. queue[stage[depth]] \in Seq(Threads)
    BY <1>0, <2>1 DEF ServerOK
  <2>3. CanTake => Taken \in Threads /\ Tail(queue[stage[depth]]) \in Seq(Threads)
    BY <2>2 DEF CanTake, Taken
  <2> QED
    BY <1>0, <2>1, <2>3 DEF ServerOK, Take
<1>3. ASSUME NEW alive \in BOOLEAN, Return(alive)
      PROVE  /\ depth \in Depths
             /\ cur[depth] # NoThread => cur[depth] \in Threads
             /\ busy' \in [Threads -> BOOLEAN]
             /\ lock' \in [Threads -> BOOLEAN]
             /\ cur' \in [Depths -> Threads \union {NoThread}]
             /\ pc' \in [Depths -> Labels]
  <2>1. depth \in Depths
    BY <1>0, <1>3, ActiveDepth DEF Return
  <2> QED
    BY <1>0, <1>3, <2>1 DEF Return, FramesOK, ServerOK, Labels
<1>4. CASE FilterLocked
  BY <1>0, <1>1, <1>4 DEF FilterLocked, TypeInv, FramesOK, ServerOK, serverVars, threadVars
<1>5. CASE FilterFinished
  BY <1>0, <1>1, <1>5 DEF FilterFinished, TypeInv, FramesOK, ServerOK, threadVars, CountDone
<1>6. CASE FilterBody
  <2>1. FramesOK'
    BY <1>0, <1>1, <1>6 DEF FilterBody, Enter, FramesOK, Labels, HasBody
  <2>2. ServerOK'
    BY <1>0, <1>1, <1>6 DEF FilterBody, Enter, ServerOK, serverVars, HasBody
  <2> QED
    BY <2>1, <2>2 DEF TypeInv, FramesOK, ServerOK
<1>7. CASE FilterEnd
  <2>1. depth \in Depths
    BY <1>0, <1>7, ActiveDepth DEF FilterEnd, FirstStage
  <2>2. FramesOK'
    BY <1>0, <1>7, <2>1, NStagesAssumption DEF FilterEnd, FramesOK, Labels, FirstStage
  <2>3. ServerOK'
    BY <1>0, <1>7, <2>1 DEF FilterEnd, FramesOK, ServerOK, threadVars, FirstStage
  <2> QED
    BY <2>2, <2>3 DEF TypeInv, FramesOK, ServerOK
<1>8. CASE SweepNext
  <2>1. stage[depth] + 1 \in -1 .. NStages
    BY <1>2, <1>8, NStagesAssumption DEF SweepNext, Stages
  <2> QED
    BY <1>0, <1>8, <2>1 DEF SweepNext, TypeInv, FramesOK, ServerOK, serverVars, threadVars
<1>9. CASE TakeBodyless
  <2>1. queue' \in [Stages -> Seq(Threads)] /\ running' \in Seq(Threads) /\ terminated' \in Nat
    <3>1. queue' \in [Stages -> Seq(Threads)] /\ Taken \in Threads
      BY <1>2, <1>9 DEF TakeBodyless
    <3>2. <<Taken>> \o running \in Seq(Threads) /\ running \in Seq(Threads) /\ terminated \in Nat
      BY <1>0, <3>1 DEF ServerOK
    <3>3. running' = running \/ running' = <<Taken>> \o running
      BY <1>9 DEF TakeBodyless, RunWith
    <3>4. terminated' = terminated \/ terminated' = terminated + 1
      BY <1>9 DEF TakeBodyless, CountDone
    <3>5. running' \in Seq(Threads)
      BY <3>2, <3>3, Zenon
    <3>6. terminated' \in Nat
      BY <3>2, <3>4
    <3> QED
      BY <3>1, <3>5, <3>6
  <2> QED
    BY <1>0, <1>9, <2>1 DEF TakeBodyless, TypeInv, FramesOK, ServerOK, threadVars, frameVars
<1>10. CASE TakeBody
  <2>1. FramesOK'
    BY <1>0, <1>2, <1>10 DEF TakeBody, HasBody, Enter, FramesOK, Labels
  <2>2. ServerOK'
    BY <1>0, <1>2, <1>10 DEF TakeBody, HasBody, Enter, ServerOK
  <2> QED
    BY <2>1, <2>2 DEF TypeInv, FramesOK, ServerOK
<1>11. CASE SweepEnd
  BY <1>0, <1>11 DEF SweepEnd, TypeInv, FramesOK, ServerOK, Labels, serverVars, threadVars
<1>12. CASE BodyKept
  <2>1. cur[depth] \in Threads /\ kept[depth] \in Seq(Threads)
    BY <1>0, <1>3, <1>12 DEF BodyKept, Return, FramesOK, RunWith
  <2>2. Append(kept[depth], cur[depth]) \in Seq(Threads)
    BY <2>1
  <2>3. <<cur[depth]>> \o running \in Seq(Threads)
    BY <1>0, <2>1 DEF ServerOK
  <2>4. kept' \in [Depths -> Seq(Threads)] /\ running' \in Seq(Threads)
    BY <1>0, <1>12, <2>2, <2>3 DEF BodyKept, FramesOK, ServerOK, RunWith
  <2> QED
    BY <1>0, <1>3, <1>12, <2>4 DEF BodyKept, Return, TypeInv, FramesOK, ServerOK, RunWith
<1>13. CASE BodyDone
  <2>1. terminated' \in Nat
    BY <1>0, <1>13 DEF BodyDone, ServerOK, CountDone
  <2> QED
    BY <1>0, <1>3, <1>13, <2>1 DEF BodyDone, Return, TypeInv, FramesOK, ServerOK, CountDone
<1> QED
  BY <1>4, <1>5, <1>6, <1>7, <1>8, <1>9, <1>10, <1>11, <1>12, <1>13 DEF Body

(* The steps at both ends of server_progress, and the exceptions.          *)
LEMMA ControlType ==
  ASSUME TypeInv,
         \/ StartLoop \/ StartDaemon \/ Continue \/ FireWait \/ WaitEnd
         \/ Wake \/ FireStop \/ StopEnd \/ Raise
  PROVE  TypeInv'
<1>0. FramesOK /\ ServerOK
  BY DEF TypeInv
<1>1. CASE StartLoop
  <2>1. running \in Seq(Threads)
    BY <1>0 DEF ServerOK
  <2> QED
    BY <1>0, <1>1, <2>1 DEF StartLoop, TypeInv, FramesOK, ServerOK, Labels, serverVars, threadVars
<1>2. CASE StartDaemon
  <2>1. FramesOK'
    BY <1>0, <1>2, PopFrames DEF StartDaemon
  <2>2. ServerOK'
    BY <1>0, <1>2 DEF StartDaemon, ServerOK, serverVars, threadVars
  <2> QED
    BY <2>1, <2>2 DEF TypeInv
<1>3. CASE Continue
  <2>1. FramesOK'
    BY <1>0, <1>3, ReturnTrueFrames DEF Continue, AtDecision
  <2>2. ServerOK'
    BY <1>0, <1>3 DEF Continue, ServerOK, serverVars, threadVars
  <2> QED
    BY <2>1, <2>2 DEF TypeInv
<1>4. CASE FireWait
  BY <1>0, <1>4 DEF FireWait, TypeInv, FramesOK, ServerOK, Labels, threadVars
<1>5. CASE WaitEnd
  <2>1. FramesOK'
    BY <1>0, <1>5, ReturnTrueFrames DEF WaitEnd
  <2>2. ServerOK'
    BY <1>0, <1>5 DEF WaitEnd, ServerOK, serverVars, threadVars
  <2> QED
    BY <2>1, <2>2 DEF TypeInv
<1>6. CASE Wake
  <2>1. running \in Seq(Threads) /\ -1 \in -1 .. NStages
    BY <1>0, NStagesAssumption DEF ServerOK
  <2>2. FramesOK'
    BY <1>0, <1>6, <2>1 DEF Wake, FramesOK, Labels
  <2>3. ServerOK'
    BY <1>0, <1>6 DEF Wake, ServerOK, serverVars, threadVars
  <2> QED
    BY <2>2, <2>3 DEF TypeInv
<1>7. CASE FireStop
  BY <1>0, <1>7 DEF FireStop, TypeInv, FramesOK, ServerOK, Labels, threadVars, Reset
<1>8. CASE StopEnd
  <2>1. FramesOK'
    BY <1>0, <1>8, PopFrames DEF StopEnd
  <2>2. ServerOK'
    BY <1>0, <1>8 DEF StopEnd, ServerOK, serverVars, threadVars
  <2> QED
    BY <2>1, <2>2 DEF TypeInv
<1>9. CASE Raise
  <2>1. FramesOK'
    BY <1>0, <1>9, PopFrames DEF Raise, Unlock
  <2>2. ServerOK'
    BY <1>0, <1>9 DEF Raise, ServerOK, serverVars, Unlock
  <2> QED
    BY <2>1, <2>2 DEF TypeInv
<1> QED
  BY <1>1, <1>2, <1>3, <1>4, <1>5, <1>6, <1>7, <1>8, <1>9

LEMMA InitType == Init => TypeInv
<1> SUFFICES ASSUME Init PROVE FramesOK /\ ServerOK
  BY DEF TypeInv
<1>1. <<>> \in Seq(Threads) /\ 0 \in 0 .. MaxDepth /\ 0 \in 0 .. MaxDaemons /\ -1 \in -1 .. NStages
  BY BoundsAssumption, NStagesAssumption
<1>2. FramesOK
  BY <1>1 DEF Init, FramesOK, Labels
<1>3. ServerOK
  BY <1>1 DEF Init, ServerOK
<1> QED
  BY <1>2, <1>3

LEMMA StepType == TypeInv /\ [Next]_vars => TypeInv'
<1> SUFFICES ASSUME TypeInv, [Next]_vars PROVE TypeInv'
  OBVIOUS
<1>1. CASE Next
  BY <1>1, ClientType, ProgressType, ControlType DEF Next, Server
<1>2. CASE UNCHANGED vars
  BY <1>2 DEF vars, serverVars, threadVars, frameVars, TypeInv, FramesOK, ServerOK
<1> QED
  BY <1>1, <1>2

(* The variables keep their types: the counters stay natural numbers, the  *)
(* lists hold threads, and every activation is at a known point.           *)
THEOREM TypeCorrect == Spec => []TypeOK
<1>1. Spec => []TypeInv
  BY InitType, StepType, PTL DEF Spec
<1> QED
  BY <1>1, TypeParts, PTL

-----------------------------------------------------------------------------
(* Accounting, for the default on_idle and no exception: every step keeps  *)
(* the balance of the live and queued threads with the counters, except    *)
(* the reset.  The induction needs to know that server_progress is never   *)
(* re-entered while it holds threads (only a stop callback can launch      *)
(* again) and where each phase keeps its threads.                          *)

NestedOnlyInStop ==
  /\ daemons = {}
  /\ \A d \in Depths : via[d] = 0
  /\ \A d \in Depths : d < depth => pc[d] = "stop"
  /\ launched <=> (depth > 0 /\ pc[depth] # "stop")

PhaseLists ==
  \A d \in Depths :
    /\ d > depth => pc[d] = "off"
    /\ pc[d] \in {"off", "start", "filter"} => stage[d] = -1
    /\ pc[d] \in {"schedule", "yield", "waitcb", "stop", "sleep"} => stage[d] # -1
    /\ pc[d] \in {"off", "start"} => kept[d] = <<>>
    /\ stage[d] # -1 => kept[d] = <<>>

BaseInv == TypeInv /\ NestedOnlyInStop /\ PhaseLists /\ IsFiniteSet(Slots(queue))

(* The sum of the accounting comment, off by k.                            *)
Balance(k) == terminated + Live + Cardinality(Slots(queue)) = scheduled + k

LEMMA SlotsPush ==
  ASSUME NEW q \in [Stages -> Seq(Threads)], NEW s \in Stages, NEW t \in Threads,
         IsFiniteSet(Slots(q)),
         NEW r, r = [q EXCEPT ![s] = Append(@, t)]
  PROVE  IsFiniteSet(Slots(r)) /\ Cardinality(Slots(r)) = Cardinality(Slots(q)) + 1
<1>1. r \in [Stages -> Seq(Threads)]
  OBVIOUS
<1>2. Len(r[s]) = Len(q[s]) + 1 /\ Len(q[s]) \in Nat /\ \A p \in Stages : p # s => r[p] = q[p]
  OBVIOUS
<1>3. \A p \in Stages : \A i : i \in 1 .. Len(r[p]) <=>
                             (i \in 1 .. Len(q[p]) \/ (p = s /\ i = Len(q[s]) + 1))
  BY <1>2
<1>4. Slots(r) = Slots(q) \union {<<s, Len(q[s]) + 1>>}
  BY <1>3, <1>1 DEF Slots
<1>5. <<s, Len(q[s]) + 1>> \notin Slots(q)
  BY <1>2 DEF Slots
<1> QED
  BY <1>4, <1>5, FS_AddElement

LEMMA SlotsTake ==
  ASSUME NEW q \in [Stages -> Seq(Threads)], NEW s \in Stages, q[s] # <<>>,
         IsFiniteSet(Slots(q)),
         NEW r, r = [q EXCEPT ![s] = Tail(@)]
  PROVE  /\ IsFiniteSet(Slots(r))
         /\ Cardinality(Slots(r)) \in Nat
         /\ Cardinality(Slots(q)) = Cardinality(Slots(r)) + 1
<1>1. r \in [Stages -> Seq(Threads)]
  OBVIOUS
<1>2. /\ Len(r[s]) = Len(q[s]) - 1
      /\ Len(q[s]) \in Nat \ {0}
      /\ \A p \in Stages : p # s => r[p] = q[p]
  OBVIOUS
<1>3. \A p \in Stages : \A i : i \in 1 .. Len(r[p]) <=>
                             (i \in 1 .. Len(q[p]) /\ ~(p = s /\ i = Len(q[s])))
  BY <1>2
<1>4. Slots(r) = Slots(q) \ {<<s, Len(q[s])>>}
  BY <1>3, <1>1 DEF Slots
<1>5. <<s, Len(q[s])>> \in Slots(q)
  BY <1>2 DEF Slots
<1>6. IsFiniteSet(Slots(r)) /\ Cardinality(Slots(r)) = Cardinality(Slots(q)) - 1
  <2> DEFINE old == Slots(q)
             x == <<s, Len(q[s])>>
  <2>1. IsFiniteSet(old \ {x})
    BY FS_RemoveElement
  <2>2. x \in old => Cardinality(old \ {x}) = Cardinality(old) - 1
    BY FS_RemoveElement
  <2> QED
    BY <1>4, <1>5, <2>1, <2>2
<1>7. Cardinality(Slots(q)) \in Nat /\ Cardinality(Slots(r)) \in Nat
  BY <1>6, FS_CardinalityType
<1> QED
  BY <1>6, <1>7

(* What Live counts, phase by phase.                                       *)
LEMMA LiveCases ==
  ASSUME TypeInv
  PROVE  /\ Filtering => Listed = Len(kept[depth]) + Len(todo[depth])
         /\ ~Filtering => Listed = Len(running)
         /\ (depth > 0 /\ pc[depth] = "body") => InHand = 1
         /\ ~(depth > 0 /\ pc[depth] = "body") => InHand = 0
         /\ Len(running) \in Nat
         /\ depth > 0 => Len(kept[depth]) \in Nat /\ Len(todo[depth]) \in Nat
<1>1. Len(running) \in Nat
  BY DEF TypeInv, ServerOK
<1>2. depth > 0 => Len(kept[depth]) \in Nat /\ Len(todo[depth]) \in Nat
  BY ActiveDepth DEF TypeInv, FramesOK
<1> QED
  BY <1>1, <1>2 DEF Listed, InHand

(* How the phases and the nesting of activations evolve.                   *)
LEMMA StructStep ==
  ASSUME TypeInv, OnIdle = {"loop"}, ~MayRaise, NestedOnlyInStop, PhaseLists, Next
  PROVE  NestedOnlyInStop' /\ PhaseLists'
<1>0. /\ depth \in Nat
      /\ depth > 0 => depth \in Depths
      /\ pc \in [Depths -> Labels] /\ stage \in [Depths -> -1 .. NStages]
      /\ kept \in [Depths -> Seq(Threads)] /\ via \in [Depths -> 0 .. MaxDaemons]
  BY ActiveDepth, BoundsAssumption DEF TypeInv, FramesOK
<1>1. \A d \in Depths : d \in Nat \ {0}
  BY DEF Depths
<1> USE <1>0, <1>1
<1>2. CASE Client
  <2>1. ASSUME NEW t \in Threads, NEW s \in Stages, Spawn(t, s)
        PROVE  NestedOnlyInStop' /\ PhaseLists'
    BY <2>1 DEF Spawn, NestedOnlyInStop, PhaseLists, frameVars, Enqueue
  <2>2. ASSUME NEW p \in Procs, SetProcs(p)
        PROVE  NestedOnlyInStop' /\ PhaseLists'
    BY <2>2 DEF SetProcs, NestedOnlyInStop, PhaseLists, frameVars
  <2>3. ASSUME NEW S \in SUBSET Threads, CancelAll(S)
        PROVE  NestedOnlyInStop' /\ PhaseLists'
    BY <2>3 DEF CancelAll, NestedOnlyInStop, PhaseLists, frameVars, serverVars
  <2>4. CASE Launch
    <3>1. depth > 0 => pc[depth] = "stop"
      BY <2>4 DEF Launch, NestedOnlyInStop, MustLaunch
    <3>2. depth + 1 \in Depths
      BY <2>4, BoundsAssumption DEF Launch, Push, Depths, MustLaunch
    <3>3. NestedOnlyInStop'
      BY <2>4, <3>1, <3>2 DEF Launch, Push, NestedOnlyInStop, MustLaunch
    <3>4. PhaseLists'
      BY <2>4, <3>1, <3>2 DEF Launch, Push, PhaseLists, MustLaunch
    <3> QED
      BY <3>3, <3>4
  <2>5. CASE FireDaemon
    BY <2>5 DEF FireDaemon, NestedOnlyInStop
  <2> QED
    BY <1>2, <2>1, <2>2, <2>3, <2>4, <2>5 DEF Client
<1>3. CASE StartLoop
  BY <1>3 DEF StartLoop, NestedOnlyInStop, PhaseLists, serverVars
<1>4. CASE StartDaemon
  BY <1>4 DEF StartDaemon
<1>5. CASE FilterLocked \/ FilterFinished
  BY <1>5 DEF FilterLocked, FilterFinished, InFilter, NestedOnlyInStop, PhaseLists, serverVars, CountDone
<1>6. CASE FilterBody
  BY <1>6 DEF FilterBody, Enter, InFilter, NestedOnlyInStop, PhaseLists, serverVars, HasBody
<1>7. CASE FilterEnd
  BY <1>7 DEF FilterEnd, NestedOnlyInStop, PhaseLists, FirstStage
<1>8. CASE SweepNext
  BY <1>8 DEF SweepNext, Sweeping, Stages, NestedOnlyInStop, PhaseLists, serverVars
<1>9. CASE TakeBodyless
  BY <1>9 DEF TakeBodyless, NestedOnlyInStop, PhaseLists, frameVars
<1>10. CASE TakeBody
  BY <1>10 DEF TakeBody, Enter, Sweeping, NestedOnlyInStop, PhaseLists
<1>11. CASE SweepEnd
  BY <1>11 DEF SweepEnd, NestedOnlyInStop, PhaseLists, serverVars
<1>12. CASE BodyKept
  BY <1>12 DEF BodyKept, Return, NestedOnlyInStop, PhaseLists, RunWith
<1>13. CASE BodyDone
  BY <1>13 DEF BodyDone, Return, NestedOnlyInStop, PhaseLists, CountDone
<1>14. CASE Continue
  BY <1>14 DEF Continue, AtDecision, ReturnTrue, NestedOnlyInStop, PhaseLists, serverVars
<1>15. CASE FireWait
  BY <1>15 DEF FireWait, AtDecision, NestedOnlyInStop, PhaseLists
<1>16. CASE WaitEnd
  BY <1>16 DEF WaitEnd, ReturnTrue, NestedOnlyInStop, PhaseLists, serverVars
<1>17. CASE Wake
  BY <1>17 DEF Wake, NestedOnlyInStop, PhaseLists, serverVars
<1>18. CASE FireStop
  BY <1>18 DEF FireStop, AtDecision, NestedOnlyInStop, PhaseLists, Reset
<1>19. CASE StopEnd
  <2>a. depth' = depth - 1 /\ depth \in Depths
    BY <1>19 DEF StopEnd, Pop
  <2>b. depth - 1 > 0 => depth - 1 \in Depths /\ depth - 1 < depth
    BY <2>a, BoundsAssumption DEF Depths
  <2>0. depth' = depth - 1 /\ (depth' > 0 => depth' \in Depths /\ pc[depth'] = "stop")
    BY <2>a, <2>b DEF NestedOnlyInStop
  <2>1. NestedOnlyInStop'
    BY <1>19, <2>0 DEF StopEnd, Pop, NestedOnlyInStop, serverVars
  <2>2. PhaseLists'
    BY <1>19 DEF StopEnd, Pop, PhaseLists
  <2> QED
    BY <2>1, <2>2
<1>20. CASE Raise
  BY <1>20 DEF Raise, Unlock
<1> QED
  BY <1>2, <1>3, <1>4, <1>5, <1>6, <1>7, <1>8, <1>9, <1>10, <1>11, <1>12, <1>13,
     <1>14, <1>15, <1>16, <1>17, <1>18, <1>19, <1>20 DEF Next, Server, Body

(* Live and Accounting again, with the prime: what is left to show of a    *)
(* step is how it changes the lengths.                                     *)
LEMMA CountPrimed ==
  /\ Filtering' => Listed' = Len(kept'[depth']) + Len(todo'[depth'])
  /\ ~Filtering' => Listed' = Len(running')
  /\ (depth' > 0 /\ pc'[depth'] = "body") => InHand' = 1
  /\ ~(depth' > 0 /\ pc'[depth'] = "body") => InHand' = 0
  /\ Live' = Listed' + InHand'
BY DEF Listed, InHand, Live

(* Every step but the reset keeps the balance.                             *)
LEMMA BalanceStep ==
  ASSUME BaseInv, OnIdle = {"loop"}, ~MayRaise, NEW off \in Int, Balance(off), Next, ~FireStop
  PROVE  IsFiniteSet(Slots(queue))' /\ Balance(off)'
<1> DEFINE size == Cardinality(Slots(queue))
           k == Len(kept[depth])
           l == Len(todo[depth])
           k1 == Len(kept'[depth])
           l1 == Len(todo'[depth])
<1>b. TypeInv /\ NestedOnlyInStop /\ PhaseLists /\ IsFiniteSet(Slots(queue))
  BY DEF BaseInv
<1> USE <1>b
<1>0. /\ depth \in Nat
      /\ depth > 0 => depth \in Depths
      /\ pc \in [Depths -> Labels] /\ stage \in [Depths -> -1 .. NStages]
      /\ todo \in [Depths -> Seq(Threads)] /\ kept \in [Depths -> Seq(Threads)]
      /\ queue \in [Stages -> Seq(Threads)]
      /\ running \in Seq(Threads)
      /\ terminated \in Nat /\ scheduled \in Nat
  BY <1>b, ActiveDepth, BoundsAssumption DEF TypeInv, FramesOK, ServerOK
<1>1. size \in Nat /\ size' = Cardinality(Slots(queue'))
  BY <1>b, FS_CardinalityType
<1>2. terminated + (Listed + InHand) + size = scheduled + off
  BY DEF Balance, Live
<1>3. /\ Filtering => Listed = k + l
      /\ ~Filtering => Listed = Len(running)
      /\ (depth > 0 /\ pc[depth] = "body") => InHand = 1
      /\ ~(depth > 0 /\ pc[depth] = "body") => InHand = 0
      /\ Len(running) \in Nat
      /\ depth > 0 => k \in Nat /\ l \in Nat
  BY <1>b, LiveCases
<1> HIDE DEF k, l, k1, l1
<1>4. Listed \in Nat /\ InHand \in Nat
  <2>1. Filtering => depth > 0
    BY DEF Filtering
  <2>2. Filtering => Listed \in Nat
    BY <1>3, <2>1
  <2> QED
    BY <1>3, <2>2
<1>5. ASSUME IsFiniteSet(Slots(queue')),
             terminated' + (Listed' + InHand') + size' = scheduled' + off
      PROVE  IsFiniteSet(Slots(queue))' /\ Balance(off)'
  BY <1>5, CountPrimed DEF Balance
<1> HIDE DEF size
<1>6. ASSUME UNCHANGED <<queue, terminated, scheduled>>, Listed' + InHand' = Listed + InHand
      PROVE  IsFiniteSet(Slots(queue))' /\ Balance(off)'
  <2>1. size' = size /\ IsFiniteSet(Slots(queue'))
    BY <1>6 DEF size
  <2> QED
    BY <1>2, <1>5, <1>6, <2>1
<1>7. ASSUME NEW t \in Threads, NEW s \in Stages, Spawn(t, s)
      PROVE  IsFiniteSet(Slots(queue))' /\ Balance(off)'
  <2>1. Listed' = Listed /\ InHand' = InHand
    BY <1>7 DEF Spawn, Listed, InHand, Filtering, frameVars, Enqueue
  <2>2. IsFiniteSet(Slots(queue')) /\ size' = size + 1
    BY <1>0, <1>7, SlotsPush DEF Spawn, size, Enqueue
  <2>3. terminated' = terminated /\ scheduled' = scheduled + 1
    BY <1>7 DEF Spawn, Enqueue
  <2>4. terminated' + (Listed' + InHand') + size' = scheduled' + off
    BY <1>0, <1>1, <1>2, <1>4, <2>1, <2>2, <2>3
  <2> QED
    BY <1>5, <2>2, <2>4
<1>8. ASSUME \/ \E p \in Procs : SetProcs(p)
             \/ \E S \in SUBSET Threads : CancelAll(S)
      PROVE  IsFiniteSet(Slots(queue))' /\ Balance(off)'
  <2>1. UNCHANGED <<queue, terminated, scheduled, running, frameVars>>
    BY <1>8 DEF SetProcs, CancelAll, serverVars
  <2>2. Listed' = Listed /\ InHand' = InHand
    BY <2>1 DEF Listed, InHand, Filtering, frameVars
  <2> QED
    BY <1>6, <2>1, <2>2
<1>9. ASSUME ~Filtering, ~Filtering', InHand = 0, ~(depth' > 0 /\ pc'[depth'] = "body"),
             UNCHANGED <<queue, terminated, scheduled, running>>
      PROVE  IsFiniteSet(Slots(queue))' /\ Balance(off)'
  <2>1. Listed' = Listed /\ InHand' = InHand
    BY <1>3, <1>9, CountPrimed
  <2> QED
    BY <1>6, <1>9, <2>1
<1>10. CASE Launch
  <2>1. depth > 0 => pc[depth] = "stop"
    BY <1>10 DEF Launch, NestedOnlyInStop, MustLaunch
  <2>2. depth' = depth + 1 /\ depth + 1 \in Depths /\ pc'[depth + 1] = "start"
    BY <1>0, <1>10, BoundsAssumption DEF Launch, Push, Depths, MustLaunch
  <2>3. ~Filtering /\ ~Filtering' /\ InHand = 0
    BY <2>1, <2>2 DEF Filtering, InHand
  <2> QED
    BY <1>9, <1>10, <2>2, <2>3 DEF Launch, MustLaunch
<1>11. CASE FireDaemon
  BY <1>11 DEF FireDaemon, NestedOnlyInStop
<1>12. CASE StartLoop \/ Wake
  <2>1. depth \in Depths /\ pc[depth] \in {"start", "sleep"} /\ kept[depth] = <<>>
    BY <1>0, <1>12 DEF StartLoop, Wake, PhaseLists
  <2>2. /\ depth' > 0 /\ pc'[depth'] = "filter"
        /\ kept'[depth'] = <<>> /\ todo'[depth'] = running
        /\ UNCHANGED <<queue, terminated, scheduled>>
    BY <1>0, <1>12, <2>1 DEF StartLoop, Wake, serverVars
  <2>3. Listed = Len(running) /\ InHand = 0
    BY <1>3, <2>1 DEF Filtering
  <2>4. Listed' = Len(kept'[depth']) + Len(todo'[depth']) /\ InHand' = 0
    BY <2>2, CountPrimed DEF Filtering
  <2>5. Len(kept'[depth']) = 0
    BY <2>2
  <2> QED
    BY <1>3, <1>6, <2>2, <2>3, <2>4, <2>5
<1>13. ASSUME FilterLocked \/ FilterFinished \/ FilterBody
       PROVE  /\ depth \in Depths /\ depth' = depth /\ depth > 0
              /\ Listed = k + l /\ InHand = 0
              /\ Listed' = k1 + l1
              /\ l1 = l - 1 /\ l \in Nat \ {0}
              /\ k \in Nat
              /\ UNCHANGED <<queue, scheduled>>
  <2>1. /\ depth \in Depths /\ depth' = depth /\ depth > 0
        /\ pc[depth] = "filter" /\ todo[depth] # <<>>
        /\ UNCHANGED <<queue, scheduled>>
        /\ todo'[depth] = Tail(todo[depth])
    BY <1>0, <1>13 DEF FilterLocked, FilterFinished, FilterBody, InFilter, serverVars, CountDone, HasBody
  <2>2. stage[depth] = -1 /\ stage' = stage /\ pc'[depth] \in {"filter", "body"}
    BY <1>0, <1>13, <2>1 DEF FilterLocked, FilterFinished, FilterBody, Enter, PhaseLists, CountDone, HasBody
  <2>3. Filtering /\ Filtering'
    BY <2>1, <2>2 DEF Filtering
  <2>4. Len(Tail(todo[depth])) = Len(todo[depth]) - 1 /\ Len(todo[depth]) \in Nat \ {0}
    BY <1>0, <2>1
  <2>5. l1 = l - 1 /\ l \in Nat \ {0}
    BY <2>1, <2>4 DEF l, l1
  <2>6. Listed' = k1 + l1
    BY <2>1, <2>3, CountPrimed DEF k1, l1
  <2> QED
    BY <1>3, <2>1, <2>3, <2>5, <2>6
<1>14. CASE FilterLocked
  <2>1. /\ kept'[depth] = Append(kept[depth], Head(todo[depth]))
        /\ terminated' = terminated /\ pc'[depth] = "filter"
    BY <1>0, <1>13, <1>14 DEF FilterLocked, InFilter, serverVars
  <2>2. k1 = k + 1
    BY <1>0, <1>13, <1>14, <2>1 DEF k, k1
  <2>3. InHand' = 0
    BY <1>13, <1>14, <2>1, CountPrimed
  <2>4. Listed' + InHand' = Listed + InHand
    BY <1>13, <1>14, <2>2, <2>3
  <2> QED
    BY <1>6, <1>13, <1>14, <2>1, <2>4
<1>15. CASE FilterFinished
  <2>1. terminated' = terminated + 1 /\ kept' = kept /\ pc' = pc /\ pc[depth] = "filter"
    BY <1>15 DEF FilterFinished, InFilter, CountDone
  <2>2. InHand' = 0
    BY <1>13, <1>15, <2>1, CountPrimed
  <2>3. size' = size /\ IsFiniteSet(Slots(queue'))
    BY <1>13, <1>15 DEF size
  <2>6. k1 = k
    BY <2>1 DEF k, k1
  <2>5. Listed' = Listed - 1 /\ InHand = 0 /\ scheduled' = scheduled
    BY <1>13, <1>15, <2>6
  <2>4. terminated' + (Listed' + InHand') + size' = scheduled' + off
    BY <1>0, <1>1, <1>2, <1>4, <2>1, <2>2, <2>3, <2>5
  <2> QED
    BY <1>5, <2>3, <2>4
<1>16. CASE FilterBody
  <2>1. terminated' = terminated /\ kept' = kept /\ pc'[depth] = "body"
    BY <1>0, <1>13, <1>16 DEF FilterBody, Enter, serverVars, HasBody
  <2>2. InHand' = 1
    BY <1>13, <1>16, <2>1, CountPrimed
  <2>4. k1 = k
    BY <2>1 DEF k, k1
  <2>3. Listed' + InHand' = Listed + InHand
    BY <1>13, <1>16, <2>2, <2>4
  <2> QED
    BY <1>6, <1>13, <1>16, <2>1, <2>3
<1>17. CASE FilterEnd
  <2>1. /\ depth \in Depths /\ depth' = depth /\ depth > 0
        /\ pc[depth] = "filter" /\ pc'[depth] = "schedule"
        /\ running' = kept[depth] /\ todo[depth] = <<>>
        /\ UNCHANGED <<queue, scheduled, terminated>>
    BY <1>0, <1>17 DEF FilterEnd, FirstStage
  <2>2. Listed = k + l /\ InHand = 0
    BY <1>3, <2>1 DEF Filtering
  <2>3. Listed' = Len(running') /\ InHand' = 0
    BY <2>1, CountPrimed DEF Filtering
  <2>4. l = 0 /\ k \in Nat /\ Len(running') = k
    BY <1>3, <2>1 DEF k, l
  <2> QED
    BY <1>6, <2>1, <2>2, <2>3, <2>4
<1>18. CASE SweepNext \/ SweepEnd
  <2>1. /\ depth' = depth /\ depth \in Depths /\ pc[depth] = "schedule"
        /\ pc'[depth] \in {"schedule", "yield"}
        /\ UNCHANGED <<queue, terminated, scheduled, running>>
    BY <1>0, <1>18 DEF SweepNext, SweepEnd, Sweeping, serverVars
  <2>2. ~Filtering /\ ~Filtering' /\ InHand = 0
    BY <2>1 DEF Filtering, InHand
  <2> QED
    BY <1>9, <2>1, <2>2
<1>19. CASE TakeBodyless \/ TakeBody
  <2>1. /\ depth' = depth /\ depth \in Depths /\ depth > 0 /\ pc[depth] = "schedule"
        /\ stage[depth] \in Stages /\ stage' = stage /\ stage[depth] # -1
        /\ queue[stage[depth]] # <<>>
        /\ queue' = [queue EXCEPT ![stage[depth]] = Tail(@)]
        /\ scheduled' = scheduled
    BY <1>0, <1>19 DEF TakeBodyless, TakeBody, Sweeping, CanTake, Take, Stages, frameVars
  <2>2. IsFiniteSet(Slots(queue')) /\ size' \in Nat /\ size = size' + 1
    BY <1>0, <2>1, SlotsTake DEF size
  <2>3. Listed = Len(running) /\ InHand = 0
    BY <1>3, <2>1 DEF Filtering
  <2>4. pc'[depth] \in {"schedule", "body"}
    BY <1>0, <1>19, <2>1 DEF TakeBodyless, TakeBody, Enter, frameVars
  <2>5. Listed' = Len(running')
    BY <2>1, <2>4, CountPrimed DEF Filtering
  <2>6. \/ terminated' = terminated + 1 /\ InHand' = 0 /\ Listed' = Listed
        \/ terminated' = terminated /\ InHand' = 0 /\ Listed' = Listed + 1
        \/ terminated' = terminated /\ InHand' = 1 /\ Listed' = Listed
    <3>1. CASE TakeBodyless /\ lock[Taken]
      <4>1. running' = <<Taken>> \o running /\ terminated' = terminated /\ pc'[depth] = "schedule"
        BY <2>1, <3>1 DEF TakeBodyless, RunWith, frameVars
      <4>2. queue[stage[depth]] \in Seq(Threads)
        BY <1>0, <2>1
      <4>3. Taken \in Threads
        BY <2>1, <4>2 DEF Taken
      <4>4. Len(running') = Len(running) + 1
        BY <1>0, <4>1, <4>3
      <4>5. InHand' = 0
        BY <4>1, <2>1, CountPrimed
      <4> QED
        BY <2>3, <2>5, <4>1, <4>4, <4>5
    <3>2. CASE TakeBodyless /\ ~lock[Taken]
      <4>1. running' = running /\ terminated' = terminated + 1 /\ pc'[depth] = "schedule"
        BY <2>1, <3>2 DEF TakeBodyless, CountDone, frameVars
      <4> QED
        BY <2>1, <2>3, <2>5, <4>1, CountPrimed
    <3>3. CASE TakeBody
      <4>1. running' = running /\ terminated' = terminated /\ pc'[depth] = "body"
        BY <1>0, <2>1, <3>3 DEF TakeBody, Enter
      <4> QED
        BY <2>1, <2>3, <2>5, <4>1, CountPrimed
    <3> QED
      BY <1>19, <3>1, <3>2, <3>3
  <2>7. Listed \in Nat /\ terminated + Listed + size' + 1 = scheduled' + off
    BY <1>0, <1>2, <1>4, <2>1, <2>2, <2>3
  <2>8. terminated' + (Listed' + InHand') + size' = scheduled' + off
    <3>1. size' \in Nat /\ terminated \in Nat /\ Listed \in Nat
      BY <1>0, <2>2, <2>7
    <3> QED
      BY <2>6, <2>7, <3>1
  <2> QED
    BY <1>5, <2>2, <2>8
<1>20. ASSUME BodyKept \/ BodyDone
       PROVE  /\ depth' = depth /\ depth \in Depths /\ depth > 0
              /\ pc[depth] = "body" /\ pc'[depth] \in {"filter", "schedule"}
              /\ stage[depth] = -1 <=> pc'[depth] = "filter"
              /\ InHand = 1 /\ InHand' = 0
              /\ UNCHANGED <<queue, scheduled, stage, todo>>
  <2>1. /\ depth' = depth /\ depth \in Depths /\ depth > 0
        /\ pc[depth] = "body" /\ pc'[depth] \in {"filter", "schedule"}
        /\ stage[depth] = -1 <=> pc'[depth] = "filter"
        /\ UNCHANGED <<queue, scheduled, stage, todo>>
    BY <1>0, <1>20 DEF BodyKept, BodyDone, Return, RunWith, CountDone
  <2> QED
    BY <1>3, <2>1, CountPrimed
<1>21. CASE BodyKept
  <2>1. CASE stage[depth] = -1
    <3>1. /\ kept'[depth] = Append(kept[depth], cur[depth])
          /\ UNCHANGED <<running, terminated>>
      BY <1>0, <1>20, <1>21, <2>1 DEF BodyKept, RunWith
    <3>2. k1 = k + 1 /\ l1 = l
      <4>1. cur[depth] \in Threads /\ kept[depth] \in Seq(Threads)
        BY <1>0, <1>20, <1>21 DEF TypeInv, FramesOK
      <4> QED
        BY <1>20, <1>21, <3>1, <4>1 DEF k, k1, l, l1
    <3>3. Filtering /\ Filtering'
      BY <1>20, <1>21, <2>1 DEF Filtering
    <3>4. Listed = k + l /\ Listed' = k1 + l1
      BY <1>3, <1>20, <1>21, <3>3, CountPrimed DEF k1, l1
    <3>5. Listed' + InHand' = Listed + InHand
      <4>1. k \in Nat /\ l \in Nat
        BY <1>3, <1>20, <1>21
      <4> QED
        BY <1>20, <1>21, <3>2, <3>4, <4>1
    <3> QED
      BY <1>6, <1>20, <1>21, <3>1, <3>5
  <2>2. CASE stage[depth] # -1
    <3>1. running' = <<cur[depth]>> \o running /\ UNCHANGED terminated
      BY <1>21, <2>2 DEF BodyKept, RunWith
    <3>2. Len(running') = Len(running) + 1
      <4>1. cur[depth] \in Threads
        BY <1>20, <1>21 DEF TypeInv, FramesOK
      <4> QED
        BY <1>0, <3>1, <4>1
    <3>3. ~Filtering /\ ~Filtering'
      BY <1>20, <1>21, <2>2 DEF Filtering
    <3>4. Listed = Len(running) /\ Listed' = Len(running')
      BY <1>3, <3>3, CountPrimed
    <3> QED
      BY <1>3, <1>6, <1>20, <1>21, <3>1, <3>2, <3>4
  <2> QED
    BY <2>1, <2>2
<1>22. CASE BodyDone
  <2>1. terminated' = terminated + 1 /\ UNCHANGED <<running, kept>>
    BY <1>22 DEF BodyDone, CountDone
  <2>2. Listed' = Listed
    BY <1>20, <1>22, <2>1 DEF Listed, Filtering
  <2>3. size' = size /\ IsFiniteSet(Slots(queue'))
    BY <1>20, <1>22 DEF size
  <2>4. terminated' + (Listed' + InHand') + size' = scheduled' + off
    BY <1>0, <1>1, <1>2, <1>4, <1>20, <1>22, <2>1, <2>2, <2>3
  <2> QED
    BY <1>5, <2>3, <2>4
<1>23. CASE Continue \/ WaitEnd \/ FireWait
  <2>1. via[depth] = 0 /\ depth \in Depths /\ pc[depth] \in {"yield", "waitcb"}
    BY <1>0, <1>23 DEF Continue, WaitEnd, FireWait, AtDecision, NestedOnlyInStop
  <2>2. /\ depth' = depth /\ pc'[depth] \in {"sleep", "waitcb"}
        /\ UNCHANGED <<queue, terminated, scheduled, running>>
    BY <1>0, <1>23, <2>1 DEF Continue, WaitEnd, FireWait, ReturnTrue, serverVars
  <2>3. ~Filtering /\ ~Filtering' /\ InHand = 0
    BY <2>1, <2>2 DEF Filtering, InHand
  <2> QED
    BY <1>9, <2>2, <2>3
<1>25. CASE StopEnd
  <2>1. depth \in Depths /\ pc[depth] = "stop" /\ depth' = depth - 1
    BY <1>0, <1>25 DEF StopEnd, Pop
  <2>2. depth - 1 > 0 => depth - 1 \in Depths /\ depth - 1 < depth
    BY <2>1, BoundsAssumption DEF Depths
  <2>3. depth' > 0 => pc'[depth'] = "stop"
    BY <1>0, <1>25, <2>1, <2>2 DEF StopEnd, Pop, NestedOnlyInStop
  <2>4. ~Filtering /\ ~Filtering' /\ InHand = 0
    BY <2>1, <2>3 DEF Filtering, InHand
  <2> QED
    BY <1>9, <1>25, <2>3, <2>4 DEF StopEnd, serverVars
<1>26. CASE StartDaemon \/ Raise
  BY <1>26 DEF StartDaemon, Raise, Unlock
<1> QED
  BY <1>7, <1>8, <1>10, <1>11, <1>12, <1>14, <1>15, <1>16, <1>17, <1>18, <1>19,
     <1>21, <1>22, <1>23, <1>25, <1>26 DEF Next, Client, Server, Body

(* Arithmetic on terms the provers need not look into.                     *)
LEMMA SumBound ==
  \A a, b, c, d, e, f \in Nat : d + e + c + f = a + b + c + f /\ d >= a => e <= b
  OBVIOUS

LEMMA NatSum == \A a, b \in Nat : a + b \in Nat
  OBVIOUS

LEMMA LiveType == ASSUME TypeInv PROVE Live \in Nat
<1>1. running \in Seq(Threads) /\ Len(running) \in Nat
  BY DEF TypeInv, ServerOK
<1>2. depth > 0 => Len(kept[depth]) \in Nat /\ Len(todo[depth]) \in Nat
  BY ActiveDepth DEF TypeInv, FramesOK
<1>3. Listed \in Nat
  <2>1. CASE Filtering
    <3>1. depth > 0
      BY <2>1 DEF Filtering
    <3>2. Len(kept[depth]) + Len(todo[depth]) \in Nat
      BY <1>2, <3>1, NatSum, Zenon
    <3> QED
      BY <2>1, <3>2, Zenon DEF Listed
  <2>2. CASE ~Filtering
    BY <1>1, <2>2, Zenon DEF Listed
  <2> QED
    BY <2>1, <2>2
<1>4. InHand \in Nat
  BY DEF InHand
<1> QED
  BY <1>3, <1>4, NatSum, Zenon DEF Live

LEMMA LiveTypeNext == ASSUME TypeInv' PROVE Live' \in Nat
<1>0. depth' > 0 => depth' \in Depths
  BY BoundsAssumption DEF TypeInv, FramesOK, Depths
<1>1. Len(running') \in Nat
  BY DEF TypeInv, ServerOK
<1>2. depth' > 0 => Len(kept'[depth']) \in Nat /\ Len(todo'[depth']) \in Nat
  BY <1>0 DEF TypeInv, FramesOK
<1>3. Listed' \in Nat
  <2>1. CASE Filtering'
    <3>1. depth' > 0
      BY <2>1 DEF Filtering
    <3>2. Len(kept'[depth']) + Len(todo'[depth']) \in Nat
      BY <1>2, <3>1, NatSum, Zenon
    <3> QED
      BY <2>1, <3>2, CountPrimed, Zenon
  <2>2. CASE ~Filtering'
    BY <1>1, <2>2, CountPrimed
  <2> QED
    BY <2>1, <2>2
<1>4. InHand' \in Nat
  BY CountPrimed
<1>5. Live' = Listed' + InHand'
  BY CountPrimed
<1> QED
  BY <1>3, <1>4, <1>5, NatSum, Zenon

(* The reset starts a new balance, off by what is still queued.            *)
LEMMA BalanceReset ==
  ASSUME BaseInv, OnIdle = {"loop"}, FireStop
  PROVE  IsFiniteSet(Slots(queue))' /\ Balance(Cardinality(Slots(queue)))'
<1>1. /\ depth \in Depths /\ depth' = depth /\ depth > 0 /\ pc' = [pc EXCEPT ![depth] = "stop"]
      /\ running' = <<>> /\ queue' = queue /\ terminated' = 0 /\ scheduled' = 0
  BY ActiveDepth DEF BaseInv, TypeInv, FireStop, AtDecision, Reset
<1>2. pc'[depth] = "stop"
  BY <1>1 DEF BaseInv, TypeInv, FramesOK
<1>3. Listed' = 0 /\ InHand' = 0
  BY <1>1, <1>2, CountPrimed DEF Filtering
<1>4. Cardinality(Slots(queue)) \in Nat /\ Slots(queue)' = Slots(queue) /\ IsFiniteSet(Slots(queue))
  BY <1>1, FS_CardinalityType DEF BaseInv, Slots
<1>5. Live' = 0
  BY <1>3, CountPrimed
<1> QED
  BY <1>1, <1>4, <1>5 DEF Balance

LEMMA BalanceInt ==
  ASSUME BaseInv
  PROVE  \E k \in Int : Balance(k)
<1>1. Live \in Nat /\ terminated \in Nat /\ scheduled \in Nat /\ Cardinality(Slots(queue)) \in Nat
  BY LiveType, FS_CardinalityType DEF BaseInv, TypeInv, ServerOK
<1> DEFINE k == terminated + Live + Cardinality(Slots(queue)) - scheduled
<1>2. k \in Int /\ Balance(k)
  BY <1>1 DEF Balance
<1> QED
  BY <1>2

LEMMA BaseInit == Init => BaseInv
<1> SUFFICES ASSUME Init PROVE BaseInv
  OBVIOUS
<1>1. TypeInv
  BY InitType
<1>2. NestedOnlyInStop
  BY DEF Init, NestedOnlyInStop, Depths
<1>3. PhaseLists
  BY DEF Init, PhaseLists
<1>4. Slots(queue) = {}
  <2>1. \A s \in Stages : 1 .. Len(queue[s]) = {}
    BY DEF Init
  <2> QED
    BY <2>1 DEF Slots
<1>5. IsFiniteSet(Slots(queue))
  BY <1>4, FS_EmptySet
<1> QED
  BY <1>1, <1>2, <1>3, <1>5 DEF BaseInv

LEMMA BaseInductive ==
  ASSUME OnIdle = {"loop"}, ~MayRaise
  PROVE  BaseInv /\ [Next]_vars => BaseInv'
<1> SUFFICES ASSUME BaseInv, [Next]_vars PROVE BaseInv'
  OBVIOUS
<1>1. CASE Next
  <2>1. TypeInv'
    BY <1>1, StepType DEF BaseInv
  <2>2. NestedOnlyInStop' /\ PhaseLists'
    BY <1>1, StructStep DEF BaseInv
  <2>3. IsFiniteSet(Slots(queue))'
    BY <1>1, BalanceStep, BalanceReset, BalanceInt
  <2> QED
    BY <2>1, <2>2, <2>3 DEF BaseInv
<1>2. CASE UNCHANGED vars
  <2>1. TypeInv'
    BY <1>2, StepType DEF BaseInv
  <2>2. NestedOnlyInStop' /\ PhaseLists'
    BY <1>2 DEF BaseInv, vars, serverVars, frameVars, NestedOnlyInStop, PhaseLists
  <2>3. IsFiniteSet(Slots(queue))'
    BY <1>2 DEF BaseInv, vars, serverVars, Slots
  <2> QED
    BY <2>1, <2>2, <2>3 DEF BaseInv
<1> QED
  BY <1>1, <1>2

(* The history: what is left has the type of the queues and is finite.     *)
HistoryInv ==
  BaseInv /\ HistoryTypeOK /\ IsFiniteSet(Slots(left)) /\ Accounting

LEMMA HistorySteps == HistoryNext => Next
  BY DEF HistoryNext

LEMMA HistoryInvInit == HistoryInit => HistoryInv
<1> SUFFICES ASSUME HistoryInit PROVE HistoryInv
  OBVIOUS
<1>0. Init /\ left = [s \in Stages |-> <<>>] /\ late = {}
  BY DEF HistoryInit
<1>1. BaseInv
  BY <1>0, BaseInit
<1>2. left = queue /\ HistoryTypeOK
  BY <1>0 DEF Init, HistoryTypeOK
<1>3. Listed = 0 /\ InHand = 0
  BY <1>0 DEF Init, Listed, InHand, Filtering
<1>4. Cardinality(Slots(queue)) \in Nat
  BY <1>1, FS_CardinalityType DEF BaseInv
<1>5. Accounting
  BY <1>0, <1>2, <1>3, <1>4 DEF Init, Accounting, Live
<1> QED
  BY <1>1, <1>2, <1>5 DEF HistoryInv, BaseInv

LEMMA HistoryInductive ==
  ASSUME OnIdle = {"loop"}, ~MayRaise
  PROVE  HistoryInv /\ [HistoryNext]_<<vars, historyVars>> => HistoryInv'
<1> SUFFICES ASSUME HistoryInv, [HistoryNext]_<<vars, historyVars>> PROVE HistoryInv'
  OBVIOUS
<1>0. /\ BaseInv /\ BaseInv' /\ left \in [Stages -> Seq(Threads)] /\ late \subseteq Threads
      /\ IsFiniteSet(Slots(left)) /\ Cardinality(Slots(left)) \in Int
      /\ queue \in [Stages -> Seq(Threads)] /\ IsFiniteSet(Slots(queue))
  <2>1. [Next]_vars
    BY HistorySteps DEF historyVars
  <2>2. BaseInv /\ BaseInv'
    BY <2>1, BaseInductive DEF HistoryInv
  <2>3. Cardinality(Slots(left)) \in Int
    BY FS_CardinalityType DEF HistoryInv
  <2> QED
    BY <2>2, <2>3 DEF HistoryInv, HistoryTypeOK, BaseInv, TypeInv, ServerOK
<1>1. CASE HistoryNext /\ ~FireStop
  <2>1. Next /\ left' = left
    BY <1>1 DEF HistoryNext
  <2>2. late' \subseteq Threads
    BY <1>0, <1>1 DEF HistoryNext, LateSpawns
  <2>3. PICK k \in Int : k = Cardinality(Slots(left))
    BY <1>0
  <2>4. Balance(k)'
    <3>1. Balance(k)
      BY <2>3 DEF HistoryInv, Accounting, Balance
    <3> QED
      BY <1>0, <1>1, <2>1, <3>1, BalanceStep
  <2>5. Slots(left)' = Slots(left)
    BY <2>1 DEF Slots
  <2>6. Accounting'
    BY <2>3, <2>4, <2>5 DEF Accounting, Balance
  <2> QED
    BY <1>0, <2>1, <2>2, <2>5, <2>6 DEF HistoryInv, HistoryTypeOK
<1>2. CASE HistoryNext /\ FireStop
  <2>1. left' = queue /\ queue' = queue
    BY <1>2 DEF HistoryNext, FireStop
  <2>2. late' \subseteq Threads
    BY <1>0, <1>2 DEF HistoryNext, LateSpawns
  <2>3. Slots(left)' = Slots(queue) /\ Slots(queue)' = Slots(queue)
    BY <2>1 DEF Slots
  <2>4. Balance(Cardinality(Slots(queue)))'
    BY <1>0, <1>2, BalanceReset
  <2>5. Accounting'
    BY <2>3, <2>4 DEF Accounting, Balance
  <2> QED
    BY <1>0, <2>1, <2>2, <2>3, <2>5 DEF HistoryInv, HistoryTypeOK
<1>3. CASE UNCHANGED <<vars, historyVars>>
  <2>1. Accounting'
    BY <1>3 DEF HistoryInv, Accounting, Live, Listed, InHand, Filtering, Slots, vars, historyVars,
       serverVars, frameVars
  <2>2. Slots(left)' = Slots(left)
    BY <1>3 DEF historyVars, Slots
  <2> QED
    BY <1>0, <1>3, <2>1, <2>2 DEF HistoryInv, HistoryTypeOK, historyVars
<1> QED
  BY <1>1, <1>2, <1>3

(* terminated + running + queued = scheduled at every point of             *)
(* server_progress, up to the threads a stop left in the queues, for any   *)
(* client and any number of stages, threads and processes, as long as      *)
(* on_idle is the default loop and no client code raises: the comment      *)
(* above type server.                                                      *)
THEOREM AccountingHolds ==
  ASSUME OnIdle = {"loop"}, ~MayRaise
  PROVE  HistorySpec => []Accounting
<1>1. HistorySpec => []HistoryInv
  BY HistoryInvInit, HistoryInductive, PTL DEF HistorySpec
<1>2. HistoryInv => Accounting
  BY DEF HistoryInv
<1> QED
  BY <1>1, <1>2, PTL

-----------------------------------------------------------------------------
(* ~procs: only schedule lengthens the running list, and only below procs. *)
(* That no other step makes Live grow is read off the accounting.          *)

LEMMA RunningInit == Init => MaxRunning
<1> SUFFICES ASSUME Init PROVE MaxRunning
  OBVIOUS
<1>1. Live = 0
  BY DEF Init, Live, Listed, InHand, Filtering
<1>2. PICK p \in Procs : p \in Nat
  BY ProcsAssumption
<1> QED
  BY <1>1, <1>2 DEF MaxRunning

LEMMA RunningStep ==
  ASSUME BaseInv, BaseInv', OnIdle = {"loop"}, ~MayRaise, MaxRunning, Next
  PROVE  MaxRunning'
<1> DEFINE size == Cardinality(Slots(queue))
<1>0. /\ queue \in [Stages -> Seq(Threads)]
      /\ running \in Seq(Threads)
      /\ procs \in Procs
      /\ Procs \subseteq Nat
      /\ terminated \in Nat
      /\ scheduled \in Nat
      /\ IsFiniteSet(Slots(queue))
      /\ depth \in Nat
      /\ depth > 0 => depth \in Depths
      /\ pc \in [Depths -> Labels]
      /\ stage \in [Depths -> -1 .. NStages]
  <2>1. ServerOK /\ FramesOK /\ IsFiniteSet(Slots(queue))
    BY DEF BaseInv, TypeInv
  <2>2. depth \in Nat /\ (depth > 0 => depth \in Depths)
    BY <2>1, BoundsAssumption DEF FramesOK, Depths
  <2>3. Procs \subseteq Nat
    BY ProcsAssumption
  <2> HIDE DEF size
  <2>4. queue \in [Stages -> Seq(Threads)] /\ running \in Seq(Threads) /\ procs \in Procs
    BY <2>1 DEF ServerOK
  <2>5. terminated \in Nat /\ scheduled \in Nat
    BY <2>1 DEF ServerOK
  <2>6. pc \in [Depths -> Labels] /\ stage \in [Depths -> -1 .. NStages]
    BY <2>1 DEF FramesOK
  <2> QED
    BY <2>1, <2>2, <2>3, <2>4, <2>5, <2>6, Zenon
<1>a. terminated' \in Nat /\ scheduled' \in Nat
  BY DEF BaseInv, TypeInv, ServerOK
<1>1. Live \in Nat /\ Live' \in Nat
  BY LiveType, LiveTypeNext DEF BaseInv
<1>2. /\ size \in Nat
      /\ size' \in Nat
      /\ ~FireStop => terminated' + Live' + size' + scheduled = terminated + Live + size + scheduled'
  <2>1. IsFiniteSet(Slots(queue)) /\ IsFiniteSet(Slots(queue))'
    BY DEF BaseInv
  <2>2. size \in Nat /\ size' \in Nat
    BY <2>1, FS_CardinalityType
  <2>3. PICK k \in Int : Balance(k)
    BY BalanceInt
  <2>4. ASSUME ~FireStop
        PROVE  terminated' + Live' + size' + scheduled = terminated + Live + size + scheduled'
    <3>1. Balance(k)'
      BY <2>3, <2>4, BalanceStep
    <3>2. terminated + Live + size = scheduled + k /\ terminated' + Live' + size' = scheduled' + k
      BY <2>3, <3>1 DEF Balance
    <3>3. scheduled \in Int /\ scheduled' \in Int
      BY <1>0, <1>a
    <3>4. ASSUME NEW x, NEW y, x = scheduled + k, y = scheduled' + k
          PROVE  y + scheduled = x + scheduled'
      BY <2>3, <3>3, <3>4
    <3> HIDE DEF size
    <3> QED
      BY <3>2, <3>4, Zenon
  <2> QED
    BY <2>2, <2>4
<1>3. ASSUME Live' <= Live PROVE MaxRunning'
  <2>1. PICK p \in Procs : Live <= p
    BY DEF MaxRunning
  <2>2. Live' <= p
    BY <1>0, <1>1, <1>3, <2>1
  <2> QED
    BY <2>2 DEF MaxRunning
<1>4. ASSUME ~FireStop, queue' = queue, scheduled' = scheduled, terminated' >= terminated
      PROVE  MaxRunning'
  <2>1. size' = size
    BY <1>4
  <2> HIDE DEF size
  <2>2. terminated' + Live' + size + scheduled = terminated + Live + size + scheduled
    BY <1>2, <1>4, <2>1
  <2>3. terminated \in Nat /\ size \in Nat
    BY <1>0, <1>2
  <2>4. Live' <= Live
    BY <1>0, <1>4, <1>a, <1>1, <2>2, <2>3, SumBound, Zenon
  <2> QED
    BY <1>3, <2>4
<1>5. ASSUME NEW t \in Threads, NEW s \in Stages, Spawn(t, s) PROVE MaxRunning'
  <2>1. Live' = Live
    BY <1>5 DEF Spawn, Live, Listed, InHand, Filtering, frameVars, Enqueue
  <2> QED
    BY <1>1, <1>3, <2>1
<1>6. CASE TakeBodyless
  <2>1. /\ stage[depth] \in Stages
        /\ queue[stage[depth]] # <<>>
        /\ pc' = pc /\ depth' = depth /\ stage' = stage
        /\ depth \in Depths /\ pc[depth] = "schedule"
        /\ Len(running) < procs
    BY <1>0, <1>6 DEF TakeBodyless, Sweeping, CanTake, frameVars
  <2>2. Live' = Len(running')
    <3>1. ~Filtering' /\ InHand' = 0
      BY <2>1, CountPrimed DEF Filtering
    <3>2. Len(running') \in Nat
      BY DEF BaseInv, TypeInv, ServerOK
    <3> QED
      BY <3>1, <3>2, CountPrimed
  <2>3. Len(running') <= Len(running) + 1 /\ Len(running') \in Nat
    <3>1. CASE lock[Taken]
      <4>1. running' = <<Taken>> \o running /\ queue[stage[depth]] \in Seq(Threads)
        BY <1>0, <1>6, <2>1, <3>1 DEF TakeBodyless, RunWith
      <4>2. Taken \in Threads
        BY <2>1, <4>1 DEF Taken
      <4> QED
        BY <1>0, <4>1, <4>2
    <3>2. CASE ~lock[Taken]
      BY <1>0, <1>6, <3>2 DEF TakeBodyless
    <3> QED
      BY <3>1, <3>2
  <2>4. Len(running) \in Nat /\ procs \in Nat
    BY <1>0
  <2>5. Live' <= procs
    BY <2>1, <2>2, <2>3, <2>4
  <2> QED
    BY <1>0, <2>5 DEF MaxRunning
<1>7. CASE TakeBody
  <2>1. /\ depth \in Depths
        /\ depth > 0
        /\ depth' = depth
        /\ running' = running
        /\ pc'[depth] = "body"
        /\ stage'[depth] # -1
        /\ Len(running) < procs
    BY <1>0, <1>7 DEF TakeBody, Enter, Sweeping, CanTake, Stages
  <2>2. ~Filtering'
    BY <2>1 DEF Filtering
  <2>3. Live' = Len(running) + 1
    BY <2>1, <2>2, CountPrimed
  <2>4. Len(running) \in Nat /\ procs \in Nat
    BY <1>0
  <2>5. Live' <= procs
    BY <2>1, <2>3, <2>4
  <2> QED
    BY <1>0, <2>5 DEF MaxRunning
<1>8. CASE FireStop
  <2>1. depth \in Depths /\ depth' = depth /\ running' = <<>> /\ pc'[depth] = "stop"
    BY <1>0, <1>8 DEF FireStop, AtDecision
  <2>2. ~Filtering' /\ InHand' = 0
    BY <2>1, CountPrimed DEF Filtering
  <2>3. Live' = 0
    BY <2>1, <2>2, CountPrimed
  <2> QED
    BY <1>1, <1>3, <2>3
<1>9. CASE /\ ~FireStop
           /\ \/ \E p \in Procs : SetProcs(p)
              \/ \E S \in SUBSET Threads : CancelAll(S)
              \/ Launch \/ FireDaemon \/ StartLoop \/ StartDaemon
              \/ FilterLocked \/ FilterBody \/ FilterEnd \/ SweepNext \/ SweepEnd
              \/ Continue \/ FireWait \/ WaitEnd \/ Wake \/ StopEnd \/ Raise
  <2>1. UNCHANGED <<queue, scheduled, terminated>>
    BY <1>9 DEF SetProcs, CancelAll, Launch, MustLaunch, FireDaemon, StartLoop, StartDaemon,
       FilterLocked, FilterBody, HasBody, FilterEnd, SweepNext, SweepEnd, Continue, FireWait, WaitEnd,
       Wake, StopEnd, Raise, serverVars
  <2> QED
    BY <1>0, <1>4, <1>9, <2>1
<1>10. CASE ~FireStop /\ (FilterFinished \/ BodyKept \/ BodyDone)
  <2>1. /\ UNCHANGED <<queue, scheduled>>
        /\ terminated' \in {terminated, terminated + 1}
    BY <1>10 DEF FilterFinished, BodyKept, BodyDone, Return, CountDone
  <2>2. terminated' >= terminated
    BY <1>0, <2>1
  <2> QED
    BY <1>4, <1>10, <2>1, <2>2
<1> QED
  BY <1>5, <1>6, <1>7, <1>8, <1>9, <1>10 DEF Next, Client, Server, Body

(* ~procs is the maximum number of running tasks (task.mli), counting the  *)
(* thread in progress, even while set_procs changes it: under the          *)
(* assumptions of the accounting.                                          *)
THEOREM MaxRunningHolds ==
  ASSUME OnIdle = {"loop"}, ~MayRaise
  PROVE  Spec => []MaxRunning
<1>1. Spec => []BaseInv
  BY BaseInit, BaseInductive, PTL DEF Spec
<1>2. BaseInv /\ BaseInv' /\ MaxRunning /\ [Next]_vars => MaxRunning'
  <2>1. ASSUME MaxRunning, UNCHANGED vars PROVE MaxRunning'
    BY <2>1 DEF vars, serverVars, frameVars, MaxRunning, Live, Listed, InHand, Filtering
  <2> QED
    BY <2>1, RunningStep
<1> QED
  BY <1>1, <1>2, RunningInit, PTL DEF Spec

-----------------------------------------------------------------------------
(* The order of the stages.  A sweep goes past a queue that is not empty   *)
(* only because procs threads run, and nothing frees one before its end:   *)
(* set_procs is client code, which runs in a body, where a place was free. *)
(* So what a queue holds behind a body was spawned after the sweep passed, *)
(* and when nothing runs at the end, every queue was emptied on the way.   *)

PassedLate == \A r \in Stages : r < stage[depth] => OnlyLate(r)

OrderInv ==
  depth > 0 =>
    /\ pc[depth] = "schedule" => PassedLate \/ Len(running) >= procs
    /\ pc[depth] = "body" => PassedLate
    /\ pc[depth] = "yield" => stage[depth] = NStages /\ (PassedLate \/ running # <<>>)

(* Being late is only forgotten when a sweep begins.                       *)
LEMMA LateGrows ==
  ASSUME HistoryNext, ~FilterEnd
  PROVE  late \subseteq late'
  BY DEF HistoryNext

LEMMA LateKept ==
  ASSUME late \subseteq late', NEW r \in Stages, queue'[r] = queue[r], OnlyLate(r)
  PROVE  OnlyLate(r)'
  BY DEF OnlyLate

LEMMA LateTail ==
  ASSUME queue \in [Stages -> Seq(Threads)], late \subseteq late', NEW r \in Stages,
         queue[r] # <<>>, queue'[r] = Tail(queue[r]), OnlyLate(r)
  PROVE  OnlyLate(r)'
<1>1. Len(Tail(queue[r])) = Len(queue[r]) - 1 /\ Len(queue[r]) \in Nat
  OBVIOUS
<1>2. \A i \in 1 .. Len(Tail(queue[r])) : Tail(queue[r])[i] = queue[r][i + 1] /\ i + 1 \in 1 .. Len(queue[r])
  BY <1>1
<1> QED
  BY <1>2 DEF OnlyLate

(* A thread spawned on a stage that was passed is late.                    *)
LEMMA LateSpawned ==
  ASSUME queue \in [Stages -> Seq(Threads)], HistoryNext, ~FilterEnd, depth > 0,
         NEW t \in Threads, NEW s \in Stages, Spawn(t, s), s < stage[depth], OnlyLate(s)
  PROVE  OnlyLate(s)'
<1>1. t \in late' /\ late \subseteq late'
  BY LateGrows DEF HistoryNext, LateSpawns
<1>2. queue'[s] = Append(queue[s], t)
  BY DEF Spawn, Enqueue
<1>3. /\ Len(queue[s]) \in Nat /\ Len(queue'[s]) = Len(queue[s]) + 1
      /\ queue'[s][Len(queue[s]) + 1] = t
      /\ \A i \in 1 .. Len(queue[s]) : queue'[s][i] = queue[s][i]
  BY <1>2
<1> SUFFICES ASSUME NEW i \in 1 .. Len(queue'[s]) PROVE queue'[s][i] \in late'
  BY DEF OnlyLate
<1>4. i \in 1 .. Len(queue[s]) \/ i = Len(queue[s]) + 1
  BY <1>3
<1> QED
  BY <1>1, <1>3, <1>4 DEF OnlyLate

LEMMA OrderStep ==
  ASSUME BaseInv, OnIdle = {"loop"}, ~MayRaise, OrderInv, HistoryNext
  PROVE  OrderInv'
<1>0. /\ Next
      /\ depth \in Nat
      /\ depth > 0 => depth \in Depths
      /\ \A d \in Depths : d \in Nat \ {0}
      /\ pc \in [Depths -> Labels]
      /\ stage \in [Depths -> -1 .. NStages]
      /\ queue \in [Stages -> Seq(Threads)]
      /\ running \in Seq(Threads)
      /\ Len(running) \in Nat
      /\ procs \in Nat \ {0}
      /\ \A s \in Stages : s \in 0 .. NStages - 1
      /\ NStages \in Nat
      /\ NestedOnlyInStop
      /\ PhaseLists
  <2>1. TypeInv /\ NestedOnlyInStop /\ PhaseLists /\ Next
    BY HistorySteps DEF BaseInv
  <2>2. depth > 0 => depth \in Depths
    BY <2>1, ActiveDepth DEF TypeInv
  <2>3. /\ depth \in Nat
        /\ \A d \in Depths : d \in Nat \ {0}
        /\ \A s \in Stages : s \in 0 .. NStages - 1
        /\ NStages \in Nat
    BY <2>1, BoundsAssumption, NStagesAssumption DEF TypeInv, FramesOK, Depths, Stages
  <2>4. /\ pc \in [Depths -> Labels]
        /\ stage \in [Depths -> -1 .. NStages]
        /\ queue \in [Stages -> Seq(Threads)]
        /\ running \in Seq(Threads)
    BY <2>1 DEF TypeInv, FramesOK, ServerOK
  <2>5. Len(running) \in Nat /\ procs \in Nat \ {0}
    BY <2>1, ProcsAssumption DEF TypeInv, ServerOK
  <2> QED
    BY <2>1, <2>2, <2>3, <2>4, <2>5
<1>1. ASSUME depth' > 0 => pc'[depth'] \notin {"schedule", "body", "yield"} PROVE OrderInv'
  BY <1>1 DEF OrderInv
<1>a. ASSUME ~FilterEnd, UNCHANGED <<queue, depth, stage>>, PassedLate PROVE PassedLate'
  BY <1>a, LateGrows, LateKept DEF PassedLate
<1>2. ASSUME NEW t \in Threads, NEW s \in Stages, Spawn(t, s) PROVE OrderInv'
  <2>1. /\ pc' = pc /\ depth' = depth /\ stage' = stage /\ running' = running
        /\ depth > 0 => pc[depth] \notin {"schedule", "filter"}
        /\ \A r \in Stages : r # s => queue'[r] = queue[r]
    BY <1>0, <1>2 DEF Spawn, ClientRuns, ClientLabels, frameVars, Enqueue
  <2>2. ASSUME depth > 0, PassedLate PROVE PassedLate'
    <3>1. ~FilterEnd
      BY <2>1, <2>2 DEF FilterEnd
    <3>2. ASSUME NEW r \in Stages, r < stage[depth] PROVE OnlyLate(r)'
      <4>1. OnlyLate(r)
        BY <2>2, <3>2 DEF PassedLate
      <4>2. CASE r = s
        BY <1>0, <1>2, <2>2, <3>1, <3>2, <4>1, <4>2, LateSpawned
      <4>3. CASE r # s
        BY <2>1, <3>1, <4>1, <4>3, LateGrows, LateKept
      <4> QED
        BY <4>2, <4>3
    <3> QED
      BY <2>1, <3>2 DEF PassedLate
  <2> QED
    BY <1>0, <2>1, <2>2 DEF OrderInv
<1>3. ASSUME \/ \E p \in Procs : SetProcs(p)
             \/ \E S \in SUBSET Threads : CancelAll(S)
      PROVE  OrderInv'
  <2>1. /\ UNCHANGED <<queue, depth, pc, stage, running>>
        /\ depth > 0 => pc[depth] \notin {"schedule", "filter"}
    BY <1>3 DEF SetProcs, CancelAll, ClientRuns, ClientLabels, serverVars, frameVars
  <2>2. depth > 0 => ~FilterEnd
    BY <2>1 DEF FilterEnd
  <2> QED
    BY <1>a, <2>1, <2>2 DEF OrderInv
<1>4. CASE Launch
  <2>1. depth' = depth + 1 /\ depth + 1 \in Depths /\ pc'[depth + 1] = "start"
    BY <1>0, <1>4, BoundsAssumption DEF Launch, Push, Depths, MustLaunch
  <2> QED
    BY <1>1, <2>1
<1>5. CASE FireDaemon \/ StartDaemon \/ Raise
  BY <1>0, <1>5 DEF FireDaemon, StartDaemon, Raise, NestedOnlyInStop, Unlock
<1>6. CASE StartLoop \/ FilterLocked \/ FilterFinished \/ FireWait \/ Wake \/ FireStop
  <2>1. depth' = depth /\ depth \in Depths
        /\ pc'[depth] \in {"filter", "waitcb", "stop"}
    BY <1>0, <1>6 DEF StartLoop, FilterLocked, FilterFinished, InFilter, FireWait, AtDecision,
       Wake, FireStop
  <2> QED
    BY <1>1, <2>1
<1>7. CASE FilterBody
  <2>1. depth' = depth /\ stage' = stage /\ stage[depth] = -1 /\ depth \in Depths
        /\ pc'[depth] = "body"
    BY <1>0, <1>7 DEF FilterBody, Enter, InFilter, HasBody, PhaseLists
  <2> QED
    BY <1>0, <2>1 DEF OrderInv, PassedLate
<1>8. CASE FilterEnd
  <2>1. depth' = depth /\ stage'[depth] = 0 /\ depth \in Depths /\ pc'[depth] = "schedule"
    BY <1>0, <1>8 DEF FilterEnd, FirstStage
  <2> QED
    BY <1>0, <2>1 DEF OrderInv, PassedLate
<1>9. CASE SweepNext
  <2>1. /\ UNCHANGED <<queue, running, procs, pc, depth>>
        /\ depth > 0 /\ pc[depth] = "schedule" /\ stage[depth] \in Stages
        /\ stage'[depth] = stage[depth] + 1
        /\ Len(running) >= procs \/ queue[stage[depth]] = <<>>
        /\ ~FilterEnd
    BY <1>0, <1>9 DEF SweepNext, Sweeping, CanTake, serverVars, FilterEnd
  <2>2. ASSUME PassedLate, queue[stage[depth]] = <<>> PROVE PassedLate'
    <3>1. OnlyLate(stage[depth])
      BY <2>1, <2>2 DEF OnlyLate
    <3>2. \A r \in Stages : r < stage[depth] + 1 => OnlyLate(r)
      BY <1>0, <2>1, <2>2, <3>1 DEF PassedLate
    <3>3. \A r \in Stages : OnlyLate(r) => OnlyLate(r)'
      BY <2>1, LateGrows, LateKept
    <3> QED
      BY <2>1, <3>2, <3>3 DEF PassedLate
  <2> QED
    BY <2>1, <2>2 DEF OrderInv
<1>10. CASE TakeBodyless \/ TakeBody
  <2>1. /\ UNCHANGED <<stage, depth>> /\ depth > 0 /\ pc[depth] = "schedule"
        /\ pc'[depth] \in {"schedule", "body"}
        /\ stage[depth] \in Stages /\ Len(running) < procs
        /\ \A r \in Stages : r # stage[depth] => queue'[r] = queue[r]
        /\ ~FilterEnd
    BY <1>0, <1>10 DEF TakeBodyless, TakeBody, Enter, Sweeping, CanTake, Take, frameVars, FilterEnd
  <2>2. PassedLate
    BY <1>0, <2>1 DEF OrderInv
  <2>3. PassedLate'
    <3> SUFFICES ASSUME NEW r \in Stages, r < stage[depth] PROVE OnlyLate(r)'
      BY <2>1 DEF PassedLate
    <3>1. OnlyLate(r) /\ queue'[r] = queue[r]
      BY <1>0, <2>1, <2>2 DEF PassedLate
    <3> QED
      BY <2>1, <3>1, LateGrows, LateKept
  <2> QED
    BY <2>1, <2>3 DEF OrderInv
<1>11. CASE SweepEnd
  <2>1. /\ UNCHANGED <<queue, running, depth, stage>>
        /\ depth > 0 /\ pc[depth] = "schedule" /\ pc'[depth] = "yield"
        /\ stage[depth] = NStages
        /\ ~FilterEnd
    BY <1>0, <1>11 DEF SweepEnd, serverVars, FilterEnd
  <2>2. Len(running) >= procs => running # <<>>
    <3>1. Len(<<>>) = 0
      OBVIOUS
    <3> QED
      BY <1>0, <3>1
  <2> QED
    BY <1>a, <2>1, <2>2 DEF OrderInv
<1>12. CASE BodyKept \/ BodyDone
  <2>1. /\ UNCHANGED <<queue, depth, stage>> /\ depth > 0 /\ pc[depth] = "body"
        /\ pc'[depth] \in {"filter", "schedule"} /\ ~FilterEnd
    BY <1>0, <1>12 DEF BodyKept, BodyDone, Return, FilterEnd
  <2>2. PassedLate'
    BY <1>a, <2>1 DEF OrderInv
  <2> QED
    BY <2>1, <2>2 DEF OrderInv
<1>13. CASE Continue \/ WaitEnd
  <2>1. via[depth] = 0 /\ depth > 0
    BY <1>0, <1>13 DEF Continue, WaitEnd, AtDecision, NestedOnlyInStop
  <2>2. depth' = depth /\ pc'[depth] = "sleep"
    BY <1>0, <1>13, <2>1 DEF Continue, WaitEnd, ReturnTrue
  <2> QED
    BY <1>1, <2>2
<1>14. CASE StopEnd
  <2>1. depth' = depth - 1 /\ depth \in Depths
    BY <1>0, <1>14 DEF StopEnd, Pop
  <2>2. depth - 1 > 0 => depth - 1 \in Depths /\ depth - 1 < depth
    BY <2>1, BoundsAssumption DEF Depths
  <2>3. depth' > 0 => pc'[depth'] = "stop"
    BY <1>0, <1>14, <2>1, <2>2 DEF StopEnd, Pop, NestedOnlyInStop
  <2> QED
    BY <1>1, <2>3
<1> QED
  BY <1>0, <1>2, <1>3, <1>4, <1>5, <1>6, <1>7, <1>8, <1>9, <1>10, <1>11, <1>12, <1>13, <1>14
  DEF Next, Client, Server, Body

LEMMA OrderInductive ==
  ASSUME OnIdle = {"loop"}, ~MayRaise
  PROVE  HistoryInv /\ OrderInv /\ [HistoryNext]_<<vars, historyVars>> => OrderInv'
<1>1. ASSUME OrderInv, UNCHANGED <<vars, historyVars>> PROVE OrderInv'
  BY <1>1 DEF vars, historyVars, serverVars, frameVars, OrderInv, PassedLate, OnlyLate
<1> QED
  BY <1>1, OrderStep DEF HistoryInv

LEMMA OrderInit == HistoryInit => OrderInv
  BY DEF HistoryInit, Init, OrderInv

LEMMA OrderOfTakes ==
  ASSUME BaseInv, OrderInv, [Next]_vars,
         NEW s \in Stages, Len(queue'[s]) < Len(queue[s]), NEW r \in Stages, r < s
  PROVE  OnlyLate(r)
<1>0. /\ queue \in [Stages -> Seq(Threads)]
      /\ Len(running) \in Nat
      /\ procs \in Nat
  BY ProcsAssumption DEF BaseInv, TypeInv, ServerOK
<1>1. queue' # queue
  BY <1>0
<1>2. CASE TakeBodyless \/ TakeBody
  <2>1. /\ depth > 0 /\ pc[depth] = "schedule" /\ stage[depth] \in Stages /\ Len(running) < procs
        /\ \A q \in Stages : q # stage[depth] => queue'[q] = queue[q]
    BY <1>0, <1>2 DEF TakeBodyless, TakeBody, Sweeping, CanTake, Take
  <2>2. s = stage[depth]
    BY <1>0, <2>1
  <2>3. PassedLate
    BY <1>0, <2>1 DEF OrderInv
  <2> QED
    BY <2>2, <2>3 DEF PassedLate
<1>3. ASSUME NEW t \in Threads, NEW q \in Stages, Spawn(t, q) PROVE FALSE
  <2>1. queue' = [queue EXCEPT ![q] = Append(@, t)]
    BY <1>3 DEF Spawn, Enqueue
  <2>2. Len(queue[s]) \in Nat /\ Len(Append(queue[s], t)) = Len(queue[s]) + 1
    BY <1>0
  <2>3. queue'[s] = queue[s] \/ queue'[s] = Append(queue[s], t)
    BY <1>0, <2>1
  <2> QED
    BY <2>2, <2>3
<1>4. ASSUME \/ \E p \in Procs : SetProcs(p)
             \/ \E S \in SUBSET Threads : CancelAll(S)
             \/ Launch \/ FireDaemon \/ StartLoop \/ StartDaemon
             \/ FilterLocked \/ FilterFinished \/ FilterBody \/ FilterEnd \/ SweepNext \/ SweepEnd
             \/ BodyKept \/ BodyDone
             \/ Continue \/ FireWait \/ WaitEnd \/ Wake \/ FireStop \/ StopEnd \/ Raise
             \/ UNCHANGED vars
      PROVE  FALSE
  BY <1>1, <1>4 DEF SetProcs, CancelAll, Launch, FireDaemon, StartLoop, StartDaemon, FilterLocked,
     FilterFinished, FilterBody, FilterEnd, SweepNext, SweepEnd, BodyKept, BodyDone, Return,
     Continue, FireWait, WaitEnd, Wake, FireStop, StopEnd, Raise, serverVars, vars
<1> QED
  BY <1>2, <1>3, <1>4 DEF Next, Client, Server, Body

(* StageOrder (schedule), for any client: when a thread leaves its queue,  *)
(* the threads that wait in the queues of the stages before were all       *)
(* spawned behind the sweep, however the bodies spawn and procs changes.   *)
THEOREM StageOrderHolds ==
  ASSUME OnIdle = {"loop"}, ~MayRaise
  PROVE  HistorySpec => StageOrder
<1>1. HistorySpec => []HistoryInv
  BY HistoryInvInit, HistoryInductive, PTL DEF HistorySpec
<1>2. HistoryInv /\ OrderInv /\ [HistoryNext]_<<vars, historyVars>> =>
        [\A s \in Stages : Len(queue'[s]) < Len(queue[s]) =>
           \A r \in Stages : r < s => OnlyLate(r)]_<<vars, historyVars>>
  <2> SUFFICES ASSUME HistoryInv, OrderInv, [HistoryNext]_<<vars, historyVars>>,
                      NEW s \in Stages, Len(queue'[s]) < Len(queue[s]),
                      NEW r \in Stages, r < s
               PROVE  OnlyLate(r)
    OBVIOUS
  <2>1. [Next]_vars
    BY HistorySteps
  <2> QED
    BY <2>1, OrderOfTakes DEF HistoryInv
<1> QED
  BY <1>1, <1>2, OrderInit, OrderInductive, PTL DEF HistorySpec, StageOrder

(* For any client, a stop leaves in the queues only threads spawned behind *)
(* the last sweep, and whatever else waits in a queue when no activation   *)
(* is in progress, launch starts the server for it.                        *)
THEOREM NoneStrandedHolds ==
  ASSUME OnIdle = {"loop"}, ~MayRaise
  PROVE  HistorySpec => []NoneStranded
<1>1. HistorySpec => []HistoryInv
  BY HistoryInvInit, HistoryInductive, PTL DEF HistorySpec
<1>2. HistoryInv /\ OrderInv => NoneStranded
  <2> SUFFICES ASSUME HistoryInv, OrderInv PROVE NoneStranded
    OBVIOUS
  <2>1. ASSUME AtDecision, running = <<>> PROVE \A s \in Stages : OnlyLate(s)
    <3>1. depth > 0 /\ stage[depth] = NStages /\ PassedLate
      BY <2>1 DEF AtDecision, OrderInv
    <3>2. \A s \in Stages : s < NStages
      BY NStagesAssumption DEF Stages
    <3> QED
      BY <3>1, <3>2 DEF PassedLate
  <2>2. ASSUME depth = 0, Cardinality(Slots(queue)) > Cardinality(Slots(left))
        PROVE  ~launched /\ scheduled > terminated
    <3>1. ~launched
      BY <2>2 DEF HistoryInv, BaseInv, NestedOnlyInStop
    <3>2. /\ terminated \in Nat /\ scheduled \in Nat
          /\ Cardinality(Slots(queue)) \in Nat /\ Cardinality(Slots(left)) \in Nat
      BY FS_CardinalityType DEF HistoryInv, BaseInv, TypeInv, ServerOK
    <3>3. Live = Len(running) /\ Len(running) \in Nat
      BY <2>2, LiveCases DEF HistoryInv, BaseInv, Live, Filtering
    <3>4. terminated + Len(running) + Cardinality(Slots(queue)) = scheduled + Cardinality(Slots(left))
      BY <3>3 DEF HistoryInv, Accounting
    <3> QED
      BY <2>2, <3>1, <3>2, <3>3, <3>4
  <2> QED
    BY <2>1, <2>2 DEF NoneStranded
<1> QED
  BY <1>1, <1>2, OrderInit, OrderInductive, PTL DEF HistorySpec

-----------------------------------------------------------------------------
(* The lock of a thread, whatever the mode.  schedule makes the thread it  *)
(* has just taken from a queue progress: that this one is not locked       *)
(* already depends on where the activations hold the threads, so the       *)
(* induction follows them through the queues and the lists.                *)

(* Where a thread waits, and where it is once it has left its queue. *)
Queued(t) == \E s \in Stages : InList(t, queue[s])

Held(t) == \/ InList(t, running)
           \/ \E d \in Depths : InList(t, todo[d]) \/ InList(t, kept[d]) \/ cur[d] = t

(* A spawned thread waits at one place of one queue until it leaves it for good. *)
QueuedOnce ==
    \A s, r \in Stages : \A i \in 1 .. Len(queue[s]), j \in 1 .. Len(queue[r]) :
       queue[s][i] = queue[r][j] => s = r /\ i = j

QueueInv ==
    /\ \A t \in Threads : Queued(t) \/ Held(t) => t \in spawned
    /\ \A t \in Threads : Queued(t) => ~Held(t)
    /\ QueuedOnce

(* An activation has a current thread only while it runs its body. *)
CurInv == \A d \in Depths : cur[d] # NoThread => pc[d] = "body" /\ d <= depth

LockInv == TypeInv /\ QueueInv /\ CurInv /\ LockExclusive

-----------------------------------------------------------------------------
(* Membership in the lists that List.filter and schedule build. *)

LEMMA InAppend ==
  ASSUME NEW l \in Seq(Threads), NEW x \in Threads, NEW t
  PROVE  InList(t, Append(l, x)) <=> InList(t, l) \/ t = x
<1>1. /\ Len(l) \in Nat /\ Len(Append(l, x)) = Len(l) + 1
      /\ \A i \in 1 .. Len(l) : Append(l, x)[i] = l[i]
      /\ Append(l, x)[Len(l) + 1] = x
  OBVIOUS
<1>2. \A i : i \in 1 .. Len(l) + 1 <=> i \in 1 .. Len(l) \/ i = Len(l) + 1
  BY <1>1
<1> QED
  BY <1>1, <1>2 DEF InList

LEMMA InTail ==
  ASSUME NEW l \in Seq(Threads), l # <<>>, NEW t
  PROVE  /\ InList(t, Tail(l)) => InList(t, l)
         /\ InList(Head(l), l)
<1>1. InList(Head(l), l)
  BY DEF InList
<1>2. InList(t, Tail(l)) => InList(t, l)
  <2> SUFFICES ASSUME NEW i \in 1 .. Len(Tail(l)), Tail(l)[i] = t PROVE InList(t, l)
    BY DEF InList
  <2>1. i + 1 \in 1 .. Len(l) /\ l[i + 1] = t
    OBVIOUS
  <2> QED
    BY <2>1 DEF InList
<1> QED
  BY <1>1, <1>2

LEMMA InCons ==
  ASSUME NEW l \in Seq(Threads), NEW x \in Threads, NEW t
  PROVE  InList(t, <<x>> \o l) => InList(t, l) \/ t = x
<1> SUFFICES ASSUME NEW i \in 1 .. Len(<<x>> \o l), (<<x>> \o l)[i] = t
             PROVE  InList(t, l) \/ t = x
  BY DEF InList
<1>1. CASE i = 1
  BY <1>1
<1>2. CASE i # 1
  <2>1. i - 1 \in 1 .. Len(l) /\ l[i - 1] = t
    BY <1>2
  <2> QED
    BY <2>1 DEF InList
<1> QED
  BY <1>1, <1>2

LEMMA InEmpty == ASSUME NEW t PROVE ~InList(t, <<>>)
  BY DEF InList

-----------------------------------------------------------------------------
(* A thread becomes held by leaving a queue, and no other way. *)

LEMMA PopHeld == ASSUME TypeInv, depth > 0, Pop, UNCHANGED running, NEW t \in Threads, Held(t)'
                 PROVE  Held(t)
  BY InEmpty, ActiveDepth, ThreadsAssumption DEF Pop, Held, TypeInv, FramesOK

LEMMA PushHeld ==
  ASSUME TypeInv, NEW l \in Labels, NEW list, NEW d, Push(l, list, d), UNCHANGED running,
         \A u : InList(u, list) => InList(u, running),
         NEW t \in Threads, Held(t)'
  PROVE  Held(t)
  BY DEF Push, Held, TypeInv, FramesOK

LEMMA HeldStep ==
  ASSUME TypeInv, Next, NEW t \in Threads, Held(t)'
  PROVE  Held(t) \/ (Sweeping /\ CanTake /\ Take /\ t = Taken)
<1>0. /\ depth > 0 => depth \in Depths
      /\ running \in Seq(Threads)
      /\ todo \in [Depths -> Seq(Threads)] /\ kept \in [Depths -> Seq(Threads)]
      /\ cur \in [Depths -> Threads \union {NoThread}]
      /\ \A d \in Depths : pc[d] = "body" => cur[d] \in Threads
      /\ t # NoThread
  BY ActiveDepth, ThreadsAssumption DEF TypeInv, FramesOK, ServerOK
<1> USE <1>0
<1>1. ASSUME UNCHANGED <<running, todo, kept, cur>> PROVE Held(t)
  BY <1>1 DEF Held
<1>2. CASE Client
  <2>1. ASSUME Launch PROVE Held(t)
    BY <2>1, PushHeld, InEmpty DEF Launch, Labels
  <2>2. ASSUME FireDaemon PROVE Held(t)
    BY <2>2, PushHeld DEF FireDaemon, Labels, serverVars
  <2> QED
    BY <1>1, <1>2, <2>1, <2>2 DEF Client, Spawn, SetProcs, CancelAll, frameVars, serverVars
<1>3. CASE StartLoop \/ Wake
  BY <1>3 DEF StartLoop, Wake, Held, serverVars
<1>4. CASE StartDaemon \/ StopEnd
  BY <1>4, PopHeld DEF StartDaemon, StopEnd, serverVars
<1>5. CASE Raise
  BY <1>5, PopHeld DEF Raise, serverVars
<1>6. CASE Continue \/ WaitEnd
  <2>1. UNCHANGED running /\ depth > 0 /\ ReturnTrue
    BY <1>6 DEF Continue, WaitEnd, AtDecision, serverVars
  <2> QED
    BY <2>1, <1>1, PopHeld DEF ReturnTrue
<1>7. CASE SweepNext \/ SweepEnd \/ FireWait \/ FireStop
  BY <1>1, <1>7 DEF SweepNext, SweepEnd, FireWait, FireStop, serverVars, frameVars
<1>8. ASSUME InFilter
      PROVE  /\ depth \in Depths
             /\ Head(todo[depth]) \in Threads
             /\ InList(Head(todo[depth]), todo[depth])
             /\ \A u : InList(u, Tail(todo[depth])) => InList(u, todo[depth])
             /\ \A u : InList(u, Append(kept[depth], Head(todo[depth]))) =>
                         InList(u, kept[depth]) \/ u = Head(todo[depth])
  <2>1. depth \in Depths /\ todo[depth] \in Seq(Threads) /\ todo[depth] # <<>>
        /\ kept[depth] \in Seq(Threads)
    BY <1>8 DEF InFilter
  <2>2. Head(todo[depth]) \in Threads
    BY <2>1
  <2> QED
    BY <2>1, <2>2, InTail, InAppend
<1>9. CASE FilterLocked
  BY <1>8, <1>9 DEF FilterLocked, Held, serverVars
<1>10. CASE FilterFinished
  BY <1>8, <1>10 DEF FilterFinished, Held
<1>11. CASE FilterBody
  BY <1>8, <1>11 DEF FilterBody, Enter, Held, serverVars
<1>12. CASE FilterEnd
  BY <1>12, InEmpty DEF FilterEnd, Held
<1>13. CASE TakeBody
  BY <1>13 DEF TakeBody, Enter, Held
<1>16. CASE TakeBodyless
  <2>1. Sweeping /\ CanTake /\ Take /\ UNCHANGED <<todo, kept, cur>>
    BY <1>16 DEF TakeBodyless, frameVars
  <2>2. Taken \in Threads
    <3>1. queue[stage[depth]] \in Seq(Threads) /\ queue[stage[depth]] # <<>>
      BY <2>1 DEF TypeInv, ServerOK, Sweeping, CanTake
    <3> QED
      BY <3>1 DEF Taken
  <2>3. running' = running \/ running' = <<Taken>> \o running
    BY <1>16 DEF TakeBodyless, RunWith
  <2>4. InList(t, running') => InList(t, running) \/ t = Taken
    BY <2>2, <2>3, InCons
  <2> QED
    BY <2>1, <2>4 DEF Held
<1>14. CASE BodyKept
  <2>1. depth \in Depths /\ cur[depth] \in Threads /\ kept[depth] \in Seq(Threads)
    BY <1>14 DEF BodyKept, Return
  <2>2. \A u : InList(u, Append(kept[depth], cur[depth])) => InList(u, kept[depth]) \/ u = cur[depth]
    BY <2>1, InAppend
  <2>3. \A u : InList(u, <<cur[depth]>> \o running) => InList(u, running) \/ u = cur[depth]
    BY <2>1, InCons
  <2> QED
    BY <1>14, <2>1, <2>2, <2>3 DEF BodyKept, Return, RunWith, Held
<1>15. CASE BodyDone
  BY <1>15 DEF BodyDone, Return, Held
<1> QED
  BY <1>2, <1>3, <1>4, <1>5, <1>6, <1>7, <1>9, <1>10, <1>11, <1>12, <1>13, <1>14, <1>15, <1>16
  DEF Next, Server, Body

-----------------------------------------------------------------------------
(* The queues change by spawn and by the sweep only. *)

LEMMA QueueCases ==
  ASSUME Next
  PROVE  \/ UNCHANGED <<queue, spawned>>
         \/ \E t \in Threads, s \in Stages : Spawn(t, s)
         \/ Sweeping /\ CanTake /\ Take /\ UNCHANGED spawned
  BY DEF Next, Client, Server, Body, SetProcs, CancelAll, Launch, FireDaemon, StartLoop, StartDaemon,
         FilterLocked, FilterFinished, FilterBody, FilterEnd, SweepNext, TakeBodyless, TakeBody,
         SweepEnd, BodyKept, BodyDone, Return, Continue, FireWait, WaitEnd, Wake, FireStop, StopEnd,
         Raise, Enter, serverVars, threadVars

LEMMA SpawnQueue ==
  ASSUME TypeInv, QueueInv, NEW t \in Threads, NEW s \in Stages, Spawn(t, s)
  PROVE  /\ \A u \in Threads : Queued(u)' => Queued(u) \/ u = t
         /\ QueuedOnce'
<1>1. queue \in [Stages -> Seq(Threads)]
  BY DEF TypeInv, ServerOK
<1>2. queue' = [queue EXCEPT ![s] = Append(queue[s], t)] /\ t \notin spawned
  BY DEF Spawn, Enqueue
<1>3. \A r \in Stages : queue'[r] = IF r = s THEN Append(queue[s], t) ELSE queue[r]
  BY <1>1, <1>2
<1>4. \A u \in Threads : Queued(u)' => Queued(u) \/ u = t
  BY <1>1, <1>3, InAppend DEF Queued
<1>5. \A r \in Stages : \A i \in 1 .. Len(queue[r]) : queue[r][i] # t
  BY <1>2 DEF QueueInv, Queued, InList
<1>6. \A r \in Stages : \A i \in 1 .. Len(queue'[r]) :
         \/ i \in 1 .. Len(queue[r]) /\ queue'[r][i] = queue[r][i]
         \/ r = s /\ i = Len(queue[s]) + 1 /\ queue'[r][i] = t
  <2> SUFFICES ASSUME NEW r \in Stages, NEW i \in 1 .. Len(queue'[r])
               PROVE  \/ i \in 1 .. Len(queue[r]) /\ queue'[r][i] = queue[r][i]
                      \/ r = s /\ i = Len(queue[s]) + 1 /\ queue'[r][i] = t
    OBVIOUS
  <2>1. queue[r] \in Seq(Threads)
    BY <1>1
  <2>2. CASE r = s
    <3>1. queue'[r] = Append(queue[s], t) /\ queue[s] \in Seq(Threads)
      BY <1>3, <2>1, <2>2
    <3>2. i \in 1 .. Len(queue[s]) + 1
      BY <3>1
    <3>3. CASE i = Len(queue[s]) + 1
      BY <2>2, <3>1, <3>3
    <3>4. CASE i \in 1 .. Len(queue[s])
      BY <2>2, <3>1, <3>4
    <3> QED
      BY <3>1, <3>2, <3>3, <3>4
  <2>3. CASE r # s
    BY <1>3, <2>3
  <2> QED
    BY <2>2, <2>3
<1>7. QueuedOnce'
  <2> SUFFICES ASSUME NEW r \in Stages, NEW q \in Stages,
                      NEW i \in 1 .. Len(queue'[r]), NEW j \in 1 .. Len(queue'[q]),
                      queue'[r][i] = queue'[q][j]
               PROVE  r = q /\ i = j
    BY DEF QueuedOnce
  <2>1. \/ i \in 1 .. Len(queue[r]) /\ queue'[r][i] = queue[r][i]
        \/ r = s /\ i = Len(queue[s]) + 1 /\ queue'[r][i] = t
    BY <1>6
  <2>2. \/ j \in 1 .. Len(queue[q]) /\ queue'[q][j] = queue[q][j]
        \/ q = s /\ j = Len(queue[s]) + 1 /\ queue'[q][j] = t
    BY <1>6
  <2>3. i \in 1 .. Len(queue[r]) => queue[r][i] # t
    BY <1>5
  <2>4. j \in 1 .. Len(queue[q]) => queue[q][j] # t
    BY <1>5
  <2>5. i \in 1 .. Len(queue[r]) /\ j \in 1 .. Len(queue[q]) /\ queue[r][i] = queue[q][j]
        => r = q /\ i = j
    BY DEF QueueInv, QueuedOnce
  <2> QED
    BY <2>1, <2>2, <2>3, <2>4, <2>5
<1> QED
  BY <1>4, <1>7

LEMMA TakeQueue ==
  ASSUME TypeInv, QueueInv, Sweeping, CanTake, Take
  PROVE  /\ \A u \in Threads : Queued(u)' => Queued(u) /\ u # Taken
         /\ QueuedOnce'
         /\ Taken \in Threads /\ Queued(Taken)
<1> DEFINE s == stage[depth]
<1>1. queue \in [Stages -> Seq(Threads)] /\ s \in Stages
  BY DEF TypeInv, ServerOK, Sweeping
<1>2. queue[s] \in Seq(Threads) /\ queue[s] # <<>>
  BY <1>1 DEF CanTake
<1>3. \A r \in Stages : queue'[r] = IF r = s THEN Tail(queue[s]) ELSE queue[r]
  BY <1>1 DEF Take
<1>4. Taken = queue[s][1] /\ 1 \in 1 .. Len(queue[s]) /\ Taken \in Threads
  BY <1>2 DEF Taken
<1>5. \A r \in Stages : \A i \in 1 .. Len(queue'[r]) :
         \/ r # s /\ i \in 1 .. Len(queue[r]) /\ queue'[r][i] = queue[r][i]
         \/ r = s /\ i + 1 \in 1 .. Len(queue[s]) /\ queue'[r][i] = queue[s][i + 1] /\ i + 1 # 1
  <2> SUFFICES ASSUME NEW r \in Stages, NEW i \in 1 .. Len(queue'[r])
               PROVE  \/ r # s /\ i \in 1 .. Len(queue[r]) /\ queue'[r][i] = queue[r][i]
                      \/ /\ r = s /\ i + 1 \in 1 .. Len(queue[s])
                         /\ queue'[r][i] = queue[s][i + 1] /\ i + 1 # 1
    OBVIOUS
  <2>1. CASE r = s
    <3>1. queue'[r] = Tail(queue[s])
      BY <1>3, <2>1
    <3> HIDE DEF s
    <3> QED
      BY <1>2, <2>1, <3>1
  <2>2. CASE r # s
    BY <1>3, <2>2
  <2> QED
    BY <2>1, <2>2
<1>6. \A r \in Stages : Len(queue'[r]) \in Nat
  BY <1>1, <1>2, <1>3
<1>7. QueuedOnce'
  <2> SUFFICES ASSUME NEW r \in Stages, NEW q \in Stages,
                      NEW i \in 1 .. Len(queue'[r]), NEW j \in 1 .. Len(queue'[q]),
                      queue'[r][i] = queue'[q][j]
               PROVE  r = q /\ i = j
    BY DEF QueuedOnce
  <2> QED
    BY <1>1, <1>5, <1>6 DEF QueueInv, QueuedOnce
<1>8. \A u \in Threads : Queued(u)' => Queued(u) /\ u # Taken
  <2> SUFFICES ASSUME NEW u \in Threads, NEW r \in Stages, NEW i \in 1 .. Len(queue'[r]),
                      queue'[r][i] = u
               PROVE  Queued(u) /\ u # Taken
    BY DEF Queued, InList
  <2>1. Queued(u)
    BY <1>5, <1>1 DEF Queued, InList
  <2>2. u # Taken
    BY <1>1, <1>4, <1>5 DEF QueueInv, QueuedOnce
  <2> QED
    BY <2>1, <2>2
<1>9. Queued(Taken)
  BY <1>1, <1>4 DEF Queued, InList
<1> QED
  BY <1>4, <1>7, <1>8, <1>9

LEMMA QueueStep == ASSUME TypeInv, QueueInv, Next PROVE QueueInv'
<1>1. CASE UNCHANGED <<queue, spawned>>
  <2>1. ~(Sweeping /\ CanTake /\ Take)
    <3> SUFFICES ASSUME Sweeping, CanTake, Take PROVE FALSE
      OBVIOUS
    <3>1. queue \in [Stages -> Seq(Threads)] /\ stage[depth] \in Stages /\ queue[stage[depth]] # <<>>
      BY DEF TypeInv, ServerOK, Sweeping, CanTake
    <3>2. queue'[stage[depth]] = Tail(queue[stage[depth]])
      BY <3>1 DEF Take
    <3>3. \A q \in Seq(Threads) : q # <<>> => Tail(q) # q
      <4> SUFFICES ASSUME NEW q \in Seq(Threads), q # <<>> PROVE Len(Tail(q)) # Len(q)
        OBVIOUS
      <4> QED
        OBVIOUS
    <3> QED
      BY <1>1, <3>1, <3>2, <3>3
  <2>2. \A u \in Threads : Held(u)' => Held(u)
    BY <2>1, HeldStep
  <2>3. \A u \in Threads : Queued(u)' => Queued(u)
    BY <1>1 DEF Queued
  <2>4. QueuedOnce'
    BY <1>1 DEF QueueInv, QueuedOnce
  <2> QED
    BY <1>1, <2>2, <2>3, <2>4 DEF QueueInv
<1>2. ASSUME NEW t \in Threads, NEW s \in Stages, Spawn(t, s) PROVE QueueInv'
  <2>1. \A u \in Threads : Held(u)' => Held(u)
    BY <1>2 DEF Spawn, Held, frameVars
  <2>2. spawned' = spawned \union {t} /\ t \notin spawned
    BY <1>2 DEF Spawn
  <2> QED
    BY <1>2, <2>1, <2>2, SpawnQueue DEF QueueInv
<1>3. CASE Sweeping /\ CanTake /\ Take /\ UNCHANGED spawned
  <2>1. \A u \in Threads : Held(u)' => Held(u) \/ u = Taken
    BY HeldStep
  <2> QED
    BY <1>3, <2>1, TakeQueue DEF QueueInv
<1> QED
  BY <1>1, <1>2, <1>3, QueueCases

-----------------------------------------------------------------------------
(* The lock itself. *)

LEMMA CurStep == ASSUME TypeInv, CurInv, Next PROVE CurInv'
<1>0. /\ depth > 0 => depth \in Depths
      /\ depth \in Nat
      /\ \A d \in Depths : d \in Nat
      /\ pc \in [Depths -> Labels]
      /\ cur \in [Depths -> Threads \union {NoThread}]
  BY ActiveDepth, BoundsAssumption DEF TypeInv, FramesOK, Depths
<1> USE <1>0
<1>1. ASSUME UNCHANGED <<depth, pc, cur>> PROVE CurInv'
  BY <1>1 DEF CurInv
<1>2. ASSUME NEW l, NEW list, NEW d, Push(l, list, d) PROVE CurInv'
  BY <1>2 DEF Push, CurInv
<1>3. ASSUME depth > 0, Pop PROVE CurInv'
  BY <1>3 DEF Pop, CurInv
<1>4. ASSUME depth > 0, pc[depth] # "body", UNCHANGED <<depth, cur>>,
             NEW l, pc' = [pc EXCEPT ![depth] = l]
      PROVE  CurInv'
  BY <1>4 DEF CurInv
<1>5. CASE Client
  BY <1>1, <1>2, <1>5 DEF Client, Spawn, SetProcs, CancelAll, Launch, FireDaemon, frameVars
<1>6. CASE StartLoop \/ FilterEnd \/ SweepEnd \/ FireWait \/ Wake \/ FireStop
  BY <1>4, <1>6 DEF StartLoop, FilterEnd, SweepEnd, FireWait, Wake, FireStop, AtDecision
<1>7. CASE StartDaemon \/ StopEnd \/ Raise
  BY <1>3, <1>7 DEF StartDaemon, StopEnd, Raise
<1>8. CASE Continue \/ WaitEnd
  <2>1. depth > 0 /\ pc[depth] # "body" /\ ReturnTrue
    BY <1>8 DEF Continue, WaitEnd, AtDecision
  <2> QED
    BY <2>1, <1>3, <1>4 DEF ReturnTrue
<1>9. CASE FilterLocked \/ FilterFinished \/ SweepNext \/ TakeBodyless
  BY <1>1, <1>9 DEF FilterLocked, FilterFinished, SweepNext, TakeBodyless, frameVars
<1>10. CASE FilterBody \/ TakeBody
  BY <1>10 DEF FilterBody, TakeBody, InFilter, Sweeping, Enter, CurInv
<1>11. CASE Body
  BY <1>11 DEF Body, BodyKept, BodyDone, Return, CurInv
<1> QED
  BY <1>5, <1>6, <1>7, <1>8, <1>9, <1>10, <1>11 DEF Next, Server

(* A step that starts no body and ends none. *)
LEMMA LockUnchanged ==
  ASSUME LockExclusive, UNCHANGED <<lock, cur>>
  PROVE  LockExclusive'
  BY DEF LockExclusive

LEMMA LockEnter ==
  ASSUME TypeInv, LockExclusive, CurInv, depth \in Depths, pc[depth] # "body",
         NEW t \in Threads, ~lock[t], Enter(t)
  PROVE  LockExclusive'
<1>0. /\ cur \in [Depths -> Threads \union {NoThread}] /\ lock \in [Threads -> BOOLEAN]
      /\ cur[depth] = NoThread /\ t # NoThread
  BY ThreadsAssumption DEF TypeInv, FramesOK, ServerOK, CurInv
<1>1. \A d \in Depths : cur[d] # t
  BY DEF LockExclusive
<1>2. \A d \in Depths : cur'[d] = IF d = depth THEN t ELSE cur[d]
  BY <1>0 DEF Enter
<1>3. \A u \in Threads : lock'[u] <=> lock[u] \/ u = t
  BY <1>0 DEF Enter
<1>4. ASSUME NEW d \in Depths, NEW e \in Depths, cur'[d] # NoThread, cur'[d] = cur'[e]
      PROVE  d = e
  BY <1>1, <1>2, <1>4 DEF LockExclusive
<1>5. ASSUME NEW u \in Threads
      PROVE  lock'[u] <=> \E d \in Depths : cur'[d] = u
  <2>1. CASE u = t
    BY <1>2, <1>3, <2>1
  <2>2. CASE u # t
    <3>1. cur[depth] # u
      BY <1>0, ThreadsAssumption
    <3>2. \A d \in Depths : cur'[d] = u <=> cur[d] = u
      BY <1>2, <2>2, <3>1
    <3> QED
      BY <1>3, <2>2, <3>2 DEF LockExclusive
  <2> QED
    BY <2>1, <2>2
<1> QED
  BY <1>4, <1>5 DEF LockExclusive

(* The current thread of the innermost activation, if any, is released. *)
LEMMA LockLeave ==
  ASSUME TypeInv, LockExclusive, depth \in Depths,
         cur' = [cur EXCEPT ![depth] = NoThread],
         \A u \in Threads : lock'[u] <=> lock[u] /\ u # cur[depth]
  PROVE  LockExclusive'
<1>0. cur \in [Depths -> Threads \union {NoThread}]
  BY DEF TypeInv, FramesOK
<1>1. \A d \in Depths : cur'[d] = IF d = depth THEN NoThread ELSE cur[d]
  BY <1>0
<1>2. ASSUME NEW d \in Depths, NEW e \in Depths, cur'[d] # NoThread, cur'[d] = cur'[e]
      PROVE  d = e
  BY <1>1, <1>2 DEF LockExclusive
<1>3. ASSUME NEW u \in Threads
      PROVE  lock'[u] <=> \E d \in Depths : cur'[d] = u
  <2>0. u # NoThread
    BY ThreadsAssumption
  <2>1. CASE u = cur[depth]
    <3>1. \A d \in Depths : cur'[d] # u
      BY <1>1, <2>0, <2>1 DEF LockExclusive
    <3> QED
      BY <2>1, <3>1
  <2>2. CASE u # cur[depth]
    <3>1. \A d \in Depths : cur'[d] = u <=> cur[d] = u
      BY <1>1, <2>0, <2>2
    <3> QED
      BY <2>2, <3>1 DEF LockExclusive
  <2> QED
    BY <2>1, <2>2
<1> QED
  BY <1>2, <1>3 DEF LockExclusive

LEMMA LockStep == ASSUME LockInv, Next PROVE LockExclusive'
<1>0. /\ TypeInv /\ QueueInv /\ CurInv /\ LockExclusive
      /\ depth > 0 => depth \in Depths
      /\ cur \in [Depths -> Threads \union {NoThread}] /\ lock \in [Threads -> BOOLEAN]
  BY ActiveDepth DEF LockInv, TypeInv, FramesOK, ServerOK
<1> USE <1>0
<1>1. ASSUME depth > 0, pc[depth] # "body", Pop, UNCHANGED lock PROVE LockExclusive'
  <2>1. cur[depth] = NoThread
    BY <1>1 DEF CurInv
  <2>2. cur' = cur
    BY <1>1, <2>1 DEF Pop
  <2> QED
    BY <1>1, <2>2, LockUnchanged
<1>2. CASE Client
  BY <1>2, LockUnchanged
  DEF Client, Spawn, SetProcs, CancelAll, Launch, FireDaemon, Push, frameVars, threadVars
<1>3. CASE StartLoop \/ FilterEnd \/ SweepEnd \/ FireWait \/ Wake \/ FireStop
           \/ FilterLocked \/ FilterFinished \/ SweepNext \/ TakeBodyless
  BY <1>3, LockUnchanged
  DEF StartLoop, FilterEnd, SweepEnd, FireWait, Wake, FireStop, FilterLocked, FilterFinished,
      SweepNext, TakeBodyless, frameVars, threadVars
<1>4. CASE StartDaemon \/ StopEnd
  BY <1>1, <1>4 DEF StartDaemon, StopEnd, threadVars
<1>5. CASE Continue \/ WaitEnd
  <2>1. depth > 0 /\ pc[depth] # "body" /\ ReturnTrue /\ UNCHANGED lock
    BY <1>5 DEF Continue, WaitEnd, AtDecision, threadVars
  <2> QED
    BY <2>1, <1>1, LockUnchanged DEF ReturnTrue
<1>6. CASE FilterBody
  <2>1. Head(todo[depth]) \in Threads
    BY <1>6 DEF FilterBody, InFilter, TypeInv, FramesOK
  <2> QED
    BY <1>6, <2>1, LockEnter DEF FilterBody, InFilter, HasBody
<1>7. CASE TakeBody
  <2>1. Taken \in Threads /\ Queued(Taken)
    BY <1>7, TakeQueue DEF TakeBody
  <2>2. ~lock[Taken]
    BY <2>1 DEF QueueInv, Held, LockExclusive
  <2> QED
    BY <1>7, <2>1, <2>2, LockEnter DEF TakeBody, Sweeping
<1>8. CASE Body
  <2>1. PICK alive \in BOOLEAN : Return(alive)
    BY <1>8 DEF Body, BodyKept, BodyDone
  <2>2. \A u \in Threads : lock'[u] <=> lock[u] /\ u # cur[depth]
    BY <2>1 DEF Return
  <2> QED
    BY <2>1, <2>2, LockLeave DEF Return
<1>9. CASE Raise
  <2>1. \A u \in Threads : lock'[u] <=> lock[u] /\ u # cur[depth]
    BY <1>9 DEF Raise, Unlock
  <2> QED
    BY <1>9, <2>1, LockLeave DEF Raise, Pop
<1> QED
  BY <1>2, <1>3, <1>4, <1>5, <1>6, <1>7, <1>8, <1>9 DEF Next, Server

(* A thread is locked exactly while one activation, and one only, runs its body: a body that
   yields may be met again by server_progress under it, and progress of task.ml then leaves it
   alone; when the body returns or raises, nothing stays locked behind it. *)
THEOREM LockExclusiveHolds == Spec => []LockExclusive
<1>1. Init => LockInv
  <2> SUFFICES ASSUME Init PROVE LockInv
    OBVIOUS
  <2>1. TypeInv
    BY InitType
  <2>2. CurInv /\ LockExclusive
    <3>1. CurInv
      BY DEF Init, CurInv
    <3>2. LockExclusive
      BY ThreadsAssumption DEF Init, LockExclusive
    <3> QED
      BY <3>1, <3>2
  <2>3. \A t \in Threads : ~Queued(t) /\ ~Held(t)
    <3> SUFFICES ASSUME NEW t \in Threads PROVE ~Queued(t) /\ ~Held(t)
      OBVIOUS
    <3>1. ~InList(t, <<>>)
      BY InEmpty
    <3>2. \A s \in Stages : queue[s] = <<>>
      BY DEF Init
    <3>3. running = <<>>
          /\ \A d \in Depths : todo[d] = <<>> /\ kept[d] = <<>> /\ cur[d] = NoThread
      BY DEF Init
    <3>4. ~Queued(t)
      BY <3>1, <3>2 DEF Queued
    <3>5. ~Held(t)
      BY <3>1, <3>3, ThreadsAssumption DEF Held
    <3> QED
      BY <3>4, <3>5
  <2>4. QueuedOnce
    <3>1. ASSUME NEW s \in Stages PROVE queue[s] = <<>>
      BY DEF Init
    <3>2. \A s \in Stages : 1 .. Len(queue[s]) = {}
      BY <3>1
    <3> QED
      BY <3>2 DEF QueuedOnce
  <2> QED
    BY <2>1, <2>2, <2>3, <2>4 DEF LockInv, QueueInv
<1>2. LockInv /\ [Next]_vars => LockInv'
  <2> SUFFICES ASSUME LockInv, [Next]_vars PROVE LockInv'
    OBVIOUS
  <2>1. CASE Next
    BY <2>1, StepType, QueueStep, CurStep, LockStep DEF LockInv
  <2>2. CASE UNCHANGED vars
    <3>1. TypeInv'
      BY <2>2, StepType DEF LockInv
    <3>2. QueueInv' /\ CurInv' /\ LockExclusive'
      BY <2>2 DEF vars, serverVars, threadVars, frameVars, LockInv, QueueInv, QueuedOnce, Queued,
                  Held, CurInv, LockExclusive
    <3> QED
      BY <3>1, <3>2 DEF LockInv
  <2> QED
    BY <2>1, <2>2
<1> QED
  BY <1>1, <1>2, PTL DEF Spec, LockInv
=============================================================================
