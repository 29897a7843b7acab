--------------------------- MODULE TaskServerHistory ---------------------------
(***************************************************************************)
(* TaskServer with two history variables, and what a server promises its   *)
(* clients about the threads they spawn.  server_progress resets the       *)
(* counters when nothing runs, whatever is queued, and its sweep of the    *)
(* queues does not come back: a thread spawned on a stage the sweep has    *)
(* passed, by the body of a thread of a later stage or while server_progress *)
(* yields, waits for another sweep, and may be left in its queue by a stop *)
(* that no longer counts it.  The history says which threads those are, so *)
(* that the promises can be stated for any client.                         *)
(***************************************************************************)
EXTENDS TaskServer

VARIABLES
  left,  \* the queues, as they were when the counters were last reset
  late   \* the threads spawned behind the sweep since it began

historyVars == <<left, late>>

HistoryInit ==
  /\ Init
  /\ left = [s \in Stages |-> <<>>]
  /\ late = {}

(* The threads this very step spawns on a stage the sweep has passed.      *)
LateSpawns ==
  {t \in Threads : depth > 0 /\ \E s \in Stages : s < stage[depth] /\ Spawn(t, s)}

HistoryNext ==
  /\ Next
  /\ left' = IF FireStop THEN queue ELSE left
  /\ late' = IF FilterEnd THEN {} ELSE late \union LateSpawns

HistorySpec == HistoryInit /\ [][HistoryNext]_<<vars, historyVars>>

FairHistorySpec == HistorySpec /\ Fairness
-----------------------------------------------------------------------------
(* Properties.                                                             *)

HistoryTypeOK == left \in [Stages -> Seq(Threads)] /\ late \subseteq Threads

(* The invariant written above type server: terminated, running and queued *)
(* threads are all the scheduled ones, up to those that were queued when   *)
(* the counters were reset, which nothing counts again.  It is read in the *)
(* middle of server_progress too, counting the thread in progress.         *)
Accounting ==
  terminated + Live + Cardinality(Slots(queue)) = scheduled + Cardinality(Slots(left))

OnlyLate(s) == \A i \in 1 .. Len(queue[s]) : queue[s][i] \in late

(* A stop leaves in the queues only threads spawned behind the last sweep, *)
(* and whenever no loop or daemon is going to visit the queues, launch     *)
(* starts the server again if more waits in them than the last stop left.  *)
NoneStranded ==
  /\ (AtDecision /\ running = <<>>) => \A s \in Stages : OnlyLate(s)
  /\ (depth = 0 /\ daemons = {} /\ Cardinality(Slots(queue)) > Cardinality(Slots(left))) =>
       (~launched /\ scheduled > terminated)

(* Stage 0 tasks are issued first: when a thread leaves its queue, those   *)
(* that wait in the queues of earlier stages were all spawned behind this  *)
(* very sweep, however many places bodies and set_procs free meanwhile.    *)
StageOrder ==
  [][\A s \in Stages : Len(queue'[s]) < Len(queue[s]) =>
       \A r \in Stages : r < s => OnlyLate(r)]_<<vars, historyVars>>

(* Every thread given to the server runs to its end or is left in a queue  *)
(* by a stop, and the server comes to rest with its counters reset and     *)
(* nothing in its queues but what the last stop left.                      *)
EveryThreadServed ==
  \A t \in Threads : t \in spawned ~> (~busy[t] \/ \E s \in Stages : InList(t, left[s]))
EventuallyIdle == <>[](depth = 0 /\ ~launched /\ scheduled = 0 /\ queue = left)
ServesAndRests == EveryThreadServed /\ EventuallyIdle

(* What the code says of itself, and its clients may break.                *)

(* "terminated + (length running) + Sum (length queue.(i)) == scheduled".  *)
AccountingComment == terminated + Live + Cardinality(Slots(queue)) = scheduled

(* "Stage 0 tasks are issued first" (task.mli).                            *)
EarlierStagesFirst ==
  [][\A s \in Stages : Len(queue'[s]) < Len(queue[s]) =>
       \A r \in Stages : r < s => queue[r] = <<>>]_vars
=============================================================================
