----------------------------- MODULE TaskServer -----------------------------
(***************************************************************************)
(* The task server of src/lib/utils/task.ml: threads wait in one queue per *)
(* stage, and server_progress moves them to the running list, makes them   *)
(* progress and counts the finished ones.  Everything runs in one OCaml    *)
(* thread, but server_progress calls client code (the body of a thread,    *)
(* the daemons of Async.yield, the callbacks of the server), and client    *)
(* code calls the server back: it spawns, launches, cancels, and through   *)
(* Async.yield it may even run a second activation of server_progress      *)
(* inside the first one.  An activation is therefore a frame of an         *)
(* explicit stack, and a step is a maximal run of code with no client call.*)
(*                                                                         *)
(* OnIdle says which schedulers Task.on_idle, a reference, may hold:       *)
(*   "loop"    the default one, a blocking loop inside launch;             *)
(*   "daemon"  Async.while_progress, as the Server plugin installs it.     *)
(***************************************************************************)
EXTENDS Integers, Sequences, FiniteSets

CONSTANTS
  Threads,      \* the threads the clients create; each is spawned at most once
  NoThread,     \* no thread
  NStages,      \* the ~stages argument of server
  Procs,        \* the values given to ~procs and set_procs
  MaxDepth,     \* bound: nested activations of server_progress
  MaxDaemons,   \* bound: daemons registered at the same time
  MaxCounted,   \* bound: no exception once so many threads have terminated
  OnIdle,       \* among "loop" and "daemon"
  MayRaise      \* TRUE: client code may raise Async.Cancel

ASSUME ThreadsAssumption == IsFiniteSet(Threads) /\ NoThread \notin Threads
ASSUME NStagesAssumption == NStages \in Nat \ {0}
ASSUME ProcsAssumption == Procs \subseteq Nat \ {0} /\ Procs # {}
ASSUME BoundsAssumption == MaxDepth \in Nat \ {0} /\ {MaxDaemons, MaxCounted} \subseteq Nat
ASSUME ModeAssumption == OnIdle \subseteq {"loop", "daemon"} /\ MayRaise \in BOOLEAN

Stages == 0 .. NStages - 1
Depths == 1 .. MaxDepth
DaemonIds == 1 .. MaxDaemons

VARIABLES
  queue,       \* server.queue: one FIFO per stage
  running,     \* server.running
  launched,    \* server.launched
  scheduled,   \* server.scheduled
  terminated,  \* server.terminated
  procs,       \* server.procs
  waiting,     \* server.waiting
  busy,        \* busy[t]: Monad.waiting th.task, i.e. the task is not UNIT yet
  lock,        \* lock[t]: th.lock
  spawned,     \* the threads some client has given to spawn
  daemons,     \* the server_progress daemons registered in Async.daemons
  depth,       \* number of active frames
  pc,          \* pc[d]: what the activation d is doing
  todo,        \* todo[d]: what List.filter has left to visit
  kept,        \* kept[d]: what List.filter has kept so far
  cur,         \* cur[d]: the thread whose body activation d is running
  stage,       \* stage[d]: the queue being swept, -1 during the filter
  via          \* via[d]: the daemon that fired the activation, 0 for a loop

serverVars == <<queue, running, launched, scheduled, terminated, procs, waiting>>
threadVars == <<busy, lock, spawned>>
frameVars == <<depth, pc, todo, kept, cur, stage, via>>
vars == <<serverVars, threadVars, daemons, frameVars>>

Labels == {"off", "start", "filter", "body", "schedule", "yield", "waitcb", "stop", "sleep"}

(* The points where server_progress and launch hand control to client code. *)
ClientLabels == {"start", "body", "yield", "waitcb", "stop"}

Init ==
  /\ queue = [s \in Stages |-> <<>>]
  /\ running = <<>>
  /\ launched = FALSE
  /\ scheduled = 0
  /\ terminated = 0
  /\ procs \in Procs
  /\ waiting = FALSE
  /\ busy = [t \in Threads |-> TRUE]
  /\ lock = [t \in Threads |-> FALSE]
  /\ spawned = {}
  /\ daemons = {}
  /\ depth = 0
  /\ pc = [d \in Depths |-> "off"]
  /\ todo = [d \in Depths |-> <<>>]
  /\ kept = [d \in Depths |-> <<>>]
  /\ cur = [d \in Depths |-> NoThread]
  /\ stage = [d \in Depths |-> -1]
  /\ via = [d \in Depths |-> 0]

-----------------------------------------------------------------------------
(* Client code: the main program at depth 0, else the code called by the   *)
(* innermost activation.                                                   *)

ClientRuns == depth > 0 => pc[depth] \in ClientLabels

EnqueueUncounted(t, s) ==  \* mutant
  queue' = [queue EXCEPT ![s] = Append(@, t)] /\ scheduled' = scheduled
Enqueue(t, s) ==
  queue' = [queue EXCEPT ![s] = Append(@, t)] /\ scheduled' = scheduled + 1

Spawn(t, s) ==
  /\ ClientRuns
  /\ t \notin spawned
  /\ spawned' = spawned \union {t}
  /\ Enqueue(t, s)
  /\ waiting' = FALSE
  /\ UNCHANGED <<running, launched, terminated, procs, busy, lock, daemons, frameVars>>

SetProcs(p) ==
  /\ ClientRuns
  /\ procs' = p
  /\ UNCHANGED <<queue, running, launched, scheduled, terminated, waiting,
                 threadVars, daemons, frameVars>>

InList(t, l) == \E i \in 1 .. Len(l) : l[i] = t

(* The threads cancel_all reaches: those still queued, and those listed as *)
(* running.  A thread in the middle of its first progress is in neither.   *)
Cancellable == {t \in Threads : InList(t, running) \/ \E s \in Stages : InList(t, queue[s])}

(* Each of them receives Kill, on which its task may finish (S) or not.    *)
CancelAll(S) ==
  /\ ClientRuns
  /\ S \subseteq Cancellable
  /\ busy' = [t \in Threads |-> busy[t] /\ t \notin S]
  /\ UNCHANGED <<serverVars, lock, spawned, daemons, frameVars>>

(* Opening and closing the innermost frame.                                *)
Push(label, list, daemon) ==
  /\ depth < MaxDepth
  /\ depth' = depth + 1
  /\ pc' = [pc EXCEPT ![depth + 1] = label]
  /\ todo' = [todo EXCEPT ![depth + 1] = list]
  /\ via' = [via EXCEPT ![depth + 1] = daemon]
  /\ UNCHANGED <<kept, cur, stage>>

Pop ==
  /\ depth' = depth - 1
  /\ pc' = [pc EXCEPT ![depth] = "off"]
  /\ todo' = [todo EXCEPT ![depth] = <<>>]
  /\ kept' = [kept EXCEPT ![depth] = <<>>]
  /\ cur' = [cur EXCEPT ![depth] = NoThread]
  /\ stage' = [stage EXCEPT ![depth] = -1]
  /\ via' = [via EXCEPT ![depth] = 0]

(* launch, up to the start callbacks.                                      *)
MustLaunch == ~launched /\ scheduled > terminated

Launch ==
  /\ ClientRuns
  /\ MustLaunch
  /\ launched' = TRUE
  /\ Push("start", <<>>, 0)
  /\ UNCHANGED <<queue, running, scheduled, terminated, procs, waiting, threadVars, daemons>>

(* launch, once the start callbacks have returned: !on_idle.               *)
StartLoop ==
  /\ "loop" \in OnIdle
  /\ depth > 0
  /\ pc[depth] = "start"
  /\ pc' = [pc EXCEPT ![depth] = "filter"]
  /\ todo' = [todo EXCEPT ![depth] = running]
  /\ UNCHANGED <<serverVars, threadVars, daemons, depth, kept, cur, stage, via>>

StartDaemon ==
  /\ "daemon" \in OnIdle
  /\ depth > 0
  /\ pc[depth] = "start"
  /\ \E d \in DaemonIds \ daemons : daemons' = daemons \union {d}
  /\ Pop
  /\ UNCHANGED <<serverVars, threadVars>>

(* Client code yields (or the main loop sleeps) and the delay of a daemon  *)
(* has elapsed: its trigger runs server_progress, on top of whatever runs. *)
FireDaemon ==
  /\ ClientRuns
  /\ \E d \in daemons : Push("filter", running, d)
  /\ UNCHANGED <<serverVars, threadVars, daemons>>

-----------------------------------------------------------------------------
(* Thread.progress of t by the innermost activation: a locked thread is    *)
(* reported alive, a finished one is reported finished, and the body of    *)
(* any other runs under the lock.                                          *)

CountDone == terminated' = terminated + 1

HasBodyUnlocked(t) == busy[t]  \* mutant
HasBody(t) == ~lock[t] /\ busy[t]

Enter(t) ==
  /\ lock' = [lock EXCEPT ![t] = TRUE]
  /\ cur' = [cur EXCEPT ![depth] = t]
  /\ pc' = [pc EXCEPT ![depth] = "body"]

InFilter == depth > 0 /\ pc[depth] = "filter" /\ todo[depth] # <<>>

FilterLocked ==
  /\ InFilter
  /\ lock[Head(todo[depth])]
  /\ todo' = [todo EXCEPT ![depth] = Tail(@)]
  /\ kept' = [kept EXCEPT ![depth] = Append(@, Head(todo[depth]))]
  /\ UNCHANGED <<serverVars, threadVars, daemons, depth, pc, cur, stage, via>>

FilterFinished ==
  /\ InFilter
  /\ ~lock[Head(todo[depth])]
  /\ ~busy[Head(todo[depth])]
  /\ todo' = [todo EXCEPT ![depth] = Tail(@)]
  /\ CountDone
  /\ UNCHANGED <<queue, running, launched, scheduled, procs, waiting,
                 threadVars, daemons, depth, pc, kept, cur, stage, via>>

FilterBody ==
  /\ InFilter
  /\ HasBody(Head(todo[depth]))
  /\ todo' = [todo EXCEPT ![depth] = Tail(@)]
  /\ Enter(Head(todo[depth]))
  /\ UNCHANGED <<serverVars, busy, spawned, daemons, depth, kept, stage, via>>

FirstStageSkipped == 1  \* mutant
FirstStage == 0

(* The end of List.filter overwrites server.running with what it kept.     *)
FilterEnd ==
  /\ depth > 0
  /\ pc[depth] = "filter"
  /\ todo[depth] = <<>>
  /\ running' = kept[depth]
  /\ kept' = [kept EXCEPT ![depth] = <<>>]
  /\ stage' = [stage EXCEPT ![depth] = FirstStage]
  /\ pc' = [pc EXCEPT ![depth] = "schedule"]
  /\ UNCHANGED <<queue, launched, scheduled, terminated, procs, waiting,
                 threadVars, daemons, depth, todo, cur, via>>

(* schedule: the loop on the queue of one stage.                           *)
Sweeping == depth > 0 /\ pc[depth] = "schedule" /\ stage[depth] \in Stages

CanTakeOneMore == Len(running) <= procs /\ queue[stage[depth]] # <<>>  \* mutant
CanTake == Len(running) < procs /\ queue[stage[depth]] # <<>>

SweepNext ==
  /\ Sweeping
  /\ ~CanTake
  /\ stage' = [stage EXCEPT ![depth] = @ + 1]
  /\ UNCHANGED <<serverVars, threadVars, daemons, depth, pc, todo, kept, cur, via>>

Taken == Head(queue[stage[depth]])

Take == queue' = [queue EXCEPT ![stage[depth]] = Tail(@)]

RunWith(t) == running' = <<t>> \o running

TakeBodyless ==
  /\ Sweeping
  /\ CanTake
  /\ ~HasBody(Taken)
  /\ Take
  /\ IF lock[Taken] THEN RunWith(Taken) /\ UNCHANGED terminated ELSE CountDone /\ UNCHANGED running
  /\ UNCHANGED <<launched, scheduled, procs, waiting, threadVars, daemons, frameVars>>

TakeBody ==
  /\ Sweeping
  /\ CanTake
  /\ HasBody(Taken)
  /\ Take
  /\ Enter(Taken)
  /\ UNCHANGED <<running, launched, scheduled, terminated, procs, waiting,
                 busy, spawned, daemons, depth, todo, kept, stage, via>>

SweepEnd ==
  /\ depth > 0
  /\ pc[depth] = "schedule"
  /\ stage[depth] = NStages
  /\ pc' = [pc EXCEPT ![depth] = "yield"]
  /\ UNCHANGED <<serverVars, threadVars, daemons, depth, todo, kept, cur, stage, via>>

(* The body returns: what the task has become overwrites th.task, even if  *)
(* the thread was cancelled meanwhile, and the lock is released.           *)
Return(alive) ==
  /\ depth > 0
  /\ pc[depth] = "body"
  /\ busy' = [busy EXCEPT ![cur[depth]] = alive]
  /\ lock' = [lock EXCEPT ![cur[depth]] = FALSE]
  /\ cur' = [cur EXCEPT ![depth] = NoThread]
  /\ pc' = [pc EXCEPT ![depth] = IF stage[depth] = -1 THEN "filter" ELSE "schedule"]
  /\ UNCHANGED <<queue, launched, scheduled, procs, waiting, spawned,
                 daemons, depth, todo, stage, via>>

BodyKept ==
  /\ Return(TRUE)
  /\ IF stage[depth] = -1
     THEN kept' = [kept EXCEPT ![depth] = Append(@, cur[depth])] /\ UNCHANGED running
     ELSE RunWith(cur[depth]) /\ UNCHANGED kept
  /\ UNCHANGED terminated

BodyDone ==
  /\ Return(FALSE)
  /\ CountDone
  /\ UNCHANGED <<running, kept>>

-----------------------------------------------------------------------------
(* The end of server_progress.                                             *)

AllEmpty == \A s \in Stages : queue[s] = <<>>

AtDecision == depth > 0 /\ pc[depth] = "yield"

(* Returning true: a loop sleeps and starts over, a daemon stays registered.*)
ReturnTrue ==
  IF via[depth] = 0
  THEN /\ pc' = [pc EXCEPT ![depth] = "sleep"]
       /\ UNCHANGED <<depth, todo, kept, cur, stage, via>>
  ELSE Pop

Continue ==
  /\ AtDecision
  /\ running # <<>>
  /\ waiting \/ ~AllEmpty
  /\ ReturnTrue
  /\ UNCHANGED <<serverVars, threadVars, daemons>>

FireWait ==
  /\ AtDecision
  /\ running # <<>>
  /\ ~waiting
  /\ AllEmpty
  /\ waiting' = TRUE
  /\ pc' = [pc EXCEPT ![depth] = "waitcb"]
  /\ UNCHANGED <<queue, running, launched, scheduled, terminated, procs,
                 threadVars, daemons, depth, todo, kept, cur, stage, via>>

WaitEnd ==
  /\ depth > 0
  /\ pc[depth] = "waitcb"
  /\ ReturnTrue
  /\ UNCHANGED <<serverVars, threadVars, daemons>>

Wake ==
  /\ depth > 0
  /\ pc[depth] = "sleep"
  /\ pc' = [pc EXCEPT ![depth] = "filter"]
  /\ todo' = [todo EXCEPT ![depth] = running]
  /\ stage' = [stage EXCEPT ![depth] = -1]
  /\ UNCHANGED <<serverVars, threadVars, daemons, depth, kept, cur, via>>

(* Nothing runs: the counters are reset and the stop callbacks fire.       *)
ResetLaunched == launched' = TRUE /\ scheduled' = 0 /\ terminated' = 0  \* mutant
ResetNoCounters == launched' = FALSE /\ UNCHANGED <<scheduled, terminated>>  \* mutant
Reset == launched' = FALSE /\ scheduled' = 0 /\ terminated' = 0

FireStop ==
  /\ AtDecision
  /\ running = <<>>
  /\ Reset
  /\ pc' = [pc EXCEPT ![depth] = "stop"]
  /\ UNCHANGED <<queue, running, procs, waiting, threadVars, daemons,
                 depth, todo, kept, cur, stage, via>>

(* Returning false: the loop ends and launch returns, or the daemon goes.  *)
StopEnd ==
  /\ depth > 0
  /\ pc[depth] = "stop"
  /\ daemons' = daemons \ {via[depth]}
  /\ Pop
  /\ UNCHANGED <<serverVars, threadVars>>

(* Client code raises Async.Cancel through server_progress: the lock of    *)
(* the thread in progress is released and the activation is abandoned.     *)
(* The default on_idle swallows the exception, so launch returns; a daemon *)
(* stays registered and Async raises again in the code that yielded.  An   *)
(* abandoned filter leaves in server.running threads it has counted, which *)
(* the next one counts again: MaxCounted stops them.                       *)
UnlockForgotten == lock' = lock  \* mutant
Unlock == lock' = [t \in Threads |-> lock[t] /\ t # cur[depth]]

Raise ==
  /\ MayRaise
  /\ terminated < MaxCounted
  /\ depth > 0
  /\ pc[depth] \in ClientLabels \ {"start"}
  /\ Unlock
  /\ Pop
  /\ UNCHANGED <<serverVars, busy, spawned, daemons>>

-----------------------------------------------------------------------------
Client ==
  \/ \E t \in Threads, s \in Stages : Spawn(t, s)
  \/ \E p \in Procs : SetProcs(p)
  \/ \E S \in SUBSET Threads : CancelAll(S)
  \/ Launch
  \/ FireDaemon

Server ==
  \/ StartLoop \/ StartDaemon
  \/ FilterLocked \/ FilterFinished \/ FilterBody \/ FilterEnd
  \/ SweepNext \/ TakeBodyless \/ TakeBody \/ SweepEnd
  \/ Continue \/ FireWait \/ WaitEnd \/ Wake \/ FireStop \/ StopEnd

Body == BodyKept \/ BodyDone

Next == Client \/ Server \/ Body \/ Raise

Spec == Init /\ [][Next]_vars

(* The server's own steps are plain code and always happen; bodies return, *)
(* and a task that is progressed again and again finishes; whoever spawned *)
(* launches, and yields are frequent enough to fire a registered daemon.   *)
Fairness ==
  /\ WF_vars(Server)
  /\ WF_vars(Body)
  /\ \A t \in Threads : SF_vars(BodyDone /\ cur[depth] = t)
  /\ SF_vars(Launch)
  /\ SF_vars(FireDaemon)

FairSpec == Spec /\ Fairness
-----------------------------------------------------------------------------
(* Properties.                                                             *)

TypeOK ==
  /\ queue \in [Stages -> Seq(Threads)]
  /\ running \in Seq(Threads)
  /\ launched \in BOOLEAN
  /\ scheduled \in Nat
  /\ terminated \in Nat
  /\ procs \in Procs
  /\ waiting \in BOOLEAN
  /\ busy \in [Threads -> BOOLEAN]
  /\ lock \in [Threads -> BOOLEAN]
  /\ spawned \in SUBSET Threads
  /\ daemons \in SUBSET DaemonIds
  /\ depth \in 0 .. MaxDepth
  /\ pc \in [Depths -> Labels]
  /\ todo \in [Depths -> Seq(Threads)]
  /\ kept \in [Depths -> Seq(Threads)]
  /\ cur \in [Depths -> Threads \union {NoThread}]
  /\ stage \in [Depths -> -1 .. NStages]
  /\ via \in [Depths -> 0 .. MaxDaemons]

(* The places of the queues that hold a thread: Sum(length queue.(i)) is   *)
(* their number.                                                           *)
Slots(q) == UNION {{s} \X (1 .. Len(q[s])) : s \in Stages}

(* The length of the running list, the progress of List.filter included:   *)
(* what it kept, what it has not visited, and the thread in progress.      *)
Filtering == depth > 0 /\ (pc[depth] = "filter" \/ (pc[depth] = "body" /\ stage[depth] = -1))
Listed == IF Filtering THEN Len(kept[depth]) + Len(todo[depth]) ELSE Len(running)
InHand == IF depth > 0 /\ pc[depth] = "body" THEN 1 ELSE 0
Live == Listed + InHand

(* ~procs is the maximum number of running tasks (task.mli), for a server  *)
(* whose procs is never changed below what set_procs allows.               *)
MaxRunning == \E p \in Procs : Live <= p

(* The lock of a thread keeps two activations from progressing it at once, *)
(* and no thread stays locked when its body returns or raises.             *)
LockExclusive ==
  /\ \A d \in Depths, e \in Depths : (cur[d] # NoThread /\ cur[d] = cur[e]) => d = e
  /\ \A t \in Threads : lock[t] <=> \E d \in Depths : cur[d] = t

(* launch starts the server if it is not running yet (task.mli): when work *)
(* remains and nothing is running the server, launch is not a no-op.       *)
LaunchStarts ==
  (depth = 0 /\ daemons = {} /\ scheduled > terminated) => ~launched
=============================================================================
