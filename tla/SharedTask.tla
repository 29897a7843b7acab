----------------------------- MODULE SharedTask -----------------------------
(***************************************************************************)
(* The shared tasks of src/lib/utils/task.ml: several tasks hold an        *)
(* instance of one common sub-task, which runs at most once at a time, is  *)
(* cancelled when its last client is, and is built again for later         *)
(* instances when it was interrupted.  An instance is progressed (Coin) or *)
(* cancelled (Kill) by the thread it belongs to, in any order.             *)
(***************************************************************************)
EXTENDS Naturals, FiniteSets

CONSTANTS
  Instances,  \* the values share returns
  Retries,    \* the values of the ~retry argument of shared
  MaxKills    \* bound: how often one instance is cancelled

ASSUME InstancesAssumption == IsFiniteSet(Instances)
ASSUME RetriesAssumption == Retries \subseteq BOOLEAN
ASSUME KillsAssumption == MaxKills \in Nat

VARIABLES
  retry,    \* sh.retry
  shared,   \* sh.shared: todo builder, a task being executed, or its status
  clients,  \* sh.clients
  inst,     \* inst[i]: the task of the instance i
  kills     \* kills[i]: how many times i was cancelled

vars == <<retry, shared, clients, inst, kills>>

Status == {"Result", "Failed", "Timeout", "Canceled"}
SharedStates == {"todo", "run"} \union Status
InstStates == {"todo", "ping"} \union Status

Init ==
  /\ retry \in Retries
  /\ shared = "todo"
  /\ clients = 0
  /\ inst = [i \in Instances |-> "todo"]
  /\ kills = [i \in Instances |-> 0]

FinishedInTime == shared \in Status \ {"Timeout"}  \* mutant
Finished == shared \in Status

(* retry_shared.                                                           *)
MustRetryFailed(r) == r # "Result"  \* mutant
MustRetry(r) == r \in {"Timeout", "Canceled"} \/ (r = "Failed" /\ retry)

Count == clients' = clients + 1

(* The first Coin of an instance registers a client.                       *)
Register(i) ==
  /\ inst[i] = "todo"
  /\ inst' = [inst EXCEPT ![i] = "ping"]
  /\ Count
  /\ UNCHANGED <<retry, shared, kills>>

(* Coin when the shared task has its status: the instance takes it, and an *)
(* interrupted task is replaced by a fresh one.                            *)
Take(i) ==
  /\ inst[i] = "ping"
  /\ Finished
  /\ inst' = [inst EXCEPT ![i] = shared]
  /\ shared' = IF MustRetry(shared) THEN "todo" ELSE shared
  /\ UNCHANGED <<retry, clients, kills>>

(* Coin otherwise: the shared task is built or makes one step.             *)
Advance(i) ==
  /\ inst[i] = "ping"
  /\ ~Finished
  /\ shared' \in {"run"} \union Status
  /\ UNCHANGED <<retry, clients, inst, kills>>

(* Kill before the first Coin: the instance never becomes a client.        *)
KillTodo(i) ==
  /\ inst[i] = "todo"
  /\ kills[i] < MaxKills
  /\ kills' = [kills EXCEPT ![i] = @ + 1]
  /\ inst' = [inst EXCEPT ![i] = "Canceled"]
  /\ UNCHANGED <<retry, shared, clients>>

(* Kill among other clients: only this instance is cancelled.              *)
OthersExceptOne == clients > 2  \* mutant
Others == clients > 1

KillOne(i) ==
  /\ inst[i] = "ping"
  /\ Others
  /\ kills[i] < MaxKills
  /\ kills' = [kills EXCEPT ![i] = @ + 1]
  /\ clients' = clients - 1
  /\ inst' = [inst EXCEPT ![i] = "Canceled"]
  /\ UNCHANGED <<retry, shared>>

(* Kill of the last client is sent to the shared task; the instance goes   *)
(* on until that task has a status.  A task not started is cancelled on    *)
(* the spot, a finished one is left alone.                                 *)
KilledShared == IF shared = "todo" THEN {"Canceled"}
                ELSE IF shared = "run" THEN {"run"} \union Status
                ELSE {shared}

KillLast(i) ==
  /\ inst[i] = "ping"
  /\ ~Others
  /\ kills[i] < MaxKills
  /\ kills' = [kills EXCEPT ![i] = @ + 1]
  /\ clients' = 0
  /\ IF clients > 0 THEN shared' \in KilledShared ELSE UNCHANGED shared
  /\ UNCHANGED <<retry, inst>>

Progress(i) == Register(i) \/ Take(i) \/ Advance(i)
Kill(i) == KillTodo(i) \/ KillOne(i) \/ KillLast(i)

Next == \E i \in Instances : Progress(i) \/ Kill(i)

Spec == Init /\ [][Next]_vars

(* Threads are progressed again and again until their task is finished,    *)
(* and a task that is executed again and again ends.                       *)
Fairness ==
  \A i \in Instances :
    /\ WF_vars(Progress(i))
    /\ SF_vars(Advance(i) /\ shared' \in Status)

FairSpec == Spec /\ Fairness

-----------------------------------------------------------------------------
(* Properties.                                                             *)

Pending(i) == inst[i] = "ping"
Innocent(i) == Pending(i) /\ kills[i] = 0

TypeOK ==
  /\ retry \in Retries
  /\ shared \in SharedStates
  /\ clients \in 0 .. Cardinality(Instances)
  /\ inst \in [Instances -> InstStates]
  /\ kills \in [Instances -> 0 .. MaxKills]

(* An instance that goes on waiting after a Kill, as the last client does, *)
(* may be cancelled again: <<i, k>> stands for the k-th Kill of i.         *)
RepeatedKills == {p \in Instances \X (2 .. MaxKills) : p[2] <= kills[p[1]]}

(* Every instance that waits and was not cancelled is counted as a client, *)
(* but for one client at most per repeated Kill.                           *)
ClientsCounted ==
  clients + Cardinality(RepeatedKills) >= Cardinality({i \in Instances : Innocent(i)})

(* Cancelling an instance does not cancel the task another one waits for:  *)
(* Kill reaches a task in execution only when no other instance waits, but *)
(* for one at most per repeated Kill: none, when nobody was killed twice.  *)
CancelIsolated ==
  [][\A i \in Instances :
       (kills'[i] # kills[i] /\ Pending(i) /\ clients # 0 /\ clients' = 0 /\ shared = "run") =>
         Cardinality({j \in Instances \ {i} : Innocent(j)}) <= Cardinality(RepeatedKills')]_vars

(* A task that produced a result is never built again, whoever asks; with  *)
(* retry = false, a task that failed is not either (task.mli).             *)
OutcomeIsFinal ==
  [][(shared = "Result" \/ (shared = "Failed" /\ ~retry)) => shared' = shared]_vars

(* Every instance ends.                                                    *)
EveryInstanceEnds == \A i \in Instances : <>(inst[i] \in Status)
=============================================================================
