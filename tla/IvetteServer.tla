---------------------------- MODULE IvetteServer ----------------------------
(***************************************************************************)
(* The client half of the protocol of the request server: the status of    *)
(* the Frama-C process that Ivette drives, its requests in flight, its     *)
(* polling and killing timers, the signals it listens to and its socket    *)
(* (ivette/src/frama-c/server.ts and client_socket.ts).                    *)
(*                                                                         *)
(* JavaScript runs one callback at a time, so every action is one whole    *)
(* callback: a call of the user interface, a message, a timer or an event  *)
(* of the socket or of the process.  Any process that was spawned may end  *)
(* at any time and in any way.  ServerMain models what the other end of    *)
(* the socket answers; here it is a set of requests still to be answered   *)
(* and the announcements that its command line starts and ends.            *)
(***************************************************************************)
EXTENDS Naturals, Sequences, FiniteSets

CONSTANTS
  Signals,     \* the signals of the interface
  MaxProcs,    \* bound: processes that are spawned
  MaxCalls,    \* bound: calls of start, stop, kill, restart, clear
  MaxRequests, \* bound: requests in flight
  MaxMessages, \* bound: messages of the server in transit
  MaxChanges   \* bound: CMDLINEON and CMDLINEOFF on a connection

ASSUME BoundsAssumption ==
  /\ MaxProcs \in Nat /\ MaxCalls \in Nat /\ MaxRequests \in Nat
  /\ MaxMessages \in Nat /\ MaxChanges \in Nat

VARIABLES
  status,     \* the Status shown to the user
  pending,    \* the ids (numbers) of the requests in flight
  rqCount,    \* the next id
  process,    \* the process server.ts refers to, 0 when undefined
  polling,    \* the polling timer is set
  killing,    \* the killing timer is set
  reboot,     \* setImmediate(start) is scheduled
  spawnErrors,\* failed spawns whose error is still to come
  opening,    \* a socket is connecting (retries included)
  peer,       \* the process at the other end of the socket, 0 when none
  running,    \* SocketClient.running
  sent,       \* what the queue and the socket hold for the server
  replies,    \* messages of the server in transit
  active,     \* signals with listeners
  listen,     \* signals whose SIGON was sent
  debounced,  \* signals whose debounced sigoff is scheduled
  \* the environment
  spawned,    \* how many processes were spawned
  live,       \* processes that have not exited
  dying,      \* live processes that were killed or closed their socket
  changes,    \* CMDLINEON and CMDLINEOFF sent on this connection
  calls,      \* calls of the user so far
  wish        \* history: the user's last word is to restart

timers     == <<polling, killing, reboot, spawnErrors>>
connection == <<opening, peer, running, sent, replies, changes>>
requests   == <<pending, rqCount>>
signals    == <<active, listen, debounced>>
os         == <<spawned, live, dying>>
vars == <<status, process, calls, wish, timers, connection, requests, signals, os>>

Status == {"OFF", "STARTING", "ON", "CMD", "HALTING", "RESTARTING", "FAILURE"}
Procs  == 1..MaxProcs

\* A request is its id and whether the client has given it up (_clear): the
\* ids start again at 0 then, the answers do not tell.
Requests == [id : 0..MaxRequests - 1, stale : BOOLEAN]
Fresh(i) == [id |-> i, stale |-> FALSE]
Messages == [res : {"ANSWER"}, rq : Requests] \cup [res : {"CMDLINEON", "CMDLINEOFF"}]
Nothing  == [rq |-> {}, sig |-> {}]

TypeOK ==
  /\ status \in Status
  /\ pending \subseteq 0..MaxRequests - 1 /\ rqCount \in 0..MaxRequests
  /\ process \in 0..MaxProcs /\ peer \in 0..MaxProcs
  /\ polling \in BOOLEAN /\ killing \in BOOLEAN /\ reboot \in BOOLEAN
  /\ opening \in BOOLEAN /\ running \in BOOLEAN /\ wish \in BOOLEAN
  /\ spawnErrors \in Nat
  /\ sent \in [rq : SUBSET Requests, sig : SUBSET Signals]
  /\ replies \in Seq(Messages) /\ Len(replies) <= MaxMessages
  /\ active \subseteq Signals /\ listen \subseteq Signals /\ debounced \subseteq Signals
  /\ spawned \in 0..MaxProcs /\ live \subseteq 1..spawned /\ dying \subseteq live
  /\ changes \in 0..MaxChanges /\ calls \in 0..MaxCalls

Init ==
  /\ status = "OFF" /\ process = 0 /\ calls = 0 /\ wish = FALSE
  /\ polling = FALSE /\ killing = FALSE /\ reboot = FALSE /\ spawnErrors = 0
  /\ opening = FALSE /\ peer = 0 /\ running = FALSE /\ sent = Nothing
  /\ replies = <<>> /\ changes = 0
  /\ pending = {} /\ rqCount = 0
  /\ active = {} /\ listen = {} /\ debounced = {}
  /\ spawned = 0 /\ live = {} /\ dying = {}

-----------------------------------------------------------------------------
\* Status, READY and SHUTDOWN

IsRunningStatus(st) == st \in {"ON", "CMD"}
IsRunning == IsRunningStatus(status)

Enters(st) == IsRunningStatus(st) /\ ~IsRunning
Leaves(st) == IsRunning /\ ~IsRunningStatus(st)

SetStatusPlugged(st) ==  \* mutant
  /\ status' = st
  /\ listen' = IF Enters(st) THEN listen \cup active ELSE listen
  /\ debounced' = IF Leaves(st) THEN {} ELSE debounced
  /\ UNCHANGED active

\* SHUTDOWN unplugs every signal, READY sends SIGON for the active ones.
SetStatus(st) ==
  /\ status' = st
  /\ listen' = IF Leaves(st) THEN {} ELSE IF Enters(st) THEN listen \cup active ELSE listen
  /\ debounced' = IF Leaves(st) THEN {} ELSE debounced
  /\ UNCHANGED active

SigOnSent(st, box) ==
  IF Enters(st) THEN [box EXCEPT !.sig = @ \cup (active \ listen)] ELSE box

-----------------------------------------------------------------------------
\* The requests in flight and the socket

Stale(rq) == [rq EXCEPT !.stale = TRUE]
Forsaken(msg) == IF msg.res = "ANSWER" THEN [msg EXCEPT !.rq = Stale(@)] ELSE msg

\* _clear: the promises are rejected and the ids start again.
ClearRequests == rqCount' = 0 /\ pending' = {} /\ polling' = FALSE

ForsakeAll ==
  /\ sent' = [sent EXCEPT !.rq = {Stale(rq) : rq \in @}]
  /\ replies' = [i \in DOMAIN replies |-> Forsaken(replies[i])]
  /\ UNCHANGED <<opening, peer, running, changes>>

DisconnectRetrying ==  \* mutant
  /\ peer' = 0 /\ running' = FALSE /\ opening' = opening
  /\ sent' = Nothing /\ replies' = <<>> /\ changes' = 0

\* SocketClient.disconnect, which also stops the retries.
Disconnect ==
  /\ opening' = FALSE /\ peer' = 0 /\ running' = FALSE
  /\ sent' = Nothing /\ replies' = <<>> /\ changes' = 0

\* SocketClient.connect: the former socket is destroyed and what was written
\* to it is lost; what the queue held is kept, and so is running.
Connect ==
  /\ opening' = TRUE /\ peer' = 0 /\ replies' = <<>> /\ changes' = 0
  /\ sent' = IF running THEN Nothing ELSE sent
  /\ UNCHANGED running

-----------------------------------------------------------------------------
\* Start, stop, kill, restart, clear

\* _launch: the process is there in the microtask after the spawn, so no
\* other callback comes between; the error of a failed spawn is an event.
Spawn ==
  /\ spawned < MaxProcs
  /\ spawned' = spawned + 1 /\ live' = live \cup {spawned + 1} /\ process' = spawned + 1
  /\ Connect
  /\ UNCHANGED <<dying, spawnErrors>>

SpawnFails ==
  /\ spawnErrors' = spawnErrors + 1
  /\ UNCHANGED <<os, process, connection>>

StartCall ==
  \/ /\ status \in {"OFF", "FAILURE", "RESTARTING"}
     /\ SetStatus("STARTING") /\ wish' = FALSE
     /\ Spawn \/ SpawnFails
     /\ UNCHANGED <<requests, polling, killing>>
  \/ /\ status = "HALTING"
     /\ SetStatus("RESTARTING") /\ wish' = TRUE
     /\ UNCHANGED <<process, requests, polling, killing, spawnErrors, connection, os>>


\* What a killed process is, for its killer: it will exit.
Terminated == dying' = dying \cup ({process} \cap live)

KillProcess ==
  /\ Disconnect /\ Terminated
  /\ UNCHANGED <<spawned, live, process>>

ArmsKilling == process # 0

ShutdownUnarmed ==  \* mutant
  /\ ClearRequests /\ ForsakeAll
  /\ UNCHANGED <<killing, reboot, spawnErrors, os, process>>

\* _shutdown: the process will be killed after a while.  The SHUTDOWN that is
\* sent first is not kept in sent: a process may exit at any time anyway.
Shutdown ==
  /\ ClearRequests /\ ForsakeAll
  /\ killing' = ArmsKilling
  /\ UNCHANGED <<reboot, spawnErrors, os, process>>

Stop ==
  /\ wish' = FALSE
  /\ \/ /\ status = "STARTING"
        /\ SetStatus("HALTING") /\ KillProcess
        /\ UNCHANGED <<requests, timers>>
     \/ /\ status \in {"ON", "CMD", "HALTING"}
        /\ SetStatus("HALTING") /\ Shutdown
     \/ /\ status \in {"RESTARTING", "FAILURE"}
        /\ SetStatus(IF status = "RESTARTING" THEN "HALTING" ELSE "OFF")
        /\ UNCHANGED <<requests, timers, connection, os, process>>

Kill ==
  /\ wish' = FALSE
  /\ \/ /\ status \in {"ON", "CMD", "HALTING", "STARTING", "RESTARTING"}
        /\ SetStatus("HALTING") /\ KillProcess
        /\ UNCHANGED <<requests, timers>>
     \/ /\ status = "FAILURE"
        /\ SetStatus("OFF")
        /\ UNCHANGED <<requests, timers, connection, os, process>>

Restart ==
  \/ /\ status \in {"OFF", "FAILURE", "HALTING"}
     /\ StartCall /\ UNCHANGED reboot
  \/ /\ status \in {"ON", "CMD"}
     /\ SetStatus("RESTARTING") /\ wish' = TRUE /\ Shutdown

ClearConsole ==
  /\ status \in {"OFF", "FAILURE"}
  /\ SetStatus("OFF")
  /\ ClearRequests /\ ForsakeAll /\ killing' = FALSE
  /\ UNCHANGED <<reboot, spawnErrors, os, process, wish>>

UserCalls ==
  /\ calls < MaxCalls /\ calls' = calls + 1
  /\ (StartCall /\ UNCHANGED reboot) \/ Stop \/ Kill \/ Restart \/ ClearConsole

\* The setImmediate of _exit; start is a no-op when the user was faster.
Reboot ==
  /\ reboot /\ reboot' = FALSE
  /\ \/ StartCall
     \/ /\ status \in {"STARTING", "ON", "CMD"}
        /\ wish' = FALSE
        /\ UNCHANGED <<status, process, requests, polling, killing, spawnErrors,
                       connection, signals, os>>
  /\ UNCHANGED calls

-----------------------------------------------------------------------------
\* The process, its spawn and the killing timer

Reboots == status = "RESTARTING"

\* _exit, the end of whatever process or spawn.
Exit(error) ==
  /\ ClearRequests /\ Disconnect /\ killing' = FALSE
  /\ process' = 0
  /\ reboot' = (reboot \/ Reboots)
  /\ SetStatus(IF error THEN "FAILURE" ELSE "OFF")

ProcessExits(p) ==
  /\ p \in live
  /\ live' = live \ {p} /\ dying' = dying \ {p}
  /\ \E error \in BOOLEAN : Exit(error)
  /\ UNCHANGED <<spawned, spawnErrors, calls, wish>>

SpawnError ==
  /\ spawnErrors > 0 /\ spawnErrors' = spawnErrors - 1
  /\ Exit(FALSE)
  /\ UNCHANGED <<os, calls, wish>>

KillingTimer ==
  /\ killing /\ killing' = FALSE
  /\ Terminated
  /\ UNCHANGED <<status, process, polling, reboot, spawnErrors, connection, requests,
                 signals, spawned, live, calls, wish>>

-----------------------------------------------------------------------------
\* Events of the socket

Connected(p) ==
  /\ opening /\ p \in live
  /\ opening' = FALSE /\ peer' = p /\ running' = TRUE
  /\ SetStatus("CMD") /\ sent' = SigOnSent("CMD", sent)
  /\ polling' = TRUE
  /\ UNCHANGED <<process, killing, reboot, spawnErrors, replies, changes, requests,
                 os, calls, wish>>

\* The last retry fails, or the open socket breaks: the process is left alone.
SocketFails ==
  /\ opening \/ peer # 0
  /\ Disconnect
  /\ SetStatus("FAILURE") /\ ClearRequests /\ killing' = FALSE
  /\ wish' = FALSE
  /\ UNCHANGED <<process, reboot, spawnErrors, os, calls>>

\* The server closes its socket, as it does before it exits.
SocketEnds ==
  /\ peer \in live /\ replies = <<>>
  /\ Disconnect /\ dying' = dying \cup {peer}
  /\ UNCHANGED <<status, process, timers, requests, signals, spawned, live, calls, wish>>

\* The server, which only speaks in reply to what the client sends
\* (ServerMain); the client polls it for that.
Answers(rq) ==
  /\ peer \in live /\ rq \in sent.rq /\ Len(replies) < MaxMessages
  /\ sent' = [sent EXCEPT !.rq = @ \ {rq}]
  /\ replies' = Append(replies, [res |-> "ANSWER", rq |-> rq])
  /\ UNCHANGED <<status, process, timers, opening, peer, running, changes, requests,
                 signals, os, calls, wish>>

Announces ==
  /\ peer \in live /\ changes < MaxChanges /\ Len(replies) < MaxMessages
  /\ changes' = changes + 1
  /\ replies' = Append(replies,
       [res |-> IF changes % 2 = 0 THEN "CMDLINEOFF" ELSE "CMDLINEON"])
  /\ UNCHANGED <<status, process, timers, opening, peer, running, sent, requests,
                 signals, os, calls, wish>>

-----------------------------------------------------------------------------
\* Messages of the server

ResolvedEarly(id) ==  \* mutant
  /\ pending' = pending \ {id}
  /\ rqCount' = IF status = "ON" THEN 0 ELSE rqCount
  /\ polling' = (polling /\ status # "ON")

\* _resolved: an idle server is no longer polled.
Resolved(id) ==
  /\ pending' = pending \ {id}
  /\ LET idle == pending' = {} /\ status = "ON"
     IN  /\ rqCount' = IF idle THEN 0 ELSE rqCount
         /\ polling' = (polling /\ ~idle)

\* DATA, ERROR, KILLED or REJECTED: an answer nobody waits for is dropped.
OnAnswer(rq) ==
  /\ IF rq.id \in pending THEN Resolved(rq.id) ELSE UNCHANGED <<requests, polling>>
  /\ UNCHANGED <<status, signals, sent>>

PollsAlways(cmd) == cmd \/ polling  \* mutant

PollsAfter(cmd) == cmd \/ (polling /\ pending # {})

OnCmdLine(cmd) ==
  LET st == IF cmd THEN "CMD" ELSE "ON"
  IN  /\ SetStatus(st) /\ sent' = SigOnSent(st, sent)
      /\ polling' = PollsAfter(cmd)
      /\ UNCHANGED requests

Receive ==
  /\ replies # <<>> /\ replies' = Tail(replies)
  /\ LET msg == Head(replies)
     IN  IF msg.res = "ANSWER" THEN OnAnswer(msg.rq) ELSE OnCmdLine(msg.res = "CMDLINEON")
  /\ UNCHANGED <<process, killing, reboot, spawnErrors, opening, peer, running, changes,
                 os, calls, wish>>

-----------------------------------------------------------------------------
\* The user interface sends requests and listens to signals

PollsAsBefore == polling  \* mutant

PollsOnSend == TRUE

Send ==
  /\ IsRunning /\ rqCount < MaxRequests
  /\ rqCount' = rqCount + 1 /\ pending' = pending \cup {rqCount}
  /\ sent' = [sent EXCEPT !.rq = @ \cup {Fresh(rqCount)}]
  /\ polling' = PollsOnSend
  /\ UNCHANGED <<status, process, killing, reboot, spawnErrors, opening, peer, running,
                 replies, changes, signals, os, calls, wish>>

SigOn(s) == listen' = listen \cup {s} /\ sent' = [sent EXCEPT !.sig = @ \cup {s}]

\* The first listener of a signal.
On(s) ==
  /\ s \notin active /\ active' = active \cup {s}
  /\ IF IsRunning /\ s \notin listen THEN SigOn(s) ELSE UNCHANGED <<listen, sent>>
  /\ UNCHANGED <<status, process, timers, opening, peer, running, replies, changes,
                 requests, debounced, os, calls, wish>>

\* The last listener leaves; sigoff is debounced.
Off(s) ==
  /\ s \in active /\ active' = active \ {s}
  /\ debounced' = IF IsRunning THEN debounced \cup {s} ELSE debounced
  /\ UNCHANGED <<status, process, timers, connection, requests, listen, os, calls, wish>>

MaySigOffActive(s) == s \in listen /\ IsRunning  \* mutant

MaySigOff(s) == s \notin active /\ s \in listen /\ IsRunning

SigOff(s) ==
  /\ s \in debounced /\ debounced' = debounced \ {s}
  /\ IF MaySigOff(s)
     THEN listen' = listen \ {s} /\ sent' = [sent EXCEPT !.sig = @ \ {s}]
     ELSE UNCHANGED <<listen, sent>>
  /\ UNCHANGED <<status, process, timers, opening, peer, running, replies, changes,
                 requests, active, os, calls, wish>>

-----------------------------------------------------------------------------
SocketEvent ==
  \/ \E p \in Procs : Connected(p)
  \/ SocketFails \/ SocketEnds \/ Receive \/ Announces
  \/ \E rq \in Requests : Answers(rq)

Timer == KillingTimer \/ Reboot \/ (\E s \in Signals : SigOff(s))

User == UserCalls \/ Send \/ (\E s \in Signals : On(s) \/ Off(s))

Next == User \/ SocketEvent \/ Timer \/ SpawnError \/ (\E p \in Procs : ProcessExits(p))

Spec == Init /\ [][Next]_vars

\* Timers and immediates fire, messages are delivered, a process that was
\* killed or has closed its socket exits, and a server that is polled
\* answers (ServerMain: EveryRequestAnswered).  The user owes nothing.
Fairness ==
  /\ WF_vars(KillingTimer) /\ WF_vars(Reboot) /\ WF_vars(SpawnError) /\ WF_vars(Receive)
  /\ \A p \in Procs : WF_vars(p \in dying /\ ProcessExits(p))
  /\ \A rq \in Requests : WF_vars(polling /\ Answers(rq))

FairSpec == Spec /\ Fairness

-----------------------------------------------------------------------------
\* Properties

\* The id of the next request is not the id of a request in flight, whatever
\* resets rqCount: a second pending.set would lose the first promise.
FreshIds == \A id \in pending : id < rqCount

\* A server that is running but idle is not polled.
QuietWhenIdle == (status = "ON" /\ pending = {}) => ~polling

\* The table of the requests in flight agrees with the counter of their ids
\* and with the polling timer, across both resets (_clear and _resolved).
RequestsTracked == FreshIds /\ QuietWhenIdle

\* While the server runs, a signal with listeners is a signal the server at
\* the other end of the connection was told to send.
ListenersAreHeard ==
  IsRunning => /\ active \subseteq listen
               /\ running => listen \subseteq sent.sig

\* A signal nobody listens to any more is about to be switched off.
NoLeakedSignal == \A s \in listen \ active : s \in debounced

\* The signals the server was told to send are the ones with listeners, save
\* those whose SIGOFF is debounced.
SignalsTracked == ListenersAreHeard /\ NoLeakedSignal

\* The server that is shown, or is being stopped, is a process stop and kill
\* can reach, unless the error of its spawn is on its way.
ServerIsReachable ==
  /\ IsRunning => process \in live
  /\ status \in {"STARTING", "HALTING", "RESTARTING"} => process \in live \/ spawnErrors > 0

\* The doc of restart: shut down "and finally schedule a reboot on exit".
RestartHonoured == (wish /\ status = "OFF") => reboot

\* A server that was asked to stop or restart does not go on as it was: it is
\* off, or starting again.
HaltEnds == (status \in {"HALTING", "RESTARTING"}) ~> (status \in {"OFF", "FAILURE", "STARTING"})

\* The promise of every request is settled: by its answer, or by the end of
\* the server.
RequestsSettle == \A id \in 0..MaxRequests - 1 : id \in pending ~> id \notin pending
=============================================================================
