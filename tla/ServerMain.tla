----------------------------- MODULE ServerMain -----------------------------
(* The request server of the Server plug-in (plugins/server/src/main.ml): the queue of pending
   processes, the queue of responses, the signals, the killing of requests, the asynchronous jobs,
   and the two lives of a server, in the background of the command line (start) then as main loop
   (run).  One OCaml thread does everything; what interleaves with it is the client, and what nests
   in it is the exchange with the client (communicate) that Async.yield runs inside the command
   line, inside an EXEC handler or inside a job.

   A response is a pair <<outcome, id>>, a signal response <<"signal", s>>.  The data of requests
   and responses is left out.  Polling delays are left out: a yield may or may not communicate. *)
EXTENDS Naturals, FiniteSets, Sequences

CONSTANTS Ids,        \* the identifiers the client gives to its requests, each used once
          Signals,    \* the registered signals
          Jobs,       \* the jobs given to Main.async
          NoOne,      \* no request and no job
          Orders,     \* how many KILL, SIGON, SIGOFF and SHUTDOWN commands the client sends
          Window,     \* how many commands may be on their way to the server
          MayRaise    \* whether an on_signal callback or a GET handler may let an exception out

ASSUME ServerAssumption ==
    /\ Orders \in Nat /\ Window \in Nat \ {0} /\ MayRaise \in BOOLEAN
    /\ Ids \cap Jobs = {} /\ NoOne \notin Ids \cup Jobs

VARIABLES stage,      \* where the process of Frama-C stands
          running, qin, qout, listen, emitted, pending, shutdown, cmdline,   \* record server
          canceled,   \* Async.canceled
          comm,       \* communicate is in progress
          batch,      \* the requests of the message that remain to be processed
          thrown,     \* the exception that leaves the last yield or communicate
          job,        \* the status ref of each job
          wire,       \* commands sent by the client, not fetched yet
          orders, sent,                     \* what the client has sent
          told, owed, asked, cut, interrupted, view   \* history, see below

server  == <<running, qin, qout, listen, emitted, pending, shutdown, cmdline>>
client  == <<wire, orders, sent>>
history == <<told, owed, asked, cut, interrupted, view>>
vars    == <<stage, server, canceled, comm, batch, thrown, job, client, history>>

(* History.  told: the answer delivered to each request.  owed: the signals emitted since the
   client was last told.  asked: the requests a KILL found in the queue; cut: those of a message
   that an exception stopped.  interrupted: the requests whose handler was stopped by Killed.
   view: the last of CMDLINEON and CMDLINEOFF the client received. *)

Kinds == {"GET", "SET", "EXEC", "unknown"}
Outcomes == {"data", "error", "killed", "rejected"}
Commands == {<<"poll">>, <<"shutdown">>} \cup ({"kill"} \X Ids) \cup ({"sigon", "sigoff"} \X Signals)
              \cup (Kinds \X Ids)
Process == [kind : {"SET", "EXEC"}, ref : Ids, killed : BOOLEAN]
Command == [kind : {"CMD"}, ref : Jobs, killed : {FALSE}]

EnqueuedIdle(p) == IF running.ref # NoOne THEN qin ELSE Append(qin, p)     \* mutant
Enqueued(p) == Append(qin, p)

Idle    == [kind |-> "Idle", ref |-> NoOne, killed |-> FALSE]
CmdLine == [kind |-> "CmdLine", ref |-> NoOne, killed |-> FALSE]
Running == {Idle, CmdLine} \cup {[CmdLine EXCEPT !.ref = j] : j \in Jobs} \cup Process
Responses == (Outcomes \X Ids) \cup ({"signal"} \X Signals)

Init ==
    /\ stage = "created" /\ running = Idle /\ qin = <<>> /\ qout = <<>>
    /\ listen = {} /\ emitted = {} /\ pending = {} /\ shutdown = FALSE /\ cmdline = "none"
    /\ canceled = FALSE /\ comm = FALSE /\ batch = <<>> /\ thrown = "none"
    /\ job = [j \in Jobs |-> "none"]
    /\ wire = <<>> /\ orders = Orders /\ sent = {}
    /\ told = [i \in Ids |-> "no"] /\ owed = {} /\ asked = {} /\ cut = {}
    /\ interrupted = {} /\ view = "none"

-----------------------------------------------------------------------------
(* The client, from the other end of the socket. *)

Issue(c) == wire' = Append(wire, c) /\ UNCHANGED <<stage, server, canceled, comm, batch, thrown, job, history>>

ClientSends(k, i) ==
    /\ Len(wire) < Window /\ i \notin sent
    /\ Issue(<<k, i>>) /\ sent' = sent \cup {i} /\ UNCHANGED orders

ClientOrders(c) ==
    /\ Len(wire) < Window /\ orders > 0 /\ (c[1] = "kill" => c[2] \in sent)
    /\ Issue(c) /\ orders' = orders - 1 /\ UNCHANGED sent

ClientPolls == wire = <<>> /\ Issue(<<"poll">>) /\ UNCHANGED <<orders, sent>>

-----------------------------------------------------------------------------
(* Signals *)

EmitterOn == stage \in {"cmdline", "loop"}

DoSignal(s) ==
    \/ s \in listen /\ s \notin emitted
       /\ emitted' = emitted \cup {s} /\ qout' = Append(qout, <<"signal", s>>) /\ UNCHANGED pending
    \/ s \in listen /\ s \in emitted /\ UNCHANGED <<emitted, pending, qout>>
    \/ s \notin listen /\ pending' = pending \cup {s} /\ UNCHANGED <<emitted, qout>>

(* Any code of Frama-C may emit: a handler, the command line, a daemon run while the loop sleeps;
   inside communicate, only the GET handlers and the on_signal callbacks (in DoSigOn) do. *)
At(c) == comm /\ batch # <<>> /\ Head(batch)[1] = c
Emit(s) ==
    /\ EmitterOn /\ thrown = "none" /\ (comm => At("GET"))
    /\ DoSignal(s)
    /\ owed' = owed \cup {s}
    /\ UNCHANGED <<stage, running, qin, listen, shutdown, cmdline, canceled, comm, batch, thrown,
                   job, client, told, asked, cut, interrupted, view>>

-----------------------------------------------------------------------------
(* Killing *)

Sets(p) == [p EXCEPT !.killed = TRUE]
KillQueue(i) == [k \in DOMAIN qin |-> IF qin[k].kind # "CMD" /\ qin[k].ref = i THEN Sets(qin[k]) ELSE qin[k]]

IsExec == running.kind \in {"SET", "EXEC"}
KillRunning(hit) == running' = IF IsExec /\ hit THEN Sets(running) ELSE running
KillAll ==
    /\ KillRunning(TRUE)
    /\ canceled' = (canceled \/ running.kind = "CmdLine")

-----------------------------------------------------------------------------
(* process_request: one action per command, on the head of the batch. *)

Next1(c) == At(c) /\ batch' = Tail(batch) /\ UNCHANGED cut
Arg == Head(batch)[2]
SameExchange == UNCHANGED <<stage, cmdline, comm, job, client, told, interrupted, view>>

DoPoll ==
    /\ Next1("poll") /\ SameExchange
    /\ UNCHANGED <<running, qin, qout, listen, emitted, pending, shutdown, canceled, thrown, owed, asked>>

DoShutdown ==
    /\ Next1("shutdown") /\ SameExchange
    /\ KillAll /\ qin' = <<>> /\ qout' = <<>> /\ shutdown' = TRUE
    /\ UNCHANGED <<listen, emitted, pending, thrown, owed, asked>>

InBatch(i) == {k \in DOMAIN batch : batch[k][1] \in Kinds /\ batch[k][2] = i}

(* The on_signal callbacks run at the end of SIGON and SIGOFF, the handler of a GET on the spot; one
   that raises (for a handler: what run does not catch) drops the rest of the message. *)
Raises(c) ==
    /\ MayRaise /\ At(c)
    /\ batch' = <<>> /\ thrown' = "Failure"
    /\ cut' = cut \cup {i \in Ids : InBatch(i) # {}}
Notify(c) == (Next1(c) /\ UNCHANGED thrown) \/ Raises(c)

MovePendingKept(s) == emitted' = emitted /\ qout' = qout /\ pending' = pending \ {s}     \* mutant
MovePending(s) ==
    IF s \in pending
      THEN emitted' = emitted \cup {s} /\ pending' = pending \ {s} /\ qout' = Append(qout, <<"signal", s>>)
      ELSE UNCHANGED <<emitted, pending, qout>>
(* The callback that installs the hooks of a state emits the signal (States.install_hook). *)
FirstHook(s) ==
    /\ s \notin pending \cup emitted /\ EmitterOn
    /\ emitted' = emitted \cup {s} /\ qout' = Append(qout, <<"signal", s>>) /\ UNCHANGED pending
    /\ owed' = owed \cup {s}
DoSigOn ==
    /\ Notify("sigon") /\ SameExchange
    /\ listen' = listen \cup {Arg}
    /\ \/ MovePending(Arg) /\ UNCHANGED owed
       \/ FirstHook(Arg)
    /\ UNCHANGED <<running, qin, shutdown, canceled, asked>>

DoSigOff ==
    /\ Notify("sigoff") /\ SameExchange
    /\ listen' = listen \ {Arg}
    /\ UNCHANGED <<running, qin, qout, emitted, pending, shutdown, canceled, owed, asked>>

DoKill ==
    /\ Next1("kill") /\ SameExchange
    /\ KillRunning(running.ref = Arg) /\ qin' = KillQueue(Arg)
    /\ asked' = asked \cup {i \in {Arg} : \E k \in DOMAIN qin : qin[k].ref = i}
    /\ UNCHANGED <<qout, listen, emitted, pending, shutdown, canceled, thrown, owed>>

(* GET runs at once, SET and EXEC wait in q_in, an unknown request is rejected. *)
DoGet ==
    /\ \/ Next1("GET") /\ UNCHANGED thrown /\ \E r \in {"data", "error"} : qout' = Append(qout, <<r, Arg>>)
       \/ Raises("GET") /\ UNCHANGED qout
    /\ SameExchange
    /\ UNCHANGED <<running, qin, listen, emitted, pending, shutdown, canceled, owed, asked>>

DoRequest(k) ==
    /\ Next1(k) /\ SameExchange
    /\ qin' = Enqueued([kind |-> k, ref |-> Arg, killed |-> FALSE])
    /\ UNCHANGED <<running, qout, listen, emitted, pending, shutdown, canceled, thrown, owed, asked>>

DoUnknown ==
    /\ Next1("unknown") /\ SameExchange
    /\ qout' = Append(qout, <<"rejected", Arg>>)
    /\ UNCHANGED <<running, qin, listen, emitted, pending, shutdown, canceled, thrown, owed, asked>>

ProcessRequest ==
    DoPoll \/ DoShutdown \/ DoSigOn \/ DoSigOff \/ DoKill \/ DoGet
      \/ (\E k \in {"SET", "EXEC"} : DoRequest(k)) \/ DoUnknown

-----------------------------------------------------------------------------
(* communicate: fetch some of the commands that have arrived, process them, reply with all the
   responses, then let an exception or a cancellation out. *)

Calling == ~comm /\ thrown = "none"

Communicate ==
    /\ wire # <<>>
    /\ \E n \in 1..Len(wire) : batch' = SubSeq(wire, 1, n) /\ wire' = SubSeq(wire, n + 1, Len(wire))
    /\ comm' = TRUE
    /\ UNCHANGED <<stage, server, canceled, thrown, job, orders, sent, history>>

Answers(i) == {r \in Outcomes : \E k \in DOMAIN qout : qout[k] = <<r, i>>}
Delivered == {s \in Signals : \E k \in DOMAIN qout : qout[k] = <<"signal", s>>}
ClearedKept == emitted' = emitted /\ qout' = <<>> /\ cmdline' = "none"        \* mutant
Cleared == emitted' = {} /\ qout' = <<>> /\ cmdline' = "none"
InYield == running # Idle

Reply ==
    /\ comm /\ batch = <<>>
    /\ comm' = FALSE
    /\ told' = [i \in Ids |-> IF Answers(i) = {} THEN told[i] ELSE CHOOSE r \in Answers(i) : TRUE]
    /\ owed' = owed \ Delivered
    /\ view' = IF cmdline = "none" THEN view ELSE cmdline
    /\ Cleared
    /\ IF thrown = "none" /\ canceled /\ InYield
         THEN thrown' = "Cancel" /\ canceled' = FALSE
         ELSE UNCHANGED <<thrown, canceled>>
    /\ UNCHANGED <<stage, running, qin, listen, pending, shutdown, batch, job, client, asked, cut, interrupted>>

-----------------------------------------------------------------------------
(* The background of the command line *)

Start ==
    /\ stage = "created" /\ stage' = "cmdline" /\ running' = CmdLine /\ cmdline' = "on"
    /\ UNCHANGED <<qin, qout, listen, emitted, pending, shutdown, canceled, comm, batch, thrown, job, client, history>>

(* stop, at exit, when the command line fails. *)
Stop ==
    /\ stage = "cmdline" /\ ~comm
    /\ canceled' = TRUE
    /\ stage' = "ended" /\ running' = Idle /\ cmdline' = "none"
    /\ UNCHANGED <<qin, qout, listen, emitted, pending, shutdown, comm, batch, thrown, job, client, history>>

AnnounceNothing == cmdline' = cmdline              \* mutant
Announce == cmdline' = "off"
Foreground ==
    /\ stage = "cmdline" /\ Calling
    /\ stage' = "loop" /\ running' = Idle /\ Announce
    /\ UNCHANGED <<qin, qout, listen, emitted, pending, shutdown, canceled, comm, batch, thrown, job, client, history>>

-----------------------------------------------------------------------------
(* The main loop *)

Looping == stage = "loop" /\ Calling /\ running = Idle /\ ~shutdown

LoopExchange == Looping /\ qin = <<>> /\ Communicate

(* A killed process is dropped without answer; the command of a job that has already returned has
   nothing to do. *)
SkipsKilled(p) == p.killed              \* mutant
SkipsReturned(p) == p.kind = "CMD" /\ job[p.ref] # "yield"              \* mutant
Skips(p) == p.killed \/ (p.kind = "CMD" /\ job[p.ref] # "yield")
PoppedPeek == qin              \* mutant
Popped == Tail(qin)
AsRunning(p) == IF p.kind = "CMD" THEN [CmdLine EXCEPT !.ref = p.ref] ELSE p
Pop ==
    /\ Looping /\ qin # <<>> /\ qin' = Popped
    /\ running' = IF Skips(Head(qin)) THEN Idle ELSE AsRunning(Head(qin))
    /\ UNCHANGED <<stage, qout, listen, emitted, pending, shutdown, cmdline, canceled, comm, batch, thrown, job, client, history>>

EndLoop ==
    /\ stage = "loop" /\ Calling /\ running = Idle /\ shutdown
    /\ stage' = "ended"
    /\ UNCHANGED <<server, canceled, comm, batch, thrown, job, client, history>>

(* Ctrl+C leaves the loop; a request in progress is left without answer. *)
Break ==
    /\ stage = "loop" /\ Calling
    /\ stage' = "ended" /\ running' = Idle
    /\ UNCHANGED <<qin, qout, listen, emitted, pending, shutdown, cmdline, canceled, comm, batch, thrown, job, client, history>>

-----------------------------------------------------------------------------
(* Async.yield, called by the command line, by an EXEC handler or by a job: the daemon do_yield
   raises if the process was killed, and Async.fire turns this exception into Failure. *)

MayYield == Calling /\ running.kind \in {"EXEC", "CmdLine"}

YieldKilled ==
    /\ MayYield /\ running.killed
    /\ thrown' = "Failure" /\ interrupted' = interrupted \cup {running.ref}
    /\ UNCHANGED <<stage, server, canceled, comm, batch, job, client, told, owed, asked, cut, view>>

YieldExchange == MayYield /\ ~running.killed /\ Communicate

-----------------------------------------------------------------------------
(* The end of a handler: its result, or the exception it lets through, is pushed to the client. *)

Done(r) ==
    /\ qout' = Append(qout, <<r, running.ref>>) /\ running' = Idle
    /\ UNCHANGED <<stage, qin, listen, emitted, pending, shutdown, cmdline, canceled, comm, batch, job, client, history>>

HandlerEnds == IsExec /\ Calling /\ (Done("data") \/ Done("error")) /\ UNCHANGED thrown
HandlerThrown == IsExec /\ ~comm /\ thrown # "none" /\ Done("error") /\ thrown' = "none"

(* An exception that leaves communicate reaches the top of the program when nothing runs. *)
Fatal ==
    /\ thrown # "none" /\ ~comm /\ running = Idle /\ stage = "loop"
    /\ stage' = "ended"
    /\ UNCHANGED <<server, canceled, comm, batch, thrown, job, client, history>>

-----------------------------------------------------------------------------
(* Asynchronous jobs (Main.async on a running server) *)

Returned == {"result", "failed", "canceled"}

Schedule(j) ==
    /\ stage = "loop" /\ thrown = "none" /\ job[j] = "none" /\ ~shutdown
    /\ job' = [job EXCEPT ![j] = "yield"]
    /\ qin' = Enqueued([kind |-> "CMD", ref |-> j, killed |-> FALSE])
    /\ UNCHANGED <<stage, running, qout, listen, emitted, pending, shutdown, cmdline, canceled, comm, batch, thrown, client, history>>

(* The task of the job receives a Kill coin. *)
KillJob(j) ==
    /\ stage = "loop" /\ thrown = "none" /\ job[j] = "yield"
    /\ job' = [job EXCEPT ![j] = "canceled"]
    /\ UNCHANGED <<stage, server, canceled, comm, batch, thrown, client, history>>

InJob == stage = "loop" /\ running.kind = "CmdLine" /\ ~comm
JobReturns(st) ==
    /\ job' = [job EXCEPT ![running.ref] = st] /\ running' = Idle
    /\ UNCHANGED <<stage, qin, qout, listen, emitted, pending, shutdown, cmdline, canceled, comm, batch, client, history>>

JobEnds ==
    /\ InJob /\ thrown = "none"
    /\ \E st \in {"result", "failed"} : JobReturns(st)
    /\ UNCHANGED thrown
JobThrown ==
    /\ InJob /\ thrown # "none"
    /\ JobReturns(IF thrown = "Cancel" THEN "canceled" ELSE "failed")
    /\ thrown' = "none"

-----------------------------------------------------------------------------
(* The command line catches some of the exceptions of its yields. *)
Caught ==
    /\ stage = "cmdline" /\ ~comm /\ thrown # "none"
    /\ thrown' = "none"
    /\ UNCHANGED <<stage, server, canceled, comm, batch, job, client, history>>

ClientStep ==
    \/ \E k \in Kinds, i \in Ids : ClientSends(k, i)
    \/ \E c \in Commands : c[1] \in {"kill", "sigon", "sigoff", "shutdown"} /\ ClientOrders(c)
    \/ ClientPolls

ServerStep ==
    \/ ProcessRequest \/ Reply
    \/ Start \/ Stop \/ Foreground
    \/ LoopExchange \/ Pop \/ EndLoop \/ Break
    \/ YieldKilled \/ YieldExchange \/ Caught
    \/ HandlerEnds \/ HandlerThrown \/ Fatal
    \/ JobEnds \/ JobThrown

PluginStep ==
    \/ \E s \in Signals : Emit(s)
    \/ \E j \in Jobs : Schedule(j) \/ KillJob(j)

Next == ClientStep \/ ServerStep \/ PluginStep

Spec == Init /\ [][Next]_vars

(* The command line ends, handlers and jobs end, the loop never stops for long, and the client
   polls while it waits (Ivette does so every 200 ms). *)
Fairness ==
    /\ WF_vars(ProcessRequest) /\ WF_vars(Reply)
    /\ WF_vars(Start) /\ SF_vars(Foreground \/ Stop)
    /\ WF_vars(LoopExchange \/ Pop \/ EndLoop)
    /\ SF_vars(HandlerEnds) /\ WF_vars(HandlerThrown) /\ SF_vars(JobEnds) /\ WF_vars(JobThrown) /\ WF_vars(Fatal)
    /\ WF_vars(ClientPolls)

FairSpec == Spec /\ Fairness

-----------------------------------------------------------------------------
(* Properties *)

TypeOK ==
    /\ stage \in {"created", "cmdline", "loop", "ended"}
    /\ running \in Running
    /\ qin \in Seq(Process \cup Command) /\ qout \in Seq(Responses)
    /\ listen \subseteq Signals /\ emitted \subseteq Signals /\ pending \subseteq Signals
    /\ shutdown \in BOOLEAN /\ cmdline \in {"none", "on", "off"} /\ canceled \in BOOLEAN
    /\ comm \in BOOLEAN /\ batch \in Seq(Commands) /\ thrown \in {"none", "Failure", "Cancel"}
    /\ job \in [Jobs -> {"none", "yield"} \cup Returned]
    /\ wire \in Seq(Commands) /\ orders \in 0..Orders /\ sent \subseteq Ids
    /\ told \in [Ids -> {"no"} \cup Outcomes] /\ owed \subseteq Signals
    /\ asked \cup cut \cup interrupted \subseteq Ids
    /\ view \in {"none", "on", "off"}

Waiting(i) == {k \in DOMAIN qin : qin[k].kind # "CMD" /\ qin[k].ref = i}
Answering(i) == {k \in DOMAIN qout : qout[k][1] \in Outcomes /\ qout[k][2] = i}
OnTheWay(i) == {k \in DOMAIN wire : wire[k][1] \in Kinds /\ wire[k][2] = i}

(* A request is in one place at a time: it is never answered twice, never queued again while its
   handler runs, never answered while it waits (execute_process, process).  It is not lost either,
   unless it was killed in the queue, the server was shut down or left, or an exception cut the
   message (process_request). *)
Places(i) == Cardinality(Waiting(i)) + Cardinality(Answering(i)) + Cardinality(OnTheWay(i))
               + Cardinality(InBatch(i)) + (IF running.ref = i THEN 1 ELSE 0) + (IF told[i] # "no" THEN 1 ELSE 0)
AnsweredOnce ==
    \A i \in Ids : /\ Places(i) <= 1
                   /\ i \in sent => Places(i) = 1 \/ i \in asked \cup cut \/ shutdown \/ stage = "ended"

(* The service the client sees (RequestService): where each request stands. *)
Phase(i) == IF told[i] # "no" THEN "told"
            ELSE IF Answering(i) # {} THEN "answered"
            ELSE IF i \notin sent THEN "unsent"
            ELSE IF Places(i) = 0 THEN "dropped" ELSE "sent"
Service == INSTANCE RequestService WITH phase <- [i \in Ids |-> Phase(i)]
ImplementsService == Service!Spec

(* A signal emitted since the client was last told is waiting to be told: it is in the responses or
   among the pending signals, whatever SIGON and SIGOFF did meanwhile (do_signal, process_request).
   A pending signal is not listened to, and an emitted one has its response queued. *)
SignalsKept ==
    /\ pending \cap listen = {}
    /\ shutdown \/ emitted \subseteq Delivered
    /\ shutdown \/ \A s \in owed : s \in pending \/ s \in Delivered

(* A request killed while it waits never runs and is never answered (process, line 345). *)
KilledNeverRuns == \A i \in asked : running.ref # i /\ Answering(i) = {} /\ told[i] = "no"

(* The command of a job is queued once or running, and nowhere once it has returned: a job is neither
   lost nor executed again, whatever Kill, Cancel and exceptions do to its status while its command
   stays where it is (schedule, process). *)
Commanded(j) == {k \in DOMAIN qin : qin[k].kind = "CMD" /\ qin[k].ref = j}
JobPlaces(j) == Cardinality(Commanded(j)) + (IF running.ref = j THEN 1 ELSE 0)
JobTracked(j) ==
    /\ JobPlaces(j) <= 1
    /\ job[j] = "yield" => JobPlaces(j) = 1 \/ shutdown \/ stage = "ended"
    /\ job[j] \in {"none", "result", "failed"} => JobPlaces(j) = 0

(* A job canceled while its command waits stays canceled: no later execution gives its task another
   outcome than the one its client has seen (schedule). *)
CanceledStays == \A j \in Jobs : [](job[j] = "canceled" /\ running.ref # j => [](job[j] = "canceled"))

JobsServedOnce == [](\A j \in Jobs : JobTracked(j)) /\ CanceledStays

(* The client's view of the command line is the truth as soon as the notification is delivered. *)
ClientKnows == cmdline = "none" => CASE stage = "cmdline" -> view = "on"
                                     [] stage = "loop" -> view = "off"
                                     [] OTHER -> TRUE

(* Every request is answered, unless it was killed, cut by an exception, or the server left, and
   every job returns, unless the server left. *)
EveryRequestAnswered ==
    \A i \in Ids : i \in sent ~> told[i] # "no" \/ i \in asked \cup cut \/ stage = "ended"
EveryJobReturns == \A j \in Jobs : job[j] = "yield" ~> job[j] \in Returned \/ stage = "ended"
EverythingServed == EveryRequestAnswered /\ EveryJobReturns

(* A signal the client listens to is told to it. *)
SignalsDelivered ==
    \A s \in Signals : s \in owed /\ s \in listen ~> s \notin owed \/ s \notin listen \/ stage = "ended"

-----------------------------------------------------------------------------
(* What the documentation says and the code does not do. *)

(* doc/server.md: KILLED, "the request has been killed or interrupted". *)
InterruptedIsKilled ==
    \A i \in interrupted : \A k \in Answering(i) : qout[k][1] = "killed"
=============================================================================
