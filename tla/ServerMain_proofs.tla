-------------------------- MODULE ServerMain_proofs --------------------------
(* Theorems about ServerMain, for every value of its constants.            *)
EXTENDS ServerMain, SequenceCounts, FiniteSetTheorems, TLAPS

-----------------------------------------------------------------------------
(* What the data of the model look like.                                   *)

LEMMA CommandForms ==
  ASSUME NEW c \in Commands
  PROVE  /\ c[1] \in Kinds \cup {"kill"} => c[2] \in Ids
         /\ c[1] \in {"sigon", "sigoff"} => c[2] \in Signals
         /\ \A i : c \in Kinds \X {i} <=> c[1] \in Kinds /\ c[2] = i
  BY DEF Commands, Kinds

LEMMA ResponseForms ==
  ASSUME NEW r \in Responses
  PROVE  /\ r = <<r[1], r[2]>>
         /\ \A i : r \in Outcomes \X {i} <=> r[1] \in Outcomes /\ r[2] = i
  BY DEF Responses, Outcomes

LEMMA RunningForms ==
  ASSUME NEW r \in Running
  PROVE  /\ r.ref \in Ids \cup Jobs \cup {NoOne}
         /\ r.kind \in {"Idle", "CmdLine", "SET", "EXEC"}
         /\ r.kind \in {"SET", "EXEC"} <=> r \in Process
         /\ r \in Process <=> r.ref \in Ids
         /\ r.killed => r \in Process
         /\ r \in Process => Sets(r) \in Running /\ Sets(r) \in Process /\ Sets(r).ref = r.ref /\ Sets(r).kind = r.kind
<1> USE ServerAssumption DEF Running, Idle, CmdLine, Process, Sets
<1>1. CASE r \in {Idle, CmdLine}
  BY <1>1
<1>2. ASSUME NEW j \in Jobs, r = [CmdLine EXCEPT !.ref = j]
      PROVE  r.ref = j /\ r.kind = "CmdLine" /\ r.killed = FALSE
  BY <1>2
<1>3. CASE r \in Process
  BY <1>3
<1> QED
  BY <1>1, <1>2, <1>3

LEMMA EntryForms ==
  ASSUME NEW p \in Process \cup Command
  PROVE  /\ p.kind # "CMD" <=> p \in Process
         /\ p \in Process <=> p.ref \in Ids
         /\ p \in Command <=> p.ref \in Jobs
         /\ p \in Process => Sets(p) \in Process /\ Sets(p).ref = p.ref /\ Sets(p).killed
         /\ AsRunning(p) \in Running /\ AsRunning(p).ref = p.ref
         /\ p.killed => p \in Process
         /\ \A i \in Ids : p \in [kind : {"SET", "EXEC"}, ref : {i}, killed : BOOLEAN] <=> p.kind # "CMD" /\ p.ref = i
  BY ServerAssumption DEF Process, Command, Sets, AsRunning, Running, CmdLine

-----------------------------------------------------------------------------
(* Types.                                                                  *)

LEMMA KillRunningType ==
  ASSUME TypeOK, NEW hit, KillRunning(hit)
  PROVE  /\ running' \in Running /\ running'.ref = running.ref /\ running'.kind = running.kind
         /\ IsExec' <=> IsExec
<1>1. running \in Running
  BY DEF TypeOK
<1>2. CASE IsExec /\ hit
  BY <1>1, <1>2, RunningForms DEF KillRunning, IsExec
<1>3. CASE ~(IsExec /\ hit)
  BY <1>1, <1>3 DEF KillRunning, IsExec
<1> QED
  BY <1>2, <1>3

LEMMA KillQueueType ==
  ASSUME TypeOK, NEW i
  PROVE  /\ KillQueue(i) \in Seq(Process \cup Command) /\ DOMAIN KillQueue(i) = DOMAIN qin
         /\ \A k \in DOMAIN qin :
              /\ KillQueue(i)[k].ref = qin[k].ref
              /\ KillQueue(i)[k] \in Process <=> qin[k] \in Process
              /\ qin[k].killed => KillQueue(i)[k].killed
              /\ qin[k].ref = i /\ i \in Ids => KillQueue(i)[k].killed
              /\ KillQueue(i)[k].killed => qin[k].killed \/ qin[k].ref = i
<1> DEFINE q == KillQueue(i)
<1>1. qin \in Seq(Process \cup Command)
  BY DEF TypeOK
<1>2. DOMAIN q = 1 .. Len(qin) /\ Len(qin) \in Nat /\ DOMAIN qin = 1 .. Len(qin)
  BY <1>1 DEF KillQueue
<1>3. ASSUME NEW k \in DOMAIN qin
      PROVE  /\ q[k] \in Process \cup Command
             /\ q[k].ref = qin[k].ref
             /\ q[k] \in Process <=> qin[k] \in Process
             /\ qin[k].killed => q[k].killed
             /\ qin[k].ref = i /\ i \in Ids => q[k].killed
             /\ q[k].killed => qin[k].killed \/ qin[k].ref = i
  <2>1. qin[k] \in Process \cup Command
    BY <1>1
  <2>2. CASE qin[k].kind # "CMD" /\ qin[k].ref = i
    <3>1. q[k] = Sets(qin[k])
      BY <2>2 DEF KillQueue
    <3> QED
      BY <3>1, <2>1, <2>2, EntryForms
  <2>3. CASE ~(qin[k].kind # "CMD" /\ qin[k].ref = i)
    <3>1. q[k] = qin[k]
      BY <2>3 DEF KillQueue
    <3> QED
      BY <3>1, <2>1, <2>3, EntryForms
  <2> QED
    BY <2>2, <2>3
<1>4. q \in Seq(Process \cup Command)
  <2>1. q \in [1 .. Len(qin) -> Process \cup Command]
    BY <1>2, <1>3 DEF KillQueue
  <2> HIDE DEF q
  <2> QED
    BY <2>1, <1>2
<1> QED
  BY <1>2, <1>3, <1>4

LEMMA BatchHead ==
  ASSUME TypeOK, batch # <<>>
  PROVE  Head(batch) \in Commands /\ Tail(batch) \in Seq(Commands)
  BY DEF TypeOK

LEMMA InitType == Init => TypeOK
<1>1. <<>> \in Seq(Process \cup Command) /\ <<>> \in Seq(Responses) /\ <<>> \in Seq(Commands)
  OBVIOUS
<1>2. Orders \in 0 .. Orders
  BY ServerAssumption
<1>3. [j \in Jobs |-> "none"] \in [Jobs -> {"none", "yield"} \cup Returned]
  OBVIOUS
<1>4. [i \in Ids |-> "no"] \in [Ids -> {"no"} \cup Outcomes]
  OBVIOUS
<1> QED
  BY <1>1, <1>2, <1>3, <1>4 DEF Init, TypeOK, Running

LEMMA ClientType == ASSUME TypeOK, ClientStep PROVE TypeOK'
<1>1. ASSUME NEW c \in Commands, Issue(c) PROVE wire' \in Seq(Commands)
  BY <1>1 DEF Issue, TypeOK
<1>2. ASSUME NEW k \in Kinds, NEW i \in Ids, ClientSends(k, i) PROVE TypeOK'
  <2>1. <<k, i>> \in Commands
    BY DEF Commands
  <2> QED
    BY <1>1, <1>2, <2>1 DEF ClientSends, Issue, TypeOK, server, history
<1>3. ASSUME NEW c \in Commands, ClientOrders(c) PROVE TypeOK'
  <2>1. orders' \in 0 .. Orders
    BY <1>3, ServerAssumption DEF ClientOrders, TypeOK
  <2> QED
    BY <1>1, <1>3, <2>1 DEF ClientOrders, Issue, TypeOK, server, history
<1>4. CASE ClientPolls
  <2>1. <<"poll">> \in Commands
    BY DEF Commands
  <2> QED
    BY <1>1, <1>4, <2>1 DEF ClientPolls, Issue, TypeOK, server, history
<1> QED
  BY <1>2, <1>3, <1>4 DEF ClientStep

LEMMA SignalType ==
  ASSUME TypeOK, NEW s \in Signals, DoSignal(s) \/ MovePending(s) \/ FirstHook(s)
  PROVE  emitted' \in SUBSET Signals /\ pending' \in SUBSET Signals /\ qout' \in Seq(Responses)
<1>1. <<"signal", s>> \in Responses
  BY DEF Responses
<1>2. Append(qout, <<"signal", s>>) \in Seq(Responses)
  BY <1>1 DEF TypeOK
<1>3. CASE DoSignal(s)
  BY <1>2, <1>3 DEF DoSignal, TypeOK
<1>4. CASE MovePending(s)
  <2>1. CASE s \in pending
    <3>1. pending \ {s} \subseteq Signals /\ emitted \cup {s} \subseteq Signals
      BY DEF TypeOK
    <3> QED
      BY <1>2, <1>4, <2>1, <3>1 DEF MovePending
  <2>2. CASE s \notin pending
    BY <1>4, <2>2 DEF MovePending, TypeOK
  <2> QED
    BY <2>1, <2>2
<1>5. CASE FirstHook(s)
  BY <1>2, <1>5 DEF FirstHook, TypeOK
<1> QED
  BY <1>3, <1>4, <1>5

LEMMA RequestType == ASSUME TypeOK, ProcessRequest PROVE TypeOK'
<1> USE DEF SameExchange, client
<1>0. batch # <<>> => Head(batch) \in Commands /\ Tail(batch) \in Seq(Commands)
  BY BatchHead
<1>1. ASSUME NEW c, Next1(c) PROVE batch' \in Seq(Commands) /\ Head(batch) \in Commands /\ Head(batch)[1] = c
  BY <1>0, <1>1 DEF Next1, At
<1>2. ASSUME NEW c, Notify(c) \/ Raises(c)
      PROVE  /\ batch' \in Seq(Commands) /\ Head(batch) \in Commands /\ Head(batch)[1] = c
             /\ thrown' \in {"none", "Failure", "Cancel"} /\ cut' \subseteq Ids
  <2>1. CASE Next1(c) /\ UNCHANGED thrown
    BY <1>0, <2>1 DEF Next1, At, TypeOK
  <2>2. CASE Raises(c)
    <3>1. {i \in Ids : InBatch(i) # {}} \subseteq Ids /\ cut \subseteq Ids /\ <<>> \in Seq(Commands)
      BY DEF TypeOK
    <3> QED
      BY <1>0, <2>2, <3>1 DEF Raises, At
  <2> QED
    BY <1>2, <2>1, <2>2 DEF Notify
<1>3. CASE DoPoll
  BY <1>1, <1>3 DEF DoPoll, TypeOK, Next1
<1>4. CASE DoShutdown
  <2>1. running' \in Running
    BY <1>4, KillRunningType DEF DoShutdown, KillAll
  <2>2. canceled' \in BOOLEAN /\ shutdown' \in BOOLEAN
    BY <1>4 DEF DoShutdown, KillAll, TypeOK
  <2>3. qin' \in Seq(Process \cup Command) /\ qout' \in Seq(Responses) /\ batch' \in Seq(Commands)
    BY <1>1, <1>4 DEF DoShutdown
  <2> QED
    BY <1>4, <2>1, <2>2, <2>3 DEF DoShutdown, TypeOK, Next1
<1>5. CASE DoSigOn
  <2>1. Arg \in Signals
    BY <1>2, <1>5, CommandForms DEF DoSigOn, Arg
  <2>2. emitted' \in SUBSET Signals /\ pending' \in SUBSET Signals /\ qout' \in Seq(Responses) /\ owed' \in SUBSET Signals
    BY <1>5, <2>1, SignalType DEF DoSigOn, FirstHook, TypeOK
  <2> QED
    BY <1>2, <1>5, <2>1, <2>2 DEF DoSigOn, TypeOK
<1>6. CASE DoSigOff
  BY <1>2, <1>6 DEF DoSigOff, TypeOK
<1>7. CASE DoKill
  <2>1. Arg \in Ids
    BY <1>1, <1>7, CommandForms DEF DoKill, Arg
  <2>2. running' \in Running /\ qin' \in Seq(Process \cup Command)
    BY <1>7, KillRunningType, KillQueueType DEF DoKill
  <2>3. batch' \in Seq(Commands) /\ asked' \subseteq Ids
    BY <1>1, <1>7, <2>1 DEF DoKill, TypeOK
  <2> QED
    BY <1>7, <2>2, <2>3 DEF DoKill, TypeOK, Next1
<1>8. CASE DoGet
  <2>1. Notify("GET")
    BY <1>8 DEF DoGet, Notify
  <2>2. Arg \in Ids
    BY <1>2, <2>1, CommandForms DEF Arg, Kinds
  <2>3. \A r \in {"data", "error"} : <<r, Arg>> \in Responses
    BY <2>2 DEF Responses, Outcomes
  <2>4. qout' \in Seq(Responses)
    <3>1. qout' = qout \/ \E r \in {"data", "error"} : qout' = Append(qout, <<r, Arg>>)
      BY <1>8 DEF DoGet
    <3>2. qout \in Seq(Responses)
      BY DEF TypeOK
    <3>3. \A r \in Responses : Append(qout, r) \in Seq(Responses)
      BY <3>2
    <3> QED
      BY <2>3, <3>1, <3>2, <3>3, Zenon
  <2> QED
    BY <1>2, <1>8, <2>1, <2>4 DEF DoGet, TypeOK
<1>9. ASSUME NEW k \in {"SET", "EXEC"}, DoRequest(k) PROVE TypeOK'
  <2>1. Arg \in Ids
    BY <1>1, <1>9, CommandForms DEF DoRequest, Arg, Kinds
  <2>2. qin' \in Seq(Process \cup Command)
    BY <1>9, <2>1 DEF DoRequest, Enqueued, TypeOK, Process
  <2> QED
    BY <1>1, <1>9, <2>2 DEF DoRequest, TypeOK, Next1
<1>10. CASE DoUnknown
  <2>1. Arg \in Ids
    BY <1>1, <1>10, CommandForms DEF DoUnknown, Arg, Kinds
  <2>2. qout' \in Seq(Responses)
    BY <1>10, <2>1 DEF DoUnknown, TypeOK, Responses, Outcomes
  <2> QED
    BY <1>1, <1>10, <2>2 DEF DoUnknown, TypeOK, Next1
<1> QED
  BY <1>3, <1>4, <1>5, <1>6, <1>7, <1>8, <1>9, <1>10 DEF ProcessRequest

LEMMA CommunicateType == ASSUME TypeOK, Communicate PROVE TypeOK'
<1>1. PICK n \in 1 .. Len(wire) : batch' = SubSeq(wire, 1, n) /\ wire' = SubSeq(wire, n + 1, Len(wire))
  BY DEF Communicate
<1>2. batch' \in Seq(Commands) /\ wire' \in Seq(Commands)
  BY <1>1 DEF TypeOK
<1> QED
  BY <1>2 DEF Communicate, TypeOK, server, history

LEMMA ReplyType == ASSUME TypeOK, Reply PROVE TypeOK'
<1>1. \A i \in Ids : Answers(i) # {} => (CHOOSE r \in Answers(i) : TRUE) \in Outcomes
  BY DEF Answers
<1>2. told' \in [Ids -> {"no"} \cup Outcomes]
  BY <1>1 DEF Reply, TypeOK
<1>3. qout' \in Seq(Responses) /\ emitted' \subseteq Signals
  BY DEF Reply, Cleared
<1>4. view' \in {"none", "on", "off"} /\ cmdline' \in {"none", "on", "off"}
  BY DEF Reply, Cleared, TypeOK
<1>5. thrown' \in {"none", "Failure", "Cancel"} /\ canceled' \in BOOLEAN
  BY DEF Reply, TypeOK
<1>6. owed' \subseteq Signals
  BY DEF Reply, TypeOK
<1> QED
  BY <1>2, <1>3, <1>4, <1>5, <1>6 DEF Reply, TypeOK, client

LEMMA ProcessType ==
  ASSUME TypeOK, Start \/ Stop \/ Foreground \/ Pop \/ EndLoop \/ Break \/ YieldKilled \/ Fatal \/ Caught
  PROVE  TypeOK'
<1> USE DEF server, client, history
<1>0. Idle \in Running /\ CmdLine \in Running
  BY DEF Running
<1>1. CASE Start \/ Stop \/ Foreground
  BY <1>0, <1>1 DEF Start, Stop, Foreground, Announce, TypeOK
<1>2. CASE Pop
  <2>1. Head(qin) \in Process \cup Command /\ qin' \in Seq(Process \cup Command)
    BY <1>2 DEF Pop, Popped, TypeOK
  <2>2. running' \in Running
    BY <1>0, <1>2, <2>1, EntryForms DEF Pop
  <2> QED
    BY <1>2, <2>1, <2>2 DEF Pop, TypeOK
<1>3. CASE EndLoop \/ Fatal \/ Break
  BY <1>0, <1>3 DEF EndLoop, Fatal, Break, TypeOK
<1>4. CASE YieldKilled
  <2>1. running.ref \in Ids
    BY <1>4, RunningForms DEF YieldKilled, TypeOK
  <2> QED
    BY <1>4, <2>1 DEF YieldKilled, TypeOK
<1>5. CASE Caught
  BY <1>5 DEF Caught, TypeOK
<1> QED
  BY <1>1, <1>2, <1>3, <1>4, <1>5

LEMMA HandlerType == ASSUME TypeOK, HandlerEnds \/ HandlerThrown PROVE TypeOK'
<1>1. running.ref \in Ids
  BY RunningForms DEF HandlerEnds, HandlerThrown, IsExec, TypeOK
<1>2. ASSUME NEW r \in {"data", "error"}, Done(r)
      PROVE  qout' \in Seq(Responses) /\ running' \in Running
  <2>1. <<r, running.ref>> \in Responses
    BY <1>1 DEF Responses, Outcomes
  <2> QED
    BY <1>2, <2>1 DEF Done, TypeOK, Running
<1>3. qout' \in Seq(Responses) /\ running' \in Running
  BY <1>2 DEF HandlerEnds, HandlerThrown
<1>4. thrown' \in {"none", "Failure", "Cancel"}
  BY DEF HandlerEnds, HandlerThrown, TypeOK
<1> QED
  BY <1>3, <1>4 DEF HandlerEnds, HandlerThrown, Done, TypeOK, client, history

LEMMA JobType ==
  ASSUME TypeOK, JobEnds \/ JobThrown \/ (\E j \in Jobs : Schedule(j) \/ KillJob(j))
  PROVE  TypeOK'
<1> USE DEF server, client, history
<1>1. ASSUME NEW st \in Returned, JobReturns(st)
      PROVE  job' \in [Jobs -> {"none", "yield"} \cup Returned] /\ running' \in Running
  BY <1>1 DEF JobReturns, TypeOK, Running
<1>2. CASE JobEnds
  <2>1. PICK st \in {"result", "failed"} : JobReturns(st)
    BY <1>2 DEF JobEnds
  <2>2. st \in Returned
    BY DEF Returned
  <2> QED
    BY <1>1, <1>2, <2>1, <2>2 DEF JobEnds, JobReturns, TypeOK
<1>3. CASE JobThrown
  <2>1. PICK st \in Returned : JobReturns(st)
    BY <1>3 DEF JobThrown, Returned
  <2> QED
    BY <1>1, <1>3, <2>1 DEF JobThrown, JobReturns, TypeOK
<1>4. ASSUME NEW j \in Jobs, Schedule(j) PROVE TypeOK'
  <2>1. qin' \in Seq(Process \cup Command)
    BY <1>4 DEF Schedule, Enqueued, TypeOK, Command
  <2>2. job' \in [Jobs -> {"none", "yield"} \cup Returned]
    BY <1>4 DEF Schedule, TypeOK
  <2> QED
    BY <1>4, <2>1, <2>2 DEF Schedule, TypeOK
<1>5. ASSUME NEW j \in Jobs, KillJob(j) PROVE TypeOK'
  <2>1. job' \in [Jobs -> {"none", "yield"} \cup Returned]
    BY <1>5 DEF KillJob, TypeOK, Returned
  <2> QED
    BY <1>5, <2>1 DEF KillJob, TypeOK
<1> QED
  BY <1>2, <1>3, <1>4, <1>5

LEMMA EmitType == ASSUME TypeOK, NEW s \in Signals, Emit(s) PROVE TypeOK'
<1>1. emitted' \in SUBSET Signals /\ pending' \in SUBSET Signals /\ qout' \in Seq(Responses)
  BY SignalType DEF Emit
<1> QED
  BY <1>1 DEF Emit, TypeOK, client

(* No step of the client, of the server or of a plug-in breaks the types.  *)
LEMMA StepType == TypeOK /\ [Next]_vars => TypeOK'
<1> SUFFICES ASSUME TypeOK, [Next]_vars PROVE TypeOK'
  OBVIOUS
<1>1. CASE ClientStep
  BY <1>1, ClientType
<1>2. CASE ServerStep
  <2>1. ASSUME LoopExchange \/ YieldExchange PROVE TypeOK'
    BY <2>1, CommunicateType DEF LoopExchange, YieldExchange
  <2> QED
    BY <1>2, <2>1, RequestType, ReplyType, ProcessType, HandlerType, JobType DEF ServerStep
<1>3. CASE PluginStep
  BY <1>3, EmitType, JobType DEF PluginStep
<1>4. CASE UNCHANGED vars
  BY <1>4 DEF vars, server, client, history, TypeOK
<1> QED
  BY <1>1, <1>2, <1>3, <1>4 DEF Next

(* Every variable has its type in every reachable state.                   *)
THEOREM TypeCorrect == Spec => []TypeOK
<1>1. Init => TypeOK
  BY InitType
<1>2. TypeOK /\ [Next]_vars => TypeOK'
  BY StepType
<1> QED
  BY <1>1, <1>2, PTL DEF Spec

-----------------------------------------------------------------------------
(* Signals.  The invariant is inductive: what matters is that the three    *)
(* sets and the queue of responses change together.                        *)

LEMMA DeliveredGrows ==
  ASSUME TypeOK, NEW r \in Responses, qout' = Append(qout, r)
  PROVE  Delivered \subseteq Delivered' /\ \A s \in Signals : r = <<"signal", s>> => s \in Delivered'
<1>1. qout \in Seq(Responses) /\ Len(qout) \in Nat
  BY DEF TypeOK
<1>2. /\ DOMAIN qout = 1 .. Len(qout) /\ DOMAIN qout' = 1 .. Len(qout) + 1
      /\ qout'[Len(qout) + 1] = r /\ \A k \in 1 .. Len(qout) : qout'[k] = qout[k]
  BY <1>1
<1>3. Len(qout) + 1 \in DOMAIN qout' /\ DOMAIN qout \subseteq DOMAIN qout'
  BY <1>1, <1>2
<1> QED
  BY <1>2, <1>3 DEF Delivered

LEMMA SignalsUndisturbed ==
  ASSUME TypeOK, SignalsKept, UNCHANGED <<listen, emitted, pending, shutdown, owed>>,
         qout' = qout \/ \E r \in Responses : qout' = Append(qout, r)
  PROVE  SignalsKept'
<1>1. Delivered \subseteq Delivered'
  BY DeliveredGrows DEF Delivered
<1> QED
  BY <1>1 DEF SignalsKept

(* Emitting a signal queues a response or makes the signal pending.        *)
LEMMA EmitKeeps ==
  ASSUME TypeOK, SignalsKept, NEW s \in Signals, Emit(s)
  PROVE  SignalsKept'
<1>0. <<"signal", s>> \in Responses /\ shutdown' = shutdown /\ listen' = listen /\ owed' = owed \cup {s}
  BY DEF Responses, Emit
<1>1. CASE s \in listen /\ s \notin emitted
  <2>1. qout' = Append(qout, <<"signal", s>>) /\ emitted' = emitted \cup {s} /\ pending' = pending
    BY <1>1 DEF Emit, DoSignal
  <2>2. Delivered \subseteq Delivered' /\ s \in Delivered'
    BY <1>0, <2>1, DeliveredGrows
  <2> QED
    BY <1>0, <2>1, <2>2 DEF SignalsKept
<1>2. CASE s \in listen /\ s \in emitted
  <2>1. UNCHANGED <<emitted, pending, qout>>
    BY <1>2 DEF Emit, DoSignal
  <2>2. Delivered' = Delivered
    BY <2>1 DEF Delivered
  <2> QED
    BY <1>0, <1>2, <2>1, <2>2 DEF SignalsKept
<1>3. CASE s \notin listen
  <2>1. pending' = pending \cup {s} /\ UNCHANGED <<emitted, qout>>
    BY <1>3 DEF Emit, DoSignal
  <2>2. Delivered' = Delivered
    BY <2>1 DEF Delivered
  <2> QED
    BY <1>0, <1>3, <2>1, <2>2 DEF SignalsKept
<1> QED
  BY <1>1, <1>2, <1>3

(* SIGON queues the signal if it was pending: it is not lost.              *)
LEMMA SigOnKeeps ==
  ASSUME TypeOK, SignalsKept, DoSigOn
  PROVE  SignalsKept'
<1>0. Arg \in Signals /\ shutdown' = shutdown /\ listen' = listen \cup {Arg}
  BY BatchHead, CommandForms DEF DoSigOn, Notify, Next1, Raises, At, Arg
<1>1. <<"signal", Arg>> \in Responses
  BY <1>0 DEF Responses
<1>2. CASE MovePending(Arg) /\ owed' = owed /\ Arg \in pending
  <2>1. /\ qout' = Append(qout, <<"signal", Arg>>) /\ emitted' = emitted \cup {Arg}
        /\ pending' = pending \ {Arg}
    BY <1>2 DEF MovePending
  <2>2. Delivered \subseteq Delivered' /\ Arg \in Delivered'
    BY <1>0, <1>1, <2>1, DeliveredGrows
  <2> QED
    BY <1>0, <1>2, <2>1, <2>2 DEF SignalsKept
<1>3. CASE MovePending(Arg) /\ owed' = owed /\ Arg \notin pending
  <2>1. UNCHANGED <<emitted, pending, qout>>
    BY <1>3 DEF MovePending
  <2>2. Delivered' = Delivered
    BY <2>1 DEF Delivered
  <2> QED
    BY <1>0, <1>3, <2>1, <2>2 DEF SignalsKept
<1>4. CASE FirstHook(Arg)
  <2>1. /\ qout' = Append(qout, <<"signal", Arg>>) /\ emitted' = emitted \cup {Arg}
        /\ pending' = pending /\ Arg \notin pending /\ owed' = owed \cup {Arg}
    BY <1>4 DEF FirstHook
  <2>2. Delivered \subseteq Delivered' /\ Arg \in Delivered'
    BY <1>0, <1>1, <2>1, DeliveredGrows
  <2> QED
    BY <1>0, <2>1, <2>2 DEF SignalsKept
<1> QED
  BY <1>2, <1>3, <1>4 DEF DoSigOn

LEMMA RequestKeeps ==
  ASSUME TypeOK, SignalsKept, ProcessRequest
  PROVE  SignalsKept'
<1> USE DEF Next1, At
<1>0. batch # <<>> => Head(batch) \in Commands
  BY BatchHead
<1>1. CASE DoPoll
  BY <1>1, SignalsUndisturbed DEF DoPoll
<1>2. CASE DoShutdown
  BY <1>2 DEF DoShutdown, SignalsKept
<1>3. CASE DoSigOn
  BY <1>3, SigOnKeeps
<1>4. CASE DoSigOff
  <2>1. Delivered' = Delivered
    BY <1>4 DEF DoSigOff, Delivered
  <2> QED
    BY <1>4, <2>1 DEF DoSigOff, SignalsKept
<1>5. CASE DoKill
  BY <1>5, SignalsUndisturbed DEF DoKill
<1>6. CASE DoGet
  <2>1. Arg \in Ids
    BY <1>0, <1>6, CommandForms DEF DoGet, Raises, Arg, Kinds
  <2>2. qout' = qout \/ \E r \in Responses : qout' = Append(qout, r)
    BY <1>6, <2>1 DEF DoGet, Responses, Outcomes
  <2> QED
    BY <1>6, <2>2, SignalsUndisturbed DEF DoGet
<1>7. ASSUME NEW k \in {"SET", "EXEC"}, DoRequest(k) PROVE SignalsKept'
  BY <1>7, SignalsUndisturbed DEF DoRequest
<1>8. CASE DoUnknown
  <2>1. Arg \in Ids
    BY <1>0, <1>8, CommandForms DEF DoUnknown, Arg, Kinds
  <2>2. \E r \in Responses : qout' = Append(qout, r)
    BY <1>8, <2>1 DEF DoUnknown, Responses, Outcomes
  <2> QED
    BY <1>8, <2>2, SignalsUndisturbed DEF DoUnknown
<1> QED
  BY <1>1, <1>2, <1>3, <1>4, <1>5, <1>6, <1>7, <1>8 DEF ProcessRequest

LEMMA SignalsStep == TypeOK /\ SignalsKept /\ [Next]_vars => SignalsKept'
<1> SUFFICES ASSUME TypeOK, SignalsKept, [Next]_vars PROVE SignalsKept'
  OBVIOUS
<1> USE DEF server, history
<1>1. CASE ClientStep
  <2>1. UNCHANGED <<listen, emitted, pending, shutdown, owed, qout>>
    BY <1>1 DEF ClientStep, ClientSends, ClientOrders, ClientPolls, Issue
  <2> QED
    BY <2>1, SignalsUndisturbed
<1>2. CASE ProcessRequest
  BY <1>2, RequestKeeps
<1>3. CASE Reply
  <2>1. emitted' = {} /\ UNCHANGED <<listen, pending, shutdown>> /\ owed' = owed \ Delivered
    BY <1>3 DEF Reply, Cleared
  <2> QED
    BY <2>1 DEF SignalsKept
<1>4. CASE HandlerEnds \/ HandlerThrown
  <2>1. running.ref \in Ids
    BY <1>4, RunningForms DEF HandlerEnds, HandlerThrown, IsExec, TypeOK
  <2>2. PICK r \in {"data", "error"} : Done(r)
    BY <1>4 DEF HandlerEnds, HandlerThrown
  <2>3. <<r, running.ref>> \in Responses
    BY <2>1 DEF Responses, Outcomes
  <2> QED
    BY <2>2, <2>3, SignalsUndisturbed DEF Done
<1>5. CASE ServerStep /\ ~(ProcessRequest \/ Reply \/ HandlerEnds \/ HandlerThrown)
  <2>1. UNCHANGED <<listen, emitted, pending, shutdown, owed, qout>>
    BY <1>5 DEF ServerStep, Start, Stop, Foreground, LoopExchange, Pop, EndLoop, Break, YieldKilled,
                YieldExchange, Caught, Fatal, JobEnds, JobThrown, JobReturns, Communicate
  <2> QED
    BY <2>1, SignalsUndisturbed
<1>6. CASE PluginStep
  <2>1. ASSUME NEW j \in Jobs, Schedule(j) \/ KillJob(j) PROVE SignalsKept'
    BY <2>1, SignalsUndisturbed DEF Schedule, KillJob
  <2> QED
    BY <1>6, <2>1, EmitKeeps DEF PluginStep
<1>7. CASE UNCHANGED vars
  BY <1>7, SignalsUndisturbed DEF vars
<1> QED
  BY <1>1, <1>2, <1>3, <1>4, <1>5, <1>6, <1>7 DEF Next, ServerStep

(* SignalsKept (do_signal, process_request): a signal emitted since the    *)
(* client was last told is still on its way to it, whatever the orders of  *)
(* emissions, SIGON, SIGOFF and exchanges.                                 *)
THEOREM SignalsKeptHolds == Spec => []SignalsKept
<1>1. Init => SignalsKept
  BY DEF Init, SignalsKept
<1>2. TypeOK /\ SignalsKept /\ [Next]_vars => SignalsKept'
  BY SignalsStep
<1> QED
  BY <1>1, <1>2, TypeCorrect, PTL DEF Spec

-----------------------------------------------------------------------------
(* The places of a request, as counts that each step changes in a simple   *)
(* way.                                                                    *)

ProcessOf(i) == [kind : {"SET", "EXEC"}, ref : {i}, killed : BOOLEAN]

InQueue(i)     == Count(qin, ProcessOf(i))
InResponses(i) == Count(qout, Outcomes \X {i})
InWire(i)      == Count(wire, Kinds \X {i})
InMessage(i)   == Count(batch, Kinds \X {i})
InHand(i)      == IF running.ref = i THEN 1 ELSE 0
InTold(i)      == IF told[i] # "no" THEN 1 ELSE 0

PlacesCounted ==
  \A i \in Ids :
    /\ Places(i) = InQueue(i) + InResponses(i) + InWire(i) + InMessage(i) + InHand(i) + InTold(i)
    /\ InQueue(i) \in Nat /\ InResponses(i) \in Nat /\ InWire(i) \in Nat /\ InMessage(i) \in Nat
    /\ InHand(i) \in 0 .. 1 /\ InTold(i) \in 0 .. 1
    /\ InQueue(i) = 0 <=> \A k \in DOMAIN qin : qin[k].ref # i
    /\ InResponses(i) = 0 <=> Answering(i) = {}
    /\ InMessage(i) = 0 <=> InBatch(i) = {}

LEMMA CountPlaces == TypeOK => PlacesCounted
<1> SUFFICES ASSUME TypeOK, NEW i \in Ids
             PROVE  /\ Places(i) = InQueue(i) + InResponses(i) + InWire(i) + InMessage(i) + InHand(i) + InTold(i)
                    /\ InQueue(i) \in Nat /\ InResponses(i) \in Nat /\ InWire(i) \in Nat /\ InMessage(i) \in Nat
                    /\ InHand(i) \in 0 .. 1 /\ InTold(i) \in 0 .. 1
                    /\ InQueue(i) = 0 <=> \A k \in DOMAIN qin : qin[k].ref # i
                    /\ InResponses(i) = 0 <=> Answering(i) = {}
                    /\ InMessage(i) = 0 <=> InBatch(i) = {}
  BY DEF PlacesCounted
<1>0. /\ qin \in Seq(Process \cup Command) /\ qout \in Seq(Responses)
      /\ wire \in Seq(Commands) /\ batch \in Seq(Commands)
  BY DEF TypeOK
<1>1. \A k \in DOMAIN qin : qin[k] \in ProcessOf(i) <=> qin[k].kind # "CMD" /\ qin[k].ref = i
  <2>1. \A k \in DOMAIN qin : qin[k] \in Process \cup Command
    BY <1>0
  <2> QED
    BY <2>1, EntryForms DEF ProcessOf
<1>2. \A k \in DOMAIN qin : qin[k] \in ProcessOf(i) <=> qin[k].ref = i
  <2>1. \A k \in DOMAIN qin : qin[k] \in Process \cup Command
    BY <1>0
  <2> QED
    BY <1>1, <2>1, EntryForms
<1>3. \A k \in DOMAIN qout : qout[k] \in Outcomes \X {i} <=> qout[k][1] \in Outcomes /\ qout[k][2] = i
  <2>1. \A k \in DOMAIN qout : qout[k] \in Responses
    BY <1>0
  <2> QED
    BY <2>1, ResponseForms
<1>4. \A k \in DOMAIN wire : wire[k] \in Kinds \X {i} <=> wire[k][1] \in Kinds /\ wire[k][2] = i
  <2>1. \A k \in DOMAIN wire : wire[k] \in Commands
    BY <1>0
  <2> QED
    BY <2>1, CommandForms
<1>5. \A k \in DOMAIN batch : batch[k] \in Kinds \X {i} <=> batch[k][1] \in Kinds /\ batch[k][2] = i
  <2>1. \A k \in DOMAIN batch : batch[k] \in Commands
    BY <1>0
  <2> QED
    BY <2>1, CommandForms
<1>6. /\ Waiting(i) = Hits(qin, ProcessOf(i)) /\ Answering(i) = Hits(qout, Outcomes \X {i})
      /\ OnTheWay(i) = Hits(wire, Kinds \X {i}) /\ InBatch(i) = Hits(batch, Kinds \X {i})
  BY <1>1, <1>3, <1>4, <1>5 DEF Waiting, Answering, OnTheWay, InBatch, Hits
<1>7. InQueue(i) \in Nat /\ InResponses(i) \in Nat /\ InWire(i) \in Nat /\ InMessage(i) \in Nat
  BY <1>0, CountType DEF InQueue, InResponses, InWire, InMessage
<1>8. /\ InQueue(i) = 0 <=> \A k \in DOMAIN qin : qin[k] \notin ProcessOf(i)
      /\ InResponses(i) = 0 <=> \A k \in DOMAIN qout : qout[k] \notin Outcomes \X {i}
      /\ InMessage(i) = 0 <=> \A k \in DOMAIN batch : batch[k] \notin Kinds \X {i}
  BY <1>0, CountZero DEF InQueue, InResponses, InMessage
<1>9. /\ InQueue(i) = 0 <=> \A k \in DOMAIN qin : qin[k].ref # i
      /\ InResponses(i) = 0 <=> Answering(i) = {}
      /\ InMessage(i) = 0 <=> InBatch(i) = {}
  BY <1>2, <1>6, <1>8 DEF Hits
<1>10. InHand(i) \in 0 .. 1 /\ InTold(i) \in 0 .. 1
  BY DEF InHand, InTold
<1>11. Places(i) = InQueue(i) + InResponses(i) + InWire(i) + InMessage(i) + InHand(i) + InTold(i)
  BY <1>6 DEF Places, InQueue, InResponses, InWire, InMessage, InHand, InTold, Count
<1> QED
  BY <1>7, <1>9, <1>10, <1>11

LEMMA CountPlacesNext == TypeOK' => PlacesCounted'
<1>1. TypeOK => PlacesCounted
  BY CountPlaces
<1> QED
  BY <1>1, PTL

(* How the elementary changes of the queues change the counts.             *)
LEMMA MessageTail ==
  ASSUME TypeOK, batch # <<>>, batch' = Tail(batch), NEW i \in Ids
  PROVE  InMessage(i) = InMessage(i)' + (IF Head(batch)[1] \in Kinds /\ Arg = i THEN 1 ELSE 0)
<1>1. batch \in Seq(Commands) /\ Head(batch) \in Commands
  BY BatchHead DEF TypeOK
<1>2. Head(batch) \in Kinds \X {i} <=> Head(batch)[1] \in Kinds /\ Arg = i
  BY <1>1, CommandForms DEF Arg
<1>3. Count(batch, Kinds \X {i}) = Count(Tail(batch), Kinds \X {i}) + (IF Head(batch) \in Kinds \X {i} THEN 1 ELSE 0)
  BY <1>1, CountTail
<1> QED
  BY <1>2, <1>3 DEF InMessage

LEMMA QueueAppend ==
  ASSUME TypeOK, NEW p \in Process \cup Command, qin' = Append(qin, p), NEW i \in Ids
  PROVE  InQueue(i)' = InQueue(i) + (IF p.ref = i THEN 1 ELSE 0)
<1>1. qin \in Seq(Process \cup Command)
  BY DEF TypeOK
<1>2. p \in ProcessOf(i) <=> p.ref = i
  BY EntryForms DEF ProcessOf
<1>3. Count(Append(qin, p), ProcessOf(i)) = Count(qin, ProcessOf(i)) + (IF p \in ProcessOf(i) THEN 1 ELSE 0)
  BY <1>1, CountAppend
<1> QED
  BY <1>2, <1>3 DEF InQueue

LEMMA QueueTail ==
  ASSUME TypeOK, qin # <<>>, qin' = Tail(qin), NEW i \in Ids
  PROVE  InQueue(i) = InQueue(i)' + (IF Head(qin).ref = i THEN 1 ELSE 0)
<1>1. qin \in Seq(Process \cup Command) /\ Head(qin) \in Process \cup Command
  BY DEF TypeOK
<1>2. Head(qin) \in ProcessOf(i) <=> Head(qin).ref = i
  BY <1>1, EntryForms DEF ProcessOf
<1>3. Count(qin, ProcessOf(i)) = Count(Tail(qin), ProcessOf(i)) + (IF Head(qin) \in ProcessOf(i) THEN 1 ELSE 0)
  BY <1>1, CountTail
<1> QED
  BY <1>2, <1>3 DEF InQueue

LEMMA QueueKilled ==
  ASSUME TypeOK, NEW a, qin' = KillQueue(a), NEW i \in Ids
  PROVE  InQueue(i)' = InQueue(i)
<1>1. qin \in Seq(Process \cup Command) /\ KillQueue(a) \in Seq(Process \cup Command)
  BY KillQueueType DEF TypeOK
<1>2. DOMAIN qin = DOMAIN KillQueue(a)
  BY KillQueueType
<1>3. ASSUME NEW k \in DOMAIN qin PROVE qin[k] \in ProcessOf(i) <=> KillQueue(a)[k] \in ProcessOf(i)
  <2>1. qin[k] \in Process \cup Command /\ KillQueue(a)[k] \in Process \cup Command
    BY <1>1, <1>2
  <2>2. KillQueue(a)[k].ref = qin[k].ref
    BY KillQueueType
  <2> QED
    BY <2>1, <2>2, EntryForms DEF ProcessOf
<1>4. Count(qin, ProcessOf(i)) = Count(KillQueue(a), ProcessOf(i))
  BY <1>2, <1>3, CountSame
<1> QED
  BY <1>4 DEF InQueue

LEMMA ResponseAppend ==
  ASSUME TypeOK, NEW r \in Responses, qout' = Append(qout, r), NEW i \in Ids
  PROVE  InResponses(i)' = InResponses(i) + (IF r[1] \in Outcomes /\ r[2] = i THEN 1 ELSE 0)
<1>1. qout \in Seq(Responses)
  BY DEF TypeOK
<1>2. r \in Outcomes \X {i} <=> r[1] \in Outcomes /\ r[2] = i
  BY ResponseForms
<1>3. Count(Append(qout, r), Outcomes \X {i}) = Count(qout, Outcomes \X {i}) + (IF r \in Outcomes \X {i} THEN 1 ELSE 0)
  BY <1>1, CountAppend
<1> QED
  BY <1>2, <1>3 DEF InResponses

LEMMA WireAppend ==
  ASSUME TypeOK, NEW c \in Commands, wire' = Append(wire, c), NEW i \in Ids
  PROVE  InWire(i)' = InWire(i) + (IF c[1] \in Kinds /\ c[2] = i THEN 1 ELSE 0)
<1>1. wire \in Seq(Commands)
  BY DEF TypeOK
<1>2. c \in Kinds \X {i} <=> c[1] \in Kinds /\ c[2] = i
  BY CommandForms
<1>3. Count(Append(wire, c), Kinds \X {i}) = Count(wire, Kinds \X {i}) + (IF c \in Kinds \X {i} THEN 1 ELSE 0)
  BY <1>1, CountAppend
<1> QED
  BY <1>2, <1>3 DEF InWire

LEMMA WireCut ==
  ASSUME TypeOK, batch = <<>>, Communicate, NEW i \in Ids
  PROVE  InWire(i) + InMessage(i) = InWire(i)' + InMessage(i)'
<1>1. wire \in Seq(Commands) /\ Len(wire) \in Nat
  BY DEF TypeOK
<1>2. PICK n \in 1 .. Len(wire) : batch' = SubSeq(wire, 1, n) /\ wire' = SubSeq(wire, n + 1, Len(wire))
  BY DEF Communicate
<1>3. n \in 0 .. Len(wire)
  BY <1>1
<1>4. Count(wire, Kinds \X {i}) = Count(batch', Kinds \X {i}) + Count(wire', Kinds \X {i})
  BY <1>1, <1>2, <1>3, CountCut
<1>5. Count(batch, Kinds \X {i}) = 0
  BY CountEmpty
<1>6. batch' \in Seq(Commands) /\ wire' \in Seq(Commands)
  BY <1>1, <1>2
<1>7. Count(batch', Kinds \X {i}) \in Nat /\ Count(wire', Kinds \X {i}) \in Nat /\ Count(wire, Kinds \X {i}) \in Nat
  BY <1>1, <1>6, CountType
<1> QED
  BY <1>4, <1>5, <1>7 DEF InWire, InMessage

-----------------------------------------------------------------------------
(* Requests.  The invariant: a request is in at most one place; before it  *)
(* is sent in none; once sent in one, unless it was killed in the queue,   *)
(* cut by an exception, or the server left.  An entry of the queue is      *)
(* marked only by a KILL, which marks every entry of its request; such a   *)
(* request never gets to another place.                                    *)

Excused(i) == i \in asked \cup cut \/ shutdown \/ stage = "ended"

Control ==
  /\ stage = "created" => running = Idle
  /\ stage = "cmdline" => running = CmdLine
  /\ ~comm => batch = <<>>
  /\ \A k \in DOMAIN qin : qin[k].killed => qin[k].ref \in asked

PlacesInv ==
  \A i \in Ids : /\ Places(i) <= 1
                 /\ i \notin sent => Places(i) = 0
                 /\ i \in sent => Places(i) = 1 \/ Excused(i)

(* What a step may do to request i.                                        *)
Stays(i) == Places(i)' = Places(i) /\ InResponses(i)' = InResponses(i) /\ InTold(i)' = InTold(i)
Leaves(i) == Places(i)' = 0 /\ InResponses(i)' = 0 /\ InTold(i)' = InTold(i) /\ InTold(i) = 0 /\ Excused(i)'
IsAnswered(i) ==
  /\ Places(i)' = Places(i) /\ InResponses(i)' = InResponses(i) + 1 /\ InTold(i)' = InTold(i)
IsTold(i) ==
  IF InResponses(i) = 0
    THEN Stays(i)
    ELSE Places(i)' = Places(i) /\ InResponses(i)' = 0 /\ InTold(i) = 0 /\ InTold(i)' = 1
IsSent(i) ==
  /\ i \notin sent /\ sent' = sent \cup {i}
  /\ Places(i)' = 1 /\ InResponses(i)' = 0 /\ InTold(i)' = 0

AllStayOrLeave == UNCHANGED sent /\ \A i \in Ids : Stays(i) \/ Leaves(i)
OneIsAnswered == UNCHANGED sent /\ \E i \in Ids : IsAnswered(i) /\ \A h \in Ids \ {i} : Stays(h)
AllAreTold == UNCHANGED sent /\ \A i \in Ids : IsTold(i)
OneIsSent == \E i \in Ids : IsSent(i) /\ \A h \in Ids \ {i} : Stays(h)

LEMMA MovedStays ==
  ASSUME TypeOK, TypeOK', NEW i \in Ids,
         InQueue(i)' + InWire(i)' + InMessage(i)' + InHand(i)' = InQueue(i) + InWire(i) + InMessage(i) + InHand(i),
         InResponses(i)' = InResponses(i), InTold(i)' = InTold(i)
  PROVE  Stays(i)
  BY CountPlaces, CountPlacesNext DEF PlacesCounted, Stays

LEMMA LostLeaves ==
  ASSUME TypeOK, TypeOK', PlacesInv, NEW i \in Ids, Excused(i)', InTold(i)' = InTold(i),
         InQueue(i)' <= InQueue(i), InWire(i)' <= InWire(i), InMessage(i)' <= InMessage(i),
         InHand(i)' <= InHand(i), InResponses(i)' <= InResponses(i),
         InQueue(i)' + InMessage(i)' + InHand(i)' + InResponses(i)'
           < InQueue(i) + InMessage(i) + InHand(i) + InResponses(i)
  PROVE  Leaves(i)
<1>1. /\ Places(i) = InQueue(i) + InResponses(i) + InWire(i) + InMessage(i) + InHand(i) + InTold(i)
      /\ InQueue(i) \in Nat /\ InResponses(i) \in Nat /\ InWire(i) \in Nat /\ InMessage(i) \in Nat
      /\ InHand(i) \in Nat /\ InTold(i) \in Nat
  BY CountPlaces DEF PlacesCounted
<1>2. /\ Places(i)' = InQueue(i)' + InResponses(i)' + InWire(i)' + InMessage(i)' + InHand(i)' + InTold(i)'
      /\ InQueue(i)' \in Nat /\ InResponses(i)' \in Nat /\ InWire(i)' \in Nat /\ InMessage(i)' \in Nat
      /\ InHand(i)' \in Nat /\ InTold(i)' \in Nat
  BY CountPlacesNext DEF PlacesCounted
<1>3. Places(i) <= 1
  BY DEF PlacesInv
<1> DEFINE now == InQueue(i) + InMessage(i) + InHand(i) + InResponses(i)
           then == InQueue(i)' + InMessage(i)' + InHand(i)' + InResponses(i)'
<1>4. now \in Nat /\ then \in Nat /\ then < now /\ Places(i) = now + InWire(i) + InTold(i)
      /\ Places(i)' = then + InWire(i)' + InTold(i)'
  BY <1>1, <1>2
<1>5. InResponses(i)' <= then
  BY <1>2
<1> HIDE DEF now, then
<1>6. then = 0 /\ InWire(i) = 0 /\ InTold(i) = 0
  BY <1>1, <1>3, <1>4
<1>7. Places(i)' = 0 /\ InResponses(i)' = 0
  BY <1>2, <1>4, <1>5, <1>6
<1> QED
  BY <1>6, <1>7 DEF Leaves

LEMMA AllUndisturbed ==
  ASSUME TypeOK, TypeOK', UNCHANGED <<qin, qout, wire, batch, told>>,
         \A i \in Ids : running'.ref = i <=> running.ref = i
  PROVE  \A i \in Ids : Stays(i)
<1> SUFFICES ASSUME NEW i \in Ids PROVE Stays(i)
  OBVIOUS
<1>1. /\ InQueue(i)' = InQueue(i) /\ InWire(i)' = InWire(i) /\ InMessage(i)' = InMessage(i)
      /\ InHand(i)' = InHand(i) /\ InResponses(i)' = InResponses(i) /\ InTold(i)' = InTold(i)
  BY DEF InQueue, InWire, InMessage, InHand, InResponses, InTold
<1> QED
  BY <1>1, MovedStays

LEMMA ClientJourney ==
  ASSUME TypeOK, TypeOK', PlacesInv, ClientStep
  PROVE  AllStayOrLeave \/ OneIsSent
<1>0. ASSUME NEW c, Issue(c), NEW h \in Ids
      PROVE  /\ wire' = Append(wire, c)
             /\ InQueue(h)' = InQueue(h) /\ InMessage(h)' = InMessage(h) /\ InHand(h)' = InHand(h)
             /\ InResponses(h)' = InResponses(h) /\ InTold(h)' = InTold(h)
  BY <1>0 DEF Issue, server, history, InQueue, InMessage, InHand, InResponses, InTold
<1>1. ASSUME NEW c \in Commands, Issue(c), c[1] \notin Kinds
      PROVE  \A h \in Ids : Stays(h)
  <2> SUFFICES ASSUME NEW h \in Ids PROVE Stays(h)
    OBVIOUS
  <2>1. InWire(h)' = InWire(h) + 0
    BY <1>0, <1>1, WireAppend
  <2>2. InWire(h) \in Nat
    BY CountPlaces DEF PlacesCounted
  <2>3. InWire(h)' = InWire(h)
    BY <2>1, <2>2
  <2> QED
    BY <1>0, <1>1, <2>3, MovedStays
<1>2. ASSUME NEW k \in Kinds, NEW i \in Ids, ClientSends(k, i) PROVE OneIsSent
  <2>1. <<k, i>> \in Commands /\ <<k, i>>[1] \in Kinds /\ <<k, i>>[2] = i /\ Issue(<<k, i>>)
    BY <1>2 DEF Commands, ClientSends
  <2>2. \A h \in Ids : InWire(h)' = InWire(h) + (IF i = h THEN 1 ELSE 0)
    BY <1>0, <2>1, WireAppend
  <2>3. \A h \in Ids : InWire(h) \in Nat
    BY CountPlaces DEF PlacesCounted
  <2>4. ASSUME NEW h \in Ids \ {i} PROVE Stays(h)
    <3>1. InWire(h)' = InWire(h)
      BY <2>2, <2>3
    <3> QED
      BY <1>0, <2>1, <3>1, MovedStays
  <2>5. IsSent(i)
    <3>1. i \notin sent /\ sent' = sent \cup {i} /\ Places(i) = 0
      BY <1>2 DEF ClientSends, PlacesInv
    <3>2. /\ InQueue(i)' = InQueue(i) /\ InMessage(i)' = InMessage(i) /\ InHand(i)' = InHand(i)
          /\ InResponses(i)' = InResponses(i) /\ InTold(i)' = InTold(i) /\ InWire(i)' = InWire(i) + 1
      BY <1>0, <2>1, <2>2
    <3> QED
      BY <3>1, <3>2, CountPlaces, CountPlacesNext DEF PlacesCounted, IsSent
  <2> QED
    BY <2>4, <2>5 DEF OneIsSent
<1>3. ASSUME NEW c \in Commands, c[1] \in {"kill", "sigon", "sigoff", "shutdown"}, ClientOrders(c)
      PROVE  AllStayOrLeave
  BY <1>1, <1>3 DEF ClientOrders, AllStayOrLeave, Kinds
<1>4. CASE ClientPolls
  <2>1. <<"poll">> \in Commands /\ <<"poll">>[1] \notin Kinds
    BY DEF Commands, Kinds
  <2> QED
    BY <1>1, <1>4, <2>1 DEF ClientPolls, AllStayOrLeave
<1> QED
  BY <1>2, <1>3, <1>4 DEF ClientStep

(* The head of a message that is not a request.                            *)
LEMMA OtherTail ==
  ASSUME TypeOK, NEW c, c \notin Kinds, At(c), batch' = Tail(batch), NEW i \in Ids
  PROVE  InMessage(i)' = InMessage(i)
<1>1. batch # <<>> /\ Head(batch)[1] \notin Kinds /\ batch' \in Seq(Commands)
  BY BatchHead DEF At
<1>2. InMessage(i)' \in Nat
  BY <1>1, CountType DEF InMessage
<1> QED
  BY <1>1, <1>2, MessageTail

LEMMA ShutdownJourney ==
  ASSUME TypeOK, TypeOK', PlacesInv, DoShutdown
  PROVE  AllStayOrLeave
<1> USE DEF SameExchange, client
<1> SUFFICES ASSUME NEW i \in Ids PROVE Stays(i) \/ Leaves(i)
  BY DEF DoShutdown, AllStayOrLeave
<1>1. InMessage(i)' = InMessage(i)
  BY OtherTail DEF DoShutdown, Next1, Kinds
<1>2. running'.ref = running.ref
  BY KillRunningType DEF DoShutdown, KillAll
<1>3. InWire(i)' = InWire(i) /\ InHand(i)' = InHand(i) /\ InTold(i)' = InTold(i)
  BY <1>2 DEF DoShutdown, InWire, InHand, InTold
<1>4. InQueue(i)' = 0 /\ InResponses(i)' = 0
  BY CountEmpty DEF DoShutdown, InQueue, InResponses
<1>5. Excused(i)'
  BY DEF DoShutdown, Excused
<1>6. CASE InQueue(i) = 0 /\ InResponses(i) = 0
  BY <1>1, <1>3, <1>4, <1>6, MovedStays
<1>7. CASE InQueue(i) # 0 \/ InResponses(i) # 0
  <2>1. InQueue(i) \in Nat /\ InResponses(i) \in Nat /\ InWire(i) \in Nat /\ InMessage(i) \in Nat /\ InHand(i) \in 0 .. 1
    BY CountPlaces DEF PlacesCounted
  <2>2. /\ InQueue(i)' <= InQueue(i) /\ InWire(i)' <= InWire(i) /\ InMessage(i)' <= InMessage(i)
        /\ InHand(i)' <= InHand(i) /\ InResponses(i)' <= InResponses(i)
        /\ InQueue(i)' + InMessage(i)' + InHand(i)' + InResponses(i)'
             < InQueue(i) + InMessage(i) + InHand(i) + InResponses(i)
    BY <1>1, <1>3, <1>4, <1>7, <2>1
  <2> QED
    BY <1>3, <1>5, <2>2, LostLeaves
<1> QED
  BY <1>6, <1>7

(* When a callback or a GET handler raises, the requests of the rest of    *)
(* the message are cut.                                                    *)
LEMMA RaisesJourney ==
  ASSUME TypeOK, TypeOK', PlacesInv, NEW c, Raises(c), NEW i \in Ids,
         UNCHANGED <<running, qin, told, wire>>, InResponses(i)' = InResponses(i)
  PROVE  Stays(i) \/ Leaves(i)
<1>1. InQueue(i)' = InQueue(i) /\ InWire(i)' = InWire(i) /\ InHand(i)' = InHand(i) /\ InTold(i)' = InTold(i)
  BY DEF InQueue, InWire, InHand, InTold
<1>2. InMessage(i)' = 0
  BY CountEmpty DEF Raises, InMessage
<1>3. CASE InMessage(i) = 0
  BY <1>1, <1>2, <1>3, MovedStays
<1>4. CASE InMessage(i) # 0
  <2>1. InBatch(i) # {}
    BY <1>4, CountPlaces DEF PlacesCounted
  <2>2. Excused(i)'
    BY <2>1 DEF Excused, Raises
  <2>3. InQueue(i) \in Nat /\ InResponses(i) \in Nat /\ InWire(i) \in Nat /\ InMessage(i) \in Nat /\ InHand(i) \in 0 .. 1
    BY CountPlaces DEF PlacesCounted
  <2>4. /\ InQueue(i)' <= InQueue(i) /\ InWire(i)' <= InWire(i) /\ InMessage(i)' <= InMessage(i)
        /\ InHand(i)' <= InHand(i) /\ InResponses(i)' <= InResponses(i)
        /\ InQueue(i)' + InMessage(i)' + InHand(i)' + InResponses(i)'
             < InQueue(i) + InMessage(i) + InHand(i) + InResponses(i)
    BY <1>1, <1>2, <1>4, <2>3
  <2> QED
    BY <1>1, <2>2, <2>4, LostLeaves
<1> QED
  BY <1>3, <1>4

LEMMA NotifyJourney ==
  ASSUME TypeOK, TypeOK', PlacesInv, NEW c, c \notin Kinds, Notify(c), NEW i \in Ids,
         UNCHANGED <<running, qin, told, wire>>, InResponses(i)' = InResponses(i)
  PROVE  Stays(i) \/ Leaves(i)
<1>1. InQueue(i)' = InQueue(i) /\ InWire(i)' = InWire(i) /\ InHand(i)' = InHand(i) /\ InTold(i)' = InTold(i)
  BY DEF InQueue, InWire, InHand, InTold
<1>2. CASE Next1(c)
  <2>1. InMessage(i)' = InMessage(i)
    BY <1>2, OtherTail DEF Next1
  <2> QED
    BY <1>1, <2>1, MovedStays
<1> QED
  BY <1>2, RaisesJourney DEF Notify

LEMMA SigOnJourney ==
  ASSUME TypeOK, TypeOK', PlacesInv, DoSigOn
  PROVE  AllStayOrLeave
<1> USE DEF SameExchange, client
<1> SUFFICES ASSUME NEW i \in Ids PROVE Stays(i) \/ Leaves(i)
  BY DEF DoSigOn, AllStayOrLeave
<1>1. <<"signal", Arg>> \in Responses /\ "signal" \notin Outcomes
  BY BatchHead, CommandForms DEF DoSigOn, Notify, Next1, Raises, At, Arg, Responses, Outcomes
<1>2. qout' = qout \/ qout' = Append(qout, <<"signal", Arg>>)
  BY DEF DoSigOn, MovePending, FirstHook
<1>3. InResponses(i)' = InResponses(i)
  <2>1. CASE qout' = qout
    BY <2>1 DEF InResponses
  <2>2. CASE qout' = Append(qout, <<"signal", Arg>>)
    BY <1>1, <2>2, ResponseAppend, CountPlaces DEF PlacesCounted
  <2> QED
    BY <1>2, <2>1, <2>2
<1> QED
  BY <1>3, NotifyJourney DEF DoSigOn, Kinds

LEMMA RequestJourney ==
  ASSUME TypeOK, TypeOK', PlacesInv, ProcessRequest
  PROVE  AllStayOrLeave \/ OneIsAnswered
<1> USE DEF SameExchange, client
<1>0. PlacesCounted /\ PlacesCounted'
  BY CountPlaces, CountPlacesNext
<1>1. CASE DoPoll
  <2>1. \A i \in Ids : InMessage(i)' = InMessage(i)
    BY <1>1, OtherTail DEF DoPoll, Next1, Kinds
  <2>2. ASSUME NEW i \in Ids PROVE Stays(i)
    <3>1. /\ InQueue(i)' = InQueue(i) /\ InWire(i)' = InWire(i)
          /\ InHand(i)' = InHand(i) /\ InResponses(i)' = InResponses(i) /\ InTold(i)' = InTold(i)
      BY <1>1 DEF DoPoll, InQueue, InWire, InHand, InResponses, InTold
    <3> QED
      BY <2>1, <3>1, MovedStays
  <2> QED
    BY <1>1, <2>2 DEF DoPoll, AllStayOrLeave
<1>2. CASE DoShutdown
  BY <1>2, ShutdownJourney
<1>3. CASE DoSigOn
  BY <1>3, SigOnJourney
<1>4. CASE DoSigOff
  <2>1. \A i \in Ids : InResponses(i)' = InResponses(i)
    BY <1>4 DEF DoSigOff, InResponses
  <2> QED
    BY <1>4, <2>1, NotifyJourney DEF DoSigOff, AllStayOrLeave, Kinds
<1>5. CASE DoKill
  <2>1. \A i \in Ids : InMessage(i)' = InMessage(i)
    BY <1>5, OtherTail DEF DoKill, Next1, Kinds
  <2>2. \A i \in Ids : InQueue(i)' = InQueue(i)
    BY <1>5, QueueKilled DEF DoKill
  <2>3. running'.ref = running.ref
    BY <1>5, KillRunningType DEF DoKill
  <2>4. ASSUME NEW i \in Ids PROVE Stays(i)
    <3>1. /\ InWire(i)' = InWire(i) /\ InHand(i)' = InHand(i)
          /\ InResponses(i)' = InResponses(i) /\ InTold(i)' = InTold(i)
      BY <1>5, <2>3 DEF DoKill, InWire, InHand, InResponses, InTold
    <3> QED
      BY <2>1, <2>2, <3>1, MovedStays
  <2> QED
    BY <1>5, <2>4 DEF DoKill, AllStayOrLeave
<1>6. ASSUME NEW k \in Kinds, Next1(k)
      PROVE  /\ Arg \in Ids
             /\ \A i \in Ids : InMessage(i) = InMessage(i)' + (IF Arg = i THEN 1 ELSE 0)
  <2>1. batch # <<>> /\ batch' = Tail(batch) /\ Head(batch)[1] \in Kinds /\ Head(batch) \in Commands
    BY <1>6, BatchHead DEF Next1, At
  <2> QED
    BY <2>1, MessageTail, CommandForms DEF Arg
<1>7. ASSUME NEW r \in Outcomes, NEW k \in Kinds, Next1(k), qout' = Append(qout, <<r, Arg>>),
             UNCHANGED <<running, qin, wire, told, sent>>
      PROVE  OneIsAnswered
  <2>0. PICK a \in Ids : Arg = a /\ \A i \in Ids : InMessage(i) = InMessage(i)' + (IF a = i THEN 1 ELSE 0)
    BY <1>6, <1>7
  <2>1. <<r, a>> \in Responses
    BY DEF Responses
  <2>2. \A i \in Ids : InResponses(i)' = InResponses(i) + (IF a = i THEN 1 ELSE 0)
    BY <1>7, <2>0, <2>1, ResponseAppend
  <2>3. \A i \in Ids : /\ InQueue(i)' = InQueue(i) /\ InWire(i)' = InWire(i)
                       /\ InHand(i)' = InHand(i) /\ InTold(i)' = InTold(i)
    BY <1>7 DEF InQueue, InWire, InHand, InTold
  <2>4. InResponses(a)' = InResponses(a) + 1 /\ InMessage(a) = InMessage(a)' + 1
    BY <2>0, <2>2
  <2>5. Places(a)' = Places(a)
    BY <1>0, <2>3, <2>4 DEF PlacesCounted
  <2>6. ASSUME NEW i \in Ids \ {a} PROVE Stays(i)
    <3>1. InResponses(i)' = InResponses(i) + 0 /\ InMessage(i) = InMessage(i)' + 0
      BY <2>0, <2>2
    <3>2. /\ InResponses(i) \in Nat /\ InResponses(i)' \in Nat
          /\ InMessage(i) \in Nat /\ InMessage(i)' \in Nat
      BY <1>0 DEF PlacesCounted
    <3>3. InResponses(i)' = InResponses(i) /\ InMessage(i) = InMessage(i)'
      BY <3>1, <3>2
    <3> QED
      BY <2>3, <3>3, MovedStays
  <2>7. IsAnswered(a)
    BY <2>3, <2>4, <2>5 DEF IsAnswered
  <2> QED
    BY <1>7, <2>6, <2>7 DEF OneIsAnswered
<1>8. CASE DoGet
  <2>1. CASE Raises("GET") /\ UNCHANGED qout
    <3>1. ASSUME NEW i \in Ids PROVE Stays(i) \/ Leaves(i)
      <4>1. InResponses(i)' = InResponses(i)
        BY <2>1 DEF InResponses
      <4> QED
        BY <1>8, <2>1, <4>1, RaisesJourney DEF DoGet
    <3> QED
      BY <1>8, <3>1 DEF DoGet, AllStayOrLeave
  <2>2. CASE Next1("GET") /\ \E r \in {"data", "error"} : qout' = Append(qout, <<r, Arg>>)
    <3>1. PICK r \in {"data", "error"} : qout' = Append(qout, <<r, Arg>>)
      BY <2>2
    <3>2. r \in Outcomes /\ "GET" \in Kinds
      BY DEF Outcomes, Kinds
    <3> QED
      BY <1>7, <1>8, <2>2, <3>1, <3>2 DEF DoGet
  <2> QED
    BY <1>8, <2>1, <2>2 DEF DoGet
<1>9. CASE DoUnknown
  <2>1. "rejected" \in Outcomes /\ "unknown" \in Kinds
    BY DEF Outcomes, Kinds
  <2> QED
    BY <1>7, <1>9, <2>1 DEF DoUnknown
<1>10. ASSUME NEW k \in {"SET", "EXEC"}, DoRequest(k) PROVE AllStayOrLeave
  <2>0. k \in Kinds
    BY DEF Kinds
  <2>1. Arg \in Ids /\ \A i \in Ids : InMessage(i) = InMessage(i)' + (IF Arg = i THEN 1 ELSE 0)
    BY <1>6, <1>10, <2>0 DEF DoRequest
  <2> DEFINE p == [kind |-> k, ref |-> Arg, killed |-> FALSE]
  <2>2. p \in Process \cup Command /\ qin' = Append(qin, p) /\ p.ref = Arg
    BY <1>10, <2>1 DEF DoRequest, Enqueued, Process
  <2> HIDE DEF p
  <2>3. \A i \in Ids : InQueue(i)' = InQueue(i) + (IF Arg = i THEN 1 ELSE 0)
    BY <2>2, QueueAppend
  <2>4. ASSUME NEW i \in Ids PROVE Stays(i)
    <3>1. /\ InWire(i)' = InWire(i) /\ InHand(i)' = InHand(i)
          /\ InResponses(i)' = InResponses(i) /\ InTold(i)' = InTold(i)
      BY <1>10 DEF DoRequest, InWire, InHand, InResponses, InTold
    <3> QED
      BY <1>0, <2>1, <2>3, <3>1 DEF PlacesCounted, Stays
  <2> QED
    BY <1>10, <2>4 DEF DoRequest, AllStayOrLeave
<1> QED
  BY <1>1, <1>2, <1>3, <1>4, <1>5, <1>8, <1>9, <1>10 DEF ProcessRequest

LEMMA EmitJourney ==
  ASSUME TypeOK, TypeOK', NEW s \in Signals, Emit(s)
  PROVE  AllStayOrLeave
<1> USE DEF client
<1> SUFFICES ASSUME NEW i \in Ids PROVE Stays(i)
  BY DEF Emit, AllStayOrLeave
<1>1. <<"signal", s>> \in Responses /\ "signal" \notin Outcomes
  BY DEF Responses, Outcomes
<1>2. qout' = qout \/ qout' = Append(qout, <<"signal", s>>)
  BY DEF Emit, DoSignal
<1>3. InResponses(i)' = InResponses(i)
  <2>1. CASE qout' = qout
    BY <2>1 DEF InResponses
  <2>2. CASE qout' = Append(qout, <<"signal", s>>)
    BY <1>1, <2>2, ResponseAppend, CountPlaces DEF PlacesCounted
  <2> QED
    BY <1>2, <2>1, <2>2
<1>4. /\ InQueue(i)' = InQueue(i) /\ InWire(i)' = InWire(i) /\ InMessage(i)' = InMessage(i)
      /\ InHand(i)' = InHand(i) /\ InTold(i)' = InTold(i)
  BY DEF Emit, InQueue, InWire, InMessage, InHand, InTold
<1> QED
  BY <1>3, <1>4, MovedStays

LEMMA CommunicateJourney ==
  ASSUME TypeOK, TypeOK', Control, ~comm, Communicate
  PROVE  AllStayOrLeave
<1> SUFFICES ASSUME NEW i \in Ids PROVE Stays(i)
  BY DEF Communicate, AllStayOrLeave
<1>1. InWire(i) + InMessage(i) = InWire(i)' + InMessage(i)'
  BY WireCut DEF Control
<1>2. /\ InQueue(i)' = InQueue(i) /\ InHand(i)' = InHand(i) /\ InResponses(i)' = InResponses(i)
      /\ InTold(i)' = InTold(i)
  BY DEF Communicate, server, history, InQueue, InHand, InResponses, InTold
<1>3. InQueue(i)' + InWire(i)' + InMessage(i)' + InHand(i)' = InQueue(i) + InWire(i) + InMessage(i) + InHand(i)
  BY <1>1, <1>2, CountPlaces, CountPlacesNext DEF PlacesCounted
<1> QED
  BY <1>2, <1>3, MovedStays

(* One exchange delivers all the answers that are ready.                   *)
LEMMA ReplyJourney ==
  ASSUME TypeOK, TypeOK', PlacesInv, Reply
  PROVE  AllAreTold
<1> USE DEF client
<1> SUFFICES ASSUME NEW i \in Ids PROVE IsTold(i)
  BY DEF Reply, AllAreTold
<1>1. /\ InQueue(i)' = InQueue(i) /\ InWire(i)' = InWire(i) /\ InMessage(i)' = InMessage(i)
      /\ InHand(i)' = InHand(i)
  BY DEF Reply, InQueue, InWire, InMessage, InHand
<1>2. InResponses(i)' = 0
  BY CountEmpty DEF Reply, Cleared, InResponses
<1>3. Answers(i) = {} <=> InResponses(i) = 0
  <2>1. \A k \in DOMAIN qout : qout[k] = <<qout[k][1], qout[k][2]>>
    BY ResponseForms DEF TypeOK
  <2>2. Answers(i) = {} <=> Answering(i) = {}
    BY <2>1 DEF Answers, Answering
  <2> QED
    BY <2>2, CountPlaces DEF PlacesCounted
<1>4. told'[i] = IF Answers(i) = {} THEN told[i] ELSE CHOOSE r \in Answers(i) : TRUE
  BY DEF Reply
<1>5. CASE InResponses(i) = 0
  <2>1. InTold(i)' = InTold(i)
    BY <1>3, <1>4, <1>5 DEF InTold
  <2>2. Stays(i)
    BY <1>1, <1>2, <1>5, <2>1, MovedStays
  <2> QED
    BY <1>5, <2>2 DEF IsTold
<1>6. CASE InResponses(i) # 0
  <2>1. told'[i] \in Outcomes
    BY <1>3, <1>4, <1>6 DEF Answers
  <2>2. InTold(i)' = 1
    BY <2>1 DEF InTold, Outcomes
  <2>3. InResponses(i) = 1 /\ InTold(i) = 0 /\ InQueue(i) + InWire(i) + InMessage(i) + InHand(i) = 0
    <3>1. Places(i) <= 1
      BY DEF PlacesInv
    <3> QED
      BY <1>6, <3>1, CountPlaces DEF PlacesCounted
  <2>4. Places(i)' = Places(i)
    BY <1>1, <1>2, <2>2, <2>3, CountPlaces, CountPlacesNext DEF PlacesCounted
  <2> QED
    BY <1>2, <1>6, <2>2, <2>3, <2>4 DEF IsTold
<1> QED
  BY <1>5, <1>6

LEMMA PopJourney ==
  ASSUME TypeOK, TypeOK', Control, PlacesInv, Pop
  PROVE  AllStayOrLeave
<1> USE DEF client, history
<1> DEFINE p == Head(qin)
<1>1. /\ qin # <<>> /\ qin' = Tail(qin) /\ running = Idle
      /\ p \in Process \cup Command /\ p = qin[1] /\ 1 \in DOMAIN qin
  BY DEF Pop, Popped, Looping, TypeOK
<1> SUFFICES ASSUME NEW i \in Ids PROVE Stays(i) \/ Leaves(i)
  BY DEF Pop, AllStayOrLeave
<1>2. /\ InWire(i)' = InWire(i) /\ InMessage(i)' = InMessage(i)
      /\ InResponses(i)' = InResponses(i) /\ InTold(i)' = InTold(i)
  BY DEF Pop, InWire, InMessage, InResponses, InTold
<1>3. InQueue(i) = InQueue(i)' + (IF p.ref = i THEN 1 ELSE 0)
  BY <1>1, QueueTail
<1>4. Idle.ref \notin Ids /\ InHand(i) = 0
  BY <1>1, ServerAssumption DEF Idle, InHand
<1>5. InQueue(i) \in Nat /\ InQueue(i)' \in Nat /\ InWire(i) \in Nat /\ InMessage(i) \in Nat /\ InResponses(i) \in Nat
  BY CountPlaces, CountPlacesNext DEF PlacesCounted
<1>6. running' = IF Skips(p) THEN Idle ELSE AsRunning(p)
  BY DEF Pop
<1>7. AsRunning(p).ref = p.ref
  BY <1>1, EntryForms
<1> HIDE DEF p
<1>8. CASE p.ref # i
  <2>1. running'.ref # i
    BY <1>4, <1>6, <1>7, <1>8
  <2>2. InHand(i)' = 0 /\ InQueue(i)' = InQueue(i)
    BY <1>3, <1>5, <1>8, <2>1 DEF InHand
  <2> QED
    BY <1>2, <1>4, <2>2, MovedStays
<1>9. CASE p.ref = i /\ ~Skips(p)
  <2>1. InHand(i)' = 1 /\ InQueue(i) = InQueue(i)' + 1
    BY <1>3, <1>6, <1>7, <1>9 DEF InHand
  <2>2. InQueue(i)' + InWire(i)' + InMessage(i)' + InHand(i)' = InQueue(i) + InWire(i) + InMessage(i) + InHand(i)
    BY <1>2, <1>4, <1>5, <2>1
  <2> QED
    BY <1>2, <2>2, MovedStays
<1>10. CASE p.ref = i /\ Skips(p)
  <2>1. p.killed
    BY <1>1, <1>10, EntryForms DEF Skips
  <2>2. Excused(i)'
    BY <1>1, <1>10, <2>1 DEF Control, Excused, Pop, p
  <2>3. InHand(i)' = 0 /\ InQueue(i) = InQueue(i)' + 1
    BY <1>3, <1>4, <1>6, <1>10 DEF InHand
  <2> QED
    BY <1>2, <1>4, <1>5, <2>2, <2>3, LostLeaves
<1> QED
  BY <1>8, <1>9, <1>10

LEMMA HandlerJourney ==
  ASSUME TypeOK, TypeOK', PlacesInv, HandlerEnds \/ HandlerThrown
  PROVE  OneIsAnswered
<1> USE DEF client, history
<1>1. PICK a \in Ids : running.ref = a
  BY RunningForms DEF HandlerEnds, HandlerThrown, IsExec, TypeOK
<1>2. PICK r \in {"data", "error"} : Done(r)
  BY DEF HandlerEnds, HandlerThrown
<1>3. <<r, a>> \in Responses /\ r \in Outcomes
  BY DEF Responses, Outcomes
<1>4. qout' = Append(qout, <<r, a>>) /\ running' = Idle /\ Idle.ref \notin Ids
  BY <1>1, <1>2, ServerAssumption DEF Done, Idle
<1>5. \A i \in Ids : InResponses(i)' = InResponses(i) + (IF a = i THEN 1 ELSE 0)
  BY <1>3, <1>4, ResponseAppend
<1>6. \A i \in Ids : /\ InQueue(i)' = InQueue(i) /\ InWire(i)' = InWire(i)
                     /\ InMessage(i)' = InMessage(i) /\ InTold(i)' = InTold(i)
  BY <1>2 DEF Done, InQueue, InWire, InMessage, InTold
<1>7. \A i \in Ids : InHand(i)' = 0 /\ InHand(i) = IF a = i THEN 1 ELSE 0
  BY <1>1, <1>4 DEF InHand
<1>8. IsAnswered(a)
  <2>1. InResponses(a)' = InResponses(a) + 1 /\ InHand(a)' = 0 /\ InHand(a) = 1
    BY <1>5, <1>7
  <2>2. Places(a)' = Places(a)
    BY <1>6, <2>1, CountPlaces, CountPlacesNext DEF PlacesCounted
  <2> QED
    BY <1>6, <2>1, <2>2 DEF IsAnswered
<1>9. ASSUME NEW i \in Ids \ {a} PROVE Stays(i)
  <2>1. InResponses(i)' = InResponses(i) + 0 /\ InHand(i)' = 0 /\ InHand(i) = 0
    BY <1>5, <1>7
  <2>2. InResponses(i)' = InResponses(i)
    BY <2>1, CountPlaces DEF PlacesCounted
  <2> QED
    BY <1>6, <2>1, <2>2, MovedStays
<1> QED
  BY <1>2, <1>8, <1>9 DEF Done, OneIsAnswered

LEMMA ProcessJourney ==
  ASSUME TypeOK, TypeOK', Control, PlacesInv,
         \/ Start \/ Stop \/ Foreground \/ EndLoop \/ Break \/ YieldKilled \/ Fatal \/ Caught
         \/ JobEnds \/ JobThrown \/ (\E j \in Jobs : Schedule(j) \/ KillJob(j))
  PROVE  AllStayOrLeave
<1> USE DEF server, client, history
<1>0. Idle.ref = NoOne /\ CmdLine.ref = NoOne /\ NoOne \notin Ids
  BY ServerAssumption DEF Idle, CmdLine
<1>1. CASE Start \/ Stop \/ Foreground
  <2>1. running.ref = NoOne /\ running'.ref = NoOne
    BY <1>0, <1>1 DEF Start, Stop, Foreground, Control
  <2> QED
    BY <1>0, <1>1, <2>1, AllUndisturbed DEF Start, Stop, Foreground, AllStayOrLeave
<1>2. CASE EndLoop \/ YieldKilled \/ Fatal \/ Caught
  BY <1>2, AllUndisturbed DEF EndLoop, YieldKilled, Fatal, Caught, AllStayOrLeave
<1>3. CASE Break
  <2> SUFFICES ASSUME NEW i \in Ids PROVE Stays(i) \/ Leaves(i)
    BY <1>3 DEF Break, AllStayOrLeave
  <2>1. /\ InQueue(i)' = InQueue(i) /\ InWire(i)' = InWire(i) /\ InMessage(i)' = InMessage(i)
        /\ InResponses(i)' = InResponses(i) /\ InTold(i)' = InTold(i)
    BY <1>3 DEF Break, InQueue, InWire, InMessage, InResponses, InTold
  <2>2. InHand(i)' = 0 /\ Excused(i)'
    BY <1>0, <1>3 DEF Break, InHand, Excused
  <2>3. CASE InHand(i) = 0
    BY <2>1, <2>2, <2>3, MovedStays
  <2>4. CASE InHand(i) # 0
    <3>1. /\ InQueue(i) \in Nat /\ InWire(i) \in Nat /\ InMessage(i) \in Nat /\ InResponses(i) \in Nat
          /\ InHand(i) \in 0 .. 1
      BY CountPlaces DEF PlacesCounted
    <3> QED
      BY <2>1, <2>2, <2>4, <3>1, LostLeaves
  <2> QED
    BY <2>3, <2>4
<1>4. CASE JobEnds \/ JobThrown
  <2>1. running.ref \notin Ids /\ running'.ref \notin Ids
    BY <1>0, <1>4, RunningForms DEF JobEnds, JobThrown, JobReturns, InJob, TypeOK
  <2> QED
    BY <1>4, <2>1, AllUndisturbed DEF JobEnds, JobThrown, JobReturns, AllStayOrLeave
<1>5. ASSUME NEW j \in Jobs, Schedule(j) PROVE AllStayOrLeave
  <2> DEFINE p == [kind |-> "CMD", ref |-> j, killed |-> FALSE]
  <2>1. p \in Process \cup Command /\ p.ref \notin Ids /\ qin' = Append(qin, p)
    BY <1>5, ServerAssumption DEF Schedule, Enqueued, Command
  <2> HIDE DEF p
  <2>2. ASSUME NEW i \in Ids PROVE Stays(i)
    <3>1. /\ InWire(i)' = InWire(i) /\ InHand(i)' = InHand(i) /\ InMessage(i)' = InMessage(i)
          /\ InResponses(i)' = InResponses(i) /\ InTold(i)' = InTold(i)
      BY <1>5 DEF Schedule, InWire, InHand, InMessage, InResponses, InTold
    <3>2. InQueue(i)' = InQueue(i)
      BY <2>1, QueueAppend, CountPlaces DEF PlacesCounted
    <3> QED
      BY <3>1, <3>2, MovedStays
  <2> QED
    BY <1>5, <2>2 DEF Schedule, AllStayOrLeave
<1>6. ASSUME NEW j \in Jobs, KillJob(j) PROVE AllStayOrLeave
  BY <1>6, AllUndisturbed DEF KillJob, AllStayOrLeave
<1> QED
  BY <1>1, <1>2, <1>3, <1>4, <1>5, <1>6

(* Every step of the server is one of the four moves of a request.         *)
LEMMA Journey ==
  ASSUME TypeOK, TypeOK', Control, PlacesInv, [Next]_vars
  PROVE  AllStayOrLeave \/ OneIsAnswered \/ AllAreTold \/ OneIsSent
<1>1. CASE ClientStep
  BY <1>1, ClientJourney
<1>2. CASE ServerStep
  <2>1. ASSUME LoopExchange \/ YieldExchange PROVE AllStayOrLeave
    BY <2>1, CommunicateJourney DEF LoopExchange, YieldExchange, Looping, MayYield, Calling
  <2> QED
    BY <1>2, <2>1, RequestJourney, ReplyJourney, PopJourney, HandlerJourney, ProcessJourney DEF ServerStep
<1>3. CASE PluginStep
  BY <1>3, EmitJourney, ProcessJourney DEF PluginStep
<1>4. CASE UNCHANGED vars
  BY <1>4, AllUndisturbed DEF vars, server, client, history, AllStayOrLeave
<1> QED
  BY <1>1, <1>2, <1>3, <1>4 DEF Next

LEMMA EndStays ==
  ASSUME [Next]_vars
  PROVE  /\ asked \subseteq asked' /\ cut \subseteq cut' /\ (shutdown => shutdown')
         /\ (stage = "ended" => stage' = "ended")
<1> USE DEF server, client, history, SameExchange
<1>1. CASE ClientStep
  BY <1>1 DEF ClientStep, ClientSends, ClientOrders, ClientPolls, Issue
<1>2. CASE ProcessRequest
  <2>1. CASE DoSigOn \/ DoSigOff
    BY <2>1 DEF DoSigOn, DoSigOff, Notify, Next1, Raises
  <2>2. CASE DoShutdown \/ DoKill
    BY <2>2 DEF DoShutdown, DoKill, Next1
  <2>3. CASE DoPoll \/ DoGet \/ DoUnknown \/ \E k \in {"SET", "EXEC"} : DoRequest(k)
    BY <2>3 DEF DoPoll, DoGet, DoUnknown, DoRequest, Next1, Raises
  <2> QED
    BY <1>2, <2>1, <2>2, <2>3 DEF ProcessRequest
<1>3. CASE ServerStep /\ ~ProcessRequest
  <2>1. CASE Start \/ Stop \/ Foreground \/ Pop \/ EndLoop \/ Break \/ YieldKilled \/ Caught \/ Fatal
    BY <2>1 DEF Start, Stop, Foreground, Pop, Looping, EndLoop, Break, YieldKilled, Caught, Fatal
  <2>2. CASE Reply \/ LoopExchange \/ YieldExchange
    BY <2>2 DEF Reply, LoopExchange, YieldExchange, Communicate
  <2>3. CASE HandlerEnds \/ HandlerThrown \/ JobEnds \/ JobThrown
    BY <2>3 DEF HandlerEnds, HandlerThrown, JobEnds, JobThrown, Done, JobReturns
  <2> QED
    BY <1>3, <2>1, <2>2, <2>3 DEF ServerStep
<1>4. CASE PluginStep
  <2>1. ASSUME NEW s \in Signals, Emit(s) PROVE UNCHANGED <<asked, cut, shutdown, stage>>
    BY <2>1 DEF Emit
  <2>2. ASSUME NEW j \in Jobs, Schedule(j) \/ KillJob(j) PROVE UNCHANGED <<asked, cut, shutdown, stage>>
    BY <2>2 DEF Schedule, KillJob
  <2> QED
    BY <1>4, <2>1, <2>2 DEF PluginStep
<1>5. CASE UNCHANGED vars
  BY <1>5 DEF vars
<1> QED
  BY <1>1, <1>2, <1>3, <1>4, <1>5 DEF Next

LEMMA ExcusedStays ==
  ASSUME [Next]_vars
  PROVE  \A i : Excused(i) => Excused(i)'
  BY EndStays DEF Excused

LEMMA PlacesStep ==
  ASSUME TypeOK, TypeOK', Control, PlacesInv, [Next]_vars
  PROVE  PlacesInv'
<1> SUFFICES ASSUME NEW i \in Ids
             PROVE  /\ Places(i)' <= 1
                    /\ i \notin sent' => Places(i)' = 0
                    /\ i \in sent' => Places(i)' = 1 \/ Excused(i)'
  BY DEF PlacesInv
<1>1. /\ Places(i) <= 1
      /\ i \notin sent => Places(i) = 0
      /\ i \in sent => Places(i) = 1 \/ Excused(i)
  BY DEF PlacesInv
<1>2. Excused(i) => Excused(i)'
  BY ExcusedStays
<1>3. CASE AllStayOrLeave
  BY <1>1, <1>2, <1>3 DEF AllStayOrLeave, Stays, Leaves
<1>4. CASE OneIsAnswered
  BY <1>1, <1>2, <1>4 DEF OneIsAnswered, Stays, IsAnswered
<1>5. CASE AllAreTold
  BY <1>1, <1>2, <1>5 DEF AllAreTold, IsTold, Stays
<1>6. CASE OneIsSent
  BY <1>1, <1>2, <1>6 DEF OneIsSent, IsSent, Stays
<1> QED
  BY <1>3, <1>4, <1>5, <1>6, Journey

LEMMA ControlStep ==
  ASSUME TypeOK, TypeOK', Control, [Next]_vars
  PROVE  Control'
<1> USE DEF server, client, history, SameExchange
<1> DEFINE Marked == \A k \in DOMAIN qin : qin[k].killed => qin[k].ref \in asked
<1>0. Marked /\ Idle.kind = "Idle" /\ CmdLine.kind = "CmdLine" /\ (stage \in {"created", "cmdline"} => ~IsExec)
  BY DEF Control, IsExec, Idle, CmdLine
<1>1. ASSUME UNCHANGED <<stage, comm, batch, running, qin>>, asked \subseteq asked' PROVE Control'
  BY <1>1 DEF Control
<1>2. CASE ClientStep
  BY <1>1, <1>2 DEF ClientStep, ClientSends, ClientOrders, ClientPolls, Issue
<1>3. ASSUME NEW p \in Process \cup Command, qin' = Append(qin, p), ~p.killed, asked' = asked PROVE Marked'
  <2>1. qin \in Seq(Process \cup Command)
    BY DEF TypeOK
  <2>2. /\ DOMAIN qin' = 1 .. Len(qin) + 1 /\ DOMAIN qin = 1 .. Len(qin) /\ Len(qin) \in Nat
        /\ qin'[Len(qin) + 1] = p /\ \A k \in 1 .. Len(qin) : qin'[k] = qin[k]
    BY <1>3, <2>1
  <2> QED
    BY <1>0, <1>3, <2>2
<1>4. ASSUME UNCHANGED stage, comm /\ comm', Marked', running' = running \/ (\E hit : KillRunning(hit)) PROVE Control'
  <2>1. stage \in {"created", "cmdline"} => running' = running
    BY <1>0, <1>4 DEF KillRunning
  <2> QED
    BY <1>4, <2>1 DEF Control
<1>5. CASE ProcessRequest
  <2>1. CASE DoSigOn \/ DoSigOff
    BY <1>0, <1>4, <2>1 DEF DoSigOn, DoSigOff, Notify, Next1, Raises, At
  <2>2. CASE DoShutdown
    <3>1. KillRunning(TRUE) /\ comm /\ comm' /\ UNCHANGED stage
      BY <2>2 DEF DoShutdown, KillAll, Next1, At
    <3>2. Marked'
      BY <2>2 DEF DoShutdown
    <3> QED
      BY <1>4, <3>1, <3>2
  <2>3. CASE DoKill
    <3>1. Arg \in Ids
      BY <2>3, BatchHead, CommandForms DEF DoKill, Next1, At, Arg
    <3>2. Marked'
      <4> SUFFICES ASSUME NEW k \in DOMAIN qin', qin'[k].killed PROVE qin'[k].ref \in asked'
        OBVIOUS
      <4>1. k \in DOMAIN qin /\ qin'[k].ref = qin[k].ref /\ (qin[k].killed \/ qin[k].ref = Arg)
        BY <2>3, KillQueueType DEF DoKill
      <4>2. asked' = asked \cup {i \in {Arg} : \E l \in DOMAIN qin : qin[l].ref = i}
        BY <2>3 DEF DoKill
      <4> QED
        BY <1>0, <4>1, <4>2
    <3> QED
      BY <1>4, <2>3, <3>2 DEF DoKill, Next1, At
  <2>4. CASE DoPoll \/ DoGet \/ DoUnknown
    BY <1>0, <1>4, <2>4 DEF DoPoll, DoGet, DoUnknown, Next1, Raises, At
  <2>5. ASSUME NEW k \in {"SET", "EXEC"}, DoRequest(k) PROVE Control'
    <3>1. Arg \in Ids
      BY <2>5, BatchHead, CommandForms DEF DoRequest, Next1, At, Arg, Kinds
    <3> DEFINE p == [kind |-> k, ref |-> Arg, killed |-> FALSE]
    <3>2. p \in Process \cup Command /\ ~p.killed /\ qin' = Append(qin, p)
      BY <2>5, <3>1 DEF DoRequest, Enqueued, Process
    <3> HIDE DEF p
    <3>3. Marked'
      BY <1>3, <2>5, <3>2 DEF DoRequest
    <3> QED
      BY <1>4, <2>5, <3>3 DEF DoRequest, Next1, At
  <2> QED
    BY <1>5, <2>1, <2>2, <2>3, <2>4, <2>5 DEF ProcessRequest
<1>6. CASE Start \/ Stop \/ Foreground \/ Break
  BY <1>0, <1>6 DEF Start, Stop, Foreground, Break, Control
<1>7. CASE Pop
  <2>1. stage = "loop" /\ qin # <<>> /\ qin' = Tail(qin) /\ qin \in Seq(Process \cup Command) /\ asked' = asked
    BY <1>7 DEF Pop, Popped, Looping, TypeOK
  <2>2. \A k \in DOMAIN qin' : k + 1 \in DOMAIN qin /\ qin'[k] = qin[k + 1]
    BY <2>1
  <2>3. Marked'
    BY <1>0, <2>1, <2>2
  <2> QED
    BY <1>7, <2>1, <2>3 DEF Pop, Control
<1>8. CASE EndLoop \/ Fatal
  BY <1>8 DEF EndLoop, Fatal, Control
<1>9. CASE YieldKilled \/ Caught
  BY <1>1, <1>9 DEF YieldKilled, Caught
<1>10. CASE LoopExchange \/ YieldExchange
  BY <1>10 DEF LoopExchange, YieldExchange, Communicate, Control
<1>11. CASE Reply
  BY <1>11 DEF Reply, Control
<1>12. CASE HandlerEnds \/ HandlerThrown
  BY <1>0, <1>12 DEF HandlerEnds, HandlerThrown, Done, Control
<1>13. CASE JobEnds \/ JobThrown
  BY <1>13 DEF JobEnds, JobThrown, JobReturns, InJob, Control
<1>14. CASE PluginStep
  <2>1. ASSUME NEW s \in Signals, Emit(s) PROVE Control'
    BY <1>1, <2>1 DEF Emit
  <2>2. ASSUME NEW j \in Jobs, KillJob(j) PROVE Control'
    BY <1>1, <2>2 DEF KillJob
  <2>3. ASSUME NEW j \in Jobs, Schedule(j) PROVE Control'
    <3> DEFINE p == [kind |-> "CMD", ref |-> j, killed |-> FALSE]
    <3>1. p \in Process \cup Command /\ ~p.killed /\ qin' = Append(qin, p)
      BY <2>3 DEF Schedule, Enqueued, Command
    <3> HIDE DEF p
    <3>2. Marked'
      BY <1>3, <2>3, <3>1 DEF Schedule
    <3> QED
      BY <2>3, <3>2 DEF Schedule, Control
  <2> QED
    BY <1>14, <2>1, <2>2, <2>3 DEF PluginStep
<1>15. CASE UNCHANGED vars
  BY <1>1, <1>15 DEF vars
<1> QED
  BY <1>2, <1>5, <1>6, <1>7, <1>8, <1>9, <1>10, <1>11, <1>12, <1>13, <1>14, <1>15 DEF Next, ServerStep

LEMMA PlacesInit == Init => Control /\ PlacesInv
<1> SUFFICES ASSUME Init PROVE Control /\ PlacesInv
  OBVIOUS
<1>1. Control
  BY DEF Init, Control
<1>2. ASSUME NEW i \in Ids PROVE Places(i) = 0
  <2>1. InQueue(i) = 0 /\ InResponses(i) = 0 /\ InWire(i) = 0 /\ InMessage(i) = 0
    BY CountEmpty DEF Init, InQueue, InResponses, InWire, InMessage
  <2>2. InHand(i) = 0 /\ InTold(i) = 0
    BY ServerAssumption DEF Init, Idle, InHand, InTold
  <2> QED
    BY <2>1, <2>2, CountPlaces, InitType DEF PlacesCounted
<1>3. sent = {}
  BY DEF Init
<1> QED
  BY <1>1, <1>2, <1>3 DEF PlacesInv

RequestInv == TypeOK /\ Control /\ PlacesInv

LEMMA RequestsAlways == Spec => []RequestInv
<1>1. Init => RequestInv
  BY InitType, PlacesInit DEF RequestInv
<1>2. RequestInv /\ [Next]_vars => RequestInv'
  BY StepType, ControlStep, PlacesStep DEF RequestInv
<1> QED
  BY <1>1, <1>2, PTL DEF Spec

(* AnsweredOnce (process_request, process, execute_process): whatever the  *)
(* exchanges nested in handlers, the signals and the exceptions, a request *)
(* is answered at most once, and is lost only when it was killed in the    *)
(* queue, cut by an exception, or with the server.                         *)
THEOREM AnsweredOnceHolds == Spec => []AnsweredOnce
<1>1. RequestInv => AnsweredOnce
  BY DEF RequestInv, PlacesInv, AnsweredOnce, Excused
<1> QED
  BY <1>1, RequestsAlways, PTL

-----------------------------------------------------------------------------
(* Killed requests.  Once a KILL has found a request in the queue, all its *)
(* entries are marked and it is nowhere else, for ever.                    *)

Marked(i) == \A k \in DOMAIN qin : qin[k].ref = i => qin[k].killed
Elsewhere(i) == <<InWire(i), InMessage(i), InHand(i), InResponses(i), InTold(i)>>
Nowhere == <<0, 0, 0, 0, 0>>
Buried(i) == i \in sent /\ Elsewhere(i) = Nowhere /\ Marked(i)

LEMMA BuriedParts ==
  ASSUME NEW i
  PROVE  Elsewhere(i) = Nowhere <=> /\ InWire(i) = 0 /\ InMessage(i) = 0 /\ InHand(i) = 0
                                    /\ InResponses(i) = 0 /\ InTold(i) = 0
  BY DEF Elsewhere, Nowhere

LEMMA BuriedUndisturbed ==
  ASSUME NEW i, Buried(i), sent \subseteq sent', UNCHANGED <<qin, qout, wire, batch, told>>,
         running'.ref = i <=> running.ref = i
  PROVE  Buried(i)'
  BY DEF Buried, Elsewhere, Nowhere, Marked, InWire, InMessage, InHand, InResponses, InTold

LEMMA MarkedAppend ==
  ASSUME TypeOK, NEW i, Marked(i), NEW p \in Process \cup Command, p.ref # i, qin' = Append(qin, p)
  PROVE  Marked(i)'
<1>1. qin \in Seq(Process \cup Command)
  BY DEF TypeOK
<1>2. /\ DOMAIN qin' = 1 .. Len(qin) + 1 /\ DOMAIN qin = 1 .. Len(qin) /\ Len(qin) \in Nat
      /\ qin'[Len(qin) + 1] = p /\ \A k \in 1 .. Len(qin) : qin'[k] = qin[k]
  BY <1>1
<1> QED
  BY <1>2 DEF Marked

(* A request that is not in the message is not its head.                   *)
LEMMA BuriedMessage ==
  ASSUME TypeOK, NEW i \in Ids, InMessage(i) = 0, batch # <<>>, batch' = Tail(batch) \/ batch' = <<>>
  PROVE  InMessage(i)' = 0 /\ (Head(batch)[1] \in Kinds => Arg # i)
<1>1. Tail(batch) \in Seq(Commands)
  BY BatchHead
<1>2. Count(Tail(batch), Kinds \X {i}) \in Nat /\ Count(batch, Kinds \X {i}) = 0
  BY <1>1, CountType DEF InMessage
<1>3. Count(batch, Kinds \X {i}) = Count(Tail(batch), Kinds \X {i}) + (IF Head(batch) \in Kinds \X {i} THEN 1 ELSE 0)
  <2>1. batch \in Seq(Commands) /\ batch # <<>>
    BY DEF TypeOK
  <2> DEFINE M == Kinds \X {i}
  <2> HIDE DEF M
  <2>2. Count(batch, M) = Count(Tail(batch), M) + (IF Head(batch) \in M THEN 1 ELSE 0)
    BY <2>1, CountTail
  <2> QED
    BY <2>2 DEF M
<1>4. Head(batch) \notin Kinds \X {i} /\ Count(Tail(batch), Kinds \X {i}) = 0
  BY <1>2, <1>3
<1>5. Head(batch)[1] \in Kinds => Arg # i
  BY <1>4, BatchHead, CommandForms DEF Arg
<1> QED
  BY <1>4, <1>5, CountEmpty DEF InMessage

LEMMA BuriedRequest ==
  ASSUME TypeOK, NEW i \in Ids, Buried(i), ProcessRequest
  PROVE  Buried(i)'
<1> USE DEF SameExchange, client
<1>0. InWire(i) = 0 /\ InMessage(i) = 0 /\ InHand(i) = 0 /\ InResponses(i) = 0 /\ InTold(i) = 0 /\ i \in sent /\ Marked(i)
  BY BuriedParts DEF Buried
<1>1. InMessage(i)' = 0 /\ UNCHANGED <<wire, told, sent>>
  <2>1. batch # <<>> /\ (batch' = Tail(batch) \/ batch' = <<>>)
    BY DEF ProcessRequest, DoPoll, DoShutdown, DoSigOn, DoSigOff, DoKill, DoGet, DoRequest, DoUnknown, Next1, Raises, Notify, At
  <2>2. UNCHANGED <<wire, told, sent>>
    BY DEF ProcessRequest, DoPoll, DoShutdown, DoSigOn, DoSigOff, DoKill, DoGet, DoRequest, DoUnknown
  <2> QED
    BY <1>0, <2>1, <2>2, BuriedMessage
<1>2. InWire(i)' = 0 /\ InTold(i)' = 0
  BY <1>0, <1>1 DEF InWire, InTold
<1>3. ASSUME running'.ref = running.ref, InResponses(i)' = 0, Marked(i)' PROVE Buried(i)'
  BY <1>0, <1>1, <1>2, <1>3 DEF Buried, Elsewhere, Nowhere, InHand
<1>4. ASSUME NEW k, Next1(k), k \in Kinds PROVE Arg \in Ids /\ Arg # i
  <2>1. batch # <<>> /\ batch' = Tail(batch) /\ Head(batch)[1] \in Kinds /\ Head(batch) \in Commands
    BY <1>4, BatchHead DEF Next1, At
  <2> QED
    BY <1>0, <2>1, BuriedMessage, CommandForms DEF Arg
<1>5. ASSUME NEW r \in Responses, qout' = Append(qout, r), r[1] \in Outcomes => r[2] # i PROVE InResponses(i)' = 0
  BY <1>0, <1>5, ResponseAppend
<1>6. CASE DoPoll
  BY <1>0, <1>3, <1>6 DEF DoPoll, Marked, InResponses
<1>7. CASE DoShutdown
  <2>1. running'.ref = running.ref
    BY <1>7, KillRunningType DEF DoShutdown, KillAll
  <2>2. InResponses(i)' = 0 /\ Marked(i)'
    BY <1>7, CountEmpty DEF DoShutdown, InResponses, Marked
  <2> QED
    BY <1>3, <2>1, <2>2
<1>8. CASE DoSigOn
  <2>1. <<"signal", Arg>> \in Responses /\ "signal" \notin Outcomes
    BY <1>8, BatchHead, CommandForms DEF DoSigOn, Notify, Next1, Raises, At, Arg, Responses, Outcomes
  <2>2. qout' = qout \/ qout' = Append(qout, <<"signal", Arg>>)
    BY <1>8 DEF DoSigOn, MovePending, FirstHook
  <2>3. InResponses(i)' = 0
    BY <1>0, <1>5, <2>1, <2>2 DEF InResponses
  <2> QED
    BY <1>0, <1>3, <1>8, <2>3 DEF DoSigOn, Marked
<1>9. CASE DoSigOff
  BY <1>0, <1>3, <1>9 DEF DoSigOff, Marked, InResponses
<1>10. CASE DoKill
  <2>1. running'.ref = running.ref
    BY <1>10, KillRunningType DEF DoKill
  <2>2. Marked(i)'
    BY <1>0, <1>10, KillQueueType DEF DoKill, Marked
  <2> QED
    BY <1>0, <1>3, <1>10, <2>1, <2>2 DEF DoKill, InResponses
<1>11. CASE DoGet
  <2>1. CASE qout' = qout
    BY <1>0, <1>3, <1>11, <2>1 DEF DoGet, Marked, InResponses
  <2>2. CASE Next1("GET") /\ \E r \in {"data", "error"} : qout' = Append(qout, <<r, Arg>>)
    <3>1. PICK r \in {"data", "error"} : qout' = Append(qout, <<r, Arg>>)
      BY <2>2
    <3>2. Arg \in Ids /\ Arg # i
      BY <1>4, <2>2 DEF Kinds
    <3>3. <<r, Arg>> \in Responses
      BY <3>2 DEF Responses, Outcomes
    <3>4. InResponses(i)' = 0
      BY <1>5, <3>1, <3>2, <3>3
    <3> QED
      BY <1>0, <1>3, <1>11, <3>4 DEF DoGet, Marked
  <2> QED
    BY <1>11, <2>1, <2>2 DEF DoGet
<1>12. CASE DoUnknown
  <2>2. Arg \in Ids /\ Arg # i
    BY <1>4, <1>12 DEF DoUnknown, Kinds
  <2>3. <<"rejected", Arg>> \in Responses
    BY <2>2 DEF Responses, Outcomes
  <2>4. InResponses(i)' = 0
    BY <1>5, <1>12, <2>2, <2>3 DEF DoUnknown
  <2> QED
    BY <1>0, <1>3, <1>12, <2>4 DEF DoUnknown, Marked
<1>13. ASSUME NEW k \in {"SET", "EXEC"}, DoRequest(k) PROVE Buried(i)'
  <2>1. Arg \in Ids /\ Arg # i
    BY <1>4, <1>13 DEF DoRequest, Kinds
  <2> DEFINE p == [kind |-> k, ref |-> Arg, killed |-> FALSE]
  <2>2. p \in Process \cup Command /\ qin' = Append(qin, p) /\ p.ref # i
    BY <1>13, <2>1 DEF DoRequest, Enqueued, Process
  <2> HIDE DEF p
  <2>3. Marked(i)'
    BY <1>0, <2>2, MarkedAppend
  <2> QED
    BY <1>0, <1>3, <1>13, <2>3 DEF DoRequest, InResponses
<1> QED
  BY <1>6, <1>7, <1>8, <1>9, <1>10, <1>11, <1>12, <1>13 DEF ProcessRequest

LEMMA BuriedClient ==
  ASSUME TypeOK, NEW i \in Ids, Buried(i), ClientStep
  PROVE  Buried(i)'
<1> USE DEF server, history
<1>0. InWire(i) = 0 /\ InMessage(i) = 0 /\ InHand(i) = 0 /\ InResponses(i) = 0 /\ InTold(i) = 0 /\ i \in sent /\ Marked(i)
  BY BuriedParts DEF Buried
<1>1. ASSUME NEW c \in Commands, Issue(c), sent \subseteq sent', c[1] \in Kinds => c[2] # i PROVE Buried(i)'
  <2>1. wire' = Append(wire, c) /\ UNCHANGED <<running, qin, qout, batch, told>>
    BY <1>1 DEF Issue
  <2>2. InWire(i)' = 0
    BY <1>0, <1>1, <2>1, WireAppend
  <2>3. Elsewhere(i)' = Nowhere
    BY <1>0, <2>1, <2>2 DEF Elsewhere, Nowhere, InMessage, InHand, InResponses, InTold
  <2> QED
    BY <1>0, <1>1, <2>1, <2>3 DEF Buried, Marked
<1>2. ASSUME NEW k \in Kinds, NEW h \in Ids, ClientSends(k, h) PROVE Buried(i)'
  <2>1. <<k, h>> \in Commands /\ h # i /\ <<k, h>>[2] = h /\ Issue(<<k, h>>) /\ sent \subseteq sent'
    BY <1>0, <1>2 DEF Commands, ClientSends
  <2> QED
    BY <1>1, <2>1
<1>3. ASSUME NEW c \in Commands, c[1] \in {"kill", "sigon", "sigoff", "shutdown"}, ClientOrders(c)
      PROVE  Buried(i)'
  BY <1>1, <1>3 DEF ClientOrders, Kinds
<1>4. CASE ClientPolls
  <2>1. <<"poll">> \in Commands /\ <<"poll">>[1] \notin Kinds
    BY DEF Commands, Kinds
  <2> QED
    BY <1>1, <1>4, <2>1 DEF ClientPolls
<1> QED
  BY <1>2, <1>3, <1>4 DEF ClientStep

LEMMA BuriedQueues ==
  ASSUME TypeOK, TypeOK', Control, NEW i \in Ids, Buried(i),
         \/ Reply \/ LoopExchange \/ YieldExchange \/ Pop \/ HandlerEnds \/ HandlerThrown
         \/ (\E s \in Signals : Emit(s)) \/ (\E j \in Jobs : Schedule(j))
  PROVE  Buried(i)'
<1> USE DEF server, client, history
<1>0. InWire(i) = 0 /\ InMessage(i) = 0 /\ InHand(i) = 0 /\ InResponses(i) = 0 /\ InTold(i) = 0 /\ i \in sent /\ Marked(i)
  BY BuriedParts DEF Buried
<1>1. CASE Reply
  <2>1. InWire(i)' = 0 /\ InMessage(i)' = 0 /\ InHand(i)' = 0 /\ InResponses(i)' = 0
    BY <1>0, <1>1, CountEmpty DEF Reply, Cleared, InWire, InMessage, InHand, InResponses
  <2>2. told'[i] = told[i]
    <3>1. Answering(i) = {}
      BY <1>0, CountPlaces DEF PlacesCounted
    <3>2. Answers(i) = {}
      BY <3>1 DEF Answers, Answering
    <3> QED
      BY <1>1, <3>2 DEF Reply
  <2>3. Elsewhere(i)' = Nowhere
    BY <1>0, <2>1, <2>2 DEF Elsewhere, Nowhere, InTold
  <2> QED
    BY <1>0, <1>1, <2>3 DEF Reply, Buried, Marked
<1>2. CASE LoopExchange \/ YieldExchange
  <2>1. Communicate /\ batch = <<>>
    BY <1>2 DEF LoopExchange, YieldExchange, Looping, MayYield, Calling, Control
  <2>2. InWire(i) + InMessage(i) = InWire(i)' + InMessage(i)'
    BY <2>1, WireCut
  <2>3. InWire(i)' = 0 /\ InMessage(i)' = 0
    BY <1>0, <2>2, CountPlacesNext DEF PlacesCounted
  <2>4. UNCHANGED <<running, qin, qout, told, sent>>
    BY <2>1 DEF Communicate
  <2> QED
    BY <1>0, <2>3, <2>4 DEF Buried, Elsewhere, Nowhere, Marked, InHand, InResponses, InTold
<1>3. CASE Pop
  <2>1. qin # <<>> /\ qin' = Tail(qin) /\ qin \in Seq(Process \cup Command)
    BY <1>3 DEF Pop, Popped, TypeOK
  <2>2. \A k \in DOMAIN qin' : k + 1 \in DOMAIN qin /\ qin'[k] = qin[k + 1]
    BY <2>1
  <2>3. Head(qin) = qin[1] /\ 1 \in DOMAIN qin /\ Head(qin) \in Process \cup Command
    BY <2>1
  <2>4. running'.ref # i
    <3>1. CASE Skips(Head(qin))
      BY <1>3, <3>1, ServerAssumption DEF Pop, Idle
    <3>2. CASE ~Skips(Head(qin))
      <4>1. ~Head(qin).killed /\ running' = AsRunning(Head(qin))
        BY <1>3, <3>2 DEF Pop, Skips
      <4>2. Head(qin).ref # i
        BY <1>0, <2>3, <4>1 DEF Marked
      <4> QED
        BY <2>3, <4>1, <4>2, EntryForms
    <3> QED
      BY <3>1, <3>2
  <2>5. Marked(i)'
    BY <1>0, <2>2 DEF Marked
  <2>6. UNCHANGED <<qout, wire, batch, told, sent>>
    BY <1>3 DEF Pop
  <2> QED
    BY <1>0, <2>4, <2>5, <2>6 DEF Buried, Elsewhere, Nowhere, InHand, InWire, InMessage, InResponses, InTold
<1>4. CASE HandlerEnds \/ HandlerThrown
  <2>1. PICK r \in {"data", "error"} : Done(r)
    BY <1>4 DEF HandlerEnds, HandlerThrown
  <2>2. running.ref \in Ids /\ running.ref # i
    BY <1>0, <1>4, RunningForms DEF HandlerEnds, HandlerThrown, IsExec, TypeOK, InHand
  <2>3. <<r, running.ref>> \in Responses
    BY <2>2 DEF Responses, Outcomes
  <2>4. qout' = Append(qout, <<r, running.ref>>) /\ running' = Idle /\ UNCHANGED <<qin, wire, batch, told, sent>>
    BY <2>1 DEF Done
  <2>5. InResponses(i)' = 0
    BY <1>0, <2>2, <2>3, <2>4, ResponseAppend
  <2>6. InHand(i)' = 0
    BY <2>4, ServerAssumption DEF InHand, Idle
  <2> QED
    BY <1>0, <2>4, <2>5, <2>6 DEF Buried, Elsewhere, Nowhere, Marked, InWire, InMessage, InTold
<1>5. ASSUME NEW s \in Signals, Emit(s) PROVE Buried(i)'
  <2>1. <<"signal", s>> \in Responses /\ "signal" \notin Outcomes
    BY DEF Responses, Outcomes
  <2>2. qout' = qout \/ qout' = Append(qout, <<"signal", s>>)
    BY <1>5 DEF Emit, DoSignal
  <2>3. InResponses(i)' = 0
    BY <1>0, <2>1, <2>2, ResponseAppend DEF InResponses
  <2>4. UNCHANGED <<running, qin, wire, batch, told, sent>>
    BY <1>5 DEF Emit
  <2> QED
    BY <1>0, <2>3, <2>4 DEF Buried, Elsewhere, Nowhere, Marked, InWire, InMessage, InTold, InHand
<1>6. ASSUME NEW j \in Jobs, Schedule(j) PROVE Buried(i)'
  <2> DEFINE p == [kind |-> "CMD", ref |-> j, killed |-> FALSE]
  <2>1. p \in Process \cup Command /\ p.ref # i /\ qin' = Append(qin, p)
    BY <1>6, ServerAssumption DEF Schedule, Enqueued, Command
  <2> HIDE DEF p
  <2>2. Marked(i)'
    BY <1>0, <2>1, MarkedAppend
  <2>3. UNCHANGED <<running, qout, wire, batch, told, sent>>
    BY <1>6 DEF Schedule
  <2> QED
    BY <1>0, <2>2, <2>3 DEF Buried, Elsewhere, Nowhere, InWire, InMessage, InTold, InHand, InResponses
<1> QED
  BY <1>1, <1>2, <1>3, <1>4, <1>5, <1>6

LEMMA BuriedStays ==
  ASSUME TypeOK, TypeOK', Control, NEW i \in Ids, Buried(i), [Next]_vars
  PROVE  Buried(i)'
<1> USE DEF server, client, history
<1>0. Idle.ref = NoOne /\ CmdLine.ref = NoOne /\ NoOne \notin Ids /\ running.ref # i
  BY BuriedParts, ServerAssumption DEF Idle, CmdLine, Buried, InHand
<1>1. CASE Start \/ Stop \/ Foreground \/ Break \/ JobEnds \/ JobThrown
  <2>1. running'.ref # i
    BY <1>0, <1>1 DEF Start, Stop, Foreground, Break, JobEnds, JobThrown, JobReturns
  <2>2. UNCHANGED <<qin, qout, wire, batch, told, sent>>
    BY <1>1 DEF Start, Stop, Foreground, Break, JobEnds, JobThrown, JobReturns
  <2> QED
    BY <1>0, <2>1, <2>2, BuriedUndisturbed
<1>2. CASE EndLoop \/ YieldKilled \/ Fatal \/ Caught \/ (\E j \in Jobs : KillJob(j)) \/ UNCHANGED vars
  <2>1. UNCHANGED <<running, qin, qout, wire, batch, told, sent>>
    BY <1>2 DEF EndLoop, YieldKilled, Fatal, Caught, KillJob, vars
  <2> QED
    BY <2>1, BuriedUndisturbed
<1> QED
  BY <1>1, <1>2, BuriedClient, BuriedRequest, BuriedQueues DEF Next, ServerStep, PluginStep

(* A KILL buries the request it finds in the queue.                        *)
LEMMA KillBuries ==
  ASSUME TypeOK, TypeOK', PlacesInv, DoKill, NEW i \in Ids, i \in asked', i \notin asked
  PROVE  Buried(i)'
<1> USE DEF SameExchange, client
<1>1. i = Arg /\ \E k \in DOMAIN qin : qin[k].ref = i
  BY DEF DoKill
<1>2. InQueue(i) # 0
  BY <1>1, CountPlaces DEF PlacesCounted
<1>3. /\ Places(i) <= 1 /\ (i \notin sent => Places(i) = 0)
  BY DEF PlacesInv
<1>4. /\ InWire(i) = 0 /\ InMessage(i) = 0 /\ InHand(i) = 0 /\ InResponses(i) = 0 /\ InTold(i) = 0 /\ i \in sent
  BY <1>2, <1>3, CountPlaces DEF PlacesCounted
<1>5. InMessage(i)' = 0
  BY <1>4, BuriedMessage DEF DoKill, Next1, At
<1>6. running'.ref = running.ref
  BY KillRunningType DEF DoKill
<1>7. Elsewhere(i)' = Nowhere
  BY <1>4, <1>5, <1>6 DEF DoKill, Elsewhere, Nowhere, InWire, InHand, InResponses, InTold
<1>8. Marked(i)'
  BY <1>1, KillQueueType DEF DoKill, Marked
<1> QED
  BY <1>4, <1>7, <1>8 DEF DoKill, Buried

KilledInv == \A i \in asked : Buried(i)

LEMMA KilledStep ==
  ASSUME TypeOK, TypeOK', Control, PlacesInv, KilledInv, [Next]_vars
  PROVE  KilledInv'
<1> SUFFICES ASSUME NEW i \in asked' PROVE Buried(i)'
  BY DEF KilledInv
<1>1. i \in Ids
  BY DEF TypeOK
<1>2. CASE i \in asked
  BY <1>1, <1>2, BuriedStays DEF KilledInv
<1>3. CASE i \notin asked
  <2>1. asked' # asked
    BY <1>3
  <2>2. DoKill
    BY <2>1 DEF Next, ClientStep, ClientSends, ClientOrders, ClientPolls, Issue, ServerStep, PluginStep,
         ProcessRequest, DoPoll, DoShutdown, DoSigOn, DoSigOff, DoGet, DoRequest, DoUnknown, Reply,
         Start, Stop, Foreground, LoopExchange, YieldExchange, Communicate, Pop, EndLoop, Break, YieldKilled,
         Caught, HandlerEnds, HandlerThrown, Done, Fatal, JobEnds, JobThrown, JobReturns, Emit, Schedule,
         KillJob, vars, history
  <2> QED
    BY <1>1, <1>3, <2>2, KillBuries
<1> QED
  BY <1>2, <1>3

LEMMA KilledAlways == Spec => [](RequestInv /\ KilledInv)
<1>1. Init => KilledInv
  BY DEF Init, KilledInv
<1>2. RequestInv /\ RequestInv' /\ KilledInv /\ [Next]_vars => KilledInv'
  BY KilledStep DEF RequestInv
<1> QED
  BY <1>1, <1>2, RequestsAlways, PTL DEF Spec

(* KilledNeverRuns (process, line 345): a request killed while it waits in *)
(* the queue never runs and is never answered.                             *)
THEOREM KilledNeverRunsHolds == Spec => []KilledNeverRuns
<1>1. RequestInv /\ KilledInv => KilledNeverRuns
  <2> SUFFICES ASSUME RequestInv, KilledInv, NEW i \in asked
               PROVE  running.ref # i /\ Answering(i) = {} /\ told[i] = "no"
    BY DEF KilledNeverRuns
  <2>1. i \in Ids /\ TypeOK
    BY DEF RequestInv, TypeOK
  <2>2. InHand(i) = 0 /\ InResponses(i) = 0 /\ InTold(i) = 0
    BY BuriedParts DEF KilledInv, Buried
  <2> QED
    BY <2>1, <2>2, CountPlaces DEF PlacesCounted, InHand, InTold
<1> QED
  BY <1>1, KilledAlways, PTL

-----------------------------------------------------------------------------
(* The command line and the jobs.                                          *)

ViewInv ==
  /\ stage = "cmdline" => cmdline = "on" \/ (cmdline = "none" /\ view = "on")
  /\ stage = "loop" => cmdline = "off" \/ (cmdline = "none" /\ view = "off")

LEMMA ViewStep == ViewInv /\ [Next]_vars => ViewInv'
<1> SUFFICES ASSUME ViewInv, [Next]_vars PROVE ViewInv'
  OBVIOUS
<1> USE DEF server, client, history, SameExchange
<1>1. ASSUME UNCHANGED <<stage, cmdline, view>> PROVE ViewInv'
  BY <1>1 DEF ViewInv
<1>2. CASE ClientStep
  BY <1>1, <1>2 DEF ClientStep, ClientSends, ClientOrders, ClientPolls, Issue
<1>3. CASE ProcessRequest
  <2>1. UNCHANGED <<stage, cmdline, view>>
    BY <1>3 DEF ProcessRequest, DoPoll, DoShutdown, DoSigOn, DoSigOff, DoKill, DoGet, DoRequest, DoUnknown
  <2> QED
    BY <1>1, <2>1
<1>4. CASE Reply
  BY <1>4 DEF Reply, Cleared, ViewInv
<1>5. CASE Start \/ Stop \/ Foreground \/ EndLoop \/ Break \/ Fatal
  BY <1>5 DEF Start, Stop, Foreground, Announce, EndLoop, Break, Fatal, ViewInv
<1>6. CASE Pop \/ LoopExchange \/ YieldExchange \/ YieldKilled \/ Caught
  BY <1>1, <1>6 DEF Pop, LoopExchange, YieldExchange, Communicate, YieldKilled, Caught
<1>7. CASE HandlerEnds \/ HandlerThrown \/ JobEnds \/ JobThrown
  BY <1>1, <1>7 DEF HandlerEnds, HandlerThrown, Done, JobEnds, JobThrown, JobReturns
<1>8. CASE PluginStep
  <2>1. ASSUME NEW s \in Signals, Emit(s) PROVE UNCHANGED <<stage, cmdline, view>>
    BY <2>1 DEF Emit
  <2>2. ASSUME NEW j \in Jobs, Schedule(j) \/ KillJob(j) PROVE UNCHANGED <<stage, cmdline, view>>
    BY <2>2 DEF Schedule, KillJob
  <2> QED
    BY <1>1, <1>8, <2>1, <2>2 DEF PluginStep
<1>9. CASE UNCHANGED vars
  BY <1>1, <1>9 DEF vars
<1> QED
  BY <1>2, <1>3, <1>4, <1>5, <1>6, <1>7, <1>8, <1>9 DEF Next, ServerStep

(* ClientKnows (start, foreground, communicate): when no notification of   *)
(* the command line is left to deliver, the last one the client received   *)
(* says what the server is doing, even when one was overwritten.           *)
THEOREM ClientKnowsHolds == Spec => []ClientKnows
<1>1. Init => ViewInv
  BY DEF Init, ViewInv
<1>2. ViewInv => ClientKnows
  BY DEF ViewInv, ClientKnows
<1> QED
  BY <1>1, <1>2, ViewStep, PTL DEF Spec

LEMMA JobStarts ==
  ASSUME TypeOK, [Next]_vars, NEW j \in Jobs, running.ref # j, running'.ref = j
  PROVE  job[j] = "yield"
<1> USE DEF server, client, history, SameExchange
<1>0. Idle.ref # j /\ CmdLine.ref # j
  BY ServerAssumption DEF Idle, CmdLine
<1>1. CASE Pop
  <2> DEFINE p == Head(qin)
  <2>1. p \in Process \cup Command
    BY <1>1 DEF Pop, TypeOK
  <2>2. ~Skips(p) /\ running' = AsRunning(p)
    BY <1>0, <1>1 DEF Pop
  <2>3. p.ref = j /\ p.kind = "CMD"
    BY <2>1, <2>2, EntryForms, ServerAssumption
  <2> QED
    BY <2>2, <2>3 DEF Skips
<1>2. ASSUME ~Pop PROVE FALSE
  <2>1. CASE DoShutdown \/ DoKill
    BY <2>1, KillRunningType DEF DoShutdown, KillAll, DoKill
  <2>2. CASE ClientStep
    BY <2>2 DEF ClientStep, ClientSends, ClientOrders, ClientPolls, Issue
  <2>3. CASE DoPoll \/ DoSigOn \/ DoSigOff \/ DoGet \/ DoUnknown \/ \E k \in {"SET", "EXEC"} : DoRequest(k)
    BY <2>3 DEF DoPoll, DoSigOn, DoSigOff, DoGet, DoRequest, DoUnknown
  <2>4. CASE Start \/ Stop \/ Foreground \/ Break
    BY <1>0, <2>4 DEF Start, Stop, Foreground, Break
  <2>5. CASE HandlerEnds \/ HandlerThrown \/ JobEnds \/ JobThrown
    BY <1>0, <2>5 DEF HandlerEnds, HandlerThrown, Done, JobEnds, JobThrown, JobReturns
  <2>6. CASE Reply \/ LoopExchange \/ YieldExchange \/ EndLoop \/ YieldKilled \/ Caught \/ Fatal
    BY <2>6 DEF Reply, LoopExchange, YieldExchange, Communicate, EndLoop, YieldKilled, Caught, Fatal
  <2>7. CASE PluginStep
    <3>1. ASSUME NEW s \in Signals, Emit(s) PROVE running' = running
      BY <3>1 DEF Emit
    <3>2. ASSUME NEW h \in Jobs, Schedule(h) \/ KillJob(h) PROVE running' = running
      BY <3>2 DEF Schedule, KillJob
    <3> QED
      BY <2>7, <3>1, <3>2 DEF PluginStep
  <2>8. CASE UNCHANGED vars
    BY <2>8 DEF vars
  <2> QED
    BY <1>2, <2>1, <2>2, <2>3, <2>4, <2>5, <2>6, <2>7, <2>8 DEF Next, ServerStep, ProcessRequest
<1> QED
  BY <1>1, <1>2

(* The places of the command of a job, as a count.                         *)
CommandOf(j) == [kind : {"CMD"}, ref : {j}, killed : {FALSE}]
JobQueue(j) == Count(qin, CommandOf(j))
JobHand(j) == IF running.ref = j THEN 1 ELSE 0

JobsCounted ==
  \A j \in Jobs : JobPlaces(j) = JobQueue(j) + JobHand(j) /\ JobQueue(j) \in Nat /\ JobHand(j) \in 0 .. 1

LEMMA CountJobs == TypeOK => JobsCounted
<1> SUFFICES ASSUME TypeOK, NEW j \in Jobs
             PROVE  JobPlaces(j) = JobQueue(j) + JobHand(j) /\ JobQueue(j) \in Nat /\ JobHand(j) \in 0 .. 1
  BY DEF JobsCounted
<1>1. qin \in Seq(Process \cup Command)
  BY DEF TypeOK
<1>2. \A k \in DOMAIN qin : qin[k] \in CommandOf(j) <=> qin[k].kind = "CMD" /\ qin[k].ref = j
  <2>1. \A k \in DOMAIN qin : qin[k] \in Process \cup Command
    BY <1>1
  <2> QED
    BY <2>1, EntryForms DEF CommandOf, Command
<1>3. Commanded(j) = Hits(qin, CommandOf(j))
  BY <1>2 DEF Commanded, Hits
<1>4. JobQueue(j) \in Nat
  BY <1>1, CountType DEF JobQueue
<1> QED
  BY <1>3, <1>4 DEF JobPlaces, JobQueue, JobHand, Count

LEMMA CountJobsNext == TypeOK' => JobsCounted'
<1>1. TypeOK => JobsCounted
  BY CountJobs
<1> QED
  BY <1>1, PTL

LEMMA CommandEntry ==
  ASSUME NEW j \in Jobs, NEW p \in Process \cup Command
  PROVE  p \in CommandOf(j) <=> p.ref = j
  BY EntryForms DEF CommandOf, Command

LEMMA JobAppend ==
  ASSUME TypeOK, NEW j \in Jobs, NEW p \in Process \cup Command, qin' = Append(qin, p)
  PROVE  JobQueue(j)' = JobQueue(j) + (IF p.ref = j THEN 1 ELSE 0)
<1>1. qin \in Seq(Process \cup Command)
  BY DEF TypeOK
<1>2. Count(Append(qin, p), CommandOf(j)) = Count(qin, CommandOf(j)) + (IF p \in CommandOf(j) THEN 1 ELSE 0)
  BY <1>1, CountAppend
<1> QED
  BY <1>2, CommandEntry DEF JobQueue

LEMMA JobTail ==
  ASSUME TypeOK, NEW j \in Jobs, qin # <<>>, qin' = Tail(qin)
  PROVE  JobQueue(j) = JobQueue(j)' + (IF Head(qin).ref = j THEN 1 ELSE 0)
<1>1. qin \in Seq(Process \cup Command) /\ Head(qin) \in Process \cup Command
  BY DEF TypeOK
<1>2. Count(qin, CommandOf(j)) = Count(Tail(qin), CommandOf(j)) + (IF Head(qin) \in CommandOf(j) THEN 1 ELSE 0)
  BY <1>1, CountTail
<1> QED
  BY <1>1, <1>2, CommandEntry DEF JobQueue

LEMMA JobMarked ==
  ASSUME TypeOK, NEW j \in Jobs, NEW a, qin' = KillQueue(a)
  PROVE  JobQueue(j)' = JobQueue(j)
<1>1. qin \in Seq(Process \cup Command) /\ KillQueue(a) \in Seq(Process \cup Command)
  BY KillQueueType DEF TypeOK
<1>2. DOMAIN qin = DOMAIN KillQueue(a)
  BY KillQueueType
<1>3. ASSUME NEW k \in DOMAIN qin PROVE qin[k] \in CommandOf(j) <=> KillQueue(a)[k] \in CommandOf(j)
  <2>1. qin[k] \in Process \cup Command /\ KillQueue(a)[k] \in Process \cup Command
    BY <1>1, <1>2
  <2>2. KillQueue(a)[k].ref = qin[k].ref
    BY KillQueueType
  <2> QED
    BY <2>1, <2>2, CommandEntry
<1>4. Count(qin, CommandOf(j)) = Count(KillQueue(a), CommandOf(j))
  BY <1>2, <1>3, CountSame
<1> QED
  BY <1>4 DEF JobQueue

(* What a step may do to the job j: leave it where it is, its status too,  *)
(* or let it leave both places at once when the server does.               *)
JobStays(j) == JobQueue(j)' = JobQueue(j) /\ JobHand(j)' = JobHand(j) /\ job'[j] = job[j]
JobDrops(j) ==
  /\ JobQueue(j)' <= JobQueue(j) /\ JobHand(j)' <= JobHand(j) /\ job'[j] = job[j]
  /\ shutdown' \/ stage' = "ended"

LEMMA TrackedKept ==
  ASSUME TypeOK, TypeOK', [Next]_vars, NEW j \in Jobs, JobTracked(j), JobStays(j) \/ JobDrops(j)
  PROVE  JobTracked(j)'
<1>1. /\ JobPlaces(j) = JobQueue(j) + JobHand(j) /\ JobQueue(j) \in Nat /\ JobHand(j) \in Nat
      /\ JobPlaces(j)' = JobQueue(j)' + JobHand(j)' /\ JobQueue(j)' \in Nat /\ JobHand(j)' \in Nat
  BY CountJobs, CountJobsNext DEF JobsCounted
<1>2. (shutdown => shutdown') /\ (stage = "ended" => stage' = "ended")
  BY EndStays
<1>3. JobPlaces(j)' <= JobPlaces(j)
  BY <1>1 DEF JobStays, JobDrops
<1>4. CASE JobStays(j)
  <2>1. JobPlaces(j)' = JobPlaces(j)
    BY <1>1, <1>4 DEF JobStays
  <2> QED
    BY <1>2, <1>4, <2>1 DEF JobTracked, JobStays
<1>5. CASE JobDrops(j)
  <2>1. JobPlaces(j)' <= 1 /\ (job[j] \in {"none", "result", "failed"} => JobPlaces(j)' = 0)
    BY <1>1, <1>3 DEF JobTracked
  <2> QED
    BY <1>5, <2>1 DEF JobTracked, JobDrops
<1> QED
  BY <1>4, <1>5

LEMMA JobRequest ==
  ASSUME TypeOK, ProcessRequest, NEW j \in Jobs
  PROVE  JobStays(j) \/ JobDrops(j)
<1> USE DEF SameExchange
<1>1. CASE DoPoll \/ DoSigOn \/ DoSigOff \/ DoGet \/ DoUnknown
  BY <1>1 DEF DoPoll, DoSigOn, DoSigOff, DoGet, DoUnknown, JobStays, JobQueue, JobHand
<1>2. CASE DoShutdown
  <2>1. running'.ref = running.ref /\ qin' = <<>> /\ job' = job /\ shutdown'
    BY <1>2, KillRunningType DEF DoShutdown, KillAll
  <2>2. JobQueue(j)' = 0 /\ JobHand(j)' = JobHand(j)
    BY <2>1, CountEmpty DEF JobQueue, JobHand
  <2>3. JobQueue(j) \in Nat /\ JobHand(j) \in Nat
    BY CountJobs DEF JobsCounted
  <2> QED
    BY <2>1, <2>2, <2>3 DEF JobDrops
<1>3. CASE DoKill
  <2>1. running'.ref = running.ref /\ qin' = KillQueue(Arg) /\ job' = job
    BY <1>3, KillRunningType DEF DoKill
  <2> QED
    BY <2>1, JobMarked DEF JobStays, JobHand
<1>4. ASSUME NEW k \in {"SET", "EXEC"}, DoRequest(k) PROVE JobStays(j)
  <2> DEFINE p == [kind |-> k, ref |-> Arg, killed |-> FALSE]
  <2>1. Arg \in Ids
    BY <1>4, BatchHead, CommandForms DEF DoRequest, Next1, At, Arg, Kinds
  <2>2. p \in Process \cup Command /\ p.ref # j /\ qin' = Append(qin, p)
    BY <1>4, <2>1, ServerAssumption DEF DoRequest, Enqueued, Process
  <2> HIDE DEF p
  <2>3. JobQueue(j)' = JobQueue(j) + 0
    BY <2>2, JobAppend
  <2>4. JobQueue(j) \in Nat
    BY CountJobs DEF JobsCounted
  <2> QED
    BY <1>4, <2>3, <2>4 DEF DoRequest, JobStays, JobHand
<1> QED
  BY <1>1, <1>2, <1>3, <1>4 DEF ProcessRequest

LEMMA JobPop ==
  ASSUME TypeOK, TypeOK', Pop, NEW j \in Jobs, JobTracked(j)
  PROVE  JobTracked(j)'
<1> DEFINE p == Head(qin)
<1>1. /\ p \in Process \cup Command /\ qin' = Tail(qin) /\ qin # <<>> /\ running = Idle
      /\ UNCHANGED <<job, shutdown, stage>>
  BY DEF Pop, Popped, Looping, TypeOK
<1>2. Idle.ref # j /\ JobHand(j) = 0
  BY <1>1, ServerAssumption DEF Idle, JobHand
<1>3. JobQueue(j) = JobQueue(j)' + (IF p.ref = j THEN 1 ELSE 0)
  BY <1>1, JobTail
<1>4. /\ JobPlaces(j) = JobQueue(j) + JobHand(j) /\ JobQueue(j) \in Nat
      /\ JobPlaces(j)' = JobQueue(j)' + JobHand(j)' /\ JobQueue(j)' \in Nat
  BY CountJobs, CountJobsNext DEF JobsCounted
<1>5. CASE p.ref # j
  <2>1. running'.ref # j
    BY <1>1, <1>2, <1>5, EntryForms DEF Pop
  <2>2. JobPlaces(j)' = JobPlaces(j)
    BY <1>2, <1>3, <1>4, <1>5, <2>1 DEF JobHand
  <2> QED
    BY <1>1, <2>2 DEF JobTracked
<1>6. CASE p.ref = j
  <2>1. p.kind = "CMD" /\ ~p.killed
    BY <1>1, <1>6, EntryForms, ServerAssumption DEF Command
  <2>2. JobPlaces(j) = 1 /\ JobQueue(j)' = 0
    <3>1. JobPlaces(j) = JobQueue(j)' + 1 /\ JobPlaces(j) <= 1
      BY <1>2, <1>3, <1>4, <1>6 DEF JobTracked
    <3> QED
      BY <1>4, <3>1
  <2>3. CASE job[j] = "yield"
    <3>1. running'.ref = j
      BY <1>1, <1>6, <2>1, <2>3, EntryForms DEF Pop, Skips
    <3>2. JobPlaces(j)' = 1
      BY <1>4, <2>2, <3>1 DEF JobHand
    <3> QED
      BY <1>1, <2>3, <3>2 DEF JobTracked
  <2>4. CASE job[j] # "yield"
    <3>1. running'.ref # j
      BY <1>2, <1>6, <2>1, <2>4 DEF Pop, Skips
    <3>2. JobPlaces(j)' = 0
      BY <1>4, <2>2, <3>1 DEF JobHand
    <3> QED
      BY <1>1, <2>4, <3>2 DEF JobTracked
  <2> QED
    BY <2>3, <2>4
<1> QED
  BY <1>5, <1>6

LEMMA JobReturn ==
  ASSUME TypeOK, TypeOK', NEW st \in Returned, JobReturns(st), NEW j \in Jobs, JobTracked(j)
  PROVE  JobTracked(j)'
<1>1. Idle.ref # j /\ running'.ref # j /\ JobHand(j)' = 0
  BY ServerAssumption DEF Idle, JobReturns, JobHand
<1>2. JobQueue(j)' = JobQueue(j) /\ UNCHANGED <<shutdown, stage>>
  BY DEF JobReturns, JobQueue
<1>3. /\ JobPlaces(j) = JobQueue(j) + JobHand(j) /\ JobQueue(j) \in Nat
      /\ JobPlaces(j)' = JobQueue(j)' + JobHand(j)'
  BY CountJobs, CountJobsNext DEF JobsCounted
<1>4. CASE running.ref = j
  <2>1. job'[j] = st
    BY <1>4 DEF JobReturns, TypeOK
  <2>2. JobPlaces(j)' = 0
    BY <1>1, <1>2, <1>3, <1>4 DEF JobHand, JobTracked
  <2> QED
    BY <2>1, <2>2 DEF JobTracked, Returned
<1>5. CASE running.ref # j
  <2>1. job'[j] = job[j]
    BY <1>5 DEF JobReturns, TypeOK
  <2>2. JobPlaces(j)' = JobPlaces(j)
    BY <1>1, <1>2, <1>3, <1>5 DEF JobHand
  <2> QED
    BY <1>2, <2>1, <2>2 DEF JobTracked
<1> QED
  BY <1>4, <1>5

LEMMA JobPlugin ==
  ASSUME TypeOK, TypeOK', PluginStep, [Next]_vars, NEW j \in Jobs, JobTracked(j)
  PROVE  JobTracked(j)'
<1>0. /\ JobPlaces(j) = JobQueue(j) + JobHand(j) /\ JobQueue(j) \in Nat /\ JobHand(j) \in Nat
      /\ JobPlaces(j)' = JobQueue(j)' + JobHand(j)'
  BY CountJobs, CountJobsNext DEF JobsCounted
<1>1. ASSUME NEW s \in Signals, Emit(s) PROVE JobTracked(j)'
  BY <1>1, TrackedKept DEF Emit, JobStays, JobQueue, JobHand
<1>2. ASSUME NEW h \in Jobs, Schedule(h) PROVE JobTracked(j)'
  <2> DEFINE p == [kind |-> "CMD", ref |-> h, killed |-> FALSE]
  <2>1. p \in Process \cup Command /\ p.ref = h /\ qin' = Append(qin, p)
    BY <1>2 DEF Schedule, Enqueued, Command
  <2> HIDE DEF p
  <2>2. JobQueue(j)' = JobQueue(j) + (IF h = j THEN 1 ELSE 0) /\ JobHand(j)' = JobHand(j)
    BY <1>2, <2>1, JobAppend DEF Schedule, JobHand
  <2>3. CASE h = j
    <3>1. JobPlaces(j)' = 1 /\ job'[j] = "yield"
      BY <1>0, <1>2, <2>2, <2>3 DEF Schedule, JobTracked, TypeOK
    <3> QED
      BY <3>1 DEF JobTracked
  <2>4. CASE h # j
    <3>1. JobStays(j)
      BY <1>0, <1>2, <2>2, <2>4 DEF Schedule, JobStays, TypeOK
    <3> QED
      BY <3>1, TrackedKept
  <2> QED
    BY <2>3, <2>4
<1>3. ASSUME NEW h \in Jobs, KillJob(h) PROVE JobTracked(j)'
  <2>1. JobQueue(j)' = JobQueue(j) /\ JobHand(j)' = JobHand(j)
    BY <1>3 DEF KillJob, server, JobQueue, JobHand
  <2>2. CASE h = j
    <3>1. JobPlaces(j)' = JobPlaces(j) /\ job'[j] = "canceled"
      BY <1>0, <1>3, <2>1, <2>2 DEF KillJob, TypeOK
    <3> QED
      BY <3>1 DEF JobTracked
  <2>3. CASE h # j
    <3>1. JobStays(j)
      BY <1>3, <2>1, <2>3 DEF KillJob, JobStays, TypeOK
    <3> QED
      BY <3>1, TrackedKept
  <2> QED
    BY <2>2, <2>3
<1> QED
  BY <1>1, <1>2, <1>3 DEF PluginStep

(* Before the main loop no job runs, and none when it is left, so only the *)
(* end of the server drops one.                                            *)
LEMMA JobStep ==
  ASSUME TypeOK, TypeOK', Control, [Next]_vars, NEW j \in Jobs, JobTracked(j)
  PROVE  JobTracked(j)'
<1> USE DEF server, client, history
<1>0. Idle.ref # j /\ CmdLine.ref # j
  BY ServerAssumption DEF Idle, CmdLine
<1>1. CASE ClientStep
  <2>1. JobStays(j)
    BY <1>1 DEF ClientStep, ClientSends, ClientOrders, ClientPolls, Issue, JobStays, JobQueue, JobHand
  <2> QED
    BY <2>1, TrackedKept
<1>2. CASE ProcessRequest
  BY <1>2, JobRequest, TrackedKept
<1>3. CASE Reply \/ LoopExchange \/ YieldExchange \/ EndLoop \/ YieldKilled \/ Caught \/ Fatal
  <2>1. JobStays(j)
    BY <1>3 DEF Reply, LoopExchange, YieldExchange, Communicate, EndLoop, YieldKilled, Caught, Fatal,
       JobStays, JobQueue, JobHand
  <2> QED
    BY <2>1, TrackedKept
<1>4. CASE Start \/ Foreground \/ Stop
  <2>1. running.ref # j /\ running'.ref # j /\ UNCHANGED <<qin, job>>
    BY <1>0, <1>4 DEF Start, Foreground, Stop, Control
  <2>2. JobStays(j)
    BY <2>1 DEF JobStays, JobQueue, JobHand
  <2> QED
    BY <2>2, TrackedKept
<1>5. CASE Break
  <2>1. running'.ref # j /\ UNCHANGED <<qin, job>> /\ stage' = "ended"
    BY <1>0, <1>5 DEF Break
  <2>2. JobQueue(j)' = JobQueue(j) /\ JobHand(j)' = 0 /\ JobQueue(j) \in Nat /\ JobHand(j) \in Nat
    BY <2>1, CountJobs DEF JobQueue, JobHand, JobsCounted
  <2>3. JobDrops(j)
    BY <2>1, <2>2 DEF JobDrops
  <2> QED
    BY <2>3, TrackedKept
<1>6. CASE Pop
  BY <1>6, JobPop
<1>7. CASE HandlerEnds \/ HandlerThrown
  <2>1. running.ref # j
    BY <1>7, RunningForms, ServerAssumption DEF HandlerEnds, HandlerThrown, IsExec, TypeOK
  <2>2. running'.ref # j /\ UNCHANGED <<qin, job>>
    BY <1>0, <1>7 DEF HandlerEnds, HandlerThrown, Done
  <2>3. JobStays(j)
    BY <2>1, <2>2 DEF JobStays, JobQueue, JobHand
  <2> QED
    BY <2>3, TrackedKept
<1>8. CASE JobEnds \/ JobThrown
  <2>1. \E st \in Returned : JobReturns(st)
    BY <1>8 DEF JobEnds, JobThrown, Returned
  <2> QED
    BY <2>1, JobReturn
<1>9. CASE PluginStep
  BY <1>9, JobPlugin
<1>10. CASE UNCHANGED vars
  <2>1. JobStays(j)
    BY <1>10 DEF vars, JobStays, JobQueue, JobHand
  <2> QED
    BY <2>1, TrackedKept
<1> QED
  BY <1>1, <1>2, <1>3, <1>4, <1>5, <1>6, <1>7, <1>8, <1>9, <1>10 DEF Next, ServerStep

JobsTracked == \A j \in Jobs : JobTracked(j)

LEMMA JobsAlways == Spec => []JobsTracked
<1>1. Init => JobsTracked
  <2> SUFFICES ASSUME Init, NEW j \in Jobs PROVE JobTracked(j)
    BY DEF JobsTracked
  <2>1. JobQueue(j) = 0 /\ JobHand(j) = 0
    BY CountEmpty, ServerAssumption DEF Init, JobQueue, JobHand, Idle
  <2>2. JobPlaces(j) = 0
    BY <2>1, InitType, CountJobs DEF JobsCounted
  <2> QED
    BY <2>2 DEF Init, JobTracked
<1>2. RequestInv /\ RequestInv' /\ JobsTracked /\ [Next]_vars => JobsTracked'
  BY JobStep DEF RequestInv, JobsTracked
<1> QED
  BY <1>1, <1>2, RequestsAlways, PTL DEF Spec

(* Nothing runs a job canceled in the queue, so nothing changes its status. *)
LEMMA CanceledStep ==
  ASSUME TypeOK, [Next]_vars, NEW j \in Jobs, job[j] = "canceled", running.ref # j
  PROVE  job'[j] = "canceled" /\ running'.ref # j
<1>1. running'.ref # j
  BY JobStarts
<1>2. job'[j] = job[j]
  <2> USE DEF server, client, history, SameExchange
  <2>1. CASE ClientStep
    BY <2>1 DEF ClientStep, ClientSends, ClientOrders, ClientPolls, Issue
  <2>2. CASE ProcessRequest
    BY <2>2 DEF ProcessRequest, DoPoll, DoShutdown, DoSigOn, DoSigOff, DoKill, DoGet, DoRequest, DoUnknown
  <2>3. CASE JobEnds \/ JobThrown
    BY <2>3 DEF JobEnds, JobThrown, JobReturns, TypeOK
  <2>4. CASE ServerStep /\ ~(ProcessRequest \/ JobEnds \/ JobThrown)
    BY <2>4 DEF ServerStep, Reply, Start, Stop, Foreground, LoopExchange, Pop, EndLoop, Break, YieldKilled,
       YieldExchange, Communicate, Caught, HandlerEnds, HandlerThrown, Done, Fatal
  <2>5. ASSUME NEW s \in Signals, Emit(s) PROVE job' = job
    BY <2>5 DEF Emit
  <2>6. ASSUME NEW h \in Jobs, Schedule(h) \/ KillJob(h) PROVE job'[j] = job[j]
    BY <2>6 DEF Schedule, KillJob, TypeOK
  <2>7. CASE UNCHANGED vars
    BY <2>7 DEF vars
  <2> QED
    BY <2>1, <2>2, <2>3, <2>4, <2>5, <2>6, <2>7 DEF Next, PluginStep
<1> QED
  BY <1>1, <1>2

(* JobsServedOnce (schedule, process): the command of a job is in one      *)
(* place until the job returns and in none afterwards, and what a job      *)
(* canceled in the queue was said to be is what it stays.                  *)
THEOREM JobsServedOnceHolds == Spec => JobsServedOnce
<1>1. ASSUME NEW j \in Jobs
      PROVE  Spec => [](job[j] = "canceled" /\ running.ref # j => [](job[j] = "canceled"))
  <2>1. TypeOK /\ [Next]_vars /\ (job[j] = "canceled" /\ running.ref # j)
          => (job[j] = "canceled" /\ running.ref # j)'
    BY CanceledStep
  <2> QED
    BY <2>1, TypeCorrect, PTL DEF Spec
<1>2. Spec => CanceledStays
  BY <1>1 DEF CanceledStays
<1> QED
  BY <1>2, JobsAlways, PTL DEF JobsServedOnce, JobsTracked

-----------------------------------------------------------------------------
(* The server implements the service of RequestService.                    *)

PhaseCounted ==
  \A i \in Ids : Phase(i) = IF InTold(i) = 1 THEN "told"
                            ELSE IF InResponses(i) # 0 THEN "answered"
                            ELSE IF i \notin sent THEN "unsent"
                            ELSE IF Places(i) = 0 THEN "dropped" ELSE "sent"

LEMMA CountPhase == TypeOK => PhaseCounted
  BY CountPlaces DEF PlacesCounted, PhaseCounted, Phase, InTold

LEMMA CountPhaseNext == TypeOK' => PhaseCounted'
<1>1. TypeOK => PhaseCounted
  BY CountPhase
<1> QED
  BY <1>1, PTL

phase == [i \in Ids |-> Phase(i)]

LEMMA MoveIs ==
  ASSUME NEW S, NEW from, NEW to, \A i \in S : i \in Ids /\ Phase(i) \in from,
         \A i \in Ids : Phase(i)' = IF i \in S THEN to ELSE Phase(i)
  PROVE  Service!Move(S, from, to)
  BY DEF Service!Move

LEMMA StaysPhase ==
  ASSUME TypeOK, TypeOK', NEW i \in Ids, Stays(i), i \in sent' <=> i \in sent
  PROVE  Phase(i)' = Phase(i)
  BY CountPhase, CountPhaseNext DEF PhaseCounted, Stays

LEMMA LeaveIsDrop ==
  ASSUME TypeOK, TypeOK', PlacesInv, AllStayOrLeave
  PROVE  \E S \in SUBSET Ids : Service!Drop(S)
<1> DEFINE S == {i \in Ids : Phase(i)' # Phase(i)}
<1>1. ASSUME NEW i \in S PROVE Phase(i) \in {"sent", "answered"} /\ Phase(i)' = "dropped"
  <2>1. i \in Ids /\ Phase(i)' # Phase(i) /\ sent' = sent
    BY DEF AllStayOrLeave
  <2>2. Leaves(i)
    BY <2>1, StaysPhase DEF AllStayOrLeave
  <2>3. InTold(i) = 0 /\ InTold(i)' = 0 /\ InResponses(i)' = 0 /\ Places(i)' = 0
    BY <2>2 DEF Leaves
  <2>4. Phase(i)' = IF i \notin sent THEN "unsent" ELSE "dropped"
    BY <2>1, <2>3, CountPhaseNext DEF PhaseCounted
  <2>5. Phase(i) = IF InResponses(i) # 0 THEN "answered"
                   ELSE IF i \notin sent THEN "unsent"
                   ELSE IF Places(i) = 0 THEN "dropped" ELSE "sent"
    BY <2>1, <2>3, CountPhase DEF PhaseCounted
  <2>6. i \notin sent => InResponses(i) = 0
    <3>1. i \in Ids
      BY <2>1
    <3> HIDE DEF S
    <3>2. i \notin sent => Places(i) = 0
      BY <3>1 DEF PlacesInv
    <3> QED
      BY <3>1, <3>2, CountPlaces DEF PlacesCounted
  <2> QED
    BY <2>1, <2>4, <2>5, <2>6
<1>2. \A i \in Ids : Phase(i)' = IF i \in S THEN "dropped" ELSE Phase(i)
  BY <1>1
<1>3. S \in SUBSET Ids
  OBVIOUS
<1> HIDE DEF S
<1>4. Service!Move(S, {"sent", "answered"}, "dropped")
  BY <1>1, <1>2, <1>3, MoveIs
<1> QED
  BY <1>3, <1>4 DEF Service!Drop

LEMMA AnswerIsAnswer ==
  ASSUME TypeOK, TypeOK', PlacesInv, OneIsAnswered
  PROVE  \E i \in Ids : Service!Answer(i)
<1>1. PICK i \in Ids : IsAnswered(i) /\ \A h \in Ids \ {i} : Stays(h)
  BY DEF OneIsAnswered
<1>2. sent' = sent
  BY DEF OneIsAnswered
<1>3. InResponses(i) = 0 /\ InResponses(i)' = 1 /\ InTold(i) = 0 /\ InTold(i)' = 0 /\ Places(i) = 1
  <2>1. Places(i) <= 1 /\ Places(i)' = Places(i) /\ InResponses(i)' = InResponses(i) + 1 /\ InTold(i)' = InTold(i)
    BY <1>1 DEF PlacesInv, IsAnswered
  <2>2. InResponses(i) \in Nat /\ InTold(i) \in 0 .. 1 /\ Places(i)' >= InResponses(i)' + InTold(i)' /\ Places(i)' \in Nat
    BY CountPlaces, CountPlacesNext DEF PlacesCounted
  <2> QED
    BY <2>1, <2>2
<1>4. i \in sent
  BY <1>3 DEF PlacesInv
<1>5. Phase(i) = "sent" /\ Phase(i)' = "answered"
  BY <1>2, <1>3, <1>4, CountPhase, CountPhaseNext DEF PhaseCounted
<1>6. \A h \in Ids : Phase(h)' = IF h \in {i} THEN "answered" ELSE Phase(h)
  BY <1>1, <1>2, <1>5, StaysPhase
<1>7. Service!Move({i}, {"sent"}, "answered")
  BY <1>5, <1>6, MoveIs
<1> QED
  BY <1>7 DEF Service!Answer

LEMMA TellIsExchange ==
  ASSUME TypeOK, TypeOK', PlacesInv, AllAreTold
  PROVE  Service!Exchange
<1> DEFINE S == {i \in Ids : Phase(i) = "answered"}
<1>1. ASSUME NEW i \in Ids PROVE Phase(i)' = IF i \in S THEN "told" ELSE Phase(i)
  <2>1. IsTold(i) /\ sent' = sent
    BY DEF AllAreTold
  <2>2. CASE InResponses(i) = 0
    <3>1. Phase(i)' = Phase(i)
      BY <2>1, <2>2, StaysPhase DEF IsTold
    <3>2. Phase(i) # "answered"
      BY <2>2, CountPhase DEF PhaseCounted
    <3> QED
      BY <3>1, <3>2
  <2>3. CASE InResponses(i) # 0
    <3>1. InTold(i) = 0 /\ InTold(i)' = 1
      BY <2>1, <2>3 DEF IsTold
    <3>2. Phase(i) = "answered" /\ Phase(i)' = "told"
      BY <2>3, <3>1, CountPhase, CountPhaseNext DEF PhaseCounted
    <3> QED
      BY <3>2
  <2> QED
    BY <2>2, <2>3
<1>2. \A i \in S : i \in Ids /\ Phase(i) \in {"answered"}
  OBVIOUS
<1>3. S = {i \in Ids : phase[i] = "answered"}
  BY DEF phase
<1> HIDE DEF S
<1>4. Service!Move(S, {"answered"}, "told")
  BY <1>1, <1>2, MoveIs
<1> QED
  BY <1>3, <1>4 DEF Service!Exchange, phase

LEMMA SendIsSend ==
  ASSUME TypeOK, TypeOK', PlacesInv, OneIsSent
  PROVE  \E i \in Ids : Service!Send(i)
<1>1. PICK i \in Ids : IsSent(i) /\ \A h \in Ids \ {i} : Stays(h)
  BY DEF OneIsSent
<1>2. i \notin sent /\ sent' = sent \cup {i} /\ Places(i)' = 1 /\ InResponses(i)' = 0 /\ InTold(i)' = 0
  BY <1>1 DEF IsSent
<1>3. InResponses(i) = 0 /\ InTold(i) = 0
  <2>1. Places(i) = 0
    BY <1>2 DEF PlacesInv
  <2> QED
    BY <2>1, CountPlaces DEF PlacesCounted
<1>4. Phase(i) = "unsent" /\ Phase(i)' = "sent"
  BY <1>2, <1>3, CountPhase, CountPhaseNext DEF PhaseCounted
<1>5. \A h \in Ids : Phase(h)' = IF h \in {i} THEN "sent" ELSE Phase(h)
  BY <1>1, <1>2, <1>4, StaysPhase
<1>6. Service!Move({i}, {"unsent"}, "sent")
  BY <1>4, <1>5, MoveIs
<1> QED
  BY <1>6 DEF Service!Send

LEMMA InitImplements == Init => Service!Init
<1> SUFFICES ASSUME Init PROVE Service!Init
  OBVIOUS
<1>1. TypeOK /\ sent = {}
  BY InitType DEF Init
<1>2. ASSUME NEW i \in Ids PROVE Phase(i) = "unsent"
  <2>1. Places(i) = 0
    BY <1>1, PlacesInit DEF PlacesInv
  <2>2. InResponses(i) = 0 /\ InTold(i) = 0
    BY <1>1, <2>1, CountPlaces DEF PlacesCounted
  <2> QED
    BY <1>1, <2>2, CountPhase DEF PhaseCounted
<1> QED
  BY <1>2 DEF Service!Init

LEMMA StepImplements ==
  ASSUME RequestInv, RequestInv', [Next]_vars
  PROVE  [Service!Next]_phase
<1>1. TypeOK /\ TypeOK' /\ Control /\ PlacesInv
  BY DEF RequestInv
<1>2. Service!Next
  BY <1>1, Journey, LeaveIsDrop, AnswerIsAnswer, TellIsExchange, SendIsSend DEF Service!Next
<1> QED
  BY <1>2

(* ImplementsService: each request, seen through its phase, is sent,       *)
(* answered, told or dropped as RequestService allows, and one exchange    *)
(* tells all the answers that are ready.                                   *)
THEOREM ImplementsServiceHolds == Spec => ImplementsService
<1>1. Init => Service!Init
  BY InitImplements
<1>2. RequestInv /\ RequestInv' /\ [Next]_vars => [Service!Next]_phase
  BY StepImplements
<1> QED
  BY <1>1, <1>2, RequestsAlways, PTL DEF Spec, ImplementsService, Service!Spec, phase
=============================================================================
