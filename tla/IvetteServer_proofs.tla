------------------------ MODULE IvetteServer_proofs ------------------------
(* Theorems about IvetteServer, for every set of signals and every bound:  *)
(* the types, the ids and the polling, the signals, and the process behind *)
(* the status.                                                             *)
EXTENDS IvetteServer, TLAPS

(* TypeOK, split by the part of the client that owns the variables. *)
StatusOK == status \in Status /\ wish \in BOOLEAN /\ calls \in 0..MaxCalls
IdsOK    == pending \subseteq 0..MaxRequests - 1 /\ rqCount \in 0..MaxRequests
TimersOK == polling \in BOOLEAN /\ killing \in BOOLEAN /\ reboot \in BOOLEAN /\ spawnErrors \in Nat
ProcsOK  == /\ process \in 0..MaxProcs /\ spawned \in 0..MaxProcs
            /\ live \subseteq 1..spawned /\ dying \subseteq live
LinkOK   == /\ opening \in BOOLEAN /\ running \in BOOLEAN /\ peer \in 0..MaxProcs
            /\ sent \in [rq : SUBSET Requests, sig : SUBSET Signals]
            /\ replies \in Seq(Messages) /\ Len(replies) <= MaxMessages
            /\ changes \in 0..MaxChanges
SigsOK   == active \subseteq Signals /\ listen \subseteq Signals /\ debounced \subseteq Signals
TypeInv  == StatusOK /\ IdsOK /\ TimersOK /\ ProcsOK /\ LinkOK /\ SigsOK

LEMMA TypeParts == TypeInv => TypeOK
  BY DEF TypeInv, TypeOK, StatusOK, IdsOK, TimersOK, ProcsOK, LinkOK, SigsOK

-----------------------------------------------------------------------------
(* The operators of the model stay in their types. *)

LEMMA SetStatusType ==
  ASSUME SigsOK, NEW st \in Status, SetStatus(st)
  PROVE  status' \in Status /\ SigsOK'
  BY DEF SetStatus, SigsOK

LEMMA NothingType == /\ Nothing \in [rq : SUBSET Requests, sig : SUBSET Signals]
                     /\ <<>> \in Seq(Messages) /\ Len(<<>>) <= MaxMessages
                     /\ 0 \in 0..MaxProcs /\ 0 \in 0..MaxChanges
                     /\ {} \subseteq 0..MaxRequests - 1 /\ 0 \in 0..MaxRequests
<1>1. Nothing \in [rq : SUBSET Requests, sig : SUBSET Signals]
  BY DEF Nothing
<1>2. <<>> \in Seq(Messages) /\ Len(<<>>) <= MaxMessages
  BY BoundsAssumption
<1>3. 0 \in 0..MaxProcs /\ 0 \in 0..MaxChanges /\ 0 \in 0..MaxRequests
  BY BoundsAssumption
<1> QED
  BY <1>1, <1>2, <1>3

LEMMA DisconnectType == Disconnect => LinkOK'
  BY NothingType DEF Disconnect, LinkOK

LEMMA ConnectType == LinkOK /\ Connect => LinkOK'
  BY NothingType DEF Connect, LinkOK

LEMMA ForsakenType == \A msg \in Messages : Forsaken(msg) \in Messages
<1> SUFFICES ASSUME NEW msg \in Messages PROVE Forsaken(msg) \in Messages
  OBVIOUS
<1>1. CASE msg.res = "ANSWER"
  <2>1. msg \in [res : {"ANSWER"}, rq : Requests]
    BY <1>1 DEF Messages
  <2>2. Stale(msg.rq) \in Requests
    BY <2>1 DEF Stale, Requests
  <2> QED
    BY <1>1, <2>1, <2>2 DEF Forsaken, Messages
<1>2. CASE msg.res # "ANSWER"
  BY <1>2 DEF Forsaken
<1> QED
  BY <1>1, <1>2

(* Giving up the requests in flight relabels them and leaves the rest alone. *)
LEMMA ForsakeAllType ==
  ASSUME LinkOK, ForsakeAll
  PROVE  LinkOK' /\ Len(replies') = Len(replies) /\ sent'.sig = sent.sig
<1>1. sent' \in [rq : SUBSET Requests, sig : SUBSET Signals] /\ sent'.sig = sent.sig
  <2>1. \A rq \in Requests : Stale(rq) \in Requests
    BY DEF Stale, Requests
  <2>2. {Stale(rq) : rq \in sent.rq} \in SUBSET Requests
    BY <2>1 DEF LinkOK
  <2> QED
    BY <2>2 DEF ForsakeAll, LinkOK
<1>2. replies' \in Seq(Messages) /\ Len(replies') = Len(replies)
  BY ForsakenType DEF ForsakeAll, LinkOK
<1> QED
  BY <1>1, <1>2 DEF ForsakeAll, LinkOK

LEMMA ShutdownType ==
  ASSUME TypeInv, Shutdown
  PROVE  IdsOK' /\ TimersOK' /\ ProcsOK' /\ LinkOK'
<1>1. LinkOK'
  BY ForsakeAllType DEF TypeInv, Shutdown
<1>2. IdsOK'
  BY BoundsAssumption DEF Shutdown, ClearRequests, IdsOK
<1>3. TimersOK' /\ ProcsOK'
  BY DEF TypeInv, Shutdown, ClearRequests, ArmsKilling, TimersOK, ProcsOK, os
<1> QED
  BY <1>1, <1>2, <1>3

LEMMA KillProcessType ==
  ASSUME TypeInv, KillProcess, UNCHANGED <<requests, timers>>
  PROVE  IdsOK' /\ TimersOK' /\ ProcsOK' /\ LinkOK'
<1>1. LinkOK'
  BY DisconnectType DEF KillProcess
<1>2. IdsOK' /\ TimersOK' /\ ProcsOK'
  BY DEF TypeInv, IdsOK, TimersOK, ProcsOK, KillProcess, Terminated, requests, timers
<1> QED
  BY <1>1, <1>2

LEMMA StartCallType ==
  ASSUME TypeInv, StartCall
  PROVE  status' \in Status /\ wish' \in BOOLEAN /\ SigsOK' /\ IdsOK' /\ ProcsOK' /\ LinkOK'
         /\ polling' \in BOOLEAN /\ killing' \in BOOLEAN /\ spawnErrors' \in Nat
<1> USE DEF TypeInv
<1>1. CASE /\ status \in {"OFF", "FAILURE", "RESTARTING"}
           /\ SetStatus("STARTING") /\ wish' = FALSE
           /\ Spawn \/ SpawnFails
           /\ UNCHANGED <<requests, polling, killing>>
  <2>1. status' \in Status /\ SigsOK'
    BY <1>1, SetStatusType DEF Status
  <2>2. IdsOK' /\ polling' \in BOOLEAN /\ killing' \in BOOLEAN
    BY <1>1 DEF IdsOK, TimersOK, requests
  <2>3. CASE Spawn
    <3>1. LinkOK'
      BY <2>3, ConnectType DEF Spawn
    <3>2. ProcsOK' /\ spawnErrors' \in Nat
      BY <2>3, BoundsAssumption DEF Spawn, ProcsOK, TimersOK
    <3> QED
      BY <1>1, <2>1, <2>2, <3>1, <3>2
  <2>4. CASE SpawnFails
    <3>1. LinkOK'
      BY <2>4 DEF SpawnFails, LinkOK, connection
    <3>2. ProcsOK' /\ spawnErrors' \in Nat
      BY <2>4 DEF SpawnFails, ProcsOK, TimersOK, os
    <3> QED
      BY <1>1, <2>1, <2>2, <3>1, <3>2
  <2> QED
    BY <1>1, <2>3, <2>4
<1>2. CASE /\ status = "HALTING"
           /\ SetStatus("RESTARTING") /\ wish' = TRUE
           /\ UNCHANGED <<process, requests, polling, killing, spawnErrors, connection, os>>
  <2>1. status' \in Status /\ SigsOK'
    BY <1>2, SetStatusType DEF Status
  <2> QED
    BY <1>2, <2>1 DEF IdsOK, TimersOK, ProcsOK, LinkOK, requests, connection, os
<1> QED
  BY <1>1, <1>2 DEF StartCall

LEMMA ExitType ==
  ASSUME TypeInv, NEW error \in BOOLEAN, Exit(error)
  PROVE  status' \in Status /\ SigsOK' /\ IdsOK' /\ LinkOK' /\ process' = 0
         /\ polling' \in BOOLEAN /\ killing' \in BOOLEAN /\ reboot' \in BOOLEAN
<1>1. status' \in Status /\ SigsOK'
  BY SetStatusType DEF TypeInv, Exit, Status
<1>2. LinkOK'
  BY DisconnectType DEF Exit
<1>3. IdsOK'
  BY NothingType DEF Exit, ClearRequests, IdsOK
<1>4. process' = 0 /\ polling' \in BOOLEAN /\ killing' \in BOOLEAN
  BY DEF Exit, ClearRequests
<1>5. reboot' \in BOOLEAN
  BY DEF Exit, Reboots
<1> QED
  BY <1>1, <1>2, <1>3, <1>4, <1>5

-----------------------------------------------------------------------------
(* The types, one step per action. *)

LEMMA UserCallsType == TypeInv /\ UserCalls => TypeInv'
<1> SUFFICES ASSUME TypeInv, UserCalls PROVE TypeInv'
  OBVIOUS
<1> USE DEF TypeInv
<1>1. calls' \in 0..MaxCalls
  BY BoundsAssumption DEF UserCalls, StatusOK
<1>2. CASE StartCall /\ UNCHANGED reboot
  BY <1>1, <1>2, StartCallType DEF StatusOK, TimersOK
<1>3. CASE Stop
  <2>1. CASE status = "STARTING" /\ SetStatus("HALTING") /\ KillProcess /\ UNCHANGED <<requests, timers>>
    BY <1>1, <1>3, <2>1, SetStatusType, KillProcessType DEF Stop, StatusOK, Status
  <2>2. CASE status \in {"ON", "CMD", "HALTING"} /\ SetStatus("HALTING") /\ Shutdown
    BY <1>1, <1>3, <2>2, SetStatusType, ShutdownType DEF Stop, StatusOK, Status
  <2>3. CASE /\ status \in {"RESTARTING", "FAILURE"}
             /\ SetStatus(IF status = "RESTARTING" THEN "HALTING" ELSE "OFF")
             /\ UNCHANGED <<requests, timers, connection, os, process>>
    <3>1. StatusOK' /\ SigsOK'
      BY <1>1, <1>3, <2>3, SetStatusType DEF Stop, StatusOK, Status
    <3>2. IdsOK' /\ TimersOK' /\ ProcsOK' /\ LinkOK'
      BY <2>3 DEF IdsOK, TimersOK, ProcsOK, LinkOK, requests, timers, connection, os
    <3> QED
      BY <3>1, <3>2
  <2> QED
    BY <1>3, <2>1, <2>2, <2>3 DEF Stop
<1>4. CASE Kill
  <2>1. CASE /\ status \in {"ON", "CMD", "HALTING", "STARTING", "RESTARTING"}
             /\ SetStatus("HALTING") /\ KillProcess /\ UNCHANGED <<requests, timers>>
    BY <1>1, <1>4, <2>1, SetStatusType, KillProcessType DEF Kill, StatusOK, Status
  <2>2. CASE /\ status = "FAILURE" /\ SetStatus("OFF")
             /\ UNCHANGED <<requests, timers, connection, os, process>>
    <3>1. StatusOK' /\ SigsOK'
      BY <1>1, <1>4, <2>2, SetStatusType DEF Kill, StatusOK, Status
    <3>2. IdsOK' /\ TimersOK' /\ ProcsOK' /\ LinkOK'
      BY <2>2 DEF IdsOK, TimersOK, ProcsOK, LinkOK, requests, timers, connection, os
    <3> QED
      BY <3>1, <3>2
  <2> QED
    BY <1>4, <2>1, <2>2 DEF Kill
<1>5. CASE Restart
  <2>1. CASE StartCall /\ UNCHANGED reboot
    BY <1>1, <2>1, StartCallType DEF StatusOK, TimersOK
  <2>2. CASE status \in {"ON", "CMD"} /\ SetStatus("RESTARTING") /\ wish' = TRUE /\ Shutdown
    BY <1>1, <2>2, SetStatusType, ShutdownType DEF StatusOK, Status
  <2> QED
    BY <1>5, <2>1, <2>2 DEF Restart
<1>6. CASE ClearConsole
  <2>1. StatusOK' /\ SigsOK'
    BY <1>1, <1>6, SetStatusType DEF ClearConsole, StatusOK, Status
  <2>2. LinkOK' /\ IdsOK'
    BY <1>6, ForsakeAllType, NothingType DEF ClearConsole, ClearRequests, IdsOK
  <2>3. TimersOK' /\ ProcsOK'
    BY <1>6 DEF ClearConsole, ClearRequests, TimersOK, ProcsOK, os
  <2> QED
    BY <2>1, <2>2, <2>3
<1> QED
  BY <1>2, <1>3, <1>4, <1>5, <1>6 DEF UserCalls

LEMMA ProcessEventType ==
  ASSUME TypeInv, SpawnError \/ KillingTimer \/ Reboot \/ \E p \in Procs : ProcessExits(p)
  PROVE  TypeInv'
<1> USE DEF TypeInv
<1>1. CASE SpawnError
  <2>1. spawnErrors' \in Nat
    BY <1>1 DEF SpawnError, TimersOK
  <2>2. ProcsOK'
    BY <1>1, ExitType, NothingType DEF SpawnError, ProcsOK, os
  <2> QED
    BY <1>1, <2>1, <2>2, ExitType DEF SpawnError, StatusOK, TimersOK
<1>2. CASE KillingTimer
  <2>1. ProcsOK'
    BY <1>2 DEF KillingTimer, Terminated, ProcsOK
  <2>2. StatusOK' /\ TimersOK' /\ IdsOK' /\ SigsOK'
    BY <1>2 DEF KillingTimer, StatusOK, TimersOK, IdsOK, SigsOK, requests, signals
  <2>3. LinkOK'
    BY <1>2 DEF KillingTimer, LinkOK, connection
  <2> QED
    BY <2>1, <2>2, <2>3
<1>3. CASE Reboot
  <2>1. CASE StartCall
    BY <1>3, <2>1, StartCallType DEF Reboot, StatusOK, TimersOK
  <2>2. CASE ~StartCall
    <3>1. StatusOK' /\ TimersOK' /\ IdsOK' /\ SigsOK'
      BY <1>3, <2>2 DEF Reboot, StatusOK, TimersOK, IdsOK, SigsOK, requests, signals
    <3>2. ProcsOK'
      BY <1>3, <2>2 DEF Reboot, ProcsOK, os
    <3>3. LinkOK'
      BY <1>3, <2>2 DEF Reboot, LinkOK, connection
    <3> QED
      BY <3>1, <3>2, <3>3
  <2> QED
    BY <2>1, <2>2
<1>4. CASE \E p \in Procs : ProcessExits(p)
  <2>1. PICK p \in Procs : ProcessExits(p)
    BY <1>4
  <2>2. PICK error \in BOOLEAN : Exit(error)
    BY <2>1 DEF ProcessExits
  <2>3. ProcsOK'
    BY <2>1, <2>2, ExitType, NothingType DEF ProcessExits, ProcsOK
  <2>4. StatusOK' /\ TimersOK'
    BY <2>1, <2>2, ExitType DEF ProcessExits, StatusOK, TimersOK
  <2> QED
    BY <2>2, <2>3, <2>4, ExitType
<1> QED
  BY <1>1, <1>2, <1>3, <1>4

LEMMA SigOnSentType ==
  ASSUME LinkOK, SigsOK, NEW st \in Status
  PROVE  SigOnSent(st, sent) \in [rq : SUBSET Requests, sig : SUBSET Signals]
  BY DEF SigOnSent, LinkOK, SigsOK

LEMMA SocketEventType ==
  ASSUME TypeInv, (\E p \in Procs : Connected(p)) \/ SocketFails \/ SocketEnds
  PROVE  TypeInv'
<1> USE DEF TypeInv
<1>1. CASE \E p \in Procs : Connected(p)
  <2>1. PICK p \in Procs : Connected(p)
    BY <1>1
  <2>2. StatusOK' /\ SigsOK'
    BY <2>1, SetStatusType DEF Connected, StatusOK, Status
  <2>3. LinkOK'
    <3>1. sent' \in [rq : SUBSET Requests, sig : SUBSET Signals]
      <4>1. "CMD" \in Status
        BY DEF Status
      <4> QED
        BY <2>1, <4>1, SigOnSentType DEF Connected
    <3> QED
      <4>1. p \in 0..MaxProcs
        BY BoundsAssumption DEF Procs
      <4> QED
        BY <2>1, <3>1, <4>1 DEF Connected, LinkOK
  <2>4. IdsOK' /\ TimersOK' /\ ProcsOK'
    BY <2>1 DEF Connected, IdsOK, TimersOK, ProcsOK, requests, os
  <2> QED
    BY <2>2, <2>3, <2>4
<1>2. CASE SocketFails
  <2>1. StatusOK' /\ SigsOK'
    BY <1>2, SetStatusType DEF SocketFails, StatusOK, Status
  <2>2. LinkOK' /\ IdsOK'
    BY <1>2, DisconnectType, NothingType DEF SocketFails, ClearRequests, IdsOK
  <2>3. TimersOK' /\ ProcsOK'
    BY <1>2 DEF SocketFails, ClearRequests, TimersOK, ProcsOK, os
  <2> QED
    BY <2>1, <2>2, <2>3
<1>3. CASE SocketEnds
  <2>1. LinkOK'
    BY <1>3, DisconnectType DEF SocketEnds
  <2>2. ProcsOK'
    BY <1>3 DEF SocketEnds, ProcsOK
  <2>3. StatusOK' /\ TimersOK' /\ IdsOK' /\ SigsOK'
    BY <1>3 DEF SocketEnds, StatusOK, TimersOK, IdsOK, SigsOK, timers, requests, signals
  <2> QED
    BY <2>1, <2>2, <2>3
<1> QED
  BY <1>1, <1>2, <1>3

LEMMA ServerSpeaksType ==
  ASSUME TypeInv, Announces \/ \E rq \in Requests : Answers(rq)
  PROVE  TypeInv'
<1> USE DEF TypeInv
<1>1. CASE Announces
  <2> DEFINE msg == [res |-> IF changes % 2 = 0 THEN "CMDLINEOFF" ELSE "CMDLINEON"]
  <2>1. msg \in Messages
    BY DEF Messages
  <2>2. replies' \in Seq(Messages) /\ Len(replies') <= MaxMessages
    BY <1>1, <2>1, BoundsAssumption DEF Announces, LinkOK
  <2>3. LinkOK'
    BY <1>1, <2>2, BoundsAssumption DEF Announces, LinkOK
  <2> QED
    BY <1>1, <2>3 DEF Announces, StatusOK, IdsOK, TimersOK, ProcsOK, SigsOK, requests, timers, os, signals
<1>2. CASE \E rq \in Requests : Answers(rq)
  <2>1. PICK rq \in Requests : Answers(rq)
    BY <1>2
  <2>2. [res |-> "ANSWER", rq |-> rq] \in Messages
    BY DEF Messages
  <2>3. replies' \in Seq(Messages) /\ Len(replies') <= MaxMessages
    BY <2>1, <2>2, BoundsAssumption DEF Answers, LinkOK
  <2>4. sent' \in [rq : SUBSET Requests, sig : SUBSET Signals]
    BY <2>1 DEF Answers, LinkOK
  <2>5. LinkOK'
    BY <2>1, <2>3, <2>4 DEF Answers, LinkOK
  <2> QED
    BY <2>1, <2>5 DEF Answers, StatusOK, IdsOK, TimersOK, ProcsOK, SigsOK, requests, timers, os, signals
<1> QED
  BY <1>1, <1>2

LEMMA ReceiveType == TypeInv /\ Receive => TypeInv'
<1> SUFFICES ASSUME TypeInv, Receive PROVE TypeInv'
  OBVIOUS
<1> USE DEF TypeInv
<1> DEFINE msg == Head(replies)
<1>1. /\ replies' \in Seq(Messages) /\ Len(replies') <= MaxMessages /\ msg \in Messages
      /\ UNCHANGED <<process, killing, reboot, spawnErrors, opening, peer, running, changes, calls, wish>>
      /\ UNCHANGED os
  BY BoundsAssumption DEF Receive, LinkOK
<1>2. ProcsOK'
  BY <1>1 DEF ProcsOK, os
<1>3. CASE msg.res = "ANSWER"
  <2>1. OnAnswer(msg.rq)
    BY <1>3 DEF Receive
  <2>2. StatusOK' /\ SigsOK'
    BY <1>1, <2>1 DEF OnAnswer, StatusOK, SigsOK, signals
  <2>3. LinkOK'
    BY <1>1, <2>1 DEF OnAnswer, LinkOK
  <2>4. IdsOK' /\ polling' \in BOOLEAN
    <3>1. CASE Resolved(msg.rq.id)
      <4>1. pending' \subseteq pending /\ (rqCount' = 0 \/ rqCount' = rqCount)
        BY <3>1 DEF Resolved
      <4>2. polling' \in BOOLEAN
        BY <3>1 DEF Resolved
      <4> QED
        BY <4>1, <4>2, NothingType DEF IdsOK
    <3>2. CASE UNCHANGED <<requests, polling>>
      BY <3>2 DEF IdsOK, TimersOK, requests
    <3> QED
      BY <2>1, <3>1, <3>2 DEF OnAnswer
  <2> QED
    BY <1>1, <1>2, <2>2, <2>3, <2>4 DEF TimersOK
<1>4. CASE msg.res # "ANSWER"
  <2>1. PICK cmd \in BOOLEAN : OnCmdLine(cmd)
    BY <1>4 DEF Receive
  <2>2. PICK st \in Status : SetStatus(st) /\ sent' = SigOnSent(st, sent)
    BY <2>1 DEF OnCmdLine, Status
  <2>3. status' \in Status /\ SigsOK' /\ sent' \in [rq : SUBSET Requests, sig : SUBSET Signals]
    BY <2>2, SetStatusType, SigOnSentType
  <2>4. LinkOK'
    BY <1>1, <2>3 DEF LinkOK
  <2>5. IdsOK' /\ polling' \in BOOLEAN
    BY <2>1 DEF OnCmdLine, PollsAfter, IdsOK, TimersOK, requests
  <2> QED
    BY <1>1, <1>2, <2>3, <2>4, <2>5 DEF StatusOK, TimersOK
<1> QED
  BY <1>3, <1>4

LEMMA InterfaceType ==
  ASSUME TypeInv, Send \/ \E s \in Signals : On(s) \/ Off(s) \/ SigOff(s)
  PROVE  TypeInv'
<1> USE DEF TypeInv
<1>1. CASE Send
  <2>1. rqCount \in 0..MaxRequests - 1 /\ rqCount + 1 \in 0..MaxRequests
    BY <1>1, BoundsAssumption DEF Send, IdsOK
  <2>2. IdsOK'
    BY <1>1, <2>1 DEF Send, IdsOK
  <2>3. Fresh(rqCount) \in Requests
    BY <2>1 DEF Fresh, Requests
  <2>4. sent' \in [rq : SUBSET Requests, sig : SUBSET Signals]
    BY <1>1, <2>3 DEF Send, LinkOK
  <2>5. LinkOK'
    BY <1>1, <2>4 DEF Send, LinkOK
  <2>6. StatusOK' /\ TimersOK' /\ ProcsOK' /\ SigsOK'
    BY <1>1 DEF Send, PollsOnSend, StatusOK, TimersOK, ProcsOK, SigsOK, os, signals
  <2> QED
    BY <2>2, <2>5, <2>6
<1>2. CASE \E s \in Signals : On(s) \/ Off(s) \/ SigOff(s)
  <2>1. PICK s \in Signals : On(s) \/ Off(s) \/ SigOff(s)
    BY <1>2
  <2>2. SigsOK'
    BY <2>1 DEF On, Off, SigOff, SigOn, SigsOK
  <2>3. sent' \in [rq : SUBSET Requests, sig : SUBSET Signals]
    BY <2>1 DEF On, Off, SigOff, SigOn, LinkOK, connection
  <2>4. LinkOK'
    BY <2>1, <2>3 DEF On, Off, SigOff, LinkOK, connection
  <2>5. StatusOK' /\ IdsOK' /\ TimersOK' /\ ProcsOK'
    BY <2>1 DEF On, Off, SigOff, StatusOK, IdsOK, TimersOK, ProcsOK, requests, timers, os
  <2> QED
    BY <2>2, <2>4, <2>5
<1> QED
  BY <1>1, <1>2

LEMMA TypeInit == Init => TypeInv
<1> SUFFICES ASSUME Init PROVE TypeInv
  OBVIOUS
<1>1. StatusOK
  <2>1. 0 \in 0..MaxCalls /\ "OFF" \in Status
    BY BoundsAssumption DEF Status
  <2> QED
    BY <2>1 DEF Init, StatusOK
<1>4. TimersOK /\ SigsOK
  BY DEF Init, TimersOK, SigsOK
<1>2. IdsOK /\ ProcsOK
  BY NothingType DEF Init, IdsOK, ProcsOK
<1>3. LinkOK
  BY NothingType DEF Init, LinkOK
<1> QED
  BY <1>1, <1>2, <1>3, <1>4 DEF TypeInv

LEMMA TypeStutter == TypeInv /\ UNCHANGED vars => TypeInv'
<1> SUFFICES ASSUME TypeInv, UNCHANGED vars PROVE TypeInv'
  OBVIOUS
<1> USE DEF TypeInv, vars
<1>1. StatusOK' /\ IdsOK' /\ TimersOK'
  BY DEF StatusOK, IdsOK, TimersOK, requests, timers
<1>2. ProcsOK' /\ SigsOK'
  BY DEF ProcsOK, SigsOK, os, signals
<1>3. LinkOK'
  BY DEF LinkOK, connection
<1> QED
  BY <1>1, <1>2, <1>3

LEMMA TypeStep == TypeInv /\ [Next]_vars => TypeInv'
  BY UserCallsType, ProcessEventType, SocketEventType, ServerSpeaksType, ReceiveType,
     InterfaceType, TypeStutter
     DEF Next, User, SocketEvent, Timer

(* The variables of the client keep their types: in particular the ids in flight stay below the
   bound and what is dying is alive. *)
THEOREM TypeCorrect == Spec => []TypeOK
<1>1. Spec => []TypeInv
  BY TypeInit, TypeStep, PTL DEF Spec
<1> QED
  BY <1>1, TypeParts, PTL

-----------------------------------------------------------------------------
(* The socket, the process and the status. *)

(* A socket is connecting only while the server is STARTING, it has one other end at most, and
   whoever is at that end, or is expected there, a live process is the one server.ts refers to. *)
LinkInv ==
  /\ opening => status = "STARTING" /\ peer = 0 /\ process \in live
  /\ peer # 0 => running /\ process \in live
  /\ Len(replies) > 0 => peer # 0

ReachInv == LinkInv /\ ServerIsReachable

LEMMA StatusSet == \A st : SetStatus(st) => status' = st
  BY DEF SetStatus

LEMMA DisconnectLinks == Disconnect => LinkInv'
<1> SUFFICES ASSUME Disconnect PROVE LinkInv'
  OBVIOUS
<1>1. Len(replies') = 0 /\ ~opening' /\ peer' = 0
  BY DEF Disconnect
<1> QED
  BY <1>1 DEF LinkInv

LEMMA StartCallReach == TypeInv /\ ReachInv /\ StartCall => ReachInv'
<1> SUFFICES ASSUME TypeInv, ReachInv, StartCall PROVE ReachInv'
  OBVIOUS
<1> USE DEF ReachInv, TypeInv
<1>1. CASE status \in {"OFF", "FAILURE", "RESTARTING"} /\ SetStatus("STARTING") /\ Spawn
  <2>1. status' = "STARTING" /\ process' \in live'
    BY <1>1, StatusSet DEF Spawn
  <2>2. peer' = 0 /\ Len(replies') = 0
    BY <1>1 DEF Spawn, Connect
  <2> QED
    BY <2>1, <2>2 DEF LinkInv, ServerIsReachable, IsRunning, IsRunningStatus
<1>2. CASE status \in {"OFF", "FAILURE", "RESTARTING"} /\ SetStatus("STARTING") /\ SpawnFails
  <2>1. status' = "STARTING" /\ spawnErrors' > 0
    BY <1>2, StatusSet DEF SpawnFails, TimersOK
  <2>2. LinkInv'
    BY <1>2, <2>1 DEF SpawnFails, LinkInv, connection, os
  <2> QED
    BY <2>1, <2>2 DEF ServerIsReachable, IsRunning, IsRunningStatus
<1>3. CASE /\ status = "HALTING" /\ SetStatus("RESTARTING")
           /\ UNCHANGED <<process, requests, polling, killing, spawnErrors, connection, os>>
  <2>1. status' = "RESTARTING"
    BY <1>3, StatusSet
  <2>2. LinkInv'
    BY <1>3, <2>1 DEF LinkInv, connection, os
  <2> QED
    BY <1>3, <2>1, <2>2 DEF ServerIsReachable, IsRunning, IsRunningStatus, os
<1> QED
  BY <1>1, <1>2, <1>3 DEF StartCall

LEMMA ShutdownReach ==
  ASSUME TypeInv, ReachInv, Shutdown, NEW st \in {"HALTING", "RESTARTING"}, SetStatus(st),
         status \in {"ON", "CMD", "HALTING"}
  PROVE  ReachInv'
<1> USE DEF ReachInv, TypeInv
<1>1. status' = st
  BY StatusSet
<1>2. LinkInv'
  BY <1>1, ForsakeAllType DEF Shutdown, ForsakeAll, LinkInv, os
<1>3. process' = process /\ live' = live /\ spawnErrors' = spawnErrors
  BY DEF Shutdown, os
<1> QED
  BY <1>1, <1>2, <1>3 DEF ServerIsReachable, IsRunning, IsRunningStatus

LEMMA KillProcessReach ==
  ASSUME TypeInv, ReachInv, KillProcess, SetStatus("HALTING"), UNCHANGED timers,
         status \in {"ON", "CMD", "HALTING", "STARTING", "RESTARTING"}
  PROVE  ReachInv'
<1> USE DEF ReachInv, TypeInv
<1>1. status' = "HALTING" /\ LinkInv'
  BY StatusSet, DisconnectLinks DEF KillProcess
<1>2. process' = process /\ live' = live /\ spawnErrors' = spawnErrors
  BY DEF KillProcess, timers
<1> QED
  BY <1>1, <1>2 DEF ServerIsReachable, IsRunning, IsRunningStatus

LEMMA ExitReach ==
  ASSUME NEW error \in BOOLEAN, Exit(error)
  PROVE  ReachInv'
<1>1. status' \in {"OFF", "FAILURE"} /\ LinkInv'
  BY StatusSet, DisconnectLinks DEF Exit
<1> QED
  BY <1>1 DEF ReachInv, ServerIsReachable, IsRunning, IsRunningStatus

LEMMA UserCallsReach == TypeInv /\ ReachInv /\ UserCalls => ReachInv'
<1> SUFFICES ASSUME TypeInv, ReachInv, UserCalls PROVE ReachInv'
  OBVIOUS
<1>1. CASE StartCall
  BY <1>1, StartCallReach
<1>2. CASE Stop
  <2>1. CASE status = "STARTING" /\ SetStatus("HALTING") /\ KillProcess /\ UNCHANGED <<requests, timers>>
    BY <2>1, KillProcessReach
  <2>2. CASE status \in {"ON", "CMD", "HALTING"} /\ SetStatus("HALTING") /\ Shutdown
    BY <2>2, ShutdownReach
  <2>3. CASE /\ status \in {"RESTARTING", "FAILURE"}
             /\ SetStatus(IF status = "RESTARTING" THEN "HALTING" ELSE "OFF")
             /\ UNCHANGED <<requests, timers, connection, os, process>>
    <3>1. status' = IF status = "RESTARTING" THEN "HALTING" ELSE "OFF"
      BY <2>3, StatusSet
    <3>2. LinkInv'
      BY <2>3 DEF ReachInv, LinkInv, connection, os
    <3> QED
      BY <2>3, <3>1, <3>2 DEF ReachInv, ServerIsReachable, IsRunning, IsRunningStatus, os, timers
  <2> QED
    BY <1>2, <2>1, <2>2, <2>3 DEF Stop
<1>3. CASE Kill
  <2>1. CASE /\ status \in {"ON", "CMD", "HALTING", "STARTING", "RESTARTING"}
             /\ SetStatus("HALTING") /\ KillProcess /\ UNCHANGED <<requests, timers>>
    BY <2>1, KillProcessReach
  <2>2. CASE /\ status = "FAILURE" /\ SetStatus("OFF")
             /\ UNCHANGED <<requests, timers, connection, os, process>>
    <3>1. status' = "OFF" /\ LinkInv'
      BY <2>2, StatusSet DEF ReachInv, LinkInv, connection, os
    <3> QED
      BY <3>1 DEF ReachInv, ServerIsReachable, IsRunning, IsRunningStatus
  <2> QED
    BY <1>3, <2>1, <2>2 DEF Kill
<1>4. CASE Restart
  BY <1>4, StartCallReach, ShutdownReach DEF Restart
<1>5. CASE ClearConsole
  <2>1. status' = "OFF"
    BY <1>5, StatusSet DEF ClearConsole
  <2>2. LinkInv'
    BY <1>5, ForsakeAllType DEF ClearConsole, ForsakeAll, ReachInv, LinkInv, TypeInv, os
  <2> QED
    BY <2>1, <2>2 DEF ReachInv, ServerIsReachable, IsRunning, IsRunningStatus
<1> QED
  BY <1>1, <1>2, <1>3, <1>4, <1>5 DEF UserCalls

LEMMA ReceiveReach == TypeInv /\ ReachInv /\ Receive => ReachInv'
<1> SUFFICES ASSUME TypeInv, ReachInv, Receive PROVE ReachInv'
  OBVIOUS
<1> USE DEF ReachInv, TypeInv
<1>1. /\ Len(replies) > 0 /\ Len(replies') = Len(replies) - 1
      /\ UNCHANGED <<process, spawnErrors, opening, peer, running, live>>
  BY DEF Receive, LinkOK, os
<1>2. process \in live /\ ~opening /\ peer # 0 /\ running
  BY <1>1 DEF LinkInv
<1>3. LinkInv'
  BY <1>1, <1>2 DEF LinkInv
<1> QED
  BY <1>1, <1>2, <1>3 DEF ServerIsReachable, IsRunning, IsRunningStatus

LEMMA ReachStep == TypeInv /\ ReachInv /\ [Next]_vars => ReachInv'
<1> SUFFICES ASSUME TypeInv, ReachInv, [Next]_vars PROVE ReachInv'
  OBVIOUS
<1> USE DEF ReachInv
<1>1. CASE Send
  <2>1. LinkInv'
    BY <1>1 DEF Send, LinkInv, os
  <2> QED
    BY <1>1, <2>1 DEF Send, ServerIsReachable, IsRunning, IsRunningStatus, os
<1>2. CASE \E s \in Signals : On(s) \/ Off(s) \/ SigOff(s)
  <2>1. LinkInv'
    BY <1>2 DEF On, Off, SigOff, LinkInv, os, connection
  <2> QED
    BY <1>2, <2>1 DEF On, Off, SigOff, ServerIsReachable, IsRunning, IsRunningStatus, os, timers
<1>3. CASE \E p \in Procs : Connected(p)
  <2>1. PICK p \in Procs : Connected(p)
    BY <1>3
  <2>2. status' = "CMD" /\ running' /\ ~opening' /\ UNCHANGED <<process, live, replies>> /\ peer' = p
    BY <2>1, StatusSet DEF Connected, os
  <2>3. process \in live /\ peer' # 0
    BY <2>1, <2>2 DEF Connected, LinkInv, Procs
  <2> QED
    BY <2>2, <2>3 DEF LinkInv, ServerIsReachable, IsRunning, IsRunningStatus
<1>4. CASE SocketFails
  <2>1. status' = "FAILURE" /\ LinkInv'
    BY <1>4, StatusSet, DisconnectLinks DEF SocketFails
  <2> QED
    BY <2>1 DEF ServerIsReachable, IsRunning, IsRunningStatus
<1>5. CASE SocketEnds
  <2>1. LinkInv'
    BY <1>5, DisconnectLinks DEF SocketEnds
  <2> QED
    BY <1>5, <2>1 DEF SocketEnds, ServerIsReachable, IsRunning, IsRunningStatus, timers
<1>6. CASE Receive
  BY <1>6, ReceiveReach
<1>7. CASE Announces \/ \E rq \in Requests : Answers(rq)
  <2>1. /\ peer \in live
        /\ UNCHANGED <<status, process, opening, peer, running, live, spawnErrors>>
    BY <1>7 DEF Announces, Answers, os, timers
  <2>2. peer # 0
    BY <2>1 DEF TypeInv, ProcsOK
  <2>3. LinkInv'
    BY <2>1, <2>2 DEF LinkInv
  <2> QED
    BY <2>1, <2>3 DEF ServerIsReachable, IsRunning, IsRunningStatus
<1>8. CASE KillingTimer
  <2>1. LinkInv'
    BY <1>8 DEF KillingTimer, LinkInv, connection
  <2> QED
    BY <1>8, <2>1 DEF KillingTimer, ServerIsReachable, IsRunning, IsRunningStatus
<1>9. CASE Reboot
  <2>1. CASE StartCall
    BY <2>1, StartCallReach
  <2>2. CASE ~StartCall
    <3>1. LinkInv'
      BY <1>9, <2>2 DEF Reboot, LinkInv, connection, os
    <3> QED
      BY <1>9, <2>2, <3>1 DEF Reboot, ServerIsReachable, IsRunning, IsRunningStatus, os
  <2> QED
    BY <2>1, <2>2
<1>10. CASE SpawnError \/ \E p \in Procs : ProcessExits(p)
  BY <1>10, ExitReach DEF SpawnError, ProcessExits
<1>11. CASE UserCalls
  BY <1>11, UserCallsReach
<1>12. CASE UNCHANGED vars
  <2>1. LinkInv'
    BY <1>12 DEF LinkInv, vars, connection, os
  <2> QED
    BY <1>12, <2>1 DEF ServerIsReachable, IsRunning, IsRunningStatus, vars, os, timers
<1> QED
  BY <1>1, <1>2, <1>3, <1>4, <1>5, <1>6, <1>7, <1>8, <1>9, <1>10, <1>11, <1>12
     DEF Next, User, SocketEvent, Timer

LEMMA ReachInit == Init => ReachInv
  BY DEF Init, ReachInv, LinkInv, ServerIsReachable, IsRunning, IsRunningStatus

LEMMA Reachable == Spec => [](TypeInv /\ ReachInv)
  BY TypeInit, TypeStep, ReachInit, ReachStep, PTL DEF Spec

(* Whatever the user, the timers and the processes do, a server that is shown as running is a live
   process that stop and kill reach; one that is starting or halting is, or its spawn has failed and
   the error will end it. *)
THEOREM ServerIsReachableHolds == Spec => []ServerIsReachable
<1>1. ReachInv => ServerIsReachable
  BY DEF ReachInv
<1> QED
  BY <1>1, Reachable, PTL

-----------------------------------------------------------------------------
(* The signals. *)

SignalInv ==
  /\ ~IsRunning => listen = {} /\ debounced = {}
  /\ ListenersAreHeard
  /\ NoLeakedSignal

LEMMA GoesDown ==
  ASSUME SignalInv, NEW st, ~IsRunningStatus(st), SetStatus(st)
  PROVE  SignalInv'
<1>1. ~IsRunning' /\ listen' = {} /\ debounced' = {}
  BY DEF SignalInv, SetStatus, Leaves, Enters, IsRunning
<1> QED
  BY <1>1 DEF SignalInv, ListenersAreHeard, NoLeakedSignal

LEMMA GoesUp ==
  ASSUME LinkOK, SignalInv, NEW st, IsRunningStatus(st), SetStatus(st),
         sent' = SigOnSent(st, sent), IsRunning => running' = running
  PROVE  SignalInv'
<1>1. IsRunning' /\ active' = active
  BY DEF SetStatus, IsRunning
<1>2. CASE IsRunning
  <2>1. listen' = listen /\ debounced' = debounced /\ sent' = sent
    BY <1>2 DEF SetStatus, SigOnSent, Enters, Leaves
  <2> QED
    BY <1>1, <1>2, <2>1 DEF SignalInv, ListenersAreHeard, NoLeakedSignal
<1>3. CASE ~IsRunning
  <2>1. listen = {} /\ listen' = active
    BY <1>3 DEF SetStatus, Enters, Leaves, SignalInv
  <2>2. sent'.sig = sent.sig \cup active
    BY <1>3, <2>1 DEF SigOnSent, Enters, LinkOK
  <2> QED
    BY <1>1, <2>1, <2>2 DEF SignalInv, ListenersAreHeard, NoLeakedSignal
<1> QED
  BY <1>2, <1>3

LEMMA StatusesDown ==
  \A st \in {"OFF", "STARTING", "HALTING", "RESTARTING", "FAILURE"} : ~IsRunningStatus(st)
  BY DEF IsRunningStatus

LEMMA SilentSignals ==
  ASSUME SignalInv, UNCHANGED <<status, signals>>, sent'.sig = sent.sig \/ ~running' \/ ~IsRunning,
         running' => running
  PROVE  SignalInv'
  BY DEF SignalInv, ListenersAreHeard, NoLeakedSignal, IsRunning, signals

LEMMA UserCallsSignals == SignalInv /\ UserCalls => SignalInv'
<1> SUFFICES ASSUME SignalInv, UserCalls PROVE SignalInv'
  OBVIOUS
<1>1. PICK st \in {"OFF", "STARTING", "HALTING", "RESTARTING", "FAILURE"} : SetStatus(st)
  BY DEF UserCalls, StartCall, Stop, Kill, Restart, ClearConsole
<1> QED
  BY <1>1, GoesDown, StatusesDown

LEMMA OnOffSignals ==
  ASSUME TypeInv, SignalInv, NEW s \in Signals, On(s) \/ Off(s) \/ SigOff(s)
  PROVE  SignalInv'
<1> USE DEF TypeInv, LinkOK, SigsOK, SignalInv
<1>1. IsRunning' = IsRunning
  BY DEF On, Off, SigOff, IsRunning
<1>2. CASE On(s)
  <2>1. /\ active' = active \cup {s} /\ debounced' = debounced /\ running' = running
        /\ IsRunning => listen' = listen \cup {s} /\ sent'.sig \in {sent.sig, sent.sig \cup {s}}
        /\ IsRunning /\ s \notin listen => sent'.sig = sent.sig \cup {s}
        /\ ~IsRunning => listen' = listen
    BY <1>2 DEF On, SigOn
  <2> QED
    BY <1>1, <2>1 DEF ListenersAreHeard, NoLeakedSignal
<1>3. CASE Off(s)
  <2>1. /\ active' = active \ {s} /\ listen' = listen /\ running' = running /\ sent' = sent
        /\ debounced' = IF IsRunning THEN debounced \cup {s} ELSE debounced
    BY <1>3 DEF Off, connection
  <2> QED
    BY <1>1, <2>1 DEF ListenersAreHeard, NoLeakedSignal
<1>4. CASE SigOff(s)
  <2>1. active' = active /\ running' = running /\ debounced' = debounced \ {s} /\ IsRunning
    BY <1>4 DEF SigOff
  <2>2. CASE MaySigOff(s)
    <3>1. listen' = listen \ {s} /\ sent'.sig = sent.sig \ {s} /\ s \notin active
      BY <1>4, <2>2 DEF SigOff, MaySigOff
    <3> QED
      BY <1>1, <2>1, <3>1 DEF ListenersAreHeard, NoLeakedSignal
  <2>3. CASE ~MaySigOff(s)
    <3>1. listen' = listen /\ sent' = sent /\ (s \in active \/ s \notin listen)
      BY <1>4, <2>1, <2>3 DEF SigOff, MaySigOff
    <3> QED
      BY <1>1, <2>1, <3>1 DEF ListenersAreHeard, NoLeakedSignal
  <2> QED
    BY <2>2, <2>3
<1> QED
  BY <1>2, <1>3, <1>4

LEMMA ReceiveSignals == TypeInv /\ SignalInv /\ Receive => SignalInv'
<1> SUFFICES ASSUME TypeInv, SignalInv, Receive PROVE SignalInv'
  OBVIOUS
<1>1. CASE Head(replies).res = "ANSWER"
  BY <1>1, SilentSignals DEF Receive, OnAnswer
<1>2. CASE Head(replies).res # "ANSWER"
  <2>1. PICK cmd \in BOOLEAN : OnCmdLine(cmd)
    BY <1>2 DEF Receive
  <2>2. PICK st \in {"ON", "CMD"} : SetStatus(st) /\ sent' = SigOnSent(st, sent)
    BY <2>1 DEF OnCmdLine
  <2>3. running' = running
    BY DEF Receive
  <2> QED
    BY <2>2, <2>3, GoesUp DEF TypeInv, IsRunningStatus
<1> QED
  BY <1>1, <1>2

LEMMA SignalStep == TypeInv /\ ReachInv /\ SignalInv /\ [Next]_vars => SignalInv'
<1> SUFFICES ASSUME TypeInv, ReachInv, SignalInv, [Next]_vars PROVE SignalInv'
  OBVIOUS
<1>1. CASE Send
  <2>1. sent'.sig = sent.sig
    BY <1>1 DEF Send, TypeInv, LinkOK
  <2> QED
    BY <1>1, <2>1, SilentSignals DEF Send
<1>2. CASE \E s \in Signals : On(s) \/ Off(s) \/ SigOff(s)
  BY <1>2, OnOffSignals
<1>3. CASE \E p \in Procs : Connected(p)
  <2>1. PICK p \in Procs : Connected(p)
    BY <1>3
  <2>2. ~IsRunning
    BY <2>1 DEF Connected, ReachInv, LinkInv, IsRunning, IsRunningStatus
  <2>3. IsRunningStatus("CMD") /\ LinkOK
    BY DEF IsRunningStatus, TypeInv
  <2> QED
    BY <2>1, <2>2, <2>3, GoesUp DEF Connected
<1>4. CASE SocketFails \/ SpawnError \/ \E p \in Procs : ProcessExits(p)
  <2>1. PICK st \in {"OFF", "FAILURE"} : SetStatus(st)
    BY <1>4 DEF SocketFails, SpawnError, ProcessExits, Exit
  <2> QED
    BY <2>1, GoesDown, StatusesDown
<1>5. CASE SocketEnds
  BY <1>5, SilentSignals DEF SocketEnds, Disconnect
<1>6. CASE Receive
  BY <1>6, ReceiveSignals
<1>7. CASE Announces \/ \E rq \in Requests : Answers(rq)
  <2>1. sent'.sig = sent.sig
    BY <1>7 DEF Announces, Answers, TypeInv, LinkOK
  <2> QED
    <3>1. UNCHANGED <<status, signals, running>>
      BY <1>7 DEF Announces, Answers
    <3> QED
      BY <2>1, <3>1, SilentSignals
<1>8. CASE KillingTimer
  BY <1>8, SilentSignals DEF KillingTimer, connection
<1>9. CASE Reboot
  <2>1. CASE StartCall
    <3>1. PICK st \in {"STARTING", "RESTARTING"} : SetStatus(st)
      BY <2>1 DEF StartCall
    <3> QED
      BY <3>1, GoesDown, StatusesDown
  <2>2. CASE ~StartCall
    <3>1. UNCHANGED <<status, signals, sent, running>>
      BY <1>9, <2>2 DEF Reboot, connection
    <3> QED
      BY <3>1, SilentSignals
  <2> QED
    BY <2>1, <2>2
<1>10. CASE UserCalls
  BY <1>10, UserCallsSignals
<1>11. CASE UNCHANGED vars
  BY <1>11, SilentSignals DEF vars, connection
<1> QED
  BY <1>1, <1>2, <1>3, <1>4, <1>5, <1>6, <1>7, <1>8, <1>9, <1>10, <1>11
     DEF Next, User, SocketEvent, Timer

LEMMA SignalInit == Init => SignalInv
  BY DEF Init, SignalInv, ListenersAreHeard, NoLeakedSignal, IsRunning, IsRunningStatus

LEMMA SignalsHold == Spec => []SignalInv
  BY SignalInit, SignalStep, Reachable, PTL DEF Spec

(* While the server runs, every signal with listeners has its SIGON on the present connection, and a
   signal that lost its last listener has a SIGOFF scheduled: no debounced SIGOFF, restart or late
   CMDLINE message gets between the two. *)
THEOREM SignalsTrackedHolds == Spec => []SignalsTracked
<1>1. SignalInv => SignalsTracked
  BY DEF SignalInv, SignalsTracked
<1> QED
  BY <1>1, SignalsHold, PTL

-----------------------------------------------------------------------------
(* The requests in flight. *)

RequestInv == FreshIds /\ QuietWhenIdle

LEMMA ClearedIds ==
  ASSUME ClearRequests PROVE RequestInv'
  BY DEF ClearRequests, RequestInv, FreshIds, QuietWhenIdle

LEMMA KeptIds ==
  ASSUME RequestInv, UNCHANGED <<requests, polling>>, status' # "ON" \/ status' = status
  PROVE  RequestInv'
  BY DEF RequestInv, FreshIds, QuietWhenIdle, requests

LEMMA StartCallIds == RequestInv /\ StartCall => RequestInv'
<1> SUFFICES ASSUME RequestInv, StartCall PROVE RequestInv'
  OBVIOUS
<1>1. status' # "ON" /\ UNCHANGED <<requests, polling>>
  BY StatusSet DEF StartCall
<1> QED
  BY <1>1, KeptIds

LEMMA UserCallsIds == RequestInv /\ UserCalls => RequestInv'
<1> SUFFICES ASSUME RequestInv, UserCalls PROVE RequestInv'
  OBVIOUS
<1>1. CASE StartCall
  BY <1>1, StartCallIds
<1>2. CASE Shutdown \/ ClearConsole
  BY <1>2, ClearedIds DEF Shutdown, ClearConsole
<1>3. CASE (Stop \/ Kill) /\ ~Shutdown
  <2>1. status' # "ON" /\ UNCHANGED <<requests, polling>>
    BY <1>3, StatusSet DEF Stop, Kill, timers
  <2> QED
    BY <2>1, KeptIds
<1> QED
  BY <1>1, <1>2, <1>3 DEF UserCalls, Restart

LEMMA ReceiveIds == TypeInv /\ RequestInv /\ Receive => RequestInv'
<1> SUFFICES ASSUME TypeInv, RequestInv, Receive PROVE RequestInv'
  OBVIOUS
<1> USE DEF RequestInv, FreshIds, QuietWhenIdle
<1>1. CASE Head(replies).res = "ANSWER"
  <2> DEFINE rq == Head(replies).rq
  <2>1. status' = status /\ (Resolved(rq.id) \/ UNCHANGED <<requests, polling>>)
    BY <1>1 DEF Receive, OnAnswer
  <2>2. CASE Resolved(rq.id)
    BY <2>1, <2>2 DEF Resolved
  <2> QED
    BY <2>1, <2>2 DEF requests
<1>2. CASE Head(replies).res # "ANSWER"
  <2>1. PICK cmd \in BOOLEAN : OnCmdLine(cmd)
    BY <1>2 DEF Receive
  <2>2. status' = IF cmd THEN "CMD" ELSE "ON"
    BY <2>1, StatusSet DEF OnCmdLine
  <2> QED
    BY <2>1, <2>2 DEF OnCmdLine, PollsAfter, requests
<1> QED
  BY <1>1, <1>2

LEMMA RequestStep == TypeInv /\ RequestInv /\ [Next]_vars => RequestInv'
<1> SUFFICES ASSUME TypeInv, RequestInv, [Next]_vars PROVE RequestInv'
  OBVIOUS
<1>1. CASE Send
  <2>1. rqCount' = rqCount + 1 /\ pending' = pending \cup {rqCount} /\ rqCount \in Nat
    BY <1>1 DEF Send, TypeInv, IdsOK
  <2>2. \A id \in pending : id \in Nat
    BY DEF TypeInv, IdsOK
  <2> QED
    BY <2>1, <2>2 DEF RequestInv, FreshIds, QuietWhenIdle
<1>2. CASE \E p \in Procs : Connected(p)
  <2>1. status' = "CMD" /\ UNCHANGED requests
    BY <1>2, StatusSet DEF Connected
  <2> QED
    BY <2>1 DEF RequestInv, FreshIds, QuietWhenIdle, requests
<1>3. CASE SocketFails \/ SpawnError \/ \E p \in Procs : ProcessExits(p)
  BY <1>3, ClearedIds DEF SocketFails, SpawnError, ProcessExits, Exit
<1>4. CASE Receive
  BY <1>4, ReceiveIds
<1>5. CASE Reboot
  <2>1. CASE StartCall
    BY <2>1, StartCallIds
  <2>2. CASE ~StartCall
    BY <1>5, <2>2, KeptIds DEF Reboot
  <2> QED
    BY <2>1, <2>2
<1>6. CASE UserCalls
  BY <1>6, UserCallsIds
<1>7. CASE \/ KillingTimer \/ SocketEnds \/ Announces \/ \E rq \in Requests : Answers(rq)
           \/ \E s \in Signals : On(s) \/ Off(s) \/ SigOff(s)
           \/ UNCHANGED vars
  <2>1. UNCHANGED <<status, requests, polling>>
    BY <1>7 DEF KillingTimer, SocketEnds, Announces, Answers, On, Off, SigOff, vars, timers
  <2> QED
    BY <2>1, KeptIds
<1> QED
  BY <1>1, <1>2, <1>3, <1>4, <1>5, <1>6, <1>7 DEF Next, User, SocketEvent, Timer

LEMMA RequestInit == Init => RequestInv
  BY DEF Init, RequestInv, FreshIds, QuietWhenIdle

LEMMA RequestsHold == Spec => []RequestInv
  BY RequestInit, RequestStep, Reachable, PTL DEF Spec

(* The id of the next request is never the id of a request in flight, and an idle server is not
   polled, across the resets of rqCount by _clear and by _resolved. *)
THEOREM RequestsTrackedHolds == Spec => []RequestsTracked
<1>1. RequestInv => RequestsTracked
  BY DEF RequestInv, RequestsTracked
<1> QED
  BY <1>1, RequestsHold, PTL

=============================================================================
