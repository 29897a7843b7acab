-------------------------- MODULE ArraySync_proofs --------------------------
(* Theorems about ArraySync, for every set of projects, keys and values, every size of page and
   every kind of array, with or without failures. *)
EXTENDS ArraySync, SequenceCounts, FiniteSetTheorems, TLAPS

(* TypeOK, split by the part of the program that owns the variables. *)
ProjectsOK == kind \in Kinds /\ alive \subseteq Projects /\ cur \in alive /\ rows \in [Projects -> Rows]
ContentsOK == contents \in [Projects \cup {Detached} -> Content] /\ current \in {None, Detached, cur}
FlagsOK    == /\ listen \in BOOLEAN /\ told \in BOOLEAN /\ active \in BOOLEAN
              /\ fetching \in BOOLEAN /\ signaled \in BOOLEAN /\ broken \in BOOLEAN
ClientOK   == model \in Rows /\ requests \in Seq({"sigon", "fetch", "reload"}) /\ answers \in Seq(Answer)
TypeInv    == ProjectsOK /\ ContentsOK /\ FlagsOK /\ ClientOK

LEMMA TypeParts == TypeInv => TypeOK
  BY DEF TypeInv, TypeOK, ProjectsOK, ContentsOK, FlagsOK, ClientOK

-----------------------------------------------------------------------------
(* The operators of the model stay in their types. *)

LEMMA FreshType == Fresh \in Content /\ Empty \in Rows
  BY DEF Fresh, Empty, Content, Updates, Rows

LEMMA ReloadedType ==
  ASSUME NEW cs \in [Projects \cup {Detached} -> Content], NEW s
  PROVE  Reloaded(cs, s) \in [Projects \cup {Detached} -> Content]
  BY FreshType DEF Reloaded

LEMMA RecordedType ==
  ASSUME NEW cs \in [Projects \cup {Detached} -> Content], NEW s \in Projects \cup {Detached},
         NEW k \in Keys, NEW v \in Values \cup {Gone}
  PROVE  Recorded(cs, s, k, v) \in [Projects \cup {Detached} -> Content]
<1> DEFINE c == [cs[s] EXCEPT !.updates = [cs[s].updates EXCEPT ![k] = v]]
<1>1. cs[s] \in Content
  OBVIOUS
<1>2. [cs[s].updates EXCEPT ![k] = v] \in Updates
  BY <1>1 DEF Content, Updates
<1>3. c \in Content
  BY <1>1, <1>2 DEF Content
<1>4. [cs EXCEPT ![s].updates[k] = v] = [cs EXCEPT ![s] = c]
  OBVIOUS
<1> QED
  BY <1>3, <1>4 DEF Recorded

LEMMA CleanupType ==
  ASSUME ContentsOK, NEW p \in Projects
  PROVE  Cleanup(p) \in [Projects \cup {Detached} -> Content]
  BY FreshType DEF ContentsOK, Cleanup, Reloaded

LEMMA SlotType == TypeInv => Slot \in Projects \cup {Detached} /\ Slot \in {Detached, cur}
  BY SyncAssumption DEF TypeInv, ProjectsOK, ContentsOK, Slot

LEMMA DeltaType ==
  ASSUME TypeInv, NEW c \in Content, NEW page
  PROVE  Delta(c) \in Updates /\ Leftover(c, page) \in Updates /\ Only(page, Delta(c)) \in Updates
<1>1. rows[cur] \in Rows
  BY DEF TypeInv, ProjectsOK
<1>2. Delta(c) \in Updates
  BY <1>1 DEF Delta, Content, Updates, Rows
<1>3. \A S, u : u \in Updates => Only(S, u) \in Updates
  BY DEF Only, Updates
<1> QED
  BY <1>2, <1>3 DEF Leftover

LEMMA PatchedType ==
  ASSUME NEW m \in Rows, NEW u \in Updates
  PROVE  Patch(m, u) \in Rows
  BY SyncAssumption DEF Patch, Rows, Updates

-----------------------------------------------------------------------------
LEMMA TypeInit == Init => TypeInv
<1> SUFFICES ASSUME Init PROVE TypeInv
  OBVIOUS
<1>1. ProjectsOK
  BY FreshType DEF Init, ProjectsOK
<1>2. ContentsOK
  BY FreshType DEF Init, ContentsOK
<1>3. FlagsOK
  BY DEF Init, FlagsOK
<1>4. ClientOK
  BY FreshType DEF Init, ClientOK
<1> QED
  BY <1>1, <1>2, <1>3, <1>4 DEF TypeInv

-----------------------------------------------------------------------------
(* The actions preserve the type invariant: first those of the server's arrays. *)

LEMMA NotifiedType ==
  ASSUME TypeInv, NEW cs \in [Projects \cup {Detached} -> Content], NEW s \in {Detached, cur},
         Notified(cs, s), cur' = cur, UNCHANGED listen
  PROVE  ContentsOK' /\ told' \in BOOLEAN
  BY DEF Notified, TypeInv, ContentsOK, FlagsOK, array

LEMMA ChangeType ==
  ASSUME TypeInv, NEW k \in Keys, NEW v \in Values \cup {Gone}, Change(k, v)
  PROVE  TypeInv'
<1>1. ProjectsOK'
  BY DEF Change, TypeInv, ProjectsOK, Rows
<1>2. Recorded(contents, Slot, k, v) \in [Projects \cup {Detached} -> Content]
  BY SlotType, RecordedType DEF TypeInv, ContentsOK
<1>3. ContentsOK' /\ told' \in BOOLEAN
  BY <1>2, SlotType, NotifiedType DEF Change
<1>4. FlagsOK' /\ ClientOK'
  BY <1>3 DEF Change, TypeInv, FlagsOK, ClientOK, link, client
<1> QED
  BY <1>1, <1>3, <1>4 DEF TypeInv

LEMMA RepairedType == ASSUME broken \in BOOLEAN, Repaired PROVE broken' \in BOOLEAN
  BY DEF Repaired

LEMMA RenewType ==
  ASSUME TypeInv, NEW r \in Rows, Renew(r)
  PROVE  TypeInv'
<1>1. ProjectsOK'
  BY DEF Renew, TypeInv, ProjectsOK
<1>2. Reloaded(contents, Slot) \in [Projects \cup {Detached} -> Content]
  BY ReloadedType DEF TypeInv, ContentsOK
<1>3. ContentsOK' /\ told' \in BOOLEAN
  BY <1>2, SlotType, NotifiedType DEF Renew
<1>4. broken' \in BOOLEAN
  BY RepairedType DEF Renew, TypeInv, FlagsOK
<1>5. FlagsOK' /\ ClientOK'
  BY <1>3, <1>4 DEF Renew, TypeInv, FlagsOK, ClientOK, link, client
<1> QED
  BY <1>1, <1>3, <1>5 DEF TypeInv

LEMMA SetCurrentType ==
  ASSUME TypeInv, NEW p \in Projects, SetCurrent(p)
  PROVE  TypeInv'
<1>1. ProjectsOK'
  BY DEF SetCurrent, TypeInv, ProjectsOK
<1>2. Reloaded(contents, SwitchMarks(p)) \in [Projects \cup {Detached} -> Content]
  BY ReloadedType DEF TypeInv, ContentsOK
<1>3. ContentsOK'
  BY <1>2 DEF SetCurrent, TypeInv, ContentsOK
<1>4. told' \in BOOLEAN /\ broken' \in BOOLEAN
  BY RepairedType DEF SetCurrent, TypeInv, FlagsOK
<1>5. FlagsOK' /\ ClientOK'
  BY <1>4 DEF SetCurrent, TypeInv, FlagsOK, ClientOK, link, client
<1> QED
  BY <1>1, <1>3, <1>5 DEF TypeInv

LEMMA UpdateHookType ==
  ASSUME TypeInv, NEW p \in Projects, NEW q \in Projects,
         p = cur \/ q = cur, cur' = q, UpdateHook(p, q)
  PROVE  ContentsOK' /\ told' \in BOOLEAN /\ broken' \in BOOLEAN
<1> DEFINE s == IF AfterCleanup(p) = None THEN q ELSE AfterCleanup(p)
<1>1. Cleanup(p) \in [Projects \cup {Detached} -> Content]
  BY CleanupType DEF TypeInv
<1>2. Reloaded(Cleanup(p), s) \in [Projects \cup {Detached} -> Content]
  BY <1>1, ReloadedType
<1>3. AfterCleanup(p) \in {None, Detached, q}
  BY DEF AfterCleanup, TypeInv, ContentsOK
<1>4. contents' \in [Projects \cup {Detached} -> Content] /\ current' \in {None, Detached, q}
  BY <1>1, <1>2, <1>3 DEF UpdateHook
<1>5. told' \in BOOLEAN /\ broken' \in BOOLEAN
  BY RepairedType DEF UpdateHook, TypeInv, FlagsOK
<1> QED
  BY <1>4, <1>5 DEF ContentsOK

(* What a cleanup does when no update hook runs. *)
LEMMA CleanupAloneType ==
  ASSUME TypeInv, NEW p \in Projects, cur' = cur,
         contents' = Cleanup(p), current' = AfterCleanup(p), UNCHANGED <<told, broken>>
  PROVE  ContentsOK' /\ told' \in BOOLEAN /\ broken' \in BOOLEAN
<1>1. Cleanup(p) \in [Projects \cup {Detached} -> Content]
  BY CleanupType DEF TypeInv
<1> QED
  BY <1>1 DEF AfterCleanup, TypeInv, ContentsOK, FlagsOK

LEMMA ClearProjectType ==
  ASSUME TypeInv, NEW p \in Projects, NEW selected \in BOOLEAN, ClearProject(p, selected)
  PROVE  TypeInv'
<1>1. ProjectsOK'
  BY FreshType DEF ClearProject, TypeInv, ProjectsOK
<1>2. ContentsOK' /\ told' \in BOOLEAN /\ broken' \in BOOLEAN
  <2>1. CASE p = cur /\ selected
    BY <2>1, UpdateHookType DEF ClearProject
  <2>2. CASE ~(p = cur /\ selected)
    BY <2>2, CleanupAloneType DEF ClearProject
  <2> QED
    BY <2>1, <2>2
<1>3. FlagsOK' /\ ClientOK'
  BY <1>2 DEF ClearProject, TypeInv, FlagsOK, ClientOK, link, client
<1> QED
  BY <1>1, <1>2, <1>3 DEF TypeInv

LEMMA RemoveProjectType ==
  ASSUME TypeInv, NEW p \in Projects, RemoveProject(p)
  PROVE  TypeInv'
<1>1. ProjectsOK'
  <2>1. rows' \in [Projects -> Rows]
    BY FreshType DEF RemoveProject, TypeInv, ProjectsOK
  <2>2. kind' \in Kinds /\ alive' \subseteq Projects /\ cur' \in alive'
    BY DEF RemoveProject, TypeInv, ProjectsOK
  <2> QED
    BY <2>1, <2>2 DEF ProjectsOK
<1>2. ContentsOK' /\ told' \in BOOLEAN /\ broken' \in BOOLEAN
  <2>1. CASE p = cur
    <3>1. PICK q \in alive' : cur' = q /\ UpdateHook(p, q)
      BY <2>1 DEF RemoveProject
    <3>2. q \in Projects
      BY <3>1, <1>1 DEF ProjectsOK
    <3> QED
      BY <2>1, <3>1, <3>2, UpdateHookType
  <2>2. CASE p # cur
    BY <2>2, CleanupAloneType DEF RemoveProject
  <2> QED
    BY <2>1, <2>2
<1>3. FlagsOK' /\ ClientOK'
  BY <1>2 DEF RemoveProject, TypeInv, FlagsOK, ClientOK, link, client
<1> QED
  BY <1>1, <1>2, <1>3 DEF TypeInv

-----------------------------------------------------------------------------
(* The requests served, and the client. *)

LEMMA ServedType ==
  ASSUME TypeInv, NEW r, Serve(r)
  PROVE  requests' \in Seq({"sigon", "fetch", "reload"})
  BY DEF Serve, TypeInv, ClientOK

LEMMA ServeSigOnType == ASSUME TypeInv, ServeSigOn PROVE TypeInv'
<1>1. ContentsOK'
  BY FreshType DEF ServeSigOn, TypeInv, ContentsOK, projects
<1>2. ProjectsOK' /\ FlagsOK'
  BY DEF ServeSigOn, TypeInv, ProjectsOK, FlagsOK, projects, client
<1>3. ClientOK'
  BY ServedType DEF ServeSigOn, TypeInv, ClientOK, client
<1> QED
  BY <1>1, <1>2, <1>3 DEF TypeInv

LEMMA ServeFetchType == ASSUME TypeInv, ServeFetch PROVE TypeInv'
<1> DEFINE c == contents[Slot]
<1>1. c \in Content
  BY SlotType DEF TypeInv, ContentsOK
<1>2. PICK page \in SUBSET Dirty(Delta(c)) :
         /\ contents' = [contents EXCEPT ![Slot] =
                           [cleared |-> FALSE, updates |-> Leftover(c, page)]]
         /\ Respond([answer |-> "data", reload |-> c.cleared, data |-> Only(page, Delta(c)),
                     pending |-> page # Dirty(Delta(c))])
  BY DEF ServeFetch
<1>3. Leftover(c, page) \in Updates /\ Only(page, Delta(c)) \in Updates
  BY <1>1, DeltaType
<1>4. ContentsOK'
  <2>1. [cleared |-> FALSE, updates |-> Leftover(c, page)] \in Content
    BY <1>3 DEF Content
  <2>2. contents' \in [Projects \cup {Detached} -> Content]
    BY <1>2, <2>1 DEF TypeInv, ContentsOK
  <2> QED
    BY <2>2, SlotType DEF ServeFetch, ContentsOK, projects
<1>5. ClientOK'
  <2>1. [answer |-> "data", reload |-> c.cleared, data |-> Only(page, Delta(c)),
         pending |-> page # Dirty(Delta(c))] \in Answer
    BY <1>1, <1>3 DEF Answer, Content
  <2>2. answers' \in Seq(Answer)
    BY <1>2, <2>1 DEF Respond, TypeInv, ClientOK
  <2> QED
    BY <2>2, ServedType DEF ServeFetch, TypeInv, ClientOK, client
<1>6. ProjectsOK' /\ FlagsOK'
  BY DEF ServeFetch, TypeInv, ProjectsOK, FlagsOK, projects, client
<1> QED
  BY <1>4, <1>5, <1>6 DEF TypeInv

LEMMA FetchFailsType == ASSUME TypeInv, FetchFails PROVE TypeInv'
<1>1. contents' \in [Projects \cup {Detached} -> Content]
  <2>1. [contents[Slot] EXCEPT !.cleared = FALSE] \in Content
    BY SlotType DEF TypeInv, ContentsOK, Content
  <2>2. contents' = [contents EXCEPT ![Slot] = [contents[Slot] EXCEPT !.cleared = FALSE]]
    BY DEF FetchFails
  <2> QED
    BY <2>1, <2>2 DEF TypeInv, ContentsOK
<1>2. ContentsOK'
  BY <1>1, SlotType DEF FetchFails, ContentsOK, projects
<1>3. ProjectsOK' /\ FlagsOK'
  BY DEF FetchFails, TypeInv, ProjectsOK, FlagsOK, projects, client
<1>4. answers' \in Seq(Answer)
  BY DEF FetchFails, Respond, Answer, TypeInv, ClientOK
<1>5. ClientOK'
  BY <1>4, ServedType DEF FetchFails, TypeInv, ClientOK, client
<1> QED
  BY <1>2, <1>3, <1>5 DEF TypeInv

LEMMA ServeReloadType == ASSUME TypeInv, ServeReload PROVE TypeInv'
<1>1. ContentsOK'
  BY ReloadedType, SlotType DEF ServeReload, TypeInv, ContentsOK, projects
<1>2. ProjectsOK' /\ FlagsOK'
  BY RepairedType DEF ServeReload, TypeInv, ProjectsOK, FlagsOK, projects, client
<1>3. answers' \in Seq(Answer)
  BY DEF ServeReload, Respond, Answer, TypeInv, ClientOK
<1>4. ClientOK'
  BY <1>3, ServedType DEF ServeReload, TypeInv, ClientOK, client
<1> QED
  BY <1>1, <1>2, <1>4 DEF TypeInv

LEMMA AskType ==
  ASSUME TypeInv, NEW rs \in Seq({"sigon", "fetch", "reload"}), Ask(rs)
  PROVE  requests' \in Seq({"sigon", "fetch", "reload"})
<1> DEFINE R == {"sigon", "fetch", "reload"}
<1>1. requests \in Seq(R) /\ rs \in Seq(R)
  BY DEF TypeInv, ClientOK
<1>2. requests \o rs \in Seq(R)
  BY <1>1
<1> QED
  BY <1>2 DEF Ask

LEMMA FetchType ==
  ASSUME TypeInv, NEW rs \in Seq({"sigon", "fetch", "reload"}), Fetch(rs)
  PROVE  /\ requests' \in Seq({"sigon", "fetch", "reload"})
         /\ fetching' \in BOOLEAN /\ signaled' \in BOOLEAN
<1>1. rs \o <<"fetch">> \in Seq({"sigon", "fetch", "reload"})
  OBVIOUS
<1>2. requests' \in Seq({"sigon", "fetch", "reload"})
  <2>1. CASE fetching
    BY <2>1, AskType DEF Fetch
  <2>2. CASE ~fetching
    BY <2>2, <1>1, AskType DEF Fetch
  <2> QED
    BY <2>1, <2>2
<1>3. fetching' \in BOOLEAN /\ signaled' \in BOOLEAN
  BY DEF Fetch, TypeInv, FlagsOK
<1> QED
  BY <1>2, <1>3

LEMMA OnlineType == ASSUME TypeInv, Online PROVE TypeInv'
<1>1. <<"sigon">> \in Seq({"sigon", "fetch", "reload"})
  OBVIOUS
<1>2. /\ requests' \in Seq({"sigon", "fetch", "reload"})
      /\ fetching' \in BOOLEAN /\ signaled' \in BOOLEAN
  BY <1>1, FetchType DEF Online
<1> QED
  BY <1>2 DEF Online, TypeInv, ProjectsOK, ContentsOK, FlagsOK, ClientOK, projects, array

LEMMA OnSignalType == ASSUME TypeInv, OnSignal PROVE TypeInv'
<1>1. << >> \in Seq({"sigon", "fetch", "reload"})
  OBVIOUS
<1>2. /\ requests' \in Seq({"sigon", "fetch", "reload"})
      /\ fetching' \in BOOLEAN /\ signaled' \in BOOLEAN
  BY <1>1, FetchType DEF OnSignal
<1> QED
  BY <1>2 DEF OnSignal, TypeInv, ProjectsOK, ContentsOK, FlagsOK, ClientOK, projects

LEMMA ReceivedType ==
  ASSUME TypeInv, NEW a, Receive(a)
  PROVE  answers' \in Seq(Answer) /\ Head(answers) \in Answer
  BY DEF Receive, TypeInv, ClientOK

LEMMA OnDataType == ASSUME TypeInv, OnData PROVE TypeInv'
<1> DEFINE a == Head(answers)
<1>1. answers' \in Seq(Answer) /\ a \in Answer /\ a.answer = "data"
  BY ReceivedType DEF OnData, Receive
<1>2. a.reload \in BOOLEAN /\ a.data \in Updates /\ a.pending \in BOOLEAN
  BY <1>1 DEF Answer
<1>3. model' \in Rows
  <2>1. (IF a.reload THEN Empty ELSE model) \in Rows
    BY FreshType DEF TypeInv, ClientOK
  <2> QED
    BY <1>2, <2>1, PatchedType DEF OnData, Patched
<1>4. fetching' \in BOOLEAN
  BY <1>2 DEF OnData, More, TypeInv, FlagsOK
<1>5. requests' \in Seq({"sigon", "fetch", "reload"})
  <2>0. <<"fetch">> \in Seq({"sigon", "fetch", "reload"}) /\ <<>> \in Seq({"sigon", "fetch", "reload"})
    OBVIOUS
  <2>1. (IF More(a) THEN <<"fetch">> ELSE <<>>) \in Seq({"sigon", "fetch", "reload"})
    BY <2>0, Zenon
  <2> QED
    BY <2>1, AskType DEF OnData
<1> QED
  BY <1>1, <1>3, <1>4, <1>5
  DEF OnData, TypeInv, ProjectsOK, ContentsOK, FlagsOK, ClientOK, projects, array

LEMMA OnErrorType == ASSUME TypeInv, OnError PROVE TypeInv'
<1>1. answers' \in Seq(Answer)
  BY ReceivedType DEF OnError
<1> QED
  BY <1>1 DEF OnError, TypeInv, ProjectsOK, ContentsOK, FlagsOK, ClientOK, projects, array

LEMMA ReloadType == ASSUME TypeInv, Reload PROVE TypeInv'
<1>1. requests' \in Seq({"sigon", "fetch", "reload"})
  BY DEF Reload, Ask, TypeInv, ClientOK
<1> QED
  BY <1>1, FreshType
  DEF Reload, TypeInv, ProjectsOK, ContentsOK, FlagsOK, ClientOK, projects, array

LEMMA OnReloadedType == ASSUME TypeInv, OnReloaded PROVE TypeInv'
<1>1. << >> \in Seq({"sigon", "fetch", "reload"})
  OBVIOUS
<1>2. /\ requests' \in Seq({"sigon", "fetch", "reload"})
      /\ fetching' \in BOOLEAN /\ signaled' \in BOOLEAN
  BY <1>1, FetchType DEF OnReloaded
<1>3. answers' \in Seq(Answer)
  BY ReceivedType DEF OnReloaded
<1> QED
  BY <1>2, <1>3
  DEF OnReloaded, TypeInv, ProjectsOK, ContentsOK, FlagsOK, ClientOK, projects, array

-----------------------------------------------------------------------------
LEMMA TypeStep == TypeInv /\ [Next]_vars => TypeInv'
<1> SUFFICES ASSUME TypeInv, [Next]_vars PROVE TypeInv'
  OBVIOUS
<1>1. CASE Projectwise
  BY <1>1, SetCurrentType, ClearProjectType, RemoveProjectType DEF Projectwise
<1>2. CASE Tablewise
  BY <1>2, ChangeType, RenewType DEF Tablewise
<1>3. CASE Server
  BY <1>3, ServeSigOnType, ServeFetchType, FetchFailsType, ServeReloadType DEF Server
<1>4. CASE Client
  BY <1>4, OnlineType, OnSignalType, OnDataType, OnErrorType, OnReloadedType DEF Client
<1>5. CASE Reload
  BY <1>5, ReloadType
<1>6. CASE UNCHANGED vars
  BY <1>6 DEF vars, projects, array, link, client,
              TypeInv, ProjectsOK, ContentsOK, FlagsOK, ClientOK
<1> QED
  BY <1>1, <1>2, <1>3, <1>4, <1>5, <1>6 DEF Next

(* The type invariant of ArraySync holds for every value of the constants: the content in use is
   that of the current project, or one its project forgot; the link carries what it may. *)
THEOREM TypeCorrect == Spec => []TypeOK
<1>1. Spec => []TypeInv
  BY TypeInit, TypeStep, PTL DEF Spec
<1> QED
  BY <1>1, TypeParts, PTL

-----------------------------------------------------------------------------
(* LeftIsCleared is inductive with TypeInv: each action that makes a content remember what the
   client knows makes it the current one, and each that moves current marks the content left. *)

LEMMA FreshCleared == Fresh.cleared
  BY DEF Fresh

LEMMA ReloadedCleared ==
  ASSUME NEW cs \in [Projects \cup {Detached} -> Content], NEW s,
         NEW p \in Projects, cs[p].cleared \/ p = s
  PROVE  Reloaded(cs, s)[p].cleared
  BY FreshCleared DEF Reloaded

LEMMA LeftInit == Init => LeftIsCleared
  BY DEF Init, LeftIsCleared

LEMMA NotifiedLeft ==
  ASSUME TypeInv, LeftIsCleared,
         NEW cs \in [Projects \cup {Detached} -> Content],
         Notified(cs, Slot), UNCHANGED <<kind, listen>>,
         \A p \in Projects : p # Slot => cs[p] = contents[p]
  PROVE  LeftIsCleared'
<1> SUFFICES ASSUME kind = "table", listen, NEW p \in Projects, current' # p
             PROVE  contents'[p].cleared
  BY DEF LeftIsCleared
<1>1. contents' = cs /\ current' = Slot
  BY DEF Notified
<1>2. contents[p].cleared
  BY <1>1, SyncAssumption DEF LeftIsCleared, Slot
<1> QED
  BY <1>1, <1>2

LEMMA ChangeLeft ==
  ASSUME TypeInv, LeftIsCleared, NEW k \in Keys, NEW v \in Values \cup {Gone}, Change(k, v)
  PROVE  LeftIsCleared'
<1>1. Recorded(contents, Slot, k, v) \in [Projects \cup {Detached} -> Content]
  BY SlotType, RecordedType DEF TypeInv, ContentsOK
<1>2. \A p \in Projects : p # Slot => Recorded(contents, Slot, k, v)[p] = contents[p]
  BY DEF Recorded, TypeInv, ContentsOK
<1> QED
  BY <1>1, <1>2, NotifiedLeft DEF Change

LEMMA RenewLeft ==
  ASSUME TypeInv, LeftIsCleared, NEW r \in Rows, Renew(r)
  PROVE  LeftIsCleared'
<1>1. Reloaded(contents, Slot) \in [Projects \cup {Detached} -> Content]
  BY ReloadedType DEF TypeInv, ContentsOK
<1>2. \A p \in Projects : p # Slot => Reloaded(contents, Slot)[p] = contents[p]
  BY DEF Reloaded, TypeInv, ContentsOK
<1> QED
  BY <1>1, <1>2, NotifiedLeft DEF Renew

(* The project left is current when there is a cached content, and it is marked. *)
LEMMA SetCurrentLeft ==
  ASSUME TypeInv, LeftIsCleared, NEW q \in Projects, SetCurrent(q)
  PROVE  LeftIsCleared'
<1> SUFFICES ASSUME kind' = "table", listen', NEW p \in Projects
             PROVE  contents'[p].cleared
  BY DEF LeftIsCleared
<1>1. kind = "table" /\ listen
  BY DEF SetCurrent
<1>2. contents' = Reloaded(contents, SwitchMarks(q))
  BY <1>1 DEF SetCurrent
<1>3. contents[p].cleared \/ p = SwitchMarks(q)
  BY <1>1, SyncAssumption DEF LeftIsCleared, SwitchMarks
<1> QED
  BY <1>2, <1>3, ReloadedCleared DEF TypeInv, ContentsOK

LEMMA CleanupLeft ==
  ASSUME TypeInv, LeftIsCleared, kind = "table", listen, NEW q \in Projects,
         NEW p \in Projects, p # AfterCleanup(q)
  PROVE  Cleanup(q)[p].cleared
<1>1. CASE current = q
  <2>1. Cleanup(q)[p] = IF p = q THEN Fresh ELSE contents[p]
    BY <1>1, SyncAssumption DEF Cleanup, TypeInv, ContentsOK
  <2> QED
    BY <1>1, <2>1, FreshCleared DEF LeftIsCleared
<1>2. CASE current # q
  <2>1. Cleanup(q) = Reloaded(contents, q) /\ AfterCleanup(q) = current
    BY <1>2 DEF Cleanup, AfterCleanup
  <2>2. contents[p].cleared
    BY <2>1 DEF LeftIsCleared
  <2> QED
    BY <2>1, <2>2, ReloadedCleared DEF TypeInv, ContentsOK
<1> QED
  BY <1>1, <1>2

LEMMA UpdateHookLeft ==
  ASSUME TypeInv, LeftIsCleared, NEW q \in Projects, NEW r \in Projects,
         UpdateHook(q, r), UNCHANGED <<kind, listen>>
  PROVE  LeftIsCleared'
<1> SUFFICES ASSUME kind = "table", listen, NEW p \in Projects, p # current'
             PROVE  contents'[p].cleared
  BY DEF LeftIsCleared
<1> DEFINE s == IF AfterCleanup(q) = None THEN r ELSE AfterCleanup(q)
<1>1. contents' = Reloaded(Cleanup(q), s) /\ current' = s
  BY DEF UpdateHook
<1>2. p # AfterCleanup(q)
  BY <1>1, SyncAssumption
<1>3. Cleanup(q)[p].cleared
  BY <1>2, CleanupLeft
<1>4. Cleanup(q) \in [Projects \cup {Detached} -> Content]
  BY CleanupType DEF TypeInv
<1> QED
  BY <1>1, <1>3, <1>4, ReloadedCleared

LEMMA CleanupAloneLeft ==
  ASSUME TypeInv, LeftIsCleared, NEW q \in Projects,
         contents' = Cleanup(q), current' = AfterCleanup(q), UNCHANGED <<kind, listen>>
  PROVE  LeftIsCleared'
  BY CleanupLeft DEF LeftIsCleared

LEMMA ProjectwiseLeft ==
  ASSUME TypeInv, LeftIsCleared, Projectwise
  PROVE  LeftIsCleared'
<1>1. ASSUME NEW p \in Projects, SetCurrent(p) PROVE LeftIsCleared'
  BY <1>1, SetCurrentLeft
<1>2. ASSUME NEW p \in Projects, NEW selected \in BOOLEAN, ClearProject(p, selected)
      PROVE  LeftIsCleared'
  BY <1>2, UpdateHookLeft, CleanupAloneLeft DEF ClearProject
<1>3. ASSUME NEW p \in Projects, RemoveProject(p) PROVE LeftIsCleared'
  <2>1. CASE p = cur
    <3>1. PICK q \in alive' : UpdateHook(p, q)
      BY <1>3, <2>1 DEF RemoveProject
    <3>2. q \in Projects
      BY <1>3, <3>1 DEF RemoveProject, TypeInv, ProjectsOK
    <3> QED
      BY <1>3, <3>1, <3>2, UpdateHookLeft DEF RemoveProject
  <2>2. CASE p # cur
    BY <1>3, <2>2, CleanupAloneLeft DEF RemoveProject
  <2> QED
    BY <2>1, <2>2
<1> QED
  BY <1>1, <1>2, <1>3 DEF Projectwise

LEMMA ServerLeft ==
  ASSUME TypeInv, LeftIsCleared, Server
  PROVE  LeftIsCleared'
<1>1. CASE ServeSigOn
  BY <1>1, FreshCleared DEF ServeSigOn, LeftIsCleared, TypeInv, ContentsOK
<1>2. ASSUME ServeFetch \/ FetchFails \/ ServeReload PROVE LeftIsCleared'
  <2> SUFFICES ASSUME kind = "table", listen, NEW p \in Projects, p # Slot
               PROVE  contents'[p].cleared
    BY <1>2 DEF ServeFetch, FetchFails, ServeReload, LeftIsCleared, projects
  <2>1. contents[p].cleared
    BY SyncAssumption DEF LeftIsCleared, Slot
  <2>2. contents'[p] = contents[p]
    BY <1>2 DEF ServeFetch, FetchFails, ServeReload, Reloaded, TypeInv, ContentsOK
  <2> QED
    BY <2>1, <2>2
<1> QED
  BY <1>1, <1>2 DEF Server

LEMMA LeftStep == TypeInv /\ LeftIsCleared /\ [Next]_vars => LeftIsCleared'
<1> SUFFICES ASSUME TypeInv, LeftIsCleared, [Next]_vars PROVE LeftIsCleared'
  OBVIOUS
<1>1. CASE Projectwise
  BY <1>1, ProjectwiseLeft
<1>2. CASE Tablewise
  BY <1>2, ChangeLeft, RenewLeft DEF Tablewise
<1>3. CASE Server
  BY <1>3, ServerLeft
<1>4. CASE Client \/ Reload
  BY <1>4 DEF Client, Online, OnSignal, OnData, OnError, OnReloaded, Reload,
              projects, array, LeftIsCleared
<1>5. CASE UNCHANGED vars
  BY <1>5 DEF vars, projects, array, LeftIsCleared
<1> QED
  BY <1>1, <1>2, <1>3, <1>4, <1>5 DEF Next

(* Once the hooks are installed, a project that is left, cleared or removed keeps no memory of what
   the client knows: synchronize_array of states.ml never answers with the stale updates of a
   project that was current before. *)
THEOREM LeftIsClearedHolds == Spec => []LeftIsCleared
<1>1. Init => TypeInv /\ LeftIsCleared
  BY TypeInit, LeftInit
<1>2. (TypeInv /\ LeftIsCleared) /\ [Next]_vars => (TypeInv /\ LeftIsCleared)'
  BY TypeStep, LeftStep
<1> QED
  BY <1>1, <1>2, PTL DEF Spec

-----------------------------------------------------------------------------
(* The link: how its counts move as requests are asked and served, and answers sent and read. *)

Data    == {a \in Answer : a.answer = "data"}
Results == {a \in Answer : a.answer \in {"data", "error"}}

Asks(r)   == Count(requests, {r}) # 0
Brings(a) == Count(answers, {a}) # 0

LEMMA ServeCounts ==
  ASSUME TypeInv, NEW q, Serve(q), NEW M
  PROVE  /\ Count(requests, M) = Count(requests', M) + (IF q \in M THEN 1 ELSE 0)
         /\ Count(requests', M) \in Nat
<1>1. requests \in Seq({"sigon", "fetch", "reload"}) /\ requests # <<>>
  BY DEF TypeInv, ClientOK, Serve
<1>2. Tail(requests) \in Seq({"sigon", "fetch", "reload"})
  BY <1>1, CountTail
<1>3. requests' = Tail(requests) /\ Head(requests) = q
  BY DEF Serve
<1>4. Count(requests, M) = Count(Tail(requests), M) + (IF Head(requests) \in M THEN 1 ELSE 0)
  BY <1>1, CountTail
<1>5. Count(Tail(requests), M) \in Nat
  BY <1>2, CountType
<1> QED
  BY <1>3, <1>4, <1>5

LEMMA AskCounts ==
  ASSUME TypeInv, NEW r \in {"sigon", "fetch", "reload"}, Ask(<<r>>), NEW M
  PROVE  /\ Count(requests', M) = Count(requests, M) + (IF r \in M THEN 1 ELSE 0)
         /\ Count(requests, M) \in Nat
<1>1. requests \in Seq({"sigon", "fetch", "reload"})
  BY DEF TypeInv, ClientOK
<1>2. requests' = Append(requests, r)
  BY <1>1 DEF Ask
<1>3. Count(Append(requests, r), M) = Count(requests, M) + (IF r \in M THEN 1 ELSE 0)
  BY <1>1, CountAppend
<1>4. Count(requests, M) \in Nat
  BY <1>1, CountType
<1> QED
  BY <1>2, <1>3, <1>4

LEMMA RespondCounts ==
  ASSUME TypeInv, NEW a \in Answer, Respond(a), NEW M
  PROVE  /\ Count(answers', M) = Count(answers, M) + (IF a \in M THEN 1 ELSE 0)
         /\ Count(answers, M) \in Nat
<1>1. answers \in Seq(Answer)
  BY DEF TypeInv, ClientOK
<1>2. answers' = Append(answers, a)
  BY DEF Respond
<1>3. Count(Append(answers, a), M) = Count(answers, M) + (IF a \in M THEN 1 ELSE 0)
  BY <1>1, CountAppend
<1>4. Count(answers, M) \in Nat
  BY <1>1, CountType
<1> QED
  BY <1>2, <1>3, <1>4

LEMMA ReceiveCounts ==
  ASSUME TypeInv, NEW k, Receive(k), NEW M
  PROVE  /\ Count(answers, M) = Count(answers', M) + (IF Head(answers) \in M THEN 1 ELSE 0)
         /\ Count(answers', M) \in Nat /\ Head(answers) \in Answer /\ Head(answers).answer = k
<1>1. answers \in Seq(Answer) /\ answers # <<>>
  BY DEF TypeInv, ClientOK, Receive
<1>2. Tail(answers) \in Seq(Answer) /\ Head(answers) \in Answer
  BY <1>1, CountTail
<1>3. answers' = Tail(answers) /\ Head(answers).answer = k
  BY DEF Receive
<1>4. Count(answers, M) = Count(Tail(answers), M) + (IF Head(answers) \in M THEN 1 ELSE 0)
  BY <1>1, CountTail
<1>5. Count(Tail(answers), M) \in Nat
  BY <1>2, CountType
<1> QED
  BY <1>2, <1>3, <1>4, <1>5

(* fetch asks for one more page when none is on its way. *)
LEMMA FetchCounts ==
  ASSUME TypeInv, Fetch(<<>>), NEW M
  PROVE  /\ Count(requests', M) = Count(requests, M) + (IF ~fetching /\ "fetch" \in M THEN 1 ELSE 0)
         /\ Count(requests, M) \in Nat
<1>1. requests \in Seq({"sigon", "fetch", "reload"})
  BY DEF TypeInv, ClientOK
<1>2. Count(requests, M) \in Nat
  BY <1>1, CountType
<1>3. CASE fetching
  <2>1. requests' = requests
    BY <1>1, <1>3 DEF Fetch, Ask
  <2> QED
    BY <1>2, <1>3, <2>1
<1>4. CASE ~fetching
  <2>1. Ask(<<"fetch">>)
    BY <1>1, <1>4 DEF Fetch, Ask
  <2> QED
    BY <1>4, <2>1, AskCounts
<1> QED
  BY <1>3, <1>4

LEMMA OnlineCounts ==
  ASSUME TypeInv, Online, NEW M
  PROVE  /\ Count(requests', M) = Count(requests, M) + (IF "sigon" \in M THEN 1 ELSE 0)
                                     + (IF ~fetching /\ "fetch" \in M THEN 1 ELSE 0)
         /\ Count(requests, M) \in Nat
<1> DEFINE R == {"sigon", "fetch", "reload"}
           one == Append(requests, "sigon")
<1>1. requests \in Seq(R) /\ one \in Seq(R)
  BY DEF TypeInv, ClientOK
<1>2. /\ Count(one, M) = Count(requests, M) + (IF "sigon" \in M THEN 1 ELSE 0)
      /\ Count(requests, M) \in Nat /\ Count(one, M) \in Nat
  <2>1. "sigon" \in R
    OBVIOUS
  <2> QED
    BY <1>1, <2>1, CountAppend, CountType
<1>3. CASE fetching
  <2>1. requests' = one
    BY <1>1, <1>3 DEF Online, Fetch, Ask
  <2> QED
    BY <1>2, <1>3, <2>1
<1>4. CASE ~fetching
  <2>1. requests' = Append(one, "fetch")
    BY <1>1, <1>4 DEF Online, Fetch, Ask
  <2>2. "fetch" \in R
    OBVIOUS
  <2> HIDE DEF one, R
  <2>3. Count(Append(one, "fetch"), M) = Count(one, M) + (IF "fetch" \in M THEN 1 ELSE 0)
    BY <1>1, <2>2, CountAppend
  <2> QED
    BY <1>2, <1>4, <2>1, <2>3
<1> QED
  BY <1>3, <1>4

-----------------------------------------------------------------------------
(* OneFetch, as counts of the link. *)

CountFetch ==
    Count(requests, {"fetch"}) + Count(answers, Results) = IF fetching THEN 1 ELSE 0

LEMMA FetchIsCounted == TypeInv => (OneFetch <=> CountFetch)
<1> SUFFICES ASSUME TypeInv PROVE OneFetch <=> CountFetch
  OBVIOUS
<1>1. answers \in Seq(Answer)
  BY DEF TypeInv, ClientOK
<1>2. {i \in DOMAIN requests : requests[i] = "fetch"} = Hits(requests, {"fetch"})
  BY DEF Hits
<1>3. {i \in DOMAIN answers : answers[i].answer \in {"data", "error"}} = Hits(answers, Results)
  <2>1. \A i \in DOMAIN answers : answers[i] \in Answer
    BY <1>1
  <2> QED
    BY <2>1 DEF Hits, Results
<1> QED
  BY <1>2, <1>3 DEF OneFetch, CountFetch, Count

LEMMA FetchInit == Init => CountFetch
<1> SUFFICES ASSUME Init PROVE CountFetch
  OBVIOUS
<1>1. requests = <<>> /\ answers = <<>> /\ fetching = FALSE
  BY DEF Init
<1> QED
  BY <1>1, CountEmpty DEF CountFetch

LEMMA FetchStep == TypeInv /\ CountFetch /\ [Next]_vars => CountFetch'
<1> SUFFICES ASSUME TypeInv, CountFetch, [Next]_vars PROVE CountFetch'
  OBVIOUS
<1> DEFINE q == Count(requests, {"fetch"})
           n == Count(answers, Results)
<1>0. q \in Nat /\ n \in Nat
  BY CountType DEF TypeInv, ClientOK
<1>1. q + n = IF fetching THEN 1 ELSE 0
  BY DEF CountFetch
<1>2. ASSUME UNCHANGED <<requests, answers, fetching>> PROVE CountFetch'
  BY <1>2 DEF CountFetch
<1>3. CASE Projectwise \/ Tablewise \/ UNCHANGED vars
  BY <1>2, <1>3 DEF Projectwise, SetCurrent, ClearProject, RemoveProject, Tablewise, Change, Renew,
                    vars, link, client
<1>4. CASE ServeSigOn
  <2>1. Count(requests', {"fetch"}) = q
    BY <1>4, ServeCounts DEF ServeSigOn
  <2> QED
    BY <1>4, <2>1, <1>1 DEF ServeSigOn, client, CountFetch
<1>5. CASE ServeFetch \/ FetchFails
  <2>1. PICK a \in Results : Respond(a)
    <3>1. CASE ServeFetch
      <4> DEFINE c == contents[Slot]
      <4>1. PICK page \in SUBSET Dirty(Delta(c)) :
              Respond([answer |-> "data", reload |-> c.cleared, data |-> Only(page, Delta(c)),
                       pending |-> page # Dirty(Delta(c))])
        BY <3>1 DEF ServeFetch
      <4>2. c \in Content
        BY SlotType DEF TypeInv, ContentsOK
      <4>3. Only(page, Delta(c)) \in Updates
        BY <4>2, DeltaType
      <4>4. [answer |-> "data", reload |-> c.cleared, data |-> Only(page, Delta(c)),
             pending |-> page # Dirty(Delta(c))] \in Results
        BY <4>2, <4>3 DEF Results, Answer, Content
      <4> QED
        BY <4>1, <4>4
    <3>2. CASE FetchFails
      BY <3>2 DEF FetchFails, Results, Answer
    <3> QED
      BY <1>5, <3>1, <3>2
  <2>2. Count(answers', Results) = n + 1
    BY <2>1, RespondCounts DEF Results
  <2>3. q = Count(requests', {"fetch"}) + 1 /\ Count(requests', {"fetch"}) \in Nat
    BY <1>5, ServeCounts DEF ServeFetch, FetchFails
  <2>4. fetching' = fetching
    BY <1>5 DEF ServeFetch, FetchFails, client
  <2> QED
    BY <1>0, <1>1, <2>2, <2>3, <2>4 DEF CountFetch
<1>6. CASE ServeReload
  <2>1. Count(requests', {"fetch"}) = q
    BY <1>6, ServeCounts DEF ServeReload
  <2>2. Count(answers', Results) = n
    <3>1. [answer |-> "reloaded"] \in Answer /\ [answer |-> "reloaded"] \notin Results
      BY DEF Answer, Results
    <3> QED
      BY <1>0, <1>6, <3>1, RespondCounts DEF ServeReload
  <2> QED
    BY <1>6, <2>1, <2>2, <1>1 DEF ServeReload, client, CountFetch
<1>7. CASE Online
  <2>1. Count(requests', {"fetch"}) = q + (IF fetching THEN 0 ELSE 1)
    BY <1>0, <1>7, OnlineCounts
  <2>2. answers' = answers /\ fetching' = TRUE
    BY <1>7 DEF Online, Fetch
  <2> QED
    BY <1>0, <1>1, <2>1, <2>2 DEF CountFetch
<1>8. CASE OnSignal \/ OnReloaded
  <2>1. Count(requests', {"fetch"}) = q + (IF fetching THEN 0 ELSE 1) /\ fetching' = TRUE
    BY <1>0, <1>8, FetchCounts DEF OnSignal, OnReloaded, Fetch
  <2>2. Count(answers', Results) = n
    <3>1. CASE OnSignal
      BY <3>1 DEF OnSignal
    <3>2. CASE OnReloaded
      BY <1>0, <3>2, ReceiveCounts DEF OnReloaded, Results
    <3> QED
      BY <1>8, <3>1, <3>2
  <2> QED
    BY <1>0, <1>1, <2>1, <2>2 DEF CountFetch
<1>9. CASE OnData
  <2> DEFINE more == More(Head(answers))
  <2>1. n = Count(answers', Results) + 1 /\ Count(answers', Results) \in Nat
    BY <1>9, ReceiveCounts DEF OnData, Results
  <2>2. Count(requests', {"fetch"}) = q + (IF more THEN 1 ELSE 0)
    <3>1. CASE more
      BY <1>9, <3>1, AskCounts DEF OnData
    <3>2. CASE ~more
      <4>1. requests' = requests
        BY <1>9, <3>2 DEF OnData, Ask, TypeInv, ClientOK
      <4> QED
        BY <1>0, <3>2, <4>1
    <3> QED
      BY <3>1, <3>2
  <2>3. fetching' = more
    BY <1>9 DEF OnData
  <2> HIDE DEF more
  <2> QED
    BY <1>0, <1>1, <2>1, <2>2, <2>3 DEF CountFetch
<1>10. CASE OnError
  <2>1. n = Count(answers', Results) + 1 /\ Count(answers', Results) \in Nat
    BY <1>10, ReceiveCounts DEF OnError, Results
  <2> QED
    BY <1>0, <1>1, <1>10, <2>1 DEF CountFetch, OnError
<1>11. CASE Reload
  <2>1. Count(requests', {"fetch"}) = q
    BY <1>0, <1>11, AskCounts DEF Reload
  <2> QED
    BY <1>1, <1>11, <2>1 DEF CountFetch, Reload
<1> QED
  BY <1>3, <1>4, <1>5, <1>6, <1>7, <1>8, <1>9, <1>10, <1>11 DEF Next, Server, Client

(* OneFetch (SyncArray.fetch): one fetch at most is on its way, and fetching says so, whatever the
   signals, the failures and the reloads that come in between. *)
THEOREM OneFetchHolds == Spec => []OneFetch
<1>1. Init => TypeInv /\ CountFetch
  BY TypeInit, FetchInit
<1>2. (TypeInv /\ CountFetch) /\ [Next]_vars => (TypeInv /\ CountFetch)'
  BY TypeStep, FetchStep
<1>3. TypeInv /\ CountFetch => OneFetch
  BY FetchIsCounted
<1> QED
  BY <1>1, <1>2, <1>3, PTL DEF Spec

-----------------------------------------------------------------------------
(* What the client still misses: a content covers what a model lacks of the rows. *)

Covers(c, r, m) == c.cleared \/ Patch(m, c.updates) = r

Stale(c) == c.cleared \/ Dirty(c.updates) # {}

LEMMA RecordCovers ==
  ASSUME NEW c \in Content, NEW r \in Rows, NEW m \in Rows, Covers(c, r, m), ~c.cleared,
         NEW k \in Keys, NEW v \in Values \cup {Gone}
  PROVE  Patch(m, [c.updates EXCEPT ![k] = v]) = [r EXCEPT ![k] = v]
<1>1. c.updates \in Updates /\ Patch(m, c.updates) = r /\ v # Kept
  BY SyncAssumption DEF Content, Covers
<1>2. \A h \in Keys : Patch(m, [c.updates EXCEPT ![k] = v])[h] = [r EXCEPT ![k] = v][h]
  BY <1>1 DEF Patch, Updates, Rows
<1>3. DOMAIN r = Keys
  BY DEF Rows
<1> QED
  BY <1>2, <1>3 DEF Patch

(* A page and the rest of the updates bring what the content held. *)
LEMMA PageCovers ==
  ASSUME TypeInv, NEW c \in Content, NEW page, Covers(c, rows[cur], model),
         page \subseteq Dirty(Delta(c))
  PROVE  Patch(Patch(IF c.cleared THEN Empty ELSE model, Only(page, Delta(c))), Leftover(c, page)) = rows[cur]
<1> DEFINE base == IF c.cleared THEN Empty ELSE model
           d == Delta(c)
<1>1. rows[cur] \in Rows /\ base \in Rows
  BY FreshType DEF TypeInv, ProjectsOK, ClientOK
<1>2. d \in Updates
  BY DeltaType
<1>3. \A k \in Keys : IF d[k] = Kept THEN base[k] = rows[cur][k] ELSE d[k] = rows[cur][k]
  <2>1. CASE c.cleared
    BY <1>1, <2>1, SyncAssumption DEF Delta, Empty, Rows
  <2>2. CASE ~c.cleared
    <3>1. Patch(model, c.updates) = rows[cur] /\ d = c.updates /\ base = model
      BY <2>2 DEF Covers, Delta
    <3> QED
      BY <3>1 DEF Patch
  <2> QED
    BY <2>1, <2>2
<1> HIDE DEF base, d
<1>4. \A k \in Keys : Patch(Patch(base, Only(page, d)), Only(Dirty(d) \ page, d))[k] = rows[cur][k]
  <2> SUFFICES ASSUME NEW k \in Keys
               PROVE  Patch(Patch(base, Only(page, d)), Only(Dirty(d) \ page, d))[k] = rows[cur][k]
    OBVIOUS
  <2>1. CASE d[k] = Kept
    BY <1>3, <2>1 DEF Patch, Only
  <2>2. CASE d[k] # Kept /\ k \in page
    BY <1>3, <2>2 DEF Patch, Only
  <2>3. CASE d[k] # Kept /\ k \notin page
    BY <1>3, <2>3 DEF Patch, Only, Dirty
  <2> QED
    BY <2>1, <2>2, <2>3
<1>5. rows[cur] = [k \in Keys |-> rows[cur][k]]
  BY <1>1 DEF Rows
<1>6. Patch(Patch(base, Only(page, d)), Only(Dirty(d) \ page, d)) = rows[cur]
  <2> DEFINE m == Patch(base, Only(page, d))
             u == Only(Dirty(d) \ page, d)
  <2>1. Patch(m, u) = [k \in Keys |-> Patch(m, u)[k]]
    BY DEF Patch
  <2> HIDE DEF m, u
  <2>2. \A k \in Keys : Patch(m, u)[k] = rows[cur][k]
    BY <1>4 DEF m, u
  <2>3. Patch(m, u) = rows[cur]
    BY <1>5, <2>1, <2>2
  <2> QED
    BY <2>3 DEF m, u
<1> QED
  BY <1>6 DEF Leftover, base, d

LEMMA NothingCovers ==
  ASSUME NEW c \in Content, NEW m \in Rows, NEW r \in Rows, Covers(c, r, m), ~Stale(c)
  PROVE  m = r
<1>1. \A k \in Keys : c.updates[k] = Kept
  BY DEF Stale, Dirty
<1>2. Patch(m, c.updates) = r
  BY DEF Covers, Stale
<1> QED
  BY <1>1, <1>2 DEF Patch, Rows

-----------------------------------------------------------------------------
(* InSync is not inductive: it says nothing while something is on its way.  What is kept at each
   step: unless the contents are about to be forgotten, the current content covers what the client
   will lack once it has read what is on its way; and if it will lack something, the client will be
   called for it. *)

Error == [answer |-> "error"]
Due   == Asks("sigon") \/ Asks("reload")

Called ==
    \/ told \/ Due \/ Asks("fetch") \/ Brings([answer |-> "reloaded"])
    \/ \E a \in Data : Brings(a) /\ More(a)

Installs     == active /\ ~listen => Asks("sigon")
ErrorsKnown  == Brings(Error) => broken
NewIsCleared == listen /\ current = None => contents[cur].cleared

Drift ==
    active /\ ~broken /\ ~Due =>
      /\ (\A a \in Data : ~Brings(a)) => Covers(contents[Slot], rows[cur], model)
      /\ \A a \in Data : Brings(a) => Covers(contents[Slot], rows[cur], Patched(a))

Wakes == active /\ ~broken /\ Stale(contents[Slot]) => Called

SyncParts == Installs /\ ErrorsKnown /\ NewIsCleared /\ Drift /\ Wakes
SyncInv   == TypeInv /\ CountFetch /\ LeftIsCleared /\ SyncParts

LEMMA SyncInit == Init => SyncInv
<1> SUFFICES ASSUME Init PROVE SyncInv
  OBVIOUS
<1>1. TypeInv /\ CountFetch /\ LeftIsCleared
  BY TypeInit, FetchInit, LeftInit
<1>2. active = FALSE /\ listen = FALSE /\ answers = <<>>
  BY DEF Init
<1>3. ~Brings(Error)
  BY <1>2, CountEmpty DEF Brings
<1> QED
  BY <1>1, <1>2, <1>3 DEF SyncInv, SyncParts, Installs, ErrorsKnown, NewIsCleared, Drift, Wakes

-----------------------------------------------------------------------------
(* What a step of the tables and projects does to the content in use, once the hooks are there. *)

Forgets == contents'[Slot'].cleared /\ told' /\ Repaired

Keeps == /\ rows'[cur'] = rows[cur] /\ told' = told /\ broken' = broken
         /\ \/ contents'[Slot'] = contents[Slot]
            \/ contents[Slot].cleared /\ contents'[Slot'].cleared

Records == /\ told' /\ broken' = broken
           /\ \E k \in Keys, v \in Values \cup {Gone} :
                /\ rows'[cur'] = [rows[cur] EXCEPT ![k] = v]
                /\ contents'[Slot'] = IF contents[Slot].cleared THEN contents[Slot]
                                      ELSE [contents[Slot] EXCEPT !.updates[k] = v]

Moves == /\ UNCHANGED <<listen, link, client>>
         /\ listen => Forgets \/ Keeps \/ Records
         /\ broken' = broken \/ Repaired
         /\ NewIsCleared'

LEMMA ErrorsMove ==
  ASSUME TypeInv, ErrorsKnown, UNCHANGED answers, broken' = broken \/ Repaired
  PROVE  ErrorsKnown'
<1> SUFFICES ASSUME Brings(Error) PROVE broken'
  BY DEF ErrorsKnown, Brings
<1>1. PICK i \in DOMAIN answers : answers[i] = Error
  BY CountZero DEF Brings, TypeInv, ClientOK
<1>2. answers[i].answer = "error"
  BY <1>1 DEF Error
<1> QED
  BY <1>2 DEF ErrorsKnown, Repaired

LEMMA MovesStep ==
  ASSUME SyncInv, Moves
  PROVE  SyncParts'
<1>1. ErrorsKnown'
  BY ErrorsMove DEF SyncInv, SyncParts, Moves, link
<1>2. Installs' /\ NewIsCleared'
  BY DEF SyncInv, SyncParts, Installs, Asks, Moves, link, client
<1>3. /\ Due' <=> Due
      /\ Asks("fetch")' <=> Asks("fetch")
      /\ Brings([answer |-> "reloaded"])' <=> Brings([answer |-> "reloaded"])
      /\ \A a \in Data : /\ Brings(a)' <=> Brings(a)
                         /\ More(a)' <=> More(a)
                         /\ Patched(a)' = Patched(a)
  BY DEF Moves, link, client, Due, Asks, Brings, More, Patched
<1>4. CASE ~listen
  <2>1. active => Due
    BY <1>4 DEF SyncInv, SyncParts, Installs, Due
  <2>2. Drift' /\ Wakes'
    BY <1>3, <2>1 DEF Drift, Wakes, Called, Moves, client
  <2> QED
    BY <1>1, <1>2, <2>2 DEF SyncParts
<1>5. CASE listen /\ Forgets
  BY <1>1, <1>2, <1>5 DEF SyncParts, Forgets, Drift, Wakes, Called, Covers
<1>6. CASE listen /\ Keeps
  <2>1. model' = model /\ active' = active /\ broken' = broken /\ told' = told
    BY <1>6 DEF Moves, client, Keeps
  <2>2. Stale(contents'[Slot']) => Stale(contents[Slot])
    BY <1>6 DEF Keeps, Stale
  <2>3. \A m : Covers(contents[Slot], rows[cur], m) => Covers(contents'[Slot'], rows'[cur'], m)
    BY <1>6 DEF Keeps, Covers
  <2>4. Drift'
    <3> SUFFICES ASSUME active, ~broken, ~Due
                 PROVE  /\ (\A a \in Data : ~Brings(a)) => Covers(contents'[Slot'], rows'[cur'], model)
                        /\ \A a \in Data : Brings(a) => Covers(contents'[Slot'], rows'[cur'], Patched(a))
      BY <1>3, <2>1 DEF Drift
    <3> QED
      BY <2>3 DEF SyncInv, SyncParts, Drift
  <2>5. Wakes'
    BY <1>3, <2>1, <2>2 DEF SyncInv, SyncParts, Wakes, Called
  <2> QED
    BY <1>1, <1>2, <2>4, <2>5 DEF SyncParts
<1>7. CASE listen /\ Records
  <2>1. model' = model /\ active' = active /\ broken' = broken /\ told'
    BY <1>7 DEF Moves, client, Records
  <2>2. PICK k \in Keys, v \in Values \cup {Gone} :
           /\ rows'[cur'] = [rows[cur] EXCEPT ![k] = v]
           /\ contents'[Slot'] = IF contents[Slot].cleared THEN contents[Slot]
                                 ELSE [contents[Slot] EXCEPT !.updates[k] = v]
    BY <1>7 DEF Records
  <2>3. contents[Slot] \in Content /\ rows[cur] \in Rows
    BY SlotType DEF SyncInv, TypeInv, ContentsOK, ProjectsOK
  <2>4. ASSUME NEW m \in Rows, Covers(contents[Slot], rows[cur], m)
        PROVE  Covers(contents'[Slot'], rows'[cur'], m)
    <3>1. CASE contents[Slot].cleared
      BY <2>2, <3>1 DEF Covers
    <3>2. CASE ~contents[Slot].cleared
      <4>1. contents'[Slot'].updates = [contents[Slot].updates EXCEPT ![k] = v]
        BY <2>2, <2>3, <3>2 DEF Content
      <4>2. Patch(m, [contents[Slot].updates EXCEPT ![k] = v]) = [rows[cur] EXCEPT ![k] = v]
        BY <2>3, <2>4, <3>2, RecordCovers
      <4> QED
        BY <2>2, <4>1, <4>2 DEF Covers
    <3> QED
      BY <3>1, <3>2
  <2>5. model \in Rows /\ \A a \in Data : Patched(a) \in Rows
    <3>1. model \in Rows
      BY DEF SyncInv, TypeInv, ClientOK
    <3>2. \A a \in Data : a.data \in Updates /\ a.reload \in BOOLEAN
      BY DEF Data, Answer
    <3> QED
      BY <3>1, <3>2, FreshType, PatchedType DEF Patched
  <2>6. Drift'
    <3> SUFFICES ASSUME active, ~broken, ~Due
                 PROVE  /\ (\A a \in Data : ~Brings(a)) => Covers(contents'[Slot'], rows'[cur'], model)
                        /\ \A a \in Data : Brings(a) => Covers(contents'[Slot'], rows'[cur'], Patched(a))
      BY <1>3, <2>1 DEF Drift
    <3> QED
      BY <2>4, <2>5 DEF SyncInv, SyncParts, Drift
  <2>7. Wakes'
    BY <2>1 DEF Wakes, Called
  <2> QED
    BY <1>1, <1>2, <2>6, <2>7 DEF SyncParts
<1> QED
  BY <1>4, <1>5, <1>6, <1>7 DEF Moves

(* A "switch" array is told of a change of project by set_current alone: no array of that kind is
   exposed to the clearing or the removal of its current project. *)
LEMMA HookForgets ==
  ASSUME TypeInv, kind = "table", NEW p \in Projects, NEW q \in Projects, UpdateHook(p, q),
         UNCHANGED listen
  PROVE  (listen => Forgets) /\ NewIsCleared'
<1> SUFFICES ASSUME listen PROVE Forgets /\ current' # None
  BY DEF NewIsCleared
<1> DEFINE s == IF AfterCleanup(p) = None THEN q ELSE AfterCleanup(p)
<1>1. contents' = Reloaded(Cleanup(p), s) /\ current' = s /\ told' = TRUE /\ Repaired
  BY DEF UpdateHook
<1>2. s \in Projects \cup {Detached} /\ s # None
  BY SyncAssumption DEF AfterCleanup, TypeInv, ContentsOK, ProjectsOK
<1>3. Cleanup(p) \in [Projects \cup {Detached} -> Content]
  BY CleanupType DEF TypeInv
<1>4. Reloaded(Cleanup(p), s)[s].cleared
  BY <1>2, <1>3, FreshCleared DEF Reloaded
<1>5. Slot' = s
  BY <1>1, <1>2 DEF Slot
<1> HIDE DEF s
<1> QED
  BY <1>1, <1>2, <1>4, <1>5 DEF Forgets

(* The cleanup of a project leaves the content in use, even under another name. *)
LEMMA CleanupKeeps ==
  ASSUME TypeInv, NewIsCleared, NEW p \in Projects, contents' = Cleanup(p), current' = AfterCleanup(p),
         UNCHANGED <<cur, listen, told, broken>>, rows'[cur] = rows[cur]
  PROVE  (listen => Keeps) /\ NewIsCleared'
<1>0. /\ current \in {None, Detached, cur} /\ cur \in Projects
      /\ contents \in [Projects \cup {Detached} -> Content]
      /\ None # Detached /\ None \notin Projects /\ Detached \notin Projects
  BY SyncAssumption DEF TypeInv, ContentsOK, ProjectsOK
<1>1. CASE current = p
  <2>1. contents' = [contents EXCEPT ![Detached] = contents[p], ![p] = Fresh] /\ current' = Detached
    BY <1>1 DEF Cleanup, AfterCleanup
  <2>2. Slot = p /\ Slot' = Detached /\ contents'[Detached] = contents[p]
    BY <1>0, <1>1, <2>1 DEF Slot
  <2> QED
    BY <1>0, <2>1, <2>2 DEF Keeps, NewIsCleared
<1>2. CASE current # p
  <2>1. contents' = [contents EXCEPT ![p] = Fresh] /\ current' = current /\ Slot' = Slot
    BY <1>2 DEF Cleanup, AfterCleanup, Reloaded, Slot
  <2>2. CASE Slot = p
    <3>1. current = None /\ p = cur
      BY <1>2, <2>2 DEF Slot
    <3>2. contents'[p].cleared
      BY <1>0, <2>1, FreshCleared
    <3> QED
      BY <2>1, <2>2, <3>1, <3>2 DEF Keeps, NewIsCleared
  <2>3. CASE Slot # p
    <3>1. contents'[Slot] = contents[Slot]
      BY <1>0, <2>1, <2>3 DEF Slot
    <3>2. current = None => Slot = cur
      BY DEF Slot
    <3> QED
      BY <2>1, <3>1, <3>2 DEF Keeps, NewIsCleared
  <2> QED
    BY <2>2, <2>3
<1> QED
  BY <1>1, <1>2

LEMMA SetCurrentMoves ==
  ASSUME SyncInv, NEW p \in Projects, SetCurrent(p)
  PROVE  Moves
<1>0. /\ current \in {None, Detached, cur} /\ cur \in Projects /\ p # cur
      /\ contents \in [Projects \cup {Detached} -> Content]
      /\ None \notin Projects /\ Detached \notin Projects
      /\ kind \in {"table", "switch"}
  BY SyncAssumption DEF SyncInv, TypeInv, ContentsOK, ProjectsOK, SetCurrent
<1>1. UNCHANGED <<kind, listen, link, client>> /\ cur' = p
  BY DEF SetCurrent
<1>2. CASE ~listen
  BY <1>1, <1>2 DEF SetCurrent, Moves, NewIsCleared
<1>3. CASE listen
  <2>1. contents' = Reloaded(contents, SwitchMarks(p)) /\ told' = TRUE /\ Repaired
        /\ current' \in {None, p}
    BY <1>3 DEF SetCurrent
  <2>2. Slot' = p
    BY <1>1, <2>1 DEF Slot
  <2>3. contents[p].cleared \/ p = SwitchMarks(p)
    <3>1. CASE kind = "table" /\ current # None
      BY <1>0, <1>3, <3>1 DEF SyncInv, LeftIsCleared
    <3>2. CASE ~(kind = "table" /\ current # None)
      BY <3>2 DEF SwitchMarks
    <3> QED
      BY <3>1, <3>2
  <2>4. contents'[p].cleared
    BY <1>0, <2>1, <2>3, ReloadedCleared
  <2> QED
    BY <1>1, <2>1, <2>2, <2>4 DEF Moves, Forgets, NewIsCleared
<1> QED
  BY <1>2, <1>3

LEMMA ClearProjectMoves ==
  ASSUME "switch" \notin Exposed, SyncInv, NEW p \in Projects, NEW selected \in BOOLEAN,
         ClearProject(p, selected)
  PROVE  Moves
<1>1. UNCHANGED <<cur, listen, link, client>> /\ TypeInv /\ NewIsCleared
  BY DEF ClearProject, SyncInv, SyncParts
<1>2. CASE p = cur /\ selected
  <2>1. kind = "table"
    BY <1>2, SyncAssumption DEF ClearProject, SyncInv, TypeInv, ProjectsOK
  <2>2. UpdateHook(p, p)
    BY <1>2 DEF ClearProject
  <2>3. broken' = broken \/ Repaired
    BY <2>2 DEF UpdateHook
  <2> QED
    BY <1>1, <2>1, <2>2, <2>3, HookForgets DEF Moves
<1>3. CASE ~(p = cur /\ selected)
  <2>1. contents' = Cleanup(p) /\ current' = AfterCleanup(p) /\ UNCHANGED <<told, broken>>
    BY <1>3 DEF ClearProject
  <2>2. rows'[cur] = rows[cur]
    BY <1>3 DEF ClearProject, SyncInv, TypeInv, ProjectsOK
  <2> QED
    BY <1>1, <2>1, <2>2, CleanupKeeps DEF Moves
<1> QED
  BY <1>2, <1>3

LEMMA RemoveProjectMoves ==
  ASSUME "switch" \notin Exposed, SyncInv, NEW p \in Projects, RemoveProject(p)
  PROVE  Moves
<1>1. UNCHANGED <<listen, link, client>> /\ TypeInv /\ NewIsCleared
  BY DEF RemoveProject, SyncInv, SyncParts
<1>2. CASE p = cur
  <2>1. kind = "table"
    BY <1>2, SyncAssumption DEF RemoveProject, SyncInv, TypeInv, ProjectsOK
  <2>2. PICK q \in alive' : UpdateHook(p, q)
    BY <1>2 DEF RemoveProject
  <2>3. q \in Projects
    BY <2>2 DEF RemoveProject, SyncInv, TypeInv, ProjectsOK
  <2>4. broken' = broken \/ Repaired
    BY <2>2 DEF UpdateHook
  <2> QED
    BY <1>1, <2>1, <2>2, <2>3, <2>4, HookForgets DEF Moves
<1>3. CASE p # cur
  <2>1. contents' = Cleanup(p) /\ current' = AfterCleanup(p) /\ UNCHANGED <<cur, told, broken>>
    BY <1>3 DEF RemoveProject
  <2>2. rows'[cur] = rows[cur]
    BY <1>3 DEF RemoveProject, SyncInv, TypeInv, ProjectsOK
  <2> QED
    BY <1>1, <2>1, <2>2, CleanupKeeps DEF Moves
<1> QED
  BY <1>2, <1>3

LEMMA TablewiseMoves ==
  ASSUME SyncInv, Tablewise
  PROVE  Moves
<1>0. Slot \in Projects \cup {Detached} /\ Slot # None /\ Slot \in DOMAIN contents
      /\ contents \in [Projects \cup {Detached} -> Content]
      /\ rows \in [Projects -> Rows] /\ cur \in Projects /\ NewIsCleared /\ TypeInv
  BY SlotType, SyncAssumption DEF SyncInv, SyncParts, TypeInv, ContentsOK, ProjectsOK
<1>1. ASSUME NEW k \in Keys, NEW v \in Values \cup {Gone}, Change(k, v) PROVE Moves
  <2>1. UNCHANGED <<cur, listen, link, client, broken>> /\ rows' = [rows EXCEPT ![cur][k] = v]
        /\ Notified(Recorded(contents, Slot, k, v), Slot)
    BY <1>1 DEF Change
  <2>2. CASE ~listen
    BY <2>1, <2>2 DEF Moves, NewIsCleared
  <2>3. CASE listen
    <3>1. contents' = Recorded(contents, Slot, k, v) /\ current' = Slot /\ told' = TRUE
      BY <2>1, <2>3 DEF Notified
    <3>2. Slot' = Slot
      BY <1>0, <3>1 DEF Slot
    <3>3. contents'[Slot] = IF contents[Slot].cleared THEN contents[Slot]
                            ELSE [contents[Slot] EXCEPT !.updates[k] = v]
      BY <1>0, <3>1 DEF Recorded
    <3>4. rows'[cur'] = [rows[cur] EXCEPT ![k] = v]
      BY <1>0, <2>1
    <3>5. Records
      BY <2>1, <3>1, <3>2, <3>3, <3>4 DEF Records
    <3> QED
      BY <1>0, <2>1, <3>1, <3>5 DEF Moves, NewIsCleared
  <2> QED
    BY <2>2, <2>3
<1>2. ASSUME NEW r \in Rows, Renew(r) PROVE Moves
  <2>1. UNCHANGED <<listen, link, client>> /\ Notified(Reloaded(contents, Slot), Slot)
        /\ IF listen THEN Repaired ELSE UNCHANGED broken
    BY <1>2 DEF Renew
  <2>2. CASE ~listen
    BY <2>1, <2>2 DEF Moves, NewIsCleared
  <2>3. CASE listen
    <3>1. contents' = Reloaded(contents, Slot) /\ current' = Slot /\ told' = TRUE
      BY <2>1, <2>3 DEF Notified
    <3>2. Slot' = Slot /\ current' # None
      BY <1>0, <3>1 DEF Slot
    <3>3. contents'[Slot].cleared
      BY <1>0, <3>1, FreshCleared DEF Reloaded
    <3> QED
      BY <2>1, <2>3, <3>1, <3>2, <3>3 DEF Moves, Forgets, NewIsCleared
  <2> QED
    BY <2>2, <2>3
<1> QED
  BY <1>1, <1>2 DEF Tablewise

-----------------------------------------------------------------------------
(* The requests served. *)

LEMMA ServeSigOnSync == ASSUME SyncInv, ServeSigOn PROVE SyncParts'
<1>1. contents'[cur'].cleared /\ Slot' = cur'
  BY FreshCleared DEF ServeSigOn, projects, Slot, SyncInv, TypeInv, ContentsOK, ProjectsOK
<1>2. answers' = answers /\ broken' = broken /\ listen' /\ told'
  BY DEF ServeSigOn
<1> QED
  BY <1>1, <1>2 DEF SyncInv, SyncParts, Installs, ErrorsKnown, Brings, NewIsCleared, Drift, Wakes,
                    Called, Covers

LEMMA ServeFetchSync == ASSUME SyncInv, ServeFetch PROVE SyncParts'
<1> DEFINE c == contents[Slot]
<1>0. c \in Content /\ Slot \in DOMAIN contents /\ Slot # None /\ TypeInv /\ CountFetch
  BY SlotType, SyncAssumption DEF SyncInv, TypeInv, ContentsOK
<1>1. PICK page \in SUBSET Dirty(Delta(c)) :
         /\ contents' = [contents EXCEPT ![Slot] = [cleared |-> FALSE, updates |-> Leftover(c, page)]]
         /\ Respond([answer |-> "data", reload |-> c.cleared, data |-> Only(page, Delta(c)),
                     pending |-> page # Dirty(Delta(c))])
  BY DEF ServeFetch
<1>2. PICK a \in Data : a = [answer |-> "data", reload |-> c.cleared, data |-> Only(page, Delta(c)),
                            pending |-> page # Dirty(Delta(c))]
  <2> DEFINE b == [answer |-> "data", reload |-> c.cleared, data |-> Only(page, Delta(c)),
                   pending |-> page # Dirty(Delta(c))]
  <2>1. Only(page, Delta(c)) \in Updates
    BY <1>0, DeltaType
  <2>2. b \in Data
    BY <1>0, <2>1 DEF Answer, Data, Content
  <2> QED
    BY <2>2
<1>a. a \in Answer /\ a # Error
  BY <1>2 DEF Data, Error
<1>3. UNCHANGED <<kind, cur, rows, listen, broken, active, model, signaled>> /\ Slot' = Slot /\ current' = Slot
  BY <1>0 DEF ServeFetch, projects, client, Slot
<1>4. Serve("fetch")
  BY DEF ServeFetch
<1>5. (Asks("sigon")' <=> Asks("sigon")) /\ (Asks("reload")' <=> Asks("reload"))
  BY <1>0, <1>4, ServeCounts DEF Asks
<1>6. \A b \in Data : ~Brings(b)
  <2>1. Count(requests, {"fetch"}) # 0
    BY <1>0, <1>4, ServeCounts
  <2>2. Count(requests, {"fetch"}) \in Nat /\ Count(answers, Results) \in Nat
    BY <1>0, CountType DEF TypeInv, ClientOK
  <2>3. Count(answers, Results) = 0
    BY <1>0, <2>1, <2>2 DEF CountFetch
  <2>4. \A x \in Results : Count(answers, {x}) = 0
    BY <1>0, <2>3, CountMembers DEF TypeInv, ClientOK
  <2> QED
    BY <2>4 DEF Brings, Data, Results
<1>7. /\ Brings(a)'
      /\ \A b \in Data : Brings(b)' => b = a
      /\ Brings(Error)' => Brings(Error)
  <2>1. Respond(a)
    BY <1>1, <1>2
  <2>2. \A M : /\ Count(answers', M) = Count(answers, M) + (IF a \in M THEN 1 ELSE 0)
               /\ Count(answers, M) \in Nat
    BY <1>0, <1>a, <2>1, RespondCounts
  <2> QED
    BY <1>a, <1>6, <2>2 DEF Brings
<1>8. contents'[Slot'] = [cleared |-> FALSE, updates |-> Leftover(c, page)]
  BY <1>0, <1>1, <1>3
<1>9. Drift'
  <2> SUFFICES ASSUME active, ~broken, ~Due
               PROVE  Covers(contents'[Slot'], rows'[cur'], Patched(a)')
    BY <1>2, <1>3, <1>5, <1>7 DEF Drift, Due
  <2>1. Covers(c, rows[cur], model)
    BY <1>6 DEF SyncInv, SyncParts, Drift
  <2>2. Patched(a)' = Patch(IF c.cleared THEN Empty ELSE model, Only(page, Delta(c)))
    BY <1>2, <1>3 DEF Patched
  <2>3. Patch(Patched(a)', Leftover(c, page)) = rows[cur]
    BY <1>0, <2>1, <2>2, PageCovers
  <2> QED
    BY <1>3, <1>8, <2>3 DEF Covers
<1>10. Wakes'
  <2> SUFFICES ASSUME Stale(contents'[Slot']) PROVE Called'
    BY DEF Wakes
  <2>1. Dirty(Leftover(c, page)) # {}
    BY <1>8 DEF Stale
  <2>2. page # Dirty(Delta(c))
    BY <2>1 DEF Dirty, Leftover, Only
  <2>3. More(a)'
    BY <1>2, <2>2 DEF More
  <2> QED
    BY <1>2, <1>7, <2>3 DEF Called
<1>11. Installs' /\ ErrorsKnown' /\ NewIsCleared'
  BY <1>0, <1>3, <1>5, <1>7 DEF SyncInv, SyncParts, Installs, ErrorsKnown, NewIsCleared
<1> QED
  BY <1>9, <1>10, <1>11 DEF SyncParts

LEMMA FetchFailsSync == ASSUME SyncInv, FetchFails PROVE SyncParts'
<1>1. broken' /\ UNCHANGED <<active, listen>> /\ current' = Slot /\ Slot # None
  BY SlotType, SyncAssumption DEF FetchFails, client, SyncInv
<1>2. Asks("sigon")' <=> Asks("sigon")
  BY ServeCounts DEF FetchFails, Asks, SyncInv
<1> QED
  BY <1>1, <1>2 DEF SyncInv, SyncParts, Installs, ErrorsKnown, NewIsCleared, Drift, Wakes

LEMMA ServeReloadSync == ASSUME SyncInv, ServeReload PROVE SyncParts'
<1>0. Slot \in DOMAIN contents /\ Slot # None /\ TypeInv
  BY SlotType, SyncAssumption DEF SyncInv, TypeInv, ContentsOK
<1>1. /\ UNCHANGED <<active, listen>> /\ told' /\ current' = Slot /\ Slot' = Slot
      /\ contents' = Reloaded(contents, Slot)
  BY <1>0 DEF ServeReload, client, Slot
<1>2. contents'[Slot'].cleared
  BY <1>0, <1>1, FreshCleared DEF Reloaded
<1>3. Asks("sigon")' <=> Asks("sigon")
  BY <1>0, ServeCounts DEF ServeReload, Asks
<1>4. ErrorsKnown'
  <2> DEFINE a == [answer |-> "reloaded"]
  <2>1. a \in Answer /\ Error # a /\ Respond(a)
    BY DEF Answer, Error, ServeReload
  <2>2. \A M : /\ Count(answers', M) = Count(answers, M) + (IF a \in M THEN 1 ELSE 0)
               /\ Count(answers, M) \in Nat
    BY <1>0, <2>1, RespondCounts
  <2>3. Brings(Error)' => Brings(Error)
    BY <2>1, <2>2 DEF Brings
  <2>4. Brings(Error) => broken /\ \E i \in DOMAIN answers : answers[i].answer = "error"
    <3>1. Brings(Error) => \E i \in DOMAIN answers : answers[i] = Error
      BY <1>0, CountZero DEF Brings, TypeInv, ClientOK
    <3> QED
      BY <3>1 DEF Error, SyncInv, SyncParts, ErrorsKnown
  <2> QED
    BY <2>3, <2>4 DEF ErrorsKnown, ServeReload, Repaired
<1> QED
  BY <1>0, <1>1, <1>2, <1>3, <1>4 DEF SyncInv, SyncParts, Installs, NewIsCleared, Drift, Wakes,
                                     Called, Covers

-----------------------------------------------------------------------------
(* The client. *)

LEMMA SomeResult ==
  ASSUME TypeInv, Count(answers, Results) # 0
  PROVE  \E a \in Results : Brings(a)
  BY CountMembers DEF TypeInv, ClientOK, Brings

LEMMA OnlineSync == ASSUME SyncInv, Online PROVE SyncParts'
<1>1. UNCHANGED <<answers, broken, listen, current, contents, cur>>
  BY DEF Online, array, projects
<1>2. Asks("sigon")'
  BY OnlineCounts DEF SyncInv, Asks
<1> QED
  BY <1>1, <1>2 DEF SyncInv, SyncParts, Installs, ErrorsKnown, Brings, NewIsCleared, Drift, Wakes,
                    Called, Due

(* Whoever calls fetch is heard: by a fetch to come, by the one that will be served, or by the end of
   the one being read. *)
LEMMA FetchCalls ==
  ASSUME SyncInv, Fetch(<<>>), \A a \in Results : Brings(a) => Brings(a)', ~broken
  PROVE  Called'
<1>1. TypeInv /\ CountFetch /\ ErrorsKnown
  BY DEF SyncInv, SyncParts
<1>2. /\ Count(requests', {"fetch"}) = Count(requests, {"fetch"}) + (IF fetching THEN 0 ELSE 1)
      /\ Count(requests, {"fetch"}) \in Nat
  BY <1>1, FetchCounts
<1>3. CASE Count(requests', {"fetch"}) # 0
  BY <1>3 DEF Called, Asks
<1>4. CASE Count(requests', {"fetch"}) = 0
  <2>1. fetching /\ Count(requests, {"fetch"}) = 0
    BY <1>2, <1>4
  <2>2. Count(answers, Results) # 0
    <3>1. Count(answers, Results) \in Nat
      BY <1>1, CountType DEF TypeInv, ClientOK
    <3> QED
      BY <1>1, <2>1, <3>1 DEF CountFetch
  <2>3. PICK a \in Results : Brings(a)
    BY <1>1, <2>2, SomeResult
  <2>4. a # Error
    BY <1>1, <2>3 DEF ErrorsKnown
  <2>5. a \in Data
    BY <2>4 DEF Results, Data, Answer, Error
  <2>6. signaled' = TRUE
    BY <2>1 DEF Fetch
  <2>7. Brings(a)' /\ More(a)'
    BY <2>3, <2>6 DEF More
  <2> QED
    BY <2>5, <2>7 DEF Called
<1> QED
  BY <1>3, <1>4

LEMMA OnSignalSync == ASSUME SyncInv, OnSignal PROVE SyncParts'
<1>1. UNCHANGED <<answers, broken, listen, current, contents, cur, rows, active, model>>
  BY DEF OnSignal, projects
<1>2. (Asks("sigon")' <=> Asks("sigon")) /\ (Asks("reload")' <=> Asks("reload"))
  BY FetchCounts DEF OnSignal, SyncInv, Asks
<1>3. ~broken => Called'
  BY <1>1, FetchCalls DEF OnSignal, Brings
<1>4. Drift'
  <2>1. /\ Slot' = Slot /\ \A a \in Data : (Brings(a)' <=> Brings(a)) /\ Patched(a)' = Patched(a)
    BY <1>1 DEF Slot, Brings, Patched
  <2> QED
    BY <1>1, <1>2, <2>1 DEF SyncInv, SyncParts, Drift, Due
<1> QED
  BY <1>1, <1>2, <1>3, <1>4 DEF SyncInv, SyncParts, Installs, ErrorsKnown, Brings, NewIsCleared, Wakes

LEMMA OnReloadedSync == ASSUME SyncInv, OnReloaded PROVE SyncParts'
<1>1. UNCHANGED <<broken, listen, current, contents, cur, rows, active, model>>
  BY DEF OnReloaded, projects, array
<1>2. (Asks("sigon")' <=> Asks("sigon")) /\ (Asks("reload")' <=> Asks("reload"))
  BY FetchCounts DEF OnReloaded, SyncInv, Asks
<1>3. \A a \in Results : Brings(a)' <=> Brings(a)
  <2>1. Head(answers) \in Answer /\ Head(answers).answer = "reloaded"
    BY ReceiveCounts DEF OnReloaded, SyncInv
  <2>2. \A M : /\ Count(answers, M) = Count(answers', M) + (IF Head(answers) \in M THEN 1 ELSE 0)
               /\ Count(answers', M) \in Nat
    BY ReceiveCounts DEF OnReloaded, SyncInv
  <2> QED
    BY <2>1, <2>2 DEF Brings, Results
<1>4. ~broken => Called'
  BY <1>3, FetchCalls DEF OnReloaded
<1>5. Error \in Results /\ Data \subseteq Results
  BY DEF Error, Results, Data, Answer
<1>6. Drift'
  <2>1. Slot' = Slot /\ \A a \in Data : (Brings(a)' <=> Brings(a)) /\ Patched(a)' = Patched(a)
    BY <1>1, <1>3, <1>5 DEF Slot, Patched
  <2> QED
    BY <1>1, <1>2, <2>1 DEF SyncInv, SyncParts, Drift, Due
<1> QED
  BY <1>1, <1>2, <1>3, <1>4, <1>5, <1>6
  DEF SyncInv, SyncParts, Installs, ErrorsKnown, NewIsCleared, Wakes

LEMMA OnDataSync == ASSUME SyncInv, OnData PROVE SyncParts'
<1>0. TypeInv /\ CountFetch /\ SyncParts
  BY DEF SyncInv
<1>1. UNCHANGED <<broken, listen, current, contents, cur, rows, active, told>>
  BY DEF OnData, projects, array
<1>2. PICK a \in Answer : a = Head(answers) /\ a.answer = "data"
  BY <1>0, ReceiveCounts DEF OnData
<1>3. \A M : /\ Count(answers, M) = Count(answers', M) + (IF a \in M THEN 1 ELSE 0)
             /\ Count(answers', M) \in Nat
  BY <1>0, <1>2, ReceiveCounts DEF OnData
<1>4. a \in Data /\ a \in Results /\ Brings(a)
  BY <1>2, <1>3 DEF Data, Results, Brings
<1>5. Count(answers', Results) = 0 /\ answers' \in Seq(Answer)
  <2>1. Count(requests, {"fetch"}) \in Nat
    BY <1>0, CountType DEF TypeInv, ClientOK
  <2>2. Count(answers', Results) = 0
    BY <1>0, <1>3, <1>4, <2>1 DEF CountFetch
  <2> QED
    BY <1>0, <2>2, ReceivedType DEF OnData
<1>6. \A b \in Results : ~Brings(b)'
  BY <1>5, CountMembers DEF Brings
<1>7. \A b \in Results : Brings(b) => b = a
  BY <1>3, <1>6 DEF Brings
<1>8. \A M : /\ Count(requests', M) = Count(requests, M) + (IF More(a) /\ "fetch" \in M THEN 1 ELSE 0)
             /\ Count(requests, M) \in Nat
  <2>1. CASE More(a)
    <3>1. Ask(<<"fetch">>)
      BY <1>2, <2>1 DEF OnData
    <3> QED
      BY <1>0, <2>1, <3>1, AskCounts
  <2>2. CASE ~More(a)
    <3>1. requests' = requests
      BY <1>0, <1>2, <2>2 DEF OnData, Ask, TypeInv, ClientOK
    <3> QED
      BY <1>0, <2>2, <3>1, CountType DEF TypeInv, ClientOK
  <2> QED
    BY <2>1, <2>2
<1>9. (Asks("sigon")' <=> Asks("sigon")) /\ (Asks("reload")' <=> Asks("reload"))
      /\ (Asks("fetch")' <=> Asks("fetch") \/ More(a))
  BY <1>8 DEF Asks
<1>10. Drift'
  <2>1. model' = Patched(a) /\ Slot' = Slot
    BY <1>1, <1>2 DEF OnData, Slot
  <2>2. active /\ ~broken /\ ~Due => Covers(contents[Slot], rows[cur], Patched(a))
    BY <1>0, <1>4 DEF SyncParts, Drift
  <2>3. Data \subseteq Results
    BY DEF Data, Results
  <2> QED
    BY <1>1, <1>6, <1>9, <2>1, <2>2, <2>3 DEF Drift, Due
<1>11. Wakes'
  <2> SUFFICES ASSUME active, ~broken, Stale(contents[Slot]) PROVE Called'
    BY <1>1 DEF Wakes, Slot
  <2>1. Called
    BY <1>0 DEF SyncParts, Wakes
  <2>2. CASE told \/ Due \/ Asks("fetch")
    BY <1>1, <1>9, <2>2 DEF Called, Due
  <2>3. CASE Brings([answer |-> "reloaded"])
    <3>1. a # [answer |-> "reloaded"]
      BY <1>2
    <3>2. Brings([answer |-> "reloaded"])'
      BY <1>3, <2>3, <3>1 DEF Brings
    <3> QED
      BY <3>2 DEF Called
  <2>4. CASE \E b \in Data : Brings(b) /\ More(b)
    <3>1. More(a)
      BY <1>7, <2>4 DEF Data, Results
    <3> QED
      BY <1>9, <3>1 DEF Called
  <2> QED
    BY <2>1, <2>2, <2>3, <2>4 DEF Called
<1>12. ErrorsKnown'
  <2>1. Error \in Results
    BY DEF Error, Results, Answer
  <2> QED
    BY <1>6, <2>1 DEF ErrorsKnown
<1>13. Installs' /\ NewIsCleared'
  BY <1>0, <1>1, <1>9 DEF SyncParts, Installs, NewIsCleared
<1> QED
  BY <1>10, <1>11, <1>12, <1>13 DEF SyncParts

LEMMA OnErrorSync == ASSUME SyncInv, OnError PROVE SyncParts'
<1>1. UNCHANGED <<broken, listen, current, contents, cur, active, requests>>
  BY DEF OnError, projects, array
<1>2. Head(answers) = Error
  <2>1. Head(answers) \in Answer /\ Head(answers).answer = "error"
    BY ReceiveCounts DEF OnError, SyncInv
  <2> QED
    BY <2>1 DEF Answer, Error
<1>3. Brings(Error)
  <2>1. /\ Count(answers, {Error}) = Count(answers', {Error}) + (IF Head(answers) \in {Error} THEN 1 ELSE 0)
        /\ Count(answers', {Error}) \in Nat
    BY ReceiveCounts DEF OnError, SyncInv
  <2> QED
    BY <1>2, <2>1 DEF Brings
<1>4. broken'
  BY <1>1, <1>3 DEF SyncInv, SyncParts, ErrorsKnown
<1> QED
  BY <1>1, <1>4 DEF SyncInv, SyncParts, Installs, Asks, ErrorsKnown, NewIsCleared, Drift, Wakes

LEMMA ReloadSync == ASSUME SyncInv, Reload PROVE SyncParts'
<1>1. UNCHANGED <<answers, broken, listen, current, contents, cur, active>>
  BY DEF Reload, projects, array
<1>2. Asks("reload")' /\ (Asks("sigon")' <=> Asks("sigon"))
  BY AskCounts DEF Reload, SyncInv, Asks
<1> QED
  BY <1>1, <1>2 DEF SyncInv, SyncParts, Installs, ErrorsKnown, Brings, NewIsCleared, Drift, Wakes,
                    Called, Due

-----------------------------------------------------------------------------
LEMMA SyncStep ==
  ASSUME "switch" \notin Exposed
  PROVE  SyncInv /\ [Next]_vars => SyncInv'
<1> SUFFICES ASSUME SyncInv, [Next]_vars PROVE SyncParts'
  BY TypeStep, FetchStep, LeftStep DEF SyncInv
<1>1. CASE Projectwise
  <2>1. Moves
    BY <1>1, SetCurrentMoves, ClearProjectMoves, RemoveProjectMoves DEF Projectwise
  <2> QED
    BY <2>1, MovesStep
<1>2. CASE Tablewise
  BY <1>2, TablewiseMoves, MovesStep
<1>3. CASE Server
  BY <1>3, ServeSigOnSync, ServeFetchSync, FetchFailsSync, ServeReloadSync DEF Server
<1>4. CASE Client
  BY <1>4, OnlineSync, OnSignalSync, OnDataSync, OnErrorSync, OnReloadedSync DEF Client
<1>5. CASE Reload
  BY <1>5, ReloadSync
<1>6. CASE UNCHANGED vars
  BY <1>6 DEF vars, projects, array, link, client, SyncInv, SyncParts, Installs, ErrorsKnown,
              NewIsCleared, Drift, Wakes, Called, Due, Asks, Brings, More, Patched, Slot
<1> QED
  BY <1>1, <1>2, <1>3, <1>4, <1>5, <1>6 DEF Next

LEMMA SyncAlways ==
  ASSUME "switch" \notin Exposed
  PROVE  Spec => []SyncInv
  BY SyncInit, SyncStep, PTL DEF Spec

LEMMA QuietLink ==
  ASSUME requests = <<>>, answers = <<>>
  PROVE  ~Due /\ ~Asks("fetch") /\ \A a : ~Brings(a)
  BY CountEmpty DEF Due, Asks, Brings

(* NoDrift (fetch of states.ml): between two fetches the client is late by the updates of the content
   and nothing else, whatever the pages, the changes, the reloads and the switches of project.  The
   removal of the current project is excluded for the arrays that only set_current tells of it. *)
THEOREM NoDriftHolds ==
  ASSUME "switch" \notin Exposed
  PROVE  Spec => []NoDrift
<1>1. SyncInv => NoDrift
  BY QuietLink DEF NoDrift, SyncInv, SyncParts, Drift, Covers
<1> QED
  BY <1>1, SyncAlways, PTL

(* InSync: once the link is at rest and the signal delivered, the client shows the rows of the
   current project, all of them and no other, unless a fetch failed and no reload repaired it. *)
THEOREM InSyncHolds ==
  ASSUME "switch" \notin Exposed
  PROVE  Spec => []InSync
<1>1. SyncInv => InSync
  <2> SUFFICES ASSUME SyncInv, active, AtRest, ~broken PROVE model = rows[cur]
    BY DEF InSync
  <2>1. ~Due /\ ~Asks("fetch") /\ \A a : ~Brings(a)
    BY QuietLink DEF AtRest
  <2>2. Covers(contents[Slot], rows[cur], model)
    BY <2>1 DEF SyncInv, SyncParts, Drift
  <2>3. ~Stale(contents[Slot])
    BY <2>1 DEF SyncInv, SyncParts, Wakes, Called, AtRest
  <2>4. contents[Slot] \in Content /\ model \in Rows /\ rows[cur] \in Rows
    BY SlotType DEF SyncInv, TypeInv, ContentsOK, ProjectsOK, ClientOK
  <2> QED
    BY <2>2, <2>3, <2>4, NothingCovers
<1> QED
  BY <1>1, SyncAlways, PTL
=============================================================================
