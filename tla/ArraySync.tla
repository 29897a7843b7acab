------------------------------ MODULE ArraySync ------------------------------
(* The synchronized arrays: plugins/server/src/states.ml keeps, for each project, what changed in a
   table since the client last fetched it, and SyncArray of ivette/src/frama-c/states.ts keeps a
   copy of the table of the current project.  The array signals that it changed, the client fetches
   the changes page by page; meanwhile the table changes, and the current project too.

   A table of kind "table" is told that its contents were replaced by the update hook of its state
   (register_framac_array, and the arrays that follow the AST); a table of kind "switch" registers
   its reload on the change of current project (the status of properties, the messages).

   The link keeps requests and answers in order.  A signal is delivered at any moment after its
   emission, even before an answer that was sent first: the frames received together are all read
   before the code that awaits an answer goes on.  ServerMain shows that a signal is delivered. *)
EXTENDS Naturals, FiniteSets, Sequences

CONSTANTS Projects, Keys, Values,
          Gone,       \* the value of a key that has no row
          Kept,       \* the update of a key that did not change
          None,       \* no cached content
          Detached,   \* where the cached content stands once its project forgot it
          Kinds,      \* the kinds of arrays under study
          Exposed,    \* the kinds whose current project may be cleared or removed
          Page,       \* the number of rows asked by a fetch
          MaxReloads, \* bound: how many reloads asked by the user are on their way
          MayFail     \* whether reading a row may raise

ASSUME SyncAssumption ==
    /\ Gone \notin Values /\ Kept \notin Values \cup {Gone}
    /\ None \notin Projects \cup {Detached} /\ Detached \notin Projects
    /\ IsFiniteSet(Keys) /\ Kinds \subseteq {"table", "switch"}
    /\ Page \in Nat \ {0} /\ MaxReloads \in Nat /\ MayFail \in BOOLEAN

VARIABLES kind,
          cur, alive, rows,            \* the projects and the table of each
          listen,                      \* SIGON was received and the hooks are installed
          contents, current,           \* array.projects and the content array.current points to
          told,                        \* the signal is to be delivered
          requests, answers,           \* the link
          active, fetching, signaled, model,    \* SyncArray
          broken                       \* history: a fetch failed, no reload repaired it

projects == <<kind, cur, alive, rows>>
array    == <<contents, current, told>>
link     == <<requests, answers>>
client   == <<active, fetching, signaled, model>>
vars     == <<projects, listen, array, link, client, broken>>

Rows    == [Keys -> Values \cup {Gone}]
Updates == [Keys -> Values \cup {Gone, Kept}]
Content == [cleared : BOOLEAN, updates : Updates]
Answer  == [answer : {"data"}, reload : BOOLEAN, data : Updates, pending : BOOLEAN]
             \cup [answer : {"error", "reloaded"}]

Empty == [k \in Keys |-> Gone]
Fresh == [cleared |-> TRUE, updates |-> [k \in Keys |-> Kept]]

Init ==
    /\ kind \in Kinds
    /\ cur \in Projects /\ alive = Projects /\ rows = [p \in Projects |-> Empty]
    /\ listen = FALSE
    /\ contents = [s \in Projects \cup {Detached} |-> Fresh] /\ current = None /\ told = FALSE
    /\ requests = <<>> /\ answers = <<>>
    /\ active = FALSE /\ fetching = FALSE /\ signaled = FALSE /\ model = Empty
    /\ broken = FALSE

-----------------------------------------------------------------------------
(* The array, on the server.  A project without content is one whose content is Fresh. *)

(* content: the cached content, else that of the current project, which is then signaled. *)
Slot == IF current = None THEN cur ELSE current

Reloaded(cs, s) == [cs EXCEPT ![s] = Fresh]

Recorded(cs, s, k, v) == IF cs[s].cleared THEN cs ELSE [cs EXCEPT ![s].updates[k] = v]

(* The reload of a broken array repairs it, unless the client has still to read the failure. *)
Repaired == broken' = (broken /\ \E i \in DOMAIN answers : answers[i].answer = "error")

(* What the hooks do once they are installed. *)
Notified(cs, s) ==
    IF listen THEN contents' = cs /\ current' = s /\ told' = TRUE
              ELSE UNCHANGED array

(* A row is added, updated or removed: update and remove_key. *)
Change(k, v) ==
    /\ rows' = [rows EXCEPT ![cur][k] = v]
    /\ Notified(Recorded(contents, Slot, k, v), Slot)
    /\ UNCHANGED <<kind, cur, alive, listen, link, client, broken>>

(* The table is cleared, or the status of a property changed and with it the status of any other. *)
Renew(r) ==
    /\ kind = "table" => r = Empty
    /\ rows' = [rows EXCEPT ![cur] = r]
    /\ Notified(Reloaded(contents, Slot), Slot)
    /\ IF listen THEN Repaired ELSE UNCHANGED broken
    /\ UNCHANGED <<kind, cur, alive, listen, link, client>>

(* Project.set_current p.  The update hooks run first, with p already current but the content of
   the project left still cached; synchronize then drops the cache; the reload of a "switch" array
   was registered later and runs on the content of p. *)
SwitchMarksNew(p) == p     \* mutant
SwitchMarks(p) == IF kind = "table" /\ current # None THEN current ELSE p

SetCurrent(p) ==
    /\ p \in alive \ {cur}
    /\ cur' = p
    /\ IF listen THEN contents' = Reloaded(contents, SwitchMarks(p)) /\ told' = TRUE /\ Repaired
                 ELSE UNCHANGED <<contents, told, broken>>
    /\ current' = IF listen /\ kind = "switch" THEN p ELSE None
    /\ UNCHANGED <<kind, alive, rows, listen, link, client>>

(* cleanup: the project forgets its content; the cache, if it points there, keeps it. *)
Cleanup(p) == IF current = p
              THEN [contents EXCEPT ![Detached] = contents[p], ![p] = Fresh]
              ELSE Reloaded(contents, p)

AfterCleanup(p) == IF current = p THEN Detached ELSE current

(* The update hook, run while q is current after the cleanup of p. *)
UpdateHook(p, q) ==
    LET s == IF AfterCleanup(p) = None THEN q ELSE AfterCleanup(p) IN
    IF listen /\ kind = "table"
    THEN contents' = Reloaded(Cleanup(p), s) /\ current' = s /\ told' = TRUE /\ Repaired
    ELSE contents' = Cleanup(p) /\ current' = AfterCleanup(p) /\ UNCHANGED <<told, broken>>

(* Project.clear on a selection of states that contains the table, or not. *)
ClearProject(p, selected) ==
    /\ p \in alive
    /\ p = cur /\ selected => kind \in Exposed
    /\ rows' = IF selected THEN [rows EXCEPT ![p] = Empty] ELSE rows
    /\ IF p = cur /\ selected
       THEN UpdateHook(p, p)
       ELSE contents' = Cleanup(p) /\ current' = AfterCleanup(p) /\ UNCHANGED <<told, broken>>
    /\ UNCHANGED <<kind, cur, alive, listen, link, client>>

(* Project.remove: when p was current, the states are updated for the next project and the hooks of
   set_current that are not user_only are not run. *)
RemoveProject(p) ==
    /\ p \in alive /\ Cardinality(alive) > 1
    /\ p = cur => kind \in Exposed
    /\ alive' = alive \ {p}
    /\ rows' = [rows EXCEPT ![p] = Empty]
    /\ IF p = cur
       THEN \E q \in alive' : cur' = q /\ UpdateHook(p, q)
       ELSE contents' = Cleanup(p) /\ current' = AfterCleanup(p) /\ UNCHANGED <<cur, told, broken>>
    /\ UNCHANGED <<kind, listen, link, client>>

Projectwise == \/ \E p \in Projects : SetCurrent(p) \/ RemoveProject(p)
               \/ \E p \in Projects, selected \in BOOLEAN : ClearProject(p, selected)
Tablewise == \/ \E k \in Keys, v \in Values \cup {Gone} : Change(k, v)
             \/ \E r \in Rows : Renew(r)

-----------------------------------------------------------------------------
(* The requests of the array. *)

Serve(r) == requests # <<>> /\ Head(requests) = r /\ requests' = Tail(requests)

Respond(a) == answers' = Append(answers, a)

(* SIGON: synchronize forgets everything, install_hook installs the hooks and emits. *)
ServeSigOn ==
    /\ Serve("sigon")
    /\ listen' = TRUE
    /\ contents' = [s \in DOMAIN contents |-> Fresh] /\ current' = None /\ told' = TRUE
    /\ UNCHANGED <<projects, answers, client, broken>>

(* What the client has still to be told: every row, or the updates. *)
Delta(c) == IF c.cleared THEN [k \in Keys |-> IF rows[cur][k] = Gone THEN Kept ELSE rows[cur][k]]
                         ELSE c.updates

Only(S, u) == [k \in Keys |-> IF k \in S THEN u[k] ELSE Kept]
Dirty(u) == {k \in Keys : u[k] # Kept}

LeftoverAll(c, page) == Only(Dirty(c.updates) \ page, c.updates)    \* mutant
Leftover(c, page) == Only(Dirty(Delta(c)) \ page, Delta(c))

(* fetch: a page of rows; the rest becomes the updates.  (The first call of content signals again.) *)
ServeFetch ==
    /\ Serve("fetch")
    /\ told' = (told \/ current = None)
    /\ current' = Slot
    /\ LET c == contents[Slot]
           dirty == Dirty(Delta(c)) IN
       \E page \in SUBSET dirty :
          /\ Cardinality(page) = IF Cardinality(dirty) < Page THEN Cardinality(dirty) ELSE Page
          /\ contents' = [contents EXCEPT ![Slot] =
                            [cleared |-> FALSE, updates |-> Leftover(c, page)]]
          /\ Respond([answer |-> "data", reload |-> c.cleared, data |-> Only(page, Delta(c)),
                      pending |-> page # dirty])
    /\ UNCHANGED <<projects, listen, client, broken>>

(* An exception of a getter: cleared is already reset, the updates are not. *)
FetchFails ==
    /\ MayFail
    /\ Serve("fetch")
    /\ Dirty(Delta(contents[Slot])) # {}
    /\ told' = (told \/ current = None)
    /\ current' = Slot
    /\ contents' = [contents EXCEPT ![Slot].cleared = FALSE]
    /\ Respond([answer |-> "error"])
    /\ broken' = TRUE
    /\ UNCHANGED <<projects, listen, client>>

ServeReload ==
    /\ Serve("reload")
    /\ contents' = Reloaded(contents, Slot) /\ current' = Slot /\ told' = TRUE
    /\ Repaired
    /\ Respond([answer |-> "reloaded"])
    /\ UNCHANGED <<projects, listen, client>>

Server == ServeSigOn \/ ServeFetch \/ FetchFails \/ ServeReload

-----------------------------------------------------------------------------
(* The client. *)

Ask(rs) == requests' = requests \o rs

(* fetch, after the requests rs. *)
FetchAnyway(rs) == fetching' = TRUE /\ signaled' = FALSE /\ Ask(rs \o <<"fetch">>)     \* mutant
Fetch(rs) ==
    IF fetching THEN signaled' = TRUE /\ Ask(rs) /\ UNCHANGED fetching
                ELSE fetching' = TRUE /\ signaled' = FALSE /\ Ask(rs \o <<"fetch">>)

Online ==
    /\ ~active /\ active' = TRUE
    /\ Fetch(<<"sigon">>)
    /\ UNCHANGED <<projects, listen, array, answers, model, broken>>

OnSignal ==
    /\ listen /\ told /\ told' = FALSE
    /\ Fetch(<<>>)
    /\ UNCHANGED <<projects, listen, contents, current, answers, active, model, broken>>

Receive(a) == answers # <<>> /\ Head(answers).answer = a /\ answers' = Tail(answers)

(* removeAllData, updateData, removeData. *)
Patch(m, data) == [k \in Keys |-> IF data[k] = Kept THEN m[k] ELSE data[k]]
Patched(a) == Patch(IF a.reload THEN Empty ELSE model, a.data)

MoreIfPending(a) == a.pending       \* mutant
MoreIfSignaled(a) == signaled       \* mutant
More(a) == signaled \/ a.pending

OnData ==
    /\ Receive("data")
    /\ model' = Patched(Head(answers))
    /\ signaled' = FALSE
    /\ fetching' = More(Head(answers))
    /\ Ask(IF More(Head(answers)) THEN <<"fetch">> ELSE <<>>)
    /\ UNCHANGED <<projects, listen, array, active, broken>>

OnError ==
    /\ Receive("error")
    /\ signaled' = FALSE /\ fetching' = FALSE
    /\ UNCHANGED <<projects, listen, array, requests, active, model, broken>>

Reloading == Cardinality({i \in DOMAIN requests : requests[i] = "reload"}) +
             Cardinality({i \in DOMAIN answers : answers[i].answer = "reloaded"})

Reload ==
    /\ Reloading < MaxReloads
    /\ model' = Empty /\ signaled' = FALSE
    /\ Ask(<<"reload">>)
    /\ UNCHANGED <<projects, listen, array, answers, active, fetching, broken>>

OnReloaded ==
    /\ Receive("reloaded")
    /\ Fetch(<<>>)
    /\ UNCHANGED <<projects, listen, array, active, model, broken>>

Client == Online \/ OnSignal \/ OnData \/ OnError \/ OnReloaded

-----------------------------------------------------------------------------
Next == Projectwise \/ Tablewise \/ Server \/ Client \/ Reload

Spec == Init /\ [][Next]_vars

(* The server processes its requests, the socket delivers, the view of the array gets online. *)
Fairness == WF_vars(Server) /\ WF_vars(Client) /\ WF_vars(OnSignal)

FairSpec == Spec /\ Fairness

-----------------------------------------------------------------------------
(* Properties. *)

TypeOK ==
    /\ kind \in Kinds /\ alive \subseteq Projects /\ cur \in alive
    /\ rows \in [Projects -> Rows]
    /\ contents \in [Projects \cup {Detached} -> Content]
    /\ current \in {None, Detached, cur}
    /\ model \in Rows
    /\ {listen, told, active, fetching, signaled, broken} \subseteq BOOLEAN
    /\ requests \in Seq({"sigon", "fetch", "reload"})
    /\ answers \in Seq(Answer)

(* The guard of SyncArray.fetch: one fetch at most is on its way, and fetching says so.  Two would
   apply their answers in turn and each decide alone that nothing is left to fetch. *)
OneFetch ==
    Cardinality({i \in DOMAIN requests : requests[i] = "fetch"}) +
    Cardinality({i \in DOMAIN answers : answers[i].answer \in {"data", "error"}}) =
      IF fetching THEN 1 ELSE 0

(* states.ml keeps an array in sync with the current project: once the link is at rest and the
   signal delivered, the client shows the rows of the current project, all of them and no other,
   whatever the changes, the pages, the switches of project and the reloads in between.  A fetch
   that failed leaves the client out of date until a reload. *)
AtRest == requests = <<>> /\ answers = <<>> /\ ~told
InSync == active /\ AtRest /\ ~broken => model = rows[cur]

(* Between two fetches the client is late by the updates of the content and nothing else, unless
   the content says that the client must forget everything. *)
NoDrift ==
    active /\ requests = <<>> /\ answers = <<>> /\ ~broken =>
      contents[Slot].cleared \/ Patch(model, contents[Slot].updates) = rows[cur]

(* Only the content in use has a memory of what the client knows: the project left by set_current
   will be reloaded when it is current again, although the hook that says so runs with the other
   project already current.  This is why the order of the two hooks matters. *)
LeftIsCleared ==
    kind = "table" /\ listen => \A p \in Projects : contents[p].cleared \/ current = p

(* Once tables and projects are left alone and no fetch fails, the client ends in sync. *)
Calm == [][~(Projectwise \/ Tablewise \/ Reload \/ FetchFails)]_vars
EventuallyInSync == <>Calm => <>[](broken \/ model = rows[cur])
=============================================================================
