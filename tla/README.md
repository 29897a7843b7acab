# Frama-C: a TLA+ verification project

Frama-C is a platform for the analysis of C programs: an OCaml kernel, some thirty plug-ins
(analysers, provers, the Server plug-in, E-ACSL), Ivette, a graphical client in TypeScript, and a C
library with its specifications. Most of the repository translates and analyses syntax trees,
sequentially. Two parts have state that is hard to test. One makes the analyses run together and
talk to a client: the task server that runs provers, the cooperative scheduling of `Async`, the
request server with its yields, the arrays kept in step with a client while projects change, and
the client that starts, polls, stops and restarts the whole. The other is the C that runs with a
checked program: the shadow memory by which E-ACSL answers `\valid` and `\initialized`, its tries and
its threads, and the strings and vectors of the C library. This project models these parts, checks
them with TLC and proves their main invariants with TLAPS.

Paths below are relative to the repository; `lib/` stands for `src/lib/`, `server/` for
`plugins/server/src/`, `ivette/` for `ivette/src/`, `e-acsl/` for
`plugins/e-acsl/share/e-acsl/`, `libc/` for `share/libc/`.

## 1. Inventory

### 1.1 The components with control of their own

| component | code | state | operations |
|---|---|---|---|
| Task server | `lib/utils/task.ml` 369-501 | a queue per stage, the running list, `scheduled`, `terminated`, `procs`, `launched`, `waiting`; the lock of each thread | `spawn`, `launch`, `cancel_all`, `set_procs`, `server_progress` (`schedule`, `List.filter`, the callbacks), `progress` |
| Shared tasks | `lib/utils/task.ml` 275-335 | the shared task, its number of clients, one thread per instance | `share`, `ping_shared`, `retry_shared`, kill of an instance |
| Asynchronous daemons | `lib/utils/async.ml` | the registry of daemons, the flag `canceled` | `on_progress`, `off_progress`, `yield`, `flush`, `sleep`, `cancel`, `while_progress` |
| Request server | `server/main.ml` | `running`, `q_in`, `q_out`, the signals listened to, emitted and pending, `shutdown`, `cmdline` | `process_request`, `communicate`, `do_yield`, kill, `emit`, `async`, `start`, `stop`, `run` |
| Synchronized arrays | `server/states.ml`, `ivette/frama-c/states.ts` | per project: `cleared` and the recorded updates; `array.current`; on the client, the model, `fetching`, `signaled` | `update`, `remove`, `reload`, the hooks on projects, `fetch`; `SyncArray.fetch`, `reload`, `update` |
| Ivette client | `ivette/frama-c/server.ts`, `client_socket.ts` | the status, the process, the polling and killing timers, the requests in flight, the signals, the socket | `start`, `stop`, `kill`, `restart`, `clear`, `send`, `on`/`off`, the events of socket and process |
| Segment model of E-ACSL | `e-acsl/observation_model/segment_model/`, `internals/` | shadows of stack, globals and heap, initialization bits, counts of the heap | `store_block`, `delete_block`, `malloc`, `calloc`, `realloc`, `free`, `initialize`, `full_init`, `mark_readonly`; `valid`, `initialized`, `base_addr`, `block_length`, `offset`, ... |
| Bittree model of E-ACSL | `e-acsl/observation_model/bittree_model/` | a Patricia trie of block descriptors | the same, over the trie |
| Patricia tries | `e-acsl/observation_model/internals/e_acsl_patricia_trie.c` | a binary trie, masks of prefixes | `pt_insert`, `pt_remove`, `pt_remove_if`, `pt_lookup`, `pt_find` |
| Thread shadows of E-ACSL | `e-acsl/observation_model/segment_model/e_acsl_shadow_concurrency.c` | a trie of partitions, one for the stack and one for the thread-local storage of each thread | the wrapper of `pthread_create`, the beginning and end of threads, queries |
| String builtins of E-ACSL | `e-acsl/libc_replacements/e_acsl_string.c` | none: queries and updates of the observation model | `eacsl_builtin_strcpy`, `strcat`, `memcpy`, ... |
| C library strings | `libc/string.c`, `string.h` | none | the `str*` and `mem*` functions, with ACSL contracts |
| Argz vectors | `libc/argz.c` | one block of strings and its length | `argz_create`, `argz_add_sep`, `argz_insert`, `argz_delete`, `argz_replace`, `argz_stringify`, ... |
| Project library | `lib/project/` | the stack of projects, the current one, the states of each | `set_current`, `on`, `remove`, `clear`, `copy`, `save`, `load` |
| Property status, emitters | `src/kernel/services/` (`property_status.ml`, `emitter.ml`) | local statuses and their hypotheses; versions of emitters | `emit`, consolidation, removal of what is outdated |
| WP provers | `plugins/wp/` | the tasks of a goal, the cache, the scripts | the race of provers, cancellation, the modes of the cache |

The rest of the repository (front end, logic, visitors, domains, Eva, WP's calculus, the other
analysers, reports, the data encodings of the server, the React interface, the tools) is listed
in `PROJECT.json` with the reason for which it is not modelled: translations of syntax trees, numeric
algorithms over unbounded data, formatting or rendering.

### 1.2 How they interact

There is one OCaml thread and one JavaScript thread. Nothing is preempted; what interleaves is
re-entrance and messages.

* Long computations of Frama-C call `Async.yield`, which runs every registered daemon: the exchange
  of the request server with its client, and, when the Server plug-in is loaded
  (`Task.on_idle := Async.while_progress`), `server_progress` of every launched task server. A task
  body that yields may therefore re-enter the very task server that runs it, and a handler that yields
  may process a whole message of the client, kills included.
* `Async.fire` turns an exception of a daemon into `Failure`, `Async.Cancel` apart; `cancel` sets one
  global flag that the next yield consumes.
* The client speaks to the request server over a socket, in batches. The server speaks only in reply:
  the client polls while it waits. Signals tell that something changed, the client asks what.
* The current project changes by `Project.set_current`, `on`, `remove` and `load`; hooks run in
  registration order, some before and some after the current project is changed. Synchronized arrays
  follow them.
* Ivette spawns the process of Frama-C, connects with retries, and stops it with SHUTDOWN and then
  a timer that kills it. Processes exit, sockets end and timers fire in any order.

* The instrumented program and the C library call the runtime of E-ACSL at every declaration, allocation,
  write and annotation. In the segment model a thread must have its partitions before its routine runs;
  threads share the trie of partitions, under a lock, and what a query found there, without one.
* The string builtins stand between the program and `string.c`: they abort, or let the call through and
  record what it initialized.

### 1.3 What each promises

* **Task server**: every spawned thread is progressed to its end; never more than `procs` at once; lower
  stages first; counters that account for every thread; a thread is never progressed inside itself;
  `launch` starts the server whenever work remains. The code keeps the third, fourth and last of these up
  to the threads that clients spawn behind the sweep of `server_progress` (4.9, 4.10), and the properties
  say exactly so.
* **Shared tasks**: cancelling one instance does not cancel the others; a result is final; an
  interrupted task is run again for who still wants it; every instance ends.
* **Request server**: a request is answered exactly once, or was killed or lost with the server; a
  killed request does not run; a signal listened to is told after each emission; a job is executed
  once and stays canceled if it was before; the client knows whether the command line runs.
* **Synchronized arrays**: when nothing is on its way, the client shows the rows of the current
  project; the recorded updates are what the client lacks and no less.
* **Ivette client**: the status is that of a process that exists; a halt ends; a restart restarts; every
  promise is settled; the server is polled when and only when a request waits; the signals the
  server was told to send are the ones with listeners.

* **Segment and bittree models**: what is answered about an address is what the program's memory is: its
  block, whether a range of it may be read or written, whether it was written; nothing is left where no
  block is; the heap counters are those of the live blocks.
* **Patricia tries**: the leaves are those inserted and not removed, each found by its address.
* **Thread shadows**: the addresses of a running thread are monitored, whatever others begin and end; the
  attributes of the program are left as they were.
* **Strings**: every function meets its contract; what a builtin lets through has its precondition and is
  recorded.
* **Argz vectors**: a block is a vector of strings and each function does to the vector what it says.

The hazards behind these, each at its line, are in `PROJECT.json` under `hazards`.

## 2. Modules

| module | models | lines of code |
|---|---|---|
| `TaskServer` | the task server, `progress`, and the part of `Async` it runs on | `lib/utils/task.ml` 341-501 |
| `TaskServerHistory` | `TaskServer` with two history variables, and its promises | the same |
| `SharedTask` | instances of one shared task | `lib/utils/task.ml` 275-335 |
| `ServerMain` | the request server | `server/main.ml` |
| `RequestService` | abstract: what a client is promised about its requests | refined by `ServerMain` |
| `ArraySync` | one array on the server, its copy in the client, the projects | `server/states.ml`, `ivette/frama-c/states.ts`, `lib/project/project.ml` |
| `IvetteServer` | the client half of the protocol, socket and process | `ivette/frama-c/server.ts`, `client_socket.ts` |
| `ProgramMemory` | abstract: the blocks of a program and its correct calls | `e-acsl/observation_model/e_acsl_observation_model.h` |
| `SegmentMemory` | the shadows of the segment model, over `ProgramMemory` | `segment_model/e_acsl_segment_tracking.c` and its observation model |
| `PatriciaTrie` | the trie as a tree, its masks, its operations | `internals/e_acsl_patricia_trie.c` |
| `BittreeMemory` | the bittree model, over `ProgramMemory` and `PatriciaTrie` | `bittree_model/*.c` |
| `ShadowThreads` | the partitions of threads, over `PatriciaTrie` | `segment_model/e_acsl_shadow_concurrency.c` |
| `LibcString` | the functions of `string.c`, the logic functions and contracts | `libc/string.c`, `string.h`, `__fc_string_axiomatic.h` |
| `StringBuiltins` | what each builtin tests, calls and marks, over `LibcString` | `libc_replacements/e_acsl_string.c` |
| `ArgzVector` | abstract: a vector of strings | refined by `Argz` |
| `Argz` | argz vectors over `LibcString` | `libc/argz.c` |
| `MC*` | model values and symmetry of the instances | |
| `*_proofs` | theorems, section 5 | |
| `SequenceCounts` | how many places of a queue satisfy something, lemmas of two proof modules | |

`PROJECT.json`/`map` gives the lines of every definition. Definitions commented `\* mutant` are
plausible faults of the definition that follows them; nothing uses them, they show that a property
depends on the code being what it is.

### TaskServer

`server_progress` calls client code in the middle of its work (bodies, start, wait, stop callbacks,
daemons during a yield), and client code calls the server back. An activation is therefore a frame of
an explicit stack (`depth`, `pc`, `todo`, `kept`, `cur`, `stage`, `via`) and a step is a maximal run of code
without client call. `pc` names the point: `filter` between two elements of the `List.filter` of
line 462, `body` in a task body, `schedule` between two queue pops, `yield` and the callbacks. The
client may `Spawn`, `Launch`, `CancelAll`, `SetProcs` at each of them, and, with `"daemon" \in OnIdle`,
a yield may fire a daemon, that is push a second activation on top of the first. What
`List.filter` captured before a body ran (`todo`, `kept`) overwrites `running` afterwards, as in the
code. A task is a flag `busy`: what it computes, and the monad it is written in, are left out.

The client is any client: `Spawn` takes any thread not yet spawned, on any stage, at any point where client
code runs. `OnIdle` says which schedulers `Task.on_idle`, a reference, may hold: `"loop"` (the default one, a
blocking loop in `launch`), `"daemon"` (`Async.while_progress`), or one after the other; `MayRaise` whether
client code raises `Async.Cancel`.

`TaskServerHistory` adds two history variables, which no guard reads. `server_progress` resets its counters
when nothing runs, whatever has been queued since, and its sweep does not come back to a stage it has passed.
`left` is what the queues held at the last reset, `late` the threads spawned behind the sweep since it
began. The comment above `type server` and "Stage 0 tasks are issued first" (task.mli 203) are false of
the code for some clients (4.9, 4.10); with the two variables the properties say how false: the accounting
is off by what `left` holds and by nothing else, and the only threads of an earlier stage that a later one
overtakes, or that a stop leaves behind, are `late`.

### SharedTask

One `shared` record and the threads of `share`: `Register`, `Take`, `Advance` and the three cases of
`Kill` by what the instance and the others are doing. `retry_shared` rebuilds the task for the next
instance that looks after a timeout or a cancellation (or a failure, with `~retry`). An instance that goes
on waiting after a kill may be killed again, up to `MaxKills` times; `RepeatedKills` stands for the kills after
the first.

### ServerMain and RequestService

The record `server` (fields named as in the code) and the phases of one process of Frama-C: `created`,
`cmdline` (after `start`, exchanges during yields), `loop` (`run`), `ended`. `Fetch` opens an exchange with a
batch, one action per command processes it, `Reply` sends `q_out`. The same actions run at top level in
the loop and nested in a handler (`comm` inside `running`), as `do_yield` does. `thrown` is the exception
on its way; the translation made by `Async.fire` is part of the action through which it passes.
Requests are ids with a kind; the handler may emit, yield, return, raise. A failure that `run` catches is an
answer; `Raises` is the exception that it does not, of a callback of a signal or of a GET handler, which
abandons the message in progress.

`RequestService` is what a client may count on: each request goes from sent to answered to told at most
once, and one exchange delivers all that is ready. `ServerMain` implements it under a refinement
mapping that reads the phase of a request off the history of answers, the responses and the queues.

### ArraySync

The contents of an array per project (`contents`), the cached one (`array.current`, a slot that may belong to
a project that has just been left or cleared, `Detached`), the projects with their rows, and `SyncArray`
in the client. Kind `table` is reloaded by the update hook of its state, kind `switch` by the hook on the
current project. The link keeps requests and answers in order; a signal may overtake an answer, because
the client reads all frames received together before the code that awaits an answer resumes. A row
is a value per key, a page is `Page` rows of the updates.

### IvetteServer

One action per callback of the JavaScript loop. `status` and the timers are those of `server.ts`; `opening`,
`peer`, `running`, `sent`, `replies` those of the socket client; `live` and `dying` belong to the system. Any
process may end, refuse to connect or break its socket at any time. Messages in transit that answer
requests the client gave up (`stale`) keep their id, which the code gives again after `_clear`.
The server at the other end is a set of requests to answer; `ServerMain` is where that is justified.

### ProgramMemory, SegmentMemory, BittreeMemory

`ProgramMemory` is the program: blocks of the stack, of the globals and of the heap, each with its length,
its bytes written and whether it may be written, and the correct calls that make, change and free them.
The two observation models run these calls and keep their own state, so that a property compares the
answers of a model with the blocks of the program; nothing in a model reads the blocks, except for the
place where the allocator puts a new one.

In `SegmentMemory` a static block has one code per byte (`primary`: a packed length and offset for short
blocks, an offset into a table and per-segment remainders for long ones) and bits for initialization
and permission; a heap block has one mark per segment. Initialization bits are grouped by `BYTE` as the
code groups them by eight, because what realloc clears depends on the grouping. `LONG_BLOCK` and
`HEAP_SEGMENT` stand for 8 and 32.

In `BittreeMemory` a block is a leaf of the trie with a count and, while partly initialized, bits. `missed`
is a history variable: what free and the others do after `pt_lookup` returned an unassigned value is left
open, and the properties speak of the behaviors where that did not happen.

### PatriciaTrie and ShadowThreads

A trie is the tree of its nodes, masks and prefixes as words of `WORDBITS` bits of which only the `LowBits`
low ones vary; the search for a mask goes through the two tables of the code. In `ShadowThreads` a call of
`pthread_create` takes four steps (read the attributes, replace the size, create, restore), a thread is created,
begins, runs, ends, and its identity and addresses are given again; a query reads a partition in one step
and uses it in another. The lock makes each operation on the trie one step.

### LibcString, StringBuiltins, ArgzVector, Argz

A memory is a sequence of bytes with gaps between blocks; a pointer is a position. A loop that only reads
is the place where it stops; one that writes is the memory after each byte, since source and destination
may overlap. Contracts are `<function>_contract`, built from the logic functions of the header.
`strlen` is negative on an array without terminator and the header defines `strnlen` as
`\min(strlen(s), n)`, negative too; the contracts of `strncat` and `strndup` are read as they are meant.
`Argz` is the vector of one caller; an operation is the whole function, on a fresh copy of the block where it
reallocates, and `ArgzVector` says what a caller expects. The mapping reads the entries off the block.

### Conventions

History variables are declared as such and never read by a guard. Constants that bound the
exploration have `bound` in their comment and appear in guards only.

## 3. Runs

Distinct states are given for a run to the end, or to the counterexample.

| run | instance | states | shows |
|---|---|---|---|
| `taskserver_loop` | 3 threads, 2 stages, procs 1-2, default `on_idle`, any client, no exception | 39 k | `Accounting`, `MaxRunning`, `NoneStranded`, `StageOrder`; `ServesAndRests` |
| `taskserver_daemon` | 3 threads, 1 stage, 2 nested activations, 2 daemons, both schedulers, any client, exceptions | 654 k | `LockExclusive` |
| `sharedtask_safe` | 3 instances, with and without retry, two kills each | 25 k | `ClientsCounted`, `CancelIsolated`, `OutcomeIsFinal`; `EveryInstanceEnds` |
| `server_safe` | 2 requests of any kind, 1 signal, 2 orders (KILL, SIGON, SIGOFF, SHUTDOWN), 2 commands on the wire, raising callbacks and GET handlers | 440 k | `AnsweredOnce`, `SignalsKept`, `KilledNeverRuns`, `ClientKnows` |
| `server_jobs` | 1 request, 1 job, 1 signal, 1 order | 55 k | `JobsServedOnce`, `ImplementsService`; `EverythingServed`, `SignalsDelivered` |
| `arraysync_safe` | 3 projects, 1 key, 2 values, both kinds, a user reload, failing fetches | 478 k | `OneFetch`, `InSync`, `LeftIsCleared` |
| `arraysync_pages` | 2 projects, 2 keys fetched one at a time | 54 k | `NoDrift`; `EventuallyInSync` |
| `ivette_safe` | 2 processes, 3 calls of the user, 2 requests, 1 signal, 2 announcements | 58 k | `RequestsTracked`, `SignalsTracked`, `ServerIsReachable`; `HaltEnds`, `RequestsSettle` |
| `segment_safe` | 2 blocks among stack, globals and heap, 12 heap bytes in segments of 6, blocks of 0 to 7 bytes | 21 k | `QueriesExact`, `InitializationExact`, `UnusedShadowsNull`, `HeapAccounted` |
| `bittree_safe` | 4 blocks at 7, 11, 13, 20 of 0 to 4 bytes, words of 64 bits | 134 k | `TrieExact`, `QueriesExact` |
| `threads_safe` | 2 threads and the main one, 3 creations, identities given again | 387 k | `AttributesKept`, `QueriesAnswered`, `LeftoversBounded` |
| `argz_safe` | vectors of at most 5 bytes; strings with separators, empty or not | 338 | `ImplementsVector`, `ContractsMet`, `BuiltinsSound` |

Each property is preceded by its meaning in the module. `argz_safe` has few states, each a memory
on which every string function and every builtin runs with all pointers, counts and characters.

### 3.1 Why the bounds are enough

* **TaskServer**: the interesting cases need a thread in progress, one the filter has kept or not yet
  visited, and one spawned meanwhile: three. Two stages give a sweep that has passed a stage; two
  activations give re-entrance, a third only repeats the second one on top of it; procs 1 and 2 with
  `SetProcs` let the limit change while it is reached. `MaxCounted` only stops exceptions after two
  terminations: a server that is abandoned again and again would count for ever, and the counters
  are the only unbounded data.
* **SharedTask**: one instance that executes, one that waits, one killed. Two kills of each make every
  discount that the code counts twice; a third repeats the second (the theorems hold for any `MaxKills`).
* **ServerMain**: a running EXEC that yields and one more request in the queue or in the batch need
  two; a job takes the place of the second in `server_jobs`. Two commands on the wire make a message
  of several commands; each order can then be combined with every request at each point.
* **ArraySync**: a project left, the current one, and the one removed need three; one key is enough where
  whole rows do not depend on each other, two with pages of one are the least for an answer that
  leaves something behind.
* **IvetteServer**: a process and its successor; three calls reach start, restart, stop and every order
  of two after a start; two ids are the least for a reset of the counter with a request in flight;
  one message in transit is what a late delivery needs.

* **SegmentMemory**: two blocks are enough for one to follow or replace another; 12 heap bytes are two
  segments, the largest block takes both; stack blocks are empty, short, at the limit and long by the code
  of `LONG_BLOCK = 2`; `BYTE = 3` is smaller than a block and divides none of the sizes that grow.
* **BittreeMemory**: 7, 11, 13 and 20 share prefixes of different lengths and their descents differ; the
  smallest and largest of these are heap blocks, so realloc moves over the others. Four leaves are the least for
  an inner node with two inner children.
* **ShadowThreads**: a thread that ended, one that takes its identity and addresses, and one that runs next to
  it; the third creation gives an identity a second time. The stack sizes differ from the default.
* **Argz**: five bytes hold three entries, empty ones first, between and last, and the two blocks of the memory
  on which string functions run overlap in every way. A larger bound (6, 1139 states) gives the same
  answers for `ImplementsVector`.

Symmetry is used in the runs without temporal property (`taskserver_daemon`, `server_safe`,
`arraysync_safe`), over threads, request ids, projects, keys and values, which the specifications only
compare. The temporal runs use none.

### 3.2 Fairness

* **TaskServer**: the server's own steps are plain code (`WF(Server)`); a body returns, and a task that is
  progressed again and again finishes (`SF(BodyDone)`: a task is polled, its command ends); whoever
  spawns calls `launch`, as WP does after each batch of goals. No fairness on cancel, set_procs, callbacks.
* **SharedTask**: threads are progressed (`WF`), and the shared task, executed for ever, ends (`SF`).
* **ServerMain**: the batch and its reply are plain code; handlers and jobs end, with or without an
  exception; the command line ends; the client polls (Ivette does every 200 ms while it waits). The
  client owes nothing else: no kill, no shutdown, no order of signals.
* **ArraySync**: the server processes its requests, the socket delivers answers and signals. No fairness on
  changes, on switches of project or on the user.
* **IvetteServer**: timers and immediates fire, messages are delivered, a process that was killed or that
  closed its socket exits, and a server that is polled answers, which is part of
  `EverythingServed` in `ServerMain`. The user owes nothing.
* The memory models, the threads and argz vectors promise nothing that must eventually happen: no fairness.

`CHECK_DEADLOCK FALSE` is set for the runs of `SharedTask`, `ServerMain`, `IvetteServer`, the memory models and
`ShadowThreads`, where the system really stops: all instances ended, the process of Frama-C gone,
the bounded calls of the user used up with no process left, a call aborted, all the threads that may be
created ended. `TaskServer`, `ArraySync` and `Argz` never
stop and are checked for deadlock.

## 4. Findings

Ten configurations beside the runs end with a counterexample to what the documentation or a comment
says; they are kept for who wants to see the behavior (`tlc -config <file> MC<module>`), and the
passing runs state what holds all the same:

1. `TaskServerCancel.cfg` (`LaunchStarts`): `Async.Cancel` raised by a task body or a callback leaves
   `server_progress` with `launched` still true. The default `on_idle` swallows it, and `launch` ("starts the
   server if not running yet") never starts that server again, whatever is spawned.
2. `ServerInterrupted.cfg` (`InterruptedIsKilled`): a running EXEC that is killed answers ERROR and not
   KILLED: `do_yield` raises `Killed` inside a daemon and `Async.fire` renames it `Failure`, so that the
   case of `run` that answers KILLED is dead code.
3. `ArraySyncRemoved.cfg` (`InSync`): `Project.remove` of the current project sets another current project but
   runs the user hooks only; the arrays that reload on a change of project are not told and the client
   keeps the rows of a project that is gone.
4. `IvetteRestart.cfg` (`RestartHonoured`): a CMDLINEOFF in transit when `restart` is called sets the status to
   ON, and the exit of the server then finds ON and schedules no reboot.
5. `SegmentRealloc.cfg` (`ReallocReturns`): `unsafe_realloc` of a heap block that stays in place clears the new
   initialization bits with a `memset` whose size, unsigned, wraps when both sizes fall in one byte of bits
   (4 bytes to 6): it writes outside the shadow.
6. `SegmentInitialized.cfg` (`InitializedAnswers`): `heap_initialized` does not advance its pointer from one
   segment to the next, so the answer about a range of several segments is that of the first one's bits.
7. `BittreeLookup.cfg` (`FreeReturns`): `pt_lookup` does not assign its result when it finds the leaf; what the
   function returns is then up to the compiler, and `free` of a block of the program may abort as an
   invalid call.
8. `ThreadsEnded.cfg` (`EndedHasNone`): `pt_remove_if` may leave one leaf that satisfies the predicate, when
   its sibling is removed and it takes the place of their parent. A partition of a thread that ended stays
   in the trie and answers for the next thread with the same addresses.

9. `TaskServerComment.cfg` (`AccountingComment`): the comment above `type server` (task.ml 384-386) gives as
   invariant "terminated + (length running) + Sum ( length queue.(i) ) == scheduled". A body of stage 1 that
   spawns on stage 0 and ends leaves nothing running; `server_progress` resets the counters with that thread
   still queued, and `launch` then does nothing for it until another thread is spawned. `Accounting`,
   `NoneStranded` and `ServesAndRests` say that no other thread is left.
10. `TaskServerOrder.cfg` (`EarlierStagesFirst`): "Stage 0 tasks are issued first" (task.mli 203). `spawn` does
   not look at the stage of who spawns: a body of stage 1 may spawn on stage 0, and the sweep, which has passed
   stage 0, issues the next thread of stage 1 first. `StageOrder` says that it overtakes no thread that was
   not spawned behind that very sweep.

Met on the way, and modelled as the code does it, without a run of their own:

* Under nested activations `running` and the threads in hand exceed `procs` together, the accounting
  comment is broken in the middle of an outer activation, and `remaining` can be -1.
* The sense of `waiting` is inverted with respect to its comment: it answers `None` just when all tasks
  are scheduled.
* An instance of a shared task that ended stays counted, so a restarted task can be left running
  with nobody waiting; an instance cancelled twice is discounted twice, and the second discount may cancel the
  task under another instance that waits. `ClientsCounted` and `CancelIsolated` bound this by one client per
  repeated kill: with none, the count covers all who wait and nobody else is reached.
* A request killed in the queue gets no answer. A signal emitted, told off and on again within a cycle
  may be told twice in one message.
* The array of WP goals has rows per project and no hook on projects; it is out of step after the first
  switch. A `switch` array is not told either when its project is cleared.
* In Ivette, `stop` while HALTING is documented as a hard kill and sends SHUTDOWN again and
  re-arms the timer; FAILURE after a connection error leaves the process running, and the next start
  spawns a second one; after `_clear` a late answer can settle a new request that got its id;
  `response.kill` settles the promise and leaves its entry in the table.

* In the segment model: an allocation of the size `max_allocated` or more is refused by the shadow but not by
  the allocator; `unsafe_freeable` lacks a `return` for some addresses; safe locations are freeable, and their
  offset is the distance to the query; a zero-size object that shares the address of another changes its
  permission; the size of a block is cut to 32 bits in the secondary shadow; `calloc` leaves the bits of the
  padding set, which a later realloc makes visible.
* In the bittree model: a realloc that moves a block forgets what was initialized; one that shrinks it counts
  the bits beyond the new size; once the count is full every range is initialized; `free` keeps the descriptor.
  `store_block_duplicate` returns a pointer that an inner declaration hides.
* `pthread_create` of E-ACSL changes the attributes of the program while it calls the system: two calls
  with the same attributes double the size, or leave them changed. The wrapper is not freed when the call
  fails. `AttributesKept` and `QueriesAnswered` hold when no two calls use the same attributes at a time. A
  query about another thread that ends meanwhile goes through NULL or a freed partition.
* The builtins of `memcpy` and `memmove` mark bytes as initialized although their source was not; that of
  `memcmp` refuses overlapping operands, which its contract allows, and asks nothing of initialization; those
  of `strcat` and `strncat` test the overlap with the destination as it was before the call, weaker than the
  contract, and what they let through is still the concatenation (`BuiltinsSound`).
* `argz_insert` in the middle of the first entry reads the byte before the block (calls there are excluded);
  `argz_delete` in the middle of an entry joins its head with the next one; `argz_add_sep` that fails loses the
  vector and keeps its length; the test `nlen == 0` of `argz_create_sep` is never true. The sign of
  `strcasecmp` is inverted, which its contract does not exclude.
* `segment_omodel_debug.c` 47-50 and the bittree answer the opposite about a writable safe location.
* `contract_partial_count_behaviors` looks at the first two indexes only, its header promises all of them.

What some properties do not say, since the code does not keep it or the model does not see it:

* `Accounting`, `NoneStranded`, `StageOrder` and `ServesAndRests` speak of the default scheduler without exceptions.
  There no nested activation adds to `running` while `List.filter` walks it; under daemons one does, and what
  is shown there is `LockExclusive` only.
* `JobsServedOnce` does not say that a canceled job is skipped, which is the guard of the only action that starts
  one, but that its command stays in one place whatever becomes of the job, and that its status is final.
* `InSync` exposes only arrays that reload on their own state (`Exposed = {"table"}`): the failures of `switch`
  arrays (finding 3) are outside it. A getter that fails after `cleared` was reset leaves the client out of date
  until a reload (`broken`): `InSync` says that nothing else does, not what the client shows meanwhile.
* `RequestsTracked` is about the ids the client gives: an id given is not that of a request in flight. It does not
  prevent a late answer, sent before `_clear`, from settling the request that has its id now.
* `ServerIsReachable` and `HaltEnds` hold although a RESTARTING is lost (finding 4): the client stays up, or goes
  down, without the reboot.
* `InitializationExact` ends at a `realloc` whose count wraps (finding 5), and `QueriesExact` of the bittree and
  `TrieExact` at a lookup without a value (finding 7, `missed`).
* `AttributesKept` stops speaking at the first overlap of two calls with the same attributes (`overlapped`), and
  `QueriesAnswered` of a query whose thread ends meanwhile (`StillThere`).
* `ImplementsVector` lets a vector be lost where `argz_add_sep` loses it, and nowhere else.
* In `argz_safe` every block ends with a terminator, so the test of the builtins that a source is terminated is
  never the one that refuses; the theorem `BuiltinsLetThrough` is about any memory and covers it.

## 5. Proofs

All theorems hold for every value of the constants that satisfies the named assumptions of the
component's module (bounds are natural numbers, special values are not members of the sets they
complete). None assumes anything else unless stated.

**TaskServer_proofs** (`TypeCorrect`, `AccountingHolds`, `NoneStrandedHolds`, `MaxRunningHolds`,
`StageOrderHolds`, `LockExclusiveHolds`).
`TypeInv` is `TypeOK` with the fact that a body is the body of some thread, without which the
thread popped from `cur` has no type. `Accounting`, `NoneStranded`, `MaxRunning` and `StageOrder` are proved for the default scheduler and no
exception (`OnIdle = {"loop"}`, `~MayRaise`, hypotheses of the theorems), and for any client. The balance
`Balance(k)`, the sum of the comment off by `k`, is kept by every step but the reset of `FireStop`, for any
`k` (`BalanceStep`); it needs `BaseInv`: the types; `NestedOnlyInStop`, a second activation exists only under
the stop callbacks; `PhaseLists`, at which points `kept` is empty and a queue is being swept; and that
the set of queue slots is finite, since the queues are counted by the cardinality of `Slots(queue)` (there
is no recursive sum, and `SlotsPush`, `SlotsTake` say what a push and a pop do to it). At the reset nothing
runs and the balance starts again at what is queued, which is what `left` records: `HistoryInv` follows.
`MaxRunning` needs only `BaseInv`, by an argument on the balance: of all steps only the one that takes a thread
below `procs` can make the live threads more, the others leave the queues and `scheduled` alone and never lower
`terminated`. `StageOrder`, a property of steps, needs `OrderInv`: while `schedule` sweeps, the queues it has
passed hold only `late` threads or `procs` threads run, and while a body runs they hold only `late` ones, since
what that body and the callbacks spawn behind the sweep is late by definition; a place freed by `set_procs`, in
the middle of a sweep, would break it, which is why it matters that `set_procs` is called from bodies, where a
place was free. `NoneStranded` follows from both.

`LockExclusive` holds for any client, with nested activations and exceptions.
A thread being progressed is protected by its lock except where `schedule` progresses the thread it has
just popped without asking. `LockInv = TypeInv /\ QueueInv /\ CurInv /\ LockExclusive`, where
`QueueInv` says that a queued thread is queued once, was spawned, and is held by no activation (not in
running, todo, kept or cur), and `CurInv` that an activation has a current thread only in a body. So what
is popped cannot be locked.

**ServerMain_proofs** (`TypeCorrect`, `SignalsKeptHolds`, `AnsweredOnceHolds`, `KilledNeverRunsHolds`,
`ClientKnowsHolds`, `JobsServedOnceHolds`, `ImplementsServiceHolds`), for any requests, signals, sizes and
nesting, without hypothesis. A request moves through wire, message, queue, hand, responses and client, and
the properties say where it cannot be. `PlacesInv` counts the copies of each request in each of these
places (`Places(i) <= 1`, and a lost one is `Excused`); each step is classified as leaving a request alone, taking it
away, answering it or telling it (`Stays`, `Leaves`, `IsAnswered`, `IsTold`), and each class preserves
the count, so a step only needs its class. `KilledNeverRuns` needs that a killed request is marked
wherever it is queued and is nowhere else (`KilledInv`). The refinement of `RequestService` follows: the
phase of a request is read off its places, and each class of steps is a step of the service or a stutter; one exchange
tells all the answers that are ready, and several requests then change phase at once.

**SequenceCounts** defines how often a sequence has an element of a set, as a cardinality, with what an append, a tail,
a cut or an empty sequence do to it; `ServerMain_proofs` counts requests in queues with it, and
`ArraySync_proofs` the fetches on the link.

**ArraySync_proofs** (`TypeCorrect`, `LeftIsClearedHolds`, `OneFetchHolds`, `NoDriftHolds`, `InSyncHolds`). The content
cached in `array.current` is that of the current project or one its project forgot, though the hook that drops it
runs after those that use it; and every content but that one is `cleared`: a project that comes back is sent
again in full. The second is inductive on top of the types; the steps that need work are the ones where hooks
run in sequence. `OneFetch` counts fetches asked and answered (`CountFetch`). `NoDrift` and `InSync` speak of a link
at rest and are far from inductive; `SyncInv` says what they are in the middle of a fetch: `Drift`, the
current content covers what the client will lack once it has read the answer on its way, unless a reload or
the first subscription is still to come; `Wakes`, a content with something to say will be asked for it, by a
signal, a fetch or a page that promises more; `ErrorsKnown`, `NewIsCleared`, `Installs`, what a failed fetch, a
fresh content and a client without hooks mean for these. Both theorems assume, as the runs do,
that the current project of an array that reloads on a switch is neither cleared nor removed
(`"switch" \notin Exposed`): such an array is not told and is out of sync (4.3).

**IvetteServer_proofs** (`TypeCorrect`, `ServerIsReachableHolds`, `SignalsTrackedHolds`,
`RequestsTrackedHolds`).
`ServerIsReachable` relates the status and the process; messages and retries may change the status
later, so it needs `LinkInv`: a socket is opening only in STARTING with a live process and no peer, a
connected socket belongs to a client that runs and a process that lives, and messages are in
transit only on a connected socket. `SignalInv` adds that nothing is listened to or debounced while the server
does not run. The two halves of `RequestsTracked` (an id is fresh, the table is empty when nothing is in
flight) are proved together: a reset of the counter happens exactly where the table is emptied.

**SharedTask_proofs** (`TypeCorrect`, `ClientsCountedHolds`, `CancelIsolatedHolds`, `OutcomeIsFinalHolds`), for any
finite set of instances. `ClientsCounted` compares the count with the cardinality of the instances that wait, so
the work is in what each step does to that set, one lemma per way it grows or shrinks, and to the set
`RepeatedKills`, which gains an element with each kill of an instance after its first, the only steps that may
discount a client twice.
It and `CancelIsolated` hold for any `MaxKills`, without other assumption.
`OutcomeIsFinal` is a property of steps and needs no invariant.

**SegmentMemory_proofs** (`HeapAccountedHolds`, `UnusedShadowsNullHolds`,
`InitializationExactHolds`, `QueriesExactHolds`), for any regions, sizes and number of blocks.
Its first part shows that blocks stay apart and inside their region (`MemoryOK`) under each correct call.
`SegInv` then says, byte by byte, what each shadow holds: `StaticOK`, a byte of a static block has the code of its
offset and a byte outside is null; `HeapOK`, a segment is marked when a heap block starts or goes on
there, the allocator's places being apart (`PlacesAssumption`); `InitOK`, a bit is set when its byte was
written, in the bytes of bits that belong to blocks, the others being null, which is what makes a new block
start uninitialized; and `HeapAccounted`. None of the four properties is inductive without the others:
freeing a block needs its marks to find its length, its length to clear the bits. `Decoded` shows that the code of a
long or short block gives back its length and offset, for any `LONG_BLOCK`; `GrownBits` is the arithmetic
of the bits a realloc in place must clear, and holds for calls whose count did not wrap.

**Argz_proofs** (`StringContracts`, `BuiltinsLetThrough`, `ImplementsVectorHolds`, `VectorsKept`, `VectorContracts`,
`VectorBuiltins`): what the run `argz_safe` checks on small vectors, for every memory and for vectors of any length.
The two first theorems assume that all bytes were written (`Clean`), which the contracts
of functions that promise initialized bytes need, and `BlockWise`, that a block is read-only as a whole; nothing
is assumed of lengths, blocks and pointers. Each loop is proved from the least number principle (`LeastNat`, from
the well-founded order of the library): a loop that reads stops at the least position where it may, and the
function that a copy defines recursively is found equal to `Shifted`, the memory with one range replaced,
by looking at the least number of bytes for which it would not be. Then `<function>Is` says what a function
returns and leaves, and `<function>_meets` that this is what the contract says. The builtins follow: a test they
make gives the hypotheses of one of these lemmas, except `strcat` and `strncat`, whose tests of overlap are weaker
than the contract (4): a source behind the destination may be overwritten, and `StringAppended` shows that the
bytes are read before.

`ImplementsVectorHolds` is the refinement: under `Spec`, for any strings, vectors, patterns, separator and length of
blocks, each call does to the vector of strings what `ArgzVector` says, at the place it is given (`EditsPlaced`: the
abstract insertion and deletion are at some place, and this says at which), and `argz_count`, `argz_extract` and `argz_next`
find the same entries. Its invariant `RInv` says that the block `Represents` some sequence of strings: there are
places `o[0] < ... < o[n]`, the first one 0 and the last one the length, between which stand the strings, each with its
terminator (`Laid`, `Holds`); what is beyond the length is left over from a longer vector. After `argz_add_sep` lost
the vector, nothing but a new one can follow. `EntryAt` of what `argz_extract` returns then gives back those strings
(`SeenIs`), so the mapping needs no history. `<function>Holds` says of each function which strings the vector
it leaves represents, whatever was represented before, and `<function>Shows` that the action is the abstract one.
The assumptions on the constants say what strings are: sequences without terminator, those replaced not empty.

A walk over the entries is a recursive function whose argument jumps; `JumpExists` and `WalkExists` show that it exists,
and its values at the places `o[i]` follow from the last one down (`UpTo`, `DownFrom`). A loop over characters or
strings is a fold (`FoldExists`, `FoldChain`: the values after each element), followed from the first element on.
Three loops carry the work. The one that splits a string at its separators (`Midway`): the block holds the former strings
and the parts found so far, then the part being written, and a separator that is dropped counts one byte less, so the
bytes left and the characters to come stay as many. `argz_stringify` (`CutOf`): the separators are written exactly
at the ends of all strings but the last. `argz_replace`: in a `Haystack`, an entry beside the pattern, `strstr` finds
the first occurrence left of the abstract string (`FoundAt`, `NoneIn`), so both recursions copy the same stretches
(`KeptUntil`), and the fold over the entries has written nothing before the first match, then the entries so far.
`IInv`, which the two last theorems need, follows from `RInv`. TLC checked it and the refinement first, on
the instance of `argz_safe`.

**Checked by TLC only.** All liveness properties (`ServesAndRests`, `EveryInstanceEnds`, `EverythingServed`,
`SignalsDelivered`, `EventuallyInSync`, `HaltEnds`, `RequestsSettle`) and ENABLED, which are out of the prover's
reach. `PatriciaTrie` declares RECURSIVE operators (a trie is a tree): nothing is proved of the bittree model
and of thread shadows. The
theorems of induction of the library are out of reach, recursive functions are not: see `LeastNat`. Induction
over data is avoided in `TaskServer` as described for `Slots`.

## 6. Not modelled

* In the modelled components: the monad and the commands of tasks, the registration of callbacks and a
  thread run outside any server; the data of requests and the registry of handlers; the framing of
  messages; polling delays and debounces as durations (they may fire at any time); values and states of
  the Server plug-in (a signal and a getter, no memory); shutting the client's array down; Ivette's
  console and log.
* In the runtime of E-ACSL: temporal origins and the shadows they need, allocations past the maximum or that
  fail, `argv` and `environ`, the layout of the regions, debug output and messages, the contract tables and the
  checks of formatted output; wide strings; what a program does after a call the runtime aborted.
* In the C library: everything but `string.c` and `argz.c`. Most of it is stubs that return arbitrary values of
  an interval; the specifications in the headers have no code behind them to check. The embedded allocator
  `dlmalloc` is third-party code: `Place` stands for it.
* The other components, with the reasons given in `PROJECT.json`.

## 7. Plan

In order:

1. Temporal origins (`e_acsl_temporal.c`) over `SegmentMemory`: origins follow copies, parameters and returned
   values; a freed block's origin is never that of the one that takes its place.
2. The contract tables (`e_acsl_contract.c`) as operators against the meaning of complete and disjoint.
3. `Async`: the registry of daemons, `yield` re-entered by its own daemons, registration and removal
   during an iteration, the flag `canceled` shared by all.
4. The project stack: `set_current`, `on` with exceptions, `remove`, `clear`, the order of hooks, and the
   dependencies of states; `ArraySync` composed with it.
5. `ProverRace` and `ProofCache` of WP: first valid answer wins, the others are canceled; composed with
   `SharedTask` and `TaskServer`.
6. `PropertyStatus` with emitters, and the weak topological order, as operators against a fixpoint definition.
