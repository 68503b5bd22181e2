# A TLA+ model of animate_server

`animate_server` is a server that draws for many clients: a client process
signals the server, gets a pair of FIFOs, logs in, and sends commands line by
line; a pool of threads executes them on shared tables of canvases, sprites and
placements. This directory holds TLA+ modules that model the program as it is
written in `src/`, TLC configurations that check them on small instances, and
proofs that the TLA+ proof system checks.

## The system

| part | state | operations | talks to |
|---|---|---|---|
| main loop (`animate_server.c`) | `RUNNING`, the position in the loop | poll; handshake requests, results, client lines, each with a budget of five; teardown | everything below; it is the only thread that touches registry, counts and poll slots |
| client registry (`client_registry.c`) | the `ActiveClient` records with `refcount`, `dead`, `logged_in`; the list of the registered ones | insert, acquire, release, remove, destroy | main loop, commands; `SHARE` reads the list |
| commands (`commands.c`) | none | `handle_command`: one acquire and one task per line | registry, task queue |
| task queue (`task.c`) | linked list, count, mutex, condition variable | enqueue (main), dequeue (workers), destroy | |
| thread pool (`threadpool.c`) | the threads and the task each of them holds | init, `worker_routine`, destroy | task queue, object tables, result pipe, FIFOs |
| poll slots, signals (`s_helper.c`) | two parallel arrays, the two self pipes | insert, grow, remove by swapping, signal handlers | main loop |
| user database (`auth.c`) | `users.txt` | look up a balance | workers |
| object tables (`object_table.c`) | canvases, sprites, placements | insert, look up, remove | workers and main loop, without a lock |
| FIFO I/O (`fifo.c`) | none | write a message, read a message or a line | everybody |
| client (`client/src`) | `CONNECTION_STATE`, `LOGGED_IN`, two FIFOs | handshake, login, sender, receiver thread, teardown | the server, through signals and FIFOs |

What is hard here: the reference count of a client is held by the registry and
by every request in flight, and hang-ups, refusals and results come in any
order; the main loop uses a client after it has released it, down to the
descriptor it writes the reply to; the self pipes and the reply FIFOs are
non-blocking on the server's side and swallow what does not fit; client and
server differ in what they take for a Disconnect; the poll array shrinks while it is
walked; a signal can come between a test and the system call that should see
it; all workers share the object tables. `PROJECT.json` lists these hazards at
their lines, with the property that covers each.

What makes each part correct:

* registry: the count is exact, a record is freed with its last reference and
  never while something names it (`RefcountExact`, `NoDangling`,
  `ImplementsLifetime`);
* poll slots: one slot per registered client with its own descriptor
  (`SlotsMatchRegistry`); descriptors are open exactly as long as somebody will
  close them (`DescriptorsOwned`);
* commands and workers: every reply goes to the client that asked, once, and a
  client that leaves room for its replies gets each of them (`RepliesToIssuer`);
  a reply overtakes only what other workers hold (`RepliesInOrder`);
  one authorisation per client (`AuthorisedOnce`);
* main loop: lines are answered as long as the client keeps reading
  (`LinesAnswered`), hang-ups close descriptors
  (`HangupCloses`), a shutdown ends the program (`ShutdownEnds`);
* task queue and pool: head, tail, count and links are one list and own every
  task (`ListShape`), it is a FIFO queue (`ImplementsPool`), no wake-up is
  missing (`WakeupsSuffice`, `TasksTaken`), everybody is joined and everything
  freed at the end (`ShutdownJoins`, `NothingLeft`);
* arrays and list behind slots and registry: they implement two sets
  (`ImplementsSets`), stay in bounds whatever allocation fails (`InBounds`), are
  one list in both directions (`ListIntact`), correspond (`SlotsNameListed`), are
  searched with success (`SearchesFind`), walked safely by `SHARE` (`WalkSafe`)
  and emptied at the end (`NothingForgotten`);
* object tables: no object is forgotten (`NothingLeaks`), an id names one object
  for ever (`IdsNameOne`), a removal takes the client's objects except late ones
  (`OnlyLateObjectsStay`) and no others (`RemovalSparesOthers`), and whatever goes
  wrong takes two threads (`FaultsAreRaces`);
* client: it is the client the server's model assumes (`ImplementsPeer`), its
  handshake and its session end (`HandshakeEnds`, `SessionEnds`), and the server
  closes what it left (`ServerForgets`);
* text: white space is tidied exactly (`SanitiseExact`), client and server cut
  lines alike (`LinesArrive`), a balance is the user's own
  (`BalanceExact`).

## Modules

| module | what it is |
|---|---|
| `AnimateServer` | the server process and its clients |
| `ConnectionLifetime` | abstract: a connection is opened, requests hold and drop it, and once retired it disappears with its last holder |
| `ServerProperties` | what the server promises, and its mapping to `ConnectionLifetime` |
| `ServerInvariant` | why the promises hold: the inductive invariant, part by part |
| `AnimateServer_proofs`, `Connection_proofs`, `Safety_proofs` | the theorems, in this order; each extends the one before |
| `TaskQueue` | `task.c` with the start and the end of the threads, mutex and condition variable included |
| `TaskPool` | abstract: the FIFO queue with workers that `AnimateServer` takes it for |
| `TaskQueueProperties` | what queue and pool promise, and the mapping to `TaskPool` |
| `TaskQueue_proofs` | the theorems about them |
| `ObjectTables`, `ObjectTablesProperties` | `object_table.c`, the RPC bodies of `threadpool.c` and the walk of `client_markdead`; what the tables promise |
| `ObjectTables_proofs` | the theorems about them |
| `SlotsAndList`, `SlotsAndListProperties` | the arrays of `s_helper.c` and the linked list of `client_registry.c`; what main relies on |
| `ClientSets` | abstract: the set of registered clients and the set of polled ones |
| `SlotsAndList_proofs` | the theorems about them |
| `ClientSession`, `ClientSessionProperties` | one client process and the server's half of its handshake; what it does for its user and towards the server |
| `ClientPeer` | abstract: a client as `AnimateServer` has it |
| `ClientSession_proofs` | the theorem that it is one |
| `Lines`, `LinesProperties` | the text algorithms, the way of a line to the server, and reference definitions |
| `Lines_proofs` | the theorems about them |
| `MCAnimateServer`, `MCTaskQueue`, `MCObjectTables`, `MCSlotsAndList`, `MCLines` | model values, symmetry and inputs for TLC |

The models meet in their abstract specifications:

* `AnimateServer` uses the queue as a sequence whose head goes to some worker
  and the pool as workers that leave after `RUNNING` is cleared. `TaskPool` says
  this, and `TaskQueue` implements it.
* `AnimateServer` uses the registry as a set and the poll slots as clients with
  their descriptors. `ClientSets` says what may happen to the two, and
  `SlotsAndList` implements it. What `AnimateServer` says of clients used after
  their release is not repeated there.
* `AnimateServer` lets a client connect, log in, send and leave as `ClientOpen`,
  `ClientSend`, `ClientAuthorised` and `ClientExit` allow. `ClientPeer` says this
  of one client, and `ClientSession` implements it. `ClientSession` has one
  client, so the replies it reads are its own; `AnimateServer` also has the
  stray ones.
* `ConnectionLifetime` is what the registry is for; `AnimateServer` implements it.
* `AnimateServer` sends lines as values and takes the answer of `users.txt` as a
  choice; `Lines` shows that what one side sends is what the other reads, and
  what decides the answer.
* `AnimateServer` knows an RPC by its report alone; `ObjectTables` has what
  happens before it.

### How AnimateServer corresponds to the code

| variable | in the code |
|---|---|
| `running`, `pc`, `budget`, `at`, `ready` | `RUNNING`, the place in `main`, the loop counters, `revents` of the self pipes |
| `heap`, `registry` | every `ActiveClient` by address, the list from `cr_clients` |
| `slots` | `POLLSLOTS` from index 2 on |
| `queue`, `work`, `exited` | `TASK_Q`, the local `task` of each worker, the workers that returned |
| `hsk`, `rpc` | the two self pipes |
| `c2s`, `s2c`, `sfd` | the FIFOs and whether the server has them open; `s2c` keeps every reply, as a history, and the FIFO holds those after the first `read` |
| `stage`, `kind`, `owner`, `result` | how far each request is, and the fields of its `Task` and `TaskResult` |
| `cli`, `sent`, `read` | the client process, the lines it has written and the replies it has read |
| `hasty` | the clients that wrote a line with as many unread replies outstanding as their FIFO holds (ghost) |
| `faults` | the rules of C that the main thread has broken (ghost) |

A request is a pair of a client and a number: 0 for its handshake, n for its
n-th line. Actions are named for what happens: `HskRead` reads a pid and queues
a handshake, `HskOk`, `HskDrop`, `AuthOk`, `AuthReject`, `RpcDone` are the cases
of the `switch` over results, the `Sweep...` actions handle one line or one
hang-up of the slot the sweep has reached, `Dequeue`, `Finish...` and
`WorkerExit` are a worker's steps.

Abstractions:

* The registry lock is only contended by `SHARE`, so one message or one line
  handled by main is one action. Entering poll is separate from testing
  `RUNNING`, which leaves the window in which a shutdown signal is lost.
* A client process connects once, as the repository's client does, and its FIFO
  is named by its pid. Lines are shorter than `PIPE_BUF` and arrive whole.
* A worker's handshake (two opens, then the report) is one step, because the
  server learns of it through the report alone.
* poll reports a hang-up only after a writer has been there: a client that dies
  earlier (`gone`) stays registered, as in the code.
* The server opens the reply FIFO with `O_NONBLOCK` (`threadpool.c:127`, `:135`), and no
  caller looks at what `write_block_pipe` returns. A FIFO holds `ReplyCap` replies;
  `Written` puts a reply into it when it fits and loses it otherwise. A reply is
  shorter than `PIPE_BUF`, so `write` takes it whole or not at all, and replies are
  lost but never cut. The FIFO is counted in replies; the code's is counted in
  bytes, and holds the more of them the shorter they are.
* A reply is written through `client->s2c_fd` after the release. When the release
  has freed the record, that number is closed, or belongs to the FIFO of a client
  whose handshake a worker has just ended: `Reply` drops the reply then, or writes
  it to any client that is `JustOpened`.
* The repository's client leaves after exactly `Disconnect` (`sender.c:24`). The
  server removes it after any line that begins so (`commands.c:30`). After a line
  such as `Disconnect now` a client therefore stays in `rpc`, reads and writes, until
  the server has closed its FIFOs and a write kills it (`AfterLine`).
* Using freed memory is recorded in `faults` and is followed either by business
  as usual or by `pc = "fault"`, after which the server does nothing: both are
  outcomes the build can have. Allocation may hand the address out again.
* The self pipes cannot be closed or partially read while the server holds both
  ends and every write is shorter than `PIPE_BUF`; those branches are left out.
* `OwnClients` says whether peers follow the repository's client (one Login
  first, nothing before its answer) or write what they like.

### How TaskQueue corresponds to the code

| variable | in the code |
|---|---|
| `running` | `RUNNING` |
| `tq_head`, `tq_tail`, `tq_count`, `next` | the queue's members and the member `next` of each `Task` |
| `tq_lock` | the owner of the mutex |
| `heap`, `new` | the tasks `malloc` has given out; `newtask` of `task_enqueue` |
| `pc`, `threads`, `joined` | the main thread, `tpool_threads`, the threads it has joined |
| `wpc`, `task` | the place and the local `task` of each worker |

`CreateThread`, `ArrayFails`, `CreateFails`, `WakeUp`, `Reap`, `ReapEnd` are
`threadpool_init`; `NewTask`, `MainLock`, `Link` are `task_enqueue`; `Lock`,
`Check`, `CondWait`, `Spurious`, `GiveUp`, `Take` are `task_dequeue`; `Routine`
and `FreeTask` the rest of `worker_routine`; `Teardown` to `JoinEnd` are
`threadpool_destroy` and `MainLock("destroy", "clear")`, `Clear` are
`task_destroy`.

* What a thread does while it holds the mutex is one step, apart from the test
  of `RUNNING` before `pthread_cond_wait`: `RUNNING` is written and, in the
  failure path of `threadpool_init`, the condition is broadcast without the
  mutex, so what comes between test and wait matters.
* `Take` and `GiveUp` read `RUNNING` and act on it at once: the test is where
  the dequeue takes effect, and the list cannot change before the unlock.
* `NewTask` does not ask for `RUNNING`: the lines of a client are read without a test
  of it in between (`animate_server.c:315`), so some tasks follow the signal. The
  code has fewer than `FIFO_MAX_PER_WAKE` of them, the model as many as `Task` has
  free addresses.
* `Reap` and `Join` may take the threads in any order; the code joins them by
  index, which waits for the same threads.
* Only what the queue knows of a task is kept. The work on it is the single
  step that frees it.

### How ObjectTables corresponds to the code

`table` holds the three tables with their arrays, counts and capacities, `obj`
the objects of the library in the order they were made, `job` the place and the
locals of each thread, `session` and `dead` the clients by address. One step is
one access to a table or one call of the library, so everything can happen
between a lookup and the use of what it found, and between the lines of
`canvas_insert`. Each `CREATE_`, `DESTROY_`, `PLACEMENT_` command, `PLACE_SPRITE`,
`SET_ANIM_PARAM`, `GENERATE` and `SHARE` is an operator of its own that says where
its job begins; the steps they share (`Lookup`, `Insert`, `Grow`, `Fill`, `Count`,
`Remove`, ...) are actions. `MarkDead`, `Test`, `Disown` are `client_markdead`.

The first access that C gives no meaning to is recorded in `fault`, with the
thread that made it, and nothing is said of what follows. `blame` holds the
tables that have lost their array in a failed growth or have taken two
insertions at once; no promise is made of those, and `FaultsAreRaces` says that
faults come from them, from a released array, or from a thread that was
overtaken (`robbed`).

* `count++` of two threads at once has every outcome the two reads and writes
  can have. The fields of an entry are written in one step.
* A call of the library is one step. It may use the objects it is given.
* An array whose growth failed is out of the table at once and counts as
  released when the table has a new one.
* Numbers in a request are too small, an id, or too large for an `int` (`Span`
  values); the conversion to `int` is what the code does to a `long`.
* A client is recorded in a job only where the handler uses it.

### How SlotsAndList corresponds to the code

Variables have the names of the code's members and locals; `heap` is what
`malloc` has given out, `requests` the references held by requests in flight,
`order` a history variable with the list as a sequence. `CregInsert`, `Insert`,
`Grow`, `GrowClients`, `Place` are `HSK_OK`; `Leave` (the sweep) and `Refuse`
(`AUTH_NO`, `AUTH_UN`) begin a removal; `Find` and `RemoveSlot` are
`server_remove_pollslots`, `MarkDead`, `Lock`, `Seek`, `Unlink`, `Release` are
`creg_remove`; `Teardown`, `Destroy`, `DestroyEnd` the end; `ShareLock`,
`ShareStep`, `ShareEnd` a worker in `SHARE`.

* One step is one turn of a loop, one allocation or one critical section. The
  searches and the walk are steps of their own because others run in between.
* `psize` and `csize` are the sizes the two arrays are really allocated with;
  `capacity` is what the code believes.
* A record's descriptor is different from those of all other records that are
  allocated, because it is open as long as they are.
* A refused client is still registered here. `AnimateServer` has the other case
  and what it leads to (`refused`).

### How ClientSession corresponds to the code

`conn`, `logged`, `retval`, `reader`, `writer` are `CONNECTION_STATE`, `LOGGED_IN`,
`retval`, `S_READ`, `C_WRITE`; `pc` and `inside` say where main is and whether it is
blocked there; `masked`, `pending`, `alarm` are the kernel's; `recv` is the receiver
thread. The server's half is the worker's handshake (`MakeFifos` to `HskReport`)
in the steps between which the client can act, and in outline what the main
loop does with the session afterwards.

* A signal that is not blocked is handled before the next step of main. A
  handled signal ends `open` and `fgets` if main is blocked in them (handlers are
  installed without `SA_RESTART`), unless the receiver thread was given the signal.
  `Block` is apart from the return, so a signal can come just before the call.
* `SIGUSR1` may find the server's pipe full; a result may be lost (`leak`); a
  process may be killed at any step, and a write to a FIFO without reader kills
  the client, which leaves `SIGPIPE` alone.
* The reply FIFO holds `ReplyCap` replies and loses what does not fit (`Says`). A
  client that waits for the answer to its Login then waits on.
* Lines are six kinds, one of them a longer line that begins with Disconnect
  (`Quits`); `Lines` has their text.
* The server's shutdown waits for the thread that does the handshake, as the
  join in `threadpool_destroy` does.

### How Lines corresponds to the code

`Sanitised` works in place, cell by cell (`Turn` is one turn of the loop); `ReadUntilDelim` is the loop up to
`maxlen - 1`; `usertxt_get_balance` follows `fgets` through the file. `Authorise`,
`SendUserInput` and `Sweep` are the two places where the client reads a line and
the one where the server does. `fgets`, `snprintf`, `strtol` and `isspace` are modelled
from their use; a sign before a number is left out (of an entry `bob -5` the code
makes `AUTH_NO`). A `read_until_delim` that
finds no whole line loses what it has read, as in the code.

## Checks

| run | instance | shows |
|---|---|---|
| `core` | 2 clients, 2 addresses, 2 workers, 2 lines each, pipes and reply FIFOs of 2 | `RefcountExact`, `NoDangling`, `SlotsMatchRegistry`, `DescriptorsOwned`, `AuthorisedOnce` for the repository's client, and that `ConnectionLifetime` is implemented |
| `scarce` | 2 clients, 1 address, 1 worker, 3 lines each, pipes and reply FIFOs of 1, allocation may fail, every kind of line | `ServerInv`, the inductive invariant from which the proofs derive the promises of `core`, and `RepliesToIssuer`, under exhaustion, with lost results and replies, stray replies and reused addresses |
| `patient` | 2 clients, 2 workers, 3 lines each, reply FIFOs of 1; clients leave, or write a line the server takes for Disconnect, only when nothing of theirs is pending | `NoFaults`: the use after release in the result handlers is harmless then |
| `pipeline` | 1 client, 4 lines, a reply FIFO of 2, 2 workers, fairness | `RepliesInOrder`, `LinesAnswered`, `HangupCloses`, `ShutdownEnds` |
| `refused` | as `core` | finds that a refused Login releases a reference that is gone |
| `pool` | 3 workers, 3 tasks, threads that cannot be created, tasks after the signal, spurious wake-ups, fairness | `ListShape`, `WakeupsSuffice`, `NothingLeft`, `TasksTaken`, `ShutdownJoins`, and that `TaskPool` is implemented |
| `pool_start` | 2 workers, `pthread_create` fails, fairness | finds that a worker can miss the wake-up of the failure path |
| `tables` | 2 clients that share addresses, 2 workers, up to 2 objects, arrays of 1 that grow, move or cannot grow | `NothingLeaks`, `IdsNameOne`, `OnlyLateObjectsStay`, `RemovalSparesOthers`, `FaultsAreRaces` |
| `orphans` | 1 worker, 1 canvas | finds that a canvas can outlive the removal of its client |
| `client` | 1 client, 3 lines, 1 shutdown signal, 2 retries, a reply FIFO of 1, fairness | `ImplementsPeer`, `HandshakeEnds`, `SessionEnds`, `ServerForgets` |
| `lines` | every text of up to 6 of 5 characters, buffers of 4 and 6 | `SanitiseExact`, `LinesArrive`, `BalanceExact` |
| `structures` | 3 clients, 3 descriptors, arrays from 2 to 8, a walking worker | `InBounds`, `ListIntact`, `SlotsNameListed`, `SearchesFind`, `WalkSafe`, `ImplementsSets`; `NothingForgotten` is proved |

Bounds. Two clients are enough for slots to be swapped, addresses to be reused
and replies to be confused; two workers for results to overtake each other;
three lines for a Login, a call and a Disconnect (or a second Login); budgets
of one make every loop of a wake end early; pipes and reply FIFOs of one or two messages fill
up; with a reply FIFO of one, a client with two lines outstanding is hasty. The
largest spaces are those of `scarce` and `patient`, with 2.7 million distinct states
each, and of `core` with 0.6 million. In the queue, a third task gives the list a middle and a third worker lets
one be busy while another is awake and the last one asleep; tasks are freed and
their addresses come back, so the runs have no last task. In the tables, arrays
of one entry grow with the second object; two threads are what it takes to race,
and the instances (`SmallInstances`) give each kind of race to a state space of
its own. In `structures`, three clients give list and array a first, a middle and
a last member; capacities 2, 4 and 8 are two growths and a refusal. In `lines`, a
text of six characters is cut in a buffer of four twice, and fills the
buffer of `users.txt` with and without its newline. Deadlock is not checked: the
programs end, and poll and the terminal may keep them waiting for ever.

Fairness. `FairSpec` of both systems asks that main and each worker take a step
when one is possible for ever, which is what the operating system's scheduler
gives to threads that can run; clients, operators and spurious wake-ups owe
nothing. Weak fairness is enough for the mutex: a worker that gets it takes a
task when there is one and sleeps when there is none, and after a shutdown
signal nobody comes back to it for ever. `FairSpec` of `ClientSession` asks the
same of the client's main thread, of its receiver, of the clock and of the
server; nobody has to type, to end the input, to send a signal or to stop the
server. In the
liveness runs of the server the result pipe holds every result that can be in
flight: otherwise results are lost and nothing more can be said.

Some properties name their exceptions, because the code has them. They say what
holds outside of these, and do not show the exceptions to be harmless:

* `RepliesToIssuer` and `LinesAnswered`: a client loses replies when it let its
  FIFO run full (`hasty`), after it has hung up, and after it wrote a line that the
  server took for Disconnect (`Dismissed`).
* `RefcountExact`, `NoDangling`, `AuthorisedOnce`, `RepliesInOrder`, most of
  `RepliesToIssuer` and `ImplementsLifetime` are promised as long as replies go
  `Straight`. A stray reply is read by a client as the answer to its Login, and
  what this client writes next is no longer what the repository's client writes.
  `RepliesToIssuer` says where stray replies come from: the use of a freed record,
  and nothing else.
* `ShutdownEnds`: a signal between the test of `RUNNING` and `poll` wakes nobody
  (`animate_server.c:69`).
* `NothingLeft`: the second join of the array that the failure path of
  `threadpool_init` has freed ends in `pc = "fault"`.
* `HandshakeEnds`: the alarm for the two opens can ring before `open` is called
  (`c_helper.c:194`), and a shutdown signal that arrives in `sigsuspend` is taken for
  the server's answer. The client may then wait in `open` until it is killed.
* `SessionEnds`: a server that lost a result, or has none to write, as for
  BARRIER, keeps its end of the FIFO open, and the receiver in `read`; and the
  overwritten shutdown of `HandshakeEnds` (`shutdowns > 0`).
* `ServerForgets`: the server keeps a client that died before it opened its own
  FIFO, because poll reports no hang-up without a writer, and one whose
  reference was lost.
* `OnlyLateObjectsStay`: objects entered by a task that was under way when their
  owner was removed (`orphans`).

Three findings are runs of their own.

`refused` is a disagreement between the code and its comment at
`client_registry.c:72`, "assert refcount > 0": `AUTH_NO` and `AUTH_UN` release
once for the request and once through `creg_remove`, which is right while the
registry's own reference is there. A client that hangs up while its Login is in
flight has been removed already; the first release frees it and the second
decrements freed memory. With `OwnClients` FALSE the same double release breaks
`RefcountExact`, `NoDangling` and `RepliesToIssuer`, whatever replies do, when two pipelined Logins
are both refused; those properties are therefore checked for the repository's
client, which never does that.

`pool_start` is about `threadpool.c:1209`: the failure path of
`threadpool_init` clears `RUNNING` and broadcasts without the mutex. A worker
between its test (`task.c:96`) and its wait (`task.c:97`) misses both and is
never reaped. `threadpool_destroy` broadcasts with the mutex held, and
`ShutdownJoins` confirms that this is enough. The same path has a second fault,
which `TaskQueue` follows into `pc = "fault"`: the array it frees is joined again
by the teardown. No comment or test speaks of it, so it is listed as a hazard.

`orphans` is about `client_registry.c:92`, "destroy all canvas owned by this
client": `client_markdead` walks the tables once, and a `CREATE_CANVAS` that a
worker is still executing enters its canvas afterwards. `OnlyLateObjectsStay` and
`RemovalSparesOthers` say what is true of the removal.

## Proofs

The theorems of the server hold for any finite sets of clients, addresses and
workers and any bounds (`ConstantsAssumption`), those of queue and pool for any
finite sets of workers and tasks (`PoolAssumption`), those of slots and list for
any sets of clients and descriptors and any capacity (`SlotsConstants`), those
of the client for any numbers of retries, lines and signals (`SessionConstants`),
those of the object tables for any finite sets of threads and addresses, any
numbers of clients and objects and any capacity (`TableConstants`; the NULL
pointer is no object or address, and unwritten memory is told apart from
entries: `PointerConstants`), those of the text for any characters, texts of any
length and buffers of at least two characters (`LinesConstants`, where a digit is
no white space; a sign before a number is outside of the model, and the code takes
a negative balance for `AUTH_NO`).

Of the server (`Spec` is `AnimateServer!Spec`):

| theorem | hypothesis | says |
|---|---|---|
| `TypeCorrect` | `Spec` | `[]TypeOK` |
| `Invariance` | `Spec` | `[]IInv` |
| `SlotsCorrect`, `DescriptorsCorrect` | `Spec` | `[]SlotsMatchRegistry`, `[]DescriptorsOwned`, whatever the peers write |
| `ServerInvariance` | `OwnClients`, `Spec` | `[]ServerInv` |
| `RefcountCorrect`, `NothingDangles`, `AuthorisedAtMostOnce`, `RepliesCorrect` | `OwnClients`, `Spec` | `[]RefcountExact`, `[]NoDangling`, `[]AuthorisedOnce`, `[]RepliesToIssuer` |
| `LifetimeRefined` | `OwnClients`, `Spec` | `ImplementsLifetime`: the registry implements `ConnectionLifetime` |
| `OrderInvariance`, `OrderCorrect` | `OwnClients`, `Spec` | `[](Straight => OrderInv)`, `[]RepliesInOrder` |
| `PatientSafe` | `OwnClients`, `Patient`, `Spec` | `[]NoFaults` |

`OwnClients` is a constant of the model and the hypothesis says that the peers
are the repository's client; `refused` and its discussion above show why it is
needed. `Patient` says that clients leave only when nothing of theirs is
pending; without it the main loop does use records it has freed. The theorems
include lost results, full reply FIFOs of any size, clients that the server
removes while they go on writing, failing allocations and reused addresses. But
for `NoFaults`, the promises to the repository's client hold as long as replies go
`Straight` (the condition is part of each), and `ServerInv` says that it takes a
use of freed memory to send one astray.

No promise is inductive alone. The argument, in the order of the modules:

1. `IInv`. `Pipeline`: each request is in the one place its `stage` names, once,
   so nothing is handled twice. `SignalsOnce` and `Numbered` tie requests to
   clients. `OneRecord`: a client has one record at most, from the end of its
   handshake on. With these, each step keeps `SlotsMatchRegistry` and
   `DescriptorsOwned`: a slot is removed with its record, a descriptor that a
   handler closes is still the client's.
2. `OwnInv` adds what the login protocol gives: a refusal is the result of the
   first line (`LoginFirst`), so the client has no other request in flight, and
   the two releases of `AUTH_NO` meet the registration and the request
   (`References`, `CountsExact`). `TasksHeld`, `Ended` and `ResultKinds` say
   that references are counted at exactly one holder until the program ends.
3. `ReplyInv` adds what replies need. `Metered`: what a client has read was
   written, and one that is not hasty has at most `ReplyCap` lines without a reply
   it has read, so the next reply fits (`ReplyRoom`). `RemovedGone`: a removed client
   has hung up or was dismissed, so a result that finds its record freed is not
   one the client can count on. From both follows `Answered`. `SlotsOpen` says that
   the sweep meets no closed descriptor. `OpenRegistered` is for the refinement: the
   teardown destroys what is registered, and a record outside the registry that
   was not dead would stay in service for `ConnectionLifetime` when the program
   ends.
4. `ServerInv` puts the two halves together. A reply can go astray only in a step
   that uses a freed record (`StraightStep`), and what has gone astray stays in
   the history (`StraightKept`), as faults do (`FaultsKept`); so `ReplyInv` has to be
   kept only by steps that begin and end with all replies straight.
5. `OrderInv` follows the lines of one client through the server. An open FIFO
   holds every unread line, oldest first (`FifoOrder`), so a line is read after
   all before it (`ReadInOrder`) and taken from the queue likewise
   (`TakenInOrder`). When a worker reports a line, the earlier ones that have not
   been reported are therefore with other workers, one each: fewer than there
   are workers (`FewLate`). The set of those that can still fall behind it
   (`Late`) only shrinks afterwards, because results and replies are appended.
6. `PatientInv` adds what patience gives: a line that the server takes for
   Disconnect is behind lines that have been dealt with (`QuitAlone`), a client that
   has hung up has nothing else on its way (`ClosedSettled`), and so a client is
   removed when nothing holds it and freed at once (`NoneDead`). No record is
   waiting for its last release then, the release in a result handler frees
   nothing, and replies cannot go astray.

Of slots and list (`SlotsAndList_proofs`, `Spec` is `SlotsAndList!Spec`):

| theorem | says |
|---|---|
| `Invariance`, `TypeCorrect` | `[]IInv`, `[]TypeOK` |
| `ArraysInBounds`, `ListWhole`, `SlotsListed` | `[]InBounds`, `[]ListIntact`, `[]SlotsNameListed` |
| `RemovalsFind`, `WalksSafe`, `AllDestroyed` | `[]SearchesFind`, `[]WalkSafe`, `[]NothingForgotten` |
| `Refinement` | `Spec => ImplementsSets`: arrays and list implement the two sets |

Its invariant adds to the promises what they need of each other. `Bounds` says
what growth has established between its two allocations. `Links` is the list as
the sequence `order`, in both directions, which makes `Unlink` a removal from a
sequence. `Records`: a record is allocated as long as the registry or a request
refers to it, its count says so, and descriptors of allocated records differ;
from this the search by descriptor finds the right slot. `Work`: the client main
removes is in the list, at or behind the place of the search. `Locking`: the
walker's record is in the list as long as it holds the lock. No other part
follows without these, which is why the promises are proved together.

Of queue and pool (`TaskQueue_proofs`, `Spec` is `TaskQueue!Spec`):

| theorem | says |
|---|---|
| `Invariance` | `[]IInv` |
| `ListCorrect`, `WakeupsCorrect`, `NothingLeftCorrect` | `[]ListShape`, `[]WakeupsSuffice`, `[]NothingLeft` |
| `Refinement` | `Spec => ImplementsPool`: the queue under its mutex is a FIFO queue |

Its invariant: `List`, head, tail, count and links are those of one sequence
without repetitions; `Places`, each allocated task is in it, with one worker or
on its way in; `Mutex`, who holds the lock, and that the queue is empty while a
worker that saw it empty is about to wait; `Threads`, which of them exist, have
left and are joined. `WakeupsSuffice` is inductive with these: a signal is sent
with each task, and a worker that goes to sleep leaves an empty queue. The
sequence is read off the links by recursion (`ListFrom`); that two lists with the
same links are the same is proved by the least place at which they differ
(`Least`, `NodesUnique`).

Of the client (`ClientSession_proofs`, `Spec` is `ClientSession!Spec`):

| theorem | says |
|---|---|
| `TypeCorrect`, `Invariance` | `[]TypeOK`, `[]SessionInv` |
| `Refinement` | `Spec => ImplementsPeer`: the client is the peer `AnimateServer` has |

The mapping computes the state of the peer from the place of the main thread
and from its two descriptors. `EndsAt` says which of them are open at which
place, so that a signal, a failure or `SIGKILL` anywhere is one `Exit`, or
nothing that the server can know. `LetInFirst` ties the two programs together: a
yes in the reply FIFO, and a client that has taken it, mean that the server let
the client in; and a client that has not said Login has no line and no task.

Of the object tables (`ObjectTables_proofs`, `Spec` is `ObjectTables!Spec`):

| theorem | says |
|---|---|
| `Invariance` | `[]IInv` |
| `FaultsRaces` | `[]FaultsAreRaces`: no handler breaks a rule of C by itself |
| `NothingLeaked`, `IdsCorrect`, `OnlyLateStay` | `[]NothingLeaks`, `[]IdsNameOne`, `[]OnlyLateObjectsStay` |
| `OthersSpared` | `RemovalSparesOthers` |

Like the promises, most of its invariant is about tables that are not to blame
(`Clean`): the code keeps nothing of it once a table lost its array or two
workers inserted at once. `Alone` is what is left of a lock then: one worker at
a time between the test for room and `count++`. From it follow `Array` (indices
below the count are inside the array and written) and `Entered` (the new entry
is at the count). `NamedOnce` and `Living` tie objects to entries in both
directions, with one gap on either side: an object that is about to be entered,
and one that a removal has destroyed and not yet taken out of its entry. `Removing`
says that behind every such gap there is one thread, which closes it; `Pointers`,
that a thread which nobody overtook since its lookup (`robbed`) still has a live
object. `Owners` is the walk of `client_markdead`: entries it has passed belong
to other clients or were entered late. `Shape` and `Apart` bind what a job holds
to its place. A step disturbs at most one entry of one table: `OtherTable` is the
frame for the rest, and `EntryChanges` the lemma that all removals and shares
share; each action has three lemmas on top, what it changes, the jobs after it,
and the tables after it. TLC found no state of the instances of `tables` that
violates a part of the invariant.

The proof modules state once what the operators on heap, slots, pipes and
outstanding requests return; each action then has one step per conjunct it can
disturb.

Of the text (`Lines_proofs`, `Spec` is `Lines!Spec`):

| theorem | says |
|---|---|
| `SanitisedIsJoined` | `Sanitised(str) = Joined(str)` for every text |
| `SanitisedAlwaysExact` | `[]SanitiseExact` |
| `LinesAlwaysArrive` | `[]LinesArrive` |
| `BalanceFound` | `usertxt_get_balance` decides by the first entry for the name, for a name of any length |
| `BalanceAlwaysExact` | `[]BalanceExact` |

`Joined` picks places out of a text and says nothing of a loop. `Tidied` ties the
two: after r turns the cells below `w` are what `Joined` keeps of the first r
places, the cells from r on are untouched, and `w` is at most r, or r - 1 while a
blank is owed, so neither of the two writes of a turn reaches a cell that has not
been read. The induction over the turns is done by hand, by the first turn after
which `Tidied` would fail (`LeastElement`), because the library's induction
theorems take an operator, which the installed provers cannot instantiate.

The invariant of the way of a line is `Forms`, `Behind` and `Whole`. `Behind`: the
server has read, apart from empty lines, the first d of the lines that were sent,
and the pipe is cut into the others (`Framed`): each is there with its newline,
or fills the buffer and has none, and before them there may be the newline of a
line that filled the buffer to the last character, which is read as an empty
line. `Framed` is kept by every write (`SendFramed`), because both buffers of the
client leave what the server's limit leaves (`SnprintfMessage`), and by every read
(`SweepFramed`), because the limit is reached exactly where no newline comes
first. `Whole` is for lines that fit: what has been read ends at the end of a
line, and what was sent for it are the lines that began there (`ReadWhole`).

The search in users.txt is a loop over what `fgets` returns, and its answer a
function of the place that was reached (`SearchExists` shows that there is such a
function, `SearchIs` that the model's is it). If the lines fit, each turn takes
one line (`ReadWhole` again), and `LineDecides`: either it is an entry for the
name and the loop stops with what the entry says, or it is none and the first
entry is behind it. For this the tidied line is compared with the words of the
line (`LineAlike`): it is empty, or one word, or begins with the first two with
one blank between, so the name matches where it is all of the first word
(`NameTwo`, `NameOne`) and `strtol`, which starts right behind the name and passes
over the blank, reads what it would read of the second word by itself
(`StrtolBehind`). `SearchedIs` goes through the lines from the last that could be
wrong, by hand as above. What the digits are worth is left alone: both sides take
`Value` of the same digits.

Model-checked only:

* Liveness, in all modules: fairness and ENABLED are out of the prover's reach.

## Not modelled

* The start procedures of both programs up to the loop and the handshake:
  arguments, pipes, first allocations and handlers are set up, or the program
  ends, before anything runs beside it.
* `write_blob`, `read_blob`, `write_nonblock_pipe` and `usertxt_check`: nothing calls
  them; the call of the last in `main` is commented out.
* What `libanimate` does inside a call, and the files GENERATE writes. Its loop
  over frames is one step.
* The modes of the FIFOs, and with them the `umask` two workers change at once.
* The text of replies, logging (`dbg.c`), error messages (`errors.c`) and the
  build: they hold no state anything reads.
