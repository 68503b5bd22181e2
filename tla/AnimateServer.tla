--------------------------- MODULE AnimateServer ---------------------------
(***************************************************************************)
(* The server process of animate_server: the poll loop of main, the        *)
(* registry of active clients with its reference counts, the task queue    *)
(* and its worker threads, the two self pipes through which the SIGUSR1    *)
(* handler and the workers report to the loop, and the poll slots; with    *)
(* the clients that connect, send lines, hang up and die.                  *)
(*                                                                         *)
(* The main thread is the only one that touches the registry, the poll     *)
(* slots and the reference counts, so one message or one line handled by   *)
(* it is one action; a worker touches the queue when it takes a task and   *)
(* the result pipe when it has finished one, so each of these is an        *)
(* action.                                                                 *)
(***************************************************************************)
EXTENDS Integers, Sequences, FiniteSets, SequencesExt

CONSTANTS
    Pid,        \* client processes; every one connects at most once
    Addr,       \* addresses malloc can give an ActiveClient
    Worker,     \* the threads of the pool
    None,       \* no client, no task, no result
    MaxSend,    \* bound on the lines a client writes
    Commands,   \* the kinds of line clients write
    HskCap,     \* pids the handshake self pipe can hold
    RpcCap,     \* results the RPC self pipe can hold
    ReplyCap,   \* replies a client's FIFO can hold
    HSK_MAX_PER_WAKE, RPC_MAX_PER_WAKE, FIFO_MAX_PER_WAKE,
    AllocMayFail,   \* malloc and realloc may return NULL
    OwnClients,     \* the peers are the client program of the repository:
                    \* one Login first, nothing more before its answer
    Patient         \* clients leave only when nothing of theirs is pending

Results == {"AUTH_OK", "AUTH_NO", "AUTH_UN", "RPC_DONE"}
LineKinds == {"AUTHORISE", "RPC", "BARRIER", "DISCONNECT", "UNKNOWN"}

\* A request is named by the client that caused it and a number: 0 is the
\* handshake, n > 0 the n-th line the client writes.
Req == Pid \X (0..MaxSend)
PidOf(r) == r[1]

ASSUME ConstantsAssumption ==
    /\ IsFiniteSet(Pid) /\ IsFiniteSet(Addr) /\ IsFiniteSet(Worker)
    /\ Commands \subseteq LineKinds
    /\ MaxSend \in Nat /\ HskCap \in Nat /\ RpcCap \in Nat
    /\ ReplyCap \in Nat
    /\ HSK_MAX_PER_WAKE \in Nat \ {0}
    /\ RPC_MAX_PER_WAKE \in Nat \ {0}
    /\ FIFO_MAX_PER_WAKE \in Nat \ {0}
    /\ {AllocMayFail, OwnClients, Patient} \subseteq BOOLEAN
    /\ None \notin Pid \cup Addr \cup Req \cup Results

VARIABLES
    running,    \* RUNNING
    pc,         \* where the main thread is
    budget,     \* messages or lines main may still take in this phase
    at,         \* i of the sweep over the client slots
    ready,      \* revents of the two self pipes
    heap,       \* the ActiveClient records, by address
    registry,   \* the addresses linked from cr_clients
    slots,      \* POLLSLOTS without the two self pipes
    stage,      \* how far every request has come
    kind,       \* what it asks for: HANDSHAKE, or the kind of its line
    owner,      \* the client its task and its result point to
    result,     \* the type of the result its worker reported
    queue,      \* TASK_Q
    work,       \* the task each worker holds
    exited,     \* the workers that have left worker_routine
    hsk,        \* the pids in the handshake self pipe
    rpc,        \* the results in the RPC self pipe
    cli,        \* the state of each client process
    sent,       \* lines each client has written
    read,       \* replies each client has read
    hasty,      \* clients that wrote a line with ReplyCap lines before it
                \* whose replies they had not read (kept for the properties)
    c2s,        \* the FIFO from each client
    s2c,        \* every reply written to a client, in order: its FIFO
                \* holds those it has not read
    sfd,        \* the server has this client's FIFOs open
    faults      \* rules of C the main thread has broken

mainVars   == <<running, pc, budget, at, ready>>
connVars   == <<heap, registry, slots, sfd, faults>>
reqInfo    == <<kind, owner, result>>
reqVars    == <<stage, reqInfo>>
poolVars   == <<queue, work, exited>>
pipeVars   == <<hsk, rpc>>
clientVars == <<cli, sent, read, hasty>>
fifoVars   == <<c2s, s2c>>
vars == <<running, pc, budget, at, ready, heap, registry, slots, stage, kind,
          owner, result, queue, work, exited, hsk, rpc, cli, sent, read,
          hasty, c2s, s2c, sfd, faults>>
-----------------------------------------------------------------------------
Freed == [alloc |-> FALSE, pid |-> None, refcount |-> 0,
          dead |-> FALSE, logged_in |-> FALSE]

ActiveClient ==
    [alloc : BOOLEAN, pid : Pid \cup {None}, refcount : Int,
     dead : BOOLEAN, logged_in : BOOLEAN]

\* "sent" waits in the client's FIFO; "lost" is a task or a result nobody
\* will ever answer; "done" has been answered, refused or ignored.
Stages == {"none", "sent", "queued", "running", "piped", "lost", "done"}

\* Stages in which a request holds a reference to the client it names.
Holding == {"queued", "running", "piped", "lost"}

Slot == [fd : Pid, client : Addr, rev : {"none", "in", "err"}]

\* The client process: before the handshake, waiting for SIGUSR2, with the
\* reply FIFO open, with both FIFOs open (not logged in, Login sent, logged
\* in), with its writer closed, and dead before it ever opened a writer.
CliStates == {"idle", "syn", "half", "login", "waiting", "rpc",
              "closed", "gone"}
Reading == {"half", "login", "waiting", "rpc"}
Writing == {"login", "waiting", "rpc"}

TypeOK ==
    /\ running \in BOOLEAN
    /\ pc \in {"check", "enter", "poll", "hsk", "rpc", "sweep", "teardown",
               "done", "fault"}
    /\ budget \in Nat /\ at \in Nat \ {0}
    /\ ready \in [hsk : BOOLEAN, rpc : BOOLEAN]
    /\ heap \in [Addr -> ActiveClient]
    /\ registry \subseteq Addr
    /\ slots \in Seq(Slot)
    /\ stage \in [Req -> Stages]
    /\ kind \in [Req -> LineKinds \cup {"HANDSHAKE"}]
    /\ owner \in [Req -> Addr \cup {None}]
    /\ result \in [Req -> Results \cup {None}]
    /\ queue \in Seq(Req)
    /\ work \in [Worker -> Req \cup {None}]
    /\ exited \subseteq Worker
    /\ hsk \in Seq(Pid)
    /\ rpc \in Seq(Req)
    /\ cli \in [Pid -> CliStates]
    /\ sent \in [Pid -> 0..MaxSend] /\ read \in [Pid -> Nat]
    /\ hasty \subseteq Pid
    /\ c2s \in [Pid -> Seq(Req)]
    /\ s2c \in [Pid -> Seq(Req)]
    /\ sfd \in [Pid -> BOOLEAN]
    /\ faults \subseteq {"use_after_free", "refcount_underflow"}

Init ==
    /\ running = TRUE /\ pc = "check" /\ budget = 0 /\ at = 1
    /\ ready = [hsk |-> FALSE, rpc |-> FALSE]
    /\ heap = [a \in Addr |-> Freed]
    /\ registry = {} /\ slots = <<>>
    /\ stage = [r \in Req |-> "none"] /\ kind = [r \in Req |-> "HANDSHAKE"]
    /\ owner = [r \in Req |-> None] /\ result = [r \in Req |-> None]
    /\ queue = <<>> /\ work = [w \in Worker |-> None] /\ exited = {}
    /\ hsk = <<>> /\ rpc = <<>>
    /\ cli = [p \in Pid |-> "idle"] /\ sent = [p \in Pid |-> 0]
    /\ read = [p \in Pid |-> 0] /\ hasty = {}
    /\ c2s = [p \in Pid |-> <<>>] /\ s2c = [p \in Pid |-> <<>>]
    /\ sfd = [p \in Pid |-> FALSE]
    /\ faults = {}
-----------------------------------------------------------------------------
(* client_registry.c *)

\* client->refcount += n.
Refs(c, n) == [c EXCEPT !.refcount = @ + n]

\* Deviations of creg_release_client: the count is not looked at; the dead
\* flag is, but nothing is freed.
Released_Eager(h, a) ==
    IF ~h[a].alloc THEN h
    ELSE IF h[a].dead THEN [h EXCEPT ![a] = Freed]
         ELSE [h EXCEPT ![a] = Refs(@, -1)]
Released_NeverFrees(h, a) ==
    IF h[a].alloc THEN [h EXCEPT ![a] = Refs(@, -1)] ELSE h

\* creg_release_client: the last reference to a dead client frees it.
Released(h, a) ==
    IF ~h[a].alloc THEN h
    ELSE IF h[a].dead /\ h[a].refcount = 1 THEN [h EXCEPT ![a] = Freed]
         ELSE [h EXCEPT ![a] = Refs(@, -1)]

\* Deviation: the task is queued without a reference.
Acquired_NoCount(h, a) == h

\* creg_acquire_client, for a client that is not dead.
Acquired(h, a) == [h EXCEPT ![a] = Refs(@, 1)]

\* creg_remove: client_markdead, creg_unlink (registry), release.
Removed(h, a) ==
    IF h[a].alloc
    THEN Released([h EXCEPT ![a] = [@ EXCEPT !.dead = TRUE]], a) ELSE h

\* Deviation: the record is freed and its descriptors stay open.
FreeClients_NoClose(h, lines) == heap' = h /\ c2s' = lines /\ UNCHANGED sfd

\* destroy_client_pipes, for every client that h frees: both descriptors
\* are closed and what the client has written is dropped.
FreeClients(h, lines) ==
    LET open(p) == /\ sfd[p]
                   /\ \A a \in Addr : heap[a].alloc /\ heap[a].pid = p
                                         => h[a].alloc
    IN /\ heap' = h
       /\ sfd' = [p \in Pid |-> open(p)]
       /\ c2s' = [p \in Pid |-> IF open(p) THEN lines[p] ELSE <<>>]
-----------------------------------------------------------------------------
(* s_helper.c: poll slots and signal handlers *)

\* Deviation: the descriptor of the last slot is copied, its client is not.
WithoutSlot_FdOnly(s, fd) ==
    [j \in 1..Len(s) - 1 |->
        IF s[j].fd = fd THEN [s[Len(s)] EXCEPT !.client = s[j].client]
        ELSE s[j]]

\* Deviation: the search stops one slot early.
WithoutSlot_SearchShort(s, fd) ==
    LET i == SelectInSeq(s, LAMBDA e : e.fd = fd)
    IN IF i \in {0, Len(s)} THEN s
       ELSE [j \in 1..Len(s) - 1 |-> IF j = i THEN s[Len(s)] ELSE s[j]]

\* server_remove_pollslots: the last slot takes the place of the first one
\* with this descriptor.
WithoutSlot(s, fd) ==
    LET match == {i \in 1..Len(s) : s[i].fd = fd}
        i     == CHOOSE m \in match : \A j \in match : m <= j
    IN IF match = {} THEN s
       ELSE [j \in 1..Len(s) - 1 |-> IF j = i THEN s[Len(s)] ELSE s[j]]

\* What poll reports: a closed descriptor, something to read or a writer
\* that was there and has closed, or nothing.
Revents(p) ==
    IF ~sfd[p] THEN "err"
    ELSE IF c2s[p] # <<>> \/ cli[p] = "closed" THEN "in" ELSE "none"

SomethingReady == hsk # <<>> \/ rpc # <<>>
                     \/ \E i \in DOMAIN slots : Revents(slots[i].fd) # "none"

\* sigusr1_handler: runs on the main thread whatever it is doing, drops the
\* pid when the pipe is full, and makes a poll that sleeps return EINTR.
Sigusr1(p) ==
    /\ cli[p] = "idle" /\ pc \notin {"done", "fault"}
    /\ cli' = [cli EXCEPT ![p] = "syn"]
    /\ hsk' = IF Len(hsk) < HskCap THEN Append(hsk, p) ELSE hsk
    /\ pc' = IF pc = "poll" THEN "check" ELSE pc
    /\ UNCHANGED <<running, budget, at, ready, connVars, reqVars, poolVars,
                   rpc, sent, read, hasty, fifoVars>>

\* shutdown_handler.
SigShutdown ==
    /\ running /\ pc # "fault"
    /\ running' = FALSE
    /\ pc' = IF pc = "poll" THEN "check" ELSE pc
    /\ UNCHANGED <<budget, at, ready, connVars, reqVars, poolVars, pipeVars,
                   clientVars, fifoVars>>
-----------------------------------------------------------------------------
(* The main thread: while (RUNNING), poll *)

Check ==
    /\ pc = "check"
    /\ pc' = IF running THEN "enter" ELSE "teardown"
    /\ UNCHANGED <<running, budget, at, ready, connVars, reqVars, poolVars,
                   pipeVars, clientVars, fifoVars>>

\* poll finds nothing ready and sleeps. A signal between the test of RUNNING
\* and this point interrupts nothing.
PollSleep ==
    /\ pc = "enter" /\ ~SomethingReady
    /\ pc' = "poll"
    /\ UNCHANGED <<running, budget, at, ready, connVars, reqVars, poolVars,
                   pipeVars, clientVars, fifoVars>>

PollReturn ==
    /\ pc \in {"enter", "poll"} /\ SomethingReady
    /\ pc' = "hsk" /\ budget' = HSK_MAX_PER_WAKE
    /\ ready' = [hsk |-> hsk # <<>>, rpc |-> rpc # <<>>]
    /\ slots' = [i \in DOMAIN slots |->
                    [slots[i] EXCEPT !.rev = Revents(slots[i].fd)]]
    /\ UNCHANGED <<running, at, heap, registry, sfd, faults, reqVars,
                   poolVars, pipeVars, clientVars, fifoVars>>
-----------------------------------------------------------------------------
(* The main thread: handshake requests *)

\* task_enqueue links the task behind tq_tail. Deviations: in front of
\* tq_head; nowhere when there is a tail already.
TaskPut_Front(q, r) == <<r>> \o q
TaskPut_Unlinked(q, r) == IF q = <<>> THEN <<r>> ELSE q
TaskPut(q, r) == Append(q, r)

MoreHsk == running /\ ready.hsk /\ budget > 0 /\ hsk # <<>>

HskRead ==
    /\ pc = "hsk" /\ MoreHsk
    /\ LET r == <<Head(hsk), 0>>
       IN \/ /\ queue' = TaskPut(queue, r)
             /\ stage' = [stage EXCEPT ![r] = "queued"]
          \/ /\ AllocMayFail
             /\ stage' = [stage EXCEPT ![r] = "done"]
             /\ UNCHANGED queue
    /\ hsk' = Tail(hsk) /\ budget' = budget - 1
    /\ UNCHANGED <<running, pc, at, ready, connVars, reqInfo, work, exited,
                   rpc, clientVars, fifoVars>>

HskEnd ==
    /\ pc = "hsk" /\ ~MoreHsk
    /\ pc' = "rpc" /\ budget' = RPC_MAX_PER_WAKE
    /\ UNCHANGED <<running, at, ready, connVars, reqVars, poolVars, pipeVars,
                   clientVars, fifoVars>>
-----------------------------------------------------------------------------
(* The main thread: results of the workers *)

\* Deviation: the loop is not bounded by RPC_MAX_PER_WAKE.
MoreRpc_Unbounded == running /\ ready.rpc /\ rpc # <<>>
MoreRpc == running /\ ready.rpc /\ budget > 0 /\ rpc # <<>>

\* One TaskResult r has been read from the pipe.
TakeResult(r) ==
    /\ pc = "rpc" /\ MoreRpc /\ r = Head(rpc)
    /\ rpc' = Tail(rpc) /\ budget' = budget - 1
    /\ stage' = [stage EXCEPT ![r] = "done"]
    /\ UNCHANGED <<running, at, ready, reqInfo, poolVars, hsk, clientVars>>

\* Deviation: a FIFO with room for one more reply counts as full.
Written_OneLess(q, r) ==
    IF cli[q] \in Reading /\ Len(s2c[q]) - read[q] + 1 < ReplyCap
    THEN [s2c EXCEPT ![q] = Append(@, r)] ELSE s2c

\* The write end is non-blocking: a reply fits as a whole into the FIFO of a
\* client that reads, or is lost, unnoticed.
Written(q, r) ==
    IF cli[q] \in Reading /\ Len(s2c[q]) - read[q] < ReplyCap
    THEN [s2c EXCEPT ![q] = Append(@, r)] ELSE s2c

\* A worker has just opened the FIFOs of q, perhaps with the number of a
\* descriptor that has been closed since it was last looked at.
JustOpened(q) == sfd[q] /\ stage[<<q, 0>>] \in {"piped", "lost"}

\* The write to s2c_fd after the reference is gone. The s2c_fd of a record
\* that has been freed, as h says, is closed, or another client's.
Reply(h, a, r) ==
    \/ h[a].alloc /\ s2c' = Written(h[a].pid, r)
    \/ ~h[a].alloc /\ UNCHANGED s2c
    \/ ~h[a].alloc /\ \E q \in Pid : JustOpened(q) /\ s2c' = Written(q, r)

\* Reading or writing freed memory may go unnoticed or end the program; the
\* server does nothing more after the second.
Touch(h, a, others) ==
    IF h[a].alloc THEN UNCHANGED <<pc, faults>>
    ELSE /\ faults' = faults \cup {"use_after_free"} \cup others
         /\ pc' \in {pc, "fault"}

\* HSK_OK, creg_insert and server_insert_pollslots succeed.
HskOk(r, a) ==
    /\ TakeResult(r) /\ kind[r] = "HANDSHAKE"
    /\ ~heap[a].alloc
    /\ heap' = [heap EXCEPT ![a] = [alloc |-> TRUE, pid |-> PidOf(r),
                                    refcount |-> 1, dead |-> FALSE,
                                    logged_in |-> FALSE]]
    /\ registry' = registry \cup {a}
    /\ slots' = Append(slots, [fd |-> PidOf(r), client |-> a, rev |-> "none"])
    /\ UNCHANGED <<pc, sfd, faults, fifoVars>>

\* HSK_OK, one of them fails: the connection is dropped straight away.
HskDrop(r) ==
    /\ TakeResult(r) /\ kind[r] = "HANDSHAKE"
    /\ AllocMayFail \/ \A a \in Addr : heap[a].alloc
    /\ sfd' = [sfd EXCEPT ![PidOf(r)] = FALSE]
    /\ c2s' = [c2s EXCEPT ![PidOf(r)] = <<>>]
    /\ UNCHANGED <<pc, heap, registry, slots, faults, s2c>>

\* client->logged_in = 1. Deviation: it is forgotten.
LoggedIn_Never(h, a) == h
LoggedIn(h, a) ==
    IF h[a].alloc THEN [h EXCEPT ![a] = [@ EXCEPT !.logged_in = TRUE]] ELSE h

\* AUTH_OK: release, then the user name, the balance and logged_in.
AuthOk(r) ==
    /\ TakeResult(r) /\ result[r] = "AUTH_OK"
    /\ LET a == owner[r]
           h == Released(heap, a)
       IN /\ FreeClients(LoggedIn(h, a), c2s)
          /\ Reply(h, a, r)
          /\ Touch(h, a, {})
    /\ UNCHANGED <<registry, slots>>

\* AUTH_NO and AUTH_UN: release, then take the client out of the poll slots,
\* refuse it, sleep a second and remove it, which releases once more.
AuthReject(r) ==
    /\ TakeResult(r) /\ result[r] \in {"AUTH_NO", "AUTH_UN"}
    /\ LET a == owner[r]
           h == Released(heap, a)
       IN /\ FreeClients(Removed(h, a), c2s)
          /\ slots' = IF h[a].alloc THEN WithoutSlot(slots, h[a].pid)
                      ELSE slots
          /\ registry' = registry \ {a}
          /\ Reply(h, a, r)
          /\ Touch(h, a, {"refcount_underflow"})

\* RPC_DONE: release, then write the values to s2c_fd.
RpcDone(r) ==
    /\ TakeResult(r) /\ result[r] = "RPC_DONE"
    /\ LET a == owner[r]
           h == Released(heap, a)
       IN /\ FreeClients(h, c2s)
          /\ Reply(h, a, r)
          /\ Touch(h, a, {})
    /\ UNCHANGED <<registry, slots>>

RpcEnd ==
    /\ pc = "rpc" /\ ~MoreRpc
    /\ pc' = "sweep" /\ at' = 1 /\ budget' = FIFO_MAX_PER_WAKE
    /\ UNCHANGED <<running, ready, connVars, reqVars, poolVars, pipeVars,
                   clientVars, fifoVars>>
-----------------------------------------------------------------------------
(* The main thread: the sweep over the client slots *)

\* RUNNING is tested before a slot, not between the lines of one.
AtSlot == /\ pc = "sweep" /\ at <= Len(slots)
          /\ running \/ budget < FIFO_MAX_PER_WAKE

\* Some line of the slot may still be read.
AtLine == AtSlot /\ slots[at].rev = "in" /\ budget > 0

\* Nothing reported, no line left, or enough lines for this wake.
SweepNext ==
    /\ AtSlot
    /\ LET p == slots[at].fd
       IN \/ slots[at].rev = "none"
          \/ /\ slots[at].rev = "in"
             /\ budget = 0 \/ (c2s[p] = <<>> /\ cli[p] # "closed")
    /\ at' = at + 1 /\ budget' = FIFO_MAX_PER_WAKE
    /\ UNCHANGED <<running, pc, ready, connVars, reqVars, poolVars, pipeVars,
                   clientVars, fifoVars>>

\* to_remove: the slot goes, the client is removed, the sweep stays at i.
RemoveSwept(lines) ==
    LET a == slots[at].client
    IN /\ slots' = WithoutSlot(slots, slots[at].fd)
       /\ registry' = registry \ {a}
       /\ FreeClients(Removed(heap, a), lines)
       /\ budget' = FIFO_MAX_PER_WAKE
       /\ UNCHANGED at

\* An error on the descriptor, or a writer that has closed.
SweepHangup ==
    /\ AtSlot
    /\ \/ slots[at].rev = "err"
       \/ /\ AtLine
          /\ c2s[slots[at].fd] = <<>> /\ cli[slots[at].fd] = "closed"
    /\ RemoveSwept(c2s)
    /\ UNCHANGED <<running, pc, ready, faults, reqVars, poolVars, pipeVars,
                   clientVars, s2c>>

\* handle_command, the lines that become tasks: a reference is taken, then
\* the task is queued; a task_enqueue that fails is not noticed.
SweepTask ==
    /\ AtLine /\ c2s[slots[at].fd] # <<>>
    /\ LET p == slots[at].fd
           a == slots[at].client
           r == Head(c2s[p])
       IN /\ kind[r] \in {"AUTHORISE", "RPC", "BARRIER"}
          /\ ~(kind[r] = "AUTHORISE" /\ heap[a].logged_in)
          /\ ~heap[a].dead
          /\ heap' = Acquired(heap, a)
          /\ owner' = [owner EXCEPT ![r] = a]
          /\ c2s' = [c2s EXCEPT ![p] = Tail(@)]
          /\ \/ /\ queue' = TaskPut(queue, r)
                /\ stage' = [stage EXCEPT ![r] = "queued"]
             \/ /\ AllocMayFail
                /\ stage' = [stage EXCEPT ![r] = "lost"]
                /\ UNCHANGED queue
    /\ budget' = budget - 1
    /\ UNCHANGED <<running, pc, at, ready, registry, slots, sfd, faults, kind,
                   result, work, exited, pipeVars, clientVars, s2c>>

\* handle_command returns 1: Disconnect, or a task for a dead client.
SweepQuit ==
    /\ AtLine /\ c2s[slots[at].fd] # <<>>
    /\ LET p == slots[at].fd
           a == slots[at].client
           r == Head(c2s[p])
       IN /\ \/ kind[r] = "DISCONNECT"
             \/ /\ heap[a].dead /\ kind[r] # "UNKNOWN"
                /\ ~(kind[r] = "AUTHORISE" /\ heap[a].logged_in)
          /\ stage' = [stage EXCEPT ![r] = "done"]
          /\ RemoveSwept([c2s EXCEPT ![p] = Tail(@)])
    /\ UNCHANGED <<running, pc, ready, faults, reqInfo, poolVars, pipeVars,
                   clientVars, s2c>>

\* handle_command does nothing: an unknown line, or a second Login.
SweepIgnore ==
    /\ AtLine /\ c2s[slots[at].fd] # <<>>
    /\ LET p == slots[at].fd
           r == Head(c2s[p])
       IN /\ \/ kind[r] = "UNKNOWN"
             \/ kind[r] = "AUTHORISE" /\ heap[slots[at].client].logged_in
          /\ stage' = [stage EXCEPT ![r] = "done"]
          /\ c2s' = [c2s EXCEPT ![p] = Tail(@)]
    /\ budget' = budget - 1
    /\ UNCHANGED <<running, pc, at, ready, connVars, reqInfo, poolVars,
                   pipeVars, clientVars, s2c>>

SweepEnd ==
    /\ pc = "sweep" /\ ~AtSlot
    /\ pc' = "check"
    /\ UNCHANGED <<running, budget, at, ready, connVars, reqVars, poolVars,
                   pipeVars, clientVars, fifoVars>>
-----------------------------------------------------------------------------
(* The main thread: teardown, once threadpool_destroy has joined everyone.  *)
(* creg_destroy frees the registered clients whatever references are left;  *)
(* tasks still queued and results still in the pipe are dropped.            *)

Teardown ==
    /\ pc = "teardown" /\ exited = Worker
    /\ pc' = "done"
    /\ FreeClients([a \in Addr |-> IF a \in registry THEN Freed ELSE heap[a]],
                   c2s)
    /\ registry' = {} /\ slots' = <<>> /\ queue' = <<>> /\ rpc' = <<>>
    /\ stage' = [r \in Req |->
                   IF stage[r] = "queued" /\ kind[r] = "HANDSHAKE" THEN "done"
                   ELSE IF stage[r] \in {"queued", "piped"} THEN "lost"
                   ELSE stage[r]]
    /\ UNCHANGED <<running, budget, at, ready, faults, reqInfo, work, exited,
                   hsk, clientVars, s2c>>
-----------------------------------------------------------------------------
(* The workers *)

\* task_dequeue returns the oldest task.
Dequeue(w) ==
    /\ pc # "fault" /\ running
    /\ w \notin exited /\ work[w] = None /\ queue # <<>>
    /\ work' = [work EXCEPT ![w] = Head(queue)]
    /\ stage' = [stage EXCEPT ![Head(queue)] = "running"]
    /\ queue' = Tail(queue)
    /\ UNCHANGED <<mainVars, connVars, reqInfo, exited, pipeVars, clientVars,
                   fifoVars>>

\* Deviation: nobody wakes a worker that waits for a task.
WorkerExit_NoBroadcast(w) ==
    /\ pc # "fault" /\ ~running
    /\ w \notin exited /\ work[w] = None /\ queue # <<>>
    /\ exited' = exited \cup {w}
    /\ UNCHANGED <<mainVars, connVars, reqVars, queue, work, pipeVars,
                   clientVars, fifoVars>>

\* task_dequeue returns NULL and while (RUNNING) ends.
WorkerExit(w) ==
    /\ pc # "fault" /\ ~running
    /\ w \notin exited /\ work[w] = None
    /\ exited' = exited \cup {w}
    /\ UNCHANGED <<mainVars, connVars, reqVars, queue, work, pipeVars,
                   clientVars, fifoVars>>

\* Deviation: the result is written twice.
Report_Twice(r, type) ==
    /\ rpc' = IF Len(rpc) + 1 < RpcCap THEN rpc \o <<r, r>> ELSE rpc
    /\ stage' = [stage EXCEPT ![r] = "piped"]
    /\ result' = [result EXCEPT ![r] = type]

\* write_block_pipe(RPC_W): a full pipe swallows the result, unnoticed.
Report(r, type) ==
    LET fits == Len(rpc) < RpcCap
    IN /\ rpc' = IF fits THEN Append(rpc, r) ELSE rpc
       /\ stage' = [stage EXCEPT ![r] = IF fits THEN "piped" ELSE "lost"]
       /\ result' = [result EXCEPT ![r] = type]

\* Both FIFOs opened: the client is there and reads.
FinishHandshake(w) ==
    /\ pc # "fault" /\ work[w] # None /\ kind[work[w]] = "HANDSHAKE"
    /\ cli[PidOf(work[w])] = "syn"
    /\ work' = [work EXCEPT ![w] = None]
    /\ cli' = [cli EXCEPT ![PidOf(work[w])] = "half"]
    /\ sfd' = [sfd EXCEPT ![PidOf(work[w])] = TRUE]
    /\ Report(work[w], None)
    /\ UNCHANGED <<mainVars, heap, registry, slots, faults, kind, owner,
                   queue, exited, hsk, sent, read, hasty, fifoVars>>

\* hsk_fail: no FIFO, no process, or nobody reading in time; and the worker's
\* default case, which answers BARRIER with nothing at all.
FinishSilently(w) ==
    /\ pc # "fault" /\ work[w] # None
    /\ kind[work[w]] \in {"HANDSHAKE", "BARRIER"}
    /\ work' = [work EXCEPT ![w] = None]
    /\ stage' = [stage EXCEPT ![work[w]] =
                    IF kind[work[w]] = "HANDSHAKE" THEN "done" ELSE "lost"]
    /\ UNCHANGED <<mainVars, connVars, reqInfo, queue, exited, pipeVars,
                   clientVars, fifoVars>>

\* AUTHORISE reports what users.txt says; every RPC reports RPC_DONE.
Finish(w, type) ==
    /\ pc # "fault" /\ work[w] # None
    /\ \/ kind[work[w]] = "AUTHORISE" /\ type # "RPC_DONE"
       \/ kind[work[w]] = "RPC" /\ type = "RPC_DONE"
    /\ work' = [work EXCEPT ![w] = None]
    /\ Report(work[w], type)
    /\ UNCHANGED <<mainVars, connVars, kind, owner, queue, exited, hsk,
                   clientVars, fifoVars>>
-----------------------------------------------------------------------------
(* The clients *)

serverVars == <<mainVars, connVars, poolVars, pipeVars, s2c>>

\* perform_handshake has opened C2S as well.
ClientOpen(p) ==
    /\ cli[p] = "half"
    /\ cli' = [cli EXCEPT ![p] = "login"]
    /\ UNCHANGED <<serverVars, reqVars, sent, read, hasty, c2s>>

\* Every line client p has written has been dealt with.
Settled(p) ==
    \A n \in 1..MaxSend : stage[<<p, n>>] \in {"none", "done"}

\* Where a client stands after a line. The repository's own dies of SIGPIPE
\* when the server has closed; it waits after Login; and it leaves after
\* Disconnect, but not after a longer line that begins with that word, which
\* the server takes for the same.
AfterLine(p, k) ==
    IF ~OwnClients THEN {cli[p]}
    ELSE IF ~sfd[p] THEN {"closed"}
    ELSE IF sent[p] = 0 THEN {"waiting"}
    ELSE IF k = "DISCONNECT" THEN {"rpc", "closed"} ELSE {"rpc"}

\* authorise and send_user_input; with OwnClients, Login comes first and
\* nothing follows it before its answer.
ClientSend(p, k) ==
    LET r == <<p, sent[p] + 1>>
    IN /\ cli[p] = IF OwnClients /\ sent[p] > 0 THEN "rpc" ELSE "login"
       /\ OwnClients /\ sent[p] = 0 => k = "AUTHORISE"
       /\ Patient /\ k = "DISCONNECT" => Settled(p)
       /\ sent[p] < MaxSend
       /\ sent' = [sent EXCEPT ![p] = @ + 1]
       /\ hasty' = IF sent[p] - read[p] < ReplyCap THEN hasty
                   ELSE hasty \cup {p}
       /\ stage' = [stage EXCEPT ![r] = "sent"]
       /\ kind' = [kind EXCEPT ![r] = k]
       /\ c2s' = IF sfd[p] THEN [c2s EXCEPT ![p] = Append(@, r)] ELSE c2s
       /\ \E s \in AfterLine(p, k) : cli' = [cli EXCEPT ![p] = s]
       /\ UNCHANGED <<serverVars, owner, result, read>>

\* authorise reads the answer to Login: anything but a rejection is taken
\* for the balance.
ClientAuthorised(p) ==
    /\ cli[p] = "waiting" /\ s2c[p] # <<>>
    /\ read' = [read EXCEPT ![p] = @ + 1]
    /\ cli' = [cli EXCEPT ![p] =
                  IF result[Head(s2c[p])] \in {"AUTH_NO", "AUTH_UN"}
                  THEN "closed" ELSE "rpc"]
    /\ UNCHANGED <<serverVars, reqVars, sent, hasty, c2s>>

\* recv_server_reply, in the receiver thread.
ClientRead(p) ==
    /\ cli[p] = IF OwnClients THEN "rpc" ELSE "login"
    /\ read[p] < Len(s2c[p])
    /\ read' = [read EXCEPT ![p] = @ + 1]
    /\ UNCHANGED <<serverVars, reqVars, cli, sent, hasty, c2s>>

\* A time-out, a signal, end of input or a server that has hung up.
ClientExit(p) ==
    /\ cli[p] \in {"syn", "half"} \cup Writing
    /\ Patient => Settled(p)
    /\ cli' = [cli EXCEPT ![p] = IF @ \in Writing THEN "closed" ELSE "gone"]
    /\ UNCHANGED <<serverVars, reqVars, sent, read, hasty, c2s>>
-----------------------------------------------------------------------------
MainStep ==
    \/ Check \/ PollSleep \/ PollReturn
    \/ HskRead \/ HskEnd
    \/ \E r \in Req : \/ \E a \in Addr : HskOk(r, a)
                      \/ HskDrop(r) \/ AuthOk(r) \/ AuthReject(r)
                      \/ RpcDone(r)
    \/ RpcEnd
    \/ SweepNext \/ SweepHangup \/ SweepTask \/ SweepQuit \/ SweepIgnore
    \/ SweepEnd
    \/ Teardown

WorkerStep(w) ==
    \/ Dequeue(w) \/ WorkerExit(w)
    \/ FinishHandshake(w) \/ FinishSilently(w)
    \/ \E type \in Results : Finish(w, type)

ClientStep(p) ==
    \/ Sigusr1(p) \/ ClientOpen(p) \/ ClientAuthorised(p) \/ ClientRead(p)
    \/ ClientExit(p) \/ \E k \in Commands : ClientSend(p, k)

Next ==
    \/ MainStep
    \/ \E w \in Worker : WorkerStep(w)
    \/ \E p \in Pid : ClientStep(p)
    \/ SigShutdown

Spec == Init /\ [][Next]_vars

\* The scheduler runs every thread of the server that can run. Clients and
\* operators owe nothing.
Fairness ==
    WF_vars(MainStep) /\ \A w \in Worker : WF_vars(WorkerStep(w))

FairSpec == Spec /\ Fairness
=============================================================================
