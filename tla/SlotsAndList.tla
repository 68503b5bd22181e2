---------------------------- MODULE SlotsAndList ----------------------------
(***************************************************************************)
(* The two structures that hold the clients of the server: POLLSLOTS, two  *)
(* parallel arrays that grow one after the other (s_helper.c), and the     *)
(* doubly linked list of the registry (client_registry.c). One step is one *)
(* turn of a loop, one allocation or one critical section. They are used   *)
(* as main uses them; a worker walks the list for SHARE.                   *)
(*                                                                         *)
(* AnimateServer has the same operations as single steps on a sequence and *)
(* a set. What it says of clients that are used after their release is not *)
(* repeated: a refused client is still registered here.                    *)
(***************************************************************************)
EXTENDS Integers, Sequences

CONSTANTS
    Client,         \* addresses of ActiveClients
    Fd,             \* numbers of descriptors
    NULL,
    POLLFD_INIT_N,
    MAX_CAPACITY,   \* what memory allows the arrays to grow to
    MaxRequests     \* requests of a client in flight

ASSUME SlotsConstants ==
    /\ NULL \notin Client \cup Fd /\ {"hsk", "rpc"} \cap Fd = {}
    /\ POLLFD_INIT_N \in Nat /\ POLLFD_INIT_N >= 2
    /\ MAX_CAPACITY \in Nat /\ MAX_CAPACITY >= POLLFD_INIT_N
    /\ MaxRequests \in Nat

VARIABLES
    pc,             \* what main does
    client, fd,     \* its locals
    i,              \* server_remove_pollslots: i
    curr,           \* creg_unlink and creg_destroy: curr
    pfds, clients,  \* the arrays of POLLSLOTS
    psize, csize,   \* the sizes they are allocated with
    capacity, count,
    cr_clients, cr_count,
    lock,           \* who holds cr_lock
    next, prev,     \* members of the records
    refcount, dead, c2s_fd,
    heap,           \* the records that are allocated
    requests,       \* references held by requests of the client
    wcurr,          \* SHARE: c
    order           \* history: the list, newest first

localVars   == <<client, fd, i, curr>>
arrayVars   == <<pfds, clients, psize, csize, capacity, count>>
listVars    == <<cr_clients, cr_count, next, prev, order>>
countVars   == <<refcount, dead, c2s_fd, heap, requests>>
workerVars  == <<wcurr>>
vars == <<pc, localVars, arrayVars, lock, listVars, countVars, workerVars>>

Index == 0..(MAX_CAPACITY - 1)

TypeOK ==
    /\ pc \in {"loop", "insert", "grow", "grow2", "place", "find", "dead",
               "unlink", "seek", "release", "destroy", "end"}
    /\ client \in Client \cup {NULL} /\ fd \in Fd \cup {NULL}
    /\ i \in 0..MAX_CAPACITY /\ curr \in Client \cup {NULL}
    /\ pfds \in [Index -> Fd \cup {"hsk", "rpc", NULL}]
    /\ clients \in [Index -> Client \cup {NULL}]
    /\ psize \in 0..MAX_CAPACITY /\ csize \in 0..MAX_CAPACITY
    /\ capacity \in 2..MAX_CAPACITY /\ count \in 2..MAX_CAPACITY
    /\ cr_clients \in Client \cup {NULL} /\ cr_count \in Nat
    /\ lock \in {"free", "main", "worker"}
    /\ next \in [Client -> Client \cup {NULL}]
    /\ prev \in [Client -> Client \cup {NULL}]
    /\ refcount \in [Client -> Nat] /\ dead \in [Client -> BOOLEAN]
    /\ c2s_fd \in [Client -> Fd \cup {NULL}] /\ heap \subseteq Client
    /\ requests \in [Client -> 0..MaxRequests]
    /\ wcurr \in Client \cup {NULL} /\ order \in Seq(Client)

\* server_setup_pipes and creg_init.
Init ==
    /\ pc = "loop" /\ client = NULL /\ fd = NULL /\ i = 0 /\ curr = NULL
    /\ pfds = [j \in Index |-> IF j = 0 THEN "hsk" ELSE
                               IF j = 1 THEN "rpc" ELSE NULL]
    /\ clients = [j \in Index |-> NULL]
    /\ psize = POLLFD_INIT_N /\ csize = POLLFD_INIT_N
    /\ capacity = POLLFD_INIT_N /\ count = 2
    /\ cr_clients = NULL /\ cr_count = 0 /\ lock = "free"
    /\ next = [c \in Client |-> NULL] /\ prev = [c \in Client |-> NULL]
    /\ refcount = [c \in Client |-> 0] /\ dead = [c \in Client |-> FALSE]
    /\ c2s_fd = [c \in Client |-> NULL] /\ heap = {}
    /\ requests = [c \in Client |-> 0]
    /\ wcurr = NULL /\ order = <<>>

\* The clients that are polled.
Slots == 2..(count - 1)

Listed == {order[k] : k \in DOMAIN order}

\* Deviation: cr_lock keeps nobody out.
Unlocked_Always == TRUE

Unlocked == lock = "free"
-----------------------------------------------------------------------------
(* creg_insert and server_insert_pollslots: HSK_OK *)

\* Deviation: the new record forgets the rest of the list.
Behind_Nothing == NULL

Behind == cr_clients

\* creg_insert gets a record for a connection; if it does not, nothing
\* happens. Descriptors of records that are allocated are open.
CregInsert(c, f) ==
    /\ pc = "loop" /\ Unlocked
    /\ c \notin heap /\ \A d \in heap : c2s_fd[d] # f
    /\ heap' = heap \cup {c} /\ c2s_fd' = [c2s_fd EXCEPT ![c] = f]
    /\ refcount' = [refcount EXCEPT ![c] = 1]
    /\ dead' = [dead EXCEPT ![c] = FALSE]
    /\ next' = [next EXCEPT ![c] = Behind]
    /\ prev' = [d \in Client |-> IF d = c THEN NULL ELSE
                                 IF d = cr_clients THEN c ELSE prev[d]]
    /\ cr_clients' = c /\ cr_count' = cr_count + 1 /\ order' = <<c>> \o order
    /\ client' = c /\ fd' = f /\ pc' = "insert"
    /\ UNCHANGED <<i, curr, arrayVars, lock, requests, workerVars>>

\* S_POLL_FD_CAPACITY == S_POLL_FD_COUNT
Full == capacity = count

Insert ==
    /\ pc = "insert" /\ pc' = IF Full THEN "grow" ELSE "place"
    /\ UNCHANGED <<localVars, arrayVars, lock, listVars, countVars, workerVars>>

\* Deviation: the new capacity counts before the second array has it.
CapacityStays_Not == capacity' = 2 * capacity

\* new_capacity is not stored before both arrays have it.
CapacityStays == UNCHANGED capacity

\* The first reallocarray.
Grow ==
    /\ pc = "grow"
    /\ \/ pc' = "dead" /\ UNCHANGED <<psize, capacity>>
       \/ /\ 2 * capacity <= MAX_CAPACITY
          /\ psize' = 2 * capacity /\ CapacityStays /\ pc' = "grow2"
    /\ UNCHANGED <<localVars, pfds, clients, csize, count, lock, listVars,
                   countVars, workerVars>>

\* The second. When it fails the first array stays as it is.
GrowClients ==
    /\ pc = "grow2"
    /\ \/ pc' = "dead" /\ UNCHANGED <<csize, capacity>>
       \/ csize' = 2 * capacity /\ capacity' = 2 * capacity /\ pc' = "place"
    /\ UNCHANGED <<localVars, pfds, clients, psize, count, lock, listVars,
                   countVars, workerVars>>

Place ==
    /\ pc = "place" /\ pc' = "loop"
    /\ count' = count + 1
    /\ pfds' = [pfds EXCEPT ![count] = fd]
    /\ clients' = [clients EXCEPT ![count] = client]
    /\ UNCHANGED <<localVars, psize, csize, capacity, lock, listVars,
                   countVars, workerVars>>
-----------------------------------------------------------------------------
(* References *)

\* Deviation: the record goes with its last but one reference.
Last_OneLeft(n) == n <= 1

Last(n) == n = 0

\* creg_release_client; destroy_client_pipes closes the descriptor.
Released(c) ==
    /\ refcount' = [refcount EXCEPT ![c] = @ - 1]
    /\ heap' = IF dead[c] /\ Last(refcount[c] - 1) THEN heap \ {c} ELSE heap

\* creg_acquire_client, for a line of a polled client.
Acquire ==
    /\ pc = "loop" /\ Unlocked
    /\ \E j \in Slots : LET c == clients[j] IN
         /\ ~dead[c] /\ requests[c] < MaxRequests
         /\ refcount' = [refcount EXCEPT ![c] = @ + 1]
         /\ requests' = [requests EXCEPT ![c] = @ + 1]
    /\ UNCHANGED <<pc, localVars, arrayVars, lock, listVars, dead, c2s_fd,
                   heap, workerVars>>

\* The result of a request.
Result(c) ==
    /\ pc = "loop" /\ Unlocked /\ requests[c] > 0
    /\ requests' = [requests EXCEPT ![c] = @ - 1] /\ Released(c)
    /\ UNCHANGED <<pc, localVars, arrayVars, lock, listVars, dead, c2s_fd,
                   workerVars>>
-----------------------------------------------------------------------------
(* server_remove_pollslots and creg_remove *)

\* The sweep removes the client of a slot.
Leave(j) ==
    /\ pc = "loop" /\ j \in Slots
    /\ client' = clients[j] /\ fd' = pfds[j] /\ i' = 0 /\ pc' = "find"
    /\ UNCHANGED <<curr, arrayVars, lock, listVars, countVars, workerVars>>

\* AUTH_NO and AUTH_UN release first.
Refuse(c) ==
    /\ pc = "loop" /\ Unlocked /\ requests[c] > 0 /\ c \in Listed
    /\ requests' = [requests EXCEPT ![c] = @ - 1] /\ Released(c)
    /\ client' = c /\ fd' = c2s_fd[c] /\ i' = 0 /\ pc' = "find"
    /\ UNCHANGED <<curr, arrayVars, lock, listVars, dead, c2s_fd, workerVars>>

\* One turn of the search for fd.
Find ==
    /\ pc = "find" /\ i < count /\ pfds[i] # fd
    /\ i' = i + 1
    /\ UNCHANGED <<pc, client, fd, curr, arrayVars, lock, listVars, countVars,
                   workerVars>>

\* Deviation: the client does not move with its descriptor.
Filled_Half(a) == IF a = clients THEN [a EXCEPT ![count - 1] = NULL]
                  ELSE [a EXCEPT ![i] = a[count - 1], ![count - 1] = NULL]

\* The last slot is copied to i and cleared.
Filled(a) == [[a EXCEPT ![i] = a[count - 1]] EXCEPT ![count - 1] = NULL]

\* The search ends, with fd or at the end.
RemoveSlot ==
    /\ pc = "find" /\ pc' = "dead"
    /\ IF i < count
       THEN /\ pfds[i] = fd
            /\ pfds' = Filled(pfds) /\ clients' = Filled(clients)
            /\ count' = count - 1
       ELSE UNCHANGED <<pfds, clients, count>>
    /\ UNCHANGED <<localVars, psize, csize, capacity, lock, listVars,
                   countVars, workerVars>>

\* client_markdead; the tables are ObjectTables'.
MarkDead ==
    /\ pc = "dead" /\ Unlocked /\ pc' = "unlink"
    /\ dead' = [dead EXCEPT ![client] = TRUE]
    /\ UNCHANGED <<localVars, arrayVars, lock, listVars, refcount, c2s_fd,
                   heap, requests, workerVars>>

\* creg_unlink takes the lock.
Lock ==
    /\ pc = "unlink" /\ Unlocked /\ pc' = "seek"
    /\ lock' = "main" /\ curr' = cr_clients
    /\ UNCHANGED <<client, fd, i, arrayVars, listVars, countVars, workerVars>>

\* One turn of the search for client.
Seek ==
    /\ pc = "seek" /\ curr # NULL /\ curr # client
    /\ curr' = next[curr]
    /\ UNCHANGED <<pc, client, fd, i, arrayVars, lock, listVars, countVars,
                   workerVars>>

\* s without c.
Without(s, c) ==
    LET k == CHOOSE k \in DOMAIN s : s[k] = c
    IN [j \in 1..(Len(s) - 1) |-> IF j < k THEN s[j] ELSE s[j + 1]]

\* Deviation: the client behind keeps its link.
Backward_Kept(c) == prev

\* The client behind c points back to the one before c, and c to none.
Backward(c) ==
    [d \in Client |-> IF d = c THEN NULL ELSE
                      IF d = next[c] THEN prev[c] ELSE prev[d]]

\* The search ends; client is taken out if it was found.
Unlink ==
    /\ pc = "seek" /\ pc' = "release" /\ lock' = "free"
    /\ IF curr = NULL THEN UNCHANGED listVars
       ELSE /\ curr = client
            /\ cr_clients' = IF prev[client] = NULL THEN next[client]
                             ELSE cr_clients
            /\ next' = [d \in Client |-> IF d = client THEN NULL ELSE
                          IF d = prev[client] THEN next[client] ELSE next[d]]
            /\ prev' = Backward(client)
            /\ cr_count' = cr_count - 1
            /\ order' = Without(order, client)
    /\ UNCHANGED <<localVars, arrayVars, countVars, workerVars>>

\* The reference of the registry.
Release ==
    /\ pc = "release" /\ Unlocked /\ pc' = "loop" /\ Released(client)
    /\ UNCHANGED <<localVars, arrayVars, lock, listVars, dead, c2s_fd,
                   requests, workerVars>>
-----------------------------------------------------------------------------
(* The end: workers have been joined *)

\* server_destroy_pollslots; creg_destroy takes the list.
Teardown ==
    /\ pc = "loop" /\ Unlocked /\ pc' = "destroy"
    /\ psize' = 0 /\ csize' = 0
    /\ curr' = cr_clients /\ cr_clients' = NULL /\ cr_count' = 0
    /\ UNCHANGED <<client, fd, i, pfds, clients, capacity, count, lock, next,
                   prev, order, countVars, workerVars>>

Destroy ==
    /\ pc = "destroy" /\ curr # NULL
    /\ heap' = heap \ {curr} /\ curr' = next[curr] /\ order' = Tail(order)
    /\ UNCHANGED <<pc, client, fd, i, arrayVars, lock, cr_clients, cr_count,
                   next, prev, refcount, dead, c2s_fd, requests, workerVars>>

DestroyEnd ==
    /\ pc = "destroy" /\ curr = NULL /\ pc' = "end"
    /\ UNCHANGED <<localVars, arrayVars, lock, listVars, countVars, workerVars>>
-----------------------------------------------------------------------------
(* A worker: SHARE looks for a client by its name *)

shareFrame == <<pc, localVars, arrayVars, listVars, countVars>>

ShareLock ==
    /\ pc \notin {"destroy", "end"} /\ Unlocked
    /\ lock' = "worker" /\ wcurr' = cr_clients /\ UNCHANGED shareFrame

\* The client is not the one.
ShareStep ==
    /\ lock = "worker" /\ wcurr # NULL
    /\ wcurr' = next[wcurr] /\ UNCHANGED <<shareFrame, lock>>

\* It is, or the list ends.
ShareEnd ==
    /\ lock = "worker"
    /\ lock' = "free" /\ wcurr' = NULL /\ UNCHANGED shareFrame
-----------------------------------------------------------------------------
Next ==
    \/ \E c \in Client, f \in Fd : CregInsert(c, f)
    \/ Insert \/ Grow \/ GrowClients \/ Place
    \/ Acquire
    \/ \E c \in Client : Result(c) \/ Refuse(c)
    \/ \E j \in Slots : Leave(j)
    \/ Find \/ RemoveSlot
    \/ MarkDead \/ Lock \/ Seek \/ Unlink \/ Release
    \/ Teardown \/ Destroy \/ DestroyEnd
    \/ ShareLock \/ ShareStep \/ ShareEnd

Spec == Init /\ [][Next]_vars
=============================================================================
