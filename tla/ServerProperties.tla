-------------------------- MODULE ServerProperties --------------------------
(***************************************************************************)
(* What AnimateServer promises: the reference counts, the descriptors, the *)
(* poll slots, the answers and the end of the program.                     *)
(***************************************************************************)
EXTENDS AnimateServer

\* Every reply has gone to the client that asked. After the s2c_fd of a
\* record that was freed has been used, one may have gone to a client whose
\* handshake has just ended: this client takes it for the answer to its
\* Login, and is no client of the repository any more as to what it does
\* next. What rests on that is promised as long as replies go straight.
Straight == \A p \in Pid : \A i \in DOMAIN s2c[p] : PidOf(s2c[p][i]) = p

\* The requests that hold a reference to the client at address a.
Outstanding(a) ==
    {r \in Req : owner[r] = a /\ stage[r] \in Holding}

\* The count in every ActiveClient is the registry's reference, which goes
\* when the client is marked dead, plus one for each request acquired in
\* handle_command and not yet released by a result; it never runs ahead of
\* or behind the requests, whatever order hang-ups and results come in.
CountsExact ==
    \A a \in Addr : heap[a].alloc =>
        heap[a].refcount = (IF heap[a].dead THEN 0 ELSE 1)
                              + Cardinality(Outstanding(a))
RefcountExact == Straight => CountsExact

\* No task in the queue, at a worker or in the result pipe names freed or
\* reused memory: the record it names is still the one of the client that
\* sent the line, even after that client has been removed.
NoDangling ==
    Straight =>
        \A r \in Req :
            stage[r] \in {"queued", "running", "piped"}
                /\ kind[r] # "HANDSHAKE"
            => /\ heap[owner[r]].alloc
               /\ heap[owner[r]].pid = PidOf(r)

\* Poll slots and registry agree: one slot for every registered client, on
\* its own descriptor, and neither holds a dead or freed client; so a sweep
\* that swaps slots while it removes them still pairs every descriptor with
\* its client.
SlotsMatchRegistry ==
    /\ {slots[i].client : i \in DOMAIN slots} = registry
    /\ \A i, j \in DOMAIN slots :
          slots[i].client = slots[j].client => i = j
    /\ \A i \in DOMAIN slots :
          LET c == heap[slots[i].client]
          IN c.alloc /\ ~c.dead /\ c.pid = slots[i].fd

\* Somebody answers for the descriptors of client p: a record that is still
\* allocated, or a handshake result that
\* has not been read, or was swallowed by a full pipe.
Owned(p) ==
    \/ \E a \in Addr : heap[a].alloc /\ heap[a].pid = p
    \/ stage[<<p, 0>>] \in {"piped", "lost"}

\* The server has a client's FIFOs open exactly while somebody answers for
\* them: none is closed under its owner, none outlives it unseen.
DescriptorsOwned == \A p \in Pid : sfd[p] <=> Owned(p)

\* The server has taken a line that begins with Disconnect from p, and has
\* taken p out of service.
Dismissed(p) ==
    \E n \in 1..MaxSend :
        kind[<<p, n>>] = "DISCONNECT" /\ stage[<<p, n>>] = "done"

\* A client can count on its replies: it reads them, it has never had more
\* lines than its FIFO has room for replies between the last line it wrote
\* and the last reply it read, and it has not been dismissed.
Expecting(p) == cli[p] \in Reading /\ p \notin hasty /\ ~Dismissed(p)

\* A reply to every result that was handled is in the FIFO of p, or read.
AllAnswered(p) ==
    \A n \in 1..MaxSend :
        stage[<<p, n>>] = "done" /\ result[<<p, n>>] # None
            => <<p, n>> \in ToSet(s2c[p])

\* No reply goes to a client that has not asked, unless a freed record has
\* been used; each is for a line that has been dealt with, and there is one
\* for a line at most; and a client that does not let its FIFO run full
\* misses none.
RepliesToIssuer ==
    /\ "use_after_free" \notin faults => Straight
    /\ Straight =>
         \A p \in Pid :
             /\ \A i \in DOMAIN s2c[p] : stage[s2c[p][i]] = "done"
             /\ \A i, j \in DOMAIN s2c[p] : s2c[p][i] = s2c[p][j] => i = j
             /\ Expecting(p) => AllAnswered(p)

\* A reply overtakes those the other workers are busy with, and no more: the
\* replies to earlier lines that follow it are fewer than the workers. With
\* one worker a client reads its replies in the order of its lines.
RepliesInOrder ==
    Straight =>
        \A p \in Pid : \A i \in DOMAIN s2c[p] :
            LET late == {j \in DOMAIN s2c[p] :
                            j > i /\ s2c[p][j][2] < s2c[p][i][2]}
            IN Cardinality(late) < Cardinality(Worker)

\* However many Login lines a client of the repository writes, users.txt is
\* consulted once for it: logged_in is set in the step that answers.
AuthorisedOnce ==
    Straight =>
        \A p \in Pid :
            Cardinality({r \in Req : /\ PidOf(r) = p
                                     /\ kind[r] = "AUTHORISE"
                                     /\ result[r] # None}) <= 1

\* A client that leaves only when all its lines have been answered is never
\* touched after it has been freed.
NoFaults == faults = {}

\* client_registry.c:72 "assert refcount > 0".
ReleaseFindsReference == "refcount_underflow" \notin faults
-----------------------------------------------------------------------------
\* The state of the connection at an address, and who holds it.
Conn(a) == IF ~heap[a].alloc THEN "none"
           ELSE IF heap[a].dead THEN "retired" ELSE "open"
Held(a) == IF heap[a].alloc THEN Outstanding(a) ELSE {}

Lifetime == INSTANCE ConnectionLifetime
                WITH conn <- [a \in Addr |-> Conn(a)],
                     held <- [a \in Addr |-> Held(a)]

\* The registry with its counts implements the lifetime of connections: an
\* ActiveClient is freed by the release that drops the last reference to a
\* removed client, and by nothing else before the server ends.
ImplementsLifetime ==
    Lifetime!Init /\ [][Straight' => Lifetime!Next]_(Lifetime!vars)
-----------------------------------------------------------------------------
Stopped == pc \in {"done", "fault"}

\* A line that asks for an answer gets one while its client stays and is not
\* dismissed: it is read from the FIFO, queued, worked on, its result is
\* handled and the reply is in the client's FIFO, unless the client has let
\* that run full; a second Login needs no reply. The result pipe has to be
\* large enough for the results of one wake of the loop.
LinesAnswered ==
    \A r \in Req :
        stage[r] = "sent" /\ kind[r] \in {"AUTHORISE", "RPC"} ~>
            \/ r \in ToSet(s2c[PidOf(r)])
            \/ stage[r] = "done" /\ (PidOf(r) \in hasty \/ result[r] = None)
            \/ cli[PidOf(r)] = "closed" \/ Dismissed(PidOf(r))
            \/ ~running \/ Stopped

\* When a client hangs up the server closes its descriptors in the end,
\* after the last answer it is working on for this client.
HangupCloses ==
    \A p \in Pid : cli[p] = "closed" ~> ~sfd[p] \/ ~running \/ Stopped

\* After a shutdown signal the program ends, unless the signal came between
\* the test of RUNNING and poll, and nothing wakes poll up.
ShutdownEnds ==
    ~running ~> Stopped \/ (pc = "poll" /\ ~SomethingReady)
=============================================================================
