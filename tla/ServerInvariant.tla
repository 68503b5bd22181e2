--------------------------- MODULE ServerInvariant ---------------------------
(***************************************************************************)
(* Why the promises of ServerProperties hold: the inductive invariant the  *)
(* proofs use, part by part. TLC checks it on the small instances.         *)
(***************************************************************************)
EXTENDS ServerProperties

\* Every request of q is at stage st, and none is in q twice.
AllAt(stages, q, st) ==
    /\ \A i \in DOMAIN q : stages[q[i]] = st
    /\ \A i, j \in DOMAIN q : q[i] = q[j] => i = j

\* Every task a worker holds is running, and no two workers hold the same.
WorkAt(stages, k) ==
    /\ \A w \in Worker : k[w] # None => stages[k[w]] = "running"
    /\ \A v, w \in Worker : k[v] = k[w] /\ k[v] # None => v = w

\* A request is in the one place its stage says, and only once: no FIFO,
\* queue, worker or pipe holds what another one holds, so no line is handled
\* and no result is taken twice.
Pipeline ==
    /\ AllAt(stage, queue, "queued")
    /\ AllAt(stage, rpc, "piped")
    /\ \A p \in Pid : AllAt(stage, c2s[p], "sent")
    /\ WorkAt(stage, work)

\* Pids wait in the self pipe once, before their handshake is anything else.
SignalsOnce ==
    /\ \A i \in DOMAIN hsk :
          stage[<<hsk[i], 0>>] = "none" /\ cli[hsk[i]] # "idle"
    /\ \A i, j \in DOMAIN hsk : hsk[i] = hsk[j] => i = j
    /\ \A p \in Pid : cli[p] = "idle" => stage[<<p, 0>>] = "none"

\* Number 0 is the handshake, 1 to sent[p] are the lines p has written, in
\* its own FIFO; only lines have an owner and a result.
Numbered ==
    \A p \in Pid :
        /\ kind[<<p, 0>>] = "HANDSHAKE" /\ stage[<<p, 0>>] # "sent"
        /\ owner[<<p, 0>>] = None /\ result[<<p, 0>>] = None
        /\ \A n \in 1..MaxSend :
              /\ n <= sent[p] => kind[<<p, n>>] \in LineKinds
              /\ n > sent[p] => stage[<<p, n>>] = "none"
              /\ stage[<<p, n>>] \in Holding => owner[<<p, n>>] \in Addr
        /\ \A i \in DOMAIN c2s[p] : PidOf(c2s[p][i]) = p

\* A client has one record at most, and it has one from the moment its
\* handshake is done.
OneRecord ==
    /\ \A a \in Addr : heap[a].alloc =>
          heap[a].pid \in Pid /\ stage[<<heap[a].pid, 0>>] = "done"
    /\ \A a, b \in Addr :
          heap[a].alloc /\ heap[b].alloc /\ heap[a].pid = heap[b].pid => a = b

\* Every running task has its worker, workers that have left have none, and
\* the program ends after the last of them.
TasksHeld ==
    /\ \A r \in Req : stage[r] = "running" => \E w \in Worker : work[w] = r
    /\ \A w \in exited : work[w] = None
    /\ pc = "done" => exited = Worker

\* Only a task that has been worked on has a result, and a Login one of its
\* own three.
ResultKinds ==
    \A r \in Req :
        /\ result[r] \in {"AUTH_OK", "AUTH_NO", "AUTH_UN"}
              => kind[r] = "AUTHORISE"
        /\ result[r] = "RPC_DONE" => kind[r] = "RPC"
        /\ result[r] # None => stage[r] \in {"piped", "lost", "done"}

\* No line is read before the handshake of its client is done.
HandshakeFirst ==
    \A p \in Pid : \A n \in 1..MaxSend :
        stage[<<p, n>>] \notin {"none", "sent"} => stage[<<p, 0>>] = "done"

\* When the program has ended nothing is left in a queue, a worker or a pipe.
Ended ==
    pc = "done" =>
        \A r \in Req : stage[r] \notin {"queued", "running", "piped"}

\* Until the server ends, a line that holds a reference names the allocated
\* record of the client that wrote it.
References ==
    pc # "done" =>
        \A a \in Addr : \A r \in Outstanding(a) :
            heap[a].alloc /\ heap[a].pid = PidOf(r)

\* The client of the repository logs in with its first line ...
LoginSent(p) ==
    /\ sent[p] > 0 => kind[<<p, 1>>] = "AUTHORISE"
    /\ cli[p] \in {"idle", "syn", "half", "login", "gone"} => sent[p] = 0
    /\ cli[p] = "waiting" => sent[p] = 1

\* ... and writes nothing more before the answer has come.
LoginAnswered(p) ==
    cli[p] = "rpc" \/ sent[p] > 1 =>
        /\ sent[p] > 0
        /\ stage[<<p, 1>>] = "done" /\ result[<<p, 1>>] = "AUTH_OK"

\* Replies are to lines of the client that have a result, and no line is in
\* two replies.
RepliesDone(p) ==
    /\ \A i \in DOMAIN s2c[p] :
          /\ PidOf(s2c[p][i]) = p /\ s2c[p][i] # <<p, 0>>
          /\ stage[s2c[p][i]] = "done" /\ result[s2c[p][i]] # None
    /\ \A i, j \in DOMAIN s2c[p] : s2c[p][i] = s2c[p][j] => i = j

\* The record of a client whose Login was accepted is marked so.
LoginRecorded(p) ==
    \A a \in Addr :
        heap[a].alloc /\ heap[a].pid = p /\ sent[p] > 0
            /\ stage[<<p, 1>>] = "done" /\ result[<<p, 1>>] = "AUTH_OK"
        => heap[a].logged_in

\* No Login but the first becomes a task.
LoginOnce(p) ==
    \A n \in 2..MaxSend : kind[<<p, n>>] = "AUTHORISE" =>
        stage[<<p, n>>] \notin Holding /\ result[<<p, n>>] = None

LoginFirst ==
    \A p \in Pid : /\ LoginSent(p) /\ LoginAnswered(p) /\ RepliesDone(p)
                   /\ LoginRecorded(p) /\ LoginOnce(p)

\* A removed client has hung up or has been dismissed ...
RemovedGone ==
    \A a \in Addr : heap[a].alloc /\ heap[a].dead =>
        cli[heap[a].pid] = "closed" \/ Dismissed(heap[a].pid)

\* ... and the sweep meets no closed descriptor.
SlotsOpen == \A i \in DOMAIN slots : slots[i].rev # "err"

\* Who is not registered any more is dead, so teardown forgets no record that
\* is still in service.
OpenRegistered ==
    \A a \in Addr : heap[a].alloc /\ ~heap[a].dead => a \in registry

\* A client reads what has been written, nothing before the answer to its
\* Login, and one that is not hasty leaves room for a reply to every line it
\* has written.
Metered(p) ==
    /\ read[p] <= Len(s2c[p])
    /\ cli[p] \notin {"rpc", "closed"} => read[p] = 0
    /\ p \notin hasty => sent[p] - read[p] <= ReplyCap

\* A client that can count on its replies has them.
Answered == \A p \in Pid : Expecting(p) => AllAnswered(p)

\* A Disconnect is on its way behind lines that have been dealt with ...
QuitAlone ==
    \A p \in Pid : \A n \in 1..MaxSend : \A m \in 1..n - 1 :
        kind[<<p, n>>] = "DISCONNECT" /\ stage[<<p, n>>] = "sent"
            => stage[<<p, m>>] = "done"

\* ... and a client that has hung up, with its FIFOs still open, has nothing
\* but a Disconnect on its way.
ClosedSettled ==
    \A p \in Pid : cli[p] = "closed" /\ sfd[p] =>
        \A n \in 1..MaxSend :
            \/ stage[<<p, n>>] \in {"none", "done"}
            \/ stage[<<p, n>>] = "sent" /\ kind[<<p, n>>] = "DISCONNECT"

\* A client is removed when nothing holds it, and freed at once.
NoneDead == \A a \in Addr : heap[a].alloc => ~heap[a].dead

\* The lines of p that q holds stand in the order they were written.
InOrder(q, p) ==
    \A i, j \in DOMAIN q : \A n, m \in 1..MaxSend :
        q[i] = <<p, n>> /\ q[j] = <<p, m>> /\ n < m => i < j

\* A FIFO that is open holds every line that is on its way, oldest first, so
\* the line the server reads next is the oldest one.
FifoOrder(p) ==
    /\ InOrder(c2s[p], p)
    /\ \A n \in 1..MaxSend : n <= sent[p] => stage[<<p, n>>] # "none"
    /\ IF sfd[p] THEN \A n \in 1..MaxSend : stage[<<p, n>>] = "sent"
                          => \E i \in DOMAIN c2s[p] : c2s[p][i] = <<p, n>>
       ELSE c2s[p] = <<>>

\* With replies s written and results q in the pipe: r is one of them, ...
Reported(s, q, r) ==
    (\E i \in DOMAIN q : q[i] = r) \/ (\E i \in DOMAIN s : s[i] = r)

\* ... and y is one of them and comes after x.
Behind(s, q, x, y) ==
    \/ \E i, j \in DOMAIN q : q[i] = x /\ q[j] = y /\ i < j
    \/ \E i \in DOMAIN s, j \in DOMAIN q : s[i] = x /\ q[j] = y
    \/ \E i, j \in DOMAIN s : s[i] = x /\ s[j] = y /\ i < j

\* A line leaves its FIFO after every line before it has left it ...
ReadInOrder(p) ==
    \A m \in 1..MaxSend : \A n \in 1..m - 1 :
        stage[<<p, m>>] \notin {"none", "sent"} => stage[<<p, n>>] # "sent"

\* ... and the queue likewise.
TakenInOrder(p) ==
    /\ InOrder(queue, p)
    /\ \A n \in 1..MaxSend : stage[<<p, n>>] = "queued"
          => \E i \in DOMAIN queue : queue[i] = <<p, n>>
    /\ \A m \in 1..MaxSend : \A n \in 1..m - 1 :
          stage[<<p, m>>] = "running" \/ Reported(s2c[p], rpc, <<p, m>>)
              => stage[<<p, n>>] # "queued"

\* The lines before line m of p that are answered after it.
Late(p, m) ==
    {n \in 1..m - 1 : \/ stage[<<p, n>>] = "running"
                      \/ Behind(s2c[p], rpc, <<p, m>>, <<p, n>>)}

\* When a worker reports a result, only the other workers can be busy with
\* lines before it; and no other line falls behind it afterwards.
FewLate(p) ==
    \A m \in 1..MaxSend : Reported(s2c[p], rpc, <<p, m>>)
        => Cardinality(Late(p, m)) < Cardinality(Worker)
-----------------------------------------------------------------------------
\* The invariant that holds whatever the clients do ...
ConnInv == OneRecord /\ DescriptorsOwned /\ SlotsMatchRegistry
IInv == TypeOK /\ SignalsOnce /\ Numbered /\ Pipeline /\ ConnInv

\* ... what the client program of the repository adds to it, as long as its
\* replies go straight: every request is in one place, and is counted there
\* and nowhere else, ...
OwnInv ==
    /\ IInv /\ TasksHeld /\ Ended /\ ResultKinds /\ HandshakeFirst
    /\ LoginFirst /\ References /\ CountsExact

\* ... and what its replies need on top.
ReplyInv ==
    /\ OwnInv /\ RemovedGone /\ SlotsOpen /\ OpenRegistered
    /\ \A p \in Pid : Metered(p)
    /\ Answered

\* The invariant of a server whose clients are the repository's own: replies
\* go astray after a use of freed memory only, and until then the rest holds.
ServerInv ==
    /\ IInv
    /\ "use_after_free" \notin faults => Straight
    /\ Straight => ReplyInv

\* Replies overtake one another only while the workers are busy with them.
OrderInv ==
    /\ ReplyInv
    /\ \A p \in Pid : /\ FifoOrder(p) /\ ReadInOrder(p)
                       /\ TakenInOrder(p) /\ FewLate(p)

\* With patient clients nothing is outstanding for a removed one, so nothing
\* is touched after it has been freed.
PatientInv ==
    /\ OrderInv /\ Straight /\ QuitAlone /\ ClosedSettled /\ NoneDead
    /\ NoFaults
=============================================================================
