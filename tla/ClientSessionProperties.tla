----------------------- MODULE ClientSessionProperties -----------------------
(***************************************************************************)
(* What a client does for its user and towards its server.                 *)
(***************************************************************************)
EXTENDS ClientSession

\* The state of the client, as a server can know it.
Cli ==
    IF pc \in {"teardown", "close", "join"} \cup Gone
         \/ (pc = "authorised" /\ ~logged)
    THEN IF writer \in {"open", "closed"} THEN "closed" ELSE "gone"
    ELSE IF pc \in {"loop", "input", "authorised"} THEN "rpc"
    ELSE IF pc = "reply" THEN "waiting"
    ELSE IF writer = "open" THEN "login"
    ELSE IF reader \in {"met", "open"} THEN "half" ELSE "syn"

Peer == INSTANCE ClientPeer WITH cli <- Cli

\* Whatever signals, time-outs and a server that leaves do to it, the client
\* opens the reply FIFO first, writes one Login and nothing else before the
\* answer, stays only when the server has let it in, and writes nothing
\* after Disconnect, though it may after a longer line that begins with the
\* word: AnimateServer may rely on it.
ImplementsPeer == Peer!Spec

\* The client never waits for the server to answer or to open its FIFOs for
\* ever. The one alarm of the opens is lost when it rings before the open it
\* is for, and a shutdown signal can be taken for the answer.
HandshakeEnds ==
    pc \in {"suspend", "openr", "openw"} ~>
        \/ pc \notin {"suspend", "openr", "openw"}
        \/ pc # "suspend" /\ (conn = "TIMED_OUT" \/ shutdowns > 0)

\* The main thread is about to read from a terminal that is still open.
Typing == ~eof /\ pc \in {"fgets", "input"}

\* At the end of its input, after Disconnect and when the server has closed
\* its FIFOs the client ends: it does not wait for an answer that cannot
\* come, nor main for the receiver and the receiver for main. It waits for
\* the next line where it is at one, and a server that has lost a result, or
\* never wrote it, keeps it.
SessionEnds ==
    (eof \/ (conn = "DISCONNECTED" /\ ~masked)) ~>
        \/ pc \in Gone \/ Typing \/ leak
        \/ pc \in {"openr", "openw"} /\ (conn = "TIMED_OUT" \/ shutdowns > 0)

\* When a client has gone, however it went, the server closes both FIFOs in
\* the end: but for a client that died before it opened its own, which the
\* server cannot see leave, and for one of which it lost a result.
ServerForgets ==
    pc \in Gone ~> \/ ~srd /\ ~swr
                   \/ leak
                   \/ session = "open" /\ writer = "none"
=============================================================================
