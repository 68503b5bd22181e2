----------------------------- MODULE ClientPeer -----------------------------
(***************************************************************************)
(* A client of this repository as AnimateServer takes it to be: the states *)
(* and steps that its actions ClientOpen, ClientSend, ClientAuthorised and *)
(* ClientExit give to one client. ClientSession implements it with the     *)
(* signals, the alarm, the threads and the descriptors of the program.     *)
(***************************************************************************)
EXTENDS Sequences

VARIABLES
    cli,        \* syn, half, login, waiting, rpc; closed or gone at the end
    c2s,        \* the lines the server has not read
    authed      \* the server has let the client in

vars == <<cli, c2s, authed>>

Writing == {"login", "waiting", "rpc"}

Init == cli = "syn" /\ c2s = <<>> /\ authed = FALSE

\* Both sides have opened the reply FIFO.
Meet == cli = "syn" /\ cli' = "half" /\ UNCHANGED <<c2s, authed>>

Open == cli = "half" /\ cli' = "login" /\ UNCHANGED <<c2s, authed>>

\* The first line is a Login, and nothing follows it before its answer.
Login == /\ cli = "login" /\ cli' = "waiting"
         /\ c2s' = Append(c2s, "Login") /\ UNCHANGED authed

\* The server reads a line.
Read == /\ c2s # <<>> /\ c2s' = Tail(c2s) /\ UNCHANGED <<cli, authed>>

\* The server lets the client in, which waits, or has left meanwhile.
LetIn == /\ cli \in {"waiting", "closed"} /\ ~authed
         /\ authed' = TRUE /\ UNCHANGED <<cli, c2s>>

\* Only a client that has been let in stays.
Authorised == /\ cli = "waiting" /\ authed
              /\ cli' = "rpc" /\ UNCHANGED <<c2s, authed>>

\* Anything may follow. Disconnect is the last line; a longer line that begins
\* with it is a line like others here, though not to the server.
Send(k) == /\ cli = "rpc"
           /\ cli' = (IF k = "Disconnect" THEN "closed" ELSE "rpc")
           /\ c2s' = Append(c2s, k) /\ UNCHANGED authed

Exit == /\ cli \in {"syn", "half"} \cup Writing
        /\ cli' = (IF cli \in Writing THEN "closed" ELSE "gone")
        /\ UNCHANGED <<c2s, authed>>

Next == \/ Meet \/ Open \/ Login \/ Read \/ LetIn \/ Authorised \/ Exit
        \/ \E k \in {"Login", "Rpc", "Barrier", "Disconnect", "DisconnectNow"} :
              Send(k)

Spec == Init /\ [][Next]_vars
=============================================================================
