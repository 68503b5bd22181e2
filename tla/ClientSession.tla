---------------------------- MODULE ClientSession ----------------------------
(***************************************************************************)
(* One client process, from its handshake to its exit (animate_client.c,   *)
(* c_helper.c, sender.c, receiver.c): its signal mask, its alarm, its two  *)
(* FIFOs, its receiver thread and its standard input; and what it meets:   *)
(* the worker that does the server's half of the handshake                 *)
(* (threadpool.c), and the session the main loop keeps afterwards, in      *)
(* outline (AnimateServer has it in full).                                 *)
(*                                                                         *)
(* A signal that is not blocked is handled before the main thread does its *)
(* next step. It ends a call the thread is blocked in, and no other: the   *)
(* step into a blocking call is apart from the return.                     *)
(***************************************************************************)
EXTENDS Integers, Sequences

CONSTANTS
    MAX_OPEN_RETRIES,
    MaxLines,       \* lines that are typed
    MaxShutdowns,   \* shutdown signals the client is sent
    ReplyCap        \* replies the FIFO to the client can hold

ASSUME SessionConstants ==
    /\ MAX_OPEN_RETRIES \in Nat /\ MaxLines \in Nat /\ MaxShutdowns \in Nat
    /\ ReplyCap \in Nat \ {0}

VARIABLES
    pc,         \* where the client's main thread is
    inside,     \* it is blocked in the call it is at
    conn,       \* CONNECTION_STATE
    logged,     \* LOGGED_IN
    masked,     \* all signals are blocked
    pending,    \* signals sent and not handled
    alarm,      \* the alarm is running
    reader,     \* S_READ
    writer,     \* C_WRITE
    recv,       \* the receiver thread
    retval,     \* the exit status
    eof,        \* nothing more is typed
    typed, shutdowns,
    worker,     \* the server's half of the handshake
    tries,      \* opens of S2C that found no reader
    fifos,      \* the two FIFOs exist
    srd, swr,   \* the server's ends: C2S for reading, S2C for writing
    c2s, s2c,   \* what is in them
    session,    \* the server's record of the client
    authed,     \* client->logged_in
    tasks,      \* tasks of this client that are not answered
    leak        \* a result was lost, or never written: a reference stays

callVars    == <<pc, inside>>
stateVars   == <<conn, logged, retval>>
signalVars  == <<masked, pending, alarm, shutdowns>>
endVars     == <<reader, writer, recv>>
inputVars   == <<eof, typed>>
clientVars  == <<callVars, stateVars, signalVars, endVars, inputVars>>
hskVars     == <<worker, tries, fifos>>
serverEnds  == <<srd, swr>>
pipeVars    == <<c2s, s2c>>
sessionVars == <<session, authed, tasks, leak>>
serverVars  == <<hskVars, serverEnds, pipeVars, sessionVars>>
vars == <<pc, inside, conn, logged, retval, masked, pending, alarm, shutdowns,
          reader, writer, recv, eof, typed, worker, tries, fifos, srd, swr,
          c2s, s2c, session, authed, tasks, leak>>

Signals == {"SIGUSR2", "SIGALRM", "SHUTDOWN"}

\* "DisconnectNow" is any longer line that begins with Disconnect.
Lines   == {"blank", "Login", "Rpc", "Barrier", "Disconnect",
            "DisconnectNow"}
Gone    == {"exit", "killed"}

TypeOK ==
    /\ pc \in {"start", "syn", "suspend", "restore", "test", "openr", "openw",
               "disarm", "auth", "fgets", "reply", "authorised", "loop",
               "input", "teardown", "close", "join"} \cup Gone
    /\ inside \in BOOLEAN /\ logged \in BOOLEAN /\ masked \in BOOLEAN
    /\ conn \in {"IDLE", "SYN_SENT", "CONNECTED", "DISCONNECTED", "TIMED_OUT"}
    /\ pending \subseteq Signals /\ alarm \in BOOLEAN
    /\ reader \in {"none", "opening", "met", "open", "closed"}
    /\ writer \in {"none", "opening", "open", "closed"}
    /\ recv \in {"none", "call", "read", "dead"}
    /\ retval \in {"SUCCESS", "SIG_FAIL", "TIMEDOUT", "PIPE_FAIL"}
    /\ eof \in BOOLEAN /\ typed \in 0..MaxLines
    /\ shutdowns \in 0..MaxShutdowns
    /\ worker \in {"none", "queued", "made", "signalled", "trying", "opened",
                   "done", "failed", "down"}
    /\ tries \in 0..MAX_OPEN_RETRIES /\ fifos \in BOOLEAN
    /\ srd \in BOOLEAN /\ swr \in BOOLEAN
    /\ c2s \in Seq(Lines \ {"blank"}) /\ s2c \in Seq({"yes", "no", "done"})
    /\ session \in {"none", "open", "removed", "closed"}
    /\ authed \in BOOLEAN /\ tasks \in Seq({"Login", "Rpc", "Barrier"})
    /\ leak \in BOOLEAN

Init ==
    /\ pc = "start" /\ inside = FALSE /\ conn = "IDLE" /\ logged = FALSE
    /\ retval = "SUCCESS" /\ masked = FALSE /\ pending = {} /\ alarm = FALSE
    /\ shutdowns = 0 /\ reader = "none" /\ writer = "none" /\ recv = "none"
    /\ eof = FALSE /\ typed = 0
    /\ worker \in {"none", "down"} /\ tries = 0 /\ fifos = FALSE
    /\ srd = FALSE /\ swr = FALSE /\ c2s = <<>> /\ s2c = <<>>
    /\ session = "none" /\ authed = FALSE /\ tasks = <<>> /\ leak = FALSE
-----------------------------------------------------------------------------
(* Signals *)

\* sigusr2_handler, alarm_handler, shutdown_handler.
Handled == [SIGUSR2 |-> "CONNECTED", SIGALRM |-> "TIMED_OUT",
            SHUTDOWN |-> "DISCONNECTED"]

\* The calls a handled signal ends with EINTR. In read_until_delim the read
\* is tried again.
Interruptible == {"openr", "openw", "fgets", "input"}

\* perform_handshake fails in one of its opens.
HskFail ==
    /\ conn' = "DISCONNECTED" /\ retval' = "PIPE_FAIL"
    /\ pc' = "teardown" /\ inside' = FALSE
    /\ reader' = IF reader = "none" THEN "none" ELSE "closed"
    /\ writer' = "none"
    /\ UNCHANGED <<logged, recv>>

\* fgets returns NULL: authorise ends, or main leaves its loop.
NoInput ==
    /\ inside' = FALSE
    /\ IF pc = "fgets" THEN pc' = "authorised" /\ UNCHANGED logged
       ELSE pc' = "teardown" /\ logged' = FALSE
    /\ UNCHANGED <<retval, endVars>>

\* A handler runs, in sigsuspend or with an open mask, and ends the call the
\* thread is blocked in, unless the receiver was given the signal, or the
\* other side of the FIFO has come.
Deliver(s) ==
    /\ s \in pending /\ (~masked \/ pc = "suspend") /\ pc \notin Gone
    /\ pending' = pending \ {s}
    /\ \/ /\ inside /\ pc \in {"openr", "openw"} /\ reader # "met"
          /\ HskFail
       \/ /\ inside /\ pc \in {"fgets", "input"}
          /\ NoInput
          /\ conn' = IF pc = "fgets" THEN Handled[s] ELSE "DISCONNECTED"
       \/ /\ inside /\ pc \in Interruptible =>
                reader = "met" \/ recv \in {"call", "read"}
          /\ conn' = Handled[s]
          /\ UNCHANGED <<callVars, logged, retval, endVars>>
    /\ UNCHANGED <<masked, alarm, shutdowns, inputVars, serverVars>>

\* The alarm clock.
AlarmRings ==
    /\ alarm /\ pc \notin Gone
    /\ alarm' = FALSE /\ pending' = pending \cup {"SIGALRM"}
    /\ UNCHANGED <<callVars, stateVars, masked, shutdowns, endVars, inputVars,
                   serverVars>>

\* SIGINT, SIGTERM, SIGQUIT or SIGHUP.
SigShutdown ==
    /\ shutdowns < MaxShutdowns /\ pc \notin Gone
    /\ shutdowns' = shutdowns + 1 /\ pending' = pending \cup {"SHUTDOWN"}
    /\ UNCHANGED <<callVars, stateVars, masked, alarm, endVars, inputVars,
                   serverVars>>

\* Deviation: no alarm.
Armed_Not == FALSE

\* alarm(1)
Armed == TRUE

\* The process dies, and all it has open is closed.
Dies ==
    /\ pc' = "killed" /\ inside' = FALSE
    /\ reader' = IF reader = "none" THEN "none" ELSE "closed"
    /\ writer' = IF writer \in {"open", "closed"} THEN "closed" ELSE "none"
    /\ recv' = "dead"

\* SIGKILL.
Kill ==
    /\ pc \notin Gone /\ Dies
    /\ UNCHANGED <<stateVars, signalVars, inputVars, serverVars>>

\* The main thread is at a step, and no signal comes first.
At(s) == pc = s /\ (masked \/ pending = {})

Goto(s) == pc' = s /\ inside' = FALSE
-----------------------------------------------------------------------------
(* perform_handshake *)

\* Signals are blocked, the state is set, the alarm is armed.
Start ==
    /\ At("start") /\ Goto("syn")
    /\ masked' = TRUE /\ alarm' = Armed /\ conn' = "SYN_SENT"
    /\ UNCHANGED <<logged, retval, pending, shutdowns, endVars, inputVars,
                   serverVars>>

\* SIGUSR1 is sent; the server has no room for the pid when its pipe is full.
Syn ==
    /\ At("syn") /\ worker # "down" /\ Goto("suspend")
    /\ worker' \in {"queued", worker}
    /\ UNCHANGED <<stateVars, signalVars, endVars, inputVars, tries, fifos,
                   serverEnds, pipeVars, sessionVars>>

\* There is no such process.
SynFails ==
    /\ At("syn") /\ worker = "down" /\ Goto("teardown")
    /\ alarm' = FALSE /\ masked' = FALSE /\ retval' = "SIG_FAIL"
    /\ UNCHANGED <<conn, logged, pending, shutdowns, endVars, inputVars,
                   serverVars>>

\* The loop around sigsuspend ends; alarm(0).
Awake ==
    /\ pc = "suspend" /\ conn # "SYN_SENT" /\ Goto("restore")
    /\ alarm' = FALSE
    /\ UNCHANGED <<stateVars, masked, pending, shutdowns, endVars, inputVars,
                   serverVars>>

\* The old mask: what is pending is handled before the next step.
Restore ==
    /\ At("restore") /\ Goto("test") /\ masked' = FALSE
    /\ UNCHANGED <<stateVars, pending, alarm, shutdowns, endVars, inputVars,
                   serverVars>>

\* if (CONNECTION_STATE == TIMED_OUT)
Test ==
    /\ At("test")
    /\ IF conn = "TIMED_OUT"
       THEN Goto("teardown") /\ retval' = "TIMEDOUT" /\ UNCHANGED alarm
       ELSE Goto("openr") /\ alarm' = Armed /\ UNCHANGED retval
    /\ UNCHANGED <<conn, logged, masked, pending, shutdowns, endVars,
                   inputVars, serverVars>>

\* open(S2C, O_RDONLY) waits for a writer, if there is a FIFO.
OpenReader ==
    /\ At("openr") /\ reader = "none"
    /\ IF fifos
       THEN /\ reader' = "opening" /\ inside' = TRUE
            /\ UNCHANGED <<pc, stateVars, writer, recv>>
       ELSE HskFail
    /\ UNCHANGED <<signalVars, inputVars, serverVars>>

ReaderOpened ==
    /\ At("openr") /\ reader = "met"
    /\ reader' = "open" /\ Goto("openw")
    /\ UNCHANGED <<stateVars, signalVars, writer, recv, inputVars, serverVars>>

\* open(C2S, O_WRONLY) finds the server's end, waits for it, or fails.
OpenWriter ==
    /\ At("openw") /\ writer = "none"
    /\ IF ~fifos THEN HskFail
       ELSE IF srd
       THEN /\ writer' = "open" /\ Goto("disarm")
            /\ UNCHANGED <<stateVars, reader, recv>>
       ELSE /\ writer' = "opening" /\ inside' = TRUE
            /\ UNCHANGED <<pc, stateVars, reader, recv>>
    /\ UNCHANGED <<signalVars, inputVars, serverVars>>

\* alarm(0), reset_alarm_handler, pipes_opened = 1.
Disarm ==
    /\ At("disarm") /\ Goto("auth") /\ alarm' = FALSE
    /\ UNCHANGED <<stateVars, masked, pending, shutdowns, endVars, inputVars,
                   serverVars>>
-----------------------------------------------------------------------------
(* authorise, and the loop of main *)

\* while (CONNECTION_STATE == CONNECTED && LOGGED_IN)
Stays == conn = "CONNECTED" /\ logged

\* The tests of the two loops.
Loop ==
    /\ \/ At("auth") /\ Goto(IF conn = "CONNECTED" /\ ~logged THEN "fgets"
                             ELSE "authorised")
       \/ At("loop") /\ Goto(IF Stays THEN "input" ELSE "teardown")
    /\ UNCHANGED <<stateVars, signalVars, endVars, inputVars, serverVars>>

\* fgets finds nothing to read and blocks.
Block ==
    /\ At("fgets") \/ At("input")
    /\ ~inside /\ inside' = TRUE
    /\ UNCHANGED <<pc, stateVars, signalVars, endVars, inputVars, serverVars>>

\* Standard input is at its end.
InputEnds ==
    /\ ~eof /\ eof' = TRUE
    /\ UNCHANGED <<callVars, stateVars, signalVars, endVars, typed,
                   serverVars>>

Eof ==
    /\ At("fgets") \/ At("input")
    /\ eof /\ NoInput
    /\ conn' = IF pc = "fgets" THEN conn ELSE "DISCONNECTED"
    /\ UNCHANGED <<signalVars, inputVars, serverVars>>

\* A line of kind k is written, or SIGPIPE kills a client whose server has
\* closed its end.
Write(k, then) ==
    IF srd THEN c2s' = Append(c2s, k) /\ Goto(then) /\ UNCHANGED endVars
    ELSE Dies /\ UNCHANGED c2s

\* strncmp(INPUT, "Login ", 6)
Allowed(k) == k = "Login"

Types == ~eof /\ typed < MaxLines /\ typed' = typed + 1 /\ UNCHANGED eof

\* A line is typed before the login.
TypeLogin(k) ==
    /\ At("fgets") /\ Types
    /\ IF Allowed(k) THEN Write(k, "reply")
       ELSE Goto("auth") /\ UNCHANGED <<c2s, endVars>>
    /\ UNCHANGED <<stateVars, signalVars, hskVars, serverEnds, s2c,
                   sessionVars>>

\* send_user_input: strcmp(out, "Disconnect"), so a longer line is one more
\* request to this side.
TypeLine(k) ==
    /\ At("input") /\ Types
    /\ IF k = "blank" THEN Goto("loop") /\ UNCHANGED <<c2s, endVars>>
       ELSE Write(k, IF k = "Disconnect" THEN "teardown" ELSE "loop")
    /\ IF k = "Disconnect" /\ srd
       THEN conn' = "DISCONNECTED" /\ logged' = FALSE
       ELSE UNCHANGED <<conn, logged>>
    /\ UNCHANGED <<retval, signalVars, hskVars, serverEnds, s2c, sessionVars>>

\* Deviation: a rejected client goes on.
Accepted_Always(reply) == TRUE

\* strncmp(reply, "Reject", 6)
Accepted(reply) == reply = "yes"

\* The answer to Login, or the end of the FIFO.
Reply ==
    /\ At("reply") /\ Goto("authorised")
    /\ IF s2c # <<>>
       THEN /\ s2c' = Tail(s2c)
            /\ IF Accepted(Head(s2c)) THEN logged' = TRUE /\ UNCHANGED conn
               ELSE conn' = "DISCONNECTED" /\ UNCHANGED logged
       ELSE ~swr /\ UNCHANGED <<s2c, conn, logged>>
    /\ UNCHANGED <<retval, signalVars, endVars, inputVars, hskVars,
                   serverEnds, c2s, sessionVars>>

\* spawn_receiver, which may fail, when the client has been let in.
Spawn ==
    /\ At("authorised")
    /\ \/ logged /\ recv' = "call" /\ Goto("loop")
       \/ recv' = recv /\ Goto("teardown")
    /\ UNCHANGED <<stateVars, signalVars, reader, writer, inputVars,
                   serverVars>>
-----------------------------------------------------------------------------
(* The receiver thread *)

Receiver_Gone ==
    /\ recv' = "dead" /\ conn' = "DISCONNECTED" /\ logged' = FALSE

\* read is called; S_READ may have been closed meanwhile.
Receive ==
    /\ recv = "call" /\ pc \notin Gone
    /\ IF reader = "open" THEN recv' = "read" /\ UNCHANGED <<conn, logged>>
       ELSE Receiver_Gone
    /\ UNCHANGED <<callVars, retval, signalVars, reader, writer, inputVars,
                   serverVars>>

\* PIPE_CLOSED: the receiver ends, and main is to end.
Closed == Receiver_Gone

\* A reply is printed; the end of the FIFO ends the session.
PrintReply ==
    /\ recv = "read" /\ pc \notin Gone
    /\ \/ /\ s2c # <<>> /\ s2c' = Tail(s2c)
          /\ recv' = "call" /\ UNCHANGED <<conn, logged>>
       \/ s2c = <<>> /\ ~swr /\ Closed /\ UNCHANGED s2c
    /\ UNCHANGED <<callVars, retval, signalVars, reader, writer, inputVars,
                   hskVars, serverEnds, c2s, sessionVars>>
-----------------------------------------------------------------------------
(* The teardown of main *)

CloseReader ==
    /\ At("teardown")
    /\ IF reader = "open" /\ writer = "open"
       THEN reader' = "closed" /\ Goto("close")
       ELSE Goto("exit") /\ UNCHANGED reader
    /\ UNCHANGED <<stateVars, signalVars, writer, recv, inputVars, serverVars>>

\* Deviation: the client joins its receiver with C_WRITE open.
WriterClosed_Not == UNCHANGED writer

WriterClosed == writer' = "closed"

CloseWriter ==
    /\ At("close") /\ Goto("join") /\ WriterClosed
    /\ UNCHANGED <<stateVars, signalVars, reader, recv, inputVars, serverVars>>

Join ==
    /\ At("join") /\ recv \in {"none", "dead"} /\ Goto("exit")
    /\ writer' = "closed"
    /\ UNCHANGED <<stateVars, signalVars, reader, recv, inputVars, serverVars>>
-----------------------------------------------------------------------------
(* The server's half of the handshake *)

\* The reply FIFO has a reader, one that still waits in open or in read too.
HasReader == reader \in {"opening", "met", "open"} \/ recv = "read"

workerFrame == <<clientVars, pipeVars, sessionVars>>

\* unlink and mkfifo, with the mode mask set to 0 for the time.
MakeFifos ==
    /\ worker = "queued"
    /\ \/ worker' = "made" /\ fifos' = TRUE
       \/ worker' = "failed" /\ fifos' = FALSE
    /\ UNCHANGED <<workerFrame, tries, serverEnds>>

\* kill(client_pid, SIGUSR2)
SignalClient ==
    /\ worker = "made"
    /\ IF pc \in Gone
       THEN worker' = "failed" /\ fifos' = FALSE /\ UNCHANGED pending
       ELSE /\ worker' = "signalled" /\ UNCHANGED fifos
            /\ pending' = pending \cup {"SIGUSR2"}
    /\ UNCHANGED <<callVars, stateVars, masked, alarm, shutdowns, endVars,
                   inputVars, tries, serverEnds, pipeVars, sessionVars>>

\* open(C2S, O_NONBLOCK | O_RDONLY)
OpenC2S ==
    /\ worker = "signalled"
    /\ \/ worker' = "trying" /\ srd' = TRUE /\ UNCHANGED fifos
       \/ worker' = "failed" /\ fifos' = FALSE /\ UNCHANGED srd
    /\ UNCHANGED <<workerFrame, tries, swr>>

\* Deviation: one attempt more than is meant.
Again_OneMore == tries <= MAX_OPEN_RETRIES

\* attempts < MAX_OPEN_RETRIES
Again == tries < MAX_OPEN_RETRIES

\* open(S2C, O_NONBLOCK | O_WRONLY), again while nobody reads.
OpenS2C ==
    /\ worker = "trying"
    /\ \/ /\ HasReader /\ swr' = TRUE /\ worker' = "opened"
          /\ reader' = IF reader = "opening" THEN "met" ELSE reader
          /\ UNCHANGED <<tries, fifos, srd>>
       \/ /\ ~HasReader /\ Again
          /\ tries' = tries + 1
          /\ UNCHANGED <<worker, fifos, serverEnds, reader>>
       \/ /\ ~HasReader /\ ~Again
          /\ worker' = "failed" /\ srd' = FALSE /\ fifos' = FALSE
          /\ UNCHANGED <<tries, swr, reader>>
    /\ UNCHANGED <<callVars, stateVars, signalVars, writer, recv, inputVars,
                   pipeVars, sessionVars>>

\* The result HSK_OK is written, and a full pipe loses it with the FIFOs.
HskReport ==
    /\ worker = "opened" /\ worker' = "done"
    /\ leak' \in BOOLEAN
    /\ UNCHANGED <<clientVars, tries, fifos, serverEnds, pipeVars, session,
                   authed, tasks>>
-----------------------------------------------------------------------------
(* The session of the main loop, in outline *)

Ended == srd' = FALSE /\ swr' = FALSE /\ fifos' = FALSE /\ session' = "closed"

\* HSK_OK: a record and a poll slot, or both FIFOs are closed.
HskOk ==
    /\ worker = "done" /\ ~leak /\ session = "none"
    /\ \/ session' = "open" /\ UNCHANGED <<serverEnds, fifos>>
       \/ Ended
    /\ UNCHANGED <<clientVars, worker, tries, pipeVars, authed, tasks, leak>>

\* strncmp(cmd, "Disconnect", 10)
Quits(k) == k \in {"Disconnect", "DisconnectNow"}

\* handle_command: a task, the end of the session, or nothing.
Sweep ==
    /\ session = "open" /\ c2s # <<>>
    /\ LET k == Head(c2s) IN
       /\ session' = IF Quits(k) THEN "removed" ELSE session
       /\ tasks' = IF (k = "Login") # authed /\ ~Quits(k)
                   THEN Append(tasks, k) ELSE tasks
    /\ c2s' = Tail(c2s)
    /\ UNCHANGED <<clientVars, hskVars, serverEnds, s2c, authed, leak>>

\* The end of the FIFO, once it has had a writer.
Hangup ==
    /\ session = "open" /\ c2s = <<>> /\ writer = "closed"
    /\ session' = "removed"
    /\ UNCHANGED <<clientVars, hskVars, serverEnds, pipeVars, authed, tasks,
                   leak>>

\* A client that does not read is not told, nor one whose FIFO is full.
Says(a) ==
    s2c' = IF HasReader /\ Len(s2c) < ReplyCap THEN Append(s2c, a) ELSE s2c

\* The result of the oldest task is handled, or there is none: BARRIER has
\* no result, and a full pipe loses any.
Answer ==
    /\ tasks # <<>> /\ session \in {"open", "removed"}
    /\ tasks' = Tail(tasks)
    /\ \/ /\ Head(tasks) = "Login" /\ Says("yes") /\ authed' = TRUE
          /\ UNCHANGED <<session, leak>>
       \/ /\ Head(tasks) = "Login" /\ Says("no") /\ session' = "removed"
          /\ UNCHANGED <<authed, leak>>
       \/ /\ Head(tasks) = "Rpc" /\ Says("done")
          /\ UNCHANGED <<session, authed, leak>>
       \/ leak' = TRUE /\ UNCHANGED <<s2c, session, authed>>
    /\ UNCHANGED <<clientVars, hskVars, serverEnds, c2s>>

\* Deviation: the write end of the reply FIFO is forgotten.
Freed_HalfClosed ==
    srd' = FALSE /\ fifos' = FALSE /\ session' = "closed" /\ UNCHANGED swr

\* destroy_client_pipes, with the last reference.
Freed == Ended

Free ==
    /\ session = "removed" /\ tasks = <<>> /\ ~leak
    /\ Freed
    /\ UNCHANGED <<clientVars, worker, tries, pipeVars, authed, tasks, leak>>

\* The server ends: no thread is in a handshake; a client it knows is
\* destroyed, the FIFOs of one it does not know are closed only.
ServerEnds ==
    /\ worker \notin {"made", "signalled", "trying", "opened", "down"}
    /\ worker' = "down" /\ srd' = FALSE /\ swr' = FALSE
    /\ fifos' = (fifos /\ session = "none")
    /\ session' = IF session = "none" THEN "none" ELSE "closed"
    /\ tasks' = <<>> /\ leak' = FALSE
    /\ UNCHANGED <<clientVars, tries, pipeVars, authed>>
-----------------------------------------------------------------------------
ClientStep ==
    \/ Start \/ Syn \/ SynFails \/ Awake \/ Restore \/ Test
    \/ OpenReader \/ ReaderOpened \/ OpenWriter \/ Disarm
    \/ Loop \/ Eof \/ Reply \/ Spawn
    \/ CloseReader \/ CloseWriter \/ Join
    \/ \E s \in Signals : Deliver(s)

ReceiverStep == Receive \/ PrintReply

Operator ==
    \/ SigShutdown \/ Kill \/ InputEnds \/ Block
    \/ \E k \in Lines : TypeLogin(k) \/ TypeLine(k)

ServerStep ==
    \/ MakeFifos \/ SignalClient \/ OpenC2S \/ OpenS2C \/ HskReport
    \/ HskOk \/ Sweep \/ Hangup \/ Answer \/ Free

Next ==
    \/ ClientStep \/ ReceiverStep \/ AlarmRings \/ Operator
    \/ ServerStep \/ ServerEnds

Spec == Init /\ [][Next]_vars

\* The threads of both programs run when they can, and clocks ring. Nobody
\* has to type anything, or to stop the server.
FairSpec ==
    /\ Spec
    /\ WF_vars(ClientStep) /\ WF_vars(ReceiverStep) /\ WF_vars(AlarmRings)
    /\ WF_vars(ServerStep)
=============================================================================
