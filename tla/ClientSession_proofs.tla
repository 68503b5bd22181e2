------------------------- MODULE ClientSession_proofs --------------------------
(***************************************************************************)
(* A client, with its signals, its alarm, its threads and its descriptors, *)
(* is the peer AnimateServer takes it to be.                               *)
(***************************************************************************)
EXTENDS ClientSessionProperties, SequenceTheorems, TLAPS

\* Before the main thread has opened the reply FIFO; and while it has both.
Early  == {"start", "syn", "suspend", "restore", "test", "openr"}
Served == {"disarm", "auth", "fgets", "reply", "authorised", "loop", "input"}

\* Where the main thread is says which ends it has open, and nobody is logged
\* in before an answer.
EndsAt ==
    /\ pc \in Early => writer = "none"
    /\ pc = "openw" => writer \in {"none", "opening"} /\ reader = "open"
    /\ pc \in Served => writer = "open"
    /\ pc \in {"close", "join"} => writer \in {"open", "closed"}
    /\ pc \in Early \cup {"openw", "disarm", "auth", "fgets", "reply"} => ~logged

\* Whoever is accepted, or reads that it is, has been let in, and the server
\* has nothing from a client that has not said Login.
LetInFirst ==
    /\ \A i \in DOMAIN s2c : s2c[i] = "yes" => authed
    /\ Cli = "rpc" => authed
    /\ Cli \in {"syn", "half", "login", "gone"} => c2s = <<>> /\ tasks = <<>>

SessionInv == TypeOK /\ EndsAt /\ LetInFirst
-----------------------------------------------------------------------------
(* Types *)

\* TypeOK, one group of variables at a time.
CallOK ==
    /\ pc \in Early \cup Served \cup {"openw", "teardown", "close", "join"}
             \cup Gone
    /\ inside \in BOOLEAN

StateOK ==
    /\ conn \in {"IDLE", "SYN_SENT", "CONNECTED", "DISCONNECTED", "TIMED_OUT"}
    /\ logged \in BOOLEAN
    /\ retval \in {"SUCCESS", "SIG_FAIL", "TIMEDOUT", "PIPE_FAIL"}

SignalOK ==
    /\ masked \in BOOLEAN /\ pending \subseteq Signals /\ alarm \in BOOLEAN
    /\ shutdowns \in 0..MaxShutdowns

EndOK ==
    /\ reader \in {"none", "opening", "met", "open", "closed"}
    /\ writer \in {"none", "opening", "open", "closed"}
    /\ recv \in {"none", "call", "read", "dead"}

InputOK == eof \in BOOLEAN /\ typed \in 0..MaxLines

HandshakeOK ==
    /\ worker \in {"none", "queued", "made", "signalled", "trying", "opened",
                   "done", "failed", "down"}
    /\ tries \in 0..MAX_OPEN_RETRIES /\ fifos \in BOOLEAN

ServerEndOK == srd \in BOOLEAN /\ swr \in BOOLEAN

PipeOK == c2s \in Seq(Lines \ {"blank"}) /\ s2c \in Seq({"yes", "no", "done"})

RecordOK ==
    /\ session \in {"none", "open", "removed", "closed"}
    /\ authed \in BOOLEAN /\ tasks \in Seq({"Login", "Rpc", "Barrier"})
    /\ leak \in BOOLEAN

GroupsOK ==
    /\ CallOK /\ StateOK /\ SignalOK /\ EndOK /\ InputOK
    /\ HandshakeOK /\ ServerEndOK /\ PipeOK /\ RecordOK

\* The groups are all of TypeOK.
LEMMA TypeGroups == TypeOK <=> GroupsOK
<1>1. TypeOK => GroupsOK
  BY DEF TypeOK, GroupsOK, CallOK, StateOK, SignalOK, EndOK, InputOK,
         HandshakeOK, ServerEndOK, PipeOK, RecordOK, Early, Served
<1>2. GroupsOK => TypeOK
  BY DEF TypeOK, GroupsOK, CallOK, StateOK, SignalOK, EndOK, InputOK,
         HandshakeOK, ServerEndOK, PipeOK, RecordOK, Early, Served
<1> QED
  BY <1>1, <1>2

\* What no step touches keeps its type.
LEMMA TypeFrames ==
    ASSUME GroupsOK
    PROVE
    /\ UNCHANGED callVars => CallOK'
    /\ UNCHANGED stateVars => StateOK'
    /\ UNCHANGED signalVars => SignalOK'
    /\ UNCHANGED endVars => EndOK'
    /\ UNCHANGED inputVars => InputOK'
    /\ UNCHANGED hskVars => HandshakeOK'
    /\ UNCHANGED serverEnds => ServerEndOK'
    /\ UNCHANGED pipeVars => PipeOK'
    /\ UNCHANGED sessionVars => RecordOK'
<1>1. UNCHANGED callVars => CallOK'
  BY DEF GroupsOK, CallOK, callVars
<1>2. UNCHANGED stateVars => StateOK'
  BY DEF GroupsOK, StateOK, stateVars
<1>3. UNCHANGED signalVars => SignalOK'
  BY DEF GroupsOK, SignalOK, signalVars
<1>4. UNCHANGED endVars => EndOK'
  BY DEF GroupsOK, EndOK, endVars
<1>5. UNCHANGED inputVars => InputOK'
  BY DEF GroupsOK, InputOK, inputVars
<1>6. UNCHANGED hskVars => HandshakeOK'
  BY DEF GroupsOK, HandshakeOK, hskVars
<1>7. UNCHANGED serverEnds => ServerEndOK'
  BY DEF GroupsOK, ServerEndOK, serverEnds
<1>8. UNCHANGED pipeVars => PipeOK'
  BY DEF GroupsOK, PipeOK, pipeVars
<1>9. UNCHANGED sessionVars => RecordOK'
  BY DEF GroupsOK, RecordOK, sessionVars
<1> QED
  BY <1>1, <1>2, <1>3, <1>4, <1>5, <1>6, <1>7, <1>8, <1>9

\* Every variable keeps its range.
LEMMA TypeStep == GroupsOK /\ [Next]_vars => GroupsOK'
<1> SUFFICES ASSUME GroupsOK, [Next]_vars PROVE GroupsOK'
  OBVIOUS
<1> USE SessionConstants DEF callVars, stateVars, signalVars, endVars, inputVars,
       clientVars, hskVars, serverEnds, pipeVars, sessionVars, serverVars,
       GroupsOK, Early, Served, Gone
<1>1. CASE Start
  <2>1. CallOK'
    BY <1>1 DEF Start, At, Goto, Armed, CallOK
  <2>2. StateOK'
    BY <1>1 DEF Start, At, Goto, Armed, StateOK
  <2>3. SignalOK'
    BY <1>1 DEF Start, At, Goto, Armed, SignalOK, Signals
  <2>4. UNCHANGED <<endVars, inputVars, hskVars, serverEnds, pipeVars,
                    sessionVars>>
    BY <1>1 DEF Start
  <2> QED
    BY <2>1, <2>2, <2>3, <2>4, TypeFrames DEF GroupsOK
<1>2. CASE Syn
  <2>1. CallOK'
    BY <1>2 DEF Syn, At, Goto, CallOK
  <2>2. HandshakeOK'
    BY <1>2 DEF Syn, At, Goto, HandshakeOK
  <2>3. UNCHANGED <<stateVars, signalVars, endVars, inputVars, serverEnds,
                    pipeVars, sessionVars>>
    BY <1>2 DEF Syn
  <2> QED
    BY <2>1, <2>2, <2>3, TypeFrames DEF GroupsOK
<1>3. CASE SynFails
  <2>1. CallOK'
    BY <1>3 DEF SynFails, At, Goto, CallOK
  <2>2. StateOK'
    BY <1>3 DEF SynFails, At, Goto, StateOK
  <2>3. SignalOK'
    BY <1>3 DEF SynFails, At, Goto, SignalOK, Signals
  <2>4. UNCHANGED <<endVars, inputVars, hskVars, serverEnds, pipeVars,
                    sessionVars>>
    BY <1>3 DEF SynFails
  <2> QED
    BY <2>1, <2>2, <2>3, <2>4, TypeFrames DEF GroupsOK
<1>4. CASE Awake
  <2>1. CallOK'
    BY <1>4 DEF Awake, Goto, CallOK
  <2>2. SignalOK'
    BY <1>4 DEF Awake, Goto, SignalOK, Signals
  <2>3. UNCHANGED <<stateVars, endVars, inputVars, hskVars, serverEnds,
                    pipeVars, sessionVars>>
    BY <1>4 DEF Awake
  <2> QED
    BY <2>1, <2>2, <2>3, TypeFrames DEF GroupsOK
<1>5. CASE Restore
  <2>1. CallOK'
    BY <1>5 DEF Restore, At, Goto, CallOK
  <2>2. SignalOK'
    BY <1>5 DEF Restore, At, Goto, SignalOK, Signals
  <2>3. UNCHANGED <<stateVars, endVars, inputVars, hskVars, serverEnds,
                    pipeVars, sessionVars>>
    BY <1>5 DEF Restore
  <2> QED
    BY <2>1, <2>2, <2>3, TypeFrames DEF GroupsOK
<1>6. CASE Test
  <2>1. CallOK'
    BY <1>6 DEF Test, At, Goto, Armed, CallOK
  <2>2. StateOK'
    BY <1>6 DEF Test, At, Goto, Armed, StateOK
  <2>3. SignalOK'
    BY <1>6 DEF Test, At, Goto, Armed, SignalOK, Signals
  <2>4. UNCHANGED <<endVars, inputVars, hskVars, serverEnds, pipeVars,
                    sessionVars>>
    BY <1>6 DEF Test
  <2> QED
    BY <2>1, <2>2, <2>3, <2>4, TypeFrames DEF GroupsOK
<1>7. CASE OpenReader
  <2>1. CallOK'
    BY <1>7 DEF OpenReader, At, HskFail, CallOK
  <2>2. StateOK'
    BY <1>7 DEF OpenReader, At, HskFail, StateOK
  <2>3. EndOK'
    BY <1>7 DEF OpenReader, At, HskFail, EndOK
  <2>4. UNCHANGED <<signalVars, inputVars, hskVars, serverEnds, pipeVars,
                    sessionVars>>
    BY <1>7 DEF OpenReader
  <2> QED
    BY <2>1, <2>2, <2>3, <2>4, TypeFrames DEF GroupsOK
<1>8. CASE ReaderOpened
  <2>1. CallOK'
    BY <1>8 DEF ReaderOpened, At, Goto, CallOK
  <2>2. EndOK'
    BY <1>8 DEF ReaderOpened, At, Goto, EndOK
  <2>3. UNCHANGED <<stateVars, signalVars, inputVars, hskVars, serverEnds,
                    pipeVars, sessionVars>>
    BY <1>8 DEF ReaderOpened
  <2> QED
    BY <2>1, <2>2, <2>3, TypeFrames DEF GroupsOK
<1>9. CASE OpenWriter
  <2>1. CallOK'
    BY <1>9 DEF OpenWriter, At, Goto, HskFail, CallOK
  <2>2. StateOK'
    BY <1>9 DEF OpenWriter, At, Goto, HskFail, StateOK
  <2>3. EndOK'
    BY <1>9 DEF OpenWriter, At, Goto, HskFail, EndOK
  <2>4. UNCHANGED <<signalVars, inputVars, hskVars, serverEnds, pipeVars,
                    sessionVars>>
    BY <1>9 DEF OpenWriter
  <2> QED
    BY <2>1, <2>2, <2>3, <2>4, TypeFrames DEF GroupsOK
<1>10. CASE Disarm
  <2>1. CallOK'
    BY <1>10 DEF Disarm, At, Goto, CallOK
  <2>2. SignalOK'
    BY <1>10 DEF Disarm, At, Goto, SignalOK, Signals
  <2>3. UNCHANGED <<stateVars, endVars, inputVars, hskVars, serverEnds,
                    pipeVars, sessionVars>>
    BY <1>10 DEF Disarm
  <2> QED
    BY <2>1, <2>2, <2>3, TypeFrames DEF GroupsOK
<1>11. CASE Loop
  <2>1. CallOK'
    BY <1>11 DEF Loop, At, Goto, Stays, CallOK
  <2>2. UNCHANGED <<stateVars, signalVars, endVars, inputVars, hskVars,
                    serverEnds, pipeVars, sessionVars>>
    BY <1>11 DEF Loop
  <2> QED
    BY <2>1, <2>2, TypeFrames DEF GroupsOK
<1>12. CASE Eof
  <2>1. CallOK'
    BY <1>12 DEF Eof, At, NoInput, CallOK
  <2>2. StateOK'
    BY <1>12 DEF Eof, At, NoInput, StateOK
  <2>3. UNCHANGED <<signalVars, endVars, inputVars, hskVars, serverEnds,
                    pipeVars, sessionVars>>
    BY <1>12 DEF Eof, NoInput
  <2> QED
    BY <2>1, <2>2, <2>3, TypeFrames DEF GroupsOK
<1>13. CASE Reply
  <2>1. CallOK'
    BY <1>13 DEF Reply, At, Goto, Accepted, CallOK
  <2>2. StateOK'
    BY <1>13 DEF Reply, At, Goto, Accepted, StateOK
  <2>3. PipeOK'
    BY <1>13, HeadTailProperties, SMTT(30) DEF Reply, At, Goto, Accepted, PipeOK,
       pipeVars, Lines, GroupsOK
  <2>4. UNCHANGED <<signalVars, endVars, inputVars, hskVars, serverEnds,
                    sessionVars>>
    BY <1>13 DEF Reply
  <2> QED
    BY <2>1, <2>2, <2>3, <2>4, TypeFrames DEF GroupsOK
<1>14. CASE Spawn
  <2>1. CallOK'
    BY <1>14 DEF Spawn, At, Goto, CallOK
  <2>2. EndOK'
    BY <1>14 DEF Spawn, At, Goto, EndOK
  <2>3. UNCHANGED <<stateVars, signalVars, inputVars, hskVars, serverEnds,
                    pipeVars, sessionVars>>
    BY <1>14 DEF Spawn
  <2> QED
    BY <2>1, <2>2, <2>3, TypeFrames DEF GroupsOK
<1>15. CASE CloseReader
  <2>1. CallOK'
    BY <1>15 DEF CloseReader, At, Goto, CallOK
  <2>2. EndOK'
    BY <1>15 DEF CloseReader, At, Goto, EndOK
  <2>3. UNCHANGED <<stateVars, signalVars, inputVars, hskVars, serverEnds,
                    pipeVars, sessionVars>>
    BY <1>15 DEF CloseReader
  <2> QED
    BY <2>1, <2>2, <2>3, TypeFrames DEF GroupsOK
<1>16. CASE CloseWriter
  <2>1. CallOK'
    BY <1>16 DEF CloseWriter, At, Goto, WriterClosed, CallOK
  <2>2. EndOK'
    BY <1>16 DEF CloseWriter, At, Goto, WriterClosed, EndOK
  <2>3. UNCHANGED <<stateVars, signalVars, inputVars, hskVars, serverEnds,
                    pipeVars, sessionVars>>
    BY <1>16 DEF CloseWriter
  <2> QED
    BY <2>1, <2>2, <2>3, TypeFrames DEF GroupsOK
<1>17. CASE Join
  <2>1. CallOK'
    BY <1>17 DEF Join, At, Goto, CallOK
  <2>2. EndOK'
    BY <1>17 DEF Join, At, Goto, EndOK
  <2>3. UNCHANGED <<stateVars, signalVars, inputVars, hskVars, serverEnds,
                    pipeVars, sessionVars>>
    BY <1>17 DEF Join
  <2> QED
    BY <2>1, <2>2, <2>3, TypeFrames DEF GroupsOK
<1>18. CASE Receive
  <2>1. StateOK'
    BY <1>18 DEF Receive, Receiver_Gone, StateOK
  <2>2. EndOK'
    BY <1>18 DEF Receive, Receiver_Gone, EndOK
  <2>3. UNCHANGED <<callVars, signalVars, inputVars, hskVars, serverEnds,
                    pipeVars, sessionVars>>
    BY <1>18 DEF Receive
  <2> QED
    BY <2>1, <2>2, <2>3, TypeFrames DEF GroupsOK
<1>19. CASE PrintReply
  <2>1. StateOK'
    BY <1>19 DEF PrintReply, Closed, Receiver_Gone, StateOK
  <2>2. EndOK'
    BY <1>19 DEF PrintReply, Closed, Receiver_Gone, EndOK
  <2>3. PipeOK'
    BY <1>19, HeadTailProperties DEF PrintReply, Closed, Receiver_Gone, Gone,
       PipeOK, pipeVars, Lines, GroupsOK
  <2>4. UNCHANGED <<callVars, signalVars, inputVars, hskVars, serverEnds,
                    sessionVars>>
    BY <1>19 DEF PrintReply
  <2> QED
    BY <2>1, <2>2, <2>3, <2>4, TypeFrames DEF GroupsOK
<1>20. CASE AlarmRings
  <2>1. SignalOK'
    BY <1>20 DEF AlarmRings, SignalOK, Signals
  <2>2. UNCHANGED <<callVars, stateVars, endVars, inputVars, hskVars,
                    serverEnds, pipeVars, sessionVars>>
    BY <1>20 DEF AlarmRings
  <2> QED
    BY <2>1, <2>2, TypeFrames DEF GroupsOK
<1>21. CASE SigShutdown
  <2>1. SignalOK'
    BY <1>21 DEF SigShutdown, SignalOK, Signals
  <2>2. UNCHANGED <<callVars, stateVars, endVars, inputVars, hskVars,
                    serverEnds, pipeVars, sessionVars>>
    BY <1>21 DEF SigShutdown
  <2> QED
    BY <2>1, <2>2, TypeFrames DEF GroupsOK
<1>22. CASE Kill
  <2>1. CallOK'
    BY <1>22 DEF Kill, Dies, CallOK
  <2>2. EndOK'
    BY <1>22 DEF Kill, Dies, EndOK
  <2>3. UNCHANGED <<stateVars, signalVars, inputVars, hskVars, serverEnds,
                    pipeVars, sessionVars>>
    BY <1>22 DEF Kill
  <2> QED
    BY <2>1, <2>2, <2>3, TypeFrames DEF GroupsOK
<1>23. CASE InputEnds
  <2>1. InputOK'
    BY <1>23 DEF InputEnds, InputOK
  <2>2. UNCHANGED <<callVars, stateVars, signalVars, endVars, hskVars,
                    serverEnds, pipeVars, sessionVars>>
    BY <1>23 DEF InputEnds
  <2> QED
    BY <2>1, <2>2, TypeFrames DEF GroupsOK
<1>24. CASE Block
  <2>1. CallOK'
    BY <1>24 DEF Block, At, CallOK
  <2>2. UNCHANGED <<stateVars, signalVars, endVars, inputVars, hskVars,
                    serverEnds, pipeVars, sessionVars>>
    BY <1>24 DEF Block
  <2> QED
    BY <2>1, <2>2, TypeFrames DEF GroupsOK
<1>25. CASE MakeFifos
  <2>1. HandshakeOK'
    BY <1>25 DEF MakeFifos, workerFrame, HandshakeOK
  <2>2. UNCHANGED <<callVars, stateVars, signalVars, endVars, inputVars,
                    serverEnds, pipeVars, sessionVars>>
    BY <1>25 DEF MakeFifos, workerFrame
  <2> QED
    BY <2>1, <2>2, TypeFrames DEF GroupsOK
<1>26. CASE SignalClient
  <2>1. HandshakeOK'
    BY <1>26 DEF SignalClient, HandshakeOK
  <2>2. SignalOK'
    BY <1>26 DEF SignalClient, SignalOK, Signals
  <2>3. UNCHANGED <<callVars, stateVars, endVars, inputVars, serverEnds,
                    pipeVars, sessionVars>>
    BY <1>26 DEF SignalClient
  <2> QED
    BY <2>1, <2>2, <2>3, TypeFrames DEF GroupsOK
<1>27. CASE OpenC2S
  <2>1. HandshakeOK'
    BY <1>27 DEF OpenC2S, workerFrame, HandshakeOK
  <2>2. ServerEndOK'
    BY <1>27 DEF OpenC2S, workerFrame, ServerEndOK
  <2>3. UNCHANGED <<callVars, stateVars, signalVars, endVars, inputVars,
                    pipeVars, sessionVars>>
    BY <1>27 DEF OpenC2S, workerFrame
  <2> QED
    BY <2>1, <2>2, <2>3, TypeFrames DEF GroupsOK
<1>28. CASE OpenS2C
  <2>1. HandshakeOK'
    <3>1. \/ tries' = tries
          \/ tries < MAX_OPEN_RETRIES /\ tries' = tries + 1
      BY <1>28 DEF OpenS2C, Again
    <3>2. tries' \in 0..MAX_OPEN_RETRIES
      BY <3>1 DEF HandshakeOK
    <3>3. /\ worker' \in {worker, "opened", "failed"}
          /\ fifos' \in {fifos, FALSE}
      BY <1>28 DEF OpenS2C
    <3> QED
      BY <3>2, <3>3 DEF HandshakeOK
  <2>2. ServerEndOK'
    BY <1>28 DEF OpenS2C, HasReader, Again, ServerEndOK
  <2>3. EndOK'
    BY <1>28 DEF OpenS2C, HasReader, Again, EndOK
  <2>4. UNCHANGED <<callVars, stateVars, signalVars, inputVars, pipeVars,
                    sessionVars>>
    BY <1>28 DEF OpenS2C
  <2> QED
    BY <2>1, <2>2, <2>3, <2>4, TypeFrames DEF GroupsOK
<1>29. CASE HskReport
  <2>1. HandshakeOK'
    BY <1>29 DEF HskReport, HandshakeOK
  <2>2. RecordOK'
    BY <1>29 DEF HskReport, RecordOK
  <2>3. UNCHANGED <<callVars, stateVars, signalVars, endVars, inputVars,
                    serverEnds, pipeVars>>
    BY <1>29 DEF HskReport
  <2> QED
    BY <2>1, <2>2, <2>3, TypeFrames DEF GroupsOK
<1>30. CASE HskOk
  <2>1. HandshakeOK'
    BY <1>30 DEF HskOk, Ended, HandshakeOK
  <2>2. ServerEndOK'
    BY <1>30 DEF HskOk, Ended, ServerEndOK
  <2>3. RecordOK'
    BY <1>30 DEF HskOk, Ended, RecordOK
  <2>4. UNCHANGED <<callVars, stateVars, signalVars, endVars, inputVars,
                    pipeVars>>
    BY <1>30 DEF HskOk
  <2> QED
    BY <2>1, <2>2, <2>3, <2>4, TypeFrames DEF GroupsOK
<1>31. CASE Sweep
  <2>1. PipeOK'
    BY <1>31, HeadTailProperties, AppendProperties DEF Sweep, PipeOK, pipeVars,
       Lines, GroupsOK
  <2>2. RecordOK'
    <3>1. Head(c2s) \in Lines \ {"blank"}
      BY <1>31, HeadTailProperties DEF Sweep, GroupsOK, PipeOK
    <3>2. tasks' \in {tasks, Append(tasks, Head(c2s))}
      BY <1>31 DEF Sweep
    <3>3. Quits(Head(c2s)) => tasks' = tasks
      BY <1>31 DEF Sweep
    <3>4. tasks' \in Seq({"Login", "Rpc", "Barrier"})
      BY <3>1, <3>2, <3>3, AppendProperties
      DEF GroupsOK, RecordOK, Lines, Quits
    <3>5. session' \in {session, "removed"} /\ UNCHANGED <<authed, leak>>
      BY <1>31 DEF Sweep
    <3> QED
      BY <3>4, <3>5 DEF RecordOK
  <2>3. UNCHANGED <<callVars, stateVars, signalVars, endVars, inputVars,
                    hskVars, serverEnds>>
    BY <1>31 DEF Sweep
  <2> QED
    BY <2>1, <2>2, <2>3, TypeFrames DEF GroupsOK
<1>32. CASE Hangup
  <2>1. RecordOK'
    BY <1>32 DEF Hangup, RecordOK
  <2>2. UNCHANGED <<callVars, stateVars, signalVars, endVars, inputVars,
                    hskVars, serverEnds, pipeVars>>
    BY <1>32 DEF Hangup
  <2> QED
    BY <2>1, <2>2, TypeFrames DEF GroupsOK
<1>33. CASE Answer
  <2>1. PipeOK'
    BY <1>33, AppendProperties, ZenonT(60) DEF Answer, Says, HasReader, PipeOK, pipeVars,
       Lines, GroupsOK
  <2>2. RecordOK'
    BY <1>33, HeadTailProperties, AppendProperties DEF Answer, Says, HasReader,
       RecordOK, sessionVars, GroupsOK
  <2>3. UNCHANGED <<callVars, stateVars, signalVars, endVars, inputVars,
                    hskVars, serverEnds>>
    BY <1>33 DEF Answer
  <2> QED
    BY <2>1, <2>2, <2>3, TypeFrames DEF GroupsOK
<1>34. CASE Free
  <2>1. HandshakeOK'
    BY <1>34 DEF Free, Freed, Ended, HandshakeOK
  <2>2. ServerEndOK'
    BY <1>34 DEF Free, Freed, Ended, ServerEndOK
  <2>3. RecordOK'
    BY <1>34 DEF Free, Freed, Ended, RecordOK
  <2>4. UNCHANGED <<callVars, stateVars, signalVars, endVars, inputVars,
                    pipeVars>>
    BY <1>34 DEF Free
  <2> QED
    BY <2>1, <2>2, <2>3, <2>4, TypeFrames DEF GroupsOK
<1>35. CASE ServerEnds
  <2>1. HandshakeOK'
    BY <1>35 DEF ServerEnds, HandshakeOK
  <2>2. ServerEndOK'
    BY <1>35 DEF ServerEnds, ServerEndOK
  <2>3. RecordOK'
    BY <1>35, EmptySeq DEF ServerEnds, RecordOK, sessionVars, GroupsOK
  <2>4. UNCHANGED <<callVars, stateVars, signalVars, endVars, inputVars,
                    pipeVars>>
    BY <1>35 DEF ServerEnds
  <2> QED
    BY <2>1, <2>2, <2>3, <2>4, TypeFrames DEF GroupsOK
<1>36. ASSUME NEW s \in Signals, Deliver(s) PROVE GroupsOK'
  <2>1. CallOK'
    BY <1>36 DEF Deliver, HskFail, NoInput, Interruptible, Signals, CallOK
  <2>2. StateOK'
    <3>1. Handled[s] \in {"CONNECTED", "TIMED_OUT", "DISCONNECTED"}
      BY <1>36 DEF Handled, Signals
    <3> QED
      BY <1>36, <3>1
      DEF Deliver, HskFail, NoInput, StateOK, stateVars, GroupsOK
  <2>3. SignalOK'
    BY <1>36 DEF Deliver, HskFail, NoInput, Interruptible, Signals, SignalOK
  <2>4. EndOK'
    BY <1>36 DEF Deliver, HskFail, NoInput, Interruptible, Signals, EndOK
  <2>5. UNCHANGED <<inputVars, hskVars, serverEnds, pipeVars, sessionVars>>
    BY <1>36 DEF Deliver, NoInput
  <2> QED
    BY <2>1, <2>2, <2>3, <2>4, <2>5, TypeFrames DEF GroupsOK
<1>37. ASSUME NEW k \in Lines, TypeLogin(k) PROVE GroupsOK'
  <2>1. CallOK'
    BY <1>37 DEF TypeLogin, At, Types, Allowed, Write, Goto, Dies, CallOK
  <2>2. EndOK'
    BY <1>37 DEF TypeLogin, At, Types, Allowed, Write, Goto, Dies, EndOK
  <2>3. InputOK'
    BY <1>37 DEF TypeLogin, At, Types, Allowed, Write, Goto, Dies, InputOK
  <2>4. PipeOK'
    BY <1>37, AppendProperties DEF TypeLogin, At, Types, Allowed, Write, Goto,
       Dies, PipeOK, pipeVars, Lines, GroupsOK
  <2>5. UNCHANGED <<stateVars, signalVars, hskVars, serverEnds, sessionVars>>
    BY <1>37 DEF TypeLogin
  <2> QED
    BY <2>1, <2>2, <2>3, <2>4, <2>5, TypeFrames DEF GroupsOK
<1>38. ASSUME NEW k \in Lines, TypeLine(k) PROVE GroupsOK'
  <2>1. CallOK'
    BY <1>38 DEF TypeLine, At, Types, Write, Goto, Dies, Lines, CallOK
  <2>2. StateOK'
    BY <1>38 DEF TypeLine, At, Types, Write, Goto, Dies, Lines, StateOK
  <2>3. EndOK'
    BY <1>38 DEF TypeLine, At, Types, Write, Goto, Dies, Lines, EndOK
  <2>4. InputOK'
    BY <1>38 DEF TypeLine, At, Types, Write, Goto, Dies, Lines, InputOK
  <2>5. PipeOK'
    BY <1>38, AppendProperties, SMTT(30) DEF TypeLine, At, Types, Write, Goto, Dies,
       Lines, PipeOK, pipeVars, GroupsOK
  <2>6. UNCHANGED <<signalVars, hskVars, serverEnds, sessionVars>>
    BY <1>38 DEF TypeLine
  <2> QED
    BY <2>1, <2>2, <2>3, <2>4, <2>5, <2>6, TypeFrames DEF GroupsOK
<1>39. CASE UNCHANGED vars
  <2>1. UNCHANGED <<callVars, stateVars, signalVars, endVars, inputVars,
                    hskVars, serverEnds, pipeVars, sessionVars>>
    BY <1>39 DEF vars
  <2> QED
    BY <2>1, TypeFrames DEF GroupsOK
<1> QED
  BY <1>1, <1>2, <1>3, <1>4, <1>5, <1>6, <1>7, <1>8, <1>9, <1>10, <1>11, <1>12,
       <1>13, <1>14, <1>15, <1>16, <1>17, <1>18, <1>19, <1>20, <1>21, <1>22,
       <1>23, <1>24, <1>25, <1>26, <1>27, <1>28, <1>29, <1>30, <1>31, <1>32,
       <1>33, <1>34, <1>35, <1>36, <1>37, <1>38, <1>39
     DEF Next, ClientStep, ReceiverStep, Operator, ServerStep

\* At first every variable is in its range.
LEMMA TypeInit == Init => GroupsOK
<1> SUFFICES ASSUME Init PROVE GroupsOK
  OBVIOUS
<1>1. CallOK /\ StateOK
  BY DEF Init, CallOK, StateOK, Early
<1>2. /\ 0 \in 0..MaxShutdowns /\ 0 \in 0..MaxLines
      /\ 0 \in 0..MAX_OPEN_RETRIES
  BY SessionConstants
<1>3. SignalOK /\ EndOK /\ InputOK
  BY <1>2 DEF Init, SignalOK, EndOK, InputOK
<1>4. HandshakeOK /\ ServerEndOK
  BY <1>2 DEF Init, HandshakeOK, ServerEndOK
<1>5. PipeOK /\ RecordOK
  BY EmptySeq DEF Init, PipeOK, RecordOK
<1> QED
  BY <1>1, <1>3, <1>4, <1>5 DEF GroupsOK

\* Every variable of a client, and of what its server keeps of it, stays in
\* its range.
THEOREM TypeCorrect == Spec => []TypeOK
<1>1. Spec => []GroupsOK
  BY TypeInit, TypeStep, PTL DEF Spec
<1> QED
  BY <1>1, TypeGroups, PTL
-----------------------------------------------------------------------------
(* Where the main thread is *)

\* Nothing the peer and the invariant speak of changes.
Quiet == UNCHANGED <<pc, logged, reader, writer, c2s, s2c, authed, tasks>>

Quiets ==
    \/ AlarmRings \/ SigShutdown \/ InputEnds \/ Block
    \/ MakeFifos \/ SignalClient \/ OpenC2S \/ HskReport
    \/ HskOk \/ Hangup \/ Free \/ UNCHANGED vars

\* These steps are quiet.
LEMMA QuietSteps == Quiets => Quiet
<1> USE DEF callVars, stateVars, signalVars, endVars, inputVars, clientVars,
            hskVars, serverEnds, pipeVars, sessionVars, serverVars
<1>1. AlarmRings => Quiet
  BY DEF AlarmRings, Quiet
<1>2. SigShutdown => Quiet
  BY DEF SigShutdown, Quiet
<1>3. InputEnds => Quiet
  BY DEF InputEnds, Quiet
<1>4. Block => Quiet
  BY DEF Block, Quiet
<1>5. MakeFifos => Quiet
  BY DEF MakeFifos, Quiet, workerFrame
<1>6. SignalClient => Quiet
  BY DEF SignalClient, Quiet
<1>7. OpenC2S => Quiet
  BY DEF OpenC2S, Quiet, workerFrame
<1>8. HskReport => Quiet
  BY DEF HskReport, Quiet
<1>9. HskOk => Quiet
  BY DEF HskOk, Quiet
<1>10. Hangup => Quiet
  BY DEF Hangup, Quiet
<1>11. Free => Quiet
  BY DEF Free, Quiet
<1>12. UNCHANGED vars => Quiet
  BY DEF Quiet, vars
<1> QED
  BY <1>1, <1>2, <1>3, <1>4, <1>5, <1>6, <1>7, <1>8, <1>9, <1>10, <1>11, <1>12
     DEF Quiets

\* Where the main thread is says which ends it has open.
LEMMA EndsStep == GroupsOK /\ EndsAt /\ [Next]_vars => EndsAt'
<1> SUFFICES ASSUME GroupsOK, EndsAt, [Next]_vars PROVE EndsAt'
  OBVIOUS
<1> USE DEF callVars, stateVars, signalVars, endVars, inputVars, clientVars,
            hskVars, serverEnds, pipeVars, sessionVars, serverVars,
            GroupsOK, StateOK, EndOK, EndsAt, Early, Served, Gone
<1>1. CASE Quiets
  BY <1>1, QuietSteps DEF Quiet, EndsAt
<1>2. CASE Start
  BY <1>2 DEF Start, At, Goto
<1>3. CASE Syn
  BY <1>3 DEF Syn, At, Goto
<1>4. CASE SynFails
  BY <1>4 DEF SynFails, At, Goto
<1>5. CASE Awake
  BY <1>5 DEF Awake, Goto
<1>6. CASE Restore
  BY <1>6 DEF Restore, At, Goto
<1>7. CASE Test
  BY <1>7 DEF Test, At, Goto
<1>8. CASE OpenReader
  BY <1>8 DEF OpenReader, At, HskFail
<1>9. CASE ReaderOpened
  BY <1>9 DEF ReaderOpened, At, Goto
<1>10. CASE OpenWriter
  BY <1>10 DEF OpenWriter, At, Goto, HskFail
<1>11. CASE Disarm
  BY <1>11 DEF Disarm, At, Goto
<1>12. CASE Loop
  BY <1>12 DEF Loop, At, Goto, Stays
<1>13. CASE Eof
  BY <1>13 DEF Eof, At, NoInput
<1>14. CASE Spawn
  BY <1>14 DEF Spawn, At, Goto
<1>15. CASE CloseReader
  BY <1>15 DEF CloseReader, At, Goto
<1>16. CASE CloseWriter
  BY <1>16 DEF CloseWriter, At, Goto, WriterClosed
<1>17. CASE Join
  BY <1>17 DEF Join, At, Goto
<1>18. CASE Receive
  BY <1>18 DEF Receive, Receiver_Gone
<1>19. CASE PrintReply
  BY <1>19 DEF PrintReply, Closed, Receiver_Gone
<1>20. CASE Kill
  BY <1>20 DEF Kill, Dies
<1>21. CASE OpenS2C
  BY <1>21 DEF OpenS2C
<1>22. CASE ServerEnds
  BY <1>22 DEF ServerEnds
<1>23. ASSUME NEW s \in Signals, Deliver(s) PROVE EndsAt'
  BY <1>23 DEF Deliver, HskFail, NoInput, Interruptible
<1>24. CASE Reply
  BY <1>24 DEF Reply, At, Goto, Accepted
<1>25. ASSUME NEW k \in Lines, TypeLogin(k) PROVE EndsAt'
  BY <1>25 DEF TypeLogin, At, Types, Allowed, Write, Goto, Dies
<1>26. ASSUME NEW k \in Lines, TypeLine(k) PROVE EndsAt'
  BY <1>26 DEF TypeLine, At, Types, Write, Goto, Dies
<1>27. CASE Sweep
  BY <1>27 DEF Sweep
<1>28. CASE Answer
  BY <1>28 DEF Answer
<1> QED
  BY <1>1, <1>2, <1>3, <1>4, <1>5, <1>6, <1>7, <1>8, <1>9, <1>10, <1>11, <1>12,
       <1>13, <1>14, <1>15, <1>16, <1>17, <1>18, <1>19, <1>20, <1>21, <1>22,
       <1>23, <1>24, <1>25, <1>26, <1>27, <1>28
     DEF Next, ClientStep, ReceiverStep, Operator, ServerStep, Quiets

-----------------------------------------------------------------------------
(* What the server can know of it *)

\* The steps of a peer that leave its lines alone.
Moves(x, y) ==
    \/ y = x
    \/ x = "syn" /\ y = "half"
    \/ x = "half" /\ y = "login"
    \/ x \in {"syn", "half"} /\ y = "gone"
    \/ x \in {"login", "waiting", "rpc"} /\ y = "closed"

\* A step of the client that neither writes nor is let in moves its peer, or
\* nothing of it.
LEMMA CliMoves ==
    ASSUME GroupsOK, EndsAt, EndsAt',
           \/ Start
           \/ Syn
           \/ SynFails
           \/ Awake
           \/ Restore
           \/ Test
           \/ OpenReader
           \/ ReaderOpened
           \/ OpenWriter
           \/ Disarm
           \/ Loop
           \/ Eof
           \/ Spawn
           \/ CloseReader
           \/ CloseWriter
           \/ Join
           \/ Receive
           \/ PrintReply
           \/ Kill
           \/ OpenS2C
           \/ ServerEnds
           \/ \E s \in Signals : Deliver(s)
    PROVE  Moves(Cli, Cli') /\ UNCHANGED <<c2s, authed>>
<1> USE DEF callVars, stateVars, signalVars, endVars, inputVars, clientVars,
            hskVars, serverEnds, pipeVars, sessionVars, serverVars,
            Moves, Cli, GroupsOK, CallOK, StateOK, EndOK, EndsAt, Early,
            Served, Gone
<1>1. ASSUME Start PROVE Moves(Cli, Cli')
  BY <1>1 DEF Start, At, Goto
<1>2. ASSUME Syn PROVE Moves(Cli, Cli')
  BY <1>2 DEF Syn, At, Goto
<1>3. ASSUME SynFails PROVE Moves(Cli, Cli')
  BY <1>3 DEF SynFails, At, Goto
<1>4. ASSUME Awake PROVE Moves(Cli, Cli')
  BY <1>4 DEF Awake, Goto
<1>5. ASSUME Restore PROVE Moves(Cli, Cli')
  BY <1>5 DEF Restore, At, Goto
<1>6. ASSUME Test PROVE Moves(Cli, Cli')
  BY <1>6 DEF Test, At, Goto
<1>7. ASSUME OpenReader PROVE Moves(Cli, Cli')
  BY <1>7 DEF OpenReader, At, HskFail
<1>8. ASSUME ReaderOpened PROVE Moves(Cli, Cli')
  BY <1>8 DEF ReaderOpened, At, Goto
<1>9. ASSUME OpenWriter PROVE Moves(Cli, Cli')
  BY <1>9 DEF OpenWriter, At, Goto, HskFail
<1>10. ASSUME Disarm PROVE Moves(Cli, Cli')
  BY <1>10 DEF Disarm, At, Goto
<1>11. ASSUME Loop PROVE Moves(Cli, Cli')
  BY <1>11 DEF Loop, At, Goto, Stays
<1>12. ASSUME Eof PROVE Moves(Cli, Cli')
  BY <1>12 DEF Eof, At, NoInput
<1>13. ASSUME Spawn PROVE Moves(Cli, Cli')
  BY <1>13 DEF Spawn, At, Goto
<1>14. ASSUME CloseReader PROVE Moves(Cli, Cli')
  BY <1>14 DEF CloseReader, At, Goto
<1>15. ASSUME CloseWriter PROVE Moves(Cli, Cli')
  BY <1>15 DEF CloseWriter, At, Goto, WriterClosed
<1>16. ASSUME Join PROVE Moves(Cli, Cli')
  BY <1>16 DEF Join, At, Goto
<1>17. ASSUME Receive PROVE Moves(Cli, Cli')
  BY <1>17 DEF Receive, Receiver_Gone
<1>18. ASSUME PrintReply PROVE Moves(Cli, Cli')
  BY <1>18 DEF PrintReply, Closed, Receiver_Gone
<1>19. ASSUME Kill PROVE Moves(Cli, Cli')
  BY <1>19 DEF Kill, Dies
<1>20. ASSUME OpenS2C PROVE Moves(Cli, Cli')
  BY <1>20 DEF OpenS2C
<1>21. ASSUME ServerEnds PROVE Moves(Cli, Cli')
  BY <1>21 DEF ServerEnds
<1>22. ASSUME NEW s \in Signals, Deliver(s) PROVE Moves(Cli, Cli')
  BY <1>22 DEF Deliver, HskFail, NoInput, Interruptible
<1>23. UNCHANGED <<c2s, authed>>
  BY DEF Start, Syn, SynFails, Awake, Restore, Test, OpenReader, ReaderOpened,
     OpenWriter, Disarm, Loop, Eof, Spawn, CloseReader, CloseWriter, Join,
     Receive, PrintReply, Kill, OpenS2C, ServerEnds, Deliver
<1> QED
  BY <1>1, <1>2, <1>3, <1>4, <1>5, <1>6, <1>7, <1>8, <1>9, <1>10, <1>11, <1>12,
       <1>13, <1>14, <1>15, <1>16, <1>17, <1>18, <1>19, <1>20, <1>21, <1>22,
       <1>23

-----------------------------------------------------------------------------
(* The peer *)

\* A client that says yes or is told so has been let in: the three parts of
\* LetInFirst, by name.
ToldYes  == \A i \in DOMAIN s2c : s2c[i] = "yes" => authed
StaysLet == Cli = "rpc" => authed
SaysNone == Cli \in {"syn", "half", "login", "gone"} => c2s = <<>> /\ tasks = <<>>

\* The parts are all of it.
LEMMA LetInParts == LetInFirst <=> ToldYes /\ StaysLet /\ SaysNone
  BY DEF LetInFirst, ToldYes, StaysLet, SaysNone

\* The answers that are read or added later keep the promise.
LEMMA ToldLess ==
    ASSUME GroupsOK, ToldYes, authed => authed',
           s2c' = s2c \/ (s2c # <<>> /\ s2c' = Tail(s2c))
    PROVE  ToldYes'
<1>1. CASE s2c' = s2c
  BY <1>1 DEF ToldYes
<1>2. CASE s2c # <<>> /\ s2c' = Tail(s2c)
  <2>1. s2c \in Seq({"yes", "no", "done"})
    BY DEF GroupsOK, PipeOK
  <2>2. /\ Len(s2c') = Len(s2c) - 1 /\ Len(s2c) \in Nat
        /\ \A i \in 1..Len(s2c') : s2c'[i] = s2c[i + 1]
        /\ DOMAIN s2c' = 1..Len(s2c') /\ DOMAIN s2c = 1..Len(s2c)
    BY <1>2, <2>1
  <2>3. ASSUME NEW i \in DOMAIN s2c', s2c'[i] = "yes" PROVE authed'
    <3>1. i + 1 \in DOMAIN s2c /\ s2c[i + 1] = "yes"
      BY <2>2, <2>3
    <3> QED
      BY <3>1 DEF ToldYes
  <2> QED
    BY <2>3 DEF ToldYes
<1> QED
  BY <1>1, <1>2

\* A step that only moves the client is one of its peer's.
LEMMA MovesGood ==
    ASSUME GroupsOK, LetInFirst, Moves(Cli, Cli'), UNCHANGED <<c2s, authed>>,
           s2c' = s2c \/ (s2c # <<>> /\ s2c' = Tail(s2c)),
           tasks' = tasks \/ tasks' = <<>>
    PROVE  LetInFirst' /\ [Peer!Next]_(Peer!vars)
<1>1. ToldYes'
  BY ToldLess, LetInParts
<1>2. StaysLet'
  BY DEF Moves, StaysLet, LetInFirst
<1>3. SaysNone'
  BY DEF Moves, SaysNone, LetInFirst
<1>4. LetInFirst'
  BY <1>1, <1>2, <1>3 DEF LetInFirst, ToldYes, StaysLet, SaysNone
<1>5. CASE Cli' = Cli
  BY <1>4, <1>5 DEF Peer!vars
<1>6. CASE Cli = "syn" /\ Cli' = "half"
  BY <1>4, <1>6 DEF Peer!Next, Peer!Meet
<1>7. CASE Cli = "half" /\ Cli' = "login"
  BY <1>4, <1>7 DEF Peer!Next, Peer!Open
<1>8. CASE Cli \in {"syn", "half"} /\ Cli' = "gone"
  BY <1>4, <1>8 DEF Peer!Next, Peer!Exit, Peer!Writing
<1>9. CASE Cli \in {"login", "waiting", "rpc"} /\ Cli' = "closed"
  BY <1>4, <1>9 DEF Peer!Next, Peer!Exit, Peer!Writing
<1> QED
  BY <1>5, <1>6, <1>7, <1>8, <1>9 DEF Moves

\* The states in which the client writes or reads.
LEMMA CliAt ==
    ASSUME EndsAt
    PROVE  /\ pc = "fgets" => Cli = "login"
           /\ pc = "reply" => Cli = "waiting"
           /\ pc \in {"loop", "input"} => Cli = "rpc"
           /\ pc = "authorised" => Cli = (IF logged THEN "rpc" ELSE "closed")
           /\ pc \in {"teardown", "killed"} /\ writer \in {"open", "closed"} =>
                 Cli = "closed"
  BY DEF EndsAt, Cli, Served, Gone

\* The answer is read.
LEMMA ReplyGood ==
    ASSUME GroupsOK, EndsAt, EndsAt', LetInFirst, Reply
    PROVE  LetInFirst' /\ [Peer!Next]_(Peer!vars)
<1>1. /\ Cli = "waiting" /\ UNCHANGED <<c2s, authed, tasks>>
      /\ s2c' = s2c \/ (s2c # <<>> /\ s2c' = Tail(s2c))
      /\ pc' = "authorised"
  BY CliAt DEF Reply, At, Goto, sessionVars
<1>2. Cli' = IF logged' THEN "rpc" ELSE "closed"
  BY <1>1 DEF EndsAt, Cli, Served, Gone
<1>3. CASE ~logged'
  <2>1. Moves(Cli, Cli')
    BY <1>1, <1>2, <1>3 DEF Moves
  <2> QED
    BY <1>1, <2>1, MovesGood
<1>4. CASE logged'
  <2>1. ~logged
    BY DEF Reply, At, EndsAt
  <2>2. s2c # <<>> /\ Head(s2c) = "yes"
    BY <1>4, <2>1 DEF Reply, Accepted
  <2>3. s2c \in Seq({"yes", "no", "done"})
    BY DEF GroupsOK, PipeOK
  <2>4. 1 \in DOMAIN s2c /\ s2c[1] = "yes"
    BY <2>2, <2>3
  <2>5. authed /\ authed'
    BY <1>1, <2>4 DEF LetInFirst
  <2>6. ToldYes'
    BY <1>1, ToldLess, LetInParts
  <2>7. LetInFirst'
    BY <1>1, <1>2, <1>4, <2>5, <2>6 DEF LetInFirst, ToldYes
  <2>8. Peer!Authorised
    BY <1>1, <1>2, <1>4, <2>5 DEF Peer!Authorised
  <2> QED
    BY <2>7, <2>8 DEF Peer!Next
<1> QED
  BY <1>3, <1>4

\* A line is typed.
LEMMA LoginGood ==
    ASSUME GroupsOK, EndsAt, EndsAt', LetInFirst,
           NEW k \in Lines, TypeLogin(k)
    PROVE  LetInFirst' /\ [Peer!Next]_(Peer!vars)
<1>1. /\ pc = "fgets" /\ Cli = "login" /\ writer = "open"
      /\ UNCHANGED <<authed, s2c, tasks, logged>>
  BY CliAt DEF TypeLogin, At, stateVars, sessionVars, EndsAt, Served
<1>2. CASE k = "Login" /\ srd
  <2>1. c2s' = Append(c2s, "Login") /\ pc' = "reply"
    BY <1>2 DEF TypeLogin, Allowed, Write, Goto
  <2>2. Cli' = "waiting"
    BY <2>1 DEF EndsAt, Cli, Served, Gone
  <2>3. LetInFirst'
    BY <1>1, <2>2 DEF LetInFirst
  <2>4. Peer!Login
    BY <1>1, <2>1, <2>2 DEF Peer!Login
  <2> QED
    BY <2>3, <2>4 DEF Peer!Next
<1>3. CASE ~(k = "Login" /\ srd)
  <2>1. /\ UNCHANGED c2s
        /\ \/ pc' = "auth" /\ UNCHANGED endVars
           \/ pc' = "killed" /\ writer' = "closed"
    BY <1>1, <1>3 DEF TypeLogin, Allowed, Write, Goto, Dies
  <2>2. Cli' \in {"login", "closed"}
    BY <1>1, <2>1 DEF Cli, Gone, endVars
  <2>3. Moves(Cli, Cli')
    BY <1>1, <2>2 DEF Moves
  <2> QED
    BY <1>1, <2>1, <2>3, MovesGood
<1> QED
  BY <1>2, <1>3

\* A line is typed once the client is logged in: Send, or the client dies of
\* SIGPIPE.
LEMMA LineGood ==
    ASSUME GroupsOK, EndsAt, EndsAt', LetInFirst,
           NEW k \in Lines, TypeLine(k)
    PROVE  LetInFirst' /\ [Peer!Next]_(Peer!vars)
<1>1. /\ pc = "input" /\ Cli = "rpc" /\ writer = "open"
      /\ UNCHANGED <<authed, s2c, tasks>>
  BY CliAt DEF TypeLine, At, sessionVars, EndsAt, Served
<1>2. CASE k # "blank" /\ srd
  <2>1. /\ c2s' = Append(c2s, k)
        /\ pc' = (IF k = "Disconnect" THEN "teardown" ELSE "loop")
        /\ UNCHANGED writer
    BY <1>2 DEF TypeLine, Write, Goto, endVars
  <2>2. Cli' = IF k = "Disconnect" THEN "closed" ELSE "rpc"
    BY <1>1, <2>1 DEF Cli, Gone
  <2>3. LetInFirst'
    BY <1>1, <2>2 DEF LetInFirst
  <2>4. Peer!Send(k)
    BY <1>1, <2>1, <2>2 DEF Peer!Send
  <2> QED
    BY <1>2, <2>3, <2>4 DEF Peer!Next, Lines
<1>3. CASE ~(k # "blank" /\ srd)
  <2>1. /\ UNCHANGED c2s
        /\ \/ pc' = "loop"
           \/ pc' = "killed" /\ writer' = "closed"
    BY <1>1, <1>3 DEF TypeLine, Write, Goto, Dies
  <2>2. Cli' \in {"rpc", "closed"}
    BY <2>1 DEF Cli, Gone
  <2>3. Moves(Cli, Cli')
    BY <1>1, <2>2 DEF Moves
  <2> QED
    BY <1>1, <2>1, <2>3, MovesGood
<1> QED
  BY <1>2, <1>3

\* The server reads a line, which the client has written.
LEMMA SweepGood ==
    ASSUME GroupsOK, LetInFirst, Sweep
    PROVE  LetInFirst' /\ [Peer!Next]_(Peer!vars)
<1>1. /\ c2s # <<>> /\ c2s' = Tail(c2s)
      /\ UNCHANGED <<pc, logged, reader, writer, s2c, authed>>
  BY DEF Sweep, clientVars, callVars, stateVars, endVars
<1>2. UNCHANGED Cli
  BY <1>1 DEF Cli
<1>3. Cli \notin {"syn", "half", "login", "gone"}
  BY <1>1 DEF LetInFirst
<1>4. LetInFirst'
  BY <1>1, <1>2, <1>3 DEF LetInFirst
<1>5. Peer!Read
  BY <1>1, <1>2 DEF Peer!Read
<1> QED
  BY <1>4, <1>5 DEF Peer!Next

\* An answer is added: yes, when the client is let in.
LEMMA ToldMore ==
    ASSUME GroupsOK, ToldYes, NEW a \in {"yes", "no", "done"}, Says(a),
           authed => authed', a = "yes" => authed'
    PROVE  ToldYes'
<1>1. CASE s2c' = s2c
  BY <1>1 DEF ToldYes
<1>2. CASE s2c' = Append(s2c, a)
  <2>1. s2c \in Seq({"yes", "no", "done"})
    BY DEF GroupsOK, PipeOK
  <2>2. ASSUME NEW i \in DOMAIN s2c', s2c'[i] = "yes" PROVE authed'
    <3>1. (i \in DOMAIN s2c /\ s2c[i] = "yes") \/ a = "yes"
      BY <1>2, <2>1, <2>2
    <3> QED
      BY <3>1 DEF ToldYes
  <2> QED
    BY <2>2 DEF ToldYes
<1> QED
  BY <1>1, <1>2 DEF Says

\* The server answers: LetIn, when it is the first yes.
LEMMA AnswerGood ==
    ASSUME GroupsOK, LetInFirst, Answer
    PROVE  LetInFirst' /\ [Peer!Next]_(Peer!vars)
<1>1. /\ tasks # <<>> /\ UNCHANGED <<c2s, Cli>>
      /\ authed' = authed \/ authed' = TRUE
  BY DEF Answer, clientVars, callVars, stateVars, endVars, Cli
<1>2. Cli \notin {"syn", "half", "login", "gone"}
  BY <1>1 DEF LetInFirst
<1>3. ToldYes'
  <2>1. /\ ToldYes
        /\ \/ Says("yes") /\ authed'
           \/ Says("no") \/ Says("done") \/ UNCHANGED s2c
    BY LetInParts DEF Answer
  <2>2. CASE Says("yes") /\ authed'
    BY <1>1, <2>1, <2>2, ToldMore
  <2>3. CASE Says("no")
    BY <1>1, <2>1, <2>3, ToldMore
  <2>4. CASE Says("done")
    BY <1>1, <2>1, <2>4, ToldMore
  <2>5. CASE UNCHANGED s2c
    BY <1>1, <2>1, <2>5 DEF ToldYes
  <2> QED
    BY <2>1, <2>2, <2>3, <2>4, <2>5
<1>4. LetInFirst'
  BY <1>1, <1>2, <1>3 DEF LetInFirst, ToldYes
<1>5. CASE authed' = authed
  BY <1>1, <1>4, <1>5 DEF Peer!vars
<1>6. CASE authed' # authed
  <2>1. authed \in BOOLEAN
    BY DEF GroupsOK, RecordOK
  <2>2. ~authed /\ authed' = TRUE
    BY <1>1, <1>6, <2>1
  <2>3. Cli \in {"waiting", "closed"}
    BY <1>2, <2>2 DEF LetInFirst, Cli
  <2>4. Peer!LetIn
    BY <1>1, <2>2, <2>3 DEF Peer!LetIn
  <2> QED
    BY <1>4, <2>4 DEF Peer!Next
<1> QED
  BY <1>5, <1>6

\* Every step of the client and of its server is one of the peer, or none.
LEMMA PeerStep ==
    GroupsOK /\ EndsAt /\ LetInFirst /\ [Next]_vars =>
        EndsAt' /\ LetInFirst' /\ [Peer!Next]_(Peer!vars)
<1> SUFFICES ASSUME GroupsOK, EndsAt, LetInFirst, [Next]_vars
             PROVE  EndsAt' /\ LetInFirst' /\ [Peer!Next]_(Peer!vars)
  OBVIOUS
<1>1. EndsAt'
  BY EndsStep
<1>2. CASE Quiets
  <2>1. Quiet
    BY <1>2, QuietSteps
  <2>2. UNCHANGED <<Cli, c2s, s2c, authed, tasks>>
    BY <2>1 DEF Quiet, Cli
  <2> QED
    BY <1>1, <2>2 DEF LetInFirst, Peer!vars
<1>3. CASE \/ Start
            \/ Syn
            \/ SynFails
            \/ Awake
            \/ Restore
            \/ Test
            \/ OpenReader
            \/ ReaderOpened
            \/ OpenWriter
            \/ Disarm
            \/ Loop
            \/ Eof
            \/ Spawn
            \/ CloseReader
            \/ CloseWriter
            \/ Join
            \/ Receive
            \/ PrintReply
            \/ Kill
            \/ OpenS2C
            \/ ServerEnds
            \/ \E s \in Signals : Deliver(s)
  <2>1. Moves(Cli, Cli') /\ UNCHANGED <<c2s, authed>>
    BY <1>1, <1>3, CliMoves
  <2>2. /\ s2c' = s2c \/ (s2c # <<>> /\ s2c' = Tail(s2c))
        /\ tasks' = tasks \/ tasks' = <<>>
    BY <1>3 DEF Start, Syn, SynFails, Awake, Restore, Test, OpenReader, ReaderOpened,
       OpenWriter, Disarm, Loop, Eof, Spawn, CloseReader, CloseWriter, Join,
       Receive, PrintReply, Kill, OpenS2C, ServerEnds, Deliver, clientVars,
       serverVars, callVars, stateVars, signalVars, endVars, inputVars,
       hskVars, serverEnds, pipeVars, sessionVars
  <2> QED
    BY <1>1, <2>1, <2>2, MovesGood
<1>4. CASE Reply
  BY <1>1, <1>4, ReplyGood
<1>5. CASE \E k \in Lines : TypeLogin(k) \/ TypeLine(k)
  BY <1>1, <1>5, LoginGood, LineGood
<1>6. CASE Sweep
  BY <1>1, <1>6, SweepGood
<1>7. CASE Answer
  BY <1>1, <1>7, AnswerGood
<1> QED
  BY <1>2, <1>3, <1>4, <1>5, <1>6, <1>7
     DEF Next, ClientStep, ReceiverStep, Operator, ServerStep, Quiets

\* A client starts as its peer does.
LEMMA InitGood == Init => GroupsOK /\ EndsAt /\ LetInFirst /\ Peer!Init
<1> SUFFICES ASSUME Init PROVE GroupsOK /\ EndsAt /\ LetInFirst /\ Peer!Init
  OBVIOUS
<1>1. GroupsOK
  BY TypeInit
<1>2. EndsAt
  BY DEF Init, EndsAt, Early, Served
<1>3. Cli = "syn"
  BY DEF Init, Cli, Gone
<1>4. LetInFirst
  BY <1>3 DEF Init, LetInFirst
<1> QED
  BY <1>1, <1>2, <1>3, <1>4 DEF Init, Peer!Init

\* The main thread has open what the place it is at says, and a client that
\* stays, or has yes in its FIFO, was let in by its server.
THEOREM Invariance == Spec => []SessionInv
<1>1. GroupsOK /\ EndsAt /\ LetInFirst /\ [Next]_vars =>
          (GroupsOK /\ EndsAt /\ LetInFirst)'
  BY TypeStep, PeerStep
<1>2. GroupsOK /\ EndsAt /\ LetInFirst => SessionInv
  BY TypeGroups DEF SessionInv
<1> QED
  BY InitGood, <1>1, <1>2, PTL DEF Spec

\* With all its signals, alarms and failures the client is the peer that
\* AnimateServer deals with: one Login first, nothing before the answer,
\* nothing after Disconnect, and no stay without the server's yes.
THEOREM Refinement == Spec => ImplementsPeer
<1>1. GroupsOK /\ EndsAt /\ LetInFirst /\ [Next]_vars =>
          /\ (GroupsOK /\ EndsAt /\ LetInFirst)'
          /\ [Peer!Next]_(Peer!vars)
  BY TypeStep, PeerStep
<1> QED
  BY InitGood, <1>1, PTL DEF Spec, ImplementsPeer, Peer!Spec
==============================================================================
