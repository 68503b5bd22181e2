---------------------------- MODULE AnimateServer_proofs ----------------------
(***************************************************************************)
(* Every step of the server keeps the types of its variables, and a        *)
(* request is in one place at a time: the FIFOs, the task queue, the hands *)
(* of a worker and the result pipe share none.                             *)
(***************************************************************************)
EXTENDS ServerInvariant, SequenceTheorems, TLAPS

-----------------------------------------------------------------------------
(* Types *)

\* Replacing the record at an address; nothing happens at any other value.
LEMMA UpdateType ==
    ASSUME NEW h \in [Addr -> ActiveClient], NEW a,
           NEW c, a \in Addr => c \in ActiveClient
    PROVE  [h EXCEPT ![a] = c] \in [Addr -> ActiveClient]
OBVIOUS

\* Counting references keeps the type of an ActiveClient.
LEMMA RefsType ==
    ASSUME NEW c \in ActiveClient, NEW n \in Int
    PROVE  Refs(c, n) \in ActiveClient
BY DEF ActiveClient, Refs

\* So does setting one of its two flags.
LEMMA ClientFieldTypes ==
    ASSUME NEW c \in ActiveClient
    PROVE  /\ [c EXCEPT !.dead = TRUE] \in ActiveClient
           /\ [c EXCEPT !.logged_in = TRUE] \in ActiveClient
<1>2. [c EXCEPT !.dead = TRUE] \in ActiveClient
  BY DEF ActiveClient
<1>3. [c EXCEPT !.logged_in = TRUE] \in ActiveClient
  BY DEF ActiveClient
<1> QED BY <1>2, <1>3

\* A freed record is one too.
LEMMA FreedType == Freed \in ActiveClient
BY DEF Freed, ActiveClient

\* creg_release_client leaves every address with an ActiveClient.
LEMMA ReleasedType ==
    ASSUME NEW h \in [Addr -> ActiveClient], NEW a
    PROVE  Released(h, a) \in [Addr -> ActiveClient]
<1>1. [h EXCEPT ![a] = Freed] \in [Addr -> ActiveClient]
  BY FreedType, UpdateType
<1>2. a \in Addr => Refs(h[a], -1) \in ActiveClient
  <2> SUFFICES ASSUME a \in Addr PROVE Refs(h[a], -1) \in ActiveClient
    OBVIOUS
  <2>1. h[a] \in ActiveClient /\ -1 \in Int
    OBVIOUS
  <2> QED BY <2>1, RefsType
<1>3. [h EXCEPT ![a] = Refs(@, -1)] \in [Addr -> ActiveClient]
  BY <1>2, UpdateType
<1> QED BY <1>1, <1>3 DEF Released

\* So does creg_remove, whichever address it is given.
LEMMA RemovedType ==
    ASSUME NEW h \in [Addr -> ActiveClient], NEW a
    PROVE  Removed(h, a) \in [Addr -> ActiveClient]
<1>1. a \in Addr => [h[a] EXCEPT !.dead = TRUE] \in ActiveClient
  BY ClientFieldTypes
<1>2. [h EXCEPT ![a] = [@ EXCEPT !.dead = TRUE]] \in [Addr -> ActiveClient]
  BY <1>1, UpdateType
<1> QED BY <1>2, ReleasedType DEF Removed

\* So does creg_acquire_client.
LEMMA AcquiredType ==
    ASSUME NEW h \in [Addr -> ActiveClient], NEW a
    PROVE  Acquired(h, a) \in [Addr -> ActiveClient]
<1>1. a \in Addr => Refs(h[a], 1) \in ActiveClient
  <2> SUFFICES ASSUME a \in Addr PROVE Refs(h[a], 1) \in ActiveClient
    OBVIOUS
  <2>1. h[a] \in ActiveClient /\ 1 \in Int
    OBVIOUS
  <2> QED BY <2>1, RefsType
<1>2. [h EXCEPT ![a] = Refs(@, 1)] \in [Addr -> ActiveClient]
  BY <1>1, UpdateType
<1> QED BY <1>2 DEF Acquired

\* So does the update of logged_in.
LEMMA LoggedInType ==
    ASSUME NEW h \in [Addr -> ActiveClient], NEW a
    PROVE  LoggedIn(h, a) \in [Addr -> ActiveClient]
<1>1. a \in Addr => [h[a] EXCEPT !.logged_in = TRUE] \in ActiveClient
  BY ClientFieldTypes
<1>2. [h EXCEPT ![a] = [@ EXCEPT !.logged_in = TRUE]] \in [Addr -> ActiveClient]
  BY <1>1, UpdateType
<1> QED BY <1>2 DEF LoggedIn

\* server_remove_pollslots moves client slots about and makes no others.
LEMMA WithoutSlotType ==
    ASSUME NEW s \in Seq(Slot), NEW fd
    PROVE  WithoutSlot(s, fd) \in Seq(Slot)
BY SMTT(30) DEF WithoutSlot

\* Closing the descriptors of the freed clients keeps the types.
LEMMA FreeClientsType ==
    ASSUME NEW h \in [Addr -> ActiveClient], NEW lines \in [Pid -> Seq(Req)],
           FreeClients(h, lines)
    PROVE  /\ heap' \in [Addr -> ActiveClient]
           /\ sfd' \in [Pid -> BOOLEAN]
           /\ c2s' \in [Pid -> Seq(Req)]
BY DEF FreeClients

\* The types are right when main starts.
LEMMA TypeInit == Init => TypeOK
BY ConstantsAssumption DEF Init, TypeOK, Freed, ActiveClient, Stages,
   CliStates, Req

\* The result loop: what all five handlers have in common.
LEMMA TakeResultType ==
    ASSUME TypeOK, NEW r, TakeResult(r)
    PROVE  /\ running' \in BOOLEAN /\ budget' \in Nat /\ at' \in Nat \ {0}
           /\ ready' \in [hsk : BOOLEAN, rpc : BOOLEAN]
           /\ stage' \in [Req -> Stages]
           /\ kind' \in [Req -> LineKinds \cup {"HANDSHAKE"}]
           /\ owner' \in [Req -> Addr \cup {None}]
           /\ result' \in [Req -> Results \cup {None}]
           /\ queue' \in Seq(Req) /\ rpc' \in Seq(Req)
           /\ work' \in [Worker -> Req \cup {None}]
           /\ exited' \subseteq Worker /\ hsk' \in Seq(Pid)
           /\ cli' \in [Pid -> CliStates] /\ sent' \in [Pid -> 0..MaxSend]
           /\ read' \in [Pid -> Nat] /\ hasty' \subseteq Pid
           /\ r \in Req
BY DEF TypeOK, TakeResult, MoreRpc, Stages, poolVars, clientVars, reqInfo

\* A reply that fits is appended to what one client reads.
LEMMA WrittenType ==
    ASSUME TypeOK, NEW q, NEW r \in Req
    PROVE  Written(q, r) \in [Pid -> Seq(Req)]
<1>1. s2c \in [Pid -> Seq(Req)]
  BY DEF TypeOK
<1>2. \A p \in Pid : Append(s2c[p], r) \in Seq(Req)
  BY <1>1
<1>3. [s2c EXCEPT ![q] = Append(@, r)] \in [Pid -> Seq(Req)]
  BY <1>1, <1>2
<1> QED BY <1>1, <1>3 DEF Written

\* A reply is written to one client or to none.
LEMMA ReplyType ==
    ASSUME TypeOK, NEW h, NEW a, NEW r \in Req, Reply(h, a, r)
    PROVE  s2c' \in [Pid -> Seq(Req)]
<1>1. s2c' = s2c \/ \E q : s2c' = Written(q, r)
  BY DEF Reply
<1> QED BY <1>1, WrittenType DEF TypeOK

\* Touching freed memory leaves pc where it was, or at the end.
LEMMA TouchType ==
    ASSUME TypeOK, pc = "rpc", NEW h, NEW a,
           NEW o \in SUBSET {"use_after_free", "refcount_underflow"},
           Touch(h, a, o)
    PROVE  /\ pc' \in {"rpc", "fault"}
           /\ faults' \subseteq {"use_after_free", "refcount_underflow"}
BY DEF TypeOK, Touch

\* A request moves from stage to stage.
LEMMA StageType ==
    ASSUME TypeOK, NEW r, NEW s \in Stages
    PROVE  [stage EXCEPT ![r] = s] \in [Req -> Stages]
BY DEF TypeOK

\* task_enqueue puts requests in the queue.
LEMMA TaskPutType ==
    ASSUME NEW q \in Seq(Req), NEW r \in Req
    PROVE  TaskPut(q, r) \in Seq(Req)
BY DEF TaskPut

\* A worker that reports keeps the types of the pipe and the result.
LEMMA ReportType ==
    ASSUME TypeOK, NEW r \in Req, NEW type \in Results \cup {None},
           Report(r, type)
    PROVE  /\ rpc' \in Seq(Req)
           /\ stage' \in [Req -> Stages]
           /\ result' \in [Req -> Results \cup {None}]
<1> DEFINE s == IF Len(rpc) < RpcCap THEN "piped" ELSE "lost"
<1>1. s \in Stages
  BY DEF Stages
<1>2. stage' = [stage EXCEPT ![r] = s]
  BY DEF Report
<1> HIDE DEF s
<1>3. stage' \in [Req -> Stages]
  BY <1>1, <1>2, StageType
<1>4. rpc' \in Seq(Req)
  BY DEF Report, TypeOK
<1>5. result' \in [Req -> Results \cup {None}]
  BY DEF Report, TypeOK
<1> QED BY <1>3, <1>4, <1>5

\* The sweep looks at a slot that exists.
LEMMA SlotAtType ==
    ASSUME TypeOK, AtSlot
    PROVE  slots[at] \in Slot /\ slots[at].fd \in Pid /\ slots[at].client \in Addr
<1>1. slots \in Seq(Slot) /\ at \in 1..Len(slots)
  BY DEF TypeOK, AtSlot
<1>2. slots[at] \in Slot
  BY <1>1
<1> QED BY <1>2 DEF Slot

\* No step breaks a type: one case for each action.
LEMMA TypeStep == TypeOK /\ [Next]_vars => TypeOK'
<1> SUFFICES ASSUME TypeOK, [Next]_vars PROVE TypeOK'
  OBVIOUS
<1> USE ConstantsAssumption
<1>1. CASE Check \/ PollSleep \/ HskEnd \/ RpcEnd \/ SweepEnd
  <2>1. /\ pc' \in {"enter", "teardown", "poll", "rpc", "sweep", "check"}
        /\ budget' \in Nat /\ at' \in Nat \ {0}
    BY <1>1 DEF TypeOK, Check, PollSleep, HskEnd, RpcEnd, SweepEnd
  <2>2. UNCHANGED <<running, ready, connVars, reqVars, poolVars, pipeVars,
                    clientVars, fifoVars>>
    BY <1>1 DEF Check, PollSleep, HskEnd, RpcEnd, SweepEnd
  <2> QED BY <2>1, <2>2 DEF TypeOK, mainVars, connVars, reqVars, reqInfo,
     poolVars, pipeVars, clientVars, fifoVars
<1>2. CASE PollReturn
  <2>1. slots' \in Seq(Slot)
    <3>1. \A i \in 1..Len(slots) :
             [slots[i] EXCEPT !.rev = Revents(slots[i].fd)] \in Slot
      <4>1. ASSUME NEW c \in Slot, NEW v \in {"none", "in", "err"}
            PROVE  [c EXCEPT !.rev = v] \in Slot
        BY <4>1 DEF Slot
      <4>2. \A p : Revents(p) \in {"none", "in", "err"}
        BY DEF Revents
      <4>3. slots \in Seq(Slot)
        BY DEF TypeOK
      <4>4. \A i \in 1..Len(slots) : slots[i] \in Slot
        BY <4>3
      <4> QED BY <4>1, <4>2, <4>4
    <3>2. slots \in Seq(Slot) /\ DOMAIN slots = 1..Len(slots)
      BY DEF TypeOK
    <3> QED BY <1>2, <3>1, <3>2 DEF PollReturn
  <2> QED BY <1>2, <2>1 DEF TypeOK, PollReturn, mainVars, connVars, reqVars,
     reqInfo, poolVars, pipeVars, clientVars, fifoVars
<1>3. CASE HskRead
  <2>1. <<Head(hsk), 0>> \in Req /\ Tail(hsk) \in Seq(Pid)
    <3>1. hsk \in Seq(Pid) /\ hsk # <<>> /\ 0 \in 0..MaxSend
      BY <1>3 DEF TypeOK, HskRead, MoreHsk
    <3>2. Head(hsk) \in Pid /\ Tail(hsk) \in Seq(Pid)
      BY <3>1
    <3> QED BY <3>1, <3>2 DEF Req
  <2>2. queue' \in Seq(Req)
    <3>1. queue' = TaskPut(queue, <<Head(hsk), 0>>) \/ queue' = queue
      BY <1>3 DEF HskRead
    <3>2. queue \in Seq(Req)
      BY DEF TypeOK
    <3>3. TaskPut(queue, <<Head(hsk), 0>>) \in Seq(Req)
      BY <2>1, <3>2, TaskPutType
    <3> QED BY <3>1, <3>2, <3>3
  <2>3. stage' \in [Req -> Stages]
    <3>1. "queued" \in Stages /\ "done" \in Stages
      BY DEF Stages
    <3> QED BY <1>3, <3>1, StageType DEF HskRead
  <2>4. hsk' \in Seq(Pid) /\ budget' \in Nat
    BY <1>3, <2>1 DEF TypeOK, HskRead, MoreHsk
  <2> QED BY <1>3, <2>2, <2>3, <2>4 DEF TypeOK, HskRead, mainVars, connVars,
     reqVars, reqInfo, poolVars, pipeVars, clientVars, fifoVars
<1>4. ASSUME NEW r \in Req, NEW a \in Addr, HskOk(r, a) PROVE TypeOK'
  <2>1. PidOf(r) \in Pid
    BY DEF PidOf, Req
  <2>2. heap' \in [Addr -> ActiveClient]
    BY <1>4, <2>1 DEF TypeOK, HskOk, ActiveClient
  <2>3. slots' \in Seq(Slot)
    BY <1>4, <2>1 DEF TypeOK, HskOk, Slot
  <2>4. TakeResult(r)
    BY <1>4 DEF HskOk
  <2>5. registry' \subseteq Addr
    BY <1>4 DEF TypeOK, HskOk
  <2>6. UNCHANGED <<pc, sfd, faults, c2s, s2c>>
    BY <1>4 DEF HskOk, fifoVars
  <2> QED BY <2>2, <2>3, <2>4, <2>5, <2>6, TakeResultType DEF TypeOK
<1>5. ASSUME NEW r \in Req, HskDrop(r) PROVE TypeOK'
  <2>1. TakeResult(r) /\ UNCHANGED <<pc, heap, registry, slots, faults, s2c>>
    BY <1>5 DEF HskDrop
  <2>2. c2s' \in [Pid -> Seq(Req)] /\ sfd' \in [Pid -> BOOLEAN]
    <3>1. /\ c2s \in [Pid -> Seq(Req)] /\ sfd \in [Pid -> BOOLEAN]
          /\ c2s' = [c2s EXCEPT ![PidOf(r)] = <<>>]
          /\ sfd' = [sfd EXCEPT ![PidOf(r)] = FALSE]
      BY <1>5 DEF TypeOK, HskDrop
    <3>2. <<>> \in Seq(Req)
      OBVIOUS
    <3>3. c2s' \in [Pid -> Seq(Req)]
      BY <3>1, <3>2
    <3> QED BY <3>1, <3>3
  <2> QED BY <2>1, <2>2, TakeResultType DEF TypeOK
<1>6. ASSUME NEW r \in Req, AuthOk(r) \/ RpcDone(r) PROVE TypeOK'
  <2> DEFINE a == owner[r]
             h == Released(heap, a)
  <2>1. h \in [Addr -> ActiveClient] /\ LoggedIn(h, a) \in [Addr -> ActiveClient]
    BY ReleasedType, LoggedInType DEF TypeOK
  <2>2. /\ TakeResult(r) /\ Reply(h, a, r) /\ Touch(h, a, {})
        /\ FreeClients(h, c2s) \/ FreeClients(LoggedIn(h, a), c2s)
        /\ UNCHANGED <<registry, slots>>
    BY <1>6 DEF AuthOk, RpcDone
  <2> HIDE DEF a, h
  <2>3. /\ heap' \in [Addr -> ActiveClient]
        /\ sfd' \in [Pid -> BOOLEAN] /\ c2s' \in [Pid -> Seq(Req)]
    BY <2>1, <2>2, FreeClientsType DEF TypeOK
  <2>4. pc = "rpc"
    BY <2>2 DEF TakeResult
  <2> QED BY <2>2, <2>3, <2>4, TakeResultType, ReplyType, TouchType DEF TypeOK
<1>7. ASSUME NEW r \in Req, AuthReject(r) PROVE TypeOK'
  <2> DEFINE a == owner[r]
             h == Released(heap, a)
  <2>1. h \in [Addr -> ActiveClient] /\ Removed(h, a) \in [Addr -> ActiveClient]
    BY ReleasedType, RemovedType DEF TypeOK
  <2>2. /\ TakeResult(r) /\ Reply(h, a, r)
        /\ Touch(h, a, {"refcount_underflow"})
        /\ FreeClients(Removed(h, a), c2s)
        /\ slots' = IF h[a].alloc THEN WithoutSlot(slots, h[a].pid) ELSE slots
        /\ registry' = registry \ {a}
    BY <1>7 DEF AuthReject
  <2> HIDE DEF a, h
  <2>3. /\ heap' \in [Addr -> ActiveClient]
        /\ sfd' \in [Pid -> BOOLEAN] /\ c2s' \in [Pid -> Seq(Req)]
    BY <2>1, <2>2, FreeClientsType DEF TypeOK
  <2>4. pc = "rpc"
    BY <2>2 DEF TakeResult
  <2>5. slots' \in Seq(Slot)
    BY <2>2, WithoutSlotType DEF TypeOK
  <2> QED BY <2>2, <2>3, <2>4, <2>5, TakeResultType, ReplyType, TouchType
          DEF TypeOK
<1>8. CASE SweepNext
  BY <1>8 DEF TypeOK, SweepNext, AtSlot, mainVars, connVars, reqVars, reqInfo,
     poolVars, pipeVars, clientVars, fifoVars
<1>9. CASE SweepHangup
  <2> DEFINE h == Removed(heap, slots[at].client)
  <2>1. h \in [Addr -> ActiveClient]
    BY RemovedType DEF TypeOK
  <2>2. /\ slots' \in Seq(Slot) /\ registry' \subseteq Addr
        /\ budget' \in Nat /\ at' = at
    BY <1>9, WithoutSlotType DEF TypeOK, SweepHangup, RemoveSwept
  <2>3. /\ heap' \in [Addr -> ActiveClient]
        /\ sfd' \in [Pid -> BOOLEAN] /\ c2s' \in [Pid -> Seq(Req)]
    BY <1>9, <2>1, FreeClientsType DEF TypeOK, SweepHangup, RemoveSwept
  <2> QED BY <1>9, <2>2, <2>3 DEF TypeOK, SweepHangup, mainVars, connVars,
     reqVars, reqInfo, poolVars, pipeVars, clientVars, fifoVars
<1>10. CASE SweepTask
  <2> DEFINE a == slots[at].client
             p == slots[at].fd
             r == Head(c2s[p])
  <2>1. a \in Addr /\ p \in Pid
    BY <1>10, SlotAtType DEF SweepTask, AtLine
  <2>2. r \in Req /\ Tail(c2s[p]) \in Seq(Req)
    BY <1>10, <2>1, SMTT(30) DEF TypeOK, SweepTask
  <2>3. heap' \in [Addr -> ActiveClient]
    BY <1>10, AcquiredType DEF TypeOK, SweepTask
  <2>4. c2s' \in [Pid -> Seq(Req)] /\ owner' \in [Req -> Addr \cup {None}]
    BY <1>10, <2>1, <2>2 DEF TypeOK, SweepTask
  <2>5. queue' \in Seq(Req) /\ stage' \in [Req -> Stages]
    <3>1. /\ \/ queue' = TaskPut(queue, r) \/ UNCHANGED queue
          /\ \/ stage' = [stage EXCEPT ![r] = "queued"]
             \/ stage' = [stage EXCEPT ![r] = "lost"]
      BY <1>10 DEF SweepTask
    <3>2. queue \in Seq(Req) /\ "queued" \in Stages /\ "lost" \in Stages
      BY DEF TypeOK, Stages
    <3> HIDE DEF r
    <3> QED BY <2>2, <3>1, <3>2, StageType, TaskPutType
  <2>6. budget' \in Nat
    BY <1>10 DEF TypeOK, SweepTask, AtLine
  <2> QED BY <1>10, <2>3, <2>4, <2>5, <2>6 DEF TypeOK, SweepTask, mainVars,
     connVars, reqVars, reqInfo, poolVars, pipeVars, clientVars, fifoVars
<1>11. CASE SweepQuit
  <2> DEFINE h == Removed(heap, slots[at].client)
             p == slots[at].fd
  <2>1. h \in [Addr -> ActiveClient]
    BY RemovedType DEF TypeOK
  <2>2. p \in Pid
    BY <1>11, SlotAtType DEF SweepQuit, AtLine
  <2>3. [c2s EXCEPT ![p] = Tail(@)] \in [Pid -> Seq(Req)]
    BY <1>11, <2>2 DEF TypeOK, SweepQuit
  <2>4. /\ slots' \in Seq(Slot) /\ registry' \subseteq Addr
        /\ budget' \in Nat /\ at' = at
    BY <1>11, WithoutSlotType DEF TypeOK, SweepQuit, RemoveSwept
  <2>5. FreeClients(h, [c2s EXCEPT ![p] = Tail(@)])
    BY <1>11 DEF SweepQuit, RemoveSwept
  <2>6. /\ heap' \in [Addr -> ActiveClient]
        /\ sfd' \in [Pid -> BOOLEAN] /\ c2s' \in [Pid -> Seq(Req)]
    BY <2>1, <2>3, <2>5, FreeClientsType DEF TypeOK
  <2>7. stage' \in [Req -> Stages]
    BY <1>11 DEF TypeOK, SweepQuit, Stages
  <2> QED BY <1>11, <2>4, <2>6, <2>7 DEF TypeOK, SweepQuit, mainVars, connVars,
     reqVars, reqInfo, poolVars, pipeVars, clientVars, fifoVars
<1>12. CASE SweepIgnore
  <2>1. slots[at].fd \in Pid
    BY <1>12, SlotAtType DEF SweepIgnore, AtLine
  <2>2. c2s' \in [Pid -> Seq(Req)]
    BY <1>12, <2>1 DEF TypeOK, SweepIgnore
  <2>3. stage' \in [Req -> Stages]
    BY <1>12 DEF TypeOK, SweepIgnore, Stages
  <2>4. budget' \in Nat
    BY <1>12 DEF TypeOK, SweepIgnore, AtLine
  <2> QED BY <1>12, <2>2, <2>3, <2>4 DEF TypeOK, SweepIgnore, mainVars,
     connVars, reqVars, reqInfo, poolVars, pipeVars, clientVars, fifoVars
<1>13. CASE Teardown
  <2> DEFINE h == [a \in Addr |-> IF a \in registry THEN Freed ELSE heap[a]]
  <2>1. h \in [Addr -> ActiveClient]
    BY FreedType DEF TypeOK
  <2>2. FreeClients(h, c2s)
    BY <1>13 DEF Teardown
  <2> HIDE DEF h
  <2>3. /\ heap' \in [Addr -> ActiveClient]
        /\ sfd' \in [Pid -> BOOLEAN] /\ c2s' \in [Pid -> Seq(Req)]
    BY <2>1, <2>2, FreeClientsType DEF TypeOK
  <2>4. stage' \in [Req -> Stages]
    BY <1>13 DEF TypeOK, Teardown, Stages
  <2> QED BY <1>13, <2>3, <2>4 DEF TypeOK, Teardown, mainVars, connVars,
     reqVars, reqInfo, poolVars, pipeVars, clientVars, fifoVars
<1>14. ASSUME NEW w \in Worker, Dequeue(w) PROVE TypeOK'
  <2>1. queue \in Seq(Req) /\ queue # <<>>
    BY <1>14 DEF TypeOK, Dequeue
  <2>2. Head(queue) \in Req /\ Tail(queue) \in Seq(Req)
    BY <2>1
  <2>3. work' \in [Worker -> Req \cup {None}]
    BY <1>14, <2>2 DEF TypeOK, Dequeue
  <2>4. stage' \in [Req -> Stages]
    <3>1. "running" \in Stages
      BY DEF Stages
    <3> QED BY <1>14, <3>1, StageType DEF Dequeue
  <2> QED BY <1>14, <2>2, <2>3, <2>4
          DEF TypeOK, Dequeue, mainVars, connVars, reqInfo, pipeVars,
              clientVars, fifoVars
<1>26. ASSUME NEW w \in Worker, WorkerExit(w) PROVE TypeOK'
  BY <1>26 DEF TypeOK, WorkerExit, mainVars, connVars, reqVars, reqInfo,
     pipeVars, clientVars, fifoVars
<1>15. ASSUME NEW w \in Worker, FinishHandshake(w) PROVE TypeOK'
  <2>1. work[w] \in Req /\ Report(work[w], None)
    BY <1>15 DEF TypeOK, FinishHandshake
  <2>2. /\ rpc' \in Seq(Req) /\ stage' \in [Req -> Stages]
        /\ result' \in [Req -> Results \cup {None}]
    BY <2>1, ReportType
  <2>3. work' \in [Worker -> Req \cup {None}]
    BY <1>15 DEF TypeOK, FinishHandshake
  <2>4. cli' \in [Pid -> CliStates]
    BY <1>15 DEF TypeOK, FinishHandshake, CliStates
  <2>5. sfd' \in [Pid -> BOOLEAN]
    BY <1>15 DEF TypeOK, FinishHandshake
  <2>6. UNCHANGED <<mainVars, heap, registry, slots, faults, kind, owner,
                    queue, exited, hsk, sent, read, hasty, fifoVars>>
    BY <1>15 DEF FinishHandshake
  <2> QED BY <2>2, <2>3, <2>4, <2>5, <2>6 DEF TypeOK, mainVars, fifoVars
<1>16. ASSUME NEW w \in Worker, FinishSilently(w) PROVE TypeOK'
  BY <1>16 DEF TypeOK, FinishSilently, Stages, mainVars, connVars, reqInfo,
     pipeVars, clientVars, fifoVars
<1>17. ASSUME NEW w \in Worker, NEW type \in Results, Finish(w, type)
       PROVE  TypeOK'
  <2>1. work[w] \in Req /\ Report(work[w], type)
    BY <1>17 DEF TypeOK, Finish
  <2>2. /\ rpc' \in Seq(Req) /\ stage' \in [Req -> Stages]
        /\ result' \in [Req -> Results \cup {None}]
    BY <2>1, ReportType
  <2>3. work' \in [Worker -> Req \cup {None}]
    BY <1>17 DEF TypeOK, Finish
  <2>4. UNCHANGED <<mainVars, connVars, kind, owner, queue, exited, hsk,
                    clientVars, fifoVars>>
    BY <1>17 DEF Finish
  <2> QED BY <2>2, <2>3, <2>4 DEF TypeOK, mainVars, connVars, clientVars,
     fifoVars
<1>18. ASSUME NEW p \in Pid, Sigusr1(p) PROVE TypeOK'
  BY <1>18, SMTT(30) DEF TypeOK, Sigusr1, CliStates, mainVars, connVars, reqVars,
     reqInfo, poolVars, pipeVars, clientVars, fifoVars
<1>19. ASSUME NEW p \in Pid,
              ClientOpen(p) \/ ClientAuthorised(p) \/ ClientRead(p)
                \/ ClientExit(p)
       PROVE  TypeOK'
  <2>1. cli' \in [Pid -> CliStates]
    BY <1>19 DEF TypeOK, ClientOpen, ClientAuthorised, ClientRead, ClientExit,
       CliStates
  <2>2. read' \in [Pid -> Nat]
    BY <1>19 DEF TypeOK, ClientOpen, ClientAuthorised, ClientRead, ClientExit
  <2>3. UNCHANGED <<serverVars, reqVars, sent, hasty, c2s>>
    BY <1>19 DEF ClientOpen, ClientAuthorised, ClientRead, ClientExit
  <2> QED BY <2>1, <2>2, <2>3 DEF TypeOK, serverVars, mainVars, connVars,
     reqVars, reqInfo, poolVars, pipeVars
<1>20. ASSUME NEW p \in Pid, NEW k \in Commands, ClientSend(p, k) PROVE TypeOK'
  <2>1. <<p, sent[p] + 1>> \in Req /\ sent[p] + 1 \in 0..MaxSend
    BY <1>20, SMTT(30) DEF TypeOK, ClientSend, Req
  <2>2. stage' \in [Req -> Stages]
    <3>1. "sent" \in Stages
      BY DEF Stages
    <3> QED BY <1>20, <3>1, StageType DEF ClientSend
  <2>3. kind' \in [Req -> LineKinds \cup {"HANDSHAKE"}]
    BY <1>20 DEF TypeOK, ClientSend
  <2>4. c2s' \in [Pid -> Seq(Req)]
    <3>1. c2s \in [Pid -> Seq(Req)]
      BY DEF TypeOK
    <3>2. Append(c2s[p], <<p, sent[p] + 1>>) \in Seq(Req)
      BY <2>1, <3>1
    <3> QED BY <1>20, <3>1, <3>2 DEF ClientSend
  <2>5. cli' \in [Pid -> CliStates]
    <3>1. cli \in [Pid -> CliStates]
      BY DEF TypeOK
    <3>2. AfterLine(p, k) \subseteq CliStates
      BY <3>1 DEF AfterLine, CliStates
    <3> QED BY <1>20, <3>1, <3>2 DEF ClientSend
  <2>8. read' \in [Pid -> Nat] /\ hasty' \subseteq Pid
    BY <1>20 DEF TypeOK, ClientSend
  <2>6. sent' \in [Pid -> 0..MaxSend]
    BY <1>20, <2>1 DEF TypeOK, ClientSend
  <2>7. UNCHANGED <<serverVars, owner, result>>
    BY <1>20 DEF ClientSend
  <2> QED BY <2>2, <2>3, <2>4, <2>5, <2>6, <2>7, <2>8
          DEF TypeOK, serverVars, mainVars, connVars, poolVars, pipeVars
<1>21. CASE SigShutdown
  BY <1>21 DEF TypeOK, SigShutdown, mainVars, connVars, reqVars, reqInfo,
     poolVars, pipeVars, clientVars, fifoVars
<1>22. CASE UNCHANGED vars
  BY <1>22 DEF TypeOK, vars
<1>23. CASE MainStep
  BY <1>1, <1>2, <1>3, <1>4, <1>5, <1>6, <1>7, <1>8, <1>9, <1>10, <1>11,
     <1>12, <1>13, <1>23 DEF MainStep
<1>24. ASSUME NEW w \in Worker, WorkerStep(w) PROVE TypeOK'
  BY <1>14, <1>15, <1>16, <1>17, <1>24, <1>26 DEF WorkerStep
<1>25. ASSUME NEW p \in Pid, ClientStep(p) PROVE TypeOK'
  BY <1>18, <1>19, <1>20, <1>25 DEF ClientStep
<1> QED BY <1>21, <1>22, <1>23, <1>24, <1>25 DEF Next

\* Type correctness: every variable keeps its type, the counts and budgets
\* of the loop included.
THEOREM TypeCorrect == Spec => []TypeOK
<1>1. Init => TypeOK
  BY TypeInit
<1>2. TypeOK /\ [Next]_vars => TypeOK'
  BY TypeStep
<1> QED BY <1>1, <1>2, PTL DEF Spec
-----------------------------------------------------------------------------
(* Requests *)

\* A request that is not in q may change its stage.
LEMMA AllAtKeep ==
    ASSUME NEW g \in [Req -> Stages], NEW q \in Seq(Req), NEW st,
           AllAt(g, q, st), NEW r, NEW s, g[r] # st
    PROVE  AllAt([g EXCEPT ![r] = s], q, st)
BY DEF AllAt

\* A request that was elsewhere may join q.
LEMMA AllAtAppend ==
    ASSUME NEW g \in [Req -> Stages], NEW q \in Seq(Req), NEW st,
           AllAt(g, q, st), NEW r \in Req, g[r] # st
    PROVE  AllAt([g EXCEPT ![r] = st], Append(q, r), st)
BY DEF AllAt

\* The head of q may leave it for any stage.
LEMMA AllAtTail ==
    ASSUME NEW g \in [Req -> Stages], NEW q \in Seq(Req), q # <<>>, NEW st,
           AllAt(g, q, st), NEW s
    PROVE  /\ g[Head(q)] = st /\ Head(q) \in Req
           /\ AllAt(g, Tail(q), st)
           /\ AllAt([g EXCEPT ![Head(q)] = s], Tail(q), st)
BY DEF AllAt

\* An empty queue holds nothing out of place.
LEMMA AllAtEmpty == \A g, st : AllAt(g, <<>>, st)
BY DEF AllAt

\* A request no worker holds may change its stage.
LEMMA WorkAtKeep ==
    ASSUME NEW g \in [Req -> Stages], NEW k \in [Worker -> Req \cup {None}],
           WorkAt(g, k), NEW r, NEW s, g[r] # "running"
    PROVE  WorkAt([g EXCEPT ![r] = s], k)
BY DEF WorkAt

\* A worker may take a request that was not running.
LEMMA WorkAtTake ==
    ASSUME NEW g \in [Req -> Stages], NEW k \in [Worker -> Req \cup {None}],
           WorkAt(g, k), NEW r \in Req, g[r] # "running", NEW w \in Worker
    PROVE  WorkAt([g EXCEPT ![r] = "running"], [k EXCEPT ![w] = r])
BY DEF WorkAt

\* A worker may put down its task at any stage.
LEMMA WorkAtLeave ==
    ASSUME NEW g \in [Req -> Stages], NEW k \in [Worker -> Req \cup {None}],
           WorkAt(g, k), NEW w \in Worker, NEW s, k[w] # None
    PROVE  /\ WorkAt([g EXCEPT ![k[w]] = s], [k EXCEPT ![w] = None])
           /\ g[k[w]] = "running" /\ k[w] \in Req
BY ConstantsAssumption DEF WorkAt

\* Dropping what freed clients have written leaves no line out of place.
LEMMA FreedLines ==
    ASSUME NEW h, NEW lines, FreeClients(h, lines), NEW g, NEW st,
           \A p \in Pid : AllAt(g, lines[p], st)
    PROVE  \A p \in Pid : AllAt(g, c2s'[p], st)
BY AllAtEmpty DEF FreeClients

\* The steps that move no request.
Still == UNCHANGED <<stage, queue, rpc, work, c2s>>

\* The head and the tail of a sequence that is not empty.
LEMMA HeadAt ==
    ASSUME NEW S, NEW q \in Seq(S), q # <<>>
    PROVE  1 \in DOMAIN q /\ Head(q) = q[1] /\ Head(q) \in S /\ Tail(q) \in Seq(S)
OBVIOUS

\* The first line in the FIFO of p is a line of p; without it the others are
\* in place.
LEMMA LineTaken ==
    ASSUME TypeOK, Numbered, Pipeline, NEW p \in Pid, c2s[p] # <<>>,
           NEW s
    PROVE  /\ Head(c2s[p]) \in Req /\ stage[Head(c2s[p])] = "sent"
           /\ PidOf(Head(c2s[p])) = p
           /\ \A q \in Pid :
                 AllAt([stage EXCEPT ![Head(c2s[p])] = s],
                       [c2s EXCEPT ![p] = Tail(@)][q], "sent")
<1> DEFINE r == Head(c2s[p])
<1>1. /\ stage \in [Req -> Stages] /\ c2s \in [Pid -> Seq(Req)]
      /\ \A q \in Pid : AllAt(stage, c2s[q], "sent")
  BY DEF TypeOK, Pipeline
<1>2. /\ stage[r] = "sent" /\ r \in Req
      /\ AllAt([stage EXCEPT ![r] = s], Tail(c2s[p]), "sent")
  BY <1>1, AllAtTail
<1>3. PidOf(r) = p
  <2>1. 1 \in DOMAIN c2s[p] /\ r = c2s[p][1]
    BY <1>1, HeadAt
  <2>2. \A i \in DOMAIN c2s[p] : PidOf(c2s[p][i]) = p
    BY DEF Numbered
  <2> QED BY <2>1, <2>2
<1>4. ASSUME NEW q \in Pid
      PROVE  AllAt([stage EXCEPT ![r] = s], [c2s EXCEPT ![p] = Tail(@)][q],
                   "sent")
  <2>1. CASE q = p
    BY <1>1, <1>2, <2>1
  <2>2. CASE q # p
    <3>1. \A i \in DOMAIN c2s[q] : PidOf(c2s[q][i]) = q
      BY DEF Numbered
    <3>2. \A i \in DOMAIN c2s[q] : c2s[q][i] # r
      BY <1>3, <2>2, <3>1
    <3> HIDE DEF r
    <3>3. AllAt([stage EXCEPT ![r] = s], c2s[q], "sent")
      BY <1>1, <3>2 DEF AllAt
    <3> QED BY <1>1, <2>2, <3>3
  <2> QED BY <2>1, <2>2
<1> QED BY <1>2, <1>3, <1>4

\* No step puts a request in two places: one case for each action.
LEMMA PipelineStep ==
    TypeOK /\ SignalsOnce /\ Numbered /\ Pipeline /\ [Next]_vars => Pipeline'
<1> SUFFICES ASSUME TypeOK, SignalsOnce, Numbered, Pipeline, [Next]_vars
             PROVE  Pipeline'
  OBVIOUS
<1> USE ConstantsAssumption
<1>a. /\ stage \in [Req -> Stages] /\ queue \in Seq(Req) /\ rpc \in Seq(Req)
      /\ work \in [Worker -> Req \cup {None}]
      /\ c2s \in [Pid -> Seq(Req)]
  BY DEF TypeOK
<1>b. /\ AllAt(stage, queue, "queued") /\ AllAt(stage, rpc, "piped")
      /\ \A p \in Pid : AllAt(stage, c2s[p], "sent")
      /\ WorkAt(stage, work)
  BY DEF Pipeline
<1>1. ASSUME Still PROVE Pipeline'
  BY <1>1 DEF Still, Pipeline
<1>2. CASE HskRead
  <2> DEFINE r == <<Head(hsk), 0>>
  <2>1. hsk \in Seq(Pid) /\ hsk # <<>> /\ 0 \in 0..MaxSend
    BY <1>2 DEF TypeOK, HskRead, MoreHsk
  <2>2. r \in Req
    BY <2>1 DEF Req
  <2>3. PICK s \in {"queued", "done"} :
           /\ stage' = [stage EXCEPT ![r] = s]
           /\ queue' = IF s = "queued" THEN Append(queue, r) ELSE queue
           /\ UNCHANGED <<rpc, work, c2s>>
    BY <1>2 DEF HskRead, TaskPut, fifoVars
  <2>4. stage[r] = "none"
    BY <2>1 DEF SignalsOnce
  <2> HIDE DEF r
  <2>5. AllAt(stage', queue', "queued")
    BY <1>a, <1>b, <2>2, <2>3, <2>4, AllAtKeep, AllAtAppend
  <2>6. AllAt(stage', rpc', "piped") /\ \A p \in Pid : AllAt(stage', c2s'[p], "sent")
    BY <1>a, <1>b, <2>2, <2>3, <2>4, AllAtKeep
  <2>7. WorkAt(stage', work')
    BY <1>a, <1>b, <2>2, <2>3, <2>4, WorkAtKeep
  <2> QED BY <2>5, <2>6, <2>7 DEF Pipeline
<1>3. ASSUME NEW r \in Req, TakeResult(r),
             \/ UNCHANGED c2s
             \/ c2s' = [c2s EXCEPT ![PidOf(r)] = <<>>]
             \/ \E h : FreeClients(h, c2s)
      PROVE  Pipeline'
  <2>1. /\ rpc # <<>> /\ r = Head(rpc) /\ rpc' = Tail(rpc)
        /\ stage' = [stage EXCEPT ![r] = "done"]
        /\ UNCHANGED <<queue, work>>
    BY <1>3 DEF TakeResult, MoreRpc, poolVars
  <2>2. stage[r] = "piped" /\ AllAt(stage', rpc', "piped")
    BY <1>a, <1>b, <2>1, AllAtTail
  <2>3. AllAt(stage', queue', "queued")
    BY <1>a, <1>b, <2>1, <2>2, AllAtKeep
  <2>4. \A p \in Pid : AllAt(stage', c2s[p], "sent")
    BY <1>a, <1>b, <2>1, <2>2, AllAtKeep
  <2>5. \A p \in Pid : AllAt(stage', c2s'[p], "sent")
    <3>1. CASE UNCHANGED c2s
      BY <2>4, <3>1
    <3>2. CASE c2s' = [c2s EXCEPT ![PidOf(r)] = <<>>]
      BY <1>a, <2>4, <3>2, AllAtEmpty
    <3>3. CASE \E h : FreeClients(h, c2s)
      BY <2>4, <3>3, FreedLines
    <3> QED BY <1>3, <3>1, <3>2, <3>3
  <2>6. WorkAt(stage', work')
    BY <1>a, <1>b, <2>1, <2>2, WorkAtKeep
  <2> QED BY <2>2, <2>3, <2>5, <2>6 DEF Pipeline
<1>4. ASSUME NEW h, FreeClients(h, c2s), UNCHANGED <<stage, queue, rpc, work>>
      PROVE  Pipeline'
  BY <1>b, <1>4, FreedLines DEF Pipeline
<1>5. ASSUME NEW p \in Pid, NEW s \in {"queued", "lost", "done"}, c2s[p] # <<>>,
             stage' = [stage EXCEPT ![Head(c2s[p])] = s],
             queue' = IF s = "queued" THEN Append(queue, Head(c2s[p])) ELSE queue,
             \/ c2s' = [c2s EXCEPT ![p] = Tail(@)]
             \/ \E h : FreeClients(h, [c2s EXCEPT ![p] = Tail(@)]),
             UNCHANGED <<rpc, work>>
      PROVE  Pipeline'
  <2> DEFINE r == Head(c2s[p])
             lines == [c2s EXCEPT ![p] = Tail(@)]
  <2>1. /\ r \in Req /\ stage[r] = "sent"
        /\ \A q \in Pid : AllAt(stage', lines[q], "sent")
    BY <1>5, LineTaken
  <2>2. /\ stage' = [stage EXCEPT ![r] = s]
        /\ queue' = IF s = "queued" THEN Append(queue, r) ELSE queue
        /\ c2s' = lines \/ \E h : FreeClients(h, lines)
        /\ UNCHANGED <<rpc, work>>
    BY <1>5
  <2> HIDE DEF r, lines
  <2>3. AllAt(stage', queue', "queued")
    BY <1>a, <1>b, <2>1, <2>2, AllAtKeep, AllAtAppend
  <2>4. AllAt(stage', rpc', "piped")
    BY <1>a, <1>b, <2>1, <2>2, AllAtKeep
  <2>5. \A q \in Pid : AllAt(stage', c2s'[q], "sent")
    BY <2>1, <2>2, FreedLines
  <2>6. WorkAt(stage', work')
    BY <1>a, <1>b, <2>1, <2>2, WorkAtKeep
  <2> QED BY <2>3, <2>4, <2>5, <2>6 DEF Pipeline
<1>6. CASE Teardown
  <2> DEFINE h == [a \in Addr |-> IF a \in registry THEN Freed ELSE heap[a]]
  <2>1. /\ queue' = <<>> /\ rpc' = <<>> /\ work' = work
        /\ FreeClients(h, c2s)
    BY <1>6 DEF Teardown
  <2>2. \A r \in Req : stage[r] \in {"sent", "running"} => stage'[r] = stage[r]
    BY <1>6 DEF Teardown
  <2>3. \A p \in Pid : AllAt(stage', c2s[p], "sent")
    BY <1>a, <1>b, <2>2 DEF AllAt
  <2>4. \A p \in Pid : AllAt(stage', c2s'[p], "sent")
    BY <2>1, <2>3, FreedLines
  <2>5. WorkAt(stage', work')
    BY <1>a, <1>b, <2>1, <2>2 DEF WorkAt
  <2> QED BY <2>1, <2>4, <2>5, AllAtEmpty DEF Pipeline
<1>7. ASSUME NEW w \in Worker, Dequeue(w) PROVE Pipeline'
  <2> DEFINE r == Head(queue)
  <2>1. /\ queue # <<>> /\ queue' = Tail(queue)
        /\ stage' = [stage EXCEPT ![r] = "running"]
        /\ work' = [work EXCEPT ![w] = r]
        /\ UNCHANGED <<rpc, c2s>>
    BY <1>7 DEF Dequeue, pipeVars, fifoVars
  <2>2. r \in Req /\ stage[r] = "queued" /\ AllAt(stage', queue', "queued")
    BY <1>a, <1>b, <2>1, AllAtTail
  <2> HIDE DEF r
  <2>3. AllAt(stage', rpc', "piped") /\ \A p \in Pid : AllAt(stage', c2s'[p], "sent")
    BY <1>a, <1>b, <2>1, <2>2, AllAtKeep
  <2>4. WorkAt(stage', work')
    BY <1>a, <1>b, <2>1, <2>2, WorkAtTake
  <2> QED BY <2>2, <2>3, <2>4 DEF Pipeline
<1>8. ASSUME NEW w \in Worker, NEW s \in {"piped", "lost", "done"},
             work[w] # None, work' = [work EXCEPT ![w] = None],
             stage' = [stage EXCEPT ![work[w]] = s],
             rpc' = IF s = "piped" THEN Append(rpc, work[w]) ELSE rpc,
             UNCHANGED <<queue, c2s>>
      PROVE  Pipeline'
  <2> DEFINE r == work[w]
  <2>1. r \in Req /\ stage[r] = "running" /\ WorkAt(stage', work')
    BY <1>a, <1>b, <1>8, WorkAtLeave, ZenonT(60)
  <2>2. /\ stage' = [stage EXCEPT ![r] = s]
        /\ rpc' = IF s = "piped" THEN Append(rpc, r) ELSE rpc
        /\ UNCHANGED <<queue, c2s>>
    BY <1>8
  <2> HIDE DEF r
  <2>3. AllAt(stage', rpc', "piped")
    BY <1>a, <1>b, <2>1, <2>2, AllAtKeep, AllAtAppend
  <2>4. AllAt(stage', queue', "queued") /\ \A p \in Pid : AllAt(stage', c2s'[p], "sent")
    BY <1>a, <1>b, <2>1, <2>2, AllAtKeep
  <2> QED BY <2>1, <2>3, <2>4 DEF Pipeline
<1>9. ASSUME NEW p \in Pid, NEW k \in Commands, ClientSend(p, k) PROVE Pipeline'
  <2> DEFINE r == <<p, sent[p] + 1>>
  <2>1. r \in Req /\ sent[p] + 1 \in 1..MaxSend /\ sent[p] \in 0..MaxSend
    <3>1. sent[p] \in 0..MaxSend /\ sent[p] < MaxSend
      BY <1>9 DEF TypeOK, ClientSend
    <3>2. sent[p] + 1 \in 1..MaxSend /\ sent[p] + 1 \in 0..MaxSend
      BY <3>1
    <3> QED BY <3>1, <3>2 DEF Req
  <2>2. stage[r] = "none"
    <3>1. \A n \in 1..MaxSend : n > sent[p] => stage[<<p, n>>] = "none"
      BY DEF Numbered
    <3> QED BY <2>1, <3>1
  <2>3. /\ stage' = [stage EXCEPT ![r] = "sent"]
        /\ c2s' = IF sfd[p] THEN [c2s EXCEPT ![p] = Append(@, r)] ELSE c2s
        /\ UNCHANGED <<queue, rpc, work>>
    BY <1>9 DEF ClientSend, serverVars, poolVars, pipeVars
  <2> HIDE DEF r
  <2>4. AllAt(stage', queue', "queued") /\ AllAt(stage', rpc', "piped")
    BY <1>a, <1>b, <2>1, <2>2, <2>3, AllAtKeep
  <2>5. WorkAt(stage', work')
    BY <1>a, <1>b, <2>1, <2>2, <2>3, WorkAtKeep
  <2>6. ASSUME NEW q \in Pid PROVE AllAt(stage', c2s'[q], "sent")
    <3>1. AllAt(stage', c2s[q], "sent") /\ AllAt(stage', Append(c2s[q], r), "sent")
      BY <1>a, <1>b, <2>1, <2>2, <2>3, AllAtKeep, AllAtAppend
    <3> QED BY <1>a, <2>3, <3>1
  <2> QED BY <2>4, <2>5, <2>6 DEF Pipeline
<1>10. CASE MainStep
  <2>1. CASE Check \/ PollSleep \/ PollReturn \/ HskEnd \/ RpcEnd \/ SweepEnd \/ SweepNext
    BY <1>1, <2>1 DEF Still, Check, PollSleep, PollReturn, HskEnd, RpcEnd,
       SweepEnd,
       SweepNext, reqVars, poolVars, pipeVars, fifoVars
  <2>2. ASSUME NEW r \in Req,
               (\E a \in Addr : HskOk(r, a)) \/ HskDrop(r) \/ AuthOk(r)
                 \/ AuthReject(r) \/ RpcDone(r)
        PROVE  Pipeline'
    <3>1. CASE \E a \in Addr : HskOk(r, a)
      BY <1>3, <3>1 DEF HskOk, fifoVars
    <3>2. CASE HskDrop(r)
      BY <1>3, <3>2 DEF HskDrop
    <3>3. CASE AuthOk(r) \/ AuthReject(r) \/ RpcDone(r)
      BY <1>3, <3>3 DEF AuthOk, AuthReject, RpcDone
    <3> QED BY <2>2, <3>1, <3>2, <3>3
  <2>3. CASE SweepHangup
    BY <1>4, <2>3 DEF SweepHangup, RemoveSwept, reqVars, poolVars, pipeVars
  <2>4. CASE SweepTask \/ SweepQuit \/ SweepIgnore
    <3> DEFINE p == slots[at].fd
    <3>1. p \in Pid /\ c2s[p] # <<>>
      BY <2>4, SlotAtType DEF SweepTask, SweepQuit, SweepIgnore, AtLine
    <3>2. CASE SweepTask
      <4>1. PICK s \in {"queued", "lost"} :
               /\ stage' = [stage EXCEPT ![Head(c2s[p])] = s]
               /\ queue' = IF s = "queued" THEN Append(queue, Head(c2s[p])) ELSE queue
        BY <3>2 DEF SweepTask, TaskPut
      <4>2. c2s' = [c2s EXCEPT ![p] = Tail(@)] /\ UNCHANGED <<rpc, work>>
        BY <3>2 DEF SweepTask, pipeVars
      <4> HIDE DEF p
      <4> QED BY <1>5, <3>1, <4>1, <4>2
    <3>3. CASE SweepQuit
      <4>1. stage' = [stage EXCEPT ![Head(c2s[p])] = "done"] /\ UNCHANGED <<queue, rpc, work>>
        BY <3>3 DEF SweepQuit, poolVars, pipeVars
      <4>2. \E h : FreeClients(h, [c2s EXCEPT ![p] = Tail(@)])
        BY <3>3 DEF SweepQuit, RemoveSwept
      <4> HIDE DEF p
      <4> QED BY <1>5, <3>1, <4>1, <4>2
    <3>4. CASE SweepIgnore
      <4>1. /\ stage' = [stage EXCEPT ![Head(c2s[p])] = "done"]
            /\ c2s' = [c2s EXCEPT ![p] = Tail(@)] /\ UNCHANGED <<queue, rpc, work>>
        BY <3>4 DEF SweepIgnore, poolVars, pipeVars
      <4> HIDE DEF p
      <4> QED BY <1>5, <3>1, <4>1
    <3> QED BY <2>4, <3>2, <3>3, <3>4
  <2> QED BY <1>2, <1>6, <1>10, <2>1, <2>2, <2>3, <2>4 DEF MainStep
<1>11. ASSUME NEW w \in Worker, WorkerStep(w) PROVE Pipeline'
  <2>1. CASE WorkerExit(w)
    BY <1>1, <2>1 DEF Still, WorkerExit, reqVars, pipeVars, fifoVars
  <2>2. ASSUME NEW type, Report(work[w], type)
        PROVE  \E s \in {"piped", "lost"} :
                  /\ stage' = [stage EXCEPT ![work[w]] = s]
                  /\ rpc' = IF s = "piped" THEN Append(rpc, work[w]) ELSE rpc
    <3>1. CASE Len(rpc) < RpcCap
      BY <2>2, <3>1 DEF Report
    <3>2. CASE ~(Len(rpc) < RpcCap)
      BY <2>2, <3>2 DEF Report
    <3> QED BY <3>1, <3>2
  <2>3. CASE FinishHandshake(w) \/ \E type \in Results : Finish(w, type)
    <3>1. /\ work[w] # None /\ work' = [work EXCEPT ![w] = None]
          /\ UNCHANGED <<queue, c2s>> /\ \E type : Report(work[w], type)
      BY <2>3 DEF FinishHandshake, Finish, fifoVars
    <3> QED BY <1>8, <2>2, <3>1
  <2>4. CASE FinishSilently(w)
    <3>1. PICK s \in {"done", "lost"} : stage' = [stage EXCEPT ![work[w]] = s]
      BY <2>4 DEF FinishSilently
    <3>2. /\ work[w] # None /\ work' = [work EXCEPT ![w] = None]
          /\ UNCHANGED <<queue, c2s, rpc>>
      BY <2>4 DEF FinishSilently, pipeVars, fifoVars
    <3> QED BY <1>8, <3>1, <3>2
  <2> QED BY <1>7, <1>11, <2>1, <2>3, <2>4 DEF WorkerStep
<1>12. ASSUME NEW p \in Pid, ClientStep(p) PROVE Pipeline'
  <2>1. CASE Sigusr1(p) \/ ClientOpen(p) \/ ClientAuthorised(p)
             \/ ClientRead(p) \/ ClientExit(p)
    BY <1>1, <2>1 DEF Still, Sigusr1, ClientOpen, ClientAuthorised,
       ClientRead, ClientExit,
       serverVars, reqVars, poolVars, pipeVars, fifoVars
  <2> QED BY <1>9, <1>12, <2>1 DEF ClientStep
<1>13. CASE SigShutdown \/ UNCHANGED vars
  BY <1>1, <1>13 DEF Still, SigShutdown, vars, reqVars, poolVars, pipeVars,
     fifoVars
<1> QED BY <1>10, <1>11, <1>12, <1>13 DEF Next
-----------------------------------------------------------------------------
\* r is a line, not a handshake.
IsLine(r) == \A p \in Pid : r # <<p, 0>>

\* A request is a handshake or one of the lines of its client.
LEMMA ReqCases ==
    ASSUME NEW r \in Req
    PROVE  \/ \E p \in Pid : r = <<p, 0>>
           \/ IsLine(r) /\ \E p \in Pid, n \in 1..MaxSend : r = <<p, n>>
BY ConstantsAssumption DEF Req, IsLine

\* Every client has a handshake request.
LEMMA HandshakeInReq == \A p \in Pid : <<p, 0>> \in Req
BY ConstantsAssumption DEF Req

\* The FIFOs lose their first line or are dropped.
LinesShrink ==
    \A p \in Pid : \/ c2s'[p] = c2s[p] \/ c2s'[p] = <<>>
                   \/ c2s[p] # <<>> /\ c2s'[p] = Tail(c2s[p])

\* A FIFO that shrinks still holds lines of its own client only.
LEMMA ShrinkKeepsPid ==
    ASSUME TypeOK, NEW p \in Pid, LinesShrink,
           \A i \in DOMAIN c2s[p] : PidOf(c2s[p][i]) = p
    PROVE  \A i \in DOMAIN c2s'[p] : PidOf(c2s'[p][i]) = p
<1>1. c2s[p] \in Seq(Req)
  BY DEF TypeOK
<1>2. ASSUME NEW q \in Seq(Req), q # <<>>,
             \A i \in DOMAIN q : PidOf(q[i]) = p
      PROVE  \A i \in DOMAIN Tail(q) : PidOf(Tail(q)[i]) = p
  BY <1>2
<1>3. \A i \in DOMAIN <<>> : PidOf(<<>>[i]) = p
  OBVIOUS
<1>4. \/ c2s'[p] = c2s[p] \/ c2s'[p] = <<>>
      \/ c2s[p] # <<>> /\ c2s'[p] = Tail(c2s[p])
  BY DEF LinesShrink
<1>5. CASE c2s'[p] = c2s[p]
  BY <1>5
<1>6. CASE c2s'[p] = <<>>
  BY <1>3, <1>6
<1>7. CASE c2s[p] # <<>> /\ c2s'[p] = Tail(c2s[p])
  BY <1>1, <1>2, <1>7
<1> QED BY <1>4, <1>5, <1>6, <1>7

\* One request, handshake or line, goes one stage further.
Moved(r, s) ==
    /\ stage' = [stage EXCEPT ![r] = s]
    /\ IsLine(r) => stage[r] # "none"
    /\ s # "sent" /\ s # "none"
    /\ \/ owner' = owner
       \/ \E a \in Addr : IsLine(r) /\ owner' = [owner EXCEPT ![r] = a]
    /\ s \in Holding /\ IsLine(r) => owner'[r] \in Addr
    /\ \/ result' = result
       \/ \E t : (IsLine(r) \/ t = None) /\ result' = [result EXCEPT ![r] = t]
    /\ UNCHANGED <<kind, sent>>
    /\ LinesShrink

\* Numbering survives the move of one request to its next stage.
LEMMA MovedNumbered ==
    ASSUME TypeOK, Numbered, NEW r \in Req, NEW s, Moved(r, s)
    PROVE  Numbered'
<1>1. ASSUME NEW p \in Pid
      PROVE  /\ kind'[<<p, 0>>] = "HANDSHAKE" /\ stage'[<<p, 0>>] # "sent"
             /\ owner'[<<p, 0>>] = None /\ result'[<<p, 0>>] = None
  <2>1. /\ kind[<<p, 0>>] = "HANDSHAKE" /\ stage[<<p, 0>>] # "sent"
        /\ owner[<<p, 0>>] = None /\ result[<<p, 0>>] = None
    BY DEF Numbered
  <2>2. kind'[<<p, 0>>] = "HANDSHAKE" /\ stage'[<<p, 0>>] # "sent"
    BY <2>1, HandshakeInReq DEF TypeOK, Moved
  <2>3. owner'[<<p, 0>>] = None
    BY <2>1, HandshakeInReq DEF TypeOK, Moved, IsLine
  <2>4. result'[<<p, 0>>] = None
    BY <2>1, HandshakeInReq DEF TypeOK, Moved, IsLine
  <2> QED BY <2>2, <2>3, <2>4
<1>2. ASSUME NEW p \in Pid, NEW n \in 1..MaxSend
      PROVE  /\ n <= sent'[p] => kind'[<<p, n>>] \in LineKinds
             /\ n > sent'[p] => stage'[<<p, n>>] = "none"
             /\ stage'[<<p, n>>] \in Holding => owner'[<<p, n>>] \in Addr
  <2>1. /\ n <= sent[p] => kind[<<p, n>>] \in LineKinds
        /\ n > sent[p] => stage[<<p, n>>] = "none"
        /\ stage[<<p, n>>] \in Holding => owner[<<p, n>>] \in Addr
    BY DEF Numbered
  <2>2. UNCHANGED <<kind, sent>>
    BY DEF Moved
  <2>3. <<p, n>> \in Req
    BY DEF Req
  <2>4. stage \in [Req -> Stages] /\ owner \in [Req -> Addr \cup {None}]
    BY DEF TypeOK
  <2>5. CASE r # <<p, n>>
    <3>1. stage'[<<p, n>>] = stage[<<p, n>>] /\ owner'[<<p, n>>] = owner[<<p, n>>]
      BY <2>3, <2>4, <2>5 DEF Moved
    <3> QED BY <2>1, <2>2, <3>1
  <2>6. CASE r = <<p, n>>
    <3>2. IsLine(r)
      BY <2>6 DEF IsLine
    <3>1. stage[r] # "none" /\ stage'[r] = s
      BY <2>4, <3>2 DEF Moved
    <3>3. s \in Holding => owner'[r] \in Addr
      BY <3>2 DEF Moved
    <3> QED BY <2>1, <2>2, <2>6, <3>1, <3>3
  <2> QED BY <2>5, <2>6
<1>3. ASSUME NEW p \in Pid
      PROVE  \A i \in DOMAIN c2s'[p] : PidOf(c2s'[p][i]) = p
  BY ShrinkKeepsPid DEF Moved, Numbered
<1> QED BY <1>1, <1>2, <1>3 DEF Numbered

\* Steps that start no handshake leave the signals as they are.
LEMMA SignalsKeep ==
    ASSUME TypeOK, SignalsOnce, UNCHANGED hsk,
           \A p \in Pid : stage[<<p, 0>>] = "none" => stage'[<<p, 0>>] = "none",
           \A p \in Pid : cli[p] = "idle" <=> cli'[p] = "idle"
    PROVE  SignalsOnce'
<1>1. \A i \in DOMAIN hsk : hsk[i] \in Pid
  BY DEF TypeOK
<1> QED BY <1>1 DEF SignalsOnce

\* So do the pids in the self pipe, when the request was none of theirs.
LEMMA MovedSignals ==
    ASSUME TypeOK, SignalsOnce, NEW r \in Req, NEW s, Moved(r, s),
           stage[r] # "none", UNCHANGED hsk,
           \A p \in Pid : cli[p] = "idle" <=> cli'[p] = "idle"
    PROVE  SignalsOnce'
<1>1. \A p \in Pid : stage[<<p, 0>>] = "none" => stage'[<<p, 0>>] = "none"
  BY HandshakeInReq DEF TypeOK, Moved
<1> QED BY <1>1, SignalsKeep

\* Steps that touch no request.
Quiet ==
    /\ UNCHANGED <<stage, kind, owner, result, sent>>
    /\ LinesShrink

\* Numbering survives a step that moves no request.
LEMMA QuietNumbered == TypeOK /\ Numbered /\ Quiet => Numbered'
<1> SUFFICES ASSUME TypeOK, Numbered, Quiet PROVE Numbered'
  OBVIOUS
<1>1. ASSUME NEW p \in Pid
      PROVE  \A i \in DOMAIN c2s'[p] : PidOf(c2s'[p][i]) = p
  BY ShrinkKeepsPid DEF Quiet, Numbered
<1> QED BY <1>1 DEF Quiet, Numbered

\* Freeing clients shrinks the FIFOs, with or without a line just read.
LEMMA FreedShrink ==
    ASSUME NEW h, NEW lines, FreeClients(h, lines),
           \A p \in Pid :
              \/ lines[p] = c2s[p]
              \/ c2s[p] # <<>> /\ lines[p] = Tail(c2s[p])
    PROVE  LinesShrink
BY DEF FreeClients, LinesShrink

\* The same when no line has been read.
LEMMA DroppedShrink ==
    ASSUME NEW h, FreeClients(h, c2s)
    PROVE  LinesShrink
BY DEF FreeClients, LinesShrink

\* Reading the first line of p shrinks one FIFO and leaves the others.
LEMMA FirstTaken ==
    ASSUME TypeOK, NEW p \in Pid, c2s[p] # <<>>
    PROVE  \A q \in Pid :
              LET lines == [c2s EXCEPT ![p] = Tail(@)]
              IN \/ lines[q] = c2s[q]
                 \/ c2s[q] # <<>> /\ lines[q] = Tail(c2s[q])
BY DEF TypeOK

\* The first line of a FIFO is a line, and so is whatever has an owner's
\* reference or a kind of its own.
LEMMA SentIsLine ==
    ASSUME Numbered, NEW r, stage[r] = "sent"
    PROVE  IsLine(r)
BY DEF Numbered, IsLine

\* Whatever asks for something else than a handshake is a line.
LEMMA KindIsLine ==
    ASSUME Numbered, NEW r, kind[r] # "HANDSHAKE"
    PROVE  IsLine(r)
BY DEF Numbered, IsLine

\* Only lines have results.
LEMMA ResultIsLine ==
    ASSUME Numbered, NEW r, result[r] # None
    PROVE  IsLine(r)
BY DEF Numbered, IsLine

\* A line that holds a reference has an address to hold it at.
LEMMA HolderNamed ==
    ASSUME Numbered, NEW r \in Req, IsLine(r), stage[r] \in Holding
    PROVE  owner[r] \in Addr
<1>1. PICK p \in Pid, n \in 1..MaxSend : r = <<p, n>>
  BY ReqCases DEF IsLine
<1> QED BY <1>1 DEF Numbered

\* read of RPC_R moves one request from the pipe to its end.
LEMMA TakenMoved ==
    ASSUME TypeOK, Pipeline, NEW r \in Req, TakeResult(r), LinesShrink
    PROVE  Moved(r, "done") /\ stage[r] = "piped"
<1>1. rpc # <<>> /\ rpc \in Seq(Req) /\ r = Head(rpc)
  BY DEF TypeOK, TakeResult, MoreRpc
<1>2. stage[r] = "piped"
  <2>1. 1 \in DOMAIN rpc /\ r = rpc[1]
    BY <1>1, HeadAt
  <2> QED BY <2>1 DEF Pipeline, AllAt
<1>3. /\ stage' = [stage EXCEPT ![r] = "done"]
      /\ UNCHANGED <<owner, result, kind, sent>>
  BY DEF TakeResult, reqInfo, clientVars
<1> QED BY <1>2, <1>3 DEF Moved, Holding

\* handle_command moves the line it was given, and only that one.
LEMMA LineMoved ==
    ASSUME TypeOK, Pipeline, Numbered, NEW p \in Pid, c2s[p] # <<>>,
           NEW s \in {"queued", "lost", "done"}, LinesShrink,
           stage' = [stage EXCEPT ![Head(c2s[p])] = s],
           \/ s = "done" /\ UNCHANGED owner
           \/ \E a \in Addr : owner' = [owner EXCEPT ![Head(c2s[p])] = a],
           UNCHANGED <<result, kind, sent>>
    PROVE  /\ Head(c2s[p]) \in Req /\ stage[Head(c2s[p])] = "sent"
           /\ IsLine(Head(c2s[p])) /\ Moved(Head(c2s[p]), s)
<1> DEFINE r == Head(c2s[p])
<1>1. r \in Req /\ stage[r] = "sent"
  BY LineTaken
<1>2. IsLine(r)
  BY <1>1, SentIsLine
<1>3. /\ owner \in [Req -> Addr \cup {None}]
      /\ stage' = [stage EXCEPT ![r] = s]
      /\ \/ s = "done" /\ UNCHANGED owner
         \/ \E a \in Addr : owner' = [owner EXCEPT ![r] = a]
  BY DEF TypeOK
<1> HIDE DEF r
<1>4. Moved(r, s)
  BY <1>1, <1>2, <1>3 DEF Moved, Holding
<1> QED BY <1>1, <1>2, <1>4 DEF r

\* A worker that puts down its task moves it, and only it.
LEMMA WorkMoved ==
    ASSUME TypeOK, Pipeline, Numbered, NEW w \in Worker, work[w] # None,
           NEW s \in {"piped", "lost", "done"},
           stage' = [stage EXCEPT ![work[w]] = s],
           \/ UNCHANGED result
           \/ \E t : /\ kind[work[w]] # "HANDSHAKE" \/ t = None
                    /\ result' = [result EXCEPT ![work[w]] = t],
           UNCHANGED <<owner, kind, sent, c2s>>
    PROVE  /\ work[w] \in Req /\ stage[work[w]] = "running"
           /\ Moved(work[w], s)
<1> DEFINE r == work[w]
<1>1. r \in Req /\ stage[r] = "running"
  BY DEF TypeOK, Pipeline, WorkAt
<1>2. LinesShrink
  BY DEF LinesShrink
<1>3. IsLine(r) => owner[r] \in Addr
  BY <1>1, HolderNamed DEF Holding
<1>4. \/ result' = result
      \/ \E t : (IsLine(r) \/ t = None) /\ result' = [result EXCEPT ![r] = t]
  BY KindIsLine
<1>5. stage' = [stage EXCEPT ![r] = s] /\ UNCHANGED <<owner, kind, sent>>
  OBVIOUS
<1> HIDE DEF r
<1>6. Moved(r, s)
  BY <1>1, <1>2, <1>3, <1>4, <1>5 DEF Moved
<1> QED BY <1>1, <1>6 DEF r

\* A reported result is in the pipe, or lost when the pipe is full.
LEMMA ReportStage ==
    ASSUME NEW r, NEW type, Report(r, type)
    PROVE  /\ \E s \in {"piped", "lost"} : stage' = [stage EXCEPT ![r] = s]
           /\ result' = [result EXCEPT ![r] = type]
<1>1. CASE Len(rpc) < RpcCap
  BY <1>1 DEF Report
<1>2. CASE ~(Len(rpc) < RpcCap)
  BY <1>2 DEF Report
<1> QED BY <1>1, <1>2

\* No client goes back to the state before its signal.
NoneIdle == \A p \in Pid : cli[p] = "idle" <=> cli'[p] = "idle"

\* Numbering and the handshake pipe survive every step.
LEMMA NumberedStep ==
    TypeOK /\ SignalsOnce /\ Numbered /\ Pipeline /\ [Next]_vars
        => Numbered' /\ SignalsOnce'
<1> SUFFICES ASSUME TypeOK, SignalsOnce, Numbered, Pipeline, [Next]_vars
             PROVE  Numbered' /\ SignalsOnce'
  OBVIOUS
<1>1. ASSUME Quiet, UNCHANGED hsk, NoneIdle PROVE Numbered' /\ SignalsOnce'
  BY <1>1, QuietNumbered, SignalsKeep DEF Quiet, NoneIdle
<1>2. ASSUME NEW r \in Req, NEW s, Moved(r, s), stage[r] # "none",
             UNCHANGED hsk, NoneIdle
      PROVE  Numbered' /\ SignalsOnce'
  BY <1>2, MovedNumbered, MovedSignals DEF NoneIdle
<1>3. CASE HskRead
  <2>1. hsk \in Seq(Pid) /\ hsk # <<>>
    BY <1>3 DEF TypeOK, HskRead, MoreHsk
  <2>2. PICK p \in Pid : p = Head(hsk) /\ p = hsk[1] /\ 1 \in DOMAIN hsk
    BY <2>1, HeadAt
  <2>3. PICK s \in {"queued", "done"} : stage' = [stage EXCEPT ![<<p, 0>>] = s]
    BY <1>3, <2>2 DEF HskRead
  <2>4. /\ UNCHANGED <<owner, result, kind, sent, cli, c2s>> /\ hsk' = Tail(hsk)
    BY <1>3 DEF HskRead, reqInfo, clientVars, fifoVars
  <2>5. <<p, 0>> \in Req /\ ~IsLine(<<p, 0>>)
    BY HandshakeInReq DEF IsLine
  <2>6. Moved(<<p, 0>>, s)
    BY <2>3, <2>4, <2>5 DEF Moved, LinesShrink
  <2>7. ASSUME NEW i \in DOMAIN hsk'
        PROVE  /\ hsk'[i] = hsk[i + 1] /\ i + 1 \in DOMAIN hsk
               /\ hsk[i + 1] \in Pid /\ hsk[i + 1] # p
    <3>1. /\ hsk'[i] = hsk[i + 1] /\ i + 1 \in DOMAIN hsk
          /\ hsk[i + 1] \in Pid /\ i + 1 # 1
      BY <2>1, <2>4
    <3> QED BY <2>2, <3>1 DEF SignalsOnce
  <2>8. ASSUME NEW q \in Pid, q # p PROVE stage'[<<q, 0>>] = stage[<<q, 0>>]
    BY <2>3, <2>8, HandshakeInReq DEF TypeOK
  <2>9. ASSUME NEW i \in DOMAIN hsk'
        PROVE  stage'[<<hsk'[i], 0>>] = "none" /\ cli'[hsk'[i]] # "idle"
    BY <2>4, <2>7, <2>8 DEF SignalsOnce
  <2>10. ASSUME NEW i \in DOMAIN hsk', NEW j \in DOMAIN hsk',
                hsk'[i] = hsk'[j]
         PROVE  i = j
    <3>1. hsk[i + 1] = hsk[j + 1] /\ i + 1 \in DOMAIN hsk /\ j + 1 \in DOMAIN hsk
      BY <2>7, <2>10
    <3>2. i + 1 = j + 1
      BY <3>1 DEF SignalsOnce
    <3>3. i \in Int /\ j \in Int
      BY <2>1, <2>4
    <3> QED BY <3>2, <3>3
  <2>11. \A q \in Pid : cli'[q] = "idle" => stage'[<<q, 0>>] = "none"
    <3>1. cli[p] # "idle"
      BY <2>2 DEF SignalsOnce
    <3> QED BY <2>4, <2>8, <3>1 DEF SignalsOnce
  <2>12. SignalsOnce'
    BY <2>9, <2>10, <2>11 DEF SignalsOnce
  <2> QED BY <2>5, <2>6, <2>12, MovedNumbered
<1>4. ASSUME NEW p \in Pid, Sigusr1(p) PROVE Numbered' /\ SignalsOnce'
  <2>1. Quiet
    BY <1>4 DEF Quiet, Sigusr1, LinesShrink, reqVars, reqInfo, fifoVars
  <2>2. /\ cli[p] = "idle" /\ cli' = [cli EXCEPT ![p] = "syn"]
        /\ hsk' = hsk \/ hsk' = Append(hsk, p)
        /\ UNCHANGED stage
    BY <1>4 DEF Sigusr1, reqVars
  <2>3. hsk \in Seq(Pid) /\ cli \in [Pid -> CliStates]
    BY DEF TypeOK
  <2>4. stage[<<p, 0>>] = "none" /\ \A i \in DOMAIN hsk : hsk[i] # p
    BY <2>2 DEF SignalsOnce
  <2>5. \A i \in DOMAIN hsk' :
           \/ i \in DOMAIN hsk /\ hsk'[i] = hsk[i]
           \/ i = Len(hsk) + 1 /\ hsk'[i] = p
    BY <2>2, <2>3
  <2>6. \A i \in DOMAIN hsk' :
           stage'[<<hsk'[i], 0>>] = "none" /\ cli'[hsk'[i]] # "idle"
    BY <2>2, <2>3, <2>4, <2>5 DEF SignalsOnce
  <2>7. \A i, j \in DOMAIN hsk' : hsk'[i] = hsk'[j] => i = j
    BY <2>4, <2>5 DEF SignalsOnce
  <2>8. \A q \in Pid : cli'[q] = "idle" => stage'[<<q, 0>>] = "none"
    BY <2>2, <2>3 DEF SignalsOnce
  <2> QED BY <2>1, <2>6, <2>7, <2>8, QuietNumbered DEF SignalsOnce
<1>5. ASSUME NEW p \in Pid, NEW k \in Commands, ClientSend(p, k)
      PROVE  Numbered' /\ SignalsOnce'
  <2> DEFINE m == sent[p] + 1
  <2>1. sent \in [Pid -> 0..MaxSend] /\ sent[p] < MaxSend /\ MaxSend \in Nat
    BY <1>5, ConstantsAssumption DEF TypeOK, ClientSend
  <2>2. m \in 1..MaxSend /\ m # 0 /\ m > sent[p] /\ m - 1 = sent[p]
    BY <2>1
  <2>3. /\ sent' = [sent EXCEPT ![p] = m]
        /\ stage' = [stage EXCEPT ![<<p, m>>] = "sent"]
        /\ kind' = [kind EXCEPT ![<<p, m>>] = k]
        /\ c2s' = IF sfd[p] THEN [c2s EXCEPT ![p] = Append(@, <<p, m>>)] ELSE c2s
        /\ UNCHANGED <<owner, result, hsk>>
    BY <1>5 DEF ClientSend, serverVars, pipeVars
  <2> HIDE DEF m
  <2>4. <<p, m>> \in Req /\ \A q \in Pid : <<q, 0>> # <<p, m>>
    BY <2>2 DEF Req
  <2>5. /\ stage \in [Req -> Stages]
        /\ kind \in [Req -> LineKinds \cup {"HANDSHAKE"}]
        /\ c2s \in [Pid -> Seq(Req)] /\ k \in LineKinds
    BY ConstantsAssumption DEF TypeOK
  <2>6. \A q \in Pid :
           /\ kind'[<<q, 0>>] = kind[<<q, 0>>]
           /\ stage'[<<q, 0>>] = stage[<<q, 0>>]
    BY <2>3, <2>4, <2>5, HandshakeInReq
  <2>7. ASSUME NEW q \in Pid, NEW n \in 1..MaxSend
        PROVE  /\ n <= sent'[q] => kind'[<<q, n>>] \in LineKinds
               /\ n > sent'[q] => stage'[<<q, n>>] = "none"
               /\ stage'[<<q, n>>] \in Holding => owner'[<<q, n>>] \in Addr
    <3>1. /\ n <= sent[q] => kind[<<q, n>>] \in LineKinds
          /\ n > sent[q] => stage[<<q, n>>] = "none"
          /\ stage[<<q, n>>] \in Holding => owner[<<q, n>>] \in Addr
      BY DEF Numbered
    <3>2. <<q, n>> \in Req
      BY DEF Req
    <3>3. CASE q = p /\ n = m
      <4>1. sent'[q] = m /\ kind'[<<q, n>>] = k /\ stage'[<<q, n>>] = "sent"
        BY <2>1, <2>3, <2>4, <2>5, <3>3
      <4>2. ~(n > sent'[q])
        BY <2>2, <3>3, <4>1
      <4> QED BY <2>5, <4>1, <4>2 DEF Holding
    <3>4. CASE q = p /\ n # m
      <4>1. /\ sent'[q] = m /\ kind'[<<q, n>>] = kind[<<q, n>>]
            /\ stage'[<<q, n>>] = stage[<<q, n>>] /\ owner' = owner
        BY <2>1, <2>3, <2>5, <3>2, <3>4
      <4>2. n <= m => n <= sent[q]
        BY <2>1, <2>2, <3>4
      <4>3. n > m => n > sent[q]
        BY <2>1, <2>2, <3>4
      <4> QED BY <3>1, <4>1, <4>2, <4>3
    <3>5. CASE q # p
      <4>1. /\ sent'[q] = sent[q] /\ kind'[<<q, n>>] = kind[<<q, n>>]
            /\ stage'[<<q, n>>] = stage[<<q, n>>] /\ owner' = owner
        BY <2>1, <2>3, <2>5, <3>2, <3>5
      <4> QED BY <3>1, <4>1
    <3> QED BY <3>3, <3>4, <3>5
  <2>8. ASSUME NEW q \in Pid
        PROVE  \A i \in DOMAIN c2s'[q] : PidOf(c2s'[q][i]) = q
    <3>1. \A i \in DOMAIN c2s[q] : PidOf(c2s[q][i]) = q
      BY DEF Numbered
    <3>2. PidOf(<<p, m>>) = p
      BY DEF PidOf
    <3>3. CASE c2s'[q] = c2s[q]
      BY <3>1, <3>3
    <3>4. CASE q = p /\ c2s'[q] = Append(c2s[q], <<p, m>>)
      <4>1. c2s[q] \in Seq(Req)
        BY <2>5
      <4>2. \A i \in DOMAIN c2s'[q] :
               \/ i \in DOMAIN c2s[q] /\ c2s'[q][i] = c2s[q][i]
               \/ c2s'[q][i] = <<p, m>>
        BY <2>4, <3>4, <4>1
      <4> QED BY <3>1, <3>2, <3>4, <4>2
    <3> QED BY <2>3, <2>5, <3>3, <3>4
  <2>9. Numbered'
    BY <2>3, <2>6, <2>7, <2>8 DEF Numbered
  <2>10. NoneIdle
    <3>1. cli \in [Pid -> CliStates] /\ cli[p] # "idle"
      BY <1>5 DEF TypeOK, ClientSend
    <3>2. "idle" \notin AfterLine(p, k)
      BY <3>1 DEF AfterLine
    <3>3. \A q \in Pid : cli'[q] = cli[q] \/ (q = p /\ cli'[q] \in AfterLine(p, k))
      BY <1>5, <3>1 DEF ClientSend
    <3> QED BY <3>1, <3>2, <3>3 DEF NoneIdle
  <2> QED BY <2>3, <2>6, <2>9, <2>10, SignalsKeep DEF NoneIdle
<1>6. CASE Teardown
  <2>1. /\ UNCHANGED <<kind, owner, result, sent, hsk, cli>>
        /\ \E h : FreeClients(h, c2s)
    BY <1>6 DEF Teardown, reqInfo, clientVars
  <2>2. LinesShrink
    BY <2>1, DroppedShrink
  <2>3. ASSUME NEW r \in Req
        PROVE  /\ stage[r] # "sent" => stage'[r] # "sent"
               /\ stage[r] = "none" => stage'[r] = "none"
               /\ stage'[r] \in Holding => stage[r] \in Holding
    BY <1>6 DEF Teardown, Holding
  <2>4. ASSUME NEW p \in Pid
        PROVE  \A i \in DOMAIN c2s'[p] : PidOf(c2s'[p][i]) = p
    BY <2>2, ShrinkKeepsPid DEF Numbered
  <2>5. /\ \A p \in Pid : <<p, 0>> \in Req
        /\ \A p \in Pid : \A n \in 1..MaxSend : <<p, n>> \in Req
    <3>1. \A p \in Pid : \A n \in 1..MaxSend : <<p, n>> \in Req
      BY DEF Req
    <3> QED BY <3>1, HandshakeInReq
  <2>6. Numbered'
    BY <2>1, <2>3, <2>4, <2>5 DEF Numbered
  <2>7. SignalsOnce'
    BY <2>1, <2>3, <2>5, SignalsKeep
  <2> QED BY <2>6, <2>7
<1>7. ASSUME NEW r \in Req, TakeResult(r), LinesShrink
      PROVE  Numbered' /\ SignalsOnce'
  <2>1. UNCHANGED hsk /\ NoneIdle
    BY <1>7 DEF TakeResult, NoneIdle, clientVars
  <2> QED BY <1>2, <1>7, <2>1, TakenMoved
<1>8. CASE MainStep
  <2>1. CASE Check \/ PollSleep \/ PollReturn \/ HskEnd \/ RpcEnd \/ SweepEnd
                \/ SweepNext
    <3>1. UNCHANGED <<reqVars, hsk, clientVars, c2s>>
      BY <2>1 DEF Check, PollSleep, PollReturn, HskEnd, RpcEnd, SweepEnd,
         SweepNext, reqVars, pipeVars, fifoVars
    <3> QED BY <1>1, <3>1 DEF Quiet, LinesShrink, NoneIdle, reqVars, reqInfo,
            clientVars
  <2>2. ASSUME NEW r \in Req,
               (\E a \in Addr : HskOk(r, a)) \/ HskDrop(r) \/ AuthOk(r)
                 \/ AuthReject(r) \/ RpcDone(r)
        PROVE  Numbered' /\ SignalsOnce'
    <3>1. CASE \E a \in Addr : HskOk(r, a)
      BY <1>7, <3>1 DEF HskOk, LinesShrink, fifoVars
    <3>2. CASE HskDrop(r)
      <4>1. LinesShrink
        BY <3>2 DEF HskDrop, LinesShrink, TypeOK
      <4> QED BY <1>7, <3>2, <4>1 DEF HskDrop
    <3>3. CASE AuthOk(r) \/ AuthReject(r) \/ RpcDone(r)
      <4>1. TakeResult(r) /\ \E h : FreeClients(h, c2s)
        BY <3>3 DEF AuthOk, AuthReject, RpcDone
      <4> QED BY <1>7, <4>1, DroppedShrink
    <3> QED BY <2>2, <3>1, <3>2, <3>3
  <2>3. CASE SweepHangup
    <3>1. /\ UNCHANGED <<reqVars, hsk, clientVars>>
          /\ \E h : FreeClients(h, c2s)
      BY <2>3 DEF SweepHangup, RemoveSwept, pipeVars
    <3>2. LinesShrink
      BY <3>1, DroppedShrink
    <3> QED BY <1>1, <3>1, <3>2 DEF Quiet, NoneIdle, reqVars, reqInfo,
       clientVars
  <2>4. CASE SweepTask \/ SweepQuit \/ SweepIgnore
    <3> DEFINE p == slots[at].fd
               r == Head(c2s[p])
               lines == [c2s EXCEPT ![p] = Tail(@)]
    <3>1. p \in Pid /\ slots[at].client \in Addr /\ c2s[p] # <<>>
      BY <2>4, SlotAtType DEF SweepTask, SweepQuit, SweepIgnore, AtLine
    <3>3. c2s' = lines \/ \E h : FreeClients(h, lines)
      BY <2>4 DEF SweepTask, SweepQuit, SweepIgnore, RemoveSwept
    <3>4. /\ UNCHANGED <<kind, result, sent, hsk, cli>>
      BY <2>4 DEF SweepTask, SweepQuit, SweepIgnore, reqInfo, pipeVars,
         clientVars
    <3>5. PICK s \in {"queued", "lost", "done"} :
             /\ stage' = [stage EXCEPT ![r] = s]
             /\ \/ s = "done" /\ UNCHANGED owner
                \/ owner' = [owner EXCEPT ![r] = slots[at].client]
      BY <2>4 DEF SweepTask, SweepQuit, SweepIgnore, reqInfo
    <3> HIDE DEF p
    <3>2. \A q \in Pid :
             \/ lines[q] = c2s[q]
             \/ c2s[q] # <<>> /\ lines[q] = Tail(c2s[q])
      BY <3>1, FirstTaken
    <3> HIDE DEF lines
    <3>6. LinesShrink
      <4>1. CASE c2s' = lines
        BY <3>2, <4>1 DEF LinesShrink
      <4> QED BY <3>2, <3>3, <4>1, FreedShrink
    <3>7. r \in Req /\ stage[r] = "sent" /\ Moved(r, s)
      BY <3>1, <3>4, <3>5, <3>6, LineMoved
    <3>8. NoneIdle
      BY <3>4 DEF NoneIdle
    <3> QED BY <1>2, <3>4, <3>7, <3>8
  <2> QED BY <1>3, <1>6, <1>8, <2>1, <2>2, <2>3, <2>4 DEF MainStep
<1>9. ASSUME NEW w \in Worker, WorkerStep(w) PROVE Numbered' /\ SignalsOnce'
  <2>1. CASE WorkerExit(w)
    BY <1>1, <2>1 DEF Quiet, LinesShrink, NoneIdle, WorkerExit, reqVars,
       reqInfo,
       pipeVars, clientVars, fifoVars
  <2>2. CASE Dequeue(w)
    <3> DEFINE r == Head(queue)
    <3>1. queue \in Seq(Req) /\ queue # <<>>
      BY <2>2 DEF TypeOK, Dequeue
    <3>2. 1 \in DOMAIN queue /\ r = queue[1] /\ r \in Req
      BY <3>1, HeadAt
    <3>3. stage[r] = "queued"
      BY <3>2 DEF Pipeline, AllAt
    <3>4. /\ stage' = [stage EXCEPT ![r] = "running"]
          /\ UNCHANGED <<kind, owner, result, hsk, cli, sent, c2s>>
      BY <2>2 DEF Dequeue, reqInfo, pipeVars, clientVars, fifoVars
    <3> HIDE DEF r
    <3>5. IsLine(r) => owner[r] \in Addr
      BY <3>2, <3>3, HolderNamed DEF Holding
    <3>6. Moved(r, "running") /\ NoneIdle
      BY <3>3, <3>4, <3>5 DEF Moved, LinesShrink, NoneIdle
    <3> QED BY <1>2, <3>2, <3>3, <3>4, <3>6
  <2>3. CASE FinishHandshake(w) \/ \E type \in Results : Finish(w, type)
    <3>1. PICK t : /\ Report(work[w], t)
                   /\ kind[work[w]] # "HANDSHAKE" \/ t = None
      BY <2>3 DEF FinishHandshake, Finish
    <3>2. /\ work[w] # None
          /\ UNCHANGED <<owner, kind, hsk, sent, c2s>>
      BY <2>3 DEF FinishHandshake, Finish, clientVars, fifoVars
    <3>3. PICK s \in {"piped", "lost"} : stage' = [stage EXCEPT ![work[w]] = s]
      BY <3>1, ReportStage
    <3>4. result' = [result EXCEPT ![work[w]] = t]
      BY <3>1, ReportStage
    <3>5. work[w] \in Req /\ stage[work[w]] = "running" /\ Moved(work[w], s)
      BY <3>1, <3>2, <3>3, <3>4, WorkMoved
    <3>6. NoneIdle
      BY <2>3 DEF TypeOK, NoneIdle, FinishHandshake, Finish, clientVars
    <3> QED BY <1>2, <3>2, <3>5, <3>6
  <2>4. CASE FinishSilently(w)
    <3>1. PICK s \in {"done", "lost"} : stage' = [stage EXCEPT ![work[w]] = s]
      BY <2>4 DEF FinishSilently
    <3>2. /\ work[w] # None
          /\ UNCHANGED <<owner, kind, result, hsk, cli, sent, c2s>>
      BY <2>4 DEF FinishSilently, reqInfo, pipeVars, clientVars, fifoVars
    <3>3. work[w] \in Req /\ stage[work[w]] = "running" /\ Moved(work[w], s)
      BY <3>1, <3>2, WorkMoved
    <3> QED BY <1>2, <3>2, <3>3 DEF NoneIdle
  <2> QED BY <1>9, <2>1, <2>2, <2>3, <2>4 DEF WorkerStep
<1>10. ASSUME NEW p \in Pid, ClientStep(p) PROVE Numbered' /\ SignalsOnce'
  <2>1. CASE ClientOpen(p) \/ ClientAuthorised(p) \/ ClientRead(p)
                \/ ClientExit(p)
    <3>1. UNCHANGED <<reqVars, hsk, sent, c2s>>
      BY <2>1 DEF ClientOpen, ClientAuthorised, ClientRead, ClientExit,
         serverVars, pipeVars
    <3>2. NoneIdle
      BY <2>1 DEF TypeOK, NoneIdle, ClientOpen, ClientAuthorised, ClientRead,
         ClientExit, Writing
    <3> QED BY <1>1, <3>1, <3>2 DEF Quiet, LinesShrink, reqVars, reqInfo
  <2> QED BY <1>4, <1>5, <1>10, <2>1 DEF ClientStep
<1>11. CASE SigShutdown \/ UNCHANGED vars
  BY <1>1, <1>11 DEF Quiet, LinesShrink, NoneIdle, SigShutdown, vars, reqVars,
     reqInfo, pipeVars, clientVars, fifoVars
<1> QED BY <1>8, <1>9, <1>10, <1>11 DEF Next
=============================================================================
