---------------------------- MODULE Safety_proofs -----------------------------
(***************************************************************************)
(* The reference counts are exact, nothing dangles, and every reply        *)
(* reaches the client that asked, in the order of the requests but for the *)
(* workers: the theorems about the server with the client program of the   *)
(* repository.                                                             *)
(***************************************************************************)
EXTENDS Connection_proofs, FiniteSetTheorems

\* The record at a in heap h counts the requests in O, and they are requests
\* of its client.
CountAt(h, a, O) ==
    /\ h[a].alloc => h[a].refcount = (IF h[a].dead THEN 0 ELSE 1) + Cardinality(O)
    /\ O # {} => h[a].alloc
    /\ \A r \in O : h[a].pid = PidOf(r)

\* References and CountsExact say the same as CountAt at every address.
LEMMA CountParts ==
    ASSUME pc # "done"
    PROVE  References /\ CountsExact
             <=> \A a \in Addr : CountAt(heap, a, Outstanding(a))
<1>1. ASSUME References, CountsExact, NEW a \in Addr
      PROVE  CountAt(heap, a, Outstanding(a))
  <2>1. heap[a].alloc => heap[a].refcount = (IF heap[a].dead THEN 0 ELSE 1)
                                               + Cardinality(Outstanding(a))
    BY <1>1 DEF CountsExact
  <2>2. \A r \in Outstanding(a) : heap[a].alloc /\ heap[a].pid = PidOf(r)
    BY <1>1 DEF References
  <2> QED BY <2>1, <2>2 DEF CountAt
<1>2. ASSUME \A a \in Addr : CountAt(heap, a, Outstanding(a))
      PROVE  References /\ CountsExact
  <2>1. References
    BY <1>2 DEF References, CountAt
  <2>2. CountsExact
    BY <1>2 DEF CountsExact, CountAt
  <2> QED BY <2>1, <2>2
<1> QED BY <1>1, <1>2

\* The same for the next state.
LEMMA CountPartsNext ==
    ASSUME \A a \in Addr : CountAt(heap', a, Outstanding(a)')
    PROVE  References' /\ CountsExact'
<1>1. References'
  BY DEF References, CountAt
<1>2. CountsExact'
  BY DEF CountsExact, CountAt
<1> QED BY <1>1, <1>2

\* Only finitely many requests hold a reference.
LEMMA OutstandingFinite ==
    \A a : /\ IsFiniteSet(Outstanding(a)) /\ Cardinality(Outstanding(a)) \in Nat
           /\ IsFiniteSet(Outstanding(a)')
           /\ Outstanding(a) \subseteq Req
<1>1. IsFiniteSet(Req)
  <2>1. IsFiniteSet(0..MaxSend)
    BY FS_Interval, ConstantsAssumption
  <2> QED BY <2>1, FS_Product, ConstantsAssumption DEF Req
<1>2. \A a : Outstanding(a) \subseteq Req /\ Outstanding(a)' \subseteq Req
  BY DEF Outstanding
<1>3. \A a : IsFiniteSet(Outstanding(a)) /\ IsFiniteSet(Outstanding(a)')
  BY <1>1, <1>2, FS_Subset
<1> QED BY <1>2, <1>3, FS_CardinalityType

\* Refs counts.
LEMMA RefsCount ==
    ASSUME NEW c \in ActiveClient, NEW n \in Int
    PROVE  Refs(c, n).refcount = c.refcount + n
BY DEF ActiveClient, Refs

\* Marking a client dead does not count.
LEMMA DeadFields ==
    ASSUME NEW c \in ActiveClient
    PROVE  /\ [c EXCEPT !.dead = TRUE].dead = TRUE
           /\ [c EXCEPT !.dead = TRUE].refcount = c.refcount
<1>1. [c EXCEPT !.dead = TRUE].dead = TRUE
  BY DEF ActiveClient
<1>2. [c EXCEPT !.dead = TRUE].refcount = c.refcount
  BY DEF ActiveClient
<1> QED BY <1>1, <1>2

\* Nor does logged_in.
LEMMA LoggedInFields ==
    ASSUME NEW c \in ActiveClient
    PROVE  [c EXCEPT !.logged_in = TRUE].refcount = c.refcount
BY DEF ActiveClient

\* creg_release_client for one of the requests counted.
LEMMA ReleaseCount ==
    ASSUME NEW h \in [Addr -> ActiveClient], NEW a \in Addr, NEW O, NEW r \in O,
           IsFiniteSet(O), CountAt(h, a, O)
    PROVE  /\ CountAt(Released(h, a), a, O \ {r})
           /\ \A b \in Addr \ {a} : Released(h, a)[b] = h[b]
           /\ Released(h, a) \in [Addr -> ActiveClient]
           /\ Released(h, a)[a].alloc => Released(h, a)[a].dead = h[a].dead
<1> DEFINE g == Released(h, a)
           c == Refs(h[a], -1)
<1>1. /\ h[a].alloc /\ h[a].refcount = (IF h[a].dead THEN 0 ELSE 1) + Cardinality(O)
      /\ \A x \in O : h[a].pid = PidOf(x)
  BY DEF CountAt
<1>2. /\ Cardinality(O) \in Nat /\ Cardinality(O \ {r}) = Cardinality(O) - 1
      /\ IsFiniteSet(O \ {r})
  BY FS_RemoveElement, FS_CardinalityType
<1>3. /\ g = IF h[a].dead /\ h[a].refcount = 1 THEN [h EXCEPT ![a] = Freed]
             ELSE [h EXCEPT ![a] = c]
  BY <1>1 DEF Released
<1>4. /\ c.alloc = h[a].alloc /\ c.pid = h[a].pid /\ c.dead = h[a].dead
      /\ c.refcount = h[a].refcount - 1
  <2>1. h[a] \in ActiveClient /\ -1 \in Int /\ h[a].refcount \in Int
    BY DEF ActiveClient
  <2>2. \A x \in ActiveClient : Refs(x, -1).refcount = x.refcount + (-1)
    BY <2>1, RefsCount
  <2>3. c.refcount = h[a].refcount + (-1)
    BY <2>1, <2>2
  <2>4. h[a].refcount + (-1) = h[a].refcount - 1
    BY <2>1
  <2>5. c.alloc = h[a].alloc /\ c.pid = h[a].pid /\ c.dead = h[a].dead
    BY <2>1, RefsFields
  <2> QED BY <2>3, <2>4, <2>5
<1> HIDE DEF c
<1>5. g \in [Addr -> ActiveClient]
  BY ReleasedType
<1> HIDE DEF g
<1>6. CASE h[a].dead /\ h[a].refcount = 1
  <2>1. Cardinality(O) = 1
    BY <1>1, <1>2, <1>6
  <2>2. O \ {r} = {}
    BY <1>2, <2>1, FS_EmptySet
  <2>3. ~g[a].alloc /\ \A b \in Addr \ {a} : g[b] = h[b]
    BY <1>3, <1>6 DEF Freed
  <2> QED BY <1>5, <2>2, <2>3 DEF CountAt, g
<1>7. CASE ~(h[a].dead /\ h[a].refcount = 1)
  <2>1. g[a] = c /\ \A b \in Addr \ {a} : g[b] = h[b]
    BY <1>3, <1>7
  <2>2. c.refcount = (IF c.dead THEN 0 ELSE 1) + Cardinality(O \ {r})
    BY <1>1, <1>2, <1>4
  <2> QED BY <1>1, <1>4, <1>5, <2>1, <2>2 DEF CountAt, g
<1> QED BY <1>6, <1>7

\* creg_remove of a client that is still registered.
LEMMA RemoveCount ==
    ASSUME NEW h \in [Addr -> ActiveClient], NEW a \in Addr, NEW O,
           IsFiniteSet(O), CountAt(h, a, O), h[a].alloc => ~h[a].dead
    PROVE  /\ CountAt(Removed(h, a), a, O)
           /\ \A b \in Addr \ {a} : Removed(h, a)[b] = h[b]
<1> DEFINE d == [h[a] EXCEPT !.dead = TRUE]
           g == [h EXCEPT ![a] = d]
           c == Refs(d, -1)
<1>1. CASE ~h[a].alloc
  BY <1>1 DEF Removed
<1>2. CASE h[a].alloc
  <2>1. h[a].refcount = 1 + Cardinality(O) /\ \A x \in O : h[a].pid = PidOf(x)
    BY <1>2 DEF CountAt
  <2>2. Cardinality(O) \in Nat
    BY FS_CardinalityType
  <2>3. /\ d \in ActiveClient /\ d.alloc /\ d.pid = h[a].pid /\ d.dead = TRUE
        /\ d.refcount = h[a].refcount
    <3>1. h[a] \in ActiveClient
      OBVIOUS
    <3>2. d.alloc /\ d.pid = h[a].pid
      BY <1>2, <3>1, FieldUpdates
    <3>3. d.dead = TRUE /\ d.refcount = h[a].refcount
      BY <3>1, DeadFields
    <3>4. d \in ActiveClient
      BY <3>1, ClientFieldTypes
    <3> QED BY <3>2, <3>3, <3>4
  <2> HIDE DEF d
  <2>4. Removed(h, a) = Released(g, a) /\ g[a] = d
    BY <1>2 DEF Removed, d
  <2>5. \A b \in Addr \ {a} : g[b] = h[b]
    OBVIOUS
  <2>6. Released(g, a) = IF d.refcount = 1 THEN [g EXCEPT ![a] = Freed]
                         ELSE [g EXCEPT ![a] = c]
    BY <2>3, <2>4 DEF Released
  <2>7. /\ c.alloc /\ c.pid = h[a].pid /\ c.dead = TRUE
        /\ c.refcount = h[a].refcount - 1
    <3>1. -1 \in Int /\ d.refcount \in Int
      BY <2>1, <2>2, <2>3
    <3>2. c.refcount = d.refcount + (-1)
      BY <2>3, <3>1, RefsCount
    <3>3. d.refcount + (-1) = d.refcount - 1
      BY <3>1
    <3> QED BY <2>3, <3>1, <3>2, <3>3, RefsFields
  <2>8. DOMAIN g = Addr
    OBVIOUS
  <2> HIDE DEF c, g
  <2>9. CASE d.refcount = 1
    <3>1. O = {}
      BY <2>1, <2>2, <2>3, <2>9, FS_EmptySet
    <3>2. /\ ~Released(g, a)[a].alloc
          /\ \A b \in Addr \ {a} : Released(g, a)[b] = g[b]
      BY <2>6, <2>8, <2>9 DEF Freed
    <3> QED BY <2>4, <2>5, <3>1, <3>2 DEF CountAt
  <2>10. CASE d.refcount # 1
    <3>1. /\ Released(g, a)[a] = c
          /\ \A b \in Addr \ {a} : Released(g, a)[b] = g[b]
      BY <2>6, <2>8, <2>10
    <3>2. c.refcount = (IF c.dead THEN 0 ELSE 1) + Cardinality(O)
      BY <2>1, <2>2, <2>7
    <3> QED BY <2>1, <2>4, <2>5, <2>7, <3>1, <3>2 DEF CountAt
  <2> QED BY <2>9, <2>10
<1> QED BY <1>1, <1>2

\* creg_acquire_client for one more request.
LEMMA AcquireCount ==
    ASSUME NEW h \in [Addr -> ActiveClient], NEW a \in Addr, NEW O, NEW r,
           r \notin O, IsFiniteSet(O), CountAt(h, a, O), h[a].alloc,
           h[a].pid = PidOf(r)
    PROVE  /\ CountAt(Acquired(h, a), a, O \cup {r})
           /\ \A b \in Addr \ {a} : Acquired(h, a)[b] = h[b]
<1> DEFINE c == Refs(h[a], 1)
<1>1. /\ h[a].refcount = (IF h[a].dead THEN 0 ELSE 1) + Cardinality(O)
      /\ \A x \in O : h[a].pid = PidOf(x)
  BY DEF CountAt
<1>2. /\ Cardinality(O) \in Nat /\ Cardinality(O \cup {r}) = Cardinality(O) + 1
  BY FS_AddElement, FS_CardinalityType
<1>3. /\ c.alloc = h[a].alloc /\ c.pid = h[a].pid /\ c.dead = h[a].dead
      /\ c.refcount = h[a].refcount + 1
  <2>1. h[a] \in ActiveClient /\ 1 \in Int
    OBVIOUS
  <2> QED BY <2>1, RefsCount, RefsFields
<1>4. Acquired(h, a) = [h EXCEPT ![a] = c]
  BY DEF Acquired
<1> HIDE DEF c
<1>5. Acquired(h, a)[a] = c /\ \A b \in Addr \ {a} : Acquired(h, a)[b] = h[b]
  BY <1>4
<1>6. c.refcount = (IF c.dead THEN 0 ELSE 1) + Cardinality(O \cup {r})
  BY <1>1, <1>2, <1>3
<1> QED BY <1>1, <1>3, <1>5, <1>6 DEF CountAt
-----------------------------------------------------------------------------
\* No line comes to hold a reference or lets go of one.
SameHolders ==
    \A r \in Req : IsLine(r) =>
        /\ stage'[r] \in Holding <=> stage[r] \in Holding
        /\ stage[r] \in Holding => owner'[r] = owner[r]

\* Who holds a reference to a changes only among the requests of R.
LEMMA HoldersOutstanding ==
    ASSUME Numbered, Numbered', NEW a \in Addr,
           NEW R \in SUBSET Req,
           \A r \in Req \ R : IsLine(r) =>
              /\ (stage'[r] \in Holding) <=> (stage[r] \in Holding)
              /\ stage[r] \in Holding => owner'[r] = owner[r]
    PROVE  Outstanding(a)' \ R = Outstanding(a) \ R
<1> SUFFICES ASSUME NEW r \in Req \ R
             PROVE  owner'[r] = a /\ stage'[r] \in Holding
                      <=> owner[r] = a /\ stage[r] \in Holding
  BY DEF Outstanding
<1>1. CASE IsLine(r)
  BY <1>1
<1>2. CASE ~IsLine(r)
  <2>1. PICK p \in Pid : r = <<p, 0>>
    BY <1>2 DEF IsLine
  <2>2. owner[r] = None /\ owner'[r] = None
    BY <2>1 DEF Numbered
  <2> QED BY <2>2, ConstantsAssumption
<1> QED BY <1>1, <1>2

\* If no line takes or drops a reference, nobody does.
LEMMA SameOutstanding ==
    ASSUME Numbered, Numbered', SameHolders, NEW a \in Addr
    PROVE  Outstanding(a)' = Outstanding(a)
<1>1. Outstanding(a)' \ {} = Outstanding(a) \ {}
  BY HoldersOutstanding DEF SameHolders
<1> QED BY <1>1

\* The move of one request that leaves holders alone.
LEMMA OneHolder ==
    ASSUME TypeOK, NEW x \in Req, NEW s, stage' = [stage EXCEPT ![x] = s],
           UNCHANGED owner,
           IsLine(x) => (s \in Holding <=> stage[x] \in Holding)
    PROVE  SameHolders
<1>1. ASSUME NEW r \in Req
      PROVE  stage'[r] = IF r = x THEN s ELSE stage[r]
  BY DEF TypeOK
<1> QED BY <1>1 DEF SameHolders

\* Nothing that a count or a reference depends on.
CalmStep == SameHolders /\ UNCHANGED heap

\* Steps that touch neither holders nor records keep the counts.
LEMMA CalmCount ==
    ASSUME Numbered, Numbered', CalmStep, pc' # "done" => pc # "done",
           References, CountsExact
    PROVE  References' /\ CountsExact'
<1>1. \A a \in Addr : Outstanding(a)' = Outstanding(a)
  BY SameOutstanding DEF CalmStep
<1>2. heap' = heap
  BY DEF CalmStep
<1>3. References'
  BY <1>1, <1>2 DEF References
<1>4. CountsExact'
  BY <1>1, <1>2 DEF CountsExact
<1> QED BY <1>3, <1>4

\* No worker touches a count: the main thread does it for them.
LEMMA WorkersCalm ==
    ASSUME TypeOK, Numbered, Pipeline, NEW w \in Worker, WorkerStep(w)
    PROVE  CalmStep
<1> DEFINE x == work[w]
<1>1. CASE WorkerExit(w)
  BY <1>1 DEF WorkerExit, CalmStep, SameHolders, connVars, reqVars, reqInfo
<1>2. CASE Dequeue(w)
  <2> DEFINE y == Head(queue)
  <2>1. /\ queue # <<>> /\ stage' = [stage EXCEPT ![y] = "running"]
        /\ UNCHANGED <<owner, heap>>
    BY <1>2 DEF Dequeue, reqInfo, connVars
  <2>2. y \in Req /\ stage[y] = "queued"
    BY <2>1, AllAtTail DEF TypeOK, Pipeline
  <2> HIDE DEF y
  <2> QED BY <2>1, <2>2, OneHolder DEF Holding, CalmStep
<1>3. ASSUME x # None PROVE x \in Req /\ stage[x] = "running"
  BY <1>3 DEF TypeOK, Pipeline, WorkAt
<1>4. CASE FinishSilently(w)
  <2>1. /\ x # None /\ UNCHANGED <<owner, heap>>
        /\ kind[x] \in {"HANDSHAKE", "BARRIER"}
        /\ stage' = [stage EXCEPT ![x] =
                        IF kind[x] = "HANDSHAKE" THEN "done" ELSE "lost"]
    BY <1>4 DEF FinishSilently, reqInfo, connVars
  <2>2. x \in Req /\ stage[x] = "running"
    BY <1>3, <2>1
  <2> HIDE DEF x
  <2>3. CASE kind[x] = "HANDSHAKE"
    <3>1. ~IsLine(x)
      BY <2>2, <2>3, HandshakeKind DEF IsLine
    <3> QED BY <2>1, <2>2, <3>1, OneHolder DEF CalmStep
  <2>4. CASE kind[x] # "HANDSHAKE"
    <3>1. stage' = [stage EXCEPT ![x] = "lost"]
      BY <2>1, <2>4
    <3> QED BY <2>1, <2>2, <3>1, OneHolder DEF Holding, CalmStep
  <2> QED BY <2>3, <2>4
<1>5. CASE FinishHandshake(w) \/ \E type \in Results : Finish(w, type)
  <2>1. /\ x # None /\ UNCHANGED <<owner, heap>>
        /\ \E t : Report(x, t)
    BY <1>5 DEF FinishHandshake, Finish, connVars
  <2>2. PICK s \in {"piped", "lost"} : stage' = [stage EXCEPT ![x] = s]
    BY <2>1, ReportStage
  <2>3. x \in Req /\ stage[x] = "running"
    BY <1>3, <2>1
  <2> HIDE DEF x
  <2> QED BY <2>1, <2>2, <2>3, OneHolder DEF Holding, CalmStep
<1> QED BY <1>1, <1>2, <1>4, <1>5 DEF WorkerStep

\* Nor does a client.
LEMMA ClientsCalm ==
    ASSUME TypeOK, Numbered, NEW p \in Pid, ClientStep(p)
    PROVE  CalmStep
<1>1. CASE Sigusr1(p) \/ ClientOpen(p) \/ ClientAuthorised(p)
           \/ ClientRead(p) \/ ClientExit(p)
  BY <1>1 DEF Sigusr1, ClientOpen, ClientAuthorised,
     ClientRead, ClientExit, CalmStep,
     SameHolders, serverVars, connVars, reqVars, reqInfo
<1>2. ASSUME NEW k \in Commands, ClientSend(p, k) PROVE CalmStep
  <2> DEFINE m == sent[p] + 1
  <2>1. /\ sent[p] \in 0..MaxSend /\ sent[p] < MaxSend /\ MaxSend \in Nat
    BY <1>2, ConstantsAssumption DEF TypeOK, ClientSend
  <2>2. /\ stage' = [stage EXCEPT ![<<p, m>>] = "sent"]
        /\ UNCHANGED <<owner, heap>>
    BY <1>2 DEF ClientSend, serverVars, connVars
  <2>3. m \in 1..MaxSend /\ m \in 0..MaxSend /\ m > sent[p]
    BY <2>1
  <2> HIDE DEF m
  <2>4. <<p, m>> \in Req /\ stage[<<p, m>>] = "none"
    BY <2>3 DEF Req, Numbered
  <2> QED BY <2>2, <2>4, OneHolder DEF Holding, CalmStep
<1> QED BY <1>1, <1>2 DEF ClientStep

\* Nor do these steps of the main thread.
LEMMA MainCalm ==
    ASSUME TypeOK, SignalsOnce, Numbered, Pipeline,
           \/ Check \/ PollSleep \/ PollReturn \/ HskRead \/ HskEnd
           \/ RpcEnd \/ SweepNext \/ SweepIgnore \/ SweepEnd
           \/ \E r \in Req : HskDrop(r)
    PROVE  CalmStep
<1>1. CASE Check \/ PollSleep \/ PollReturn \/ HskEnd \/ RpcEnd \/ SweepNext
              \/ SweepEnd
  BY <1>1 DEF Check, PollSleep, PollReturn, HskEnd, RpcEnd, SweepNext,
     SweepEnd,
     CalmStep, SameHolders, connVars, reqVars, reqInfo
<1>2. CASE HskRead
  <2>1. hsk \in Seq(Pid) /\ hsk # <<>>
    BY <1>2 DEF TypeOK, HskRead, MoreHsk
  <2>2. PICK p \in Pid : p = Head(hsk)
    BY <2>1
  <2>3. \E s : stage' = [stage EXCEPT ![<<p, 0>>] = s]
    BY <1>2, <2>2 DEF HskRead
  <2>4. UNCHANGED <<owner, heap>>
    BY <1>2 DEF HskRead, reqInfo, connVars
  <2>5. <<p, 0>> \in Req /\ ~IsLine(<<p, 0>>)
    BY HandshakeInReq DEF IsLine
  <2> QED BY <2>3, <2>4, <2>5, OneHolder DEF CalmStep
<1>3. CASE SweepIgnore
  <2> DEFINE p == slots[at].fd
             x == Head(c2s[p])
  <2>1. p \in Pid /\ c2s[p] # <<>>
    BY <1>3, SlotAtType DEF SweepIgnore, AtLine
  <2>2. /\ stage' = [stage EXCEPT ![x] = "done"]
        /\ UNCHANGED <<owner, heap>>
    BY <1>3 DEF SweepIgnore, reqInfo, connVars
  <2>3. x \in Req /\ stage[x] = "sent"
    BY <2>1, LineTaken
  <2> HIDE DEF x
  <2> QED BY <2>2, <2>3, OneHolder DEF Holding, CalmStep
<1>4. ASSUME NEW r \in Req, HskDrop(r) PROVE CalmStep
  <2>1. /\ rpc # <<>> /\ r = Head(rpc) /\ kind[r] = "HANDSHAKE"
        /\ stage' = [stage EXCEPT ![r] = "done"] /\ UNCHANGED <<owner, heap>>
    BY <1>4 DEF HskDrop, TakeResult, MoreRpc, reqInfo
  <2>2. stage[r] = "piped"
    BY <2>1, AllAtTail DEF TypeOK, Pipeline
  <2>3. ~IsLine(r)
    BY <2>1, <2>2, HandshakeKind DEF IsLine
  <2> QED BY <2>1, <2>3, OneHolder DEF CalmStep
<1> QED BY <1>1, <1>2, <1>3, <1>4
-----------------------------------------------------------------------------
\* One address is touched; what is outstanding there and its record agree.
LEMMA CountOneAddress ==
    ASSUME TypeOK, References, CountsExact, pc # "done", NEW a \in Addr,
           CountAt(heap', a, Outstanding(a)'),
           \A b \in Addr \ {a} : heap'[b] = heap[b]
                                  /\ Outstanding(b)' = Outstanding(b)
    PROVE  References' /\ CountsExact'
<1>1. \A b \in Addr : CountAt(heap, b, Outstanding(b))
  BY CountParts
<1>2. \A b \in Addr \ {a} : CountAt(heap', b, Outstanding(b)')
  BY <1>1 DEF CountAt
<1> QED BY <1>2, CountPartsNext

\* HSK_OK: a record nobody names is taken.
LEMMA HskOkCount ==
    ASSUME TypeOK, Numbered, Numbered', Pipeline, References, CountsExact,
           NEW r \in Req, NEW a \in Addr, HskOk(r, a)
    PROVE  References' /\ CountsExact'
<1>1. /\ rpc # <<>> /\ r = Head(rpc) /\ kind[r] = "HANDSHAKE"
      /\ stage' = [stage EXCEPT ![r] = "done"] /\ UNCHANGED owner
      /\ pc # "done" /\ ~heap[a].alloc
      /\ heap' = [heap EXCEPT ![a] = [alloc |-> TRUE, pid |-> PidOf(r),
                                    refcount |-> 1, dead |-> FALSE,
                                    logged_in |-> FALSE]]
  BY DEF HskOk, TakeResult, MoreRpc, reqInfo
<1>2. stage[r] = "piped"
  BY <1>1, AllAtTail DEF TypeOK, Pipeline
<1>3. ~IsLine(r)
  BY <1>1, <1>2, HandshakeKind DEF IsLine
<1>4. SameHolders
  BY <1>1, <1>3, OneHolder
<1>5. \A b \in Addr : Outstanding(b)' = Outstanding(b)
  BY <1>4, SameOutstanding
<1>6. Outstanding(a)' = {}
  BY <1>1, <1>5 DEF References
<1>7. heap'[a].alloc /\ heap'[a].refcount = 1 /\ ~heap'[a].dead
  BY <1>1 DEF TypeOK
<1>8. CountAt(heap', a, Outstanding(a)')
  BY <1>6, <1>7, FS_EmptySet DEF CountAt
<1>9. \A b \in Addr \ {a} : heap'[b] = heap[b]
  BY <1>1 DEF TypeOK
<1> QED BY <1>1, <1>5, <1>8, <1>9, CountOneAddress

\* A result has been taken: its line no longer holds a reference.
LEMMA ResultOutstanding ==
    ASSUME TypeOK, Numbered, Numbered', Pipeline, References,
           NEW r \in Req, TakeResult(r), result[r] \in Results,
           NEW a, a = owner[r]
    PROVE  /\ Outstanding(a)' = Outstanding(a) \ {r}
           /\ \A b \in Addr \ {a} : Outstanding(b)' = Outstanding(b)
<1>1. /\ a \in Addr /\ stage[r] = "piped" /\ IsLine(r)
      /\ stage' = [stage EXCEPT ![r] = "done"] /\ UNCHANGED owner
  BY NamedByResult DEF TakeResult, reqInfo
<1>2. stage'[r] = "done" /\ \A x \in Req \ {r} : stage'[x] = stage[x]
  BY <1>1 DEF TypeOK
<1>3. \A b \in Addr : Outstanding(b)' \ {r} = Outstanding(b) \ {r}
  BY <1>1, <1>2, HoldersOutstanding, ZenonT(60)
<1>4. \A b \in Addr : r \notin Outstanding(b)'
  BY <1>2 DEF Outstanding, Holding
<1>5. \A b \in Addr \ {a} : r \notin Outstanding(b)
  BY DEF Outstanding
<1> QED BY <1>1, <1>3, <1>4, <1>5

\* logged_in is not counted.
LEMMA LoggedInCount ==
    ASSUME NEW h \in [Addr -> ActiveClient], NEW a \in Addr, NEW O,
           CountAt(h, a, O)
    PROVE  /\ CountAt(LoggedIn(h, a), a, O)
           /\ \A b \in Addr \ {a} : LoggedIn(h, a)[b] = h[b]
<1> DEFINE d == [h[a] EXCEPT !.logged_in = TRUE]
<1>1. CASE ~h[a].alloc
  BY <1>1 DEF LoggedIn
<1>2. CASE h[a].alloc
  <2>1. LoggedIn(h, a) = [h EXCEPT ![a] = d]
    BY <1>2 DEF LoggedIn
  <2>2. h[a] \in ActiveClient
    OBVIOUS
  <2>3. d.alloc = h[a].alloc /\ d.pid = h[a].pid /\ d.dead = h[a].dead
    BY <2>2, FieldUpdates
  <2>4. d.refcount = h[a].refcount
    BY <2>2, LoggedInFields
  <2> HIDE DEF d
  <2>5. LoggedIn(h, a)[a] = d /\ \A b \in Addr \ {a} : LoggedIn(h, a)[b] = h[b]
    BY <2>1
  <2> QED BY <2>3, <2>4, <2>5 DEF CountAt
<1> QED BY <1>1, <1>2

\* AUTH_OK and RPC_DONE.
LEMMA AnswerCount ==
    ASSUME TypeOK, Numbered, Numbered', Pipeline, References, CountsExact,
           NEW r \in Req, AuthOk(r) \/ RpcDone(r)
    PROVE  References' /\ CountsExact'
<1>0. PICK a : a = owner[r]
  OBVIOUS
<1> DEFINE h == Released(heap, a)
<1>1. /\ TakeResult(r) /\ result[r] \in Results /\ pc # "done"
      /\ heap' = h \/ heap' = LoggedIn(h, a)
  BY <1>0 DEF AuthOk, RpcDone, FreeClients, Results, TakeResult
<1>2. a \in Addr /\ r \in Outstanding(a)
  BY <1>0, <1>1, NamedByResult
<1>3. /\ Outstanding(a)' = Outstanding(a) \ {r}
      /\ \A b \in Addr \ {a} : Outstanding(b)' = Outstanding(b)
  BY <1>0, <1>1, ResultOutstanding
<1>4. CountAt(heap, a, Outstanding(a)) /\ IsFiniteSet(Outstanding(a))
      /\ heap \in [Addr -> ActiveClient]
  BY <1>1, <1>2, CountParts, OutstandingFinite DEF TypeOK
<1>5. /\ CountAt(h, a, Outstanding(a) \ {r}) /\ \A b \in Addr \ {a} : h[b] = heap[b]
      /\ h \in [Addr -> ActiveClient]
  BY <1>2, <1>4, ReleaseCount
<1> HIDE DEF h
<1>6. /\ CountAt(heap', a, Outstanding(a) \ {r})
      /\ \A b \in Addr \ {a} : heap'[b] = heap[b]
  <2>1. /\ CountAt(LoggedIn(h, a), a, Outstanding(a) \ {r})
        /\ \A b \in Addr \ {a} : LoggedIn(h, a)[b] = h[b]
    BY <1>2, <1>5, LoggedInCount
  <2> QED BY <1>1, <1>5, <2>1
<1> QED BY <1>1, <1>2, <1>3, <1>6, CountOneAddress

\* While the answer to its Login is on the way, a client of the repository
\* has nothing else outstanding.
LEMMA LoneLogin ==
    ASSUME TypeOK, Numbered, Pipeline, References, LoginFirst,
           NEW r \in Req, TakeResult(r), result[r] \in Results,
           kind[r] = "AUTHORISE"
    PROVE  Outstanding(owner[r]) = {r}
<1> DEFINE a == owner[r]
           p == PidOf(r)
<1>1. /\ a \in Addr /\ stage[r] = "piped" /\ IsLine(r)
      /\ r \in Outstanding(a) /\ heap[a].pid = p /\ pc # "done"
  BY NamedByResult DEF TakeResult
<1>2. p \in Pid /\ \E n \in 1..MaxSend : r = <<p, n>>
  <2>1. PICK q \in Pid, n \in 1..MaxSend : r = <<q, n>>
    BY <1>1, ReqCases DEF IsLine
  <2> QED BY <2>1 DEF PidOf
<1>3. PICK n \in 1..MaxSend : r = <<p, n>>
  BY <1>2
<1>4. LoginOnce(p) /\ LoginAnswered(p)
  BY <1>2 DEF LoginFirst
<1>5. sent[p] \in 0..MaxSend /\ MaxSend \in Nat
  BY <1>2, ConstantsAssumption DEF TypeOK
<1>6. n = 1
  <2>1. n \in 2..MaxSend => stage[<<p, n>>] \notin Holding
    BY <1>3, <1>4 DEF LoginOnce
  <2>2. n \notin 2..MaxSend
    BY <1>1, <1>3, <2>1 DEF Holding
  <2> QED BY <1>5, <2>2
<1>7. ~(sent[p] > 1)
  BY <1>1, <1>3, <1>4, <1>6 DEF LoginAnswered
<1>8. ASSUME NEW x \in Outstanding(a) PROVE x = r
  <2>1. x \in Req /\ stage[x] \in Holding /\ owner[x] = a /\ PidOf(x) = p
    BY <1>1 DEF Outstanding, References
  <2>2. IsLine(x)
    <3>1. \A q \in Pid : owner[<<q, 0>>] = None
      BY DEF Numbered
    <3> QED BY <1>1, <2>1, <3>1, ConstantsAssumption DEF IsLine
  <2>3. PICK m \in 1..MaxSend : x = <<p, m>>
    <3>1. PICK q \in Pid, m \in 1..MaxSend : x = <<q, m>>
      BY <2>1, <2>2, ReqCases DEF IsLine
    <3>2. PidOf(x) = q
      BY <3>1 DEF PidOf
    <3> QED BY <2>1, <3>1, <3>2
  <2>4. ~(m > sent[p])
    BY <1>2, <2>1, <2>3 DEF Numbered, Holding
  <2>5. m = 1
    BY <1>5, <1>7, <2>4
  <2> QED BY <1>3, <1>6, <2>3, <2>5
<1> QED BY <1>1, <1>8

\* AUTH_NO and AUTH_UN: the client is freed, whether the sweep has removed it
\* before or not.
LEMMA RejectCount ==
    ASSUME TypeOK, Numbered, Numbered', Pipeline, References, CountsExact,
           ResultKinds, LoginFirst, NEW r \in Req, AuthReject(r)
    PROVE  References' /\ CountsExact'
<1>0. PICK a : a = owner[r]
  OBVIOUS
<1> DEFINE h == Released(heap, a)
<1>1. /\ TakeResult(r) /\ result[r] \in Results /\ pc # "done"
      /\ kind[r] = "AUTHORISE" /\ heap' = Removed(h, a)
  BY <1>0 DEF AuthReject, FreeClients, Results, TakeResult, ResultKinds
<1>2. a \in Addr /\ heap[a].alloc
  BY <1>0, <1>1, NamedByResult
<1>3. Outstanding(a) = {r}
  BY <1>0, <1>1, LoneLogin
<1>4. /\ Outstanding(a)' = {r} \ {r}
      /\ \A b \in Addr \ {a} : Outstanding(b)' = Outstanding(b)
  BY <1>0, <1>1, <1>3, ResultOutstanding
<1>5. /\ CountAt(heap, a, {r}) /\ heap \in [Addr -> ActiveClient]
      /\ IsFiniteSet({r}) /\ IsFiniteSet({r} \ {r})
  <2>1. CountAt(heap, a, {r})
    BY <1>1, <1>2, <1>3, CountParts
  <2>2. IsFiniteSet({r})
    BY FS_Singleton
  <2> QED BY <2>1, <2>2, FS_RemoveElement DEF TypeOK
<1>6. /\ CountAt(h, a, {r} \ {r}) /\ \A b \in Addr \ {a} : h[b] = heap[b]
      /\ h \in [Addr -> ActiveClient]
      /\ h[a].alloc => h[a].dead = heap[a].dead
  BY <1>2, <1>5, ReleaseCount
<1>7. h[a].alloc => ~h[a].dead
  <2>1. CASE heap[a].dead
    <3>1. heap[a].refcount = 1
      BY <1>2, <1>5, <2>1, FS_Singleton DEF CountAt
    <3>2. h = [heap EXCEPT ![a] = Freed] /\ ~Freed.alloc
      BY <1>2, <2>1, <3>1 DEF Released, Freed
    <3> QED BY <1>2, <1>5, <3>2
  <2>2. CASE ~heap[a].dead
    BY <1>6, <2>2
  <2> QED BY <2>1, <2>2
<1> HIDE DEF h
<1>8. /\ CountAt(heap', a, {r} \ {r})
      /\ \A b \in Addr \ {a} : heap'[b] = h[b]
  BY <1>1, <1>2, <1>5, <1>6, <1>7, RemoveCount
<1>9. \A b \in Addr \ {a} : heap'[b] = heap[b]
  BY <1>6, <1>8
<1> QED BY <1>1, <1>2, <1>4, <1>8, <1>9, CountOneAddress

\* A client in a slot is registered, so it is not dead.
LEMMA SlotAlive ==
    ASSUME TypeOK, ConnInv, AtSlot
    PROVE  LET a == slots[at].client
           IN a \in Addr /\ heap[a].alloc /\ ~heap[a].dead
<1>1. at \in DOMAIN slots /\ slots[at].client \in Addr
  BY SlotAtType DEF TypeOK, AtSlot
<1> QED BY <1>1 DEF ConnInv, SlotsMatchRegistry

\* A removal moves no holder.
LEMMA SweepHolders ==
    ASSUME TypeOK, Numbered, Pipeline, SweepHangup \/ SweepQuit
    PROVE  SameHolders
<1>1. CASE SweepHangup
  BY <1>1 DEF SweepHangup, SameHolders, reqVars, reqInfo
<1>2. CASE SweepQuit
  <2> DEFINE p == slots[at].fd
             x == Head(c2s[p])
  <2>1. p \in Pid /\ c2s[p] # <<>>
    BY <1>2, SlotAtType DEF SweepQuit, AtLine
  <2>2. stage' = [stage EXCEPT ![x] = "done"] /\ UNCHANGED owner
    BY <1>2 DEF SweepQuit, reqInfo
  <2>3. x \in Req /\ stage[x] = "sent"
    BY <2>1, LineTaken
  <2> HIDE DEF x
  <2> QED BY <2>2, <2>3, OneHolder DEF Holding
<1> QED BY <1>1, <1>2

\* to_remove: the registry's reference goes with the registration.
LEMMA HangupCount ==
    ASSUME TypeOK, SignalsOnce, Numbered, Numbered', Pipeline, ConnInv, References,
           CountsExact, SweepHangup \/ SweepQuit
    PROVE  References' /\ CountsExact'
<1>0. PICK a : a = slots[at].client
  OBVIOUS
<1>1. AtSlot /\ pc # "done" /\ heap' = Removed(heap, a)
  BY <1>0 DEF SweepHangup, SweepQuit, AtLine, AtSlot, RemoveSwept, FreeClients
<1>2. a \in Addr /\ heap[a].alloc /\ ~heap[a].dead
  BY <1>0, <1>1, SlotAlive
<1>3. SameHolders
  BY SweepHolders
<1>4. \A b \in Addr : Outstanding(b)' = Outstanding(b)
  BY <1>3, SameOutstanding
<1>5. /\ CountAt(heap, a, Outstanding(a)) /\ IsFiniteSet(Outstanding(a))
      /\ heap \in [Addr -> ActiveClient]
  BY <1>1, <1>2, CountParts, OutstandingFinite DEF TypeOK
<1>6. /\ CountAt(heap', a, Outstanding(a))
      /\ \A b \in Addr \ {a} : heap'[b] = heap[b]
  BY <1>1, <1>2, <1>5, RemoveCount
<1> QED BY <1>1, <1>2, <1>4, <1>6, CountOneAddress

\* A line that becomes a task holds the client of its slot, and no other.
LEMMA TaskHolders ==
    ASSUME TypeOK, Numbered, Numbered', Pipeline, ConnInv, SweepTask,
           NEW a, NEW r, a = slots[at].client, r = Head(c2s[slots[at].fd])
    PROVE  /\ r \notin Outstanding(a)
           /\ Outstanding(a)' = Outstanding(a) \cup {r}
           /\ \A b \in Addr \ {a} : Outstanding(b)' = Outstanding(b)
<1>1. owner' = [owner EXCEPT ![r] = a]
  BY DEF SweepTask
<1>2. PICK s \in {"queued", "lost"} : stage' = [stage EXCEPT ![r] = s]
  BY DEF SweepTask
<1>3. a \in Addr /\ r \in Req /\ stage[r] = "sent" /\ IsLine(r)
  BY SlotOfSweep
<1>4. /\ stage'[r] \in Holding /\ owner'[r] = a
      /\ \A x \in Req \ {r} : stage'[x] = stage[x] /\ owner'[x] = owner[x]
  BY <1>1, <1>2, <1>3 DEF TypeOK, Holding
<1>5. \A b \in Addr : Outstanding(b)' \ {r} = Outstanding(b) \ {r}
  <2>1. {r} \in SUBSET Req
    BY <1>3
  <2>2. \A x \in Req \ {r} : IsLine(x) =>
           /\ (stage'[x] \in Holding) <=> (stage[x] \in Holding)
           /\ stage[x] \in Holding => owner'[x] = owner[x]
    BY <1>4
  <2> QED BY <2>1, <2>2, HoldersOutstanding
<1>6. \A b \in Addr : r \notin Outstanding(b)
  BY <1>3 DEF Outstanding, Holding
<1>7. r \in Outstanding(a)' /\ \A b \in Addr \ {a} : r \notin Outstanding(b)'
  BY <1>3, <1>4 DEF Outstanding
<1> QED BY <1>3, <1>5, <1>6, <1>7

\* handle_command acquires before it queues, so the count is there whether
\* the task gets into the queue or not.
LEMMA TaskCount ==
    ASSUME TypeOK, Numbered, Numbered', Pipeline, ConnInv, References,
           CountsExact, SweepTask
    PROVE  References' /\ CountsExact'
<1>0. PICK a, r : a = slots[at].client /\ r = Head(c2s[slots[at].fd])
  OBVIOUS
<1>1. pc # "done" /\ heap' = Acquired(heap, a)
  BY <1>0 DEF SweepTask, AtLine, AtSlot
<1>2. /\ a \in Addr /\ heap[a].alloc /\ heap[a].pid = PidOf(r)
  BY <1>0, SlotOfSweep
<1>3. /\ Outstanding(a)' = Outstanding(a) \cup {r} /\ r \notin Outstanding(a)
      /\ \A b \in Addr \ {a} : Outstanding(b)' = Outstanding(b)
  BY <1>0, TaskHolders
<1>4. /\ CountAt(heap, a, Outstanding(a)) /\ IsFiniteSet(Outstanding(a))
      /\ heap \in [Addr -> ActiveClient]
  BY <1>1, <1>2, CountParts, OutstandingFinite DEF TypeOK
<1>5. /\ CountAt(heap', a, Outstanding(a) \cup {r})
      /\ \A b \in Addr \ {a} : heap'[b] = heap[b]
  BY <1>1, <1>2, <1>3, <1>4, AcquireCount
<1> QED BY <1>1, <1>2, <1>3, <1>5, CountOneAddress

\* Nor does teardown move a holder: what it drops stays lost.
LEMMA TeardownHolders ==
    ASSUME TypeOK, Numbered, Teardown
    PROVE  SameHolders
<1>1. UNCHANGED owner
  BY DEF Teardown, reqInfo
<1>2. ASSUME NEW r \in Req, IsLine(r)
      PROVE  stage'[r] \in Holding <=> stage[r] \in Holding
  <2>1. stage'[r] = IF stage[r] = "queued" /\ kind[r] = "HANDSHAKE" THEN "done"
                    ELSE IF stage[r] \in {"queued", "piped"} THEN "lost"
                    ELSE stage[r]
    BY DEF Teardown
  <2>2. stage[r] = "queued" => kind[r] # "HANDSHAKE"
    BY <1>2, HandshakeKind DEF IsLine
  <2> QED BY <2>1, <2>2 DEF Holding
<1> QED BY <1>1, <1>2 DEF SameHolders

\* creg_destroy frees the registered clients whatever their counts; the counts
\* of the others still say what was lost.
LEMMA TeardownCount ==
    ASSUME TypeOK, Numbered, Numbered', References, CountsExact, Teardown
    PROVE  References' /\ CountsExact'
<1>1. /\ pc' = "done"
      /\ heap' = [a \in Addr |-> IF a \in registry THEN Freed ELSE heap[a]]
  BY DEF Teardown, FreeClients
<1>3. SameHolders
  BY TeardownHolders
<1>4. ASSUME NEW a \in Addr, heap'[a].alloc
      PROVE  heap'[a] = heap[a] /\ Outstanding(a)' = Outstanding(a)
  BY <1>1, <1>3, <1>4, SameOutstanding DEF Freed
<1>5. CountsExact'
  BY <1>4 DEF CountsExact
<1>6. References'
  BY <1>1 DEF References
<1> QED BY <1>5, <1>6

\* Every step keeps the counts exact: one case for each that takes or drops a
\* reference.
LEMMA CountStep ==
    ASSUME TypeOK, SignalsOnce, Numbered, Numbered', Pipeline, ConnInv, ResultKinds,
           LoginFirst, References, CountsExact, [Next]_vars
    PROVE  References' /\ CountsExact'
<1>1. ASSUME CalmStep PROVE References' /\ CountsExact'
  BY <1>1, CalmCount, PcStep
<1>2. CASE MainStep
  <2>1. CASE Check \/ PollSleep \/ PollReturn \/ HskRead \/ HskEnd \/ RpcEnd
                \/ SweepNext \/ SweepIgnore \/ SweepEnd
    BY <1>1, <2>1, MainCalm
  <2>2. ASSUME NEW r \in Req, HskDrop(r) PROVE CalmStep
    BY <2>2, MainCalm
  <2> QED BY <1>1, <1>2, <2>1, <2>2, HskOkCount, AnswerCount, RejectCount,
          HangupCount, TaskCount, TeardownCount DEF MainStep
<1>3. ASSUME NEW w \in Worker, WorkerStep(w) PROVE CalmStep
  BY <1>3, WorkersCalm
<1>4. ASSUME NEW p \in Pid, ClientStep(p) PROVE CalmStep
  BY <1>4, ClientsCalm
<1>5. CASE SigShutdown \/ UNCHANGED vars
  BY <1>1, <1>5 DEF SigShutdown, vars, CalmStep, SameHolders, connVars,
     reqVars,
     reqInfo
<1> QED BY <1>1, <1>2, <1>3, <1>4, <1>5 DEF Next

\* Every step keeps the clients to their protocol, as long as replies go
\* straight.
LEMMA LoginFirstStep ==
    ASSUME OwnClients, TypeOK, SignalsOnce, Numbered, Pipeline, ConnInv, ResultKinds,
           HandshakeFirst, References, LoginFirst, Straight', [Next]_vars
    PROVE  LoginFirst'
<1> SUFFICES ASSUME NEW p \in Pid
             PROVE  /\ LoginSent(p)' /\ LoginAnswered(p)' /\ RepliesDone(p)'
                    /\ LoginRecorded(p)' /\ LoginOnce(p)'
  BY DEF LoginFirst
<1>1. /\ LoginSent(p) /\ LoginAnswered(p) /\ RepliesDone(p)
      /\ LoginRecorded(p) /\ LoginOnce(p) /\ OneRecord
  BY DEF LoginFirst, ConnInv
<1>2. LoginSent(p)'
  BY <1>1, LoginSentStep
<1>3. LoginAnswered(p)'
  BY <1>1, LoginAnsweredStep
<1>4. RepliesDone(p)'
  BY <1>1, RepliesDoneStep
<1>5. LoginRecorded(p)'
  BY <1>1, LoginRecordedStep
<1>6. LoginOnce(p)'
  BY <1>1, LoginOnceStep
<1> QED BY <1>2, <1>3, <1>4, <1>5, <1>6
-----------------------------------------------------------------------------
\* What is inductive when the clients are those of the repository.
\* The invariant holds when main starts.
LEMMA OwnInit == Init => OwnInv
<1> SUFFICES ASSUME Init PROVE OwnInv
  OBVIOUS
<1>1. IInv
  BY InvInit
<1>2. /\ pc = "check" /\ exited = {}
      /\ \A w \in Worker : work[w] = None
      /\ \A p \in Pid : s2c[p] = <<>> /\ sent[p] = 0 /\ cli[p] = "idle"
      /\ \A a \in Addr : ~heap[a].alloc
      /\ \A r \in Req : stage[r] = "none" /\ result[r] = None
  BY DEF Init, Freed
<1>3. TasksHeld
  BY <1>2 DEF TasksHeld
<1>4. Ended
  BY <1>2 DEF Ended
<1>5. ResultKinds
  BY <1>2, ConstantsAssumption DEF ResultKinds, Results
<1>6. /\ \A p \in Pid : \A n \in 1..MaxSend : <<p, n>> \in Req
      /\ 2..MaxSend \subseteq 1..MaxSend
  BY ConstantsAssumption DEF Req
<1>7. HandshakeFirst
  BY <1>2, <1>6 DEF HandshakeFirst
<1>8. \A a \in Addr : Outstanding(a) = {}
  BY <1>2 DEF Outstanding, Holding
<1>9. References /\ CountsExact
  BY <1>2, <1>8 DEF References, CountsExact
<1>10. ASSUME NEW p \in Pid
       PROVE  /\ LoginSent(p) /\ LoginAnswered(p) /\ RepliesDone(p)
              /\ LoginRecorded(p) /\ LoginOnce(p)
  <2>1. ~(sent[p] > 0) /\ ~(sent[p] > 1) /\ cli[p] = "idle" /\ s2c[p] = <<>>
        /\ sent[p] = 0
    BY <1>2
  <2>2. LoginSent(p) /\ LoginAnswered(p) /\ LoginRecorded(p)
    BY <1>2, <2>1 DEF LoginSent, LoginAnswered, LoginRecorded
  <2>3. RepliesDone(p)
    BY <2>1 DEF RepliesDone
  <2>4. LoginOnce(p)
    BY <1>2, <1>6 DEF LoginOnce, Holding
  <2> QED BY <2>2, <2>3, <2>4
<1> QED BY <1>1, <1>3, <1>4, <1>5, <1>7, <1>9, <1>10 DEF OwnInv, LoginFirst

\* Every step keeps it, when the peers are the client of the repository and
\* replies go straight.
LEMMA OwnInvStep == OwnClients /\ OwnInv /\ Straight' /\ [Next]_vars => OwnInv'
<1> SUFFICES ASSUME OwnClients, OwnInv, Straight', [Next]_vars PROVE OwnInv'
  OBVIOUS
<1>1. /\ TypeOK /\ SignalsOnce /\ Numbered /\ Pipeline /\ ConnInv
      /\ TasksHeld /\ Ended /\ ResultKinds /\ HandshakeFirst
      /\ LoginFirst /\ References /\ CountsExact
  BY DEF OwnInv, IInv
<1>2. IInv'
  BY <1>1, TypeStep, NumberedStep, PipelineStep, ConnStep DEF IInv
<1>3. TasksHeld' /\ Ended' /\ ResultKinds' /\ HandshakeFirst'
  BY <1>1, TasksHeldStep, EndedStep, ResultKindsStep, HandshakeFirstStep
<1>4. LoginFirst'
  BY <1>1, LoginFirstStep
<1>5. References' /\ CountsExact'
  BY <1>1, <1>2, CountStep DEF IInv
<1> QED BY <1>2, <1>3, <1>4, <1>5 DEF OwnInv

-----------------------------------------------------------------------------
\* A client that has hung up stays so.
LEMMA ClosedStays ==
    ASSUME TypeOK, OwnClients, [Next]_vars, NEW p \in Pid, cli[p] = "closed"
    PROVE  cli'[p] = "closed"
<1>1. CASE OwnStep(p)
  BY <1>1 DEF OwnStep
<1>2. ASSUME NEW k \in Commands, ClientSend(p, k) PROVE FALSE
  BY <1>2 DEF ClientSend
<1> QED BY <1>1, <1>2, OwnClientStep

\* A client that has been dismissed stays so.
LEMMA DismissedStays ==
    ASSUME TypeOK, SignalsOnce, Numbered, Pipeline, [Next]_vars, NEW p \in Pid,
           Dismissed(p)
    PROVE  Dismissed(p)'
<1>1. PICK n \in 1..MaxSend :
         kind[<<p, n>>] = "DISCONNECT" /\ stage[<<p, n>>] = "done"
  BY DEF Dismissed
<1>2. PICK r \in Req : r = <<p, n>>
  <2>1. n \in 0..MaxSend
    BY ConstantsAssumption
  <2> QED BY <2>1 DEF Req
<1>3. stage'[r] = "done" /\ KindKept(r)
  BY <1>1, <1>2, AnsweredStays, RequestStep DEF OneStep
<1>4. kind'[r] = "DISCONNECT"
  BY <1>1, <1>2, <1>3 DEF KindKept
<1> QED BY <1>2, <1>3, <1>4 DEF Dismissed

\* Removing a slot makes no new one.
LEMMA WithoutSlotElements ==
    ASSUME NEW s \in Seq(Slot), NEW fd
    PROVE  \A j \in DOMAIN WithoutSlot(s, fd) :
              \E i \in DOMAIN s : WithoutSlot(s, fd)[j] = s[i]
<1> DEFINE match == {i \in 1..Len(s) : s[i].fd = fd}
           i0 == CHOOSE m \in match : \A j \in match : m <= j
           t == [j \in 1..Len(s) - 1 |-> IF j = i0 THEN s[Len(s)] ELSE s[j]]
<1>1. WithoutSlot(s, fd) = IF match = {} THEN s ELSE t
  BY DEF WithoutSlot
<1> HIDE DEF match, i0
<1>2. Len(s) \in Nat /\ DOMAIN s = 1..Len(s)
  OBVIOUS
<1>3. ASSUME NEW j \in DOMAIN t PROVE \E i \in DOMAIN s : t[j] = s[i]
  <2>1. j \in 1..Len(s) - 1 /\ j \in DOMAIN s /\ Len(s) \in DOMAIN s
    BY <1>2
  <2>2. t[j] = s[Len(s)] \/ t[j] = s[j]
    BY <2>1
  <2> QED BY <2>1, <2>2
<1> HIDE DEF t
<1> QED BY <1>1, <1>3

\* poll has reported no closed descriptor.
NoneErr(s) == \A i \in DOMAIN s : s[i].rev # "err"

\* poll never reports a closed descriptor: every slot has a live client, and
\* a live client has its descriptors.
LEMMA SlotsFine ==
    ASSUME TypeOK, ConnInv, NoneErr(slots), [Next]_vars
    PROVE  NoneErr(slots')
<1>a. slots \in Seq(Slot) /\ slots' \in Seq(Slot)
  BY TypeStep DEF TypeOK
<1>1. ASSUME UNCHANGED slots PROVE NoneErr(slots')
  BY <1>1
<1>2. ASSUME NEW fd, slots' = WithoutSlot(slots, fd) PROVE NoneErr(slots')
  BY <1>a, <1>2, WithoutSlotElements DEF NoneErr
<1>3. CASE PollReturn
  <2>1. slots' = [i \in DOMAIN slots |->
                    [slots[i] EXCEPT !.rev = Revents(slots[i].fd)]]
    BY <1>3 DEF PollReturn
  <2>2. ASSUME NEW i \in DOMAIN slots PROVE slots'[i].rev # "err"
    <3>1. slots[i] \in Slot /\ slots[i].client \in Addr /\ slots[i].fd \in Pid
      BY <1>a, SlotClient
    <3>2. heap[slots[i].client].alloc /\ heap[slots[i].client].pid = slots[i].fd
      BY DEF ConnInv, SlotsMatchRegistry
    <3>3. sfd[slots[i].fd]
      BY <3>1, <3>2 DEF ConnInv, DescriptorsOwned, Owned
    <3>4. Revents(slots[i].fd) # "err"
      BY <3>3 DEF Revents
    <3>5. ASSUME NEW c \in Slot, NEW v PROVE [c EXCEPT !.rev = v].rev = v
      BY DEF Slot
    <3> QED BY <2>1, <3>1, <3>4, <3>5
  <2> QED BY <2>1, <2>2 DEF NoneErr
<1>4. ASSUME NEW r \in Req, NEW a \in Addr, HskOk(r, a) PROVE NoneErr(slots')
  <2> DEFINE e == [fd |-> PidOf(r), client |-> a, rev |-> "none"]
  <2>1. slots' = Append(slots, e) /\ e.rev = "none"
    BY <1>4 DEF HskOk
  <2> HIDE DEF e
  <2>2. DOMAIN slots' = 1..Len(slots) + 1
    BY <1>a, <2>1
  <2>3. \A i \in DOMAIN slots' : \/ i \in DOMAIN slots /\ slots'[i] = slots[i]
                                 \/ slots'[i] = e
    BY <1>a, <2>1
  <2> QED BY <2>1, <2>3 DEF NoneErr
<1>5. CASE MainStep
  <2>1. CASE Check \/ PollSleep \/ HskRead \/ HskEnd \/ RpcEnd \/ SweepNext
                \/ SweepTask \/ SweepIgnore \/ SweepEnd
    BY <1>1, <2>1 DEF Check, PollSleep, HskRead, HskEnd, RpcEnd, SweepNext,
       SweepTask, SweepIgnore, SweepEnd, connVars
  <2>2. CASE SweepHangup \/ SweepQuit
    <3>1. slots' = WithoutSlot(slots, slots[at].fd)
      BY <2>2 DEF SweepHangup, SweepQuit, RemoveSwept
    <3> QED BY <1>2, <3>1
  <2>3. ASSUME NEW r \in Req,
               HskDrop(r) \/ AuthOk(r) \/ AuthReject(r) \/ RpcDone(r)
        PROVE  NoneErr(slots')
    <3>1. slots' = slots \/ \E fd : slots' = WithoutSlot(slots, fd)
      BY <2>3 DEF HskDrop, AuthOk, AuthReject, RpcDone
    <3> QED BY <1>1, <1>2, <3>1
  <2>4. CASE Teardown
    <3>1. slots' = <<>>
      BY <2>4 DEF Teardown
    <3>2. DOMAIN <<>> = {}
      OBVIOUS
    <3> QED BY <3>1, <3>2 DEF NoneErr
  <2> QED BY <1>3, <1>4, <1>5, <2>1, <2>2, <2>3, <2>4 DEF MainStep
<1>6. ASSUME NEW w \in Worker, WorkerStep(w) PROVE UNCHANGED slots
  BY <1>6 DEF WorkerStep, Dequeue, WorkerExit, FinishHandshake, FinishSilently,
     Finish, connVars
<1>7. ASSUME NEW p \in Pid, ClientStep(p) PROVE UNCHANGED slots
  BY <1>7 DEF ClientStep, Sigusr1, ClientOpen, ClientAuthorised,
     ClientRead, ClientExit, ClientSend, serverVars, connVars
<1>8. CASE SigShutdown \/ UNCHANGED vars
  BY <1>1, <1>8 DEF SigShutdown, vars, connVars
<1> QED BY <1>1, <1>5, <1>6, <1>7, <1>8 DEF Next

\* The last reference to a registered client goes with its registration.
LEMMA RemoveLast ==
    ASSUME NEW h \in [Addr -> ActiveClient], NEW a \in Addr,
           h[a].alloc => h[a].refcount = 1
    PROVE  ~Removed(h, a)[a].alloc
<1> DEFINE d == [h[a] EXCEPT !.dead = TRUE]
           g == [h EXCEPT ![a] = d]
<1>1. CASE ~h[a].alloc
  BY <1>1 DEF Removed
<1>2. CASE h[a].alloc
  <2>1. h[a] \in ActiveClient
    OBVIOUS
  <2>2. d.alloc /\ d.dead = TRUE /\ d.refcount = 1
    BY <1>2, <2>1, FieldUpdates, DeadFields
  <2> HIDE DEF d
  <2>3. Removed(h, a) = Released(g, a) /\ g[a] = d /\ DOMAIN g = Addr
    BY <1>2 DEF Removed, d
  <2> HIDE DEF g
  <2>4. Released(g, a) = [g EXCEPT ![a] = Freed]
    BY <2>2, <2>3 DEF Released
  <2> QED BY <2>3, <2>4 DEF Freed
<1> QED BY <1>1, <1>2

\* A refused client is freed.
LEMMA RejectFrees ==
    ASSUME TypeOK, Numbered, Pipeline, References, CountsExact,
           ResultKinds, LoginFirst, NEW r \in Req, AuthReject(r)
    PROVE  /\ ~heap'[owner[r]].alloc
           /\ \A b \in Addr \ {owner[r]} : heap'[b] = heap[b]
<1>0. PICK a : a = owner[r]
  OBVIOUS
<1> DEFINE h == Released(heap, a)
<1>1. /\ TakeResult(r) /\ result[r] \in Results /\ pc # "done"
      /\ kind[r] = "AUTHORISE" /\ heap' = Removed(h, a)
  BY <1>0 DEF AuthReject, FreeClients, Results, TakeResult, ResultKinds
<1>2. a \in Addr /\ heap[a].alloc
  BY <1>0, <1>1, NamedByResult
<1>3. Outstanding(a) = {r}
  BY <1>0, <1>1, LoneLogin
<1>4. CountAt(heap, a, {r}) /\ IsFiniteSet({r}) /\ heap \in [Addr -> ActiveClient]
  <2>1. CountAt(heap, a, {r})
    BY <1>1, <1>2, <1>3, CountParts
  <2> QED BY <2>1, FS_Singleton DEF TypeOK
<1>5. /\ CountAt(h, a, {r} \ {r}) /\ \A b \in Addr \ {a} : h[b] = heap[b]
      /\ h \in [Addr -> ActiveClient]
      /\ h[a].alloc => h[a].dead = heap[a].dead
  BY <1>2, <1>4, ReleaseCount
<1>6. h[a].alloc => h[a].refcount = 1
  <2>1. CASE heap[a].dead
    <3>1. heap[a].refcount = 1
      BY <1>2, <1>4, <2>1, FS_Singleton DEF CountAt
    <3>2. h = [heap EXCEPT ![a] = Freed] /\ ~Freed.alloc
      BY <1>2, <2>1, <3>1 DEF Released, Freed
    <3> QED BY <1>2, <1>4, <3>2
  <2>2. CASE ~heap[a].dead
    <3>1. {r} \ {r} = {} /\ Cardinality({}) = 0
      BY FS_EmptySet
    <3>2. h[a].alloc => h[a].refcount = 1 + 0
      BY <1>5, <2>2, <3>1 DEF CountAt
    <3> QED BY <3>2
  <2> QED BY <2>1, <2>2
<1> HIDE DEF h
<1>7. ~heap'[a].alloc
  BY <1>1, <1>2, <1>5, <1>6, RemoveLast
<1>8. \A b \in Addr \ {a} : heap'[b] = heap[b]
  BY <1>1, <1>5, RemovedEffect
<1> QED BY <1>0, <1>7, <1>8

\* No record is dead that was not dead before.
KeepsLife(h, g) ==
    \A a \in Addr : g[a].alloc /\ g[a].dead => h[a].alloc /\ h[a].dead

\* When one update of a record kills nobody.
LEMMA UpdateKeepsLife ==
    ASSUME NEW h \in [Addr -> ActiveClient], NEW a, NEW c,
           a \in Addr /\ c.alloc /\ c.dead => h[a].alloc /\ h[a].dead
    PROVE  KeepsLife(h, [h EXCEPT ![a] = c])
BY DEF KeepsLife

\* Neither release, acquire nor logged_in kills a client.
LEMMA AnswerKeepsLife ==
    ASSUME NEW h \in [Addr -> ActiveClient], NEW a
    PROVE  /\ KeepsLife(h, Released(h, a)) /\ KeepsLife(h, LoggedIn(h, a))
           /\ KeepsLife(h, Acquired(h, a))
<1>1. KeepsLife(h, h)
  BY DEF KeepsLife
<1>2. \A n \in Int : KeepsLife(h, [h EXCEPT ![a] = Refs(h[a], n)])
  <2> TAKE n \in Int
  <2> DEFINE c == Refs(h[a], n)
  <2>1. a \in Addr => c.alloc = h[a].alloc /\ c.dead = h[a].dead
    BY RefsFields
  <2> HIDE DEF c
  <2>2. KeepsLife(h, [h EXCEPT ![a] = c])
    BY <2>1, UpdateKeepsLife
  <2> QED BY <2>2 DEF c
<1>3. KeepsLife(h, [h EXCEPT ![a] = Freed])
  <2>1. ~Freed.alloc
    BY DEF Freed
  <2> QED BY <2>1, UpdateKeepsLife
<1>4. KeepsLife(h, LoggedIn(h, a))
  <2> DEFINE c == [h[a] EXCEPT !.logged_in = TRUE]
  <2>1. a \in Addr => c.alloc = h[a].alloc /\ c.dead = h[a].dead
    BY FieldUpdates
  <2>2. LoggedIn(h, a) = IF h[a].alloc THEN [h EXCEPT ![a] = c] ELSE h
    BY DEF LoggedIn
  <2> HIDE DEF c
  <2>3. KeepsLife(h, [h EXCEPT ![a] = c])
    BY <2>1, UpdateKeepsLife
  <2> QED BY <1>1, <2>2, <2>3
<1>5. KeepsLife(h, Released(h, a))
  <2>0. -1 \in Int
    OBVIOUS
  <2>1. KeepsLife(h, [h EXCEPT ![a] = Refs(h[a], -1)])
    BY <1>2, <2>0
  <2>2. \/ Released(h, a) \in {h, [h EXCEPT ![a] = Freed]}
        \/ Released(h, a) = [h EXCEPT ![a] = Refs(h[a], -1)]
    BY DEF Released
  <2> QED BY <1>1, <1>3, <2>1, <2>2
<1>6. KeepsLife(h, Acquired(h, a))
  <2>0. 1 \in Int
    OBVIOUS
  <2>1. KeepsLife(h, [h EXCEPT ![a] = Refs(h[a], 1)])
    BY <1>2, <2>0
  <2>2. Acquired(h, a) = [h EXCEPT ![a] = Refs(h[a], 1)]
    BY DEF Acquired
  <2> QED BY <2>1, <2>2
<1> QED BY <1>4, <1>5, <1>6

\* Only the sweep leaves a dead record behind.
LEMMA DeathStep ==
    ASSUME TypeOK, Numbered, Pipeline, References, CountsExact,
           ResultKinds, LoginFirst, [Next]_vars
    PROVE  KeepsLife(heap, heap') \/ SweepHangup \/ SweepQuit
<1>a. heap \in [Addr -> ActiveClient]
  BY DEF TypeOK
<1>1. ASSUME UNCHANGED heap PROVE KeepsLife(heap, heap')
  BY <1>1 DEF KeepsLife
<1>2. ASSUME NEW r \in Req, NEW a \in Addr, HskOk(r, a)
      PROVE  KeepsLife(heap, heap')
  <2> DEFINE c == [alloc |-> TRUE, pid |-> PidOf(r), refcount |-> 1,
                   dead |-> FALSE, logged_in |-> FALSE]
  <2>1. heap' = [heap EXCEPT ![a] = c] /\ ~c.dead
    BY <1>2 DEF HskOk
  <2> HIDE DEF c
  <2> QED BY <1>a, <2>1, UpdateKeepsLife
<1>3. CASE MainStep
  <2>1. CASE Check \/ PollSleep \/ PollReturn \/ HskRead \/ HskEnd \/ RpcEnd
                \/ SweepNext \/ SweepIgnore \/ SweepEnd
    BY <1>1, <2>1 DEF Check, PollSleep, PollReturn, HskRead, HskEnd, RpcEnd,
       SweepNext, SweepIgnore, SweepEnd, connVars
  <2>2. CASE SweepTask
    <3>1. heap' = Acquired(heap, slots[at].client)
      BY <2>2 DEF SweepTask
    <3> QED BY <1>a, <3>1, AnswerKeepsLife
  <2>3. CASE Teardown
    <3>1. heap' = [a \in Addr |-> IF a \in registry THEN Freed ELSE heap[a]]
      BY <2>3 DEF Teardown, FreeClients
    <3>2. ~Freed.alloc
      BY DEF Freed
    <3> QED BY <3>1, <3>2 DEF KeepsLife
  <2>4. ASSUME NEW r \in Req, AuthReject(r) PROVE KeepsLife(heap, heap')
    BY <2>4, RejectFrees DEF KeepsLife
  <2>5. ASSUME NEW r \in Req, HskDrop(r) \/ AuthOk(r) \/ RpcDone(r)
        PROVE  KeepsLife(heap, heap')
    <3> DEFINE a == owner[r]
               h == Released(heap, a)
    <3>1. heap' \in {heap, h, LoggedIn(h, a)}
      BY <2>5 DEF HskDrop, AuthOk, RpcDone, FreeClients
    <3> HIDE DEF a
    <3>2. KeepsLife(heap, h) /\ h \in [Addr -> ActiveClient]
      BY <1>a, AnswerKeepsLife, ReleasedType
    <3> HIDE DEF h
    <3>3. KeepsLife(h, LoggedIn(h, a))
      BY <3>2, AnswerKeepsLife
    <3> QED BY <1>1, <3>1, <3>2, <3>3 DEF KeepsLife
  <2> QED BY <1>2, <1>3, <2>1, <2>2, <2>3, <2>4, <2>5 DEF MainStep
<1>4. ASSUME NEW w \in Worker, WorkerStep(w) PROVE UNCHANGED heap
  BY <1>4 DEF WorkerStep, Dequeue, WorkerExit, FinishHandshake, FinishSilently,
     Finish, connVars
<1>5. ASSUME NEW p \in Pid, ClientStep(p) PROVE UNCHANGED heap
  BY <1>5 DEF ClientStep, Sigusr1, ClientOpen, ClientAuthorised,
     ClientRead, ClientExit, ClientSend, serverVars, connVars
<1>6. CASE SigShutdown \/ UNCHANGED vars
  BY <1>1, <1>6 DEF SigShutdown, vars, connVars
<1> QED BY <1>1, <1>3, <1>4, <1>5, <1>6 DEF Next

\* Taken out of service, for the next state too.
Leaves(p) == cli[p] = "closed" \/ Dismissed(p)

\* The sweep removes a client only when it has hung up, or has written a line
\* that begins with Disconnect.
LEMMA SweptGone ==
    ASSUME TypeOK, Numbered, Pipeline, ConnInv, NoneErr(slots), [Next]_vars,
           NEW a, a = slots[at].client, NEW p, p = slots[at].fd,
           SweepHangup \/ SweepQuit
    PROVE  /\ a \in Addr /\ p \in Pid /\ heap[a].pid = p
           /\ Leaves(p)'
<1>1. AtSlot
  BY DEF SweepHangup, SweepQuit, AtLine
<1>2. at \in DOMAIN slots /\ slots[at] \in Slot
  BY <1>1, SlotAtType DEF TypeOK, AtSlot
<1>3. a \in Addr /\ p \in Pid /\ heap[a].alloc /\ ~heap[a].dead /\ heap[a].pid = p
  <2>1. a \in Addr /\ p \in Pid
    BY <1>1, SlotAtType
  <2>2. heap[a].alloc /\ ~heap[a].dead
    BY <1>1, SlotAlive
  <2>3. heap[a].pid = p
    BY <1>2 DEF ConnInv, SlotsMatchRegistry
  <2> QED BY <2>1, <2>2, <2>3
<1>4. CASE SweepHangup
  <2>1. cli[p] = "closed" /\ cli' = cli
    BY <1>2, <1>4 DEF SweepHangup, NoneErr, clientVars
  <2> QED BY <1>3, <2>1 DEF Leaves
<1>5. CASE SweepQuit
  <2>1. PICK r : r = Head(c2s[p])
    OBVIOUS
  <2>2. r \in Req /\ IsLine(r) /\ PidOf(r) = p
    BY <1>5, <2>1, SlotOfSweep
  <2>3. /\ kind[r] = "DISCONNECT" /\ kind' = kind
        /\ stage' = [stage EXCEPT ![r] = "done"]
    BY <1>3, <1>5, <2>1 DEF SweepQuit, reqInfo
  <2>4. stage'[r] = "done"
    BY <2>2, <2>3 DEF TypeOK
  <2>5. PICK q \in Pid, n \in 1..MaxSend : r = <<q, n>>
    BY <2>2, ReqCases DEF IsLine
  <2>6. q = p
    BY <2>2, <2>5 DEF PidOf
  <2>7. Dismissed(p)'
    BY <2>3, <2>4, <2>5, <2>6 DEF Dismissed
  <2> QED BY <1>3, <2>7 DEF Leaves
<1> QED BY <1>4, <1>5

\* So a removed client has left or has been dismissed, after every step.
LEMMA RemovedGoneStep ==
    ASSUME OwnClients, TypeOK, SignalsOnce, Numbered, Pipeline, ConnInv,
           References, CountsExact, ResultKinds, LoginFirst, RemovedGone,
           SlotsOpen, [Next]_vars
    PROVE  RemovedGone'
<1>1. SUFFICES ASSUME NEW a \in Addr, heap'[a].alloc, heap'[a].dead,
                      NEW p, p = heap'[a].pid
               PROVE  Leaves(p)'
  BY DEF RemovedGone, Leaves
<1>2. ASSUME heap[a].alloc, heap[a].dead, heap'[a].pid = heap[a].pid
      PROVE  Leaves(p)'
  <2>1. p \in Pid /\ p = heap[a].pid
    BY <1>1, <1>2 DEF ConnInv, OneRecord
  <2>2. cli[p] = "closed" \/ Dismissed(p)
    BY <1>2, <2>1 DEF RemovedGone
  <2>3. CASE cli[p] = "closed"
    BY <1>2, <2>1, <2>3, ClosedStays DEF Leaves
  <2>4. CASE Dismissed(p)
    BY <1>2, <2>1, <2>4, DismissedStays DEF Leaves
  <2> QED BY <2>2, <2>3, <2>4
<1>3. CASE KeepsLife(heap, heap')
  <2>1. heap[a].alloc /\ heap[a].dead
    BY <1>1, <1>3 DEF KeepsLife
  <2>2. heap'[a].pid = heap[a].pid
    <3>1. CASE Evolves(heap, heap')
      BY <1>1, <3>1 DEF Evolves
    <3>2. ASSUME NEW r \in Req, NEW b \in Addr, HskOk(r, b)
          PROVE  heap'[a] = heap[a]
      BY <2>1, <3>2 DEF HskOk, TypeOK
    <3> QED BY <3>1, <3>2, RecordStep
  <2> QED BY <1>2, <2>1, <2>2
<1>4. CASE SweepHangup \/ SweepQuit
  <2>0. PICK b, q : b = slots[at].client /\ q = slots[at].fd
    OBVIOUS
  <2>1. b \in Addr /\ heap[b].pid = q /\ Leaves(q)'
    BY <1>4, <2>0, SweptGone DEF SlotsOpen, NoneErr
  <2>2. heap' = Removed(heap, b) /\ heap \in [Addr -> ActiveClient]
    BY <1>4, <2>0 DEF SweepHangup, SweepQuit, RemoveSwept, FreeClients,
       TypeOK
  <2>3. heap[a].alloc /\ heap'[a].pid = heap[a].pid
    BY <1>1, <2>2, RemovedEffect DEF Evolves
  <2>4. CASE a = b
    BY <1>1, <2>1, <2>3, <2>4
  <2>5. CASE a # b
    <3>1. heap'[a] = heap[a]
      BY <2>2, <2>5, RemovedEffect
    <3> QED BY <1>1, <1>2, <2>3, <3>1
  <2> QED BY <2>4, <2>5
<1> QED BY <1>3, <1>4, DeathStep

\* What Append adds.
LEMMA AppendSet ==
    ASSUME NEW S, NEW s \in Seq(S), NEW r \in S
    PROVE  /\ r \in ToSet(Append(s, r))
           /\ \A x \in ToSet(s) : x \in ToSet(Append(s, r))
<1>1. /\ Append(s, r)[Len(s) + 1] = r
      /\ \A i \in DOMAIN s : Append(s, r)[i] = s[i] /\ i \in DOMAIN Append(s, r)
      /\ Len(s) + 1 \in DOMAIN Append(s, r)
  OBVIOUS
<1> QED BY <1>1 DEF ToSet

\* A set that maps into another without collisions is no larger.
LEMMA NoLarger ==
    ASSUME NEW S, NEW T, IsFiniteSet(T), NEW f, \A x \in S : f[x] \in T,
           \A x, y \in S : f[x] = f[y] => x = y
    PROVE  IsFiniteSet(S) /\ Cardinality(S) <= Cardinality(T)
<1> DEFINE g == [x \in S |-> f[x]]
<1>1. g \in Injection(S, T)
  BY DEF Injection, IsInjective
<1> HIDE DEF g
<1>2. PICK h : h \in Injection(S, T)
  BY <1>1
<1> QED BY <1>2, FS_Injection

\* The replies that p has are fewer than its lines, when one of these has its
\* result in the pipe.
LEMMA ReplyRoom ==
    ASSUME TypeOK, Numbered, NEW p \in Pid, RepliesDone(p), NEW r \in Req,
           IsLine(r), PidOf(r) = p, stage[r] = "piped"
    PROVE  Len(s2c[p]) < sent[p]
<1>a. /\ s2c[p] \in Seq(Req) /\ sent[p] \in 0..MaxSend /\ MaxSend \in Nat
      /\ sent[p] \in Nat
  BY ConstantsAssumption DEF TypeOK
<1>b. Len(s2c[p]) \in Nat /\ DOMAIN s2c[p] = 1..Len(s2c[p])
  BY <1>a
<1>1. ASSUME NEW n \in 1..MaxSend, stage[<<p, n>>] # "none"
      PROVE  n \in 1..sent[p]
  <2>1. ~(n > sent[p])
    BY <1>1 DEF Numbered
  <2> QED BY <1>a, <2>1
<1>2. PICK m \in 1..sent[p] : r = <<p, m>>
  <2>1. PICK q \in Pid, n \in 1..MaxSend : r = <<q, n>>
    BY ReqCases DEF IsLine
  <2>2. q = p
    BY <2>1 DEF PidOf
  <2> QED BY <1>1, <2>1, <2>2
<1> DEFINE T == (1..sent[p]) \ {m}
           f == [i \in DOMAIN s2c[p] |-> s2c[p][i][2]]
<1>3. ASSUME NEW i \in DOMAIN s2c[p]
      PROVE  f[i] \in T /\ s2c[p][i] = <<p, f[i]>>
  <2>1. PICK x \in Req : x = s2c[p][i]
    BY <1>a
  <2>2. PidOf(x) = p /\ x # <<p, 0>> /\ stage[x] = "done"
    BY <2>1 DEF RepliesDone
  <2>3. PICK n \in 1..MaxSend : x = <<p, n>>
    BY <2>2, ReqCases DEF PidOf, IsLine
  <2>4. n \in 1..sent[p]
    BY <1>1, <2>2, <2>3
  <2>5. n # m
    BY <1>2, <2>2, <2>3
  <2>6. f[i] = n
    <3>1. s2c[p][i][2] = n
      BY <2>1, <2>3
    <3>2. f[i] = s2c[p][i][2]
      OBVIOUS
    <3> QED BY <3>1, <3>2
  <2>7. n \in T
    BY <2>4, <2>5
  <2> HIDE DEF T, f
  <2> QED BY <2>1, <2>3, <2>6, <2>7
<1> HIDE DEF f
<1>4. ASSUME NEW i \in DOMAIN s2c[p], NEW j \in DOMAIN s2c[p], f[i] = f[j]
      PROVE  i = j
  <2>1. s2c[p][i] = s2c[p][j]
    BY <1>3, <1>4
  <2> QED BY <2>1 DEF RepliesDone
<1>5. /\ IsFiniteSet(1..sent[p]) /\ Cardinality(1..sent[p]) = sent[p]
      /\ IsFiniteSet(1..Len(s2c[p]))
      /\ Cardinality(1..Len(s2c[p])) = Len(s2c[p])
  <2>1. ASSUME NEW k \in Nat
        PROVE  IsFiniteSet(1..k) /\ Cardinality(1..k) = k
    BY FS_Interval
  <2> QED BY <1>a, <1>b, <2>1
<1>6. IsFiniteSet(T) /\ Cardinality(T) = sent[p] - 1
  BY <1>2, <1>5, FS_RemoveElement
<1> HIDE DEF T, f
<1>7. Cardinality(DOMAIN s2c[p]) <= Cardinality(T)
  BY <1>3, <1>4, <1>6, NoLarger
<1> QED BY <1>a, <1>b, <1>5, <1>6, <1>7

\* The result of a client that counts on its replies is answered when it is
\* handled.
LEMMA HandledAnswered ==
    ASSUME TypeOK, SignalsOnce, Numbered, Pipeline, References, RemovedGone,
           [Next]_vars, NEW r \in Req, NEW p \in Pid, PidOf(r) = p,
           RepliesDone(p), Metered(p),
           AuthOk(r) \/ AuthReject(r) \/ RpcDone(r), Expecting(p)'
    PROVE  r \in ToSet(s2c'[p])
<1>0. PICK a : a = owner[r]
  OBVIOUS
<1> DEFINE h == Released(heap, a)
<1>1. TakeResult(r) /\ result[r] \in Results /\ Reply(h, a, r)
  BY <1>0 DEF AuthOk, AuthReject, RpcDone, Results
<1>2. /\ a \in Addr /\ heap[a].alloc /\ heap[a].pid = p
      /\ stage[r] = "piped" /\ IsLine(r)
  BY <1>0, <1>1, NamedByResult
<1>3. cli' = cli /\ hasty' = hasty
  BY <1>1 DEF TakeResult, clientVars
<1>4. cli[p] \in Reading /\ p \notin hasty /\ ~Dismissed(p)
  BY <1>3, DismissedStays DEF Expecting
<1>5. ~heap[a].dead
  BY <1>2, <1>4 DEF RemovedGone, Reading
<1>6. h[a].alloc /\ h[a].pid = p
  <2>1. Spares(heap, h)
    BY ReleasedEffect DEF TypeOK
  <2> QED BY <1>2, <1>5, <2>1 DEF Spares
<1> HIDE DEF h
<1>7. Len(s2c[p]) - read[p] < ReplyCap
  <2>1. Len(s2c[p]) < sent[p]
    BY <1>2, ReplyRoom
  <2>2. sent[p] - read[p] <= ReplyCap
    BY <1>4 DEF Metered
  <2>3. /\ sent[p] \in 0..MaxSend /\ MaxSend \in Nat /\ sent[p] \in Nat
        /\ read[p] \in Nat /\ ReplyCap \in Nat /\ s2c[p] \in Seq(Req)
    BY ConstantsAssumption DEF TypeOK
  <2>4. Len(s2c[p]) \in Nat
    BY <2>3
  <2> QED BY <2>1, <2>2, <2>3, <2>4
<1>8. s2c' = [s2c EXCEPT ![p] = Append(@, r)]
  BY <1>1, <1>4, <1>6, <1>7 DEF Reply, Written
<1>9. s2c'[p] = Append(s2c[p], r) /\ s2c[p] \in Seq(Req)
  BY <1>8 DEF TypeOK
<1> QED BY <1>9, AppendSet

\* What a step does to the replies p has read, and to what it has written.
MeterMove(p) ==
    \/ /\ read'[p] = read[p] /\ sent'[p] = sent[p]
       /\ p \in hasty' <=> p \in hasty
    \/ ClientRead(p) \/ ClientAuthorised(p)
    \/ \E k \in Commands : ClientSend(p, k)

LEMMA MeterStep ==
    ASSUME TypeOK, [Next]_vars, NEW p \in Pid
    PROVE  MeterMove(p)
<1>a. read \in [Pid -> Nat] /\ sent \in [Pid -> 0..MaxSend]
  BY DEF TypeOK
<1>1. ASSUME UNCHANGED <<read, sent, hasty>> PROVE MeterMove(p)
  BY <1>1 DEF MeterMove
<1>2. CASE MainStep
  BY <1>1, <1>2 DEF MainStep, Check, PollSleep, PollReturn, HskRead, HskEnd,
     RpcEnd, HskOk, HskDrop, AuthOk, AuthReject, RpcDone, TakeResult,
     SweepNext, SweepHangup, SweepTask, SweepQuit, SweepIgnore, SweepEnd,
     Teardown, clientVars
<1>3. ASSUME NEW w \in Worker, WorkerStep(w) PROVE UNCHANGED <<read, sent, hasty>>
  BY <1>3 DEF WorkerStep, Dequeue, WorkerExit, FinishHandshake, FinishSilently,
     Finish, clientVars
<1>4. ASSUME NEW q \in Pid, ClientStep(q) PROVE MeterMove(p)
  <2>1. CASE Sigusr1(q) \/ ClientOpen(q) \/ ClientExit(q)
    BY <1>1, <2>1 DEF Sigusr1, ClientOpen, ClientExit
  <2>2. CASE ClientRead(q) \/ ClientAuthorised(q)
    <3>1. CASE q = p
      BY <2>2, <3>1 DEF MeterMove
    <3>2. CASE q # p
      BY <1>a, <2>2, <3>2 DEF ClientRead, ClientAuthorised, MeterMove
    <3> QED BY <3>1, <3>2
  <2>3. ASSUME NEW k \in Commands, ClientSend(q, k) PROVE MeterMove(p)
    <3>1. CASE q = p
      BY <2>3, <3>1 DEF MeterMove
    <3>2. CASE q # p
      <4>1. /\ read' = read /\ sent' = [sent EXCEPT ![q] = @ + 1]
            /\ hasty' \in {hasty, hasty \cup {q}}
        BY <2>3 DEF ClientSend
      <4> QED BY <1>a, <3>2, <4>1 DEF MeterMove
    <3> QED BY <3>1, <3>2
  <2> QED BY <1>4, <2>1, <2>2, <2>3 DEF ClientStep
<1>5. CASE SigShutdown \/ UNCHANGED vars
  BY <1>1, <1>5 DEF SigShutdown, vars, clientVars
<1> QED BY <1>1, <1>2, <1>3, <1>4, <1>5 DEF Next

\* Hasty once, hasty for good.
LEMMA HastyStays ==
    ASSUME TypeOK, [Next]_vars, NEW p \in Pid, p \in hasty
    PROVE  p \in hasty'
BY MeterStep DEF MeterMove, ClientRead, ClientAuthorised, ClientSend

\* A client reads what is there, and one that is not hasty keeps the room its
\* replies need.
LEMMA MeteredStep ==
    ASSUME OwnClients, TypeOK, Numbered, Pipeline, References, LoginFirst,
           [Next]_vars, NEW p \in Pid, Metered(p)
    PROVE  Metered(p)'
<1>a. /\ sent[p] \in 0..MaxSend /\ MaxSend \in Nat /\ sent[p] \in Nat
      /\ read[p] \in Nat /\ ReplyCap \in Nat /\ s2c[p] \in Seq(Req)
      /\ read \in [Pid -> Nat] /\ sent \in [Pid -> 0..MaxSend]
      /\ cli \in [Pid -> CliStates]
  BY ConstantsAssumption DEF TypeOK
<1>b. /\ read[p] <= Len(s2c[p])
      /\ cli[p] \notin {"rpc", "closed"} => read[p] = 0
      /\ p \notin hasty => sent[p] - read[p] <= ReplyCap
  BY DEF Metered
<1>c. Len(s2c[p]) \in Nat /\ Len(s2c'[p]) \in Nat /\ Len(s2c[p]) <= Len(s2c'[p])
  <2>1. s2c'[p] = s2c[p] \/ \E r \in Req : s2c'[p] = Append(s2c[p], r)
    BY ReplyStep DEF Replied
  <2> QED BY <1>a, <2>1
<1> HIDE DEF Metered
<1>1. SUFFICES /\ read'[p] <= Len(s2c'[p])
               /\ cli'[p] \notin {"rpc", "closed"} => read'[p] = 0
               /\ p \notin hasty' => sent'[p] - read'[p] <= ReplyCap
  BY DEF Metered
<1>2. CASE ClientRead(p)
  <2>1. /\ read[p] < Len(s2c[p]) /\ read'[p] = read[p] + 1
        /\ UNCHANGED <<sent, hasty, cli>> /\ cli[p] = "rpc"
    BY <1>a, <1>2 DEF ClientRead
  <2> QED BY <1>a, <1>b, <1>c, <2>1
<1>3. CASE ClientAuthorised(p)
  <2>1. /\ cli[p] = "waiting" /\ s2c[p] # <<>> /\ read'[p] = read[p] + 1
        /\ UNCHANGED <<sent, hasty>> /\ cli'[p] \in {"rpc", "closed"}
    BY <1>a, <1>3 DEF ClientAuthorised
  <2>2. read[p] = 0 /\ Len(s2c[p]) > 0
    BY <1>a, <1>b, <2>1
  <2> QED BY <1>a, <1>b, <1>c, <2>1, <2>2
<1>4. ASSUME NEW k \in Commands, ClientSend(p, k)
      PROVE  /\ read'[p] <= Len(s2c'[p])
             /\ cli'[p] \notin {"rpc", "closed"} => read'[p] = 0
             /\ p \notin hasty' => sent'[p] - read'[p] <= ReplyCap
  <2>1. /\ read' = read /\ sent'[p] = sent[p] + 1
        /\ cli[p] \in {"rpc", "closed"} => cli'[p] \in {"rpc", "closed"}
        /\ hasty' = IF sent[p] - read[p] < ReplyCap THEN hasty
                    ELSE hasty \cup {p}
    <3>1. /\ cli[p] = IF sent[p] > 0 THEN "rpc" ELSE "login"
          /\ \E s \in AfterLine(p, k) : cli'[p] = s
      BY <1>a, <1>4 DEF ClientSend
    <3>2. cli[p] \in {"rpc", "closed"} => cli'[p] \in {"rpc", "closed"}
      BY <1>a, <3>1 DEF AfterLine
    <3> QED BY <1>a, <1>4, <3>2 DEF ClientSend
  <2>2. p \notin hasty' => p \notin hasty /\ sent[p] - read[p] < ReplyCap
    BY <2>1
  <2> QED BY <1>a, <1>b, <1>c, <2>1, <2>2
<1>5. ASSUME ~ClientRead(p), ~ClientAuthorised(p),
             ~(\E k \in Commands : ClientSend(p, k))
      PROVE  /\ read'[p] <= Len(s2c'[p])
             /\ cli'[p] \notin {"rpc", "closed"} => read'[p] = 0
             /\ p \notin hasty' => sent'[p] - read'[p] <= ReplyCap
  <2>1. /\ read'[p] = read[p] /\ sent'[p] = sent[p]
        /\ p \in hasty' <=> p \in hasty
    BY <1>5, MeterStep DEF MeterMove
  <2>2. cli[p] \in {"rpc", "closed"} => cli'[p] \in {"rpc", "closed"}
    BY <1>5, OwnClientStep DEF OwnStep
  <2> QED BY <1>a, <1>b, <1>c, <2>1, <2>2
<1> QED BY <1>2, <1>3, <1>4, <1>5

\* Every step that handles a result answers a client that counts on it.
LEMMA AnsweredStep ==
    ASSUME OwnClients, TypeOK, SignalsOnce, Numbered, Pipeline, References,
           ResultKinds, LoginFirst, RemovedGone, \A p \in Pid : Metered(p),
           Answered, [Next]_vars
    PROVE  Answered'
<1> SUFFICES ASSUME NEW p \in Pid, Expecting(p)', NEW n \in 1..MaxSend,
                    stage'[<<p, n>>] = "done", result'[<<p, n>>] # None
             PROVE  <<p, n>> \in ToSet(s2c'[p])
  BY DEF Answered, AllAnswered
<1>0. PICK r : r = <<p, n>>
  OBVIOUS
<1>1. r \in Req /\ PidOf(r) = p /\ stage'[r] = "done" /\ result'[r] # None
  BY <1>0, ConstantsAssumption DEF Req, PidOf
<1>2. Ladder(r) /\ FromResult(r) /\ ResultKept(r)
  BY <1>1, RequestStep DEF OneStep
<1>3. result[r] = result'[r] /\ stage[r] \in {"piped", "lost", "done"}
  BY <1>1, <1>2 DEF ResultKept, ResultKinds
<1>4. CASE stage[r] = "done"
  <2>1. r \in ToSet(s2c[p])
    <3>1. CASE cli[p] \in Reading
      <4>1. Expecting(p)
        BY <3>1, DismissedStays, HastyStays DEF Expecting
      <4> QED BY <1>0, <1>1, <1>3, <1>4, <4>1 DEF Answered, AllAnswered
    <3>2. CASE cli[p] \notin Reading
      <4>1. ASSUME NEW k \in Commands, ClientSend(p, k) PROVE FALSE
        BY <3>2, <4>1 DEF ClientSend, Reading
      <4>2. cli[p] = "syn"
        BY <3>2, <4>1, OwnClientStep DEF OwnStep, Reading, Expecting
      <4>3. sent[p] = 0
        BY <4>2 DEF LoginFirst, LoginSent
      <4>4. n > sent[p]
        BY <4>3
      <4> QED BY <1>0, <1>4, <4>4 DEF Numbered
    <3> QED BY <3>1, <3>2
  <2>2. s2c[p] \in Seq(Req)
    BY DEF TypeOK
  <2>3. s2c'[p] = s2c[p] \/ \E x \in Req : s2c'[p] = Append(s2c[p], x)
    BY ReplyStep DEF Replied
  <2> QED BY <1>0, <2>1, <2>2, <2>3, AppendSet
<1>5. CASE stage[r] = "lost"
  BY <1>1, <1>2, <1>5 DEF Ladder
<1>6. CASE stage[r] = "piped"
  <2>1. kind[r] # "HANDSHAKE"
    <3>1. IsLine(r)
      BY <1>1, <1>3, ResultIsLine
    <3> QED BY <1>1, <1>6, <3>1, HandshakeKind DEF IsLine
  <2>2. AuthOk(r) \/ AuthReject(r) \/ RpcDone(r)
    BY <1>1, <1>2, <1>6, <2>1 DEF FromResult, HskOk, HskDrop
  <2> QED BY <1>0, <1>1, <2>2, HandledAnswered DEF LoginFirst
<1> QED BY <1>3, <1>4, <1>5, <1>6

-----------------------------------------------------------------------------
(* The lifetime of a connection *)

\* The state of the connection whose record is at a in heap h.
LifeIn(h, a) == IF ~h[a].alloc THEN "none"
                ELSE IF h[a].dead THEN "retired" ELSE "open"

\* Nothing happens to the connections at other addresses.
Elsewhere(a) ==
    \A b \in Addr \ {a} : heap'[b] = heap[b] /\ Outstanding(b)' = Outstanding(b)

\* Releasing revives and retires nobody.
LEMMA ReleaseKeepsDead ==
    ASSUME NEW h \in [Addr -> ActiveClient], NEW a \in Addr,
           Released(h, a)[a].alloc
    PROVE  Released(h, a)[a].dead = h[a].dead
<1> DEFINE c == Refs(h[a], -1)
<1>1. h[a] \in ActiveClient /\ -1 \in Int
  OBVIOUS
<1>2. c.dead = h[a].dead
  BY <1>1, RefsFields
<1>3. /\ Released(h, a) \in {h, [h EXCEPT ![a] = Freed], [h EXCEPT ![a] = c]}
      /\ ~Freed.alloc
  BY DEF Released, Freed
<1> HIDE DEF c
<1> QED BY <1>2, <1>3

\* A release frees a dead client with its last holder, and no other.
LEMMA ReleaseLife ==
    ASSUME NEW h \in [Addr -> ActiveClient], NEW a \in Addr, NEW O, NEW r \in O,
           IsFiniteSet(O), CountAt(h, a, O)
    PROVE  /\ h[a].dead => LifeIn(Released(h, a), a) = Lifetime!Gone(O \ {r})
           /\ ~h[a].dead => LifeIn(Released(h, a), a) = "open"
<1> DEFINE g == Released(h, a)
<1>1. h[a].alloc
  BY DEF CountAt
<1>2. CountAt(g, a, O \ {r}) /\ (g[a].alloc => g[a].dead = h[a].dead)
  BY ReleaseCount
<1>3. CASE ~h[a].dead
  <2>1. g[a].alloc /\ ~g[a].dead
    BY <1>1, <1>3, ReleasedEffect DEF Spares
  <2> QED BY <1>3, <2>1 DEF LifeIn
<1>4. CASE h[a].dead /\ O \ {r} # {}
  <2>1. g[a].alloc /\ g[a].dead
    BY <1>2, <1>4 DEF CountAt
  <2> QED BY <1>4, <2>1 DEF LifeIn, Lifetime!Gone
<1>5. CASE h[a].dead /\ O \ {r} = {}
  <2>1. O = {r}
    BY <1>5
  <2>2. Cardinality(O) = 1
    BY <2>1, FS_Singleton
  <2>3. h[a].refcount = 1
    BY <1>1, <1>5, <2>2 DEF CountAt
  <2>4. g = [h EXCEPT ![a] = Freed] /\ ~Freed.alloc
    BY <1>1, <1>5, <2>3 DEF Released, Freed
  <2>5. ~g[a].alloc
    BY <2>4
  <2> QED BY <1>5, <2>5 DEF LifeIn, Lifetime!Gone
<1> QED BY <1>3, <1>4, <1>5

\* A removed client is dead, and freed when nobody holds it.
LEMMA RemoveLife ==
    ASSUME NEW h \in [Addr -> ActiveClient], NEW a \in Addr, NEW O,
           IsFiniteSet(O), CountAt(h, a, O), h[a].alloc, ~h[a].dead
    PROVE  LifeIn(Removed(h, a), a) = Lifetime!Gone(O)
<1> DEFINE d == [h[a] EXCEPT !.dead = TRUE]
           g == [h EXCEPT ![a] = d]
<1>1. CASE O = {}
  <2>1. Cardinality(O) = 0
    BY <1>1, FS_EmptySet
  <2>2. h[a].refcount = 1
    BY <2>1 DEF CountAt
  <2>3. ~Removed(h, a)[a].alloc
    BY <2>2, RemoveLast
  <2> QED BY <1>1, <2>3 DEF LifeIn, Lifetime!Gone
<1>2. CASE O # {}
  <2>1. Removed(h, a)[a].alloc
    BY <1>2, RemoveCount DEF CountAt
  <2>2. h[a] \in ActiveClient
    OBVIOUS
  <2>3. d.dead = TRUE /\ d \in ActiveClient
    BY <2>2, DeadFields, ClientFieldTypes
  <2>4. Removed(h, a) = Released(g, a)
    BY DEF Removed
  <2> HIDE DEF d
  <2>5. g \in [Addr -> ActiveClient] /\ g[a] = d
    BY <2>3
  <2> HIDE DEF g
  <2>6. Removed(h, a)[a].dead
    BY <2>1, <2>3, <2>4, <2>5, ReleaseKeepsDead
  <2> QED BY <1>2, <2>1, <2>6 DEF LifeIn, Lifetime!Gone
<1> QED BY <1>1, <1>2

\* HSK_OK opens a connection nobody holds.
LEMMA HskOkLife ==
    ASSUME TypeOK, Numbered, Numbered', Pipeline, References,
           NEW r \in Req, NEW a \in Addr, HskOk(r, a)
    PROVE  /\ Elsewhere(a) /\ registry' = registry \cup {a}
           /\ Outstanding(a) = {} /\ Outstanding(a)' = {}
           /\ LifeIn(heap, a) = "none" /\ LifeIn(heap', a) = "open"
<1>1. /\ rpc # <<>> /\ r = Head(rpc) /\ kind[r] = "HANDSHAKE"
      /\ stage' = [stage EXCEPT ![r] = "done"] /\ UNCHANGED owner
      /\ pc # "done" /\ ~heap[a].alloc
      /\ heap' = [heap EXCEPT ![a] = [alloc |-> TRUE, pid |-> PidOf(r),
                                    refcount |-> 1, dead |-> FALSE,
                                    logged_in |-> FALSE]]
      /\ registry' = registry \cup {a}
  BY DEF HskOk, TakeResult, MoreRpc, reqInfo
<1>2. stage[r] = "piped"
  BY <1>1, AllAtTail DEF TypeOK, Pipeline
<1>3. ~IsLine(r)
  BY <1>1, <1>2, HandshakeKind DEF IsLine
<1>4. SameHolders
  BY <1>1, <1>3, OneHolder
<1>5. \A b \in Addr : Outstanding(b)' = Outstanding(b)
  BY <1>4, SameOutstanding
<1>6. Outstanding(a) = {}
  BY <1>1 DEF References
<1>7. heap'[a].alloc /\ ~heap'[a].dead /\ \A b \in Addr \ {a} : heap'[b] = heap[b]
  BY <1>1 DEF TypeOK
<1> QED BY <1>1, <1>5, <1>6, <1>7 DEF LifeIn, Elsewhere

\* logged_in changes no life.
LEMMA LoggedInLife ==
    ASSUME NEW h \in [Addr -> ActiveClient], NEW a \in Addr
    PROVE  /\ LifeIn(LoggedIn(h, a), a) = LifeIn(h, a)
           /\ \A b \in Addr \ {a} : LoggedIn(h, a)[b] = h[b]
<1> DEFINE d == [h[a] EXCEPT !.logged_in = TRUE]
<1>1. h[a] \in ActiveClient
  OBVIOUS
<1>2. d.alloc = h[a].alloc /\ d.dead = h[a].dead
  BY <1>1, FieldUpdates
<1>3. LoggedIn(h, a) = IF h[a].alloc THEN [h EXCEPT ![a] = d] ELSE h
  BY DEF LoggedIn
<1> HIDE DEF d
<1>4. LoggedIn(h, a)[a] = (IF h[a].alloc THEN d ELSE h[a])
  BY <1>3
<1>5. \A b \in Addr \ {a} : LoggedIn(h, a)[b] = h[b]
  BY <1>3
<1> QED BY <1>2, <1>4, <1>5 DEF LifeIn

\* AUTH_OK and RPC_DONE: a holder lets go.
LEMMA AnswerLife ==
    ASSUME TypeOK, Numbered, Numbered', Pipeline, References, CountsExact,
           NEW r \in Req, AuthOk(r) \/ RpcDone(r)
    PROVE  \E a \in Addr :
              /\ Elsewhere(a) /\ registry' = registry
              /\ r \in Outstanding(a) /\ heap[a].alloc
              /\ Outstanding(a)' = Outstanding(a) \ {r}
              /\ heap[a].dead => LifeIn(heap', a) = Lifetime!Gone(Outstanding(a)')
              /\ ~heap[a].dead => LifeIn(heap', a) = "open"
<1>0. PICK a : a = owner[r]
  OBVIOUS
<1> DEFINE h == Released(heap, a)
<1>1. /\ TakeResult(r) /\ result[r] \in Results /\ pc # "done"
      /\ heap' = h \/ heap' = LoggedIn(h, a)
      /\ registry' = registry
  BY <1>0 DEF AuthOk, RpcDone, FreeClients, Results, TakeResult
<1>2. a \in Addr /\ r \in Outstanding(a) /\ heap[a].alloc
  BY <1>0, <1>1, NamedByResult
<1>3. /\ Outstanding(a)' = Outstanding(a) \ {r}
      /\ \A b \in Addr \ {a} : Outstanding(b)' = Outstanding(b)
  BY <1>0, <1>1, ResultOutstanding
<1>4. CountAt(heap, a, Outstanding(a)) /\ IsFiniteSet(Outstanding(a))
      /\ heap \in [Addr -> ActiveClient]
  BY <1>1, <1>2, CountParts, OutstandingFinite DEF TypeOK
<1>5. /\ \A b \in Addr \ {a} : h[b] = heap[b]
      /\ h \in [Addr -> ActiveClient]
      /\ heap[a].dead => LifeIn(h, a) = Lifetime!Gone(Outstanding(a) \ {r})
      /\ ~heap[a].dead => LifeIn(h, a) = "open"
  <2>1. /\ \A b \in Addr \ {a} : h[b] = heap[b]
        /\ h \in [Addr -> ActiveClient]
    BY <1>2, <1>4, ReleaseCount
  <2>2. /\ heap[a].dead => LifeIn(h, a) = Lifetime!Gone(Outstanding(a) \ {r})
        /\ ~heap[a].dead => LifeIn(h, a) = "open"
    BY <1>2, <1>4, ReleaseLife
  <2> QED BY <2>1, <2>2
<1> HIDE DEF h
<1>6. LifeIn(heap', a) = LifeIn(h, a) /\ \A b \in Addr \ {a} : heap'[b] = heap[b]
  BY <1>1, <1>2, <1>5, LoggedInLife
<1>7. Elsewhere(a)
  BY <1>3, <1>6 DEF Elsewhere
<1> QED BY <1>1, <1>2, <1>3, <1>5, <1>6, <1>7

\* AUTH_NO and AUTH_UN: the only holder lets go of a connection that is taken
\* out of service.
LEMMA RejectLife ==
    ASSUME TypeOK, Numbered, Numbered', Pipeline, References, CountsExact,
           ResultKinds, LoginFirst, NEW r \in Req, AuthReject(r)
    PROVE  \E a \in Addr :
              /\ Elsewhere(a) /\ registry' = registry \ {a}
              /\ Outstanding(a) = {r} /\ heap[a].alloc
              /\ Outstanding(a)' = {} /\ LifeIn(heap', a) = "none"
<1>0. PICK a : a = owner[r]
  OBVIOUS
<1>1. /\ TakeResult(r) /\ result[r] \in Results /\ kind[r] = "AUTHORISE"
      /\ registry' = registry \ {a}
  BY <1>0 DEF AuthReject, Results, TakeResult, ResultKinds
<1>2. a \in Addr /\ heap[a].alloc
  BY <1>0, <1>1, NamedByResult
<1>3. Outstanding(a) = {r}
  BY <1>0, <1>1, LoneLogin
<1>4. /\ Outstanding(a)' = Outstanding(a) \ {r}
      /\ \A b \in Addr \ {a} : Outstanding(b)' = Outstanding(b)
  BY <1>0, <1>1, ResultOutstanding
<1>5. ~heap'[a].alloc /\ \A b \in Addr \ {a} : heap'[b] = heap[b]
  BY <1>0, RejectFrees
<1>6. Elsewhere(a)
  BY <1>4, <1>5 DEF Elsewhere
<1> QED BY <1>1, <1>2, <1>3, <1>4, <1>5, <1>6 DEF LifeIn

\* The sweep takes an open connection out of service.
LEMMA SweptLife ==
    ASSUME TypeOK, SignalsOnce, Numbered, Numbered', Pipeline, ConnInv, References,
           CountsExact, SweepHangup \/ SweepQuit
    PROVE  \E a \in Addr :
              /\ Elsewhere(a) /\ registry' = registry \ {a}
              /\ LifeIn(heap, a) = "open"
              /\ Outstanding(a)' = Outstanding(a)
              /\ LifeIn(heap', a) = Lifetime!Gone(Outstanding(a))
<1>0. PICK a : a = slots[at].client
  OBVIOUS
<1>1. /\ AtSlot /\ pc # "done" /\ heap' = Removed(heap, a)
      /\ registry' = registry \ {a}
  BY <1>0 DEF SweepHangup, SweepQuit, AtLine, AtSlot, RemoveSwept, FreeClients
<1>2. a \in Addr /\ heap[a].alloc /\ ~heap[a].dead
  BY <1>0, <1>1, SlotAlive
<1>3. SameHolders
  BY SweepHolders
<1>4. \A b \in Addr : Outstanding(b)' = Outstanding(b)
  BY <1>3, SameOutstanding
<1>5. /\ CountAt(heap, a, Outstanding(a)) /\ IsFiniteSet(Outstanding(a))
      /\ heap \in [Addr -> ActiveClient]
  BY <1>1, <1>2, CountParts, OutstandingFinite DEF TypeOK
<1>6. /\ LifeIn(heap', a) = Lifetime!Gone(Outstanding(a))
      /\ \A b \in Addr \ {a} : heap'[b] = heap[b]
  BY <1>1, <1>2, <1>5, RemoveCount, RemoveLife
<1> QED BY <1>1, <1>2, <1>4, <1>6 DEF LifeIn, Elsewhere

\* A task takes hold of an open connection.
LEMMA TaskLife ==
    ASSUME TypeOK, Numbered, Numbered', Pipeline, ConnInv, SweepTask
    PROVE  \E a \in Addr, r \in Req :
              /\ Elsewhere(a) /\ registry' = registry
              /\ LifeIn(heap, a) = "open" /\ LifeIn(heap', a) = "open"
              /\ r \notin Outstanding(a)
              /\ Outstanding(a)' = Outstanding(a) \cup {r}
<1>0. PICK a, r : a = slots[at].client /\ r = Head(c2s[slots[at].fd])
  OBVIOUS
<1>1. heap' = Acquired(heap, a) /\ registry' = registry
  BY <1>0 DEF SweepTask
<1>2. /\ a \in Addr /\ heap[a].alloc /\ ~heap[a].dead /\ r \in Req
      /\ heap \in [Addr -> ActiveClient]
  BY <1>0, SlotOfSweep DEF TypeOK
<1>3. /\ Outstanding(a)' = Outstanding(a) \cup {r} /\ r \notin Outstanding(a)
      /\ \A b \in Addr \ {a} : Outstanding(b)' = Outstanding(b)
  BY <1>0, TaskHolders
<1>4. heap'[a].alloc /\ ~heap'[a].dead
  BY <1>1, <1>2, AcquiredEffect DEF Spares
<1>5. \A b \in Addr \ {a} : heap'[b] = heap[b]
  BY <1>1, <1>2 DEF Acquired
<1> QED BY <1>1, <1>2, <1>3, <1>4, <1>5 DEF LifeIn, Elsewhere

\* Teardown closes what is registered.
LEMMA TeardownLife ==
    ASSUME TypeOK, Numbered, Numbered', ConnInv, OpenRegistered, Teardown
    PROVE  /\ registry' = {}
           /\ \A a \in Addr :
                /\ LifeIn(heap, a) = "open" => LifeIn(heap', a) = "none"
                /\ LifeIn(heap, a) # "open" =>
                     heap'[a] = heap[a] /\ Outstanding(a)' = Outstanding(a)
<1>1. /\ registry' = {}
      /\ heap' = [a \in Addr |-> IF a \in registry THEN Freed ELSE heap[a]]
  BY DEF Teardown, FreeClients
<1>2. \A a \in Addr : Outstanding(a)' = Outstanding(a)
  BY TeardownHolders, SameOutstanding
<1>3. \A a \in Addr : a \in registry <=> LifeIn(heap, a) = "open"
  <2>1. \A a \in registry : heap[a].alloc /\ ~heap[a].dead
    BY DEF ConnInv, SlotsMatchRegistry
  <2> QED BY <2>1 DEF OpenRegistered, LifeIn
<1> QED BY <1>1, <1>2, <1>3 DEF LifeIn, Freed

\* A connection that is open is registered, after every step.
LEMMA OpenRegisteredStep ==
    ASSUME OwnInv, OwnInv', OpenRegistered, [Next]_vars
    PROVE  OpenRegistered'
<1> USE DEF OwnInv, IInv
<1>1. /\ OpenRegistered <=> \A b \in Addr : LifeIn(heap, b) = "open" => b \in registry
      /\ OpenRegistered' <=>
            \A b \in Addr : LifeIn(heap', b) = "open" => b \in registry'
  BY DEF OpenRegistered, LifeIn
<1>2. ASSUME UNCHANGED <<heap, registry>> PROVE OpenRegistered'
  BY <1>2 DEF OpenRegistered
<1>3. ASSUME NEW a \in Addr, Elsewhere(a),
             \A b \in Addr \ {a} : b \in registry => b \in registry',
             LifeIn(heap', a) = "open" => a \in registry'
      PROVE  OpenRegistered'
  BY <1>1, <1>3 DEF Elsewhere, LifeIn
<1>4. CASE MainStep
  <2>1. CASE Check \/ PollSleep \/ PollReturn \/ HskRead \/ HskEnd \/ RpcEnd
                \/ SweepNext \/ SweepIgnore \/ SweepEnd
    BY <1>2, <2>1 DEF Check, PollSleep, PollReturn, HskRead, HskEnd, RpcEnd,
       SweepNext, SweepIgnore, SweepEnd, connVars
  <2>2. ASSUME NEW r \in Req, HskDrop(r) PROVE OpenRegistered'
    BY <1>2, <2>2 DEF HskDrop
  <2>3. ASSUME NEW r \in Req, NEW a \in Addr, HskOk(r, a) PROVE OpenRegistered'
    BY <1>3, <2>3, HskOkLife
  <2>4. ASSUME NEW r \in Req, AuthOk(r) \/ RpcDone(r) PROVE OpenRegistered'
    <3>1. PICK a \in Addr :
             /\ Elsewhere(a) /\ registry' = registry /\ heap[a].alloc
             /\ heap[a].dead => LifeIn(heap', a) = Lifetime!Gone(Outstanding(a)')
      BY <2>4, AnswerLife
    <3>2. LifeIn(heap', a) = "open" => a \in registry
      BY <3>1 DEF OpenRegistered, Lifetime!Gone
    <3> QED BY <1>3, <3>1, <3>2
  <2>5. ASSUME NEW r \in Req, AuthReject(r) PROVE OpenRegistered'
    <3>1. PICK a \in Addr : /\ Elsewhere(a) /\ registry' = registry \ {a}
                            /\ LifeIn(heap', a) = "none"
      BY <2>5, RejectLife
    <3> QED BY <1>3, <3>1
  <2>6. CASE SweepHangup \/ SweepQuit
    <3>1. PICK a \in Addr : /\ Elsewhere(a) /\ registry' = registry \ {a}
                            /\ LifeIn(heap', a) = Lifetime!Gone(Outstanding(a))
      BY <2>6, SweptLife
    <3> QED BY <1>3, <3>1 DEF Lifetime!Gone
  <2>7. CASE SweepTask
    <3>1. PICK a \in Addr : /\ Elsewhere(a) /\ registry' = registry
                            /\ LifeIn(heap, a) = "open"
      BY <2>7, TaskLife
    <3> QED BY <1>1, <1>3, <3>1
  <2>8. CASE Teardown
    BY <1>1, <2>8, TeardownLife DEF LifeIn
  <2> QED BY <1>4, <2>1, <2>2, <2>3, <2>4, <2>5, <2>6, <2>7, <2>8 DEF MainStep
<1>5. ASSUME NEW w \in Worker, WorkerStep(w) PROVE UNCHANGED <<heap, registry>>
  BY <1>5 DEF WorkerStep, Dequeue, WorkerExit, FinishHandshake, FinishSilently,
     Finish, connVars
<1>6. ASSUME NEW p \in Pid, ClientStep(p) PROVE UNCHANGED <<heap, registry>>
  BY <1>6 DEF ClientStep, Sigusr1, ClientOpen, ClientAuthorised,
     ClientRead, ClientExit, ClientSend, serverVars, connVars
<1>7. CASE SigShutdown \/ UNCHANGED vars
  BY <1>2, <1>7 DEF SigShutdown, vars, connVars
<1> QED BY <1>2, <1>4, <1>5, <1>6, <1>7 DEF Next
-----------------------------------------------------------------------------
(* The invariant of the theorems about replies and lifetimes *)

\* The invariant holds when main starts.
LEMMA ReplyInvInit == Init => ReplyInv /\ Straight
<1> SUFFICES ASSUME Init PROVE ReplyInv /\ Straight
  OBVIOUS
<1>1. /\ slots = <<>> /\ hasty = {}
      /\ \A p \in Pid : /\ sent[p] = 0 /\ read[p] = 0 /\ cli[p] = "idle"
                        /\ s2c[p] = <<>>
      /\ \A a \in Addr : ~heap[a].alloc
  BY DEF Init, Freed
<1>2. RemovedGone /\ OpenRegistered
  BY <1>1 DEF RemovedGone, OpenRegistered
<1>3. SlotsOpen
  BY <1>1 DEF SlotsOpen
<1>4. Answered
  BY <1>1 DEF Answered, Expecting, Reading
<1>5. \A p \in Pid : Metered(p)
  BY <1>1, ConstantsAssumption DEF Metered
<1>6. Straight
  BY <1>1 DEF Straight
<1> QED BY <1>2, <1>3, <1>4, <1>5, <1>6, OwnInit DEF ReplyInv

\* Every step keeps it, as long as replies go straight.
LEMMA ReplyInvStep ==
    OwnClients /\ ReplyInv /\ Straight' /\ [Next]_vars => ReplyInv'
<1> SUFFICES ASSUME OwnClients, ReplyInv, Straight', [Next]_vars
             PROVE  ReplyInv'
  OBVIOUS
<1>1. /\ TypeOK /\ SignalsOnce /\ Numbered /\ Pipeline /\ ConnInv
      /\ ResultKinds /\ LoginFirst /\ References /\ CountsExact
      /\ RemovedGone /\ SlotsOpen /\ OpenRegistered /\ Answered
      /\ \A p \in Pid : Metered(p)
      /\ OwnInv
  BY DEF ReplyInv, OwnInv, IInv
<1>2. OwnInv'
  BY <1>1, OwnInvStep
<1>3. SlotsOpen'
  <2>1. NoneErr(slots')
    BY <1>1, SlotsFine DEF SlotsOpen, NoneErr
  <2> QED BY <2>1 DEF SlotsOpen, NoneErr
<1>4. RemovedGone' /\ Answered'
  BY <1>1, RemovedGoneStep, AnsweredStep
<1>5. \A p \in Pid : Metered(p)'
  BY <1>1, MeteredStep
<1>6. OpenRegistered'
  BY <1>1, <1>2, OpenRegisteredStep
<1> QED BY <1>2, <1>3, <1>4, <1>5, <1>6 DEF ReplyInv

\* A reply is written when a result is handled, and stays.
RepliesMove ==
    \/ UNCHANGED s2c
    \/ \E r \in Req : /\ AuthOk(r) \/ AuthReject(r) \/ RpcDone(r)
                      /\ \E q : s2c' = [s2c EXCEPT ![q] = Append(@, r)]

LEMMA RepliesGrow == ASSUME [Next]_vars PROVE RepliesMove
<1>1. ASSUME NEW r \in Req, AuthOk(r) \/ AuthReject(r) \/ RpcDone(r)
      PROVE  RepliesMove
  <2>1. \E h, a : Reply(h, a, r)
    BY <1>1 DEF AuthOk, AuthReject, RpcDone
  <2>2. s2c' = s2c \/ \E q : s2c' = [s2c EXCEPT ![q] = Append(@, r)]
    BY <2>1 DEF Reply, Written
  <2> QED BY <1>1, <2>2 DEF RepliesMove
<1>2. CASE MainStep
  <2>1. CASE Check \/ PollSleep \/ PollReturn \/ HskRead \/ HskEnd \/ RpcEnd
                \/ SweepNext \/ SweepHangup \/ SweepTask \/ SweepQuit
                \/ SweepIgnore \/ SweepEnd \/ Teardown
    BY <2>1 DEF Check, PollSleep, PollReturn, HskRead, HskEnd, RpcEnd,
       SweepNext, SweepHangup, SweepTask, SweepQuit, SweepIgnore, SweepEnd,
       Teardown, fifoVars, RepliesMove
  <2>2. ASSUME NEW r \in Req, (\E a \in Addr : HskOk(r, a)) \/ HskDrop(r)
        PROVE  UNCHANGED s2c
    BY <2>2 DEF HskOk, HskDrop, fifoVars
  <2>3. ASSUME UNCHANGED s2c PROVE RepliesMove
    BY <2>3 DEF RepliesMove
  <2> QED BY <1>1, <1>2, <2>1, <2>2, <2>3 DEF MainStep
<1>3. ASSUME NEW w \in Worker, WorkerStep(w) PROVE UNCHANGED s2c
  BY <1>3 DEF WorkerStep, Dequeue, WorkerExit, FinishHandshake, FinishSilently,
     Finish, fifoVars
<1>4. ASSUME NEW q \in Pid, ClientStep(q) PROVE UNCHANGED s2c
  BY <1>4 DEF ClientStep, Sigusr1, ClientOpen, ClientAuthorised,
     ClientRead, ClientExit, ClientSend, serverVars, fifoVars
<1>5. CASE SigShutdown \/ UNCHANGED vars
  BY <1>5 DEF SigShutdown, vars, fifoVars, RepliesMove
<1> QED BY <1>2, <1>3, <1>4, <1>5 DEF Next, RepliesMove

\* A reply that has gone astray is never called back.
LEMMA StraightKept == ASSUME TypeOK, [Next]_vars, Straight' PROVE Straight
<1>a. s2c \in [Pid -> Seq(Req)]
  BY DEF TypeOK
<1>1. CASE UNCHANGED s2c
  BY <1>1 DEF Straight
<1>2. ASSUME NEW r \in Req, NEW q, s2c' = [s2c EXCEPT ![q] = Append(@, r)]
      PROVE  Straight
  <2>1. \A p \in Pid : s2c'[p] = s2c[p] \/ s2c'[p] = Append(s2c[p], r)
    BY <1>a, <1>2
  <2>2. \A p \in Pid : \A i \in DOMAIN s2c[p] :
           i \in DOMAIN s2c'[p] /\ s2c'[p][i] = s2c[p][i]
    <3> SUFFICES ASSUME NEW p \in Pid, NEW i \in DOMAIN s2c[p]
                 PROVE  i \in DOMAIN s2c'[p] /\ s2c'[p][i] = s2c[p][i]
      OBVIOUS
    <3>1. s2c[p] \in Seq(Req)
      BY <1>a
    <3> QED BY <2>1, <3>1
  <2> QED BY <2>2 DEF Straight
<1> QED BY <1>1, <1>2, RepliesGrow DEF RepliesMove

\* A rule of C that has been broken stays so.
LEMMA FaultsKept == ASSUME [Next]_vars PROVE faults \subseteq faults'
<1>1. ASSUME NEW r \in Req, AuthOk(r) \/ AuthReject(r) \/ RpcDone(r)
      PROVE  faults \subseteq faults'
  BY <1>1 DEF AuthOk, AuthReject, RpcDone, Touch
<1>2. CASE MainStep
  BY <1>1, <1>2 DEF MainStep, Check, PollSleep, PollReturn, HskRead, HskEnd,
     RpcEnd, HskOk, HskDrop, SweepNext, SweepHangup, SweepTask, SweepQuit,
     SweepIgnore, SweepEnd, Teardown, connVars
<1>3. ASSUME NEW w \in Worker, WorkerStep(w) PROVE UNCHANGED faults
  BY <1>3 DEF WorkerStep, Dequeue, WorkerExit, FinishHandshake, FinishSilently,
     Finish, connVars
<1>4. ASSUME NEW p \in Pid, ClientStep(p) PROVE UNCHANGED faults
  BY <1>4 DEF ClientStep, Sigusr1, ClientOpen, ClientAuthorised,
     ClientRead, ClientExit, ClientSend, serverVars, connVars
<1>5. CASE SigShutdown \/ UNCHANGED vars
  BY <1>5 DEF SigShutdown, vars, connVars
<1> QED BY <1>2, <1>3, <1>4, <1>5 DEF Next

\* Only the use of a freed record sends a reply astray.
LEMMA StraightStep ==
    ASSUME TypeOK, Numbered, Pipeline, References, Straight, [Next]_vars,
           "use_after_free" \notin faults'
    PROVE  Straight'
<1>a. s2c \in [Pid -> Seq(Req)]
  BY DEF TypeOK
<1>1. CASE UNCHANGED s2c
  BY <1>1 DEF Straight
<1>2. ASSUME NEW r \in Req, AuthOk(r) \/ AuthReject(r) \/ RpcDone(r)
      PROVE  Straight'
  <2>0. PICK a, h, others : /\ a = owner[r] /\ h = Released(heap, a)
                            /\ Reply(h, a, r) /\ Touch(h, a, others)
    BY <1>2 DEF AuthOk, AuthReject, RpcDone
  <2>1. h[a].alloc
    BY <2>0 DEF Touch
  <2>2. a \in Addr /\ heap[a].pid = PidOf(r)
    <3>1. TakeResult(r) /\ result[r] \in Results
      BY <1>2 DEF AuthOk, AuthReject, RpcDone, Results
    <3> QED BY <2>0, <3>1, NamedByResult
  <2>3. h[a].pid = PidOf(r)
    <3>1. Evolves(heap, h)
      BY <2>0, <2>2, ReleasedEffect DEF TypeOK
    <3> QED BY <2>1, <2>2, <3>1 DEF Evolves
  <2>4. s2c' = s2c \/ s2c' = [s2c EXCEPT ![PidOf(r)] = Append(@, r)]
    BY <2>0, <2>1, <2>3 DEF Reply, Written
  <2>5. ASSUME s2c' = [s2c EXCEPT ![PidOf(r)] = Append(@, r)]
        PROVE  Straight'
    <3> SUFFICES ASSUME NEW p \in Pid, NEW i \in DOMAIN s2c'[p]
                 PROVE  PidOf(s2c'[p][i]) = p
      BY DEF Straight
    <3>1. s2c[p] \in Seq(Req)
      BY <1>a
    <3>2. CASE p = PidOf(r)
      <4>1. s2c'[p] = Append(s2c[p], r)
        BY <1>a, <2>5, <3>2
      <4>2. \/ i \in DOMAIN s2c[p] /\ s2c'[p][i] = s2c[p][i]
            \/ s2c'[p][i] = r
        BY <3>1, <4>1
      <4> QED BY <3>2, <4>2 DEF Straight
    <3>3. CASE p # PidOf(r)
      <4>1. s2c'[p] = s2c[p]
        BY <1>a, <2>5, <3>3
      <4> QED BY <4>1 DEF Straight
    <3> QED BY <3>2, <3>3
  <2> QED BY <1>1, <2>4, <2>5
<1> QED BY <1>1, <1>2, RepliesGrow DEF RepliesMove

\* Every step keeps the invariant of the server.
LEMMA ServerInvStep == OwnClients /\ ServerInv /\ [Next]_vars => ServerInv'
<1> SUFFICES ASSUME OwnClients, ServerInv, [Next]_vars PROVE ServerInv'
  OBVIOUS
<1>1. /\ TypeOK /\ SignalsOnce /\ Numbered /\ Pipeline /\ ConnInv
      /\ "use_after_free" \notin faults => Straight
      /\ Straight => ReplyInv
  BY DEF ServerInv, IInv
<1>2. IInv'
  BY <1>1, TypeStep, NumberedStep, PipelineStep, ConnStep DEF IInv
<1>3. Straight' => ReplyInv'
  BY <1>1, StraightKept, ReplyInvStep
<1>4. ASSUME "use_after_free" \notin faults' PROVE Straight'
  <2>1. Straight
    BY <1>1, <1>4, FaultsKept
  <2>2. References
    BY <1>1, <2>1 DEF ReplyInv, OwnInv
  <2> QED BY <1>1, <1>4, <2>1, <2>2, StraightStep
<1> QED BY <1>2, <1>3, <1>4 DEF ServerInv

\* With the client program of the repository all of it holds for ever, for
\* any number of clients, addresses, workers and lines, whatever the pipes
\* and FIFOs can hold and whether allocations fail or not: replies go astray
\* after a use of freed memory only, and until then the counts, the requests
\* and the replies are where they should be.
THEOREM ServerInvariance == OwnClients /\ Spec => []ServerInv
<1> SUFFICES ASSUME OwnClients PROVE Spec => []ServerInv
  OBVIOUS
<1>1. Init => ServerInv
  BY ReplyInvInit DEF ServerInv, ReplyInv, OwnInv
<1>2. ServerInv /\ [Next]_vars => ServerInv'
  BY ServerInvStep
<1> QED BY <1>1, <1>2, PTL DEF Spec

\* So the reference counts are exact, as long as replies go straight.
THEOREM RefcountCorrect == OwnClients /\ Spec => []RefcountExact
<1>1. ServerInv => RefcountExact
  BY DEF ServerInv, ReplyInv, OwnInv, RefcountExact
<1> QED BY <1>1, ServerInvariance, PTL

\* No task and no result names memory that has been freed or reused.
THEOREM NothingDangles == OwnClients /\ Spec => []NoDangling
<1>1. ASSUME ServerInv PROVE NoDangling
  <2> SUFFICES ASSUME Straight, NEW r \in Req,
                      stage[r] \in {"queued", "running", "piped"},
                      kind[r] # "HANDSHAKE"
               PROVE  heap[owner[r]].alloc /\ heap[owner[r]].pid = PidOf(r)
    BY DEF NoDangling
  <2>1. Numbered /\ Ended /\ References
    BY <1>1 DEF ServerInv, ReplyInv, OwnInv, IInv
  <2>2. pc # "done"
    BY <2>1 DEF Ended
  <2>3. owner[r] \in Addr
    BY <2>1, KindIsLine, HolderNamed DEF Holding
  <2>4. r \in Outstanding(owner[r])
    BY DEF Outstanding, Holding
  <2> QED BY <2>1, <2>2, <2>3, <2>4 DEF References
<1> QED BY <1>1, ServerInvariance, PTL

\* users.txt is consulted once for each client.
THEOREM AuthorisedAtMostOnce == OwnClients /\ Spec => []AuthorisedOnce
<1>1. ASSUME ServerInv PROVE AuthorisedOnce
  <2> SUFFICES ASSUME Straight, NEW p \in Pid
               PROVE  Cardinality({r \in Req : /\ PidOf(r) = p
                                               /\ kind[r] = "AUTHORISE"
                                               /\ result[r] # None}) <= 1
    BY DEF AuthorisedOnce
  <2> DEFINE S == {r \in Req : /\ PidOf(r) = p
                               /\ kind[r] = "AUTHORISE"
                               /\ result[r] # None}
  <2>1. Numbered /\ LoginOnce(p)
    BY <1>1 DEF ServerInv, ReplyInv, OwnInv, IInv, LoginFirst
  <2>2. \A r \in S : r = <<p, 1>>
    <3> SUFFICES ASSUME NEW r \in S PROVE r = <<p, 1>>
      OBVIOUS
    <3>1. r \in Req /\ PidOf(r) = p /\ kind[r] = "AUTHORISE" /\ result[r] # None
      OBVIOUS
    <3>2. PICK q \in Pid, n \in 1..MaxSend : r = <<q, n>>
      BY <2>1, <3>1, KindIsLine, ReqCases DEF IsLine
    <3>3. q = p
      BY <3>1, <3>2 DEF PidOf
    <3>4. n \notin 2..MaxSend
      BY <2>1, <3>1, <3>2, <3>3 DEF LoginOnce
    <3>5. n = 1
      BY <3>4, ConstantsAssumption
    <3> QED BY <3>2, <3>3, <3>5
  <2> HIDE DEF S
  <2>3. S \subseteq {<<p, 1>>}
    BY <2>2
  <2>4. IsFiniteSet({<<p, 1>>}) /\ Cardinality({<<p, 1>>}) = 1
    BY FS_Singleton
  <2>5. Cardinality(S) <= 1
    BY <2>3, <2>4, FS_Subset
  <2> QED BY <2>5 DEF S
<1> QED BY <1>1, ServerInvariance, PTL

\* Replies go to the client that asked, once, for lines that have been dealt
\* with; and a client that reads, that leaves room for its replies and that
\* has not been dismissed misses none, however full pipes and FIFOs get.
THEOREM RepliesCorrect == OwnClients /\ Spec => []RepliesToIssuer
<1>1. ASSUME ServerInv PROVE RepliesToIssuer
  <2>1. "use_after_free" \notin faults => Straight
    BY <1>1 DEF ServerInv
  <2>2. ASSUME Straight, NEW p \in Pid
        PROVE  /\ \A i \in DOMAIN s2c[p] : stage[s2c[p][i]] = "done"
               /\ \A i, j \in DOMAIN s2c[p] : s2c[p][i] = s2c[p][j] => i = j
               /\ Expecting(p) => AllAnswered(p)
    <3>1. RepliesDone(p) /\ Answered
      BY <1>1, <2>2 DEF ServerInv, ReplyInv, OwnInv, LoginFirst
    <3> QED BY <3>1 DEF RepliesDone, Answered
  <2> QED BY <2>1, <2>2 DEF RepliesToIssuer
<1> QED BY <1>1, ServerInvariance, PTL
-----------------------------------------------------------------------------
(* The registry implements the lifetime of connections *)

\* No request names a record that is not allocated, while the server runs.
LEMMA HeldWhileRunning ==
    ASSUME References, pc # "done", NEW a \in Addr
    PROVE  Held(a) = Outstanding(a)
BY DEF References, Held

\* What becomes of the abstract state when one connection moves.
LEMMA MovedConnection ==
    ASSUME NEW a \in Addr, Elsewhere(a)
    PROVE  /\ [b \in Addr |-> Conn(b)][a] = LifeIn(heap, a)
           /\ [b \in Addr |-> Held(b)][a] = Held(a)
           /\ [b \in Addr |-> Conn(b)]' =
                [[b \in Addr |-> Conn(b)] EXCEPT ![a] = LifeIn(heap', a)]
           /\ [b \in Addr |-> Held(b)]' =
                [[b \in Addr |-> Held(b)] EXCEPT ![a] = Held(a)']
           /\ LifeIn(heap', a) = LifeIn(heap, a) => UNCHANGED [b \in Addr |-> Conn(b)]
           /\ Held(a)' = Held(a) => UNCHANGED [b \in Addr |-> Held(b)]
<1>1. \A b \in Addr : Conn(b) = LifeIn(heap, b) /\ Conn(b)' = LifeIn(heap', b)
  BY DEF Conn, LifeIn
<1>2. \A b \in Addr \ {a} : Conn(b)' = Conn(b) /\ Held(b)' = Held(b)
  BY DEF Elsewhere, Conn, Held
<1>3. [b \in Addr |-> Conn(b)][a] = LifeIn(heap, a)
  BY <1>1
<1>4. [b \in Addr |-> Conn(b)]' =
         [[b \in Addr |-> Conn(b)] EXCEPT ![a] = LifeIn(heap', a)]
  BY <1>1, <1>2
<1>5. [b \in Addr |-> Held(b)]' = [[b \in Addr |-> Held(b)] EXCEPT ![a] = Held(a)']
  BY <1>2
<1>6. LifeIn(heap', a) = LifeIn(heap, a) => UNCHANGED [b \in Addr |-> Conn(b)]
  BY <1>1, <1>2
<1>7. Held(a)' = Held(a) => UNCHANGED [b \in Addr |-> Held(b)]
  BY <1>2
<1> QED BY <1>3, <1>4, <1>5, <1>6, <1>7

\* A holder lets go.
LEMMA DropConnection ==
    ASSUME NEW a \in Addr, NEW r, Elsewhere(a), r \in Held(a),
           Held(a)' = Held(a) \ {r},
           \/ LifeIn(heap, a) = "open" /\ LifeIn(heap', a) = "open"
           \/ /\ LifeIn(heap, a) # "open"
              /\ LifeIn(heap', a) = Lifetime!Gone(Held(a) \ {r})
    PROVE  Lifetime!Drop(a, r)
<1> DEFINE c == [b \in Addr |-> Conn(b)]
           h == [b \in Addr |-> Held(b)]
<1>1. c[a] = LifeIn(heap, a) /\ h[a] = Held(a) /\ h' = [h EXCEPT ![a] = Held(a)']
  BY MovedConnection
<1>2. IF c[a] = "open" THEN c' = c
      ELSE c' = [c EXCEPT ![a] = Lifetime!Gone(Held(a) \ {r})]
  BY <1>1, MovedConnection
<1>3. r \in h[a] /\ h' = [h EXCEPT ![a] = h[a] \ {r}]
  BY <1>1
<1>4. c' = IF c[a] = "open" THEN c
           ELSE [c EXCEPT ![a] = Lifetime!Gone(h[a] \ {r})]
  BY <1>1, <1>2
<1> QED BY <1>3, <1>4 DEF Lifetime!Drop

\* The holder of a connection lets go and takes it out of service.
LEMMA RefuseConnection ==
    ASSUME NEW a \in Addr, NEW r, Elsewhere(a), Held(a) = {r}, Held(a)' = {},
           LifeIn(heap', a) = "none"
    PROVE  Lifetime!Refuse(a, r)
<1> DEFINE c == [b \in Addr |-> Conn(b)]
           h == [b \in Addr |-> Held(b)]
<1>1. h[a] = {r} /\ h' = [h EXCEPT ![a] = {}] /\ c' = [c EXCEPT ![a] = "none"]
  BY MovedConnection
<1>2. h[a] \ {r} = {} /\ Lifetime!Gone(h[a] \ {r}) = "none"
  BY <1>1 DEF Lifetime!Gone
<1>3. r \in h[a] /\ h' = [h EXCEPT ![a] = h[a] \ {r}]
  BY <1>1, <1>2
<1>4. c' = [c EXCEPT ![a] = Lifetime!Gone(h[a] \ {r})]
  BY <1>1, <1>2
<1> QED BY <1>3, <1>4 DEF Lifetime!Refuse

\* A connection is taken out of service.
LEMMA RetireConnection ==
    ASSUME NEW a \in Addr, Elsewhere(a), LifeIn(heap, a) = "open",
           LifeIn(heap', a) = Lifetime!Gone(Held(a)), Held(a)' = Held(a)
    PROVE  Lifetime!Retire(a)
<1> DEFINE c == [b \in Addr |-> Conn(b)]
           h == [b \in Addr |-> Held(b)]
<1>1. c[a] = "open" /\ h[a] = Held(a) /\ h' = h
      /\ c' = [c EXCEPT ![a] = Lifetime!Gone(Held(a))]
  BY MovedConnection
<1>2. c' = [c EXCEPT ![a] = Lifetime!Gone(h[a])]
  BY <1>1
<1> QED BY <1>1, <1>2 DEF Lifetime!Retire

\* A step that moves no holder and no record is none of the abstract ones.
LEMMA CalmLife ==
    ASSUME Numbered, Numbered', CalmStep
    PROVE  UNCHANGED Lifetime!vars
<1>1. \A a \in Addr : Conn(a)' = Conn(a) /\ Held(a)' = Held(a)
  BY SameOutstanding DEF CalmStep, Conn, Held
<1> QED BY <1>1 DEF Lifetime!vars

\* Every step of the server is a step in the life of one connection, of all
\* that are open, or of none.
LEMMA StepImplements ==
    ReplyInv /\ ReplyInv' /\ [Next]_vars => [Lifetime!Next]_(Lifetime!vars)
<1> SUFFICES ASSUME ReplyInv, ReplyInv', [Next]_vars
             PROVE  [Lifetime!Next]_(Lifetime!vars)
  OBVIOUS
<1>1. /\ TypeOK /\ SignalsOnce /\ Numbered /\ Numbered' /\ Pipeline /\ ConnInv
      /\ ResultKinds /\ LoginFirst /\ References /\ References' /\ CountsExact
      /\ OpenRegistered
  BY DEF ReplyInv, OwnInv, IInv
<1>2. ASSUME CalmStep PROVE [Lifetime!Next]_(Lifetime!vars)
  BY <1>1, <1>2, CalmLife
<1>3. ASSUME NEW a \in Addr, pc # "done", pc' # "done"
      PROVE  Held(a) = Outstanding(a) /\ Held(a)' = Outstanding(a)'
  <2>1. Held(a) = Outstanding(a)
    BY <1>1, <1>3, HeldWhileRunning
  <2>2. Held(a)' = Outstanding(a)'
    BY <1>1, <1>3 DEF References, Held
  <2> QED BY <2>1, <2>2
<1>4. ASSUME NEW r \in Req, TakeResult(r) /\ (pc' = pc \/ pc' = "fault")
      PROVE  pc # "done" /\ pc' # "done"
  BY <1>4 DEF TakeResult
<1>5. CASE MainStep
  <2>1. CASE Check \/ PollSleep \/ PollReturn \/ HskRead \/ HskEnd \/ RpcEnd
                \/ SweepNext \/ SweepIgnore \/ SweepEnd
    BY <1>1, <1>2, <2>1, MainCalm
  <2>2. ASSUME NEW r \in Req, HskDrop(r) PROVE CalmStep
    BY <1>1, <2>2, MainCalm
  <2>3. ASSUME NEW r \in Req, NEW a \in Addr, HskOk(r, a)
        PROVE  Lifetime!Open(a)
    <3>1. /\ Elsewhere(a) /\ Outstanding(a) = {} /\ Outstanding(a)' = {}
          /\ LifeIn(heap, a) = "none" /\ LifeIn(heap', a) = "open"
      BY <1>1, <2>3, HskOkLife
    <3>2. pc # "done" /\ pc' # "done"
      BY <1>4, <2>3 DEF HskOk
    <3>3. Held(a) = {} /\ Held(a)' = {}
      BY <1>3, <3>1, <3>2
    <3> QED BY <3>1, <3>3, MovedConnection DEF Lifetime!Open
  <2>4. ASSUME NEW r \in Req, AuthOk(r) \/ RpcDone(r)
        PROVE  \E a \in Addr : Lifetime!Drop(a, r)
    <3>1. PICK a \in Addr :
              /\ Elsewhere(a) /\ r \in Outstanding(a) /\ heap[a].alloc
              /\ Outstanding(a)' = Outstanding(a) \ {r}
              /\ heap[a].dead => LifeIn(heap', a) = Lifetime!Gone(Outstanding(a)')
              /\ ~heap[a].dead => LifeIn(heap', a) = "open"
      BY <1>1, <2>4, AnswerLife
    <3>2. pc # "done" /\ pc' # "done"
      BY <1>4, <2>4 DEF AuthOk, RpcDone, Touch, TakeResult
    <3>3. Held(a) = Outstanding(a) /\ Held(a)' = Held(a) \ {r}
      BY <1>3, <3>1, <3>2
    <3>4. \/ LifeIn(heap, a) = "open" /\ LifeIn(heap', a) = "open"
          \/ /\ LifeIn(heap, a) # "open"
             /\ LifeIn(heap', a) = Lifetime!Gone(Held(a) \ {r})
      BY <3>1, <3>3 DEF LifeIn
    <3> QED BY <3>1, <3>3, <3>4, DropConnection
  <2>5. ASSUME NEW r \in Req, AuthReject(r)
        PROVE  \E a \in Addr : Lifetime!Refuse(a, r)
    <3>1. PICK a \in Addr :
              /\ Elsewhere(a) /\ Outstanding(a) = {r} /\ heap[a].alloc
              /\ Outstanding(a)' = {} /\ LifeIn(heap', a) = "none"
      BY <1>1, <2>5, RejectLife
    <3>2. pc # "done" /\ pc' # "done"
      BY <1>4, <2>5 DEF AuthReject, Touch, TakeResult
    <3>3. Held(a) = {r} /\ Held(a)' = {}
      BY <1>3, <3>1, <3>2
    <3> QED BY <3>1, <3>3, RefuseConnection
  <2>6. CASE SweepHangup \/ SweepQuit
    <3>1. PICK a \in Addr :
              /\ Elsewhere(a) /\ LifeIn(heap, a) = "open"
              /\ Outstanding(a)' = Outstanding(a)
              /\ LifeIn(heap', a) = Lifetime!Gone(Outstanding(a))
      BY <1>1, <2>6, SweptLife
    <3>2. pc # "done" /\ pc' # "done"
      BY <2>6 DEF SweepHangup, SweepQuit, AtLine, AtSlot
    <3>3. Held(a) = Outstanding(a) /\ Held(a)' = Held(a)
      BY <1>3, <3>1, <3>2
    <3>4. Lifetime!Retire(a)
      BY <3>1, <3>3, RetireConnection
    <3> QED BY <3>4 DEF Lifetime!Next
  <2>7. CASE SweepTask
    <3>1. PICK a \in Addr, r \in Req :
              /\ Elsewhere(a)
              /\ LifeIn(heap, a) = "open" /\ LifeIn(heap', a) = "open"
              /\ r \notin Outstanding(a)
              /\ Outstanding(a)' = Outstanding(a) \cup {r}
      BY <1>1, <2>7, TaskLife
    <3>2. pc # "done" /\ pc' # "done"
      BY <2>7 DEF SweepTask, AtLine, AtSlot
    <3>3. Held(a) = Outstanding(a) /\ Held(a)' = Held(a) \cup {r}
      BY <1>3, <3>1, <3>2
    <3>4. Lifetime!Hold(a, r)
      BY <3>1, <3>3, MovedConnection DEF Lifetime!Hold
    <3> QED BY <3>4 DEF Lifetime!Next
  <2>8. CASE Teardown
    <3>1. \A a \in Addr :
             /\ LifeIn(heap, a) = "open" => LifeIn(heap', a) = "none"
             /\ LifeIn(heap, a) # "open" =>
                   heap'[a] = heap[a] /\ Outstanding(a)' = Outstanding(a)
      BY <1>1, <2>8, TeardownLife
    <3>2. \A a \in Addr :
             /\ Conn(a)' = IF Conn(a) = "open" THEN "none" ELSE Conn(a)
             /\ Held(a)' = IF Conn(a) = "open" THEN {} ELSE Held(a)
      BY <3>1 DEF Conn, Held, LifeIn
    <3>3. Lifetime!Shutdown
      BY <3>2 DEF Lifetime!Shutdown
    <3> QED BY <3>3 DEF Lifetime!Next
  <2> QED BY <1>2, <1>5, <2>1, <2>2, <2>3, <2>4, <2>5, <2>6, <2>7, <2>8
          DEF MainStep, Lifetime!Next
<1>6. ASSUME NEW w \in Worker, WorkerStep(w) PROVE CalmStep
  BY <1>1, <1>6, WorkersCalm
<1>7. ASSUME NEW p \in Pid, ClientStep(p) PROVE CalmStep
  BY <1>1, <1>7, ClientsCalm
<1>8. CASE SigShutdown \/ UNCHANGED vars
  BY <1>2, <1>8 DEF SigShutdown, vars, CalmStep, SameHolders, connVars,
     reqVars, reqInfo
<1> QED BY <1>2, <1>5, <1>6, <1>7, <1>8 DEF Next

\* The registry with its counts implements the lifetime of connections: an
\* ActiveClient is freed by the release that drops the last reference to a
\* removed client, and by nothing else before the server ends, as long as
\* replies go straight.
THEOREM LifetimeRefined == OwnClients /\ Spec => ImplementsLifetime
<1> SUFFICES ASSUME OwnClients PROVE Spec => ImplementsLifetime
  OBVIOUS
<1>1. ASSUME Init PROVE Lifetime!Init
  <2>1. \A a \in Addr : ~heap[a].alloc
    BY <1>1 DEF Init, Freed
  <2> QED BY <2>1 DEF Lifetime!Init, Conn, Held
<1>2. ASSUME ServerInv, ServerInv', [Next]_vars
      PROVE  [Straight' => Lifetime!Next]_(Lifetime!vars)
  <2>1. CASE Straight'
    <3>1. Straight
      BY <1>2, <2>1, StraightKept DEF ServerInv, IInv
    <3>2. ReplyInv /\ ReplyInv'
      BY <1>2, <2>1, <3>1 DEF ServerInv
    <3> QED BY <1>2, <3>2, StepImplements
  <2> QED BY <2>1
<1> QED BY <1>1, <1>2, ServerInvariance, PTL DEF Spec, ImplementsLifetime
-----------------------------------------------------------------------------
(* The order of the replies: lines are read and taken in the order they   *)
(* were written, and only the workers let replies overtake one another.   *)

\* What client p writes is on its way afterwards, and nothing else of it moves.
LEMMA SendStage ==
    ASSUME TypeOK, NEW p \in Pid, NEW k \in Commands, ClientSend(p, k)
    PROVE  /\ sent'[p] = sent[p] + 1
           /\ \A n \in 1..MaxSend :
                 IF n = sent[p] + 1
                 THEN stage'[<<p, n>>] = "sent" /\ kind'[<<p, n>>] = k
                 ELSE /\ stage'[<<p, n>>] = stage[<<p, n>>]
                      /\ kind'[<<p, n>>] = kind[<<p, n>>]
<1>1. /\ sent[p] \in 0..MaxSend /\ MaxSend \in Nat /\ sent[p] < MaxSend
      /\ sent \in [Pid -> 0..MaxSend] /\ stage \in [Req -> Stages]
      /\ kind \in [Req -> LineKinds \cup {"HANDSHAKE"}]
  BY ConstantsAssumption DEF TypeOK, ClientSend
<1>2. PICK m : m = sent[p] + 1
  OBVIOUS
<1>3. /\ sent' = [sent EXCEPT ![p] = m]
      /\ stage' = [stage EXCEPT ![<<p, m>>] = "sent"]
      /\ kind' = [kind EXCEPT ![<<p, m>>] = k]
  BY <1>1, <1>2 DEF ClientSend
<1>4. \A n \in 1..MaxSend : <<p, n>> \in Req
  BY <1>1 DEF Req
<1>5. ASSUME NEW n \in 1..MaxSend
      PROVE  IF n = m THEN stage'[<<p, n>>] = "sent" /\ kind'[<<p, n>>] = k
             ELSE /\ stage'[<<p, n>>] = stage[<<p, n>>]
                  /\ kind'[<<p, n>>] = kind[<<p, n>>]
  <2>1. n # m => <<p, n>> # <<p, m>>
    OBVIOUS
  <2> QED BY <1>1, <1>3, <1>4, <2>1
<1>6. sent'[p] = m
  BY <1>1, <1>3
<1> QED BY <1>2, <1>5, <1>6

\* A Disconnect never becomes a task.
LEMMA DisconnectNoTask ==
    ASSUME TypeOK, SignalsOnce, Numbered, Pipeline, [Next]_vars, NEW r \in Req,
           IsLine(r), stage[r] = "sent", kind[r] = "DISCONNECT"
    PROVE  stage'[r] \in {"sent", "done"}
<1>1. Ladder(r) /\ FromFifo(r)
  BY RequestStep DEF OneStep
<1>2. stage \in [Req -> Stages]
  BY DEF TypeOK
<1>3. CASE (SweepTask \/ SweepQuit \/ SweepIgnore) /\ r = Head(c2s[slots[at].fd])
  <2>1. ~SweepTask
    BY <1>3 DEF SweepTask
  <2>2. stage' = [stage EXCEPT ![r] = "done"]
    BY <1>3, <2>1 DEF SweepQuit, SweepIgnore
  <2> QED BY <1>2, <2>2
<1>4. CASE ~((SweepTask \/ SweepQuit \/ SweepIgnore) /\ r = Head(c2s[slots[at].fd]))
  BY <1>1, <1>4 DEF Ladder, FromFifo
<1> QED BY <1>3, <1>4

\* A line behind all others of its client may be put at the end.
LEMMA InOrderAppend ==
    ASSUME NEW q \in Seq(Req), NEW p, InOrder(q, p), NEW r \in Req,
           \A i \in DOMAIN q : \A n, m \in 1..MaxSend :
               r = <<p, n>> /\ q[i] = <<p, m>> => ~(n < m)
    PROVE  InOrder(Append(q, r), p)
<1> DEFINE a == Append(q, r)
<1>1. \A i \in DOMAIN a : \/ i \in DOMAIN q /\ a[i] = q[i]
                          \/ i = Len(q) + 1 /\ a[i] = r
  OBVIOUS
<1>2. Len(q) \in Nat /\ DOMAIN q = 1..Len(q)
  OBVIOUS
<1>3. MaxSend \in Nat
  BY ConstantsAssumption
<1> HIDE DEF a
<1>4. SUFFICES ASSUME NEW i \in DOMAIN a, NEW j \in DOMAIN a,
                      NEW n \in 1..MaxSend, NEW m \in 1..MaxSend,
                      a[i] = <<p, n>>, a[j] = <<p, m>>, n < m
               PROVE  i < j
  BY DEF InOrder, a
<1>5. CASE i \in DOMAIN q /\ a[i] = q[i]
  <2>1. CASE j \in DOMAIN q /\ a[j] = q[j]
    BY <1>4, <1>5, <2>1 DEF InOrder
  <2>2. CASE j = Len(q) + 1 /\ a[j] = r
    BY <1>2, <1>5, <2>2
  <2> QED BY <1>1, <2>1, <2>2
<1>6. CASE i = Len(q) + 1 /\ a[i] = r
  <2>1. CASE j \in DOMAIN q /\ a[j] = q[j]
    BY <1>4, <1>6, <2>1
  <2>2. CASE j = Len(q) + 1 /\ a[j] = r
    <3>1. n = m
      BY <1>4, <1>6, <2>2
    <3> QED BY <1>3, <1>4, <3>1
  <2> QED BY <1>1, <2>1, <2>2
<1> QED BY <1>1, <1>5, <1>6

\* The elements of a sequence that is not empty, without the first.
LEMMA TailAt ==
    ASSUME NEW S, NEW q \in Seq(S), q # <<>>
    PROVE  /\ \A i \in DOMAIN Tail(q) : i \in Nat /\ i + 1 \in DOMAIN q /\ Tail(q)[i] = q[i + 1]
           /\ \A i \in DOMAIN q : i # 1 => i - 1 \in DOMAIN Tail(q) /\ Tail(q)[i - 1] = q[i]
OBVIOUS

\* Without its first element a queue keeps its order, and the first is the
\* oldest.
LEMMA InOrderTail ==
    ASSUME NEW q \in Seq(Req), q # <<>>, NEW p, InOrder(q, p)
    PROVE  /\ InOrder(Tail(q), p)
           /\ \A i \in DOMAIN q : \A n, m \in 1..MaxSend :
                 Head(q) = <<p, m>> /\ q[i] = <<p, n>> => ~(n < m)
<1>1. \A i \in DOMAIN Tail(q) : i \in Nat /\ i + 1 \in DOMAIN q /\ Tail(q)[i] = q[i + 1]
  BY TailAt
<1>2. 1 \in DOMAIN q /\ Head(q) = q[1] /\ DOMAIN q \subseteq Nat \ {0}
  OBVIOUS
<1>3. ASSUME NEW i \in DOMAIN Tail(q), NEW j \in DOMAIN Tail(q),
             NEW n \in 1..MaxSend, NEW m \in 1..MaxSend,
             Tail(q)[i] = <<p, n>>, Tail(q)[j] = <<p, m>>, n < m
      PROVE  i < j
  <2>1. /\ i + 1 \in DOMAIN q /\ q[i + 1] = <<p, n>> /\ i \in Nat
        /\ j + 1 \in DOMAIN q /\ q[j + 1] = <<p, m>> /\ j \in Nat
    BY <1>1, <1>3
  <2>2. i + 1 < j + 1
    BY <1>3, <2>1 DEF InOrder
  <2> QED BY <2>1, <2>2
<1>4. InOrder(Tail(q), p)
  BY <1>3 DEF InOrder
<1>5. ASSUME NEW i \in DOMAIN q, NEW n \in 1..MaxSend, NEW m \in 1..MaxSend,
             Head(q) = <<p, m>>, q[i] = <<p, n>>, n < m
      PROVE  FALSE
  <2>1. i < 1
    BY <1>2, <1>5 DEF InOrder
  <2> QED BY <1>2, <2>1
<1> QED BY <1>4, <1>5

\* Nothing is out of order in an empty queue.
LEMMA InOrderEmpty == \A p : InOrder(<<>>, p)
BY DEF InOrder

\* Writing the reply to the oldest result, or none, puts nothing behind
\* anything else.
LEMMA BehindTail ==
    ASSUME NEW q \in Seq(Req), q # <<>>, NEW s \in Seq(Req), NEW t,
           t = s \/ t = Append(s, Head(q)), NEW x, NEW y
    PROVE  /\ Behind(t, Tail(q), x, y) => Behind(s, q, x, y)
           /\ Reported(t, Tail(q), x) => Reported(s, q, x)
<1>1. \A i \in DOMAIN Tail(q) : i \in Nat /\ i + 1 \in DOMAIN q /\ Tail(q)[i] = q[i + 1]
  BY TailAt
<1>2. 1 \in DOMAIN q /\ Head(q) = q[1] /\ DOMAIN q \subseteq Nat \ {0}
  OBVIOUS
<1>3. \A i \in DOMAIN t : \/ i \in DOMAIN s /\ t[i] = s[i]
                          \/ i = Len(s) + 1 /\ t[i] = q[1]
  BY <1>2
<1>4. Len(s) \in Nat /\ DOMAIN s = 1..Len(s)
  OBVIOUS
<1>5. ASSUME NEW i \in DOMAIN Tail(q), NEW j \in DOMAIN Tail(q),
             Tail(q)[i] = x, Tail(q)[j] = y, i < j
      PROVE  Behind(s, q, x, y)
  <2>1. /\ q[i + 1] = x /\ i + 1 \in DOMAIN q /\ q[j + 1] = y
        /\ j + 1 \in DOMAIN q /\ i + 1 < j + 1
    BY <1>1, <1>5
  <2> QED BY <2>1 DEF Behind
<1>6. ASSUME NEW i \in DOMAIN t, NEW j \in DOMAIN Tail(q), t[i] = x, Tail(q)[j] = y
      PROVE  Behind(s, q, x, y)
  <2>1. q[j + 1] = y /\ j + 1 \in DOMAIN q /\ 1 < j + 1
    BY <1>1, <1>2, <1>6
  <2>2. CASE i \in DOMAIN s /\ t[i] = s[i]
    BY <1>6, <2>1, <2>2 DEF Behind
  <2>3. CASE t[i] = q[1]
    BY <1>2, <1>6, <2>1, <2>3 DEF Behind
  <2> QED BY <1>3, <2>2, <2>3
<1>7. ASSUME NEW i \in DOMAIN t, NEW j \in DOMAIN t, t[i] = x, t[j] = y, i < j
      PROVE  Behind(s, q, x, y)
  <2>1. i \in DOMAIN s /\ t[i] = s[i]
    <3>1. CASE i = Len(s) + 1
      <4>1. j \in DOMAIN s \/ j = Len(s) + 1
        BY <1>3
      <4> QED BY <1>4, <1>7, <3>1, <4>1
    <3> QED BY <1>3, <3>1
  <2>2. CASE j \in DOMAIN s /\ t[j] = s[j]
    BY <1>7, <2>1, <2>2 DEF Behind
  <2>3. CASE t[j] = q[1]
    BY <1>2, <1>7, <2>1, <2>3 DEF Behind
  <2> QED BY <1>3, <2>2, <2>3
<1>8. Reported(t, Tail(q), x) => Reported(s, q, x)
  BY <1>1, <1>2, <1>3 DEF Reported
<1> QED BY <1>5, <1>6, <1>7, <1>8 DEF Behind

\* A new result comes after all others.
LEMMA BehindAppend ==
    ASSUME NEW q \in Seq(Req), NEW s, NEW r \in Req, NEW x, NEW y
    PROVE  /\ Behind(s, Append(q, r), x, y) => Behind(s, q, x, y) \/ y = r
           /\ Reported(s, Append(q, r), x) => Reported(s, q, x) \/ x = r
           /\ Behind(s, Append(q, r), x, y) => Reported(s, q, x)
<1> DEFINE a == Append(q, r)
<1>1. \A i \in DOMAIN a : \/ i \in DOMAIN q /\ a[i] = q[i]
                          \/ i = Len(q) + 1 /\ a[i] = r
  OBVIOUS
<1>2. Len(q) \in Nat /\ DOMAIN q = 1..Len(q) /\ DOMAIN a = 1..Len(q) + 1
  OBVIOUS
<1> HIDE DEF a
<1>3. ASSUME NEW i \in DOMAIN a, NEW j \in DOMAIN a, a[i] = x, a[j] = y, i < j
      PROVE  (Behind(s, q, x, y) \/ y = r) /\ Reported(s, q, x)
  <2>1. i \in DOMAIN q /\ a[i] = q[i]
    BY <1>1, <1>2, <1>3
  <2>2. Reported(s, q, x)
    BY <1>3, <2>1 DEF Reported
  <2>3. CASE j \in DOMAIN q /\ a[j] = q[j]
    BY <1>3, <2>1, <2>2, <2>3 DEF Behind
  <2>4. CASE a[j] = r
    BY <1>3, <2>2, <2>4
  <2> QED BY <1>1, <2>3, <2>4
<1>4. ASSUME NEW i \in DOMAIN s, NEW j \in DOMAIN a, s[i] = x, a[j] = y
      PROVE  (Behind(s, q, x, y) \/ y = r) /\ Reported(s, q, x)
  <2>1. Reported(s, q, x)
    BY <1>4 DEF Reported
  <2>2. CASE j \in DOMAIN q /\ a[j] = q[j]
    BY <1>4, <2>1, <2>2 DEF Behind
  <2>3. CASE a[j] = r
    BY <1>4, <2>1, <2>3
  <2> QED BY <1>1, <2>2, <2>3
<1>5. ASSUME NEW i \in DOMAIN s, NEW j \in DOMAIN s, s[i] = x, s[j] = y, i < j
      PROVE  Behind(s, q, x, y) /\ Reported(s, q, x)
  BY <1>5 DEF Behind, Reported
<1>6. Reported(s, a, x) => Reported(s, q, x) \/ x = r
  BY <1>1 DEF Reported
<1> QED BY <1>3, <1>4, <1>5, <1>6 DEF Behind, a

\* Results that are dropped are behind nothing.
LEMMA BehindEmpty ==
    ASSUME NEW s, NEW q, NEW x, NEW y
    PROVE  /\ Behind(s, <<>>, x, y) => Behind(s, q, x, y)
           /\ Reported(s, <<>>, x) => Reported(s, q, x)
BY DEF Behind, Reported
-----------------------------------------------------------------------------
(* The FIFOs *)

\* What a step does to the FIFO of p.
FifoMove(p) ==
    \/ c2s'[p] = c2s[p] /\ sfd'[p] = sfd[p]
    \/ c2s'[p] = <<>> /\ sfd'[p] = FALSE
    \/ /\ c2s[p] # <<>> /\ c2s'[p] = Tail(c2s[p]) /\ sfd'[p] = sfd[p]
       /\ stage'[Head(c2s[p])] # "sent"
    \/ c2s'[p] = c2s[p] /\ cli[p] = "syn"

\* Freeing clients closes some FIFOs and leaves the others alone.
LEMMA FreedFifo ==
    ASSUME TypeOK, NEW h, NEW lines, FreeClients(h, lines), NEW p \in Pid
    PROVE  \/ c2s'[p] = lines[p] /\ sfd'[p] = sfd[p]
           \/ c2s'[p] = <<>> /\ sfd'[p] = FALSE
<1>1. sfd[p] \in BOOLEAN
  BY DEF TypeOK
<1>2. PICK o \in BOOLEAN : /\ o => sfd[p]
                           /\ sfd'[p] = o
                           /\ c2s'[p] = IF o THEN lines[p] ELSE <<>>
  BY DEF FreeClients
<1> QED BY <1>1, <1>2

\* A step moves the FIFO of p as above, or p writes a line.
LEMMA FifoStep ==
    ASSUME TypeOK, Numbered, Pipeline, ConnInv, [Next]_vars, NEW p \in Pid
    PROVE  FifoMove(p) \/ \E k \in Commands : ClientSend(p, k)
<1>a. /\ c2s \in [Pid -> Seq(Req)] /\ sfd \in [Pid -> BOOLEAN]
      /\ stage \in [Req -> Stages]
  BY DEF TypeOK
<1>1. ASSUME UNCHANGED <<c2s, sfd>> PROVE FifoMove(p)
  BY <1>1 DEF FifoMove
<1>2. ASSUME NEW h, FreeClients(h, c2s) PROVE FifoMove(p)
  BY <1>2, FreedFifo DEF FifoMove
<1>3. ASSUME NEW r \in Req,
             (\E a \in Addr : HskOk(r, a)) \/ HskDrop(r) \/ AuthOk(r)
                \/ AuthReject(r) \/ RpcDone(r)
      PROVE  FifoMove(p)
  <2>1. CASE \E a \in Addr : HskOk(r, a)
    BY <1>1, <2>1 DEF HskOk, fifoVars
  <2>2. CASE HskDrop(r)
    <3>1. /\ sfd' = [sfd EXCEPT ![PidOf(r)] = FALSE]
          /\ c2s' = [c2s EXCEPT ![PidOf(r)] = <<>>]
      BY <2>2 DEF HskDrop
    <3> QED BY <1>a, <3>1 DEF FifoMove
  <2>3. CASE AuthOk(r) \/ AuthReject(r) \/ RpcDone(r)
    <3>1. \E h : FreeClients(h, c2s)
      BY <2>3 DEF AuthOk, AuthReject, RpcDone
    <3> QED BY <1>2, <3>1
  <2> QED BY <1>3, <2>1, <2>2, <2>3
<1>4. CASE SweepTask \/ SweepQuit \/ SweepIgnore
  <2>1. PICK q : q = slots[at].fd
    OBVIOUS
  <2>2. q \in Pid /\ c2s[q] # <<>> /\ Head(c2s[q]) \in Req
    BY <1>4, <2>1, SlotOfSweep
  <2>3. PICK r : r = Head(c2s[q])
    OBVIOUS
  <2>4. stage'[r] # "sent"
    <3>1. \E s \in {"queued", "lost", "done"} : stage' = [stage EXCEPT ![r] = s]
      BY <1>4, <2>1, <2>3 DEF SweepTask, SweepQuit, SweepIgnore
    <3> QED BY <1>a, <2>2, <2>3, <3>1
  <2>5. PICK lines : lines = [c2s EXCEPT ![q] = Tail(@)]
    OBVIOUS
  <2>6. \/ c2s' = lines /\ sfd' = sfd
        \/ \E h : FreeClients(h, lines)
    BY <1>4, <2>1, <2>5 DEF SweepTask, SweepQuit, SweepIgnore, RemoveSwept,
       connVars
  <2>7. \/ c2s'[p] = lines[p] /\ sfd'[p] = sfd[p]
        \/ c2s'[p] = <<>> /\ sfd'[p] = FALSE
    BY <2>6, FreedFifo
  <2>8. CASE p = q
    <3>1. lines[p] = Tail(c2s[p])
      BY <1>a, <2>5, <2>8
    <3> QED BY <2>2, <2>3, <2>4, <2>7, <2>8, <3>1 DEF FifoMove
  <2>9. CASE p # q
    <3>1. lines[p] = c2s[p]
      BY <1>a, <2>5, <2>9
    <3> QED BY <2>7, <3>1 DEF FifoMove
  <2> QED BY <2>8, <2>9
<1>5. CASE MainStep
  <2>1. CASE Check \/ PollSleep \/ PollReturn \/ HskRead \/ HskEnd \/ RpcEnd
                \/ SweepEnd \/ SweepNext
    BY <1>1, <2>1 DEF Check, PollSleep, PollReturn, HskRead, HskEnd, RpcEnd,
       SweepEnd, SweepNext, connVars, fifoVars
  <2>2. CASE SweepHangup
    BY <1>2, <2>2 DEF SweepHangup, RemoveSwept
  <2>3. CASE Teardown
    BY <1>2, <2>3 DEF Teardown
  <2> QED BY <1>3, <1>4, <1>5, <2>1, <2>2, <2>3 DEF MainStep
<1>6. ASSUME NEW w \in Worker, WorkerStep(w) PROVE FifoMove(p)
  <2>1. CASE FinishHandshake(w)
    <3>1. /\ c2s' = c2s /\ sfd' = [sfd EXCEPT ![PidOf(work[w])] = TRUE]
          /\ cli[PidOf(work[w])] = "syn"
      BY <2>1 DEF FinishHandshake, fifoVars
    <3> QED BY <1>a, <3>1 DEF FifoMove
  <2>2. CASE ~FinishHandshake(w)
    BY <1>1, <1>6, <2>2 DEF WorkerStep, Dequeue, WorkerExit, FinishSilently,
       Finish, connVars, fifoVars
  <2> QED BY <2>1, <2>2
<1>7. ASSUME NEW q \in Pid, ClientStep(q)
      PROVE  FifoMove(p) \/ \E k \in Commands : ClientSend(p, k)
  <2>1. CASE Sigusr1(q) \/ ClientOpen(q) \/ ClientAuthorised(q)
             \/ ClientRead(q) \/ ClientExit(q)
    BY <1>1, <2>1 DEF Sigusr1, ClientOpen, ClientAuthorised,
       ClientRead, ClientExit, serverVars, connVars, fifoVars
  <2>2. ASSUME NEW k \in Commands, ClientSend(q, k), q # p PROVE FifoMove(p)
    <3>1. sfd' = sfd /\ c2s'[p] = c2s[p]
      BY <1>a, <2>2 DEF ClientSend, serverVars, connVars
    <3> QED BY <3>1 DEF FifoMove
  <2> QED BY <1>7, <2>1, <2>2 DEF ClientStep
<1>8. CASE SigShutdown \/ UNCHANGED vars
  BY <1>1, <1>8 DEF SigShutdown, vars, connVars, fifoVars
<1> QED BY <1>5, <1>6, <1>7, <1>8 DEF Next

\* The lines of p that a step moves: only p writes them, and only the server
\* reads them, the first one of the FIFO each time.
LEMMA LineStep ==
    ASSUME OwnClients, OwnInv, Numbered', NEW p \in Pid, FifoOrder(p),
           [Next]_vars, NEW n \in 1..MaxSend
    PROVE  /\ n <= sent'[p] => stage'[<<p, n>>] # "none"
           /\ stage'[<<p, n>>] = "sent" /\ stage[<<p, n>>] # "sent" =>
                 \E k \in Commands : /\ ClientSend(p, k) /\ n = sent[p] + 1
                                     /\ stage[<<p, n>>] = "none"
           /\ stage[<<p, n>>] \in {"none", "sent"}
                 /\ stage'[<<p, n>>] \notin {"none", "sent"}
              => c2s[p] # <<>> /\ <<p, n>> = Head(c2s[p])
<1>0. PICK r : r = <<p, n>>
  OBVIOUS
<1>1. /\ r \in Req /\ IsLine(r) /\ PidOf(r) = p
      /\ sent[p] \in 0..MaxSend /\ MaxSend \in Nat /\ stage \in [Req -> Stages]
  BY <1>0, ConstantsAssumption, SMTT(30) DEF OwnInv, IInv, TypeOK, Req, IsLine, PidOf
<1>2. Ladder(r) /\ FromFifo(r)
  BY <1>1, RequestStep DEF OneStep, OwnInv, IInv
<1>3. /\ n <= sent[p] => stage[r] # "none"
      /\ n > sent[p] => stage[r] = "none"
      /\ n > sent'[p] => stage'[r] = "none"
  BY <1>0 DEF FifoOrder, OwnInv, IInv, Numbered
<1>4. ASSUME NEW k \in Commands, ClientSend(p, k)
      PROVE  /\ sent'[p] = sent[p] + 1
             /\ n = sent[p] + 1 => stage'[r] = "sent" /\ stage[r] = "none"
             /\ n # sent[p] + 1 => stage'[r] = stage[r]
  <2>1. /\ sent'[p] = sent[p] + 1
        /\ IF n = sent[p] + 1 THEN stage'[r] = "sent" ELSE stage'[r] = stage[r]
    BY <1>0, <1>4, SendStage DEF OwnInv, IInv
  <2> QED BY <1>1, <1>3, <2>1
<1>5. ASSUME ~(\E k \in Commands : ClientSend(p, k))
      PROVE  sent'[p] = sent[p]
  BY <1>5, OwnClientStep DEF OwnStep, OwnInv, IInv
<1>6. n <= sent'[p] => stage'[r] # "none"
  <2>1. stage[r] # "none" => stage'[r] # "none"
    BY <1>2 DEF Ladder
  <2>2. CASE \E k \in Commands : ClientSend(p, k)
    BY <1>1, <1>3, <1>4, <2>2
  <2>3. CASE ~(\E k \in Commands : ClientSend(p, k))
    BY <1>3, <1>5, <2>1, <2>3
  <2> QED BY <2>2, <2>3
<1>7. ASSUME stage'[r] = "sent", stage[r] # "sent"
      PROVE  \E k \in Commands : /\ ClientSend(p, k) /\ n = sent[p] + 1
                                 /\ stage[r] = "none"
  <2>1. stage[r] = "none"
    BY <1>2, <1>7 DEF Ladder
  <2>2. PICK k \in Commands : ClientSend(p, k)
    BY <1>1, <1>3, <1>5, <1>7, <2>1 DEF OwnInv, IInv, TypeOK
  <2> QED BY <1>4, <1>7, <2>1, <2>2
<1>8. ASSUME stage[r] \in {"none", "sent"}, stage'[r] \notin {"none", "sent"}
      PROVE  c2s[p] # <<>> /\ r = Head(c2s[p])
  <2>1. (SweepTask \/ SweepQuit \/ SweepIgnore) /\ r = Head(c2s[slots[at].fd])
    BY <1>1, <1>2, <1>8 DEF FromFifo
  <2>2. /\ c2s[slots[at].fd] # <<>>
        /\ PidOf(Head(c2s[slots[at].fd])) = slots[at].fd
    BY <2>1, SlotOfSweep DEF OwnInv, IInv
  <2> QED BY <1>1, <2>1, <2>2
<1> QED BY <1>0, <1>6, <1>7, <1>8

\* The FIFO of p keeps holding what p has written and the server has not read.
LEMMA FifoOrderStep ==
    ASSUME OwnClients, OwnInv, Numbered', NEW p \in Pid, FifoOrder(p),
           [Next]_vars
    PROVE  FifoOrder(p)'
<1> DEFINE Holds(q, g) == \A n \in 1..MaxSend : g[<<p, n>>] = "sent"
                             => \E i \in DOMAIN q : q[i] = <<p, n>>
<1>a. /\ c2s[p] \in Seq(Req) /\ sfd[p] \in BOOLEAN /\ MaxSend \in Nat
      /\ sent[p] \in 0..MaxSend
  BY ConstantsAssumption DEF OwnInv, IInv, TypeOK
<1>b. /\ InOrder(c2s[p], p)
      /\ sfd[p] => Holds(c2s[p], stage)
      /\ ~sfd[p] => c2s[p] = <<>>
  BY DEF FifoOrder
<1>1. \A n \in 1..MaxSend : n <= sent'[p] => stage'[<<p, n>>] # "none"
  BY LineStep
<1>2. \A n \in 1..MaxSend :
         stage'[<<p, n>>] = "sent" /\ stage[<<p, n>>] # "sent" =>
            \E k \in Commands : ClientSend(p, k) /\ n = sent[p] + 1
  BY LineStep
<1> HIDE DEF Holds
<1>3. SUFFICES /\ InOrder(c2s'[p], p)
               /\ sfd'[p] => Holds(c2s'[p], stage')
               /\ ~sfd'[p] => c2s'[p] = <<>>
  BY <1>1 DEF FifoOrder, InOrder, Holds
<1>4. ASSUME NEW k \in Commands, ClientSend(p, k)
      PROVE  /\ InOrder(c2s'[p], p)
             /\ sfd'[p] => Holds(c2s'[p], stage')
             /\ ~sfd'[p] => c2s'[p] = <<>>
  <2>1. PICK r : r = <<p, sent[p] + 1>>
    OBVIOUS
  <2>2. sfd' = sfd /\ c2s'[p] = IF sfd[p] THEN Append(c2s[p], r) ELSE c2s[p]
    BY <1>4, <2>1 DEF ClientSend, serverVars, connVars, OwnInv, IInv, TypeOK
  <2>3. CASE ~sfd[p]
    BY <1>b, <2>2, <2>3
  <2>4. CASE sfd[p]
    <3>1. r \in Req
      <4>1. sent[p] + 1 \in 0..MaxSend
        BY <1>4, <1>a DEF ClientSend
      <4> QED BY <2>1, <4>1 DEF Req
    <3>2. ASSUME NEW i \in DOMAIN c2s[p], NEW n \in 1..MaxSend,
                 NEW m \in 1..MaxSend, r = <<p, n>>, c2s[p][i] = <<p, m>>
          PROVE  ~(n < m)
      <4>1. stage[<<p, m>>] = "sent"
        BY <3>2 DEF OwnInv, IInv, Pipeline, AllAt
      <4>2. m > sent[p] => stage[<<p, m>>] = "none"
        BY DEF OwnInv, IInv, Numbered
      <4>3. n = sent[p] + 1
        BY <2>1, <3>2
      <4> QED BY <1>a, <4>1, <4>2, <4>3
    <3>3. InOrder(Append(c2s[p], r), p)
      BY <1>a, <1>b, <3>1, <3>2, InOrderAppend
    <3>4. PICK a : a = Append(c2s[p], r)
      OBVIOUS
    <3>5. /\ \A i \in DOMAIN c2s[p] : i \in DOMAIN a /\ a[i] = c2s[p][i]
          /\ Len(c2s[p]) + 1 \in DOMAIN a /\ a[Len(c2s[p]) + 1] = r
      BY <1>a, <3>4
    <3>6. ASSUME NEW n \in 1..MaxSend, stage'[<<p, n>>] = "sent"
          PROVE  \E i \in DOMAIN a : a[i] = <<p, n>>
      <4>1. CASE stage[<<p, n>>] = "sent"
        BY <1>b, <2>4, <3>5, <4>1 DEF Holds
      <4>2. CASE stage[<<p, n>>] # "sent"
        BY <1>2, <2>1, <3>5, <3>6, <4>2
      <4> QED BY <4>1, <4>2
    <3> QED BY <2>2, <2>4, <3>3, <3>4, <3>6 DEF Holds
  <2> QED BY <2>3, <2>4
<1>5. ASSUME FifoMove(p), ~(\E k \in Commands : ClientSend(p, k))
      PROVE  /\ InOrder(c2s'[p], p)
             /\ sfd'[p] => Holds(c2s'[p], stage')
             /\ ~sfd'[p] => c2s'[p] = <<>>
  <2>1. \A n \in 1..MaxSend :
           stage'[<<p, n>>] = "sent" => stage[<<p, n>>] = "sent"
    BY <1>2, <1>5
  <2>2. CASE c2s'[p] = c2s[p] /\ sfd'[p] = sfd[p]
    BY <1>b, <2>1, <2>2 DEF Holds
  <2>3. CASE c2s'[p] = <<>> /\ sfd'[p] = FALSE
    BY <2>3, InOrderEmpty
  <2>4. CASE /\ c2s[p] # <<>> /\ c2s'[p] = Tail(c2s[p]) /\ sfd'[p] = sfd[p]
             /\ stage'[Head(c2s[p])] # "sent"
    <3>1. InOrder(Tail(c2s[p]), p)
      BY <1>a, <1>b, <2>4, InOrderTail
    <3>2. sfd[p]
      BY <1>b, <2>4
    <3>3. ASSUME NEW n \in 1..MaxSend, stage'[<<p, n>>] = "sent"
          PROVE  \E i \in DOMAIN Tail(c2s[p]) : Tail(c2s[p])[i] = <<p, n>>
      <4>1. PICK i \in DOMAIN c2s[p] : c2s[p][i] = <<p, n>>
        BY <1>b, <2>1, <3>2, <3>3 DEF Holds
      <4>2. i # 1
        <5>1. Head(c2s[p]) = c2s[p][1]
          BY <1>a, <2>4
        <5> QED BY <2>4, <3>3, <4>1, <5>1
      <4>3. i - 1 \in DOMAIN Tail(c2s[p]) /\ Tail(c2s[p])[i - 1] = c2s[p][i]
        <5>1. \A j \in DOMAIN c2s[p] : j # 1 =>
                 /\ j - 1 \in DOMAIN Tail(c2s[p])
                 /\ Tail(c2s[p])[j - 1] = c2s[p][j]
          BY <1>a, <2>4, TailAt
        <5> QED BY <4>2, <5>1
      <4> QED BY <4>1, <4>3
    <3> QED BY <2>4, <3>1, <3>2, <3>3 DEF Holds
  <2>5. CASE c2s'[p] = c2s[p] /\ cli[p] = "syn"
    <3>1. sent[p] = 0
      BY <2>5 DEF OwnInv, LoginFirst, LoginSent
    <3>2. \A n \in 1..MaxSend : stage[<<p, n>>] # "sent"
      <4>1. \A n \in 1..MaxSend : n > sent[p] => stage[<<p, n>>] = "none"
        BY DEF OwnInv, IInv, Numbered
      <4> QED BY <3>1, <4>1
    <3>3. c2s[p] = <<>>
      <4>1. CASE c2s[p] # <<>>
        <5>1. /\ Head(c2s[p]) \in Req /\ stage[Head(c2s[p])] = "sent"
              /\ PidOf(Head(c2s[p])) = p
          BY <4>1, LineTaken DEF OwnInv, IInv
        <5>2. PICK r : r = Head(c2s[p])
          OBVIOUS
        <5>3. r # <<p, 0>>
          BY <5>1, <5>2 DEF OwnInv, IInv, Numbered
        <5>4. \E n \in 1..MaxSend : r = <<p, n>>
          BY <5>1, <5>2, <5>3, ReqCases DEF PidOf, IsLine
        <5> QED BY <3>2, <5>1, <5>2, <5>4
      <4> QED BY <4>1
    <3> QED BY <1>b, <2>1, <2>5, <3>2, <3>3 DEF Holds
  <2> QED BY <1>5, <2>2, <2>3, <2>4, <2>5 DEF FifoMove
<1> QED BY <1>4, <1>5, FifoStep DEF OwnInv, IInv
-----------------------------------------------------------------------------
(* The queue, the workers and the results *)

\* What a step does to the tasks and results: nothing, ...
Rests == /\ UNCHANGED <<queue, rpc, s2c>>
         /\ \A r \in Req : stage'[r] \in {"queued", "running"}
                              => stage'[r] = stage[r]

\* ... or one task is queued, ...
Queues(r) == /\ queue' = Append(queue, r) /\ UNCHANGED <<rpc, s2c>>
             /\ stage[r] \in {"none", "sent"}
             /\ stage' = [stage EXCEPT ![r] = "queued"]

\* ... taken, ...
Takes(r) == /\ queue # <<>> /\ r = Head(queue) /\ queue' = Tail(queue)
            /\ stage' = [stage EXCEPT ![r] = "running"]
            /\ UNCHANGED <<rpc, s2c>>

\* ... or reported; ...
Reports(w) == /\ work[w] \in Req /\ work' = [work EXCEPT ![w] = None]
              /\ rpc' = Append(rpc, work[w]) /\ UNCHANGED <<queue, s2c>>
              /\ stage' = [stage EXCEPT ![work[w]] = "piped"]

\* ... or one result is handled, ...
Handles(r) ==
    /\ rpc # <<>> /\ r = Head(rpc) /\ rpc' = Tail(rpc) /\ UNCHANGED queue
    /\ stage' = [stage EXCEPT ![r] = "done"]
    /\ \A p \in Pid : s2c'[p] = s2c[p] \/ s2c'[p] = Append(s2c[p], r)

\* ... or everything that is waiting is dropped.
Drops == /\ queue' = <<>> /\ rpc' = <<>> /\ UNCHANGED s2c
         /\ \A r \in Req : /\ stage'[r] = "running" => stage[r] = "running"
                           /\ stage'[r] # "queued"

TaskMove ==
    \/ Rests \/ Drops
    \/ \E r \in Req : Queues(r) \/ Takes(r) \/ Handles(r)
    \/ \E w \in Worker : Reports(w)

\* Nothing else happens to tasks and results.
LEMMA TaskStep ==
    ASSUME OwnInv, [Next]_vars
    PROVE  TaskMove
<1>a. /\ stage \in [Req -> Stages] /\ queue \in Seq(Req) /\ rpc \in Seq(Req)
      /\ work \in [Worker -> Req \cup {None}] /\ s2c \in [Pid -> Seq(Req)]
  BY DEF OwnInv, IInv, TypeOK
<1>1. ASSUME UNCHANGED <<stage, queue, rpc, s2c>> PROVE Rests
  BY <1>1 DEF Rests
<1>2. ASSUME NEW r, NEW s, s \notin {"queued", "running"},
             stage' = [stage EXCEPT ![r] = s], UNCHANGED <<queue, rpc, s2c>>
      PROVE  Rests
  BY <1>a, <1>2 DEF Rests
<1>3. CASE HskRead
  <2>1. hsk \in Seq(Pid) /\ hsk # <<>>
    BY <1>3 DEF OwnInv, IInv, TypeOK, HskRead, MoreHsk
  <2>2. PICK r : r = <<Head(hsk), 0>>
    OBVIOUS
  <2>3. Head(hsk) \in Pid /\ 1 \in DOMAIN hsk /\ Head(hsk) = hsk[1]
    BY <2>1
  <2>4. r \in Req /\ stage[r] = "none"
    BY <2>2, <2>3, HandshakeInReq DEF OwnInv, IInv, SignalsOnce
  <2>5. UNCHANGED <<rpc, s2c>>
    BY <1>3 DEF HskRead, fifoVars
  <2>6. \/ queue' = Append(queue, r) /\ stage' = [stage EXCEPT ![r] = "queued"]
        \/ queue' = queue /\ stage' = [stage EXCEPT ![r] = "done"]
    BY <1>3, <2>2 DEF HskRead, TaskPut
  <2> QED BY <1>2, <2>4, <2>5, <2>6 DEF TaskMove, Queues
<1>4. ASSUME NEW r \in Req,
             (\E a \in Addr : HskOk(r, a)) \/ HskDrop(r) \/ AuthOk(r)
                \/ AuthReject(r) \/ RpcDone(r)
      PROVE  Handles(r)
  <2>1. TakeResult(r)
    BY <1>4 DEF HskOk, HskDrop, AuthOk, AuthReject, RpcDone
  <2>2. /\ rpc # <<>> /\ r = Head(rpc) /\ rpc' = Tail(rpc) /\ UNCHANGED queue
        /\ stage' = [stage EXCEPT ![r] = "done"]
    BY <2>1 DEF TakeResult, MoreRpc, poolVars
  <2>3. stage[r] = "piped"
    BY <1>a, <2>2, AllAtTail DEF OwnInv, IInv, Pipeline
  <2>4. ASSUME NEW p \in Pid
        PROVE  s2c'[p] = s2c[p] \/ s2c'[p] = Append(s2c[p], r)
    <3>1. \/ s2c'[p] = s2c[p]
          \/ \E x \in Req : /\ s2c'[p] = Append(s2c[p], x)
                            /\ stage[x] = "piped" /\ stage'[x] = "done"
      BY ReplyStep DEF OwnInv, IInv, Replied
    <3>2. ASSUME NEW x \in Req, stage[x] = "piped", stage'[x] = "done"
          PROVE  x = r
      BY <1>a, <2>2, <3>2
    <3> QED BY <3>1, <3>2
  <2> QED BY <2>2, <2>4 DEF Handles
<1>5. CASE SweepTask \/ SweepQuit \/ SweepIgnore
  <2>1. PICK r : r = Head(c2s[slots[at].fd])
    OBVIOUS
  <2>2. r \in Req /\ stage[r] = "sent"
    BY <1>5, <2>1, SlotOfSweep DEF OwnInv, IInv
  <2>3. UNCHANGED <<rpc, s2c>>
    BY <1>5 DEF SweepTask, SweepQuit, SweepIgnore, pipeVars
  <2>4. \/ queue' = Append(queue, r) /\ stage' = [stage EXCEPT ![r] = "queued"]
        \/ queue' = queue /\ stage' = [stage EXCEPT ![r] = "lost"]
        \/ queue' = queue /\ stage' = [stage EXCEPT ![r] = "done"]
    BY <1>5, <2>1 DEF SweepTask, SweepQuit, SweepIgnore, TaskPut, poolVars
  <2> QED BY <1>2, <2>2, <2>3, <2>4 DEF TaskMove, Queues
<1>6. CASE Teardown
  <2>1. \A r \in Req : /\ stage'[r] = "running" => stage[r] = "running"
                       /\ stage'[r] # "queued"
    BY <1>6 DEF Teardown
  <2> QED BY <1>6, <2>1 DEF Teardown, TaskMove, Drops
<1>7. CASE MainStep
  <2>1. CASE Check \/ PollSleep \/ PollReturn \/ HskEnd \/ RpcEnd \/ SweepEnd
                \/ SweepNext \/ SweepHangup
    <3>1. UNCHANGED <<stage, queue, rpc, s2c>>
      BY <2>1 DEF Check, PollSleep, PollReturn, HskEnd, RpcEnd, SweepEnd,
         SweepNext, SweepHangup, reqVars, poolVars, pipeVars, fifoVars
    <3> QED BY <1>1, <3>1 DEF TaskMove
  <2> QED BY <1>3, <1>4, <1>5, <1>6, <1>7, <2>1 DEF MainStep, TaskMove
<1>8. ASSUME NEW w \in Worker, WorkerStep(w) PROVE TaskMove
  <2>1. CASE Dequeue(w)
    <3>1. queue # <<>> /\ queue' = Tail(queue) /\ UNCHANGED <<rpc, s2c>>
          /\ stage' = [stage EXCEPT ![Head(queue)] = "running"]
      BY <2>1 DEF Dequeue, pipeVars, fifoVars
    <3>2. Head(queue) \in Req
      BY <1>a, <3>1
    <3> QED BY <3>1, <3>2 DEF TaskMove, Takes
  <2>2. CASE FinishHandshake(w) \/ \E type \in Results : Finish(w, type)
    <3>1. /\ work[w] \in Req /\ work' = [work EXCEPT ![w] = None]
          /\ UNCHANGED <<queue, s2c>> /\ \E type : Report(work[w], type)
      BY <1>a, <2>2 DEF FinishHandshake, Finish, fifoVars
    <3>2. CASE Len(rpc) < RpcCap
      <4>1. /\ rpc' = Append(rpc, work[w])
            /\ stage' = [stage EXCEPT ![work[w]] = "piped"]
        BY <3>1, <3>2 DEF Report
      <4> QED BY <3>1, <4>1 DEF TaskMove, Reports
    <3>3. CASE ~(Len(rpc) < RpcCap)
      <4>1. rpc' = rpc /\ stage' = [stage EXCEPT ![work[w]] = "lost"]
        BY <3>1, <3>3 DEF Report
      <4>2. UNCHANGED <<queue, rpc, s2c>>
        BY <3>1, <4>1
      <4>3. PICK s \in {"lost"} : stage' = [stage EXCEPT ![work[w]] = s]
        BY <4>1
      <4>4. Rests
        BY <1>2, <4>2, <4>3
      <4> QED BY <4>4 DEF TaskMove
    <3> QED BY <3>2, <3>3
  <2>3. CASE FinishSilently(w)
    <3>1. UNCHANGED <<queue, rpc, s2c>>
      BY <2>3 DEF FinishSilently, pipeVars, fifoVars
    <3>2. \E s \in {"done", "lost"} : stage' = [stage EXCEPT ![work[w]] = s]
      BY <2>3 DEF FinishSilently
    <3> QED BY <1>2, <3>1, <3>2 DEF TaskMove
  <2>4. CASE WorkerExit(w)
    <3>1. UNCHANGED <<stage, queue, rpc, s2c>>
      BY <2>4 DEF WorkerExit, reqVars, pipeVars, fifoVars
    <3> QED BY <1>1, <3>1 DEF TaskMove
  <2> QED BY <1>8, <2>1, <2>2, <2>3, <2>4 DEF WorkerStep
<1>9. ASSUME NEW p \in Pid, ClientStep(p) PROVE TaskMove
  <2>1. CASE Sigusr1(p) \/ ClientOpen(p) \/ ClientAuthorised(p)
             \/ ClientRead(p) \/ ClientExit(p)
    <3>1. UNCHANGED <<stage, queue, rpc, s2c>>
      BY <2>1 DEF Sigusr1, ClientOpen, ClientAuthorised,
         ClientRead, ClientExit, serverVars, reqVars, poolVars, pipeVars, fifoVars
    <3> QED BY <1>1, <3>1 DEF TaskMove
  <2>2. ASSUME NEW k \in Commands, ClientSend(p, k) PROVE TaskMove
    <3>1. /\ UNCHANGED <<queue, rpc, s2c>>
          /\ \E r : stage' = [stage EXCEPT ![r] = "sent"]
      BY <2>2 DEF ClientSend, serverVars, poolVars, pipeVars
    <3> QED BY <1>2, <3>1 DEF TaskMove
  <2> QED BY <1>9, <2>1, <2>2 DEF ClientStep
<1>10. CASE SigShutdown \/ UNCHANGED vars
  <2>1. UNCHANGED <<stage, queue, rpc, s2c>>
    BY <1>10 DEF SigShutdown, vars, reqVars, poolVars, pipeVars, fifoVars
  <2> QED BY <1>1, <2>1 DEF TaskMove
<1> QED BY <1>7, <1>8, <1>9, <1>10 DEF Next

\* The server reads the oldest line that waits.
LEMMA ReadInOrderStep ==
    ASSUME OwnClients, OwnInv, Numbered', NEW p \in Pid, FifoOrder(p),
           ReadInOrder(p), [Next]_vars
    PROVE  ReadInOrder(p)'
<1>1. SUFFICES ASSUME NEW m \in 1..MaxSend, NEW n \in 1..m - 1,
                      stage'[<<p, m>>] \notin {"none", "sent"},
                      stage'[<<p, n>>] = "sent"
               PROVE  FALSE
  BY DEF ReadInOrder
<1>2. MaxSend \in Nat /\ n \in 1..MaxSend /\ n < m /\ sent[p] \in 0..MaxSend
  BY ConstantsAssumption DEF OwnInv, IInv, TypeOK
<1>3. PICK x : x = <<p, m>>
  OBVIOUS
<1>4. PICK y : y = <<p, n>>
  OBVIOUS
<1>5. x \in Req /\ y \in Req /\ IsLine(x) /\ IsLine(y)
  BY <1>2, <1>3, <1>4 DEF Req, IsLine
<1>6. stage[y] = "sent"
  <2>1. ASSUME NEW k \in Commands, ClientSend(p, k), n = sent[p] + 1,
               stage[y] = "none"
        PROVE  FALSE
    <3>1. stage'[x] = stage[x]
      BY <1>2, <1>3, <2>1, SendStage DEF OwnInv, IInv
    <3>2. \A i \in 1..MaxSend : i > sent[p] => stage[<<p, i>>] = "none"
      BY DEF OwnInv, IInv, Numbered
    <3>3. stage[x] = "none"
      BY <1>2, <1>3, <2>1, <3>2
    <3> QED BY <1>1, <1>3, <3>1, <3>3
  <2>2. stage[y] # "sent" => \E k \in Commands : /\ ClientSend(p, k)
                                                /\ n = sent[p] + 1
                                                /\ stage[y] = "none"
    BY <1>1, <1>2, <1>4, LineStep
  <2> QED BY <2>1, <2>2
<1>7. stage[x] \in {"none", "sent"}
  BY <1>1, <1>3, <1>4, <1>6 DEF ReadInOrder
<1>8. c2s[p] # <<>> /\ x = Head(c2s[p])
  BY <1>1, <1>3, <1>7, LineStep
<1>9. InOrder(c2s[p], p) /\ \E i \in DOMAIN c2s[p] : c2s[p][i] = y
  BY <1>2, <1>4, <1>6, <1>8 DEF FifoOrder
<1>10. c2s[p] \in Seq(Req)
  BY DEF OwnInv, IInv, TypeOK
<1> QED BY <1>2, <1>3, <1>4, <1>8, <1>9, <1>10, InOrderTail
-----------------------------------------------------------------------------
\* A reported result is in the pipe or has been handled.
LEMMA ReportedStage ==
    ASSUME OwnInv, NEW p \in Pid, NEW x, Reported(s2c[p], rpc, x)
    PROVE  stage[x] \in {"piped", "done"}
<1>1. \A i \in DOMAIN rpc : stage[rpc[i]] = "piped"
  BY DEF OwnInv, IInv, Pipeline, AllAt
<1>2. \A i \in DOMAIN s2c[p] : stage[s2c[p][i]] = "done"
  BY DEF OwnInv, LoginFirst, RepliesDone
<1> QED BY <1>1, <1>2 DEF Reported

\* Only a report adds a result, and only the reported one; only a line that
\* is taken starts to run, and only a line that is queued waits for that.
LEMMA TaskEffect ==
    ASSUME OwnInv, [Next]_vars, NEW p \in Pid, NEW x \in Req
    PROVE  /\ \/ \A y : Behind(s2c'[p], rpc', x, y)
                           => Behind(s2c[p], rpc, x, y)
              \/ \E w \in Worker : /\ Reports(w)
                    /\ \A y : Behind(s2c'[p], rpc', x, y) =>
                          /\ Behind(s2c[p], rpc, x, y) \/ y = work[w]
                          /\ Reported(s2c[p], rpc, x)
           /\ Reported(s2c'[p], rpc', x) =>
                 \/ Reported(s2c[p], rpc, x)
                 \/ \E w \in Worker : Reports(w) /\ x = work[w]
           /\ stage'[x] = "running" => stage[x] = "running" \/ Takes(x)
           /\ stage'[x] = "queued" => stage[x] = "queued" \/ Queues(x)
<1>a. /\ stage \in [Req -> Stages] /\ queue \in Seq(Req) /\ rpc \in Seq(Req)
      /\ s2c[p] \in Seq(Req)
  BY DEF OwnInv, IInv, TypeOK
<1> DEFINE Goal ==
           /\ \/ \A y : Behind(s2c'[p], rpc', x, y)
                           => Behind(s2c[p], rpc, x, y)
              \/ \E w \in Worker : /\ Reports(w)
                    /\ \A y : Behind(s2c'[p], rpc', x, y) =>
                          /\ Behind(s2c[p], rpc, x, y) \/ y = work[w]
                          /\ Reported(s2c[p], rpc, x)
           /\ Reported(s2c'[p], rpc', x) =>
                 \/ Reported(s2c[p], rpc, x)
                 \/ \E w \in Worker : Reports(w) /\ x = work[w]
           /\ stage'[x] = "running" => stage[x] = "running" \/ Takes(x)
           /\ stage'[x] = "queued" => stage[x] = "queued" \/ Queues(x)
<1>1. CASE Rests
  <2>1. s2c' = s2c /\ rpc' = rpc
    BY <1>1 DEF Rests
  <2>2. /\ stage'[x] = "running" => stage[x] = "running"
        /\ stage'[x] = "queued" => stage[x] = "queued"
    BY <1>1 DEF Rests
  <2> QED BY <2>1, <2>2
<1>2. CASE Drops
  <2>1. s2c' = s2c /\ rpc' = <<>>
    BY <1>2 DEF Drops
  <2>2. /\ stage'[x] = "running" => stage[x] = "running"
        /\ stage'[x] # "queued"
    BY <1>2 DEF Drops
  <2>3. \A y : Behind(s2c'[p], rpc', x, y) => Behind(s2c[p], rpc, x, y)
    BY <2>1, BehindEmpty
  <2>4. Reported(s2c'[p], rpc', x) => Reported(s2c[p], rpc, x)
    BY <2>1, BehindEmpty
  <2> QED BY <2>2, <2>3, <2>4
<1>3. ASSUME NEW r \in Req, Queues(r) \/ Takes(r) PROVE Goal
  <2>1. s2c' = s2c /\ rpc' = rpc
    BY <1>3 DEF Queues, Takes
  <2>2. /\ stage'[x] = "running" => stage[x] = "running" \/ Takes(x)
        /\ stage'[x] = "queued" => stage[x] = "queued" \/ Queues(x)
    <3>1. CASE x = r
      <4>1. CASE Queues(r)
        BY <1>a, <3>1, <4>1 DEF Queues
      <4>2. CASE Takes(r)
        BY <1>a, <3>1, <4>2 DEF Takes
      <4> QED BY <1>3, <4>1, <4>2
    <3>2. CASE x # r
      <4>1. stage'[x] = stage[x]
        BY <1>a, <1>3, <3>2 DEF Queues, Takes
      <4> QED BY <4>1
    <3> QED BY <3>1, <3>2
  <2> QED BY <2>1, <2>2
<1>4. ASSUME NEW r \in Req, Handles(r) PROVE Goal
  <2>1. /\ rpc # <<>> /\ r = Head(rpc) /\ rpc' = Tail(rpc)
        /\ s2c'[p] = s2c[p] \/ s2c'[p] = Append(s2c[p], Head(rpc))
        /\ stage' = [stage EXCEPT ![r] = "done"]
    BY <1>4 DEF Handles
  <2>2. PICK t : t = s2c'[p]
    OBVIOUS
  <2>3. \A y : Behind(t, Tail(rpc), x, y) => Behind(s2c[p], rpc, x, y)
    BY <1>a, <2>1, <2>2, BehindTail
  <2>4. Reported(t, Tail(rpc), x) => Reported(s2c[p], rpc, x)
    BY <1>a, <2>1, <2>2, BehindTail
  <2>5. /\ stage'[x] = "running" => stage[x] = "running"
        /\ stage'[x] = "queued" => stage[x] = "queued"
    BY <1>a, <2>1
  <2> QED BY <2>1, <2>2, <2>3, <2>4, <2>5
<1>5. ASSUME NEW w \in Worker, Reports(w) PROVE Goal
  <2>1. /\ work[w] \in Req /\ rpc' = Append(rpc, work[w]) /\ s2c' = s2c
        /\ stage' = [stage EXCEPT ![work[w]] = "piped"]
    BY <1>5 DEF Reports
  <2>2. /\ \A y : Behind(s2c[p], Append(rpc, work[w]), x, y) =>
              /\ Behind(s2c[p], rpc, x, y) \/ y = work[w]
              /\ Reported(s2c[p], rpc, x)
        /\ Reported(s2c[p], Append(rpc, work[w]), x) =>
              Reported(s2c[p], rpc, x) \/ x = work[w]
    BY <1>a, <2>1, BehindAppend
  <2>3. /\ stage'[x] = "running" => stage[x] = "running"
        /\ stage'[x] = "queued" => stage[x] = "queued"
    BY <1>a, <2>1
  <2> QED BY <1>5, <2>1, <2>2, <2>3
<1> QED BY <1>1, <1>2, <1>3, <1>4, <1>5, TaskStep DEF TaskMove

\* Before a line of p that has been read, none is unread.
LEMMA ReadBefore ==
    ASSUME OwnInv, NEW p \in Pid, FifoOrder(p), ReadInOrder(p),
           NEW m \in 1..MaxSend, NEW n \in 1..m - 1,
           stage[<<p, m>>] \notin {"none", "sent"}
    PROVE  n \in 1..MaxSend /\ n < m /\ stage[<<p, n>>] \notin {"none", "sent"}
<1>1. /\ MaxSend \in Nat /\ sent[p] \in 0..MaxSend /\ n \in 1..MaxSend /\ n < m
  BY ConstantsAssumption, SMTT(30) DEF OwnInv, IInv, TypeOK
<1>2. m > sent[p] => stage[<<p, m>>] = "none"
  BY DEF OwnInv, IInv, Numbered
<1>3. n <= sent[p] => stage[<<p, n>>] # "none"
  BY <1>1 DEF FifoOrder
<1>4. stage[<<p, n>>] # "sent"
  BY DEF ReadInOrder
<1> QED BY <1>1, <1>2, <1>3, <1>4

\* Tasks are taken in the order their lines were written.
LEMMA TakenInOrderStep ==
    ASSUME OwnInv, NEW p \in Pid, FifoOrder(p), ReadInOrder(p),
           TakenInOrder(p), [Next]_vars
    PROVE  TakenInOrder(p)'
<1>a. /\ stage \in [Req -> Stages] /\ queue \in Seq(Req) /\ MaxSend \in Nat
      /\ \A i \in DOMAIN queue : stage[queue[i]] = "queued"
  BY ConstantsAssumption DEF OwnInv, IInv, TypeOK, Pipeline, AllAt
<1>b. /\ InOrder(queue, p)
      /\ \A n \in 1..MaxSend : stage[<<p, n>>] = "queued"
            => \E i \in DOMAIN queue : queue[i] = <<p, n>>
  BY DEF TakenInOrder
<1>c. \A n \in 1..MaxSend : <<p, n>> \in Req
  BY <1>a DEF Req
<1>1. InOrder(queue', p)
  <2>1. CASE queue' = queue
    BY <1>b, <2>1
  <2>2. CASE queue' = <<>>
    BY <2>2, InOrderEmpty
  <2>3. CASE queue # <<>> /\ queue' = Tail(queue)
    BY <1>a, <1>b, <2>3, InOrderTail
  <2>4. ASSUME NEW r \in Req, Queues(r) PROVE InOrder(queue', p)
    <3>1. stage[r] \in {"none", "sent"} /\ queue' = Append(queue, r)
      BY <2>4 DEF Queues
    <3>2. ASSUME NEW i \in DOMAIN queue, NEW n \in 1..MaxSend,
                 NEW m \in 1..MaxSend, r = <<p, n>>, queue[i] = <<p, m>>, n < m
          PROVE  FALSE
      <4>1. n \in 1..m - 1 /\ stage[<<p, m>>] = "queued"
        BY <1>a, <3>2
      <4>2. stage[<<p, n>>] \notin {"none", "sent"}
        BY <4>1, ReadBefore
      <4> QED BY <3>1, <3>2, <4>2
    <3> QED BY <1>a, <1>b, <3>1, <3>2, InOrderAppend
  <2> QED BY <2>1, <2>2, <2>3, <2>4, TaskStep
          DEF TaskMove, Rests, Drops, Takes, Handles, Reports
<1>2. ASSUME NEW n \in 1..MaxSend, stage'[<<p, n>>] = "queued"
      PROVE  \E i \in DOMAIN queue' : queue'[i] = <<p, n>>
  <2>1. PICK x \in Req : x = <<p, n>>
    BY <1>c
  <2>2. stage[x] = "queued" \/ Queues(x)
    BY <1>2, <2>1, TaskEffect
  <2>3. CASE Queues(x)
    <3>1. queue' = Append(queue, x)
      BY <2>3 DEF Queues
    <3>2. Len(queue) + 1 \in DOMAIN queue' /\ queue'[Len(queue) + 1] = x
      BY <1>a, <3>1
    <3> QED BY <2>1, <3>2
  <2>4. ASSUME stage[x] = "queued"
        PROVE  \E i \in DOMAIN queue' : queue'[i] = x
    <3>1. PICK i \in DOMAIN queue : queue[i] = x
      BY <1>b, <2>1, <2>4
    <3>2. CASE queue' = queue
      BY <3>1, <3>2
    <3>3. ASSUME NEW r \in Req, Queues(r)
          PROVE  \E j \in DOMAIN queue' : queue'[j] = x
      <4>1. queue' = Append(queue, r)
        BY <3>3 DEF Queues
      <4>2. i \in DOMAIN queue' /\ queue'[i] = queue[i]
        BY <1>a, <3>1, <4>1
      <4> QED BY <3>1, <4>2
    <3>4. ASSUME NEW r \in Req, Takes(r)
          PROVE  \E j \in DOMAIN queue' : queue'[j] = x
      <4>1. /\ queue # <<>> /\ r = Head(queue) /\ queue' = Tail(queue)
            /\ stage' = [stage EXCEPT ![r] = "running"]
        BY <3>4 DEF Takes
      <4>2. x # r
        BY <1>a, <1>2, <2>1, <4>1
      <4>3. i # 1
        BY <1>a, <3>1, <4>1, <4>2
      <4>4. \A j \in DOMAIN queue : j # 1 =>
               j - 1 \in DOMAIN Tail(queue) /\ Tail(queue)[j - 1] = queue[j]
        BY <1>a, <4>1, TailAt
      <4>5. i - 1 \in DOMAIN Tail(queue) /\ Tail(queue)[i - 1] = queue[i]
        BY <4>3, <4>4
      <4> QED BY <3>1, <4>1, <4>5
    <3>5. CASE Drops
      BY <1>2, <2>1, <3>5 DEF Drops
    <3> QED BY <3>2, <3>3, <3>4, <3>5, TaskStep
            DEF TaskMove, Rests, Handles, Reports
  <2> QED BY <2>1, <2>2, <2>3, <2>4
<1>3. ASSUME NEW m \in 1..MaxSend, NEW n \in 1..m - 1,
             \/ stage'[<<p, m>>] = "running"
             \/ Reported(s2c'[p], rpc', <<p, m>>),
             stage'[<<p, n>>] = "queued"
      PROVE  FALSE
  <2>1. PICK x \in Req : x = <<p, m>>
    BY <1>c
  <2>2. n \in 1..MaxSend /\ n < m
    BY <1>a
  <2>3. PICK y \in Req : y = <<p, n>>
    BY <1>c, <2>2
  <2>4. stage[y] = "queued" \/ stage[y] \in {"none", "sent"}
    BY <1>3, <2>3, TaskEffect DEF Queues
  <2>5. \/ stage[x] = "running" \/ Takes(x)
        \/ Reported(s2c[p], rpc, x)
        \/ \E w \in Worker : Reports(w) /\ x = work[w]
    BY <1>3, <2>1, TaskEffect
  <2>6. \A w \in Worker : work[w] \in Req => stage[work[w]] = "running"
    BY ConstantsAssumption DEF OwnInv, IInv, Pipeline, WorkAt
  <2>7. \/ stage[x] = "running" \/ Reported(s2c[p], rpc, x)
        \/ Takes(x)
    BY <2>5, <2>6 DEF Reports
  <2>8. Takes(x) => stage[x] = "queued" /\ queue # <<>> /\ x = Head(queue)
    <3>1. queue # <<>> => 1 \in DOMAIN queue /\ Head(queue) = queue[1]
      BY <1>a
    <3> QED BY <1>a, <3>1 DEF Takes
  <2>9. stage[x] \notin {"none", "sent"}
    BY <2>7, <2>8, ReportedStage
  <2>10. stage[y] = "queued"
    BY <2>1, <2>3, <2>4, <2>9, ReadBefore
  <2>11. CASE stage[x] = "running" \/ Reported(s2c[p], rpc, x)
    BY <2>1, <2>3, <2>10, <2>11 DEF TakenInOrder
  <2>12. CASE Takes(x)
    <3>1. \E i \in DOMAIN queue : queue[i] = <<p, n>>
      BY <1>b, <2>2, <2>3, <2>10
    <3> QED BY <1>a, <1>b, <2>1, <2>2, <2>8, <2>12, <3>1, InOrderTail
  <2> QED BY <2>7, <2>11, <2>12
<1>4. \A m \in 1..MaxSend : \A n \in 1..m - 1 :
         stage'[<<p, m>>] = "running" \/ Reported(s2c'[p], rpc', <<p, m>>)
            => stage'[<<p, n>>] # "queued"
  BY <1>3
<1> QED BY <1>1, <1>2, <1>4 DEF TakenInOrder, InOrder, Reported
-----------------------------------------------------------------------------
(* How many replies overtake *)

\* The lines of p that run are fewer than the workers when one of these has
\* no line of p in its hands.
LEMMA OthersRun ==
    ASSUME OwnInv, NEW w \in Worker, NEW p \in Pid, NEW S \in SUBSET (1..MaxSend),
           \A n \in S : stage[<<p, n>>] = "running" /\ work[w] # <<p, n>>
    PROVE  IsFiniteSet(S) /\ Cardinality(S) < Cardinality(Worker)
<1> DEFINE f == [n \in S |-> CHOOSE v \in Worker : work[v] = <<p, n>>]
           others == Worker \ {w}
<1>1. ASSUME NEW n \in S PROVE f[n] \in others /\ work[f[n]] = <<p, n>>
  <2>1. <<p, n>> \in Req
    BY ConstantsAssumption DEF Req
  <2>2. \E v \in Worker : work[v] = <<p, n>>
    BY <2>1 DEF OwnInv, TasksHeld
  <2>3. f[n] \in Worker /\ work[f[n]] = <<p, n>>
    BY <2>2
  <2> QED BY <2>3
<1>2. IsFiniteSet(others) /\ Cardinality(others) = Cardinality(Worker) - 1
  BY ConstantsAssumption, FS_RemoveElement
<1>3. Cardinality(Worker) \in Nat
  BY ConstantsAssumption, FS_CardinalityType
<1> HIDE DEF f, others
<1>4. \A n, m \in S : f[n] = f[m] => n = m
  <2>1. ASSUME NEW n \in S, NEW m \in S, f[n] = f[m] PROVE n = m
    <3>1. <<p, n>> = <<p, m>>
      BY <1>1, <2>1
    <3> QED BY <3>1
  <2> QED BY <2>1
<1>5. IsFiniteSet(S) /\ Cardinality(S) <= Cardinality(others)
  BY <1>1, <1>2, <1>4, NoLarger
<1>6. Cardinality(S) \in Nat
  BY <1>5, FS_CardinalityType
<1> QED BY <1>2, <1>3, <1>5, <1>6

\* No line falls behind a reply once its result is reported.
LEMMA FewLateStep ==
    ASSUME OwnInv, NEW p \in Pid, FifoOrder(p), ReadInOrder(p),
           TakenInOrder(p), FewLate(p), [Next]_vars
    PROVE  FewLate(p)'
<1> DEFINE late(m) == {n \in 1..m - 1 :
                          \/ stage'[<<p, n>>] = "running"
                          \/ Behind(s2c'[p], rpc', <<p, m>>, <<p, n>>)}
<1>1. SUFFICES ASSUME NEW m \in 1..MaxSend, Reported(s2c'[p], rpc', <<p, m>>)
               PROVE  Cardinality(late(m)) < Cardinality(Worker)
  BY DEF FewLate, Late, Reported, Behind
<1>2. /\ MaxSend \in Nat /\ \A n \in 1..m - 1 : n \in 1..MaxSend /\ <<p, n>> \in Req
      /\ stage \in [Req -> Stages] /\ <<p, m>> \in Req
  BY ConstantsAssumption, SMTT(30) DEF OwnInv, IInv, TypeOK, Req
<1>3. PICK x \in Req : x = <<p, m>>
  BY <1>2
<1>4. \A w \in Worker : work[w] \in Req => stage[work[w]] = "running"
  BY ConstantsAssumption DEF OwnInv, IInv, Pipeline, WorkAt
<1>5. ASSUME Reported(s2c[p], rpc, x)
      PROVE  late(m) \subseteq Late(p, m)
  <2>1. ASSUME NEW n \in late(m)
        PROVE  \/ stage[<<p, n>>] = "running"
               \/ Behind(s2c[p], rpc, x, <<p, n>>)
    <3>1. PICK y \in Req : y = <<p, n>>
      BY <1>2
    <3>2. CASE stage'[y] = "running"
      <4>1. stage[y] # "queued"
        BY <1>3, <1>5, <3>1 DEF TakenInOrder
      <4>2. Takes(y) => stage[y] = "queued"
        <5>1. /\ queue \in Seq(Req)
              /\ \A i \in DOMAIN queue : stage[queue[i]] = "queued"
          BY DEF OwnInv, IInv, TypeOK, Pipeline, AllAt
        <5>2. queue # <<>> => 1 \in DOMAIN queue /\ Head(queue) = queue[1]
          BY <5>1
        <5> QED BY <5>1, <5>2 DEF Takes
      <4>3. stage[y] = "running"
        BY <3>2, <4>1, <4>2, TaskEffect
      <4> QED BY <3>1, <4>3
    <3>3. CASE Behind(s2c'[p], rpc', x, y)
      <4>1. \/ Behind(s2c[p], rpc, x, y)
            \/ \E w \in Worker : Reports(w) /\ y = work[w]
        BY <3>3, TaskEffect
      <4>2. Behind(s2c[p], rpc, x, y) \/ stage[y] = "running"
        BY <1>4, <4>1 DEF Reports
      <4> QED BY <3>1, <4>2
    <3> QED BY <1>3, <2>1, <3>1, <3>2, <3>3
  <2> QED BY <1>3, <2>1 DEF Late
<1>6. CASE Reported(s2c[p], rpc, x)
  <2>1. IsFiniteSet(1..m - 1)
    BY <1>2, FS_Interval
  <2>2. IsFiniteSet(Late(p, m))
    BY <2>1, FS_Subset DEF Late
  <2>3. /\ IsFiniteSet(late(m))
        /\ Cardinality(late(m)) <= Cardinality(Late(p, m))
    BY <1>5, <1>6, <2>2, FS_Subset
  <2>4. Cardinality(Late(p, m)) < Cardinality(Worker)
    BY <1>3, <1>6 DEF FewLate
  <2>5. /\ Cardinality(late(m)) \in Nat /\ Cardinality(Late(p, m)) \in Nat
        /\ Cardinality(Worker) \in Nat
    BY <2>2, <2>3, ConstantsAssumption, FS_CardinalityType
  <2> HIDE DEF late
  <2> QED BY <2>3, <2>4, <2>5
<1>7. CASE ~Reported(s2c[p], rpc, x)
  <2>1. PICK w \in Worker : Reports(w) /\ x = work[w]
    BY <1>1, <1>3, <1>7, TaskEffect
  <2>2. ASSUME NEW n \in late(m)
        PROVE  stage[<<p, n>>] = "running" /\ work[w] # <<p, n>>
    <3>1. PICK y \in Req : y = <<p, n>>
      BY <1>2
    <3>2. x # y
      BY <1>2, <1>3, <3>1
    <3>3. ~Behind(s2c'[p], rpc', x, y)
      <4>1. rpc \in Seq(Req) /\ s2c' = s2c /\ rpc' = Append(rpc, x)
        BY <2>1 DEF Reports, OwnInv, IInv, TypeOK
      <4> QED BY <1>7, <4>1, BehindAppend
    <3>4. stage'[y] = "running"
      BY <1>3, <2>2, <3>1, <3>3
    <3>5. stage[y] = "running"
      BY <1>2, <2>1, <3>2, <3>4 DEF Reports
    <3> QED BY <2>1, <3>1, <3>2, <3>5
  <2>3. late(m) \subseteq 1..MaxSend
    BY <1>2
  <2> HIDE DEF late
  <2> QED BY <2>2, <2>3, OthersRun
<1> QED BY <1>6, <1>7
-----------------------------------------------------------------------------
LEMMA OrderInvInit == Init => OrderInv
<1> SUFFICES ASSUME Init, NEW p \in Pid
             PROVE  /\ FifoOrder(p) /\ ReadInOrder(p)
                    /\ TakenInOrder(p) /\ FewLate(p)
  BY ReplyInvInit DEF OrderInv
<1>1. /\ c2s[p] = <<>> /\ s2c[p] = <<>> /\ queue = <<>> /\ rpc = <<>>
      /\ sent[p] = 0 /\ sfd[p] = FALSE
      /\ \A n \in 0..MaxSend : stage[<<p, n>>] = "none"
  BY DEF Init, Req
<1>2. MaxSend \in Nat
  BY ConstantsAssumption
<1>3. \A n \in 1..MaxSend : stage[<<p, n>>] = "none" /\ ~(n <= sent[p])
  BY <1>1, <1>2
<1>4. \A m \in 1..MaxSend : \A n \in 1..m - 1 : n \in 1..MaxSend
  BY <1>2
<1>5. \A x : ~Reported(s2c[p], rpc, x)
  BY <1>1 DEF Reported
<1>6. FifoOrder(p)
  BY <1>1, <1>3, InOrderEmpty DEF FifoOrder
<1>7. ReadInOrder(p)
  BY <1>3 DEF ReadInOrder
<1>8. TakenInOrder(p)
  BY <1>1, <1>3, <1>4, <1>5, InOrderEmpty DEF TakenInOrder
<1>9. FewLate(p)
  BY <1>5 DEF FewLate
<1> QED BY <1>6, <1>7, <1>8, <1>9

LEMMA OrderInvStep ==
    OwnClients /\ OrderInv /\ Straight' /\ [Next]_vars => OrderInv'
<1> SUFFICES ASSUME OwnClients, OrderInv, Straight', [Next]_vars
             PROVE  OrderInv'
  OBVIOUS
<1>1. ReplyInv /\ ReplyInv'
  BY ReplyInvStep DEF OrderInv
<1>2. OwnInv /\ Numbered'
  BY <1>1 DEF ReplyInv, OwnInv, IInv
<1>3. ASSUME NEW p \in Pid
      PROVE  (FifoOrder(p) /\ ReadInOrder(p) /\ TakenInOrder(p) /\ FewLate(p))'
  <2>1. FifoOrder(p) /\ ReadInOrder(p) /\ TakenInOrder(p) /\ FewLate(p)
    BY DEF OrderInv
  <2>2. FifoOrder(p)'
    BY <1>2, <2>1, FifoOrderStep
  <2>3. ReadInOrder(p)'
    BY <1>2, <2>1, ReadInOrderStep
  <2>4. TakenInOrder(p)'
    BY <1>2, <2>1, TakenInOrderStep
  <2>5. FewLate(p)'
    BY <1>2, <2>1, FewLateStep
  <2> QED BY <2>2, <2>3, <2>4, <2>5
<1> QED BY <1>1, <1>3 DEF OrderInv

\* The order of the lines is kept up to the workers: the FIFO, the queue and
\* the result pipe reorder nothing, whatever the main thread and the workers
\* interleave.
THEOREM OrderInvariance == OwnClients /\ Spec => [](Straight => OrderInv)
<1> SUFFICES ASSUME OwnClients PROVE Spec => [](Straight => OrderInv)
  OBVIOUS
<1>1. Init => (Straight => OrderInv)
  BY OrderInvInit
<1>2. ASSUME ServerInv, Straight => OrderInv, [Next]_vars
      PROVE  (Straight => OrderInv)'
  <2> SUFFICES ASSUME Straight' PROVE OrderInv'
    OBVIOUS
  <2>1. Straight
    BY <1>2, StraightKept DEF ServerInv, IInv
  <2> QED BY <1>2, <2>1, OrderInvStep
<1> QED BY <1>1, <1>2, ServerInvariance, PTL DEF Spec

\* What is behind a reply already is late.
LEMMA FewOvertaken == (Straight => OrderInv) => RepliesInOrder
<1> SUFFICES ASSUME OrderInv, NEW p \in Pid, NEW i \in DOMAIN s2c[p]
             PROVE  Cardinality({j \in DOMAIN s2c[p] :
                                    /\ j > i
                                    /\ s2c[p][j][2] < s2c[p][i][2]})
                       < Cardinality(Worker)
  BY DEF RepliesInOrder
<1> DEFINE S == {j \in DOMAIN s2c[p] : j > i /\ s2c[p][j][2] < s2c[p][i][2]}
           f == [j \in S |-> s2c[p][j][2]]
<1>1. OwnInv /\ FewLate(p) /\ MaxSend \in Nat /\ s2c[p] \in Seq(Req)
  BY ConstantsAssumption DEF OrderInv, ReplyInv, OwnInv, IInv, TypeOK
<1>2. ASSUME NEW j \in DOMAIN s2c[p]
      PROVE  s2c[p][j][2] \in 1..MaxSend /\ s2c[p][j] = <<p, s2c[p][j][2]>>
  <2>1. PICK r \in Req : r = s2c[p][j]
    BY <1>1
  <2>2. PidOf(r) = p /\ r # <<p, 0>>
    BY <1>1, <2>1 DEF OwnInv, LoginFirst, RepliesDone
  <2>3. \E n \in 1..MaxSend : r = <<p, n>>
    BY <2>2, ReqCases DEF PidOf, IsLine
  <2> QED BY <2>1, <2>3
<1>3. PICK m \in 1..MaxSend : m = s2c[p][i][2] /\ s2c[p][i] = <<p, m>>
  BY <1>2
<1>4. Reported(s2c[p], rpc, <<p, m>>)
  BY <1>3 DEF Reported
<1>5. Cardinality(Late(p, m)) < Cardinality(Worker)
  BY <1>1, <1>4 DEF FewLate
<1>6. IsFiniteSet(Late(p, m))
  <2>1. IsFiniteSet(1..m - 1)
    BY FS_Interval
  <2> QED BY <2>1, FS_Subset DEF Late
<1>7. ASSUME NEW j \in S PROVE f[j] \in Late(p, m)
  <2>1. PICK n \in 1..MaxSend : n = s2c[p][j][2] /\ s2c[p][j] = <<p, n>>
    BY <1>2
  <2>2. n \in 1..m - 1
    BY <1>3, <2>1
  <2>3. i < j
    BY <1>1
  <2>4. Behind(s2c[p], rpc, <<p, m>>, <<p, n>>)
    BY <1>3, <2>1, <2>3 DEF Behind
  <2> QED BY <2>1, <2>2, <2>4 DEF Late
<1>8. ASSUME NEW j \in S, NEW k \in S, f[j] = f[k] PROVE j = k
  <2>1. s2c[p][j] = s2c[p][k]
    BY <1>2, <1>8
  <2> QED BY <1>1, <2>1 DEF OwnInv, LoginFirst, RepliesDone
<1>9. S = {j \in DOMAIN s2c[p] : j > i /\ s2c[p][j][2] < s2c[p][i][2]}
  OBVIOUS
<1> HIDE DEF S, f
<1>10. IsFiniteSet(S) /\ Cardinality(S) <= Cardinality(Late(p, m))
  BY <1>6, <1>7, <1>8, NoLarger
<1>11. /\ Cardinality(S) \in Nat /\ Cardinality(Late(p, m)) \in Nat
       /\ Cardinality(Worker) \in Nat
  BY <1>6, <1>10, ConstantsAssumption, FS_CardinalityType
<1> QED BY <1>5, <1>9, <1>10, <1>11

\* A reply overtakes fewer replies than there are workers, however many
\* clients, lines and workers there are, as long as replies go straight.
THEOREM OrderCorrect == OwnClients /\ Spec => []RepliesInOrder
<1> SUFFICES ASSUME OwnClients PROVE Spec => []RepliesInOrder
  OBVIOUS
<1>1. (Straight => OrderInv) => RepliesInOrder
  BY FewOvertaken
<1>2. Spec => [](Straight => OrderInv)
  BY OrderInvariance
<1> QED BY <1>1, <1>2, PTL
-----------------------------------------------------------------------------
(* Patient clients *)

\* Only the client itself ends its session.
LEMMA HangsUp ==
    ASSUME TypeOK, [Next]_vars, NEW p \in Pid, cli[p] # "closed",
           cli'[p] = "closed"
    PROVE  \/ ClientExit(p) \/ ClientAuthorised(p)
           \/ \E k \in Commands : ClientSend(p, k)
<1>a. cli \in [Pid -> CliStates]
  BY DEF TypeOK
<1>1. ~UNCHANGED cli
  OBVIOUS
<1>2. ~MainStep
  BY <1>1 DEF MainStep, Check, PollSleep, PollReturn, HskRead, HskEnd, RpcEnd,
     HskOk, HskDrop, AuthOk, AuthReject, RpcDone, TakeResult, SweepNext,
     SweepHangup, SweepTask, SweepQuit, SweepIgnore, SweepEnd, Teardown,
     clientVars
<1>3. ASSUME NEW w \in Worker, WorkerStep(w) PROVE FALSE
  <2>1. CASE FinishHandshake(w)
    <3>1. cli' = [cli EXCEPT ![PidOf(work[w])] = "half"]
      BY <2>1 DEF FinishHandshake
    <3> QED BY <1>a, <3>1
  <2> QED BY <1>1, <1>3, <2>1 DEF WorkerStep, Dequeue, WorkerExit,
          FinishSilently, Finish, clientVars
<1>4. ~SigShutdown /\ ~UNCHANGED vars
  BY <1>1 DEF SigShutdown, clientVars, vars
<1>5. PICK q \in Pid : ClientStep(q)
  BY <1>2, <1>3, <1>4 DEF Next
<1>6. ~Sigusr1(q) /\ ~ClientOpen(q)
  BY <1>a DEF Sigusr1, ClientOpen
<1>7. CASE q = p
  BY <1>5, <1>6, <1>7 DEF ClientStep, ClientRead
<1>8. CASE q # p
  <2>1. \E v : cli' = [cli EXCEPT ![q] = v] \/ cli' = cli
    BY <1>5, <1>6 DEF ClientStep, ClientExit, ClientAuthorised, ClientRead,
       ClientSend
  <2> QED BY <1>a, <1>8, <2>1
<1> QED BY <1>7, <1>8

\* A Disconnect that is on its way is behind lines that have been dealt with.
LEMMA QuitAloneStep ==
    ASSUME Patient, TypeOK, SignalsOnce, Numbered, Numbered', Pipeline,
           QuitAlone, NEW p \in Pid, FifoOrder(p), [Next]_vars,
           NEW n \in 1..MaxSend, NEW m \in 1..n - 1,
           kind'[<<p, n>>] = "DISCONNECT", stage'[<<p, n>>] = "sent"
    PROVE  stage'[<<p, m>>] = "done"
<1>1. /\ MaxSend \in Nat /\ sent[p] \in Nat /\ m \in 1..MaxSend /\ m < n
      /\ <<p, m>> \in Req /\ <<p, n>> \in Req
  BY ConstantsAssumption, SMTT(30) DEF TypeOK, Req
<1>2. PICK r \in Req, x \in Req : r = <<p, m>> /\ x = <<p, n>>
  BY <1>1
<1>3. /\ n > sent[p] => stage[x] = "none"
      /\ n > sent'[p] => stage'[x] = "none"
      /\ n <= sent[p] => stage[x] # "none"
      /\ m <= sent[p] => stage[r] # "none"
  BY <1>1, <1>2, ZenonT(60) DEF Numbered, FifoOrder
<1>4. CASE \E k \in Commands : ClientSend(p, k)
  <2>1. PICK k \in Commands : ClientSend(p, k)
    BY <1>4
  <2>2. /\ sent'[p] = sent[p] + 1
        /\ n = sent[p] + 1 => kind'[x] = k
        /\ n # sent[p] + 1 => stage'[x] = stage[x] /\ kind'[x] = kind[x]
        /\ m # sent[p] + 1 => stage'[r] = stage[r]
    BY <1>1, <1>2, <2>1, SendStage
  <2>3. CASE n = sent[p] + 1
    <3>1. Settled(p)
      BY <1>2, <2>1, <2>2, <2>3 DEF ClientSend
    <3>2. stage[r] \in {"none", "done"}
      BY <1>1, <1>2, <3>1 DEF Settled
    <3> QED BY <1>1, <1>2, <1>3, <2>2, <2>3, <3>2
  <2>4. CASE n # sent[p] + 1
    <3>1. stage[x] = "sent" /\ kind[x] = "DISCONNECT"
      BY <1>2, <2>2, <2>4
    <3>2. n <= sent[p]
      BY <1>1, <1>3, <3>1
    <3>3. stage[r] = "done"
      BY <1>2, <3>1 DEF QuitAlone
    <3> QED BY <1>1, <1>2, <2>2, <3>2, <3>3
  <2> QED BY <2>3, <2>4
<1>5. CASE ~\E k \in Commands : ClientSend(p, k)
  <2>1. sent'[p] = sent[p] /\ kind'[x] = kind[x]
    BY <1>1, <1>2, <1>5, OwnClientStep DEF OwnStep
  <2>2. stage[x] = "sent"
    <3>1. Ladder(x)
      BY RequestStep DEF OneStep
    <3>2. n <= sent[p]
      BY <1>1, <1>2, <1>3, <2>1
    <3> QED BY <1>2, <1>3, <3>1, <3>2 DEF Ladder
  <2>3. stage[r] = "done"
    BY <1>2, <2>1, <2>2 DEF QuitAlone
  <2> QED BY <1>2, <2>3, AnsweredStays
<1> QED BY <1>4, <1>5

\* A client whose Login has been answered has nothing else on its way.
LEMMA LoginSettled ==
    ASSUME TypeOK, Numbered, LoginFirst, NEW p \in Pid, ClientAuthorised(p),
           NEW n \in 1..MaxSend
    PROVE  stage[<<p, n>>] \in {"none", "done"}
<1>1. /\ cli[p] = "waiting" /\ s2c[p] # <<>> /\ s2c[p] \in Seq(Req)
      /\ LoginSent(p) /\ RepliesDone(p)
  BY DEF ClientAuthorised, LoginFirst, TypeOK
<1>2. sent[p] = 1
  BY <1>1 DEF LoginSent
<1>3. /\ s2c[p][1] \in Req /\ PidOf(s2c[p][1]) = p
      /\ s2c[p][1] # <<p, 0>> /\ stage[s2c[p][1]] = "done"
  BY <1>1 DEF RepliesDone
<1>4. PICK m \in 1..MaxSend : s2c[p][1] = <<p, m>>
  <2>1. PICK q \in Pid, m \in 0..MaxSend : s2c[p][1] = <<q, m>>
    BY <1>3 DEF Req
  <2>2. q = p /\ m # 0
    BY <1>3, <2>1 DEF PidOf
  <2> QED BY <2>1, <2>2, ConstantsAssumption
<1>5. m = 1
  <2>1. m > sent[p] => stage[<<p, m>>] = "none"
    BY DEF Numbered
  <2> QED BY <1>2, <1>3, <1>4, <2>1
<1>6. CASE n = 1
  BY <1>3, <1>4, <1>5, <1>6
<1>7. CASE n # 1
  <2>1. n > sent[p] => stage[<<p, n>>] = "none"
    BY DEF Numbered
  <2> QED BY <1>2, <1>7, <2>1
<1> QED BY <1>6, <1>7

\* A patient client hangs up when nothing of it is pending, unless it dies
\* because the server has closed its FIFOs; and stays so.
LEMMA ClosedSettledStep ==
    ASSUME OwnClients, Patient, TypeOK, SignalsOnce, Numbered, Numbered',
           Pipeline, ConnInv, LoginFirst, ClosedSettled, [Next]_vars,
           NEW p \in Pid, FifoOrder(p), cli'[p] = "closed", sfd'[p],
           NEW n \in 1..MaxSend
    PROVE  \/ stage'[<<p, n>>] \in {"none", "done"}
           \/ stage'[<<p, n>>] = "sent" /\ kind'[<<p, n>>] = "DISCONNECT"
<1>1. PICK r \in Req : r = <<p, n>>
  <2>1. n \in 0..MaxSend
    BY ConstantsAssumption
  <2> QED BY <2>1 DEF Req
<1>2. /\ IsLine(r) /\ sent[p] \in Nat /\ MaxSend \in Nat
      /\ cli \in [Pid -> CliStates]
  BY <1>1, ConstantsAssumption, SMTT(30) DEF TypeOK, IsLine
<1>3. /\ n > sent'[p] => stage'[r] = "none"
      /\ n <= sent[p] => stage[r] # "none"
  BY <1>1, ZenonT(60) DEF Numbered, FifoOrder
<1>4. CASE cli[p] = "closed"
  <2>1. ~\E k \in Commands : ClientSend(p, k)
    BY <1>4 DEF ClientSend
  <2>2. sent'[p] = sent[p] /\ kind'[r] = kind[r]
    BY <1>1, <2>1, ConstantsAssumption, OwnClientStep DEF OwnStep
  <2>3. sfd[p]
    BY <1>4, <2>1, FifoStep DEF FifoMove
  <2>4. \/ stage[r] \in {"none", "done"}
        \/ stage[r] = "sent" /\ kind[r] = "DISCONNECT"
    BY <1>1, <1>4, <2>3 DEF ClosedSettled
  <2>5. CASE stage[r] = "none"
    BY <1>1, <1>2, <1>3, <2>2, <2>5
  <2>6. CASE stage[r] = "done"
    BY <1>1, <2>6, AnsweredStays
  <2>7. CASE stage[r] = "sent" /\ kind[r] = "DISCONNECT"
    BY <1>1, <1>2, <2>2, <2>7, DisconnectNoTask
  <2> QED BY <2>4, <2>5, <2>6, <2>7
<1>5. CASE cli[p] # "closed"
  <2>1. ASSUME NEW k \in Commands, ClientSend(p, k)
        PROVE  \/ stage'[r] \in {"none", "done"}
               \/ stage'[r] = "sent" /\ kind'[r] = "DISCONNECT"
    <3>1. /\ n = sent[p] + 1 => stage'[r] = "sent" /\ kind'[r] = k
          /\ n # sent[p] + 1 => stage'[r] = stage[r]
      BY <1>1, <2>1, SendStage
    <3>2. k = "DISCONNECT" /\ Settled(p)
      <4>1. sfd[p]
        BY <2>1 DEF ClientSend, serverVars, connVars
      <4>2. \E s \in AfterLine(p, k) : cli' = [cli EXCEPT ![p] = s]
        BY <2>1 DEF ClientSend
      <4>3. "closed" \in AfterLine(p, k)
        BY <1>2, <4>2
      <4>4. k = "DISCONNECT"
        BY <4>1, <4>3 DEF AfterLine
      <4> QED BY <2>1, <4>4 DEF ClientSend
    <3>3. stage[r] \in {"none", "done"}
      BY <1>1, <3>2 DEF Settled
    <3> QED BY <3>1, <3>2, <3>3
  <2>2. CASE ClientExit(p)
    <3>1. Settled(p) /\ stage' = stage
      BY <2>2 DEF ClientExit, reqVars
    <3> QED BY <3>1 DEF Settled
  <2>3. CASE ClientAuthorised(p)
    <3>1. stage' = stage
      BY <2>3 DEF ClientAuthorised, reqVars
    <3> QED BY <2>3, <3>1, LoginSettled
  <2> QED BY <1>1, <1>5, <2>1, <2>2, <2>3, HangsUp
<1> QED BY <1>4, <1>5

\* Nothing is outstanding for the client the sweep removes.
LEMMA SweptIdle ==
    ASSUME OwnInv, SlotsOpen, QuitAlone, ClosedSettled,
           \A p \in Pid : ReadInOrder(p), SweepHangup \/ SweepQuit,
           NEW a \in Addr, a = slots[at].client
    PROVE  heap[a].alloc /\ ~heap[a].dead /\ Outstanding(a) = {}
<1>1. AtSlot /\ TypeOK /\ Numbered /\ Pipeline /\ ConnInv /\ References
  BY DEF SweepHangup, SweepQuit, AtLine, OwnInv, IInv
<1>2. at \in DOMAIN slots /\ slots[at] \in Slot
  BY <1>1, SlotAtType DEF TypeOK, AtSlot
<1>3. PICK p \in Pid : p = slots[at].fd
  BY <1>1, SlotAtType
<1>4. heap[a].alloc /\ ~heap[a].dead /\ heap[a].pid = p
  BY <1>1, <1>2, <1>3 DEF ConnInv, SlotsMatchRegistry
<1>5. ASSUME NEW r \in Outstanding(a) PROVE FALSE
  <2>1. pc # "done"
    BY <1>1 DEF AtSlot
  <2>2. r \in Req /\ stage[r] \in Holding /\ owner[r] = a /\ PidOf(r) = p
    BY <1>1, <1>4, <2>1 DEF References, Outstanding
  <2>3. IsLine(r)
    BY <1>1, <2>2, ConstantsAssumption DEF Numbered, IsLine
  <2>4. PICK m \in 1..MaxSend : r = <<p, m>>
    BY <2>2, <2>3, ReqCases DEF IsLine, PidOf
  <2>5. CASE SweepHangup
    <3>1. cli[p] = "closed"
      BY <1>2, <1>3, <2>5 DEF SweepHangup, SlotsOpen
    <3>2. sfd[p]
      BY <1>1, <1>4 DEF ConnInv, DescriptorsOwned, Owned
    <3> QED BY <2>2, <2>4, <3>1, <3>2 DEF ClosedSettled, Holding
  <2>6. CASE SweepQuit
    <3>1. PICK x : x = Head(c2s[p])
      OBVIOUS
    <3>2. x \in Req /\ stage[x] = "sent" /\ IsLine(x) /\ PidOf(x) = p
      BY <1>1, <1>3, <2>6, <3>1, SlotOfSweep
    <3>3. kind[x] = "DISCONNECT"
      BY <1>3, <1>4, <2>6, <3>1 DEF SweepQuit
    <3>4. PICK n \in 1..MaxSend : x = <<p, n>>
      BY <3>2, ReqCases DEF IsLine, PidOf
    <3>5. CASE m < n
      <4>1. m \in 1..n - 1
        BY <3>5
      <4> QED BY <2>2, <2>4, <3>2, <3>3, <3>4, <4>1 DEF QuitAlone, Holding
    <3>6. CASE n < m
      <4>1. n \in 1..m - 1
        BY <3>6
      <4> QED BY <2>2, <2>4, <3>2, <3>4, <4>1 DEF ReadInOrder, Holding
    <3>7. CASE m = n
      BY <2>2, <2>4, <3>2, <3>4, <3>7 DEF Holding
    <3> QED BY <3>5, <3>6, <3>7
  <2> QED BY <2>5, <2>6
<1> QED BY <1>4, <1>5

\* So a client is freed in the step that removes it.
LEMMA NoneDeadStep ==
    ASSUME OwnInv, SlotsOpen, QuitAlone, ClosedSettled, NoneDead,
           \A p \in Pid : ReadInOrder(p), [Next]_vars
    PROVE  NoneDead'
<1> SUFFICES ASSUME NEW a \in Addr, heap'[a].alloc, heap'[a].dead
             PROVE  FALSE
  BY TypeStep DEF NoneDead, OwnInv, IInv, TypeOK, ActiveClient
<1>1. /\ TypeOK /\ Numbered /\ Pipeline /\ References /\ CountsExact
      /\ ResultKinds /\ LoginFirst /\ ConnInv
  BY DEF OwnInv, IInv
<1>2. ~KeepsLife(heap, heap')
  BY DEF KeepsLife, NoneDead
<1>3. CASE SweepHangup \/ SweepQuit
  <2>1. PICK b : b = slots[at].client
    OBVIOUS
  <2>2. b \in Addr
    <3>1. AtSlot
      BY <1>3 DEF SweepHangup, SweepQuit, AtLine
    <3> QED BY <1>1, <2>1, <3>1, SlotAtType
  <2>3. heap[b].alloc /\ ~heap[b].dead /\ Outstanding(b) = {}
    BY <1>3, <2>1, <2>2, SweptIdle
  <2>4. heap[b].refcount = 1
    <3>1. heap[b].refcount = 1 + Cardinality(Outstanding(b))
      BY <1>1, <2>2, <2>3 DEF CountsExact
    <3>2. Cardinality(Outstanding(b)) = 0
      BY <2>3, FS_EmptySet
    <3> QED BY <3>1, <3>2
  <2>5. heap' = Removed(heap, b) /\ heap \in [Addr -> ActiveClient]
    BY <1>1, <1>3, <2>1 DEF SweepHangup, SweepQuit, RemoveSwept, FreeClients,
       TypeOK
  <2>6. a # b
    BY <2>2, <2>4, <2>5, RemoveLast
  <2>7. heap'[a] = heap[a]
    BY <2>2, <2>5, <2>6, RemovedEffect
  <2> QED BY <2>7 DEF NoneDead
<1> QED BY <1>1, <1>2, <1>3, DeathStep

\* The record a result names is never freed by the release of its reference,
\* so no step breaks a rule of C.
LEMMA NoFaultsStep ==
    ASSUME TypeOK, Numbered, Pipeline, References, NoneDead, NoFaults,
           [Next]_vars
    PROVE  NoFaults'
<1> SUFFICES UNCHANGED faults
  BY DEF NoFaults
<1>1. ASSUME NEW r \in Req, AuthOk(r) \/ AuthReject(r) \/ RpcDone(r)
      PROVE  UNCHANGED faults
  <2>1. TakeResult(r) /\ result[r] \in Results
    BY <1>1 DEF AuthOk, AuthReject, RpcDone, Results
  <2>2. PICK a \in Addr : a = owner[r] /\ heap[a].alloc /\ ~heap[a].dead
    BY <2>1, NamedByResult DEF NoneDead
  <2>3. Released(heap, a)[a].alloc
    <3>1. Spares(heap, Released(heap, a))
      BY ReleasedEffect DEF TypeOK
    <3> QED BY <2>2, <3>1 DEF Spares
  <2> QED BY <1>1, <2>2, <2>3 DEF AuthOk, AuthReject, RpcDone, Touch
<1>2. CASE MainStep
  BY <1>1, <1>2 DEF MainStep, Check, PollSleep, PollReturn, HskRead, HskEnd,
     RpcEnd, HskOk, HskDrop, SweepNext, SweepHangup, SweepTask, SweepQuit,
     SweepIgnore, SweepEnd, Teardown, connVars
<1>3. ASSUME NEW w \in Worker, WorkerStep(w) PROVE UNCHANGED faults
  BY <1>3 DEF WorkerStep, Dequeue, WorkerExit, FinishHandshake, FinishSilently,
     Finish, connVars
<1>4. ASSUME NEW p \in Pid, ClientStep(p) PROVE UNCHANGED faults
  BY <1>4 DEF ClientStep, Sigusr1, ClientOpen, ClientAuthorised,
     ClientRead, ClientExit, ClientSend, serverVars, connVars
<1>5. CASE SigShutdown \/ UNCHANGED vars
  BY <1>5 DEF SigShutdown, vars, connVars
<1> QED BY <1>2, <1>3, <1>4, <1>5 DEF Next

\* A client that leaves only when all its lines have been answered is never
\* touched after it has been freed.
THEOREM PatientSafe == OwnClients /\ Patient /\ Spec => []NoFaults
<1> SUFFICES ASSUME OwnClients, Patient PROVE Spec => []NoFaults
  OBVIOUS
<1>1. ASSUME Init PROVE PatientInv
  <2>1. /\ faults = {}
        /\ \A p \in Pid : cli[p] = "idle"
        /\ \A r \in Req : kind[r] = "HANDSHAKE"
        /\ \A a \in Addr : ~heap[a].alloc
    BY <1>1 DEF Init, Freed
  <2>2. NoFaults /\ NoneDead /\ ClosedSettled
    BY <2>1 DEF NoFaults, NoneDead, ClosedSettled
  <2>3. QuitAlone
    <3> SUFFICES ASSUME NEW p \in Pid, NEW n \in 1..MaxSend
                 PROVE  kind[<<p, n>>] # "DISCONNECT"
      BY DEF QuitAlone
    <3>1. <<p, n>> \in Req
      BY ConstantsAssumption DEF Req
    <3> QED BY <2>1, <3>1
  <2> QED BY <1>1, <2>2, <2>3, ReplyInvInit, OrderInvInit DEF PatientInv
<1>2. ASSUME PatientInv, [Next]_vars PROVE PatientInv'
  <2>1. /\ TypeOK /\ SignalsOnce /\ Numbered /\ Pipeline /\ ConnInv
        /\ LoginFirst /\ References /\ OwnInv /\ ReplyInv /\ SlotsOpen
        /\ OrderInv /\ Straight /\ QuitAlone /\ ClosedSettled /\ NoneDead
        /\ NoFaults
        /\ \A p \in Pid : FifoOrder(p) /\ ReadInOrder(p)
    BY <1>2 DEF PatientInv, OrderInv, ReplyInv, OwnInv, IInv
  <2>2. NoFaults'
    BY <1>2, <2>1, NoFaultsStep
  <2>3. Straight'
    BY <1>2, <2>1, <2>2, StraightStep DEF NoFaults
  <2>4. OrderInv'
    BY <1>2, <2>1, <2>3, OrderInvStep
  <2>5. Numbered'
    BY <2>4 DEF OrderInv, ReplyInv, OwnInv, IInv
  <2>6. QuitAlone'
    <3> SUFFICES ASSUME NEW p \in Pid, NEW n \in 1..MaxSend,
                        NEW m \in 1..n - 1, kind'[<<p, n>>] = "DISCONNECT",
                        stage'[<<p, n>>] = "sent"
                 PROVE  stage'[<<p, m>>] = "done"
      BY DEF QuitAlone
    <3> QED BY <1>2, <2>1, <2>5, QuitAloneStep
  <2>7. ClosedSettled'
    <3> SUFFICES ASSUME NEW p \in Pid, cli'[p] = "closed", sfd'[p],
                        NEW n \in 1..MaxSend
                 PROVE  \/ stage'[<<p, n>>] \in {"none", "done"}
                        \/ /\ stage'[<<p, n>>] = "sent"
                           /\ kind'[<<p, n>>] = "DISCONNECT"
      BY DEF ClosedSettled
    <3> QED BY <1>2, <2>1, <2>5, ClosedSettledStep
  <2>8. NoneDead'
    BY <1>2, <2>1, NoneDeadStep
  <2> QED BY <2>2, <2>3, <2>4, <2>6, <2>7, <2>8 DEF PatientInv
<1>3. PatientInv => NoFaults
  BY DEF PatientInv
<1> QED BY <1>1, <1>2, <1>3, PTL DEF Spec
=============================================================================
