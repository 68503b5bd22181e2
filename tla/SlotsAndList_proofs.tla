------------------------- MODULE SlotsAndList_proofs -------------------------
(***************************************************************************)
(* The poll slots and the registry for any number of clients and any       *)
(* memory.                                                                 *)
(***************************************************************************)
EXTENDS SlotsAndListProperties, TLAPS

(* The inductive invariant, part by part. *)

\* InBounds, and what server_grow_pollslots has established so far.
Bounds ==
    /\ InBounds
    /\ pc = "grow" => count = capacity
    /\ pc = "grow2" => psize = 2 * capacity /\ 2 * capacity <= MAX_CAPACITY

\* ListIntact, and the registry is empty once creg_destroy has the list.
Links == ListIntact /\ (Ended => cr_clients = NULL)

\* The registry has a reference, until creg_remove has dropped it.
Held(c) == c \in Listed \/ (pc = "release" /\ c = client)

\* Records are allocated as long as somebody refers to them, and descriptors
\* are open as long as their records.
Records ==
    /\ Listed \subseteq heap
    /\ \A c \in heap : c2s_fd[c] \in Fd
    /\ \A c, d \in heap : c2s_fd[c] = c2s_fd[d] => c = d
    /\ \A c \in heap :
         /\ refcount[c] = requests[c] + IF Held(c) THEN 1 ELSE 0
         /\ ~Held(c) => requests[c] > 0
         /\ dead[c] = (c \notin Listed
                         \/ (pc \in {"unlink", "seek"} /\ c = client))
    /\ ~Ended => \A c \in Client \ heap : requests[c] = 0

\* What the locals of main are.
Work ==
    /\ pc \in Between \cup {"find"} =>
         client \in Listed /\ (pc \in {"insert", "grow", "grow2", "place",
                                       "find"} => fd = c2s_fd[client])
    /\ pc = "find" => \E j \in i..(count - 1) :
                        pfds[j] = fd /\ clients[j] = client
    /\ pc = "release" => client \in heap /\ client \notin Listed
    /\ pc = "seek" => \E j, k \in DOMAIN order :
                        j <= k /\ order[j] = curr /\ order[k] = client

\* Who holds the lock.
Locking ==
    /\ lock = "main" <=> pc = "seek"
    /\ lock # "worker" => wcurr = NULL
    /\ wcurr # NULL => wcurr \in Listed
    /\ Ended => lock = "free"

IInv ==
    TypeOK /\ Bounds /\ Links /\ SlotsNameListed /\ Records /\ Work /\ Locking
-----------------------------------------------------------------------------
(* Sequences *)

\* What creg_insert makes of the list.
LEMMA Consed ==
    ASSUME NEW s \in Seq(Client), NEW c \in Client
    PROVE  LET t == <<c>> \o s IN
           /\ t \in Seq(Client) /\ Len(t) = Len(s) + 1 /\ t[1] = c
           /\ \A k \in 1..Len(s) : t[k + 1] = s[k]
           /\ \A k \in 2..Len(t) : t[k] = s[k - 1]
  OBVIOUS

\* What creg_unlink makes of it.
LEMMA WithoutFacts ==
    ASSUME NEW s \in Seq(Client), NEW m \in DOMAIN s,
           \A j, k \in DOMAIN s : s[j] = s[k] => j = k
    PROVE  LET t == Without(s, s[m]) IN
           /\ t \in Seq(Client) /\ Len(t) = Len(s) - 1
           /\ \A k \in 1..Len(t) : t[k] = IF k < m THEN s[k] ELSE s[k + 1]
  <1>1. (CHOOSE k \in DOMAIN s : s[k] = s[m]) = m
    OBVIOUS
  <1>2. Without(s, s[m]) = [j \in 1..(Len(s) - 1) |-> IF j < m THEN s[j] ELSE s[j + 1]]
    BY <1>1 DEF Without
  <1>3. [j \in 1..(Len(s) - 1) |-> IF j < m THEN s[j] ELSE s[j + 1]] \in Seq(Client)
    <2>1. Len(s) - 1 \in Nat
      OBVIOUS
    <2>2. \A j \in 1..(Len(s) - 1) : (IF j < m THEN s[j] ELSE s[j + 1]) \in Client
      OBVIOUS
    <2>3. QED
      BY <2>1, <2>2
  <1>4. QED
    BY <1>2, <1>3

\* What creg_destroy makes of it.
LEMMA TailFacts ==
    ASSUME NEW s \in Seq(Client), s # <<>>
    PROVE  /\ Tail(s) \in Seq(Client) /\ Len(Tail(s)) = Len(s) - 1
           /\ \A k \in 1..Len(Tail(s)) : Tail(s)[k] = s[k + 1]
  OBVIOUS
-----------------------------------------------------------------------------
(* The initial states, and steps that change nothing *)

LEMMA InitIInv == Init => IInv
  <1> SUFFICES ASSUME Init PROVE IInv
    OBVIOUS
  <1> USE SlotsConstants DEF Init
  <1>1. TypeOK
    BY DEF TypeOK, Index
  <1>2. Slots = {} /\ Listed = {}
    BY DEF Slots, Listed
  <1>3. Bounds
    <2>1. 0 \in Index /\ 1 \in Index
      BY DEF Index
    <2>2. pfds[0] = "hsk" /\ pfds[1] = "rpc"
      BY <2>1
    <2>3. QED
      BY <2>2 DEF Bounds, InBounds, Ended
  <1>4. Links
    BY DEF Links, ListIntact, First, Ended
  <1>5. SlotsNameListed
    BY <1>2 DEF SlotsNameListed
  <1>6. Records
    BY <1>2 DEF Records
  <1>7. Work
    BY DEF Work, Between
  <1>8. Locking
    BY DEF Locking, Ended
  <1>9. QED
    BY <1>1, <1>3, <1>4, <1>5, <1>6, <1>7, <1>8 DEF IInv
-----------------------------------------------------------------------------
(* Bounds *)

\* The slot whose descriptor the search finds is the client's, and no self
\* pipe's.
LEMMA FoundSlot ==
    ASSUME IInv, pc = "find", i < count, pfds[i] = fd
    PROVE  i \in Slots /\ clients[i] = client
  <1>1. client \in Listed /\ client \in heap /\ fd = c2s_fd[client] /\ fd \in Fd
    BY DEF IInv, Work, Records, Between
  <1>2. pfds[0] = "hsk" /\ pfds[1] = "rpc" /\ ~Ended
    BY DEF IInv, Bounds, InBounds, Ended
  <1>3. i # 0 /\ i # 1
    BY <1>1, <1>2, SlotsConstants
  <1>4. i \in Slots
    BY <1>3 DEF Slots, IInv, TypeOK
  <1>5. clients[i] \in heap /\ pfds[i] = c2s_fd[clients[i]]
    BY <1>2, <1>4 DEF IInv, SlotsNameListed, Records
  <1>6. clients[i] = client
    BY <1>1, <1>5 DEF IInv, Records
  <1>7. QED
    BY <1>4, <1>6

LEMMA BoundsStep == IInv /\ Next => Bounds'
  <1> SUFFICES ASSUME IInv, Next PROVE Bounds'
    OBVIOUS
  <1> USE SlotsConstants
  <1> DEFINE Sizes == <<psize, csize, capacity, count, pfds>>
  <1>0. /\ Bounds /\ capacity \in 2..MAX_CAPACITY /\ count \in 2..MAX_CAPACITY
        /\ psize \in 0..MAX_CAPACITY /\ csize \in 0..MAX_CAPACITY
    BY DEF IInv, TypeOK
  <1>1. ASSUME Sizes' = Sizes, pc' \notin {"grow", "grow2", "place"},
               Ended => Ended'
        PROVE  Bounds'
    BY <1>0, <1>1 DEF Bounds, InBounds, Ended
  <1>2. CASE Insert
    BY <1>0, <1>2 DEF Bounds, InBounds, Ended, Insert, Full, arrayVars
  <1>3. CASE Grow
    BY <1>0, <1>3 DEF Bounds, InBounds, Ended, Grow, CapacityStays
  <1>4. CASE GrowClients
    BY <1>0, <1>4 DEF Bounds, InBounds, Ended, GrowClients
  <1>p. 0 \in DOMAIN pfds /\ 1 \in DOMAIN pfds
    BY DEF IInv, TypeOK, Index
  <1>5. CASE Place
    <2>1. pfds'[0] = pfds[0] /\ pfds'[1] = pfds[1]
      BY <1>0, <1>5, <1>p DEF Place
    <2>2. QED
      BY <1>0, <1>5, <2>1 DEF Bounds, InBounds, Ended, Place
  <1>6. CASE RemoveSlot
    <2>1. CASE i < count
      <3>1. /\ pfds[i] = fd /\ pc = "find" /\ count' = count - 1
            /\ pfds' = [[pfds EXCEPT ![i] = pfds[count - 1]] EXCEPT ![count - 1] = NULL]
        BY <1>6, <2>1 DEF RemoveSlot, Filled
      <3>2. i \in Slots
        BY <2>1, <3>1, FoundSlot
      <3>3. i \in 2..(count - 1) /\ count - 1 >= 2
        BY <1>0, <3>2 DEF Slots
      <3>4. pfds'[0] = pfds[0] /\ pfds'[1] = pfds[1]
        BY <3>1, <3>3, <1>p
      <3>5. QED
        BY <1>0, <1>6, <3>1, <3>3, <3>4 DEF Bounds, InBounds, Ended, RemoveSlot
    <2>2. CASE ~(i < count)
      BY <1>0, <1>6, <2>2 DEF Bounds, InBounds, Ended, RemoveSlot
    <2>3. QED
      BY <2>1, <2>2
  <1>7. CASE Teardown
    BY <1>0, <1>7 DEF Bounds, InBounds, Ended, Teardown
  <1>8. CASE ShareLock \/ ShareStep \/ ShareEnd
    BY <1>0, <1>8 DEF Bounds, InBounds, Ended, ShareLock, ShareStep, ShareEnd,
                      shareFrame, arrayVars
  <1>9. CASE \/ \E c \in Client, f \in Fd : CregInsert(c, f)
             \/ Acquire \/ \E c \in Client : Result(c) \/ Refuse(c)
             \/ \E j \in Slots : Leave(j)
             \/ Find \/ MarkDead \/ Lock \/ Seek \/ Unlink \/ Release
    BY <1>1, <1>9 DEF CregInsert, Acquire, Result, Refuse, Leave, Find,
                      MarkDead, Lock, Seek, Unlink, Release, arrayVars, Ended
  <1>10. CASE Destroy \/ DestroyEnd
    BY <1>1, <1>10 DEF Destroy, DestroyEnd, arrayVars, Ended
  <1>11. QED
    BY <1>2, <1>3, <1>4, <1>5, <1>6, <1>7, <1>8, <1>9, <1>10 DEF Next
-----------------------------------------------------------------------------
(* Types *)

LEMMA TypeStep == IInv /\ Next => TypeOK'
  <1> SUFFICES ASSUME IInv, Next PROVE TypeOK'
    OBVIOUS
  <1> USE SlotsConstants
  <1>0. TypeOK /\ Bounds /\ Bounds'
    BY BoundsStep DEF IInv
  <1>1. ASSUME NEW c \in Client, NEW f \in Fd, CregInsert(c, f) PROVE TypeOK'
    <2>1. order' \in Seq(Client)
      BY <1>0, <1>1, Consed DEF TypeOK, CregInsert
    <2>2. /\ next' \in [Client -> Client \cup {NULL}]
          /\ prev' \in [Client -> Client \cup {NULL}]
          /\ cr_count' \in Nat /\ cr_clients' \in Client \cup {NULL}
      BY <1>0, <1>1 DEF TypeOK, CregInsert, Behind
    <2>3. QED
      BY <1>0, <1>1, <2>1, <2>2 DEF TypeOK, CregInsert, arrayVars, workerVars
  <1>2. CASE Insert \/ Grow \/ GrowClients
    <2>1. CASE Insert
      BY <1>0, <2>1 DEF TypeOK, Insert, localVars, arrayVars, listVars,
         countVars, workerVars
    <2>2. CASE Grow
      BY <1>0, <2>2, SMTT(30) DEF TypeOK, Grow, CapacityStays, localVars, listVars,
         countVars, workerVars
    <2>3. CASE GrowClients
      BY <1>0, <2>3, SMTT(30) DEF TypeOK, GrowClients, localVars, listVars, countVars,
         workerVars, Bounds
    <2>4. QED
      BY <1>2, <2>1, <2>2, <2>3
  <1>3. CASE Place
    <2>1. /\ count' \in 2..MAX_CAPACITY
          /\ pfds' \in [Index -> Fd \cup {"hsk", "rpc", NULL}]
          /\ clients' \in [Index -> Client \cup {NULL}]
      <3>1. count' = count + 1 /\ count < capacity /\ capacity <= MAX_CAPACITY
        <4>1. count < capacity
          BY <1>0, <1>3 DEF Place, Bounds, InBounds, Ended
        <4>2. count' = count + 1 /\ capacity <= MAX_CAPACITY
          BY <1>0, <1>3 DEF TypeOK, Place
        <4>3. QED
          BY <4>1, <4>2
      <3>2. count' \in 2..MAX_CAPACITY
        <4>1. count \in 2..MAX_CAPACITY /\ capacity \in 2..MAX_CAPACITY
          BY <1>0 DEF TypeOK
        <4>2. \A n \in 2..MAX_CAPACITY, m \in 2..MAX_CAPACITY :
                n < m => n + 1 \in 2..MAX_CAPACITY
          OBVIOUS
        <4>3. QED
          BY <3>1, <4>1, <4>2
      <3>3. /\ pfds' \in [Index -> Fd \cup {"hsk", "rpc", NULL}]
            /\ clients' \in [Index -> Client \cup {NULL}]
        BY <1>0, <1>3 DEF TypeOK, Place
      <3>4. QED
        BY <3>2, <3>3
    <2>2. QED
      BY <1>0, <1>3, <2>1 DEF TypeOK, Place, localVars, listVars, countVars,
         workerVars
  <1>4. CASE Acquire
    <2>1. PICK j \in Slots :
            /\ refcount' = [refcount EXCEPT ![clients[j]] = @ + 1]
            /\ requests' = [requests EXCEPT ![clients[j]] = @ + 1]
            /\ requests[clients[j]] < MaxRequests
      BY <1>4 DEF Acquire
    <2>2. clients[j] \in Client
      <3>1. clients[j] \in Listed
        BY <1>4 DEF Acquire, IInv, SlotsNameListed, Ended
      <3>2. QED
        BY <3>1, <1>0 DEF Listed, TypeOK
    <2>3. refcount' \in [Client -> Nat] /\ requests' \in [Client -> 0..MaxRequests]
      BY <1>0, <2>1, <2>2 DEF TypeOK
    <2>4. QED
      BY <1>0, <1>4, <2>3 DEF TypeOK, Acquire, localVars, arrayVars, listVars,
         workerVars
  <1>5. ASSUME NEW c \in Client, Result(c) \/ Refuse(c) PROVE TypeOK'
    <2>1. c \in heap /\ c2s_fd[c] \in Fd
      <3>1. pc = "loop" /\ requests[c] > 0
        BY <1>5 DEF Result, Refuse
      <3>2. c \in heap
        BY <3>1 DEF IInv, Records, Ended
      <3>3. QED
        BY <3>2 DEF IInv, Records
    <2>2. refcount[c] \in Nat \ {0} /\ requests[c] \in (0..MaxRequests) \ {0}
      <3>1. requests[c] \in (0..MaxRequests) \ {0} /\ refcount[c] \in Nat
        BY <1>0, <1>5 DEF TypeOK, Result, Refuse
      <3>2. refcount[c] = requests[c] + IF Held(c) THEN 1 ELSE 0
        BY <2>1 DEF IInv, Records
      <3>3. QED
        BY <3>1, <3>2
    <2>3. /\ refcount' \in [Client -> Nat] /\ heap' \subseteq Client
          /\ requests' \in [Client -> 0..MaxRequests]
      <3>1. /\ refcount' = [refcount EXCEPT ![c] = @ - 1]
            /\ requests' = [requests EXCEPT ![c] = @ - 1]
            /\ heap' = heap \/ heap' = heap \ {c}
        BY <1>5 DEF Result, Refuse, Released
      <3>2. refcount \in [Client -> Nat] /\ heap \subseteq Client
            /\ requests \in [Client -> 0..MaxRequests]
        BY <1>0 DEF TypeOK
      <3>3. QED
        BY <3>1, <3>2, <2>2
    <2>4. CASE Result(c)
      BY <1>0, <2>3, <2>4 DEF TypeOK, Result, localVars, arrayVars, listVars,
         workerVars
    <2>5. CASE Refuse(c)
      BY <1>0, <2>1, <2>3, <2>5 DEF TypeOK, Refuse, arrayVars, listVars,
         workerVars
    <2>6. QED
      BY <1>5, <2>4, <2>5
  <1>6. ASSUME NEW j \in Slots, Leave(j) PROVE TypeOK'
    <2>1. clients[j] \in heap /\ pfds[j] \in Fd
      BY <1>6 DEF Leave, IInv, SlotsNameListed, Records, Ended
    <2>2. QED
      BY <1>0, <1>6, <2>1, SMTT(30) DEF TypeOK, Leave, arrayVars, listVars, countVars,
         workerVars
  <1>7. CASE Find
    BY <1>0, <1>7, SMTT(30) DEF TypeOK, Find, arrayVars, listVars, countVars, workerVars
  <1>8. CASE RemoveSlot
    <2>1. i \in Index /\ count - 1 \in Index /\ count > 2
      <3>1. PICK j \in i..(count - 1) : clients[j] = client /\ pfds[j] = fd
        BY <1>8 DEF RemoveSlot, IInv, Work
      <3>2. client \in Listed
        BY <1>8 DEF RemoveSlot, IInv, Work
      <3>3. /\ count \in 2..MAX_CAPACITY /\ i \in 0..MAX_CAPACITY
            /\ client # NULL
        BY <1>0, <3>2 DEF TypeOK, Listed
      <3>4. count # 2
        <4>1. pc = "find"
          BY <1>8 DEF RemoveSlot
        <4>2. \E n \in Slots : clients[n] = client
          BY <4>1, <3>2 DEF IInv, SlotsNameListed, Between, Ended
        <4>3. QED
          BY <4>2, <3>3 DEF Slots
      <3>5. QED
        BY <3>1, <3>3, <3>4 DEF Index
    <2>2. /\ count' \in 2..MAX_CAPACITY
          /\ pfds' \in [Index -> Fd \cup {"hsk", "rpc", NULL}]
          /\ clients' \in [Index -> Client \cup {NULL}]
      <3>1. /\ pfds' \in {pfds, Filled(pfds)}
            /\ clients' \in {clients, Filled(clients)}
            /\ count' \in {count, count - 1}
        BY <1>8 DEF RemoveSlot
      <3>2. ASSUME NEW S, NULL \in S, NEW a \in [Index -> S]
            PROVE  Filled(a) \in [Index -> S]
        BY <2>1, <3>2 DEF Filled
      <3>3. count' \in 2..MAX_CAPACITY
        BY <1>0, <2>1, <3>1 DEF TypeOK
      <3>4. pfds \in [Index -> Fd \cup {"hsk", "rpc", NULL}]
        BY <1>0 DEF TypeOK
      <3>5. Filled(pfds) \in [Index -> Fd \cup {"hsk", "rpc", NULL}]
        BY <3>2, <3>4
      <3>6. clients \in [Index -> Client \cup {NULL}]
        BY <1>0 DEF TypeOK
      <3>7. Filled(clients) \in [Index -> Client \cup {NULL}]
        BY <3>2, <3>6
      <3>8. QED
        BY <3>1, <3>3, <3>4, <3>5, <3>6, <3>7
    <2>3. QED
      BY <1>0, <1>8, <2>2 DEF TypeOK, RemoveSlot, localVars, listVars,
         countVars, workerVars
  <1>9. CASE MarkDead \/ Lock
    BY <1>0, <1>9 DEF TypeOK, MarkDead, Lock, localVars, arrayVars, listVars,
       countVars, workerVars
  <1>10. CASE Seek
    BY <1>0, <1>10 DEF TypeOK, Seek, arrayVars, listVars, countVars, workerVars
  <1>11. CASE Unlink
    <2>1. CASE curr = NULL
      BY <1>0, <1>11, <2>1 DEF TypeOK, Unlink, localVars, arrayVars, listVars,
         countVars, workerVars
    <2>2. CASE curr # NULL
      <3>1. PICK m \in DOMAIN order : order[m] = client
        BY <1>11 DEF Unlink, IInv, Work
      <3>2. order' \in Seq(Client) /\ cr_count' \in Nat
        <4>1. cr_count = Len(order) /\ Len(order) > 0
          BY <3>1, <1>0, <1>11 DEF Unlink, IInv, Links, ListIntact, Ended, TypeOK
        <4>2. QED
          <5>1. order \in Seq(Client) /\ order' = Without(order, order[m])
            BY <1>0, <1>11, <2>2, <3>1 DEF Unlink, TypeOK, listVars
          <5>2. \A j, k \in DOMAIN order : order[j] = order[k] => j = k
            BY DEF IInv, Links, ListIntact
          <5>3. order' \in Seq(Client)
            BY <5>1, <5>2, WithoutFacts
          <5>4. cr_count' = cr_count - 1
            BY <1>11, <2>2 DEF Unlink
          <5>5. QED
            BY <4>1, <5>1, <5>3, <5>4
      <3>3. /\ next' \in [Client -> Client \cup {NULL}]
            /\ prev' \in [Client -> Client \cup {NULL}]
            /\ cr_clients' \in Client \cup {NULL}
        <4>1. client \in Client
          BY <1>0, <3>1 DEF TypeOK
        <4>2. QED
          <5>1. next[client] \in Client \cup {NULL}
                  /\ prev[client] \in Client \cup {NULL}
            BY <4>1, <1>0 DEF TypeOK
          <5>2. cr_clients' \in {cr_clients, next[client]}
            BY <1>11, <2>2 DEF Unlink
          <5>3. cr_clients' \in Client \cup {NULL}
            BY <1>0, <5>1, <5>2 DEF TypeOK
          <5>4. next' = [d \in Client |-> IF d = client THEN NULL ELSE
                           IF d = prev[client] THEN next[client] ELSE next[d]]
            BY <1>11, <2>2 DEF Unlink
          <5>5. prev' = Backward(client)
            BY <1>11, <2>2 DEF Unlink
          <5>6. next' \in [Client -> Client \cup {NULL}]
            BY <1>0, <5>1, <5>4 DEF TypeOK
          <5>7. prev' \in [Client -> Client \cup {NULL}]
            BY <1>0, <5>1, <5>5 DEF TypeOK, Backward
          <5>8. QED
            BY <5>3, <5>6, <5>7
      <3>4. QED
        BY <1>0, <1>11, <3>2, <3>3 DEF TypeOK, Unlink, localVars, arrayVars,
           countVars, workerVars
    <2>3. QED
      BY <2>1, <2>2
  <1>12. CASE Release
    <2>1. client \in heap /\ refcount[client] > 0
      BY <1>0, <1>12 DEF TypeOK, Release, IInv, Work, Records, Held
    <2>2. refcount' \in [Client -> Nat] /\ heap' \subseteq Client
      BY <1>0, <1>12, <2>1, SMTT(30) DEF TypeOK, Release, Released
    <2>3. QED
      BY <1>0, <1>12, <2>2 DEF TypeOK, Release, localVars, arrayVars, listVars,
         workerVars
  <1>13. CASE Teardown \/ DestroyEnd
    <2>1. CASE Teardown
      <3>1. psize' = 0 /\ csize' = 0 /\ 0 \in 0..MAX_CAPACITY /\ 0 \in Nat
        BY <2>1 DEF Teardown
      <3>2. /\ curr' = cr_clients /\ cr_clients' = NULL /\ cr_count' = 0
            /\ pc' = "destroy"
            /\ UNCHANGED <<client, fd, i, pfds, clients, capacity, count, lock,
                           next, prev, order, countVars, workerVars>>
        BY <2>1 DEF Teardown
      <3>3. QED
        BY <1>0, <3>1, <3>2 DEF TypeOK, countVars, workerVars
    <2>2. CASE DestroyEnd
      BY <1>0, <2>2 DEF TypeOK, DestroyEnd, localVars, arrayVars, listVars,
         countVars, workerVars
    <2>3. QED
      BY <1>13, <2>1, <2>2
  <1>14. CASE Destroy
    <2>1. order # <<>>
      BY <1>14 DEF Destroy, IInv, Links, ListIntact, First
    <2>2. order' \in Seq(Client)
      BY <1>0, <1>14, <2>1, TailFacts DEF TypeOK, Destroy
    <2>3. curr' \in Client \cup {NULL} /\ heap' \subseteq Client
      BY <1>0, <1>14 DEF TypeOK, Destroy
    <2>4. QED
      BY <1>0, <1>14, <2>2, <2>3 DEF TypeOK, Destroy, arrayVars, workerVars
  <1>15. CASE ShareLock \/ ShareStep \/ ShareEnd
    BY <1>0, <1>15 DEF TypeOK, ShareLock, ShareStep, ShareEnd, shareFrame,
       localVars, arrayVars, listVars, countVars
  <1>16. QED
    <2>1. CASE \E c \in Client, f \in Fd : CregInsert(c, f)
      BY <1>1, <2>1
    <2>2. CASE \E c \in Client : Result(c) \/ Refuse(c)
      BY <1>5, <2>2
    <2>3. CASE \E j \in Slots : Leave(j)
      BY <1>6, <2>3
    <2>4. QED
      BY <2>1, <2>2, <2>3, <1>2, <1>3, <1>4, <1>7, <1>8, <1>9, <1>10, <1>11,
         <1>12, <1>13, <1>14, <1>15 DEF Next
-----------------------------------------------------------------------------
(* Links *)

\* creg_insert at the head.
LEMMA LinksInsert ==
    ASSUME IInv, NEW c \in Client, NEW f \in Fd, CregInsert(c, f)
    PROVE  Links'
  <1> DEFINE n == Len(order)
  <1>0. /\ order \in Seq(Client) /\ pc = "loop" /\ pc' = "insert"
        /\ next \in [Client -> Client \cup {NULL}]
        /\ prev \in [Client -> Client \cup {NULL}]
        /\ order' = <<c>> \o order /\ cr_clients' = c
    BY DEF IInv, TypeOK, CregInsert
  <1>1. /\ order' \in Seq(Client) /\ Len(order') = n + 1 /\ order'[1] = c
        /\ \A k \in 1..n : order'[k + 1] = order[k]
        /\ \A k \in 2..(n + 1) : order'[k] = order[k - 1]
    BY <1>0, Consed
  <1>2. \A k \in DOMAIN order : order[k] \in Client /\ order[k] # c
    <2>1. \A k \in DOMAIN order : order[k] \in heap
      BY DEF IInv, Records, Listed
    <2>2. QED
      BY <2>1, <1>0 DEF CregInsert
  <1>3. /\ \A j, k \in DOMAIN order : order[j] = order[k] => j = k
        /\ cr_clients = IF order = <<>> THEN NULL ELSE order[1]
        /\ cr_count = n
        /\ \A k \in DOMAIN order :
             /\ next[order[k]] = IF k = n THEN NULL ELSE order[k + 1]
             /\ prev[order[k]] = IF k = 1 THEN NULL ELSE order[k - 1]
    BY <1>0 DEF IInv, Links, ListIntact, First, Ended
  <1>4. /\ next'[c] = cr_clients /\ prev'[c] = NULL
        /\ \A d \in Client \ {c} :
             /\ next'[d] = next[d]
             /\ prev'[d] = IF d = cr_clients THEN c ELSE prev[d]
    BY <1>0 DEF CregInsert, Behind
  <1>5. \A j, k \in DOMAIN order' : order'[j] = order'[k] => j = k
    <2>1. \A k \in 2..(n + 1) : k - 1 \in DOMAIN order /\ order'[k] # c
      BY <1>0, <1>1, <1>2
    <2>2. QED
      BY <1>0, <1>1, <1>3, <2>1
  <1>6. ASSUME NEW k \in DOMAIN order'
        PROVE  /\ next'[order'[k]] = IF k = n + 1 THEN NULL ELSE order'[k + 1]
               /\ prev'[order'[k]] = IF k = 1 THEN NULL ELSE order'[k - 1]
    <2>1. CASE k = 1
      <3>1. n = 0 <=> order = <<>>
        BY <1>0
      <3>2. QED
        BY <2>1, <3>1, <1>0, <1>1, <1>3, <1>4
    <2>2. CASE k = 2
      <3>1. 1 \in DOMAIN order /\ order # <<>> /\ order'[2] = order[1]
        BY <2>2, <1>0, <1>1
      <3>2. prev'[order'[2]] = c
        BY <3>1, <1>2, <1>3, <1>4
      <3>3. next'[order'[2]] = IF 1 = n THEN NULL ELSE order[2]
        BY <3>1, <1>2, <1>3, <1>4
      <3>4. n # 1 => order'[3] = order[2]
        BY <3>1, <1>0, <1>1
      <3>5. QED
        BY <2>2, <3>1, <3>2, <3>3, <3>4, <1>0, <1>1
    <2>3. CASE k > 2
      <3>1. /\ k \in Nat /\ k - 1 \in DOMAIN order /\ k - 1 # 1 /\ order # <<>>
            /\ order'[k] = order[k - 1] /\ order'[k - 1] = order[k - 2]
            /\ k # n + 1 => order'[k + 1] = order[k]
        BY <2>3, <1>0, <1>1, SMTT(30)
      <3>2. order[k - 1] # cr_clients
        <4>1. cr_clients = order[1] /\ 1 \in DOMAIN order
          BY <3>1, <1>0, <1>3
        <4>2. QED
          BY <3>1, <4>1, <1>3
      <3>3. prev'[order'[k]] = order[k - 2]
        <4>1. prev[order[k - 1]] = order[(k - 1) - 1]
          BY <3>1, <1>3
        <4>2. (k - 1) - 1 = k - 2
          BY <3>1
        <4>3. prev'[order[k - 1]] = prev[order[k - 1]]
          BY <3>1, <3>2, <1>2, <1>4
        <4>4. QED
          BY <3>1, <4>1, <4>2, <4>3
      <3>4. next'[order'[k]] = IF k - 1 = n THEN NULL ELSE order[k]
        <4>1. next[order[k - 1]] = IF k - 1 = n THEN NULL ELSE order[(k - 1) + 1]
          BY <3>1, <1>3
        <4>2. (k - 1) + 1 = k
          BY <3>1
        <4>3. QED
          BY <3>1, <4>1, <4>2, <1>2, <1>4
      <3>5. (k - 1 = n) <=> (k = n + 1)
        BY <3>1, <1>0
      <3>6. QED
        BY <2>3, <3>1, <3>3, <3>4, <3>5
    <2>4. k = 1 \/ k = 2 \/ k > 2
      BY <1>1
    <2>5. QED
      BY <2>1, <2>2, <2>3, <2>4
  <1>7. cr_count' = n + 1
    BY <1>3 DEF CregInsert
  <1>8. order' # <<>>
    BY <1>1
  <1>9. pc' # "destroy" /\ ~Ended' /\ First' = order'[1]
    BY <1>0, <1>1 DEF First, Ended
  <1>10. QED
    BY <1>1, <1>5, <1>6, <1>7, <1>8, <1>9 DEF Links, ListIntact

\* creg_unlink takes the client at m out; what was at k is at k or k - 1.
LEMMA LinksUnlink ==
    ASSUME IInv, Unlink
    PROVE  /\ Links'
           /\ \E m \in DOMAIN order :
                order[m] = client /\ order' = Without(order, client)
  <1> DEFINE n == Len(order)
  <1>0. /\ order \in Seq(Client) /\ pc = "seek" /\ pc' = "release"
        /\ curr # NULL /\ client \in Client
    <2>1. PICK j, k \in DOMAIN order : order[j] = curr /\ order[k] = client
      BY DEF Unlink, IInv, Work
    <2>2. QED
      BY <2>1, SlotsConstants DEF Unlink, IInv, TypeOK
  <1>1. PICK m \in DOMAIN order : order[m] = client
    BY <1>0 DEF IInv, Work
  <1>2. /\ \A j, k \in DOMAIN order : order[j] = order[k] => j = k
        /\ cr_clients = IF order = <<>> THEN NULL ELSE order[1]
        /\ cr_count = n
        /\ \A k \in DOMAIN order :
             /\ next[order[k]] = IF k = n THEN NULL ELSE order[k + 1]
             /\ prev[order[k]] = IF k = 1 THEN NULL ELSE order[k - 1]
    BY <1>0 DEF IInv, Links, ListIntact, First, Ended
  <1>3. order' = Without(order, order[m])
    BY <1>0, <1>1 DEF Unlink
  <1>4. /\ order' \in Seq(Client) /\ Len(order') = n - 1
        /\ \A k \in 1..Len(order') :
             order'[k] = IF k < m THEN order[k] ELSE order[k + 1]
    BY <1>0, <1>2, <1>3, WithoutFacts
  <1>5. /\ m \in 1..n /\ n \in Nat
        /\ next[client] = IF m = n THEN NULL ELSE order[m + 1]
        /\ prev[client] = IF m = 1 THEN NULL ELSE order[m - 1]
    BY <1>0, <1>1, <1>2
  <1>6. \A k \in DOMAIN order : order[k] \in Client /\ order[k] # NULL
    BY <1>0, SlotsConstants
  <1>7. /\ next' = [d \in Client |-> IF d = client THEN NULL ELSE
                      IF d = prev[client] THEN next[client] ELSE next[d]]
        /\ prev' = [d \in Client |-> IF d = client THEN NULL ELSE
                      IF d = next[client] THEN prev[client] ELSE prev[d]]
        /\ cr_clients' = IF prev[client] = NULL THEN next[client]
                         ELSE cr_clients
        /\ cr_count' = n - 1
    BY <1>0, <1>2 DEF Unlink, Backward
  <1>8. \A j, k \in DOMAIN order' : order'[j] = order'[k] => j = k
    <2>1. ASSUME NEW j \in 1..(n - 1), NEW k \in 1..(n - 1), j # k
          PROVE  order'[j] # order'[k]
      <3>1. /\ j \in DOMAIN order /\ j + 1 \in DOMAIN order
            /\ k \in DOMAIN order /\ k + 1 \in DOMAIN order
        BY <1>0, <1>5
      <3>2. j # k /\ j + 1 # k + 1
        BY <2>1
      <3>3. j < m /\ ~(k < m) => j # k + 1
        BY <1>5
      <3>4. k < m /\ ~(j < m) => k # j + 1
        BY <1>5
      <3>5. QED
        BY <3>1, <3>2, <3>3, <3>4, <1>2, <1>4
    <2>2. DOMAIN order' = 1..(n - 1)
      BY <1>4
    <2>3. QED
      BY <2>1, <2>2
  <1>9. cr_clients' = IF order' = <<>> THEN NULL ELSE order'[1]
    <2>1. order # <<>> /\ cr_clients = order[1]
      BY <1>0, <1>2, <1>5
    <2>2. order' = <<>> <=> n = 1
      BY <1>4, <1>5
    <2>3. CASE m = 1
      <3>1. cr_clients' = IF 1 = n THEN NULL ELSE order[2]
        BY <2>3, <1>5, <1>7
      <3>2. n # 1 => order'[1] = order[2]
        BY <2>3, <1>4, <1>5
      <3>3. QED
        BY <3>1, <3>2, <2>2
    <2>4. CASE m # 1
      <3>1. prev[client] # NULL
        BY <2>4, <1>0, <1>5, <1>6
      <3>2. n # 1 /\ order'[1] = order[1]
        BY <2>4, <1>4, <1>5
      <3>3. QED
        BY <3>1, <3>2, <2>1, <2>2, <1>7
    <2>5. QED
      BY <2>3, <2>4
  <1>10. ASSUME NEW k \in DOMAIN order'
         PROVE  /\ next'[order'[k]] = IF k = n - 1 THEN NULL ELSE order'[k + 1]
                /\ prev'[order'[k]] = IF k = 1 THEN NULL ELSE order'[k - 1]
    <2>0. k \in 1..(n - 1) /\ k \in DOMAIN order /\ k + 1 \in DOMAIN order
      BY <1>0, <1>4, <1>5
    <2>1. CASE k < m
      <3>1. order'[k] = order[k] /\ order[k] # client /\ order[k] \in Client
        BY <2>0, <2>1, <1>1, <1>2, <1>4, <1>6
      <3>2. k # n /\ next[order[k]] = order[k + 1]
        BY <2>0, <1>2, <1>5
      <3>3. prev[order[k]] = IF k = 1 THEN NULL ELSE order'[k - 1]
        <4>1. prev[order[k]] = IF k = 1 THEN NULL ELSE order[k - 1]
          BY <2>0, <1>2
        <4>2. k # 1 => order'[k - 1] = order[k - 1]
          BY <2>0, <2>1, <1>4, <1>5
        <4>3. QED
          BY <4>1, <4>2
      <3>4. order[k] # next[client]
        BY <2>0, <2>1, <1>0, <1>2, <1>5, <1>6
      <3>5. prev'[order[k]] = prev[order[k]]
        BY <3>1, <3>4, <1>7
      <3>6. CASE k = m - 1
        <4>1. order[k] = prev[client] /\ k + 1 = m
          BY <3>6, <2>0, <1>5
        <4>2. next'[order[k]] = next[client]
          BY <4>1, <3>1, <1>7
        <4>3. k # n - 1 => order'[k + 1] = order[m + 1]
          BY <4>1, <2>0, <1>4, <1>5
        <4>4. k = n - 1 <=> m = n
          BY <4>1, <2>0, <1>5
        <4>5. QED
          BY <4>2, <4>3, <4>4, <3>1, <3>3, <3>5, <1>5
      <3>7. CASE k # m - 1
        <4>1. order[k] # prev[client]
          BY <3>7, <2>0, <1>0, <1>2, <1>5, <1>6
        <4>2. next'[order[k]] = order[k + 1]
          BY <4>1, <3>1, <3>2, <1>7
        <4>3. k # n - 1 /\ order'[k + 1] = order[k + 1]
          BY <3>7, <2>0, <2>1, <1>4, <1>5, SMTT(30)
        <4>4. QED
          BY <4>2, <4>3, <3>1, <3>3, <3>5
      <3>8. QED
        BY <3>6, <3>7
    <2>2. CASE k >= m
      <3>1. /\ order'[k] = order[k + 1] /\ order[k + 1] # client
            /\ order[k + 1] \in Client
        BY <2>0, <2>2, <1>1, <1>2, <1>4, <1>5, <1>6
      <3>2. order[k + 1] # prev[client]
        BY <2>0, <2>2, <1>0, <1>2, <1>5, <1>6
      <3>3. next'[order[k + 1]] = next[order[k + 1]]
        BY <3>1, <3>2, <1>7
      <3>4. next[order[k + 1]] = IF k + 1 = n THEN NULL ELSE order[(k + 1) + 1]
        BY <2>0, <1>2
      <3>5. k # n - 1 => order'[k + 1] = order[(k + 1) + 1]
        BY <2>0, <2>2, <1>4, <1>5
      <3>6. k + 1 = n <=> k = n - 1
        BY <2>0, <1>5
      <3>7. prev[order[k + 1]] = order[k]
        <4>1. prev[order[k + 1]] = IF k + 1 = 1 THEN NULL
                                   ELSE order[(k + 1) - 1]
          BY <2>0, <1>2
        <4>2. k + 1 # 1 /\ (k + 1) - 1 = k
          BY <2>0
        <4>3. QED
          BY <4>1, <4>2
      <3>8. CASE k = m
        <4>1. prev'[order[k + 1]] = prev[client]
          BY <3>8, <3>1, <2>0, <1>5, <1>7
        <4>2. k # 1 => order'[k - 1] = order[k - 1]
          BY <3>8, <2>0, <1>4, <1>5
        <4>3. QED
          BY <4>1, <4>2, <3>1, <3>3, <3>4, <3>5, <3>6, <3>8, <1>5
      <3>9. CASE k # m
        <4>1. order[k + 1] # next[client]
          BY <3>9, <2>0, <1>0, <1>2, <1>5, <1>6
        <4>2. prev'[order[k + 1]] = order[k]
          BY <4>1, <3>1, <3>7, <1>7
        <4>3. k # 1 /\ order'[k - 1] = order[k]
          BY <3>9, <2>0, <2>2, <1>4, <1>5
        <4>4. QED
          BY <4>2, <4>3, <3>1, <3>3, <3>4, <3>5, <3>6
      <3>10. QED
        BY <3>8, <3>9
    <2>3. QED
      BY <2>0, <2>1, <2>2, <1>5
  <1>11. pc' # "destroy" /\ ~Ended' /\ First' = cr_clients'
    BY <1>0 DEF First, Ended
  <1>12. Links'
    BY <1>4, <1>7, <1>8, <1>9, <1>10, <1>11, ZenonT(60) DEF Links, ListIntact
  <1>13. QED
    BY <1>1, <1>3, <1>12

\* creg_destroy goes on to the next record.
LEMMA LinksDestroy ==
    ASSUME IInv, Destroy
    PROVE  Links' /\ order # <<>> /\ curr = order[1] /\ order' = Tail(order)
  <1> DEFINE n == Len(order)
  <1>0. /\ order \in Seq(Client) /\ pc = "destroy" /\ pc' = "destroy"
        /\ curr # NULL /\ cr_clients' = NULL
    BY DEF Destroy, IInv, TypeOK, Links, Ended
  <1>1. /\ \A j, k \in DOMAIN order : order[j] = order[k] => j = k
        /\ curr = IF order = <<>> THEN NULL ELSE order[1]
        /\ \A k \in DOMAIN order :
             next[order[k]] = IF k = n THEN NULL ELSE order[k + 1]
    BY <1>0 DEF IInv, Links, ListIntact, First
  <1>2. order # <<>> /\ curr = order[1] /\ order' = Tail(order)
    BY <1>0, <1>1 DEF Destroy
  <1>3. /\ order' \in Seq(Client) /\ Len(order') = n - 1
        /\ \A k \in 1..(n - 1) : order'[k] = order[k + 1]
        /\ n \in Nat \ {0} /\ 1 \in DOMAIN order
    BY <1>0, <1>2, TailFacts
  <1>4. next' = next /\ prev' = prev /\ curr' = next[curr]
    BY DEF Destroy
  <1>5. \A j, k \in DOMAIN order' : order'[j] = order'[k] => j = k
    <2>1. \A j \in DOMAIN order' : j \in 1..(n - 1) /\ j + 1 \in DOMAIN order
      BY <1>0, <1>3
    <2>2. QED
      BY <2>1, <1>1, <1>3, SMTT(30)
  <1>6. curr' = IF order' = <<>> THEN NULL ELSE order'[1]
    <2>1. curr' = IF 1 = n THEN NULL ELSE order[1 + 1]
      BY <1>1, <1>2, <1>3, <1>4
    <2>2. order' = <<>> <=> n = 1
      BY <1>3
    <2>3. n # 1 => order'[1] = order[1 + 1]
      BY <1>3
    <2>4. QED
      BY <2>1, <2>2, <2>3
  <1>7. ASSUME NEW k \in DOMAIN order'
        PROVE  next'[order'[k]] = IF k = n - 1 THEN NULL ELSE order'[k + 1]
    <2>1. k \in 1..(n - 1) /\ k + 1 \in DOMAIN order /\ (k + 1 = n <=> k = n - 1)
      BY <1>0, <1>3
    <2>2. next[order[k + 1]] = IF k + 1 = n THEN NULL ELSE order[(k + 1) + 1]
      BY <2>1, <1>1
    <2>3. k # n - 1 => order'[k + 1] = order[(k + 1) + 1]
      BY <2>1, <1>3
    <2>4. QED
      BY <2>1, <2>2, <2>3, <1>3, <1>4
  <1>8. pc' = "destroy" /\ Ended' /\ First' = curr'
    BY <1>0 DEF First, Ended
  <1>9. Links'
    BY <1>0, <1>3, <1>5, <1>6, <1>7, <1>8 DEF Links, ListIntact
  <1>10. QED
    BY <1>2, <1>9

LEMMA LinksStep == IInv /\ Next => Links'
  <1> SUFFICES ASSUME IInv, Next PROVE Links'
    OBVIOUS
  <1>0. Links /\ Locking
    BY DEF IInv
  <1>1. ASSUME ~Ended, ~Ended', UNCHANGED listVars PROVE Links'
    BY <1>0, <1>1 DEF Links, ListIntact, First, Ended, listVars
  <1>2. CASE Unlink
    BY <1>2, LinksUnlink
  <1>3. CASE Teardown
    BY <1>0, <1>3 DEF Links, ListIntact, First, Ended, Teardown
  <1>4. CASE DestroyEnd
    <2>1. /\ pc = "destroy" /\ pc' = "end" /\ curr = NULL /\ cr_clients = NULL
          /\ UNCHANGED listVars
      BY <1>0, <1>4 DEF Links, DestroyEnd, Ended
    <2>2. First = NULL /\ First' = NULL /\ Ended /\ Ended'
      BY <2>1 DEF First, Ended, listVars
    <2>3. order \in Seq(Client)
      BY DEF IInv, TypeOK
    <2>4. order = <<>>
      BY <1>0, <2>2, <2>3, SlotsConstants DEF Links, ListIntact
    <2>5. QED
      BY <1>0, <2>1, <2>2, <2>4 DEF Links, ListIntact, listVars
  <1>5. CASE ShareLock \/ ShareStep \/ ShareEnd
    BY <1>0, <1>1, <1>5 DEF ShareLock, ShareStep, ShareEnd, shareFrame, Ended,
       Locking
  <1>6. CASE Insert \/ Grow \/ GrowClients \/ Place \/ Acquire \/ Find
             \/ RemoveSlot \/ MarkDead \/ Lock \/ Seek \/ Release
    BY <1>1, <1>6 DEF Insert, Grow, GrowClients, Place, Acquire, Find,
       RemoveSlot, MarkDead, Lock, Seek, Release, Ended
  <1>7. CASE \/ \E c \in Client : Result(c) \/ Refuse(c)
             \/ \E j \in Slots : Leave(j)
    BY <1>1, <1>7 DEF Result, Refuse, Leave, Ended
  <1>8. QED
    BY <1>2, <1>3, <1>4, <1>5, <1>6, <1>7, LinksInsert, LinksDestroy DEF Next
-----------------------------------------------------------------------------
(* Who is registered *)

LEMMA ListedInsert ==
    ASSUME IInv, NEW c \in Client, NEW f \in Fd, CregInsert(c, f)
    PROVE  Listed' = Listed \cup {c}
  <1>1. order \in Seq(Client) /\ order' = <<c>> \o order
    BY DEF IInv, TypeOK, CregInsert
  <1>2. /\ Len(order') = Len(order) + 1 /\ order'[1] = c
        /\ \A k \in 1..Len(order) : order'[k + 1] = order[k]
        /\ \A k \in 2..Len(order') : order'[k] = order[k - 1]
        /\ DOMAIN order' = 1..Len(order') /\ DOMAIN order = 1..Len(order)
        /\ Len(order) \in Nat
    BY <1>1, Consed
  <1>3. ASSUME NEW d \in Listed \cup {c} PROVE d \in Listed'
    <2>1. CASE d = c
      BY <2>1, <1>2 DEF Listed
    <2>2. CASE d \in Listed
      <3>1. PICK k \in 1..Len(order) : order[k] = d
        BY <2>2, <1>2 DEF Listed
      <3>2. k + 1 \in DOMAIN order'
        BY <1>2
      <3>3. QED
        BY <3>1, <3>2, <1>2 DEF Listed
    <2>3. QED
      BY <1>3, <2>1, <2>2
  <1>4. ASSUME NEW d \in Listed' PROVE d \in Listed \cup {c}
    <2>1. PICK k \in 1..Len(order') : order'[k] = d
      BY <1>2 DEF Listed
    <2>2. CASE k = 1
      BY <2>1, <2>2, <1>2
    <2>3. CASE k # 1
      <3>1. k - 1 \in DOMAIN order /\ order[k - 1] = d
        BY <2>1, <2>3, <1>2
      <3>2. QED
        BY <3>1 DEF Listed
    <2>4. QED
      BY <2>2, <2>3
  <1>5. QED
    BY <1>3, <1>4

LEMMA ListedUnlink ==
    ASSUME IInv, Unlink
    PROVE  Listed' = Listed \ {client} /\ client \in Listed
  <1>1. PICK m \in DOMAIN order :
            order[m] = client /\ order' = Without(order, client)
    BY LinksUnlink
  <1>2. /\ order \in Seq(Client)
        /\ \A j, k \in DOMAIN order : order[j] = order[k] => j = k
    BY DEF IInv, TypeOK, Links, ListIntact
  <1>3. /\ Len(order') = Len(order) - 1 /\ DOMAIN order' = 1..Len(order')
        /\ \A k \in 1..Len(order') :
             order'[k] = IF k < m THEN order[k] ELSE order[k + 1]
        /\ DOMAIN order = 1..Len(order) /\ Len(order) \in Nat
    BY <1>1, <1>2, WithoutFacts
  <1>4. ASSUME NEW d \in Listed' PROVE d \in Listed \ {client}
    <2>1. PICK k \in 1..Len(order') : order'[k] = d
      BY <1>3 DEF Listed
    <2>2. k \in DOMAIN order /\ k + 1 \in DOMAIN order
      BY <1>3
    <2>3. PICK q \in DOMAIN order : order[q] = d /\ q # m
      BY <2>1, <2>2, <1>3
    <2>4. QED
      BY <2>3, <1>1, <1>2 DEF Listed
  <1>5. ASSUME NEW d \in Listed \ {client} PROVE d \in Listed'
    <2>1. PICK k \in 1..Len(order) : order[k] = d /\ k # m
      BY <1>1, <1>3 DEF Listed
    <2>2. CASE k < m
      <3>1. k \in DOMAIN order' /\ order'[k] = d
        BY <2>1, <2>2, <1>3
      <3>2. QED
        BY <3>1 DEF Listed
    <2>3. CASE k > m
      <3>1. k - 1 \in DOMAIN order' /\ ~(k - 1 < m) /\ (k - 1) + 1 = k
        BY <2>1, <2>3, <1>3
      <3>2. order'[k - 1] = d
        BY <3>1, <2>1, <1>3
      <3>3. QED
        BY <3>1, <3>2 DEF Listed
    <2>4. QED
      BY <2>1, <2>2, <2>3, <1>3
  <1>6. client \in Listed
    BY <1>1 DEF Listed
  <1>7. QED
    BY <1>4, <1>5, <1>6

LEMMA ListedDestroy ==
    ASSUME IInv, Destroy
    PROVE  Listed' = Listed \ {curr} /\ curr \in Listed
  <1>1. /\ order \in Seq(Client) /\ order # <<>>
        /\ curr = order[1] /\ order' = Tail(order)
        /\ \A j, k \in DOMAIN order : order[j] = order[k] => j = k
    BY LinksDestroy DEF IInv, TypeOK, Links, ListIntact
  <1>2. /\ Len(order') = Len(order) - 1 /\ DOMAIN order' = 1..Len(order')
        /\ \A k \in 1..Len(order') : order'[k] = order[k + 1]
        /\ DOMAIN order = 1..Len(order) /\ Len(order) \in Nat \ {0}
    BY <1>1, TailFacts
  <1>3. ASSUME NEW d \in Listed' PROVE d \in Listed \ {curr}
    <2>1. PICK k \in 1..Len(order') : order'[k] = d
      BY <1>2 DEF Listed
    <2>2. k + 1 \in DOMAIN order /\ order[k + 1] = d /\ k + 1 # 1 /\ 1 \in DOMAIN order
      BY <2>1, <1>2
    <2>3. QED
      BY <2>2, <1>1 DEF Listed
  <1>4. ASSUME NEW d \in Listed \ {curr} PROVE d \in Listed'
    <2>1. PICK k \in 1..Len(order) : order[k] = d /\ k # 1
      BY <1>1, <1>2 DEF Listed
    <2>2. k - 1 \in DOMAIN order' /\ order'[k - 1] = d
      BY <2>1, <1>2
    <2>3. QED
      BY <2>2 DEF Listed
  <1>5. curr \in Listed
    BY <1>1, <1>2 DEF Listed
  <1>6. QED
    BY <1>3, <1>4, <1>5
-----------------------------------------------------------------------------
(* Slots *)

\* What server_remove_pollslots does to the arrays.
LEMMA RemovedSlot ==
    ASSUME IInv, RemoveSlot
    PROVE  /\ i \in Slots /\ clients[i] = client
           /\ Slots \subseteq Index /\ count - 1 \in Slots
           /\ Slots' = Slots \ {count - 1}
           /\ \A j \in Slots' :
                /\ clients'[j] = IF j = i THEN clients[count - 1] ELSE clients[j]
                /\ pfds'[j] = IF j = i THEN pfds[count - 1] ELSE pfds[j]
  <1>0. TypeOK /\ pc = "find" /\ pc' = "dead"
    BY DEF IInv, RemoveSlot
  <1>1. i < count
    <2>1. \E j \in i..(count - 1) : TRUE
      BY <1>0 DEF IInv, Work
    <2>2. i \in Nat /\ count \in Nat
      BY <1>0, SlotsConstants DEF TypeOK
    <2>3. QED
      BY <2>1, <2>2
  <1>2. /\ pfds[i] = fd /\ count' = count - 1
        /\ pfds' = [[pfds EXCEPT ![i] = pfds[count - 1]] EXCEPT ![count - 1] = NULL]
        /\ clients' = [[clients EXCEPT ![i] = clients[count - 1]] EXCEPT ![count - 1] = NULL]
    BY <1>1 DEF RemoveSlot, Filled
  <1>3. i \in Slots /\ clients[i] = client
    BY <1>0, <1>1, <1>2, FoundSlot
  <1>4. count \in 2..MAX_CAPACITY
    BY <1>0 DEF TypeOK
  <1>5. /\ Slots \subseteq Index /\ count - 1 \in Slots
        /\ Slots' = Slots \ {count - 1}
    BY <1>2, <1>3, <1>4, SlotsConstants DEF Slots, Index
  <1>6. pfds \in [Index -> Fd \cup {"hsk", "rpc", NULL}]
        /\ clients \in [Index -> Client \cup {NULL}]
    BY <1>0 DEF TypeOK
  <1>7. \A j \in Slots' :
          /\ clients'[j] = IF j = i THEN clients[count - 1] ELSE clients[j]
          /\ pfds'[j] = IF j = i THEN pfds[count - 1] ELSE pfds[j]
    BY <1>2, <1>3, <1>5, <1>6
  <1>8. QED
    BY <1>3, <1>5, <1>7

LEMMA SlotsStep == IInv /\ Next => SlotsNameListed'
  <1> SUFFICES ASSUME IInv, Next PROVE SlotsNameListed'
    OBVIOUS
  <1>0. /\ TypeOK /\ SlotsNameListed /\ Bounds
    BY DEF IInv
  <1>1. ASSUME ~Ended, UNCHANGED <<pfds, clients, count, order, c2s_fd>>,
               pc' \in Between <=> pc \in Between,
               pc \in Between => client' = client
        PROVE  SlotsNameListed'
    <2>1. Slots' = Slots /\ Listed' = Listed
      BY <1>1 DEF Slots, Listed
    <2>2. \A c : (pc' \in Between /\ c = client') <=> (pc \in Between /\ c = client)
      BY <1>1
    <2>3. QED
      BY <1>0, <1>1, <2>1, <2>2 DEF SlotsNameListed
  <1>2. ASSUME NEW c \in Client, NEW f \in Fd, CregInsert(c, f)
        PROVE  SlotsNameListed'
    <2>1. /\ ~Ended /\ pc \notin Between /\ pc' \in Between /\ client' = c
          /\ UNCHANGED <<pfds, clients, count>> /\ c \notin heap
          /\ c2s_fd' = [c2s_fd EXCEPT ![c] = f]
      BY <1>2 DEF CregInsert, Ended, Between, arrayVars
    <2>2. Slots' = Slots /\ Listed' = Listed \cup {c} /\ c \notin Listed
      BY <1>2, <2>1, ListedInsert DEF Slots, IInv, Records
    <2>3. \A d \in Listed : d \in Client /\ c2s_fd'[d] = c2s_fd[d]
      BY <1>0, <2>1, <2>2 DEF TypeOK, Listed
    <2>4. /\ \A j, k \in Slots : clients[j] = clients[k] => j = k
          /\ \A j \in Slots : clients[j] \in Listed /\ pfds[j] = c2s_fd[clients[j]]
          /\ \A d \in Listed : \E j \in Slots : clients[j] = d
      BY <1>0, <2>1 DEF SlotsNameListed
    <2>5. \A d \in Listed' : (\E j \in Slots' : clients'[j] = d) # (d = c)
      <3>1. ASSUME NEW d \in Listed PROVE (\E j \in Slots' : clients'[j] = d) /\ d # c
        BY <2>1, <2>2, <2>4
      <3>2. ~ \E j \in Slots' : clients'[j] = c
        BY <2>1, <2>2, <2>4
      <3>3. QED
        BY <3>1, <3>2, <2>2
    <2>6. QED
      BY <2>1, <2>2, <2>3, <2>4, <2>5, ZenonT(60) DEF SlotsNameListed
  <1>3. CASE Insert \/ Grow \/ GrowClients \/ MarkDead \/ Lock \/ Seek
    BY <1>1, <1>3 DEF Insert, Grow, GrowClients, MarkDead, Lock, Seek, Ended,
       Between, localVars, arrayVars, listVars, countVars
  <1>4. CASE Place
    <2>1. /\ pc = "place" /\ pc' = "loop" /\ count' = count + 1
          /\ pfds' = [pfds EXCEPT ![count] = fd]
          /\ clients' = [clients EXCEPT ![count] = client]
          /\ UNCHANGED <<client, order, c2s_fd>>
      BY <1>4 DEF Place, localVars, listVars, countVars
    <2>2. count \in Index /\ count \in 2..MAX_CAPACITY /\ ~Ended
      <3>1. count < capacity /\ ~Ended
        BY <1>0, <2>1 DEF Bounds, InBounds, Ended
      <3>2. count \in 2..MAX_CAPACITY /\ capacity \in 2..MAX_CAPACITY
        BY <1>0 DEF TypeOK
      <3>3. QED
        BY <3>1, <3>2, SlotsConstants DEF Index
    <2>3. client \in Listed /\ fd = c2s_fd[client]
      BY <2>1 DEF IInv, Work, Between
    <2>4. Slots' = Slots \cup {count} /\ count \notin Slots /\ Listed' = Listed
      BY <2>1, <2>2 DEF Slots, Listed
    <2>5. Slots \subseteq Index
      BY <2>2, SlotsConstants DEF Slots, Index
    <2>6. /\ \A j \in Slots : clients'[j] = clients[j] /\ pfds'[j] = pfds[j]
          /\ clients'[count] = client /\ pfds'[count] = fd
      BY <1>0, <2>1, <2>2, <2>4, <2>5 DEF TypeOK
    <2>7. /\ \A j, k \in Slots : clients[j] = clients[k] => j = k
          /\ \A j \in Slots : clients[j] \in Listed /\ pfds[j] = c2s_fd[clients[j]]
          /\ \A d \in Listed : (\E j \in Slots : clients[j] = d) # (d = client)
      BY <1>0, <2>1, <2>2 DEF SlotsNameListed, Between
    <2>8. \A d \in Listed : (\E j \in Slots' : clients'[j] = d)
      <3>1. ASSUME NEW d \in Listed, d # client
            PROVE  \E j \in Slots' : clients'[j] = d
        <4>1. PICK j \in Slots : clients[j] = d
          BY <3>1, <2>7
        <4>2. QED
          BY <4>1, <2>4, <2>6
      <3>2. \E j \in Slots' : clients'[j] = client
        BY <2>4, <2>6
      <3>3. QED
        BY <3>1, <3>2
    <2>9. \A j, k \in Slots' : clients'[j] = clients'[k] => j = k
      <3>1. \A j \in Slots : clients[j] # client
        BY <2>3, <2>7
      <3>2. QED
        BY <3>1, <2>4, <2>6, <2>7
    <2>10. \A j \in Slots' : clients'[j] \in Listed' /\ pfds'[j] = c2s_fd'[clients'[j]]
      BY <2>1, <2>3, <2>4, <2>6, <2>7
    <2>11. pc' \notin Between
      BY <2>1 DEF Between
    <2>12. QED
      BY <2>4, <2>8, <2>9, <2>10, <2>11 DEF SlotsNameListed
  <1>5. CASE RemoveSlot
    <2>1. /\ pc = "find" /\ pc' = "dead" /\ ~Ended
          /\ UNCHANGED <<client, order, c2s_fd>>
      BY <1>5 DEF RemoveSlot, localVars, listVars, countVars, Ended
    <2>2. /\ i \in Slots /\ clients[i] = client /\ count - 1 \in Slots
          /\ Slots' = Slots \ {count - 1}
          /\ \A j \in Slots' :
               /\ clients'[j] = IF j = i THEN clients[count - 1] ELSE clients[j]
               /\ pfds'[j] = IF j = i THEN pfds[count - 1] ELSE pfds[j]
      BY <1>5, RemovedSlot
    <2>3. Listed' = Listed
      BY <2>1 DEF Listed
    <2>4. /\ \A j, k \in Slots : clients[j] = clients[k] => j = k
          /\ \A j \in Slots : clients[j] \in Listed /\ pfds[j] = c2s_fd[clients[j]]
          /\ \A d \in Listed : \E j \in Slots : clients[j] = d
      BY <1>0, <2>1 DEF SlotsNameListed, Between
    <2>5. \A j, k \in Slots' : clients'[j] = clients'[k] => j = k
      BY <2>2, <2>4
    <2>6. \A j \in Slots' : clients'[j] \in Listed' /\ pfds'[j] = c2s_fd'[clients'[j]]
      BY <2>1, <2>2, <2>3, <2>4
    <2>7. \A j \in Slots' : clients'[j] # client
      BY <2>2, <2>4
    <2>8. ASSUME NEW d \in Listed, d # client
          PROVE  \E j \in Slots' : clients'[j] = d
      <3>1. PICK j \in Slots : clients[j] = d
        BY <2>4
      <3>2. CASE j = count - 1
        BY <3>1, <3>2, <2>2, <2>8
      <3>3. CASE j # count - 1
        BY <3>1, <3>3, <2>2, <2>8
      <3>4. QED
        BY <3>2, <3>3
    <2>9. pc' \in Between /\ client' = client
      BY <2>1 DEF Between
    <2>10. \A d \in Listed' : (\E j \in Slots' : clients'[j] = d)
                                 # (pc' \in Between /\ d = client')
      BY <2>3, <2>7, <2>8, <2>9
    <2>11. QED
      BY <2>5, <2>6, <2>10 DEF SlotsNameListed
  <1>6. CASE Unlink
    <2>1. /\ pc = "seek" /\ pc' = "release" /\ ~Ended
          /\ UNCHANGED <<pfds, clients, count, client, c2s_fd>>
      BY <1>6 DEF Unlink, localVars, arrayVars, countVars, Ended
    <2>2. Listed' = Listed \ {client} /\ client \in Listed /\ Slots' = Slots
      BY <1>6, <2>1, ListedUnlink DEF Slots
    <2>3. /\ \A j, k \in Slots : clients[j] = clients[k] => j = k
          /\ \A j \in Slots : clients[j] \in Listed /\ pfds[j] = c2s_fd[clients[j]]
          /\ \A d \in Listed : (\E j \in Slots : clients[j] = d) # (d = client)
      BY <1>0, <2>1 DEF SlotsNameListed, Between
    <2>4. \A j \in Slots : clients[j] # client
      BY <2>2, <2>3
    <2>5. pc' \notin Between
      BY <2>1 DEF Between
    <2>6. QED
      BY <2>1, <2>2, <2>3, <2>4, <2>5 DEF SlotsNameListed
  <1>7. CASE \/ Acquire \/ Find \/ Release
             \/ \E c \in Client : Result(c) \/ Refuse(c)
             \/ \E j \in Slots : Leave(j)
    <2>1. UNCHANGED <<pfds, clients, count, order, c2s_fd>>
      BY <1>7 DEF Acquire, Find, Release, Result, Refuse, Leave, arrayVars,
         listVars, countVars
    <2>2. pc \notin Between /\ pc' \notin Between /\ ~Ended
      BY <1>7 DEF Acquire, Find, Release, Result, Refuse, Leave, Between, Ended
    <2>3. QED
      BY <1>1, <2>1, <2>2
  <1>8. CASE Teardown \/ Destroy \/ DestroyEnd
    <2>1. Ended'
      BY <1>8 DEF Teardown, Destroy, DestroyEnd, Ended
    <2>2. QED
      BY <2>1 DEF SlotsNameListed
  <1>9. CASE ShareLock \/ ShareStep \/ ShareEnd
    <2>1. UNCHANGED <<pc, client, pfds, clients, count, order, c2s_fd>>
      BY <1>9 DEF ShareLock, ShareStep, ShareEnd, shareFrame, localVars,
         arrayVars, listVars, countVars
    <2>2. CASE Ended
      BY <2>1, <2>2 DEF SlotsNameListed, Ended
    <2>3. CASE ~Ended
      BY <1>1, <2>1, <2>3
    <2>4. QED
      BY <2>2, <2>3
  <1>10. QED
    <2>1. CASE \E c \in Client, f \in Fd : CregInsert(c, f)
      BY <1>2, <2>1
    <2>2. QED
      BY <2>1, <1>3, <1>4, <1>5, <1>6, <1>7, <1>8, <1>9 DEF Next
-----------------------------------------------------------------------------
(* Records *)

\* What creg_release_client does to the records when it drops a reference
\* of c, so that n requests and perhaps the registry refer to it.
LEMMA ReleasedRecords ==
    ASSUME IInv, NEW c \in heap, Released(c), ~Ended, ~Ended',
           UNCHANGED <<order, dead, c2s_fd>>,
           \A d \in Client \ {c} : requests'[d] = requests[d],
           \A d \in heap \ {c} : Held(d)' = Held(d),
           requests[c] \in Nat, requests'[c] \in Nat,
           refcount[c] - 1 = requests'[c] + IF Held(c)' THEN 1 ELSE 0,
           c \in Listed => Held(c)', dead[c] = (c \notin Listed),
           pc' \notin {"unlink", "seek"}, pc \notin {"unlink", "seek"}
    PROVE  Records'
  <1>0. /\ Records /\ heap \subseteq Client /\ c \in Client /\ Listed' = Listed
        /\ refcount \in [Client -> Nat]
    BY DEF IInv, TypeOK, Listed
  <1>1. /\ \A d \in Client \ {c} : refcount'[d] = refcount[d]
        /\ refcount'[c] = refcount[c] - 1
        /\ heap' = IF dead[c] /\ refcount[c] - 1 = 0 THEN heap \ {c} ELSE heap
    BY <1>0 DEF Released, Last
  <1>2. c \in heap' => /\ refcount'[c] = requests'[c] + IF Held(c)' THEN 1 ELSE 0
                       /\ ~Held(c)' => requests'[c] > 0
    <2>1. refcount'[c] = requests'[c] + IF Held(c)' THEN 1 ELSE 0
      BY <1>1
    <2>2. ASSUME c \in heap', ~Held(c)' PROVE requests'[c] > 0
      <3>1. dead[c]
        BY <2>2
      <3>2. refcount[c] - 1 # 0
        BY <3>1, <2>2, <1>1
      <3>3. refcount[c] - 1 = requests'[c]
        BY <2>2
      <3>4. \A n \in Nat : n # 0 => n > 0
        OBVIOUS
      <3>5. QED
        BY <3>2, <3>3, <3>4
    <2>3. QED
      BY <2>1, <2>2
  <1>3. ASSUME c \notin heap' PROVE c \notin Listed /\ requests'[c] = 0
    <2>1. dead[c] /\ refcount[c] - 1 = 0
      BY <1>1, <1>3
    <2>2. c \notin Listed
      BY <2>1
    <2>3. CASE Held(c)'
      BY <2>1, <2>3
    <2>4. CASE ~Held(c)'
      BY <2>1, <2>4
    <2>5. QED
      BY <2>2, <2>3, <2>4
  <1>4. Listed' \subseteq heap'
    BY <1>0, <1>1, <1>3 DEF Records
  <1>5. heap' \subseteq heap /\ (heap \ {c}) \subseteq heap'
    BY <1>1
  <1>6. ASSUME NEW d \in heap'
        PROVE  /\ refcount'[d] = requests'[d] + IF Held(d)' THEN 1 ELSE 0
               /\ ~Held(d)' => requests'[d] > 0
               /\ dead'[d] = (d \notin Listed')
    <2>1. CASE d = c
      BY <2>1, <1>0, <1>2, <1>6
    <2>2. CASE d # c
      <3>1. d \in heap /\ d \in Client \ {c}
        BY <2>2, <1>0, <1>5
      <3>2. refcount'[d] = refcount[d] /\ requests'[d] = requests[d] /\ Held(d)' = Held(d)
        BY <3>1, <2>2, <1>1
      <3>3. /\ refcount[d] = requests[d] + IF Held(d) THEN 1 ELSE 0
            /\ ~Held(d) => requests[d] > 0
            /\ dead[d] = (d \notin Listed)
        BY <3>1, <1>0 DEF Records
      <3>4. QED
        BY <3>2, <3>3, <1>0
    <2>3. QED
      BY <2>1, <2>2
  <1>7. ASSUME NEW d \in Client, d \notin heap' PROVE requests'[d] = 0
    <2>1. CASE d = c
      BY <2>1, <1>3, <1>7
    <2>2. CASE d # c
      BY <2>2, <1>0, <1>5, <1>7 DEF Records
    <2>3. QED
      BY <2>1, <2>2
  <1>8. /\ \A d \in heap' : c2s_fd'[d] \in Fd
        /\ \A d, e \in heap' : c2s_fd'[d] = c2s_fd'[e] => d = e
    BY <1>0, <1>5 DEF Records
  <1>9. QED
    BY <1>4, <1>6, <1>7, <1>8 DEF Records

LEMMA RecordsStep == IInv /\ Next => Records'
  <1> SUFFICES ASSUME IInv, Next PROVE Records'
    OBVIOUS
  <1>0. /\ TypeOK /\ Records /\ heap \subseteq Client
        /\ refcount \in [Client -> Nat] /\ requests \in [Client -> 0..MaxRequests]
        /\ dead \in [Client -> BOOLEAN] /\ c2s_fd \in [Client -> Fd \cup {NULL}]
    BY DEF IInv, TypeOK
  <1>r. \A d \in Client : requests[d] \in Nat
    BY <1>0, SlotsConstants
  <1>1. ASSUME UNCHANGED <<countVars, order>>, Ended => Ended',
               \/ /\ pc \notin {"release", "unlink", "seek"}
                  /\ pc' \notin {"release", "unlink", "seek"}
               \/ pc' = pc /\ client' = client
               \/ pc = "unlink" /\ pc' = "seek" /\ client' = client
        PROVE  Records'
    <2>1. Listed' = Listed
      BY <1>1 DEF Listed
    <2>2. \A d : Held(d)' = Held(d)
      BY <1>1, <2>1 DEF Held
    <2>3. \A d : (pc' \in {"unlink", "seek"} /\ d = client')
                   = (pc \in {"unlink", "seek"} /\ d = client)
      BY <1>1
    <2>4. UNCHANGED <<refcount, dead, c2s_fd, heap, requests>>
      BY <1>1 DEF countVars
    <2>5. /\ Listed' \subseteq heap'
          /\ \A c \in heap' : c2s_fd'[c] \in Fd
          /\ \A c, d \in heap' : c2s_fd'[c] = c2s_fd'[d] => c = d
          /\ ~Ended' => \A c \in Client \ heap' : requests'[c] = 0
      BY <1>0, <1>1, <2>1, <2>4 DEF Records
    <2>6. ASSUME NEW d \in heap'
          PROVE  /\ refcount'[d] = requests'[d] + IF Held(d)' THEN 1 ELSE 0
                 /\ ~Held(d)' => requests'[d] > 0
                 /\ dead'[d] = (d \notin Listed'
                                  \/ (pc' \in {"unlink", "seek"} /\ d = client'))
      <3>1. /\ refcount[d] = requests[d] + IF Held(d) THEN 1 ELSE 0
            /\ ~Held(d) => requests[d] > 0
            /\ dead[d] = (d \notin Listed
                            \/ (pc \in {"unlink", "seek"} /\ d = client))
        BY <1>0, <2>4, <2>6 DEF Records
      <3>2. QED
        BY <3>1, <2>1, <2>2, <2>3, <2>4
    <2>7. QED
      BY <2>5, <2>6 DEF Records
  <1>2. ASSUME NEW c \in Client, NEW f \in Fd, CregInsert(c, f) PROVE Records'
    <2>1. /\ pc = "loop" /\ pc' = "insert" /\ c \notin heap /\ ~Ended /\ ~Ended'
          /\ \A d \in heap : c2s_fd[d] # f
          /\ heap' = heap \cup {c} /\ c2s_fd' = [c2s_fd EXCEPT ![c] = f]
          /\ refcount' = [refcount EXCEPT ![c] = 1]
          /\ dead' = [dead EXCEPT ![c] = FALSE] /\ requests' = requests
      BY <1>2 DEF CregInsert, Ended
    <2>2. Listed' = Listed \cup {c}
      BY <1>2, ListedInsert
    <2>3. Listed' \subseteq heap'
      BY <1>0, <2>1, <2>2 DEF Records
    <2>4. /\ \A d \in heap' : c2s_fd'[d] \in Fd
          /\ \A d, e \in heap' : c2s_fd'[d] = c2s_fd'[e] => d = e
      BY <1>0, <2>1 DEF Records
    <2>5. ASSUME NEW d \in heap'
          PROVE  /\ refcount'[d] = requests'[d] + IF Held(d)' THEN 1 ELSE 0
                 /\ ~Held(d)' => requests'[d] > 0
                 /\ dead'[d] = (d \notin Listed')
      <3>1. CASE d = c
        <4>1. requests[c] = 0
          BY <1>0, <2>1 DEF Records
        <4>2. Held(d)' /\ d \in Listed'
          BY <3>1, <2>2 DEF Held
        <4>3. refcount'[d] = 1 /\ dead'[d] = FALSE
          BY <3>1, <2>1, <1>0
        <4>4. requests'[d] = 0 /\ 1 = 0 + 1
          BY <3>1, <4>1, <2>1
        <4>5. refcount'[d] = requests'[d] + IF Held(d)' THEN 1 ELSE 0
          BY <4>2, <4>3, <4>4
        <4>6. dead'[d] = (d \notin Listed')
          BY <4>2, <4>3
        <4>7. QED
          BY <4>2, <4>5, <4>6
      <3>2. CASE d # c
        <4>1. d \in heap /\ d \in Client
          BY <3>2, <2>1, <1>0
        <4>2. Held(d)' = Held(d) /\ (d \in Listed' <=> d \in Listed)
          BY <3>2, <2>1, <2>2 DEF Held
        <4>3. /\ refcount'[d] = refcount[d] /\ dead'[d] = dead[d]
              /\ requests'[d] = requests[d]
          BY <3>2, <4>1, <2>1, <1>0
        <4>4. /\ refcount[d] = requests[d] + IF Held(d) THEN 1 ELSE 0
              /\ ~Held(d) => requests[d] > 0
              /\ dead[d] = (d \notin Listed)
          BY <4>1, <2>1, <1>0 DEF Records
        <4>5. QED
          BY <4>2, <4>3, <4>4
      <3>3. QED
        BY <3>1, <3>2
    <2>6. \A d \in Client \ heap' : requests'[d] = 0
      BY <1>0, <2>1 DEF Records
    <2>7. pc' \notin {"unlink", "seek"}
      BY <2>1
    <2>8. QED
      BY <2>3, <2>4, <2>5, <2>6, <2>7 DEF Records
  <1>3. CASE \/ Insert \/ Grow \/ GrowClients \/ Place \/ Find \/ RemoveSlot
             \/ Lock \/ Seek \/ Teardown \/ DestroyEnd
             \/ \E j \in Slots : Leave(j)
    <2>1. UNCHANGED <<countVars, order>>
      BY <1>3 DEF Insert, Grow, GrowClients, Place, Find, RemoveSlot, Lock,
         Seek, Teardown, DestroyEnd, Leave, listVars
    <2>2. Ended => Ended'
      BY <1>3 DEF Insert, Grow, GrowClients, Place, Find, RemoveSlot, Lock,
         Seek, Teardown, DestroyEnd, Leave, Ended
    <2>3. \/ /\ pc \notin {"release", "unlink", "seek"}
             /\ pc' \notin {"release", "unlink", "seek"}
          \/ pc' = pc /\ client' = client
          \/ pc = "unlink" /\ pc' = "seek" /\ client' = client
      BY <1>3 DEF Insert, Grow, GrowClients, Place, Find, RemoveSlot, Lock,
         Seek, Teardown, DestroyEnd, Leave
    <2>4. QED
      BY <1>1, <2>1, <2>2, <2>3
  <1>4. CASE ShareLock \/ ShareStep \/ ShareEnd
    <2>1. UNCHANGED <<countVars, order, pc, client>>
      BY <1>4 DEF ShareLock, ShareStep, ShareEnd, shareFrame, listVars, localVars
    <2>2. Ended => Ended'
      BY <2>1 DEF Ended
    <2>3. QED
      BY <1>1, <2>1, <2>2
  <1>5. CASE Acquire
    <2>1. PICK j \in Slots : LET c == clients[j] IN
            /\ requests' = [requests EXCEPT ![c] = @ + 1]
            /\ refcount' = [refcount EXCEPT ![c] = @ + 1]
      BY <1>5 DEF Acquire
    <2>2. pc = "loop" /\ pc' = pc /\ UNCHANGED <<dead, c2s_fd, heap, order, client>>
      BY <1>5 DEF Acquire, listVars, localVars
    <2> DEFINE c == clients[j]
    <2>3. c \in Listed /\ c \in heap /\ ~Ended /\ ~Ended' /\ Listed' = Listed
      BY <2>2, <1>0 DEF IInv, SlotsNameListed, Records, Ended, Listed
    <2>4. \A d : Held(d)' = Held(d)
      BY <2>2, <2>3 DEF Held
    <2>5. ASSUME NEW d \in heap
          PROVE  /\ refcount'[d] = requests'[d] + IF Held(d)' THEN 1 ELSE 0
                 /\ ~Held(d)' => requests'[d] > 0
                 /\ dead'[d] = (d \notin Listed')
      <3>1. /\ refcount[d] = requests[d] + IF Held(d) THEN 1 ELSE 0
            /\ ~Held(d) => requests[d] > 0
            /\ dead[d] = (d \notin Listed) /\ d \in Client
            /\ requests[d] \in Nat
        BY <1>0, <1>r, <2>2 DEF Records
      <3>2. CASE d = c
        <4>1. refcount'[d] = refcount[d] + 1 /\ requests'[d] = requests[d] + 1
          BY <1>0, <2>1, <3>1, <3>2
        <4>2. Held(d)
          BY <3>2, <2>3 DEF Held
        <4>3. QED
          BY <3>1, <4>1, <4>2, <2>2, <2>3, <2>4
      <3>3. CASE d # c
        <4>1. refcount'[d] = refcount[d] /\ requests'[d] = requests[d]
          BY <1>0, <2>1, <3>1, <3>3
        <4>2. QED
          BY <3>1, <4>1, <2>2, <2>3, <2>4
      <3>4. QED
        BY <3>2, <3>3
    <2>6. \A d \in Client \ heap' : requests'[d] = 0
      BY <1>0, <2>1, <2>2, <2>3 DEF Records
    <2>7. /\ Listed' \subseteq heap'
          /\ \A d \in heap' : c2s_fd'[d] \in Fd
          /\ \A d, e \in heap' : c2s_fd'[d] = c2s_fd'[e] => d = e
      BY <1>0, <2>2, <2>3 DEF Records
    <2>8. pc' \notin {"unlink", "seek"}
      BY <2>2
    <2>9. QED
      BY <2>2, <2>5, <2>6, <2>7, <2>8 DEF Records
  <1>6. ASSUME NEW c \in Client, Result(c) \/ Refuse(c) PROVE Records'
    <2>1. /\ pc = "loop" /\ pc' \in {"loop", "find"} /\ ~Ended /\ ~Ended'
          /\ requests[c] > 0 /\ requests' = [requests EXCEPT ![c] = @ - 1]
          /\ Released(c) /\ UNCHANGED <<order, dead, c2s_fd>>
      BY <1>6 DEF Result, Refuse, Ended, listVars
    <2>2. c \in heap
      BY <1>0, <2>1 DEF Records
    <2>3. Listed' = Listed
      BY <2>1 DEF Listed
    <2>4. \A d : Held(d)' = Held(d)
      BY <2>1, <2>3 DEF Held
    <2>5. /\ \A d \in Client \ {c} : requests'[d] = requests[d]
          /\ requests'[c] = requests[c] - 1
      BY <1>0, <2>1
    <2>6. requests[c] \in Nat /\ requests'[c] \in Nat
      BY <1>r, <2>1, <2>5
    <2>7. /\ refcount[c] = requests[c] + IF Held(c) THEN 1 ELSE 0
          /\ dead[c] = (c \notin Listed)
      BY <1>0, <2>1, <2>2 DEF Records
    <2>8. refcount[c] - 1 = requests'[c] + IF Held(c)' THEN 1 ELSE 0
      BY <2>4, <2>5, <2>6, <2>7
    <2>9. c \in Listed => Held(c)'
      BY <2>4 DEF Held
    <2>10. /\ pc \notin {"unlink", "seek"} /\ pc' \notin {"unlink", "seek"}
           /\ \A d \in heap \ {c} : Held(d)' = Held(d)
      BY <2>1, <2>4
    <2>11. QED
      BY <2>1, <2>2, <2>5, <2>6, <2>7, <2>8, <2>9, <2>10, ReleasedRecords
  <1>7. CASE MarkDead
    <2>1. /\ pc = "dead" /\ pc' = "unlink" /\ ~Ended /\ ~Ended'
          /\ dead' = [dead EXCEPT ![client] = TRUE]
          /\ UNCHANGED <<client, order, refcount, c2s_fd, heap, requests>>
      BY <1>7 DEF MarkDead, Ended, localVars, listVars
    <2>2. client \in Listed
      BY <2>1 DEF IInv, Work, Between
    <2>3. Listed' = Listed
      BY <2>1 DEF Listed
    <2>4. \A d : Held(d)' = Held(d)
      BY <2>1, <2>3 DEF Held
    <2>5. ASSUME NEW d \in heap
          PROVE  /\ refcount'[d] = requests'[d] + IF Held(d)' THEN 1 ELSE 0
                 /\ ~Held(d)' => requests'[d] > 0
                 /\ dead'[d] = (d \notin Listed'
                                  \/ (pc' \in {"unlink", "seek"} /\ d = client'))
      <3>1. /\ refcount[d] = requests[d] + IF Held(d) THEN 1 ELSE 0
            /\ ~Held(d) => requests[d] > 0
            /\ dead[d] = (d \notin Listed) /\ d \in Client
        BY <1>0, <2>1 DEF Records
      <3>2. dead'[d] = (dead[d] \/ d = client)
        BY <1>0, <2>1, <3>1
      <3>3. /\ refcount'[d] = requests'[d] + IF Held(d)' THEN 1 ELSE 0
            /\ ~Held(d)' => requests'[d] > 0
        BY <3>1, <2>1, <2>4
      <3>4. (pc' \in {"unlink", "seek"} /\ d = client') <=> d = client
        BY <2>1
      <3>5. dead'[d] = (d \notin Listed'
                          \/ (pc' \in {"unlink", "seek"} /\ d = client'))
        BY <3>1, <3>2, <3>4, <2>3
      <3>6. QED
        BY <3>3, <3>5
    <2>6. /\ Listed' \subseteq heap'
          /\ \A d \in heap' : c2s_fd'[d] \in Fd
          /\ \A d, e \in heap' : c2s_fd'[d] = c2s_fd'[e] => d = e
          /\ \A d \in Client \ heap' : requests'[d] = 0
      BY <1>0, <2>1, <2>3 DEF Records
    <2>7. QED
      BY <2>1, <2>5, <2>6 DEF Records
  <1>8. CASE Unlink
    <2>1. /\ pc = "seek" /\ pc' = "release" /\ ~Ended /\ ~Ended'
          /\ UNCHANGED <<client, refcount, dead, c2s_fd, heap, requests>>
      BY <1>8 DEF Unlink, Ended, localVars, countVars
    <2>2. Listed' = Listed \ {client} /\ client \in Listed
      BY <1>8, ListedUnlink
    <2>3. \A d : Held(d)' = Held(d)
      BY <2>1, <2>2 DEF Held
    <2>4. ASSUME NEW d \in heap
          PROVE  /\ refcount'[d] = requests'[d] + IF Held(d)' THEN 1 ELSE 0
                 /\ ~Held(d)' => requests'[d] > 0
                 /\ dead'[d] = (d \notin Listed')
      <3>1. /\ refcount[d] = requests[d] + IF Held(d) THEN 1 ELSE 0
            /\ ~Held(d) => requests[d] > 0
            /\ dead[d] = (d \notin Listed \/ d = client)
        BY <1>0, <2>1 DEF Records
      <3>2. QED
        BY <3>1, <2>1, <2>2, <2>3
    <2>5. /\ Listed' \subseteq heap'
          /\ \A d \in heap' : c2s_fd'[d] \in Fd
          /\ \A d, e \in heap' : c2s_fd'[d] = c2s_fd'[e] => d = e
          /\ \A d \in Client \ heap' : requests'[d] = 0
      BY <1>0, <2>1, <2>2 DEF Records
    <2>6. QED
      BY <2>1, <2>4, <2>5 DEF Records
  <1>9. CASE Release
    <2>1. /\ pc = "release" /\ pc' = "loop" /\ ~Ended /\ ~Ended'
          /\ Released(client) /\ UNCHANGED <<order, client, dead, c2s_fd, requests>>
      BY <1>9 DEF Release, Ended, localVars, listVars
    <2>2. client \in heap /\ client \notin Listed /\ client \in Client
      BY <2>1, <1>0 DEF IInv, Work
    <2>3. Listed' = Listed
      BY <2>1 DEF Listed
    <2>4. Held(client) /\ ~Held(client)'
      BY <2>1, <2>2, <2>3 DEF Held
    <2>5. \A d \in heap \ {client} : Held(d)' = Held(d)
      BY <2>1, <2>3 DEF Held
    <2>6. /\ refcount[client] = requests[client] + IF Held(client) THEN 1 ELSE 0
          /\ dead[client] = (client \notin Listed)
      BY <1>0, <2>1, <2>2 DEF Records
    <2>7. requests[client] \in Nat /\ requests'[client] \in Nat
      BY <1>r, <2>1, <2>2
    <2>8. refcount[client] - 1 = requests'[client] + IF Held(client)' THEN 1 ELSE 0
      BY <2>1, <2>4, <2>6, <2>7
    <2>9. /\ pc \notin {"unlink", "seek"} /\ pc' \notin {"unlink", "seek"}
          /\ \A d \in Client \ {client} : requests'[d] = requests[d]
      BY <2>1
    <2>10. QED
      BY <2>1, <2>2, <2>5, <2>6, <2>7, <2>8, <2>9, ReleasedRecords
  <1>10. CASE Destroy
    <2>1. /\ pc = "destroy" /\ pc' = "destroy" /\ Ended' /\ heap' = heap \ {curr}
          /\ UNCHANGED <<client, refcount, dead, c2s_fd, requests>>
      BY <1>10 DEF Destroy, Ended
    <2>2. Listed' = Listed \ {curr}
      BY <1>10, ListedDestroy
    <2>3. ASSUME NEW d \in heap'
          PROVE  /\ refcount'[d] = requests'[d] + IF Held(d)' THEN 1 ELSE 0
                 /\ ~Held(d)' => requests'[d] > 0
                 /\ dead'[d] = (d \notin Listed')
      <3>1. Held(d)' = Held(d) /\ d \in heap /\ (d \in Listed' <=> d \in Listed)
        BY <2>1, <2>2, <2>3 DEF Held
      <3>2. /\ refcount[d] = requests[d] + IF Held(d) THEN 1 ELSE 0
            /\ ~Held(d) => requests[d] > 0
            /\ dead[d] = (d \notin Listed)
        BY <1>0, <2>1, <3>1 DEF Records
      <3>3. QED
        BY <3>1, <3>2, <2>1
    <2>4. /\ Listed' \subseteq heap'
          /\ \A d \in heap' : c2s_fd'[d] \in Fd
          /\ \A d, e \in heap' : c2s_fd'[d] = c2s_fd'[e] => d = e
      BY <1>0, <2>1, <2>2 DEF Records
    <2>5. QED
      BY <2>1, <2>3, <2>4 DEF Records
  <1>11. QED
    <2>1. CASE \E c \in Client, f \in Fd : CregInsert(c, f)
      BY <1>2, <2>1
    <2>2. CASE \E c \in Client : Result(c) \/ Refuse(c)
      BY <1>6, <2>2
    <2>3. QED
      BY <2>1, <2>2, <1>3, <1>4, <1>5, <1>7, <1>8, <1>9, <1>10 DEF Next
-----------------------------------------------------------------------------
(* What main is doing *)

LEMMA WorkStep == IInv /\ Next => Work'
  <1> SUFFICES ASSUME IInv, Next PROVE Work'
    OBVIOUS
  <1>0. TypeOK /\ Work /\ Links /\ SlotsNameListed /\ Records
    BY DEF IInv
  <1>1. ASSUME pc' \in {"loop", "destroy", "end"} PROVE Work'
    BY <1>1 DEF Work, Between
  <1>2. CASE \/ Place \/ Release \/ Teardown \/ Destroy \/ DestroyEnd
             \/ Acquire \/ \E c \in Client : Result(c)
    BY <1>1, <1>2 DEF Place, Release, Teardown, Destroy, DestroyEnd, Acquire,
       Result
  <1>3. ASSUME NEW c \in Client, NEW f \in Fd, CregInsert(c, f) PROVE Work'
    <2>1. /\ pc' = "insert" /\ client' = c /\ fd' = f
          /\ c2s_fd' = [c2s_fd EXCEPT ![c] = f]
      BY <1>3 DEF CregInsert
    <2>2. c \in Listed' /\ c2s_fd'[c] = f
      BY <1>0, <1>3, <2>1, ListedInsert DEF TypeOK
    <2>3. QED
      BY <2>1, <2>2 DEF Work
  <1>4. CASE Insert \/ Grow \/ GrowClients
    <2>1. /\ pc \in {"insert", "grow", "grow2"}
          /\ pc' \in {"grow", "grow2", "place", "dead"}
          /\ UNCHANGED <<client, fd, order, c2s_fd>>
      BY <1>4 DEF Insert, Grow, GrowClients, localVars, listVars, countVars
    <2>2. client \in Listed /\ fd = c2s_fd[client]
      BY <1>0, <2>1 DEF Work, Between
    <2>3. Listed' = Listed
      BY <2>1 DEF Listed
    <2>4. QED
      BY <2>1, <2>2, <2>3 DEF Work
  <1>5. ASSUME NEW c \in Client, Refuse(c) PROVE Work'
    <2>1. /\ pc = "loop" /\ pc' = "find" /\ c \in Listed /\ client' = c
          /\ fd' = c2s_fd[c] /\ i' = 0
          /\ UNCHANGED <<order, c2s_fd, pfds, clients, count>>
      BY <1>5 DEF Refuse, arrayVars, listVars
    <2>2. PICK j \in Slots : clients[j] = c /\ pfds[j] = c2s_fd[c]
      <3>1. pc \notin Between /\ ~Ended
        BY <2>1 DEF Between, Ended
      <3>2. \E j \in Slots : clients[j] = c
        BY <1>0, <2>1, <3>1 DEF SlotsNameListed
      <3>3. \A j \in Slots : pfds[j] = c2s_fd[clients[j]]
        BY <1>0, <3>1 DEF SlotsNameListed
      <3>4. QED
        BY <3>2, <3>3
    <2>3. j \in i'..(count' - 1)
      BY <1>0, <2>1 DEF Slots, TypeOK
    <2>4. Listed' = Listed
      BY <2>1 DEF Listed
    <2>5. QED
      BY <2>1, <2>2, <2>3, <2>4 DEF Work
  <1>6. ASSUME NEW j \in Slots, Leave(j) PROVE Work'
    <2>1. /\ pc = "loop" /\ pc' = "find" /\ client' = clients[j]
          /\ fd' = pfds[j] /\ i' = 0
          /\ UNCHANGED <<order, c2s_fd, pfds, clients, count>>
      BY <1>6 DEF Leave, arrayVars, listVars, countVars
    <2>2. clients[j] \in Listed /\ pfds[j] = c2s_fd[clients[j]]
      BY <1>0, <2>1 DEF SlotsNameListed, Ended
    <2>3. j \in i'..(count' - 1)
      BY <1>0, <2>1 DEF Slots, TypeOK
    <2>4. Listed' = Listed
      BY <2>1 DEF Listed
    <2>5. QED
      BY <2>1, <2>2, <2>3, <2>4 DEF Work
  <1>7. CASE Find
    <2>1. /\ pc = "find" /\ pc' = "find" /\ pfds[i] # fd /\ i' = i + 1
          /\ UNCHANGED <<client, fd, order, c2s_fd, pfds, clients, count>>
      BY <1>7 DEF Find, arrayVars, listVars, countVars
    <2>2. client \in Listed /\ fd = c2s_fd[client] /\ Listed' = Listed
      BY <1>0, <2>1 DEF Work, Between, Listed
    <2>3. PICK j \in i..(count - 1) : pfds[j] = fd /\ clients[j] = client
      BY <1>0, <2>1 DEF Work
    <2>4. j # i
      BY <2>1, <2>3
    <2>5. j \in i'..(count' - 1)
      BY <1>0, <2>1, <2>3, <2>4, SlotsConstants DEF TypeOK
    <2>6. QED
      BY <2>1, <2>2, <2>3, <2>5 DEF Work
  <1>8. CASE RemoveSlot \/ MarkDead
    <2>1. /\ pc \in {"find", "dead"} /\ pc' \in {"dead", "unlink"}
          /\ UNCHANGED <<client, order>>
      BY <1>8 DEF RemoveSlot, MarkDead, localVars, listVars
    <2>2. client \in Listed /\ Listed' = Listed
      BY <1>0, <2>1 DEF Work, Between, Listed
    <2>3. QED
      BY <2>1, <2>2 DEF Work
  <1>9. CASE Lock
    <2>1. /\ pc = "unlink" /\ pc' = "seek" /\ curr' = cr_clients
          /\ UNCHANGED <<client, order>>
      BY <1>9 DEF Lock, listVars
    <2>2. client \in Listed /\ Listed' = Listed
      BY <1>0, <2>1 DEF Work, Between, Listed
    <2>3. PICK k \in DOMAIN order : order[k] = client
      BY <2>2 DEF Listed
    <2>4. 1 \in DOMAIN order /\ 1 <= k /\ order # <<>>
      BY <1>0, <2>3, SMTT(30) DEF TypeOK
    <2>5. order[1] = cr_clients
      BY <1>0, <2>1, <2>4 DEF Links, ListIntact, First
    <2>6. QED
      BY <2>1, <2>2, <2>3, <2>4, <2>5 DEF Work
  <1>10. CASE Seek
    <2>1. /\ pc = "seek" /\ pc' = "seek" /\ curr # client /\ curr' = next[curr]
          /\ UNCHANGED <<client, order>>
      BY <1>10 DEF Seek, listVars
    <2>2. client \in Listed
      BY <1>0, <2>1 DEF Work, Between
    <2>e. Listed' = Listed
      BY <2>1 DEF Listed
    <2>3. PICK j, k \in DOMAIN order :
                 j <= k /\ order[j] = curr /\ order[k] = client
      BY <1>0, <2>1 DEF Work
    <2>4. /\ j \in 1..Len(order) /\ k \in 1..Len(order) /\ Len(order) \in Nat
          /\ DOMAIN order = 1..Len(order)
      <3>1. order \in Seq(Client)
        BY <1>0 DEF TypeOK
      <3>2. QED
        BY <3>1
    <2>5. j # k
      BY <2>1, <2>3
    <2>6. j + 1 \in DOMAIN order /\ j + 1 <= k /\ j # Len(order)
      BY <2>3, <2>4, <2>5
    <2>7. next[order[j]] = order[j + 1]
      BY <1>0, <2>6 DEF Links, ListIntact
    <2>8. QED
      BY <2>1, <2>2, <2>e, <2>3, <2>6, <2>7 DEF Work
  <1>11. CASE Unlink
    <2>1. /\ pc = "seek" /\ pc' = "release" /\ UNCHANGED <<client, heap>>
      BY <1>11 DEF Unlink, localVars, countVars
    <2>2. client \notin Listed' /\ client \in heap
      BY <1>0, <1>11, ListedUnlink DEF Records
    <2>3. QED
      BY <2>1, <2>2 DEF Work, Between
  <1>12. CASE ShareLock \/ ShareStep \/ ShareEnd
    <2>1. UNCHANGED <<pc, client, fd, i, curr, pfds, clients, count, order,
                      c2s_fd, heap>>
      BY <1>12 DEF ShareLock, ShareStep, ShareEnd, shareFrame, localVars,
         arrayVars, listVars, countVars
    <2>2. Listed' = Listed
      BY <2>1 DEF Listed
    <2>3. QED
      BY <1>0, <2>1, <2>2 DEF Work
  <1>13. QED
    <2>1. CASE \E c \in Client, f \in Fd : CregInsert(c, f)
      BY <1>3, <2>1
    <2>2. CASE \E c \in Client : Result(c) \/ Refuse(c)
      BY <1>2, <1>5, <2>2
    <2>3. CASE \E j \in Slots : Leave(j)
      BY <1>6, <2>3
    <2>4. QED
      BY <2>1, <2>2, <2>3, <1>2, <1>4, <1>7, <1>8, <1>9, <1>10, <1>11, <1>12
         DEF Next

LEMMA LockingStep == IInv /\ Next => Locking'
  <1> SUFFICES ASSUME IInv, Next PROVE Locking'
    OBVIOUS
  <1>0. /\ TypeOK /\ Locking /\ Links
    BY DEF IInv
  <1>1. ASSUME UNCHANGED <<lock, wcurr>>, Listed \subseteq Listed',
               pc # "seek", pc' # "seek", Ended' => Ended \/ lock = "free"
        PROVE  Locking'
    BY <1>0, <1>1 DEF Locking
  <1>2. ASSUME NEW c \in Client, NEW f \in Fd, CregInsert(c, f) PROVE Locking'
    BY <1>1, <1>2, ListedInsert DEF CregInsert, workerVars, Ended
  <1>3. CASE \/ Insert \/ Grow \/ GrowClients \/ Place \/ Acquire \/ Find
             \/ RemoveSlot \/ MarkDead \/ Release \/ Teardown \/ DestroyEnd
             \/ \E c \in Client : Result(c) \/ Refuse(c)
             \/ \E j \in Slots : Leave(j)
    <2>1. UNCHANGED <<lock, wcurr, order>>
      BY <1>3 DEF Insert, Grow, GrowClients, Place, Acquire, Find, RemoveSlot,
         MarkDead, Release, Teardown, DestroyEnd, Result, Refuse, Leave,
         workerVars, listVars
    <2>2. pc # "seek" /\ pc' # "seek"
      BY <1>3 DEF Insert, Grow, GrowClients, Place, Acquire, Find, RemoveSlot,
         MarkDead, Release, Teardown, DestroyEnd, Result, Refuse, Leave
    <2>3. Ended' => Ended \/ lock = "free"
      BY <1>3 DEF Insert, Grow, GrowClients, Place, Acquire, Find, RemoveSlot,
         MarkDead, Release, Teardown, DestroyEnd, Result, Refuse, Leave, Ended,
         Unlocked
    <2>4. Listed' = Listed
      BY <2>1 DEF Listed
    <2>5. QED
      BY <1>1, <2>1, <2>2, <2>3, <2>4
  <1>4. CASE Lock
    <2>1. /\ lock = "free" /\ lock' = "main" /\ pc' = "seek" /\ wcurr' = wcurr
      BY <1>4 DEF Lock, Unlocked, workerVars
    <2>2. QED
      BY <1>0, <2>1 DEF Locking, Ended
  <1>5. CASE Seek
    <2>1. /\ UNCHANGED <<lock, wcurr, order, pc>> /\ pc = "seek"
      BY <1>5 DEF Seek, workerVars, listVars
    <2>2. Listed' = Listed
      BY <2>1 DEF Listed
    <2>3. QED
      BY <1>0, <2>1, <2>2 DEF Locking, Ended
  <1>6. CASE Unlink
    <2>1. /\ pc = "seek" /\ pc' = "release" /\ lock' = "free" /\ wcurr' = wcurr
      BY <1>6 DEF Unlink, workerVars
    <2>2. wcurr = NULL
      BY <1>0, <2>1 DEF Locking
    <2>3. QED
      BY <2>1, <2>2 DEF Locking, Ended
  <1>7. CASE Destroy
    <2>1. /\ pc = "destroy" /\ pc' = "destroy" /\ UNCHANGED <<lock, wcurr>>
      BY <1>7 DEF Destroy, workerVars
    <2>2. lock = "free" /\ wcurr = NULL
      BY <1>0, <2>1 DEF Locking, Ended
    <2>3. QED
      BY <2>1, <2>2 DEF Locking, Ended
  <1>8. CASE ShareLock
    <2>1. /\ lock = "free" /\ lock' = "worker" /\ wcurr' = cr_clients
          /\ UNCHANGED <<pc, order>> /\ ~Ended
      BY <1>8 DEF ShareLock, Unlocked, shareFrame, listVars, Ended
    <2>2. Listed' = Listed
      BY <2>1 DEF Listed
    <2>3. cr_clients # NULL => cr_clients \in Listed
      <3>1. cr_clients = IF order = <<>> THEN NULL ELSE order[1]
        BY <1>0, <2>1 DEF Links, ListIntact, First, Ended
      <3>2. order # <<>> => 1 \in DOMAIN order
        BY <1>0 DEF TypeOK
      <3>3. QED
        BY <3>1, <3>2 DEF Listed
    <2>4. QED
      BY <1>0, <2>1, <2>2, <2>3 DEF Locking, Ended
  <1>9. CASE ShareStep
    <2>1. /\ lock = "worker" /\ wcurr # NULL /\ wcurr' = next[wcurr]
          /\ UNCHANGED <<pc, lock, order>>
      BY <1>9 DEF ShareStep, shareFrame, listVars
    <2>2. Listed' = Listed
      BY <2>1 DEF Listed
    <2>3. PICK k \in DOMAIN order : order[k] = wcurr
      BY <1>0, <2>1 DEF Locking, Listed
    <2>4. next[wcurr] = IF k = Len(order) THEN NULL ELSE order[k + 1]
      BY <1>0, <2>3 DEF Links, ListIntact
    <2>5. k # Len(order) => k + 1 \in DOMAIN order
      BY <1>0 DEF TypeOK
    <2>6. wcurr' # NULL => wcurr' \in Listed
      BY <2>1, <2>4, <2>5 DEF Listed
    <2>7. QED
      BY <1>0, <2>1, <2>2, <2>6 DEF Locking, Ended
  <1>10. CASE ShareEnd
    <2>1. /\ lock = "worker" /\ lock' = "free" /\ wcurr' = NULL /\ pc' = pc
      BY <1>10 DEF ShareEnd, shareFrame
    <2>2. QED
      BY <1>0, <2>1 DEF Locking, Ended
  <1>11. QED
    <2>1. CASE \E c \in Client, f \in Fd : CregInsert(c, f)
      BY <1>2, <2>1
    <2>2. QED
      BY <2>1, <1>3, <1>4, <1>5, <1>6, <1>7, <1>8, <1>9, <1>10 DEF Next
-----------------------------------------------------------------------------
(* The theorems *)

\* A step that changes nothing keeps the invariant.
LEMMA Stutter == IInv /\ UNCHANGED vars => IInv'
  <1> SUFFICES ASSUME IInv, UNCHANGED vars PROVE IInv'
    OBVIOUS
  <1> USE DEF vars, localVars, arrayVars, listVars, countVars, workerVars
  <1>0. Slots' = Slots /\ Listed' = Listed /\ Ended' = Ended /\ First' = First
    BY DEF Slots, Listed, Ended, First
  <1>1. TypeOK'
    BY SMTT(30) DEF IInv, TypeOK
  <1>2. Bounds'
    BY <1>0 DEF IInv, Bounds, InBounds
  <1>3. Links'
    BY <1>0 DEF IInv, Links, ListIntact
  <1>4. SlotsNameListed'
    BY <1>0 DEF IInv, SlotsNameListed
  <1>5. Records'
    <2>1. \A c : Held(c)' = Held(c)
      BY <1>0 DEF Held
    <2>2. QED
      BY <1>0, <2>1 DEF IInv, Records
  <1>6. Work'
    BY <1>0 DEF IInv, Work
  <1>7. Locking'
    BY <1>0 DEF IInv, Locking
  <1>8. QED
    BY <1>1, <1>2, <1>3, <1>4, <1>5, <1>6, <1>7 DEF IInv

\* The invariant holds of what s_helper.c and client_registry.c do, for any
\* number of clients and any memory.
THEOREM Invariance == Spec => []IInv
  <1>1. IInv /\ Next => IInv'
    BY TypeStep, BoundsStep, LinksStep, SlotsStep, RecordsStep, WorkStep,
       LockingStep DEF IInv
  <1>2. IInv /\ [Next]_vars => IInv'
    BY <1>1, Stutter
  <1>3. QED
    BY InitIInv, <1>2, PTL DEF Spec

\* The variables have their types: count never passes what memory allows.
THEOREM TypeCorrect == Spec => []TypeOK
  <1>1. IInv => TypeOK
    BY DEF IInv
  <1>2. QED
    BY Invariance, <1>1, PTL

\* server_insert_pollslots writes inside both arrays, whichever allocation of
\* server_grow_pollslots fails, and however often.
THEOREM ArraysInBounds == Spec => []InBounds
  <1>1. IInv => InBounds
    BY DEF IInv, Bounds
  <1>2. QED
    BY Invariance, <1>1, PTL

\* creg_insert, creg_unlink and creg_destroy keep the list whole.
THEOREM ListWhole == Spec => []ListIntact
  <1>1. IInv => ListIntact
    BY DEF IInv, Links
  <1>2. QED
    BY Invariance, <1>1, PTL

\* The poll slots are those of the registered clients, with their own
\* descriptors.
THEOREM SlotsListed == Spec => []SlotsNameListed
  <1>1. IInv => SlotsNameListed
    BY DEF IInv
  <1>2. QED
    BY Invariance, <1>1, PTL

\* server_remove_pollslots and creg_unlink find what they look for.
THEOREM RemovalsFind == Spec => []SearchesFind
  <1>1. IInv => SearchesFind
    <2> SUFFICES ASSUME IInv PROVE SearchesFind
      OBVIOUS
    <2>1. pc = "find" => \E j \in i..(count - 1) :
                           pfds[j] = fd /\ clients[j] = client
      BY DEF IInv, Work
    <2>2. ASSUME pc = "seek" PROVE curr # NULL
      <3>1. PICK j \in DOMAIN order : order[j] = curr
        BY <2>2 DEF IInv, Work
      <3>2. curr \in Client
        BY <3>1 DEF IInv, TypeOK
      <3>3. QED
        BY <3>2, SlotsConstants
    <2>3. QED
      BY <2>1, <2>2 DEF SearchesFind
  <1>2. QED
    BY Invariance, <1>1, PTL

\* The worker that walks the list for SHARE, main in creg_unlink and
\* creg_destroy do not touch a record that has been released.
THEOREM WalksSafe == Spec => []WalkSafe
  <1>1. IInv => WalkSafe
    <2> SUFFICES ASSUME IInv PROVE WalkSafe
      OBVIOUS
    <2>1. Listed \subseteq heap /\ order \in Seq(Client)
      BY DEF IInv, Records, TypeOK
    <2>2. wcurr # NULL => wcurr \in heap
      BY <2>1 DEF IInv, Locking
    <2>3. ASSUME pc = "seek" PROVE curr \in heap
      <3>1. PICK j \in DOMAIN order : order[j] = curr
        BY <2>3 DEF IInv, Work
      <3>2. QED
        BY <3>1, <2>1 DEF Listed
    <2>4. ASSUME pc = "destroy", curr # NULL PROVE curr \in heap
      <3>1. curr = IF order = <<>> THEN NULL ELSE order[1]
        BY <2>4 DEF IInv, Links, ListIntact, First
      <3>2. order # <<>>
        BY <3>1, <2>4
      <3>3. 1 \in DOMAIN order /\ order[1] = curr
        BY <3>1, <3>2, <2>1
      <3>4. QED
        BY <3>3, <2>1 DEF Listed
    <2>5. QED
      BY <2>2, <2>3, <2>4 DEF WalkSafe
  <1>2. QED
    BY Invariance, <1>1, PTL

\* creg_destroy reaches every record that is still registered; what is left
\* waits for a result.
THEOREM AllDestroyed == Spec => []NothingForgotten
  <1>1. IInv => NothingForgotten
    <2> SUFFICES ASSUME IInv, pc = "end", NEW c \in heap
                 PROVE  dead[c] /\ requests[c] > 0
      BY DEF NothingForgotten
    <2>1. First = NULL /\ First = IF order = <<>> THEN NULL ELSE order[1]
      BY DEF IInv, Links, ListIntact, First, Ended
    <2>2. order = <<>>
      <3>1. ASSUME order # <<>> PROVE order[1] \in Client
        BY <3>1 DEF IInv, TypeOK
      <3>2. QED
        BY <2>1, <3>1, SlotsConstants
    <2>3. Listed = {} /\ ~Held(c)
      BY <2>2 DEF Listed, Held
    <2>4. QED
      BY <2>3 DEF IInv, Records
  <1>2. QED
    BY Invariance, <1>1, PTL
-----------------------------------------------------------------------------
(* The two structures are the two sets *)

\* Steps that leave the slots and the list alone.
LEMMA SameSets ==
    ASSUME UNCHANGED <<order, pfds, clients, count>>, Ended' = Ended
    PROVE  Listed' = Listed /\ Polled' = Polled
  BY DEF Listed, Polled, Slots

\* server_insert_pollslots adds the client, for its own descriptor.
LEMMA PlacePolls ==
    ASSUME IInv, Place
    PROVE  \E f \in Fd, c \in Client : Sets!Poll(f, c)
  <1>1. /\ pc = "place" /\ pc' = "loop" /\ count' = count + 1
        /\ pfds' = [pfds EXCEPT ![count] = fd]
        /\ clients' = [clients EXCEPT ![count] = client] /\ order' = order
    BY DEF Place, listVars
  <1>2. TypeOK /\ SlotsNameListed /\ Records
    BY DEF IInv
  <1>3. count \in Index /\ Slots \subseteq Index /\ count \notin Slots
        /\ Slots' = Slots \cup {count} /\ ~Ended /\ ~Ended'
    <2>1. count < capacity
      BY <1>1 DEF IInv, Bounds, InBounds, Ended
    <2>2. count \in 2..MAX_CAPACITY /\ capacity \in 2..MAX_CAPACITY
      BY <1>2 DEF TypeOK
    <2>3. QED
      BY <1>1, <2>1, <2>2, SlotsConstants DEF Slots, Index, Ended
  <1>4. /\ \A j \in Slots : clients'[j] = clients[j] /\ pfds'[j] = pfds[j]
        /\ clients'[count] = client /\ pfds'[count] = fd
    BY <1>1, <1>2, <1>3 DEF TypeOK
  <1>5. client \in Listed /\ client \in Client /\ fd = c2s_fd[client] /\ fd \in Fd
    BY <1>1, <1>2 DEF IInv, Work, Between, Records, TypeOK
  <1>6. \A j \in Slots : clients[j] # client
    BY <1>1, <1>2, <1>3, <1>5 DEF SlotsNameListed, Between
  <1>7. \A j \in Slots : pfds[j] # fd
    <2>1. ASSUME NEW j \in Slots, pfds[j] = fd PROVE FALSE
      <3>1. clients[j] \in Listed /\ pfds[j] = c2s_fd[clients[j]]
        BY <1>2, <1>3 DEF SlotsNameListed
      <3>2. clients[j] \in heap /\ client \in heap
        BY <3>1, <1>2, <1>5 DEF Records
      <3>3. clients[j] = client
        BY <3>1, <3>2, <2>1, <1>2, <1>5 DEF Records
      <3>4. QED
        BY <3>3, <1>6
    <2>2. QED
      BY <2>1
  <1>8. Polled' = Polled \cup {<<fd, client>>}
    BY <1>3, <1>4 DEF Polled
  <1>9. \A p \in Polled : p[1] # fd /\ p[2] # client
    BY <1>3, <1>6, <1>7 DEF Polled
  <1>10. Listed' = Listed
    BY <1>1 DEF Listed
  <1>11. Sets!Poll(fd, client)
    BY <1>5, <1>8, <1>9, <1>10 DEF Sets!Poll
  <1>12. QED
    BY <1>5, <1>11

\* server_remove_pollslots removes the slot of the client, whichever moves.
LEMMA RemoveUnpolls ==
    ASSUME IInv, RemoveSlot
    PROVE  \E p \in Polled : Sets!Unpoll(p)
  <1>1. /\ SlotsNameListed /\ pc = "find" /\ pc' = "dead" /\ order' = order
        /\ ~Ended /\ ~Ended'
    BY DEF IInv, RemoveSlot, listVars, Ended
  <1>2. /\ i \in Slots /\ count - 1 \in Slots /\ Slots' = Slots \ {count - 1}
        /\ \A j \in Slots' :
             /\ clients'[j] = IF j = i THEN clients[count - 1] ELSE clients[j]
             /\ pfds'[j] = IF j = i THEN pfds[count - 1] ELSE pfds[j]
    BY RemovedSlot
  <1>3. \A j, k \in Slots : clients[j] = clients[k] => j = k
    BY <1>1 DEF SlotsNameListed
  <1> DEFINE P == {<<pfds[j], clients[j]>> : j \in Slots}
             Q == {<<pfds'[j], clients'[j]>> : j \in Slots'}
             r == <<pfds[i], clients[i]>>
  <1>4. Polled = P /\ Polled' = Q
    BY <1>1 DEF Polled
  <1>5. ASSUME NEW p \in Q PROVE p \in P \ {r}
    <2>1. PICK j \in Slots' : p = <<pfds'[j], clients'[j]>>
      OBVIOUS
    <2>2. PICK k \in Slots : p = <<pfds[k], clients[k]>> /\ k # i
      <3>1. CASE j = i
        BY <3>1, <2>1, <1>2
      <3>2. CASE j # i
        BY <3>2, <2>1, <1>2
      <3>3. QED
        BY <3>1, <3>2
    <2>3. clients[k] # clients[i]
      BY <2>2, <1>2, <1>3
    <2>4. QED
      BY <2>2, <2>3
  <1>6. ASSUME NEW p \in P \ {r} PROVE p \in Q
    <2>1. PICK j \in Slots : p = <<pfds[j], clients[j]>> /\ j # i
      OBVIOUS
    <2>2. CASE j = count - 1
      <3>1. i \in Slots' /\ p = <<pfds'[i], clients'[i]>>
        BY <2>1, <2>2, <1>2
      <3>2. QED
        BY <3>1
    <2>3. CASE j # count - 1
      <3>1. j \in Slots' /\ p = <<pfds'[j], clients'[j]>>
        BY <2>1, <2>3, <1>2
      <3>2. QED
        BY <3>1
    <2>4. QED
      BY <2>2, <2>3
  <1>7. r \in Polled /\ Polled' = Polled \ {r}
    BY <1>2, <1>4, <1>5, <1>6
  <1>8. Listed' = Listed
    BY <1>1 DEF Listed
  <1>9. QED
    BY <1>7, <1>8 DEF Sets!Unpoll

\* Who is taken off the list is not polled.
LEMMA UnlinkUnlists ==
    ASSUME IInv, Unlink
    PROVE  \E c \in Client : Sets!Unlist(c)
  <1>1. /\ pc = "seek" /\ pc' = "release" /\ ~Ended /\ ~Ended'
        /\ UNCHANGED <<pfds, clients, count>>
    BY DEF Unlink, arrayVars, Ended
  <1>2. Listed' = Listed \ {client} /\ client \in Listed
    BY ListedUnlink
  <1>3. client \in Client
    BY <1>2 DEF Listed, IInv, TypeOK
  <1>4. \A j \in Slots : clients[j] # client
    BY <1>1, <1>2 DEF IInv, SlotsNameListed, Between
  <1>5. Polled' = Polled /\ \A p \in Polled : p[2] # client
    BY <1>1, <1>4 DEF Polled, Slots
  <1>6. QED
    BY <1>2, <1>3, <1>5 DEF Sets!Unlist

LEMMA DestroyUnlists ==
    ASSUME IInv, Destroy
    PROVE  \E c \in Client : Sets!Unlist(c)
  <1>1. pc = "destroy" /\ pc' = "destroy" /\ Ended /\ Ended'
    BY DEF Destroy, Ended
  <1>2. Listed' = Listed \ {curr} /\ curr \in Listed
    BY ListedDestroy
  <1>3. curr \in Client
    BY <1>2 DEF Listed, IInv, TypeOK
  <1>4. Polled = {} /\ Polled' = {}
    BY <1>1 DEF Polled
  <1>5. QED
    BY <1>2, <1>3, <1>4 DEF Sets!Unlist

\* Every step of the arrays and the list is a step of the sets, or none.
LEMMA StepImplements == IInv /\ Next => [Sets!Next]_<<Listed, Polled>>
  <1> SUFFICES ASSUME IInv, Next
               PROVE  Sets!Next \/ (Listed' = Listed /\ Polled' = Polled)
    OBVIOUS
  <1>1. ASSUME NEW c \in Client, NEW f \in Fd, CregInsert(c, f)
        PROVE  Sets!Next
    <2>1. Listed' = Listed \cup {c}
      BY <1>1, ListedInsert
    <2>2. c \notin Listed
      BY <1>1 DEF CregInsert, IInv, Records
    <2>3. Polled' = Polled
      BY <1>1 DEF CregInsert, arrayVars, Polled, Slots, Ended
    <2>4. Sets!List(c)
      BY <2>1, <2>2, <2>3 DEF Sets!List
    <2>5. QED
      BY <2>4 DEF Sets!Next
  <1>2. CASE Place
    BY <1>2, PlacePolls DEF Sets!Next
  <1>3. CASE RemoveSlot
    BY <1>3, RemoveUnpolls DEF Sets!Next
  <1>4. CASE Unlink
    BY <1>4, UnlinkUnlists DEF Sets!Next
  <1>5. CASE Destroy
    BY <1>5, DestroyUnlists DEF Sets!Next
  <1>6. CASE Teardown
    <2>1. order' = order /\ Ended'
      BY <1>6 DEF Teardown, Ended
    <2>2. Listed' = Listed /\ Polled' = {}
      BY <2>1 DEF Listed, Polled
    <2>3. Sets!Clear
      BY <2>2 DEF Sets!Clear
    <2>4. QED
      BY <2>3 DEF Sets!Next
  <1>7. CASE \/ Insert \/ Grow \/ GrowClients \/ Acquire \/ Find \/ MarkDead
             \/ Lock \/ Seek \/ Release \/ DestroyEnd
             \/ \E c \in Client : Result(c) \/ Refuse(c)
             \/ \E j \in Slots : Leave(j)
             \/ ShareLock \/ ShareStep \/ ShareEnd
    <2>1. UNCHANGED <<order, pfds, clients, count>>
      BY <1>7 DEF Insert, Grow, GrowClients, Acquire, Find, MarkDead, Lock,
         Seek, Release, DestroyEnd, Result, Refuse, Leave, ShareLock,
         ShareStep, ShareEnd, arrayVars, listVars, shareFrame
    <2>2. Ended' = Ended
      BY <1>7 DEF Insert, Grow, GrowClients, Acquire, Find, MarkDead, Lock,
         Seek, Release, DestroyEnd, Result, Refuse, Leave, ShareLock,
         ShareStep, ShareEnd, shareFrame, Ended
    <2>3. QED
      BY <2>1, <2>2, SameSets
  <1>8. QED
    <2>1. CASE \E c \in Client, f \in Fd : CregInsert(c, f)
      BY <2>1, <1>1
    <2>2. QED
      BY <2>1, <1>2, <1>3, <1>4, <1>5, <1>6, <1>7 DEF Next

\* The poll slots and the registry are what AnimateServer takes them for: a
\* set of registered clients, of which some are polled, each through its own
\* descriptor.
THEOREM Refinement == Spec => ImplementsSets
  <1>1. Init => Sets!Init
    <2>1. Init => order = <<>> /\ count = 2 /\ ~Ended
      BY DEF Init, Ended
    <2>2. order = <<>> => Listed = {}
      BY DEF Listed
    <2>3. count = 2 => Polled = {}
      BY DEF Polled, Slots
    <2>4. QED
      BY <2>1, <2>2, <2>3 DEF Sets!Init
  <1>2. IInv /\ [Next]_vars => [Sets!Next]_(Sets!vars)
    <2>1. UNCHANGED vars => Listed' = Listed /\ Polled' = Polled
      BY SameSets DEF vars, localVars, arrayVars, listVars, Ended
    <2>2. QED
      BY StepImplements, <2>1 DEF Sets!vars
  <1>3. QED
    BY <1>1, <1>2, Invariance, PTL DEF Spec, ImplementsSets, Sets!Spec
=============================================================================
