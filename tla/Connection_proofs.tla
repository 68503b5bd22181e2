---------------------------- MODULE Connection_proofs -------------------------
(***************************************************************************)
(* Records, poll slots and descriptors agree, whatever the clients do: the *)
(* theorems that need no assumption about the peers.  Then what the lines  *)
(* of a client of the repository do: Login comes first, nothing before its *)
(* answer, and no second Login becomes a task.                             *)
(***************************************************************************)
EXTENDS AnimateServer_proofs

\* Records are only freed between h and g, keep their pid and stay logged in.
Evolves(h, g) ==
    \A a \in Addr : g[a].alloc =>
        /\ h[a].alloc /\ g[a].pid = h[a].pid
        /\ h[a].logged_in => g[a].logged_in

\* Those that are not dead are all still there.
Spares(h, g) ==
    \A a \in Addr : h[a].alloc /\ ~h[a].dead =>
                       g[a].alloc /\ ~g[a].dead /\ g[a].pid = h[a].pid

\* Counting changes nothing but the count.
LEMMA RefsFields ==
    ASSUME NEW c \in ActiveClient, NEW n \in Int
    PROVE  /\ Refs(c, n).alloc = c.alloc /\ Refs(c, n).pid = c.pid
           /\ Refs(c, n).dead = c.dead /\ Refs(c, n).logged_in = c.logged_in
BY DEF ActiveClient, Refs

\* Setting a flag leaves the other fields alone.
LEMMA FieldUpdates ==
    ASSUME NEW c \in ActiveClient
    PROVE  /\ [c EXCEPT !.dead = TRUE].alloc = c.alloc
           /\ [c EXCEPT !.dead = TRUE].pid = c.pid
           /\ [c EXCEPT !.dead = TRUE].logged_in = c.logged_in
           /\ [c EXCEPT !.logged_in = TRUE].alloc = c.alloc
           /\ [c EXCEPT !.logged_in = TRUE].pid = c.pid
           /\ [c EXCEPT !.logged_in = TRUE].dead = c.dead
           /\ [c EXCEPT !.logged_in = TRUE].logged_in = TRUE
<1>1. /\ [c EXCEPT !.dead = TRUE].alloc = c.alloc
      /\ [c EXCEPT !.dead = TRUE].pid = c.pid
      /\ [c EXCEPT !.dead = TRUE].logged_in = c.logged_in
  BY DEF ActiveClient
<1>2. /\ [c EXCEPT !.logged_in = TRUE].alloc = c.alloc
      /\ [c EXCEPT !.logged_in = TRUE].pid = c.pid
      /\ [c EXCEPT !.logged_in = TRUE].dead = c.dead
  BY DEF ActiveClient
<1>3. [c EXCEPT !.logged_in = TRUE].logged_in = TRUE
  BY DEF ActiveClient
<1> QED BY <1>1, <1>2, <1>3

\* When one update of a record keeps its client.
LEMMA UpdateEvolves ==
    ASSUME NEW h \in [Addr -> ActiveClient], NEW a, NEW c,
           a \in Addr /\ c.alloc => h[a].alloc /\ c.pid = h[a].pid,
           a \in Addr /\ c.alloc /\ h[a].logged_in => c.logged_in
    PROVE  Evolves(h, [h EXCEPT ![a] = c])
BY DEF Evolves

\* When one update leaves a client that is not dead in place.
LEMMA UpdateSpares ==
    ASSUME NEW h \in [Addr -> ActiveClient], NEW a, NEW c,
           a \in Addr /\ h[a].alloc /\ ~h[a].dead =>
               c.alloc /\ ~c.dead /\ c.pid = h[a].pid
    PROVE  Spares(h, [h EXCEPT ![a] = c])
BY DEF Spares

\* Evolves composes.
LEMMA EvolvesTransitive ==
    ASSUME NEW f, NEW g, NEW h, Evolves(f, g), Evolves(g, h)
    PROVE  Evolves(f, h)
BY DEF Evolves

\* Spares composes.
LEMMA SparesTransitive ==
    ASSUME NEW f, NEW g, NEW h, Spares(f, g), Spares(g, h)
    PROVE  Spares(f, h)
BY DEF Spares

\* creg_release_client frees nobody who is not dead.
LEMMA ReleasedEffect ==
    ASSUME NEW h \in [Addr -> ActiveClient], NEW a
    PROVE  Evolves(h, Released(h, a)) /\ Spares(h, Released(h, a))
<1>1. CASE ~h[a].alloc
  BY <1>1 DEF Released, Evolves, Spares
<1>2. CASE h[a].alloc /\ h[a].dead /\ h[a].refcount = 1
  <2>1. Released(h, a) = [h EXCEPT ![a] = Freed] /\ ~Freed.alloc
    BY <1>2 DEF Released, Freed
  <2>2. Evolves(h, [h EXCEPT ![a] = Freed])
    BY <2>1, UpdateEvolves
  <2>3. Spares(h, [h EXCEPT ![a] = Freed])
    BY <1>2, UpdateSpares
  <2> QED BY <2>1, <2>2, <2>3
<1>3. CASE h[a].alloc /\ ~(h[a].dead /\ h[a].refcount = 1)
  <2> DEFINE c == Refs(h[a], -1)
  <2>1. Released(h, a) = [h EXCEPT ![a] = c]
    BY <1>3 DEF Released
  <2>2. a \in Addr => /\ c.alloc = h[a].alloc /\ c.pid = h[a].pid
                       /\ c.dead = h[a].dead /\ c.logged_in = h[a].logged_in
    <3> SUFFICES ASSUME a \in Addr
                 PROVE  /\ c.alloc = h[a].alloc /\ c.pid = h[a].pid
                        /\ c.dead = h[a].dead /\ c.logged_in = h[a].logged_in
      OBVIOUS
    <3>1. h[a] \in ActiveClient /\ -1 \in Int
      OBVIOUS
    <3> QED BY <3>1, RefsFields
  <2> HIDE DEF c
  <2>3. Evolves(h, [h EXCEPT ![a] = c])
    BY <2>2, UpdateEvolves
  <2>4. Spares(h, [h EXCEPT ![a] = c])
    BY <2>2, UpdateSpares
  <2> QED BY <2>1, <2>3, <2>4
<1> QED BY <1>1, <1>2, <1>3

\* creg_remove disturbs no record but its own.
LEMMA RemovedEffect ==
    ASSUME NEW h \in [Addr -> ActiveClient], NEW a
    PROVE  /\ Evolves(h, Removed(h, a))
           /\ \A b \in Addr \ {a} : Removed(h, a)[b] = h[b]
<1> DEFINE d == [h[a] EXCEPT !.dead = TRUE]
           g == [h EXCEPT ![a] = d]
<1>1. a \in Addr => /\ d \in ActiveClient /\ d.alloc = h[a].alloc
                     /\ d.pid = h[a].pid /\ d.logged_in = h[a].logged_in
  BY FieldUpdates, ClientFieldTypes
<1>2. Removed(h, a) = IF h[a].alloc THEN Released(g, a) ELSE h
  BY DEF Removed
<1> HIDE DEF d
<1>3. Evolves(h, g)
  BY <1>1, UpdateEvolves
<1>4. g \in [Addr -> ActiveClient]
  BY <1>1, UpdateType
<1>5. Evolves(g, Released(g, a))
  BY <1>4, ReleasedEffect
<1>6. Evolves(h, h)
  BY DEF Evolves
<1>7. \A b \in Addr \ {a} : Released(g, a)[b] = h[b]
  <2>1. \A b \in Addr \ {a} : g[b] = h[b]
    OBVIOUS
  <2> HIDE DEF g
  <2>2. \A b \in Addr \ {a} : Released(g, a)[b] = g[b]
    BY <1>4 DEF Released
  <2> QED BY <2>1, <2>2
<1> HIDE DEF g
<1>8. Evolves(h, Removed(h, a))
  BY <1>2, <1>3, <1>5, <1>6, EvolvesTransitive
<1> QED BY <1>2, <1>7, <1>8

\* logged_in frees and kills nobody.
LEMMA LoggedInEffect ==
    ASSUME NEW h \in [Addr -> ActiveClient], NEW a
    PROVE  Evolves(h, LoggedIn(h, a)) /\ Spares(h, LoggedIn(h, a))
<1> DEFINE c == [h[a] EXCEPT !.logged_in = TRUE]
<1>1. a \in Addr => /\ c.alloc = h[a].alloc /\ c.pid = h[a].pid
                     /\ c.dead = h[a].dead /\ c.logged_in
  BY FieldUpdates
<1>2. LoggedIn(h, a) = IF h[a].alloc THEN [h EXCEPT ![a] = c] ELSE h
  BY DEF LoggedIn
<1> HIDE DEF c
<1>3. Evolves(h, [h EXCEPT ![a] = c]) /\ Spares(h, [h EXCEPT ![a] = c])
  BY <1>1, UpdateEvolves, UpdateSpares
<1>4. Evolves(h, h) /\ Spares(h, h)
  BY DEF Evolves, Spares
<1> QED BY <1>2, <1>3, <1>4

\* creg_acquire_client changes nothing but a count.
LEMMA AcquiredEffect ==
    ASSUME NEW h \in [Addr -> ActiveClient], NEW a
    PROVE  /\ Evolves(h, Acquired(h, a)) /\ Spares(h, Acquired(h, a))
           /\ \A b \in Addr : /\ Acquired(h, a)[b].alloc = h[b].alloc
                              /\ Acquired(h, a)[b].pid = h[b].pid
<1> DEFINE c == Refs(h[a], 1)
<1>1. a \in Addr => /\ c.alloc = h[a].alloc /\ c.pid = h[a].pid
                     /\ c.dead = h[a].dead /\ c.logged_in = h[a].logged_in
  <2> SUFFICES ASSUME a \in Addr
               PROVE  /\ c.alloc = h[a].alloc /\ c.pid = h[a].pid
                      /\ c.dead = h[a].dead /\ c.logged_in = h[a].logged_in
    OBVIOUS
  <2>1. h[a] \in ActiveClient /\ 1 \in Int
    OBVIOUS
  <2> QED BY <2>1, RefsFields
<1>2. Acquired(h, a) = [h EXCEPT ![a] = c]
  BY DEF Acquired
<1> HIDE DEF c
<1>3. Evolves(h, [h EXCEPT ![a] = c]) /\ Spares(h, [h EXCEPT ![a] = c])
  BY <1>1, UpdateEvolves, UpdateSpares
<1> QED BY <1>1, <1>2, <1>3
-----------------------------------------------------------------------------
(* Poll slots *)

\* Slots s pair the descriptors of the clients of reg in heap h.
SlotsFor(h, reg, s) ==
    /\ {s[i].client : i \in DOMAIN s} = reg
    /\ \A i, j \in DOMAIN s : s[i].client = s[j].client => i = j
    /\ \A i \in DOMAIN s : LET c == h[s[i].client]
                           IN c.alloc /\ ~c.dead /\ c.pid = s[i].fd

\* No client has two records in h.
PidsOnce(h) ==
    \A a, b \in Addr : h[a].alloc /\ h[b].alloc /\ h[a].pid = h[b].pid => a = b

\* SlotsFor states SlotsMatchRegistry of any heap, registry and slots.
LEMMA SlotsForMatch ==
    /\ SlotsMatchRegistry <=> SlotsFor(heap, registry, slots)
    /\ SlotsMatchRegistry' <=> SlotsFor(heap', registry', slots')
BY DEF SlotsMatchRegistry, SlotsFor

\* Slots still match when their clients are alive and the same.
LEMMA SlotsSpared ==
    ASSUME NEW h, NEW g, NEW reg, NEW s \in Seq(Slot), SlotsFor(h, reg, s),
           \A i \in DOMAIN s : LET a == s[i].client
                               IN g[a].alloc /\ ~g[a].dead /\ g[a].pid = h[a].pid
    PROVE  SlotsFor(g, reg, s)
BY DEF SlotsFor

\* A slot names a client and a descriptor.
LEMMA SlotClient ==
    ASSUME NEW s \in Seq(Slot), NEW i \in DOMAIN s
    PROVE  s[i] \in Slot /\ s[i].client \in Addr /\ s[i].fd \in Pid
<1>1. s[i] \in Slot
  OBVIOUS
<1> QED BY <1>1 DEF Slot

\* server_remove_pollslots on an array that has the descriptor once.
LEMMA WithoutSlotAt ==
    ASSUME NEW s \in Seq(Slot), NEW fd, NEW i \in DOMAIN s, s[i].fd = fd,
           \A j \in DOMAIN s : s[j].fd = fd => j = i
    PROVE  WithoutSlot(s, fd) =
              [j \in 1..Len(s) - 1 |-> IF j = i THEN s[Len(s)] ELSE s[j]]
<1> DEFINE match == {m \in 1..Len(s) : s[m].fd = fd}
<1>1. match = {i}
  OBVIOUS
<1>2. (CHOOSE m \in match : \A j \in match : m <= j) = i
  BY <1>1
<1> QED BY <1>1, <1>2 DEF WithoutSlot

\* server_remove_pollslots leaves slots without the descriptor alone.
LEMMA WithoutSlotNone ==
    ASSUME NEW s \in Seq(Slot), NEW fd, \A j \in DOMAIN s : s[j].fd # fd
    PROVE  WithoutSlot(s, fd) = s
<1>1. {m \in 1..Len(s) : s[m].fd = fd} = {}
  OBVIOUS
<1> QED BY <1>1 DEF WithoutSlot

\* Moving the last slot to the place of slot i removes the client of slot i
\* and no other.
LEMMA SlotsSwapped ==
    ASSUME NEW s \in Seq(Slot), NEW i \in DOMAIN s, NEW h, NEW g, NEW reg,
           SlotsFor(h, reg, s),
           \A b \in reg \ {s[i].client} : g[b] = h[b]
    PROVE  SlotsFor(g, reg \ {s[i].client},
                    [j \in 1..Len(s) - 1 |-> IF j = i THEN s[Len(s)] ELSE s[j]])
<1> DEFINE n == Len(s)
           t == [j \in 1..n - 1 |-> IF j = i THEN s[n] ELSE s[j]]
           src(j) == IF j = i THEN n ELSE j
<1>1. n \in Nat /\ n >= 1 /\ DOMAIN s = 1..n /\ i \in 1..n
  OBVIOUS
<1>5. DOMAIN t = 1..n - 1
  OBVIOUS
<1> HIDE DEF n
<1>2. \A j \in 1..n - 1 : src(j) \in 1..n /\ src(j) # i /\ t[j] = s[src(j)]
  BY <1>1
<1>3. ASSUME NEW j \in 1..n - 1, NEW k \in 1..n - 1, src(j) = src(k)
      PROVE  j = k
  <2>1. j # n /\ k # n
    BY <1>1
  <2> QED BY <1>3, <2>1
<1>4. \A m \in 1..n : m # i => \E j \in 1..n - 1 : src(j) = m
  <2> SUFFICES ASSUME NEW m \in 1..n, m # i PROVE \E j \in 1..n - 1 : src(j) = m
    OBVIOUS
  <2>1. CASE m = n
    <3>1. i \in 1..n - 1
      BY <1>1, <2>1
    <3>2. src(i) = m
      BY <2>1
    <3> QED BY <3>1, <3>2
  <2>2. CASE m # n
    <3>1. m \in 1..n - 1 /\ src(m) = m
      BY <1>1, <2>2
    <3> QED BY <3>1
  <2> QED BY <2>1, <2>2
<1> HIDE DEF src, t
<1>6. /\ {s[m].client : m \in 1..n} = reg
      /\ \A m, k \in 1..n : s[m].client = s[k].client => m = k
      /\ \A m \in 1..n : LET c == h[s[m].client]
                         IN c.alloc /\ ~c.dead /\ c.pid = s[m].fd
  BY <1>1 DEF SlotsFor
<1>7. {t[j].client : j \in 1..n - 1} = reg \ {s[i].client}
  <2>1. ASSUME NEW j \in 1..n - 1
        PROVE  t[j].client \in reg \ {s[i].client}
    BY <1>1, <1>2, <1>6
  <2>2. ASSUME NEW b \in reg \ {s[i].client}
        PROVE  \E j \in 1..n - 1 : t[j].client = b
    <3>1. PICK m \in 1..n : s[m].client = b /\ m # i
      BY <1>6
    <3>2. PICK j \in 1..n - 1 : src(j) = m
      BY <1>4, <3>1
    <3> QED BY <1>2, <3>1, <3>2
  <2> QED BY <2>1, <2>2
<1>8. ASSUME NEW j \in 1..n - 1, NEW k \in 1..n - 1, t[j].client = t[k].client
      PROVE  j = k
  BY <1>2, <1>3, <1>6, <1>8
<1>9. ASSUME NEW j \in 1..n - 1
      PROVE  LET c == g[t[j].client]
             IN c.alloc /\ ~c.dead /\ c.pid = t[j].fd
  <2>1. t[j].client \in reg \ {s[i].client}
    BY <1>7
  <2>2. g[t[j].client] = h[t[j].client] /\ t[j] = s[src(j)] /\ src(j) \in 1..n
    BY <1>2, <2>1
  <2> QED BY <1>6, <2>2
<1>10. SlotsFor(g, reg \ {s[i].client}, t)
  BY <1>5, <1>7, <1>8, <1>9 DEF SlotsFor
<1> QED BY <1>10 DEF t, n

\* So removing the descriptor of a client, with the client, keeps slots and
\* registry in agreement: each of the two is in use once.
LEMMA SlotsRemove ==
    ASSUME NEW s \in Seq(Slot), NEW h \in [Addr -> ActiveClient], NEW g,
           NEW reg \in SUBSET Addr, SlotsFor(h, reg, s), PidsOnce(h),
           NEW a \in Addr, h[a].alloc,
           \A b \in Addr \ {a} : g[b] = h[b]
    PROVE  SlotsFor(g, reg \ {a}, WithoutSlot(s, h[a].pid))
<1>1. \A j \in DOMAIN s : /\ s[j].client \in Addr /\ s[j].client \in reg
                          /\ h[s[j].client].alloc
                          /\ h[s[j].client].pid = s[j].fd
  BY SlotClient DEF SlotsFor
<1>2. \A j \in DOMAIN s : s[j].fd = h[a].pid => s[j].client = a
  BY <1>1 DEF PidsOnce
<1>3. CASE \E i \in DOMAIN s : s[i].client = a
  <2>1. PICK i \in DOMAIN s : s[i].client = a
    BY <1>3
  <2>2. s[i].fd = h[a].pid
    BY <1>1, <2>1
  <2>3. \A j \in DOMAIN s : s[j].fd = h[a].pid => j = i
    BY <1>2, <2>1 DEF SlotsFor
  <2>4. \A b \in reg \ {s[i].client} : g[b] = h[b]
    BY <2>1
  <2> QED BY <2>1, <2>2, <2>3, <2>4, WithoutSlotAt, SlotsSwapped
<1>4. CASE \A i \in DOMAIN s : s[i].client # a
  <2>1. WithoutSlot(s, h[a].pid) = s
    BY <1>2, <1>4, WithoutSlotNone
  <2>2. a \notin reg
    BY <1>4 DEF SlotsFor
  <2>3. reg \ {a} = reg
    BY <2>2
  <2>4. \A i \in DOMAIN s : g[s[i].client] = h[s[i].client]
    BY <1>1, <1>4
  <2>5. SlotsFor(g, reg, s)
    BY <1>1, <2>4 DEF SlotsFor
  <2> QED BY <2>1, <2>3, <2>5
<1> QED BY <1>3, <1>4
-----------------------------------------------------------------------------
(* Records and descriptors *)

\* No handshake reports success, and none that has is anything but lost.
Handshakes ==
    \A p \in Pid :
        LET s == stage[<<p, 0>>]
            t == stage'[<<p, 0>>]
        IN \/ t = s
           \/ s \notin {"done", "piped", "lost"} /\ t \notin {"piped", "lost"}
           \/ s = "piped" /\ t = "lost"

\* The move of a line is the move of no handshake.
LEMMA LineHandshakes ==
    ASSUME TypeOK, NEW r, IsLine(r), NEW s, stage' = [stage EXCEPT ![r] = s]
    PROVE  Handshakes
BY HandshakeInReq DEF TypeOK, IsLine, Handshakes

\* A handshake that has not been reported owns no descriptor.
LEMMA EarlyHandshakes ==
    ASSUME TypeOK, NEW r \in Req, stage[r] \in {"none", "queued", "running"},
           NEW s, s \notin {"piped", "lost"}, stage' = [stage EXCEPT ![r] = s]
    PROVE  Handshakes
BY HandshakeInReq DEF TypeOK, Handshakes

\* Steps that free nobody and open nothing keep records and descriptors
\* together.
LEMMA ConnKeep ==
    ASSUME OneRecord, DescriptorsOwned, Handshakes, UNCHANGED sfd,
           \A a \in Addr : heap'[a].alloc = heap[a].alloc
                           /\ heap'[a].pid = heap[a].pid
    PROVE  OneRecord' /\ DescriptorsOwned'
<1>1. OneRecord'
  BY DEF OneRecord, Handshakes
<1>2. ASSUME NEW p \in Pid PROVE sfd'[p] <=> Owned(p)'
  <2>1. sfd[p] <=> Owned(p)
    BY DEF DescriptorsOwned
  <2>2. (\E a \in Addr : heap'[a].alloc /\ heap'[a].pid = p)
          <=> (\E a \in Addr : heap[a].alloc /\ heap[a].pid = p)
    OBVIOUS
  <2>3. stage'[<<p, 0>>] \in {"piped", "lost"} <=> stage[<<p, 0>>] \in {"piped", "lost"}
    BY DEF Handshakes
  <2> QED BY <2>1, <2>2, <2>3 DEF Owned
<1> QED BY <1>1, <1>2 DEF DescriptorsOwned

\* Freeing clients closes exactly the descriptors nobody answers for any
\* more.
LEMMA ConnFree ==
    ASSUME TypeOK, OneRecord, DescriptorsOwned, Handshakes,
           NEW h, NEW lines, FreeClients(h, lines), Evolves(heap, h)
    PROVE  OneRecord' /\ DescriptorsOwned'
<1>1. heap' = h /\ sfd \in [Pid -> BOOLEAN]
  BY DEF FreeClients, TypeOK
<1>2. OneRecord'
  BY <1>1 DEF OneRecord, Handshakes, Evolves
<1>3. ASSUME NEW p \in Pid PROVE sfd'[p] <=> Owned(p)'
  <2>1. sfd[p] <=> Owned(p)
    BY DEF DescriptorsOwned
  <2>2. sfd'[p] <=> /\ sfd[p]
                    /\ \A a \in Addr : heap[a].alloc /\ heap[a].pid = p
                                          => h[a].alloc
    BY DEF FreeClients
  <2>3. stage'[<<p, 0>>] \in {"piped", "lost"} <=> stage[<<p, 0>>] \in {"piped", "lost"}
    BY DEF Handshakes
  <2>4. CASE \E a \in Addr : heap[a].alloc /\ heap[a].pid = p
    <3>1. PICK a \in Addr : heap[a].alloc /\ heap[a].pid = p
      BY <2>4
    <3>2. \A b \in Addr : heap[b].alloc /\ heap[b].pid = p => b = a
      BY <3>1 DEF OneRecord
    <3>3. stage[<<p, 0>>] = "done"
      BY <3>1 DEF OneRecord
    <3>4. sfd'[p] <=> h[a].alloc
      BY <2>1, <2>2, <3>1, <3>2 DEF Owned
    <3>5. (\E b \in Addr : h[b].alloc /\ h[b].pid = p) <=> h[a].alloc
      BY <3>1, <3>2 DEF Evolves
    <3> QED BY <1>1, <2>3, <3>3, <3>4, <3>5 DEF Owned
  <2>5. CASE ~\E a \in Addr : heap[a].alloc /\ heap[a].pid = p
    <3>1. ~\E b \in Addr : h[b].alloc /\ h[b].pid = p
      BY <2>5 DEF Evolves
    <3> QED BY <1>1, <2>1, <2>2, <2>3, <2>5, <3>1 DEF Owned
  <2> QED BY <2>4, <2>5
<1> QED BY <1>2, <1>3 DEF DescriptorsOwned

\* Steps that touch no connection.
LEMMA StepAside ==
    ASSUME ConnInv, Handshakes, UNCHANGED <<heap, registry, slots, sfd>>
    PROVE  ConnInv'
<1>1. OneRecord' /\ DescriptorsOwned'
  BY ConnKeep DEF ConnInv
<1> QED BY <1>1 DEF ConnInv, SlotsMatchRegistry

\* A client with one record at most has its pid in one.
LEMMA RecordsOnce == OneRecord => PidsOnce(heap)
BY DEF OneRecord, PidsOnce

\* Slots match any heap that spares the living.
LEMMA RegisteredSpared ==
    ASSUME TypeOK, SlotsMatchRegistry, NEW h, Spares(heap, h)
    PROVE  SlotsFor(h, registry, slots)
<1>1. slots \in Seq(Slot) /\ SlotsFor(heap, registry, slots)
  BY SlotsForMatch DEF TypeOK
<1>2. \A i \in DOMAIN slots : slots[i].client \in Addr
  BY <1>1, SlotClient
<1>3. \A i \in DOMAIN slots : LET a == slots[i].client
                              IN h[a].alloc /\ ~h[a].dead /\ h[a].pid = heap[a].pid
  BY <1>1, <1>2 DEF SlotsFor, Spares
<1> QED BY <1>1, <1>3, SlotsSpared

\* The result of a line is taken and the client it names stays in its slot.
LEMMA ReleaseConn ==
    ASSUME TypeOK, ConnInv, Handshakes, NEW h, FreeClients(h, c2s),
           Evolves(heap, h), Spares(heap, h), UNCHANGED <<registry, slots>>
    PROVE  ConnInv'
<1>1. OneRecord' /\ DescriptorsOwned'
  BY ConnFree DEF ConnInv
<1>2. SlotsFor(h, registry, slots)
  BY RegisteredSpared DEF ConnInv
<1>3. heap' = h
  BY DEF FreeClients
<1> QED BY <1>1, <1>2, <1>3, SlotsForMatch DEF ConnInv

\* RemoveSwept: the slot and the registration of the same client go.
LEMMA RemoveSweptConn ==
    ASSUME TypeOK, ConnInv, Handshakes, NEW lines, AtSlot, RemoveSwept(lines)
    PROVE  ConnInv'
<1> DEFINE a == slots[at].client
           h == Removed(heap, a)
<1>1. a \in Addr /\ at \in DOMAIN slots /\ slots \in Seq(Slot)
      /\ heap \in [Addr -> ActiveClient] /\ registry \in SUBSET Addr
  BY SlotAtType DEF TypeOK, AtSlot
<1>2. heap[a].alloc /\ slots[at].fd = heap[a].pid
  BY <1>1 DEF ConnInv, SlotsMatchRegistry
<1>3. Evolves(heap, h) /\ \A b \in Addr \ {a} : h[b] = heap[b]
  BY <1>1, RemovedEffect
<1>4. /\ FreeClients(h, lines) /\ registry' = registry \ {a}
      /\ slots' = WithoutSlot(slots, heap[a].pid)
  BY <1>2 DEF RemoveSwept
<1> HIDE DEF a, h
<1>5. OneRecord' /\ DescriptorsOwned'
  BY <1>3, <1>4, ConnFree DEF ConnInv
<1>6. SlotsFor(h, registry \ {a}, WithoutSlot(slots, heap[a].pid))
  BY <1>1, <1>2, <1>3, SlotsRemove, RecordsOnce, SlotsForMatch DEF ConnInv
<1>7. heap' = h
  BY <1>4 DEF FreeClients
<1> QED BY <1>4, <1>5, <1>6, <1>7, SlotsForMatch DEF ConnInv

\* AUTH_NO and AUTH_UN, wherever the client is by now: in its slot, removed
\* by the sweep and still allocated, or freed.
LEMMA AuthRejectConn ==
    ASSUME TypeOK, ConnInv, Handshakes, NEW r, owner[r] \in Addr, AuthReject(r)
    PROVE  ConnInv'
<1> DEFINE a == owner[r]
           f == Released(heap, a)
           h == Removed(f, a)
<1>1. /\ slots \in Seq(Slot) /\ heap \in [Addr -> ActiveClient]
      /\ registry \in SUBSET Addr /\ a \in Addr
  BY DEF TypeOK
<1>2. /\ FreeClients(h, c2s) /\ registry' = registry \ {a}
      /\ slots' = IF f[a].alloc THEN WithoutSlot(slots, f[a].pid) ELSE slots
  BY DEF AuthReject
<1>3. Evolves(heap, f) /\ Spares(heap, f) /\ f \in [Addr -> ActiveClient]
  BY <1>1, ReleasedEffect, ReleasedType
<1> HIDE DEF a, f
<1>4. Evolves(f, h) /\ \A b \in Addr \ {a} : h[b] = f[b]
  BY <1>3, RemovedEffect
<1> HIDE DEF h
<1>5. Evolves(heap, h)
  BY <1>3, <1>4, EvolvesTransitive
<1>6. OneRecord' /\ DescriptorsOwned'
  BY <1>2, <1>5, ConnFree DEF ConnInv
<1>7. heap' = h
  BY <1>2 DEF FreeClients
<1>8. SlotsFor(f, registry, slots)
  BY <1>3, RegisteredSpared DEF ConnInv
<1>9. PidsOnce(f)
  BY <1>3 DEF ConnInv, OneRecord, PidsOnce, Evolves
<1>10. CASE f[a].alloc
  <2>1. SlotsFor(h, registry \ {a}, WithoutSlot(slots, f[a].pid))
    BY <1>1, <1>3, <1>4, <1>8, <1>9, <1>10, SlotsRemove
  <2> QED BY <1>2, <1>6, <1>7, <1>10, <2>1, SlotsForMatch DEF ConnInv
<1>11. CASE ~f[a].alloc
  <2>1. \A i \in DOMAIN slots : slots[i].client \in Addr /\ f[slots[i].client].alloc
    BY <1>1, <1>8, SlotClient DEF SlotsFor
  <2>2. \A i \in DOMAIN slots : slots[i].client # a
    BY <1>11, <2>1
  <2>3. a \notin registry
    BY <1>8, <2>2 DEF SlotsFor
  <2>4. registry \ {a} = registry
    BY <2>3
  <2>5. \A i \in DOMAIN slots : LET b == slots[i].client
                                IN h[b].alloc /\ ~h[b].dead /\ h[b].pid = f[b].pid
    BY <1>4, <1>8, <2>1, <2>2 DEF SlotsFor
  <2>6. SlotsFor(h, registry, slots)
    BY <1>1, <1>8, <2>5, SlotsSpared
  <2> QED BY <1>2, <1>6, <1>7, <1>11, <2>4, <2>6, SlotsForMatch DEF ConnInv
<1> QED BY <1>10, <1>11

\* server_insert_pollslots after creg_insert keeps them in agreement.
LEMMA SlotsAppended ==
    ASSUME NEW s \in Seq(Slot), NEW h, NEW g, NEW reg, NEW a, NEW e,
           SlotsFor(h, reg, s), \A b \in reg : b # a /\ g[b] = h[b],
           e.client = a, g[a].alloc, ~g[a].dead, g[a].pid = e.fd
    PROVE  SlotsFor(g, reg \cup {a}, Append(s, e))
<1> DEFINE t == Append(s, e)
           n == Len(s)
<1>1. n \in Nat /\ DOMAIN s = 1..n
  OBVIOUS
<1>2. /\ DOMAIN t = 1..n + 1 /\ t[n + 1] = e
      /\ \A i \in 1..n : t[i] = s[i]
  OBVIOUS
<1> HIDE DEF t, n
<1>3. /\ {s[i].client : i \in 1..n} = reg
      /\ \A i, j \in 1..n : s[i].client = s[j].client => i = j
      /\ \A i \in 1..n : LET c == h[s[i].client]
                         IN c.alloc /\ ~c.dead /\ c.pid = s[i].fd
  BY <1>1 DEF SlotsFor
<1>4. \A i \in 1..n + 1 : i \in 1..n \/ i = n + 1
  BY <1>1
<1>5. \A i \in 1..n : t[i].client \in reg /\ t[i].client # a
  BY <1>2, <1>3
<1>6. n + 1 \in 1..n + 1 /\ t[n + 1].client = a /\ \A i \in 1..n : i \in 1..n + 1
  BY <1>1, <1>2
<1>7. {t[i].client : i \in 1..n + 1} = reg \cup {a}
  <2>1. ASSUME NEW i \in 1..n + 1 PROVE t[i].client \in reg \cup {a}
    BY <1>4, <1>5, <1>6
  <2>2. ASSUME NEW b \in reg PROVE \E i \in 1..n + 1 : t[i].client = b
    <3>1. PICK i \in 1..n : s[i].client = b
      BY <1>3
    <3> QED BY <1>2, <1>6, <3>1
  <2> QED BY <1>6, <2>1, <2>2
<1>8. ASSUME NEW i \in 1..n + 1, NEW j \in 1..n + 1, t[i].client = t[j].client
      PROVE  i = j
  <2>1. CASE i \in 1..n /\ j \in 1..n
    BY <1>2, <1>3, <1>8, <2>1
  <2>2. CASE i = n + 1 \/ j = n + 1
    BY <1>4, <1>5, <1>6, <1>8, <2>2
  <2> QED BY <1>4, <2>1, <2>2
<1>9. ASSUME NEW i \in 1..n + 1
      PROVE  LET c == g[t[i].client] IN c.alloc /\ ~c.dead /\ c.pid = t[i].fd
  <2>1. CASE i \in 1..n
    <3>1. g[t[i].client] = h[s[i].client] /\ t[i] = s[i]
      BY <1>2, <1>5, <2>1
    <3> QED BY <1>3, <2>1, <3>1
  <2>2. CASE i = n + 1
    BY <1>2, <2>2
  <2> QED BY <1>4, <2>1, <2>2
<1>10. SlotsFor(g, reg \cup {a}, t)
  BY <1>2, <1>7, <1>8, <1>9 DEF SlotsFor
<1> QED BY <1>10 DEF t

\* A request of kind HANDSHAKE that has begun is a handshake.
LEMMA HandshakeKind ==
    ASSUME Numbered, TypeOK, NEW r \in Req, kind[r] = "HANDSHAKE",
           stage[r] # "none"
    PROVE  \E p \in Pid : r = <<p, 0>> /\ PidOf(r) = p
<1>1. CASE \E p \in Pid : r = <<p, 0>>
  BY <1>1 DEF PidOf
<1>2. CASE \E p \in Pid, n \in 1..MaxSend : r = <<p, n>>
  <2>1. PICK p \in Pid, n \in 1..MaxSend : r = <<p, n>>
    BY <1>2
  <2>2. /\ n <= sent[p] => kind[r] \in LineKinds
        /\ n > sent[p] => stage[r] = "none"
    BY <2>1 DEF Numbered
  <2>3. sent[p] \in Int /\ n \in Int
    BY <2>1, ConstantsAssumption DEF TypeOK
  <2> QED BY <2>2, <2>3 DEF LineKinds
<1> QED BY <1>1, <1>2, ReqCases

\* An accepted handshake hands its descriptors to the new record.
LEMMA HskOkConn ==
    ASSUME TypeOK, Pipeline, Numbered, ConnInv, NEW r \in Req, NEW a \in Addr,
           HskOk(r, a)
    PROVE  ConnInv'
<1>1. /\ rpc # <<>> /\ r = Head(rpc) /\ stage' = [stage EXCEPT ![r] = "done"]
      /\ kind[r] = "HANDSHAKE" /\ ~heap[a].alloc
  BY DEF HskOk, TakeResult, MoreRpc
<1>2. stage[r] = "piped"
  <2>1. rpc \in Seq(Req)
    BY DEF TypeOK
  <2> QED BY <1>1, <2>1, AllAtTail DEF TypeOK, Pipeline
<1>3. PICK p \in Pid : r = <<p, 0>> /\ PidOf(r) = p
  BY <1>1, <1>2, HandshakeKind
<1> DEFINE c == [alloc |-> TRUE, pid |-> p, refcount |-> 1, dead |-> FALSE,
                 logged_in |-> FALSE]
           e == [fd |-> p, client |-> a, rev |-> "none"]
<1>4. /\ heap' = [heap EXCEPT ![a] = c] /\ registry' = registry \cup {a}
      /\ slots' = Append(slots, e) /\ UNCHANGED sfd
  BY <1>3 DEF HskOk
<1>5. /\ c.alloc = TRUE /\ c.pid = p /\ c.dead = FALSE
      /\ e.client = a /\ e.fd = p
  OBVIOUS
<1> HIDE DEF c, e
<1>6. /\ heap \in [Addr -> ActiveClient] /\ slots \in Seq(Slot)
      /\ stage \in [Req -> Stages] /\ sfd \in [Pid -> BOOLEAN]
      /\ registry \subseteq Addr
  BY DEF TypeOK
<1>7. /\ heap'[a] = c /\ \A b \in Addr : b # a => heap'[b] = heap[b]
  BY <1>4, <1>6
<1>8. /\ stage'[<<p, 0>>] = "done"
      /\ \A q \in Pid : q # p => stage'[<<q, 0>>] = stage[<<q, 0>>]
  BY <1>1, <1>3, <1>6, HandshakeInReq
<1>9. \A b \in Addr : heap[b].alloc => heap[b].pid # p
  BY <1>2, <1>3 DEF ConnInv, OneRecord
<1>10. OneRecord'
  <2>1. ASSUME NEW b \in Addr, heap'[b].alloc
        PROVE  heap'[b].pid \in Pid /\ stage'[<<heap'[b].pid, 0>>] = "done"
    BY <1>5, <1>7, <1>8, <2>1 DEF ConnInv, OneRecord
  <2>2. ASSUME NEW b \in Addr, NEW d \in Addr, heap'[b].alloc, heap'[d].alloc,
               heap'[b].pid = heap'[d].pid
        PROVE  b = d
    BY <1>5, <1>7, <1>9, <2>2 DEF ConnInv, OneRecord
  <2> QED BY <2>1, <2>2 DEF OneRecord
<1>11. ASSUME NEW q \in Pid PROVE sfd'[q] <=> Owned(q)'
  <2>1. sfd[q] <=> Owned(q)
    BY DEF ConnInv, DescriptorsOwned
  <2>2. CASE q = p
    <3>1. Owned(q)
      BY <1>2, <1>3, <2>2 DEF Owned
    <3>2. Owned(q)'
      BY <1>5, <1>7, <2>2 DEF Owned
    <3> QED BY <1>4, <2>1, <3>1, <3>2
  <2>3. CASE q # p
    <3>1. (\E b \in Addr : heap'[b].alloc /\ heap'[b].pid = q)
            <=> (\E b \in Addr : heap[b].alloc /\ heap[b].pid = q)
      BY <1>1, <1>5, <1>7, <2>3
    <3> QED BY <1>4, <1>8, <2>1, <2>3, <3>1 DEF Owned
  <2> QED BY <2>2, <2>3
<1>12. SlotsFor(heap', registry', slots')
  <2>1. SlotsFor(heap, registry, slots)
    BY SlotsForMatch DEF ConnInv
  <2>2. \A i \in DOMAIN slots : heap[slots[i].client].alloc
    BY <2>1 DEF SlotsFor
  <2>3. \A b \in registry : b # a
    BY <1>1, <2>1, <2>2 DEF SlotsFor
  <2>4. \A b \in registry : b # a /\ heap'[b] = heap[b]
    BY <1>6, <1>7, <2>3
  <2> QED BY <1>4, <1>5, <1>6, <1>7, <2>1, <2>4, SlotsAppended
<1> QED BY <1>10, <1>11, <1>12, SlotsForMatch DEF ConnInv, DescriptorsOwned

\* A connection that is dropped has its descriptors closed, and had no
\* record.
LEMMA HskDropConn ==
    ASSUME TypeOK, Pipeline, Numbered, ConnInv, NEW r \in Req, HskDrop(r)
    PROVE  ConnInv'
<1>1. /\ rpc # <<>> /\ r = Head(rpc) /\ stage' = [stage EXCEPT ![r] = "done"]
      /\ kind[r] = "HANDSHAKE" /\ UNCHANGED <<heap, registry, slots>>
      /\ sfd' = [sfd EXCEPT ![PidOf(r)] = FALSE]
  BY DEF HskDrop, TakeResult, MoreRpc
<1>2. stage[r] = "piped"
  <2>1. rpc \in Seq(Req)
    BY DEF TypeOK
  <2> QED BY <1>1, <2>1, AllAtTail DEF TypeOK, Pipeline
<1>3. PICK p \in Pid : r = <<p, 0>> /\ PidOf(r) = p
  BY <1>1, <1>2, HandshakeKind
<1>4. /\ stage'[<<p, 0>>] = "done"
      /\ \A q \in Pid : q # p => stage'[<<q, 0>>] = stage[<<q, 0>>]
  BY <1>1, <1>3, HandshakeInReq DEF TypeOK
<1>5. /\ ~sfd'[p] /\ \A q \in Pid : q # p => sfd'[q] = sfd[q]
  BY <1>1, <1>3 DEF TypeOK
<1>6. \A b \in Addr : heap[b].alloc => heap[b].pid # p
  BY <1>2, <1>3 DEF ConnInv, OneRecord
<1>7. OneRecord'
  BY <1>1, <1>4 DEF ConnInv, OneRecord
<1>8. ASSUME NEW q \in Pid PROVE sfd'[q] <=> Owned(q)'
  <2>1. sfd[q] <=> Owned(q)
    BY DEF ConnInv, DescriptorsOwned
  <2> QED BY <1>1, <1>4, <1>5, <1>6, <2>1 DEF Owned
<1> QED BY <1>1, <1>7, <1>8 DEF ConnInv, DescriptorsOwned, SlotsMatchRegistry

\* The worker that opens the FIFOs reports them, or they are lost with its
\* result.
LEMMA FinishHandshakeConn ==
    ASSUME TypeOK, Pipeline, Numbered, ConnInv, NEW w \in Worker, FinishHandshake(w)
    PROVE  ConnInv'
<1> DEFINE r == work[w]
<1>1. /\ r # None /\ kind[r] = "HANDSHAKE" /\ UNCHANGED <<heap, registry, slots>>
      /\ sfd' = [sfd EXCEPT ![PidOf(r)] = TRUE] /\ Report(r, None)
  BY DEF FinishHandshake
<1>2. r \in Req /\ stage[r] = "running"
  BY <1>1 DEF TypeOK, Pipeline, WorkAt
<1>3. PICK s \in {"piped", "lost"} : stage' = [stage EXCEPT ![r] = s]
  BY <1>1, ReportStage
<1>4. PICK p \in Pid : r = <<p, 0>> /\ PidOf(r) = p
  BY <1>1, <1>2, HandshakeKind
<1> HIDE DEF r
<1>5. /\ stage'[<<p, 0>>] = s
      /\ \A q \in Pid : q # p => stage'[<<q, 0>>] = stage[<<q, 0>>]
  BY <1>3, <1>4, HandshakeInReq DEF TypeOK
<1>6. /\ sfd'[p] /\ \A q \in Pid : q # p => sfd'[q] = sfd[q]
  BY <1>1, <1>4 DEF TypeOK
<1>7. \A b \in Addr : heap[b].alloc => heap[b].pid # p
  BY <1>2, <1>4 DEF ConnInv, OneRecord
<1>8. OneRecord'
  BY <1>1, <1>5, <1>7 DEF ConnInv, OneRecord
<1>9. ASSUME NEW q \in Pid PROVE sfd'[q] <=> Owned(q)'
  <2>1. sfd[q] <=> Owned(q)
    BY DEF ConnInv, DescriptorsOwned
  <2> QED BY <1>1, <1>5, <1>6, <2>1 DEF Owned
<1> QED BY <1>1, <1>8, <1>9 DEF ConnInv, DescriptorsOwned, SlotsMatchRegistry

\* No step breaks the agreement of records, slots and descriptors.
LEMMA ConnStep ==
    TypeOK /\ SignalsOnce /\ Numbered /\ Pipeline /\ ConnInv /\ [Next]_vars => ConnInv'
<1> SUFFICES ASSUME TypeOK, SignalsOnce, Numbered, Pipeline, ConnInv, [Next]_vars
             PROVE  ConnInv'
  OBVIOUS
<1>1. ASSUME UNCHANGED <<stage, heap, registry, slots, sfd>> PROVE ConnInv'
  BY <1>1, StepAside DEF Handshakes
<1>2. ASSUME NEW r \in Req, TakeResult(r) PROVE stage[r] = "piped"
  <2>1. rpc \in Seq(Req) /\ rpc # <<>> /\ r = Head(rpc)
    BY <1>2 DEF TypeOK, TakeResult, MoreRpc
  <2> QED BY <2>1, AllAtTail DEF TypeOK, Pipeline
<1>3. ASSUME NEW r \in Req, TakeResult(r), result[r] \in Results
      PROVE  Handshakes /\ owner[r] \in Addr
  <2>1. stage[r] = "piped" /\ IsLine(r)
    BY <1>2, <1>3, ResultIsLine, ConstantsAssumption
  <2>2. stage' = [stage EXCEPT ![r] = "done"]
    BY <1>3 DEF TakeResult
  <2> QED BY <2>1, <2>2, LineHandshakes, HolderNamed DEF Holding
<1>4. CASE PollReturn
  <2>1. /\ UNCHANGED <<stage, heap, registry, sfd>>
        /\ slots' = [i \in DOMAIN slots |->
                       [slots[i] EXCEPT !.rev = Revents(slots[i].fd)]]
    BY <1>4 DEF PollReturn, reqVars
  <2>2. slots \in Seq(Slot)
    BY DEF TypeOK
  <2>3. ASSUME NEW c \in Slot, NEW v
        PROVE  [c EXCEPT !.rev = v].fd = c.fd /\ [c EXCEPT !.rev = v].client = c.client
    BY DEF Slot
  <2>4. /\ DOMAIN slots' = DOMAIN slots
        /\ \A i \in DOMAIN slots : /\ slots'[i].fd = slots[i].fd
                                   /\ slots'[i].client = slots[i].client
    <3>1. DOMAIN slots' = DOMAIN slots
      BY <2>1
    <3>2. ASSUME NEW i \in DOMAIN slots
          PROVE  slots'[i].fd = slots[i].fd /\ slots'[i].client = slots[i].client
      <4>1. slots[i] \in Slot
        BY <2>2
      <4>2. slots'[i] = [slots[i] EXCEPT !.rev = Revents(slots[i].fd)]
        BY <2>1
      <4> QED BY <2>3, <4>1, <4>2
    <3> QED BY <3>1, <3>2
  <2>5. SlotsMatchRegistry'
    <3>1. {slots'[i].client : i \in DOMAIN slots'} = {slots[i].client : i \in DOMAIN slots}
      BY <2>4
    <3>2. \A i, j \in DOMAIN slots' : slots'[i].client = slots'[j].client => i = j
      BY <2>4 DEF ConnInv, SlotsMatchRegistry
    <3>3. ASSUME NEW i \in DOMAIN slots'
          PROVE  LET c == heap'[slots'[i].client]
                 IN c.alloc /\ ~c.dead /\ c.pid = slots'[i].fd
      BY <2>1, <2>4 DEF ConnInv, SlotsMatchRegistry
    <3> QED BY <2>1, <3>1, <3>2, <3>3 DEF ConnInv, SlotsMatchRegistry
  <2>6. Handshakes
    BY <2>1 DEF Handshakes
  <2> QED BY <2>1, <2>5, <2>6, ConnKeep DEF ConnInv
<1>5. CASE HskRead
  <2>1. hsk \in Seq(Pid) /\ hsk # <<>>
    BY <1>5 DEF TypeOK, HskRead, MoreHsk
  <2>2. PICK p \in Pid : p = Head(hsk) /\ p = hsk[1] /\ 1 \in DOMAIN hsk
    BY <2>1, HeadAt
  <2>3. PICK s \in {"queued", "done"} : stage' = [stage EXCEPT ![<<p, 0>>] = s]
    BY <1>5, <2>2 DEF HskRead
  <2>4. stage[<<p, 0>>] = "none" /\ <<p, 0>> \in Req
    BY <2>2, HandshakeInReq DEF SignalsOnce
  <2>5. Handshakes
    BY <2>3, <2>4, EarlyHandshakes
  <2> QED BY <1>5, <2>5, StepAside DEF HskRead, connVars
<1>6. CASE SweepHangup
  <2>1. AtSlot /\ RemoveSwept(c2s) /\ UNCHANGED stage
    BY <1>6 DEF SweepHangup, reqVars
  <2> QED BY <2>1, RemoveSweptConn DEF Handshakes
<1>7. CASE SweepTask \/ SweepQuit \/ SweepIgnore
  <2> DEFINE p == slots[at].fd
             a == slots[at].client
             r == Head(c2s[p])
  <2>1. AtSlot /\ c2s[p] # <<>> /\ p \in Pid /\ a \in Addr
    BY <1>7, SlotAtType DEF SweepTask, SweepQuit, SweepIgnore, AtLine
  <2>2. PICK s : stage' = [stage EXCEPT ![r] = s]
    BY <1>7 DEF SweepTask, SweepQuit, SweepIgnore
  <2>3. Handshakes
    BY <2>1, <2>2, LineTaken, SentIsLine, LineHandshakes
  <2>4. CASE SweepTask
    <3>1. heap' = Acquired(heap, a) /\ UNCHANGED <<registry, slots, sfd>>
      BY <2>4 DEF SweepTask
    <3> HIDE DEF a
    <3>2. /\ Spares(heap, heap')
          /\ \A b \in Addr : /\ heap'[b].alloc = heap[b].alloc
                             /\ heap'[b].pid = heap[b].pid
      <4>1. heap \in [Addr -> ActiveClient]
        BY DEF TypeOK
      <4> QED BY <3>1, <4>1, AcquiredEffect
    <3>3. OneRecord' /\ DescriptorsOwned'
      BY <2>3, <3>1, <3>2, ConnKeep DEF ConnInv
    <3>4. SlotsFor(heap', registry, slots)
      BY <3>2, RegisteredSpared DEF ConnInv
    <3> QED BY <3>1, <3>3, <3>4, SlotsForMatch DEF ConnInv
  <2>5. CASE SweepQuit
    <3>1. \E lines : RemoveSwept(lines)
      BY <2>5 DEF SweepQuit
    <3> QED BY <2>1, <2>3, <3>1, RemoveSweptConn
  <2>6. CASE SweepIgnore
    BY <2>3, <2>6, StepAside DEF SweepIgnore, connVars
  <2> QED BY <1>7, <2>4, <2>5, <2>6
<1>8. CASE Teardown
  <2> DEFINE h == [a \in Addr |-> IF a \in registry THEN Freed ELSE heap[a]]
  <2>1. FreeClients(h, c2s) /\ registry' = {} /\ slots' = <<>>
    BY <1>8 DEF Teardown
  <2>2. Evolves(heap, h)
    BY DEF Evolves, Freed
  <2>3. Handshakes
    <3>1. ASSUME NEW p \in Pid
          PROVE  stage'[<<p, 0>>] =
                   IF stage[<<p, 0>>] = "queued" THEN "done"
                   ELSE IF stage[<<p, 0>>] = "piped" THEN "lost"
                   ELSE stage[<<p, 0>>]
      <4>1. <<p, 0>> \in Req /\ kind[<<p, 0>>] = "HANDSHAKE"
        BY HandshakeInReq DEF Numbered
      <4> QED BY <1>8, <4>1 DEF Teardown
    <3> QED BY <3>1 DEF Handshakes
  <2> HIDE DEF h
  <2>4. OneRecord' /\ DescriptorsOwned'
    BY <2>1, <2>2, <2>3, ConnFree DEF ConnInv
  <2>5. SlotsMatchRegistry'
    BY <2>1 DEF SlotsMatchRegistry
  <2> QED BY <2>4, <2>5 DEF ConnInv
<1>9. CASE MainStep
  <2>1. CASE Check \/ PollSleep \/ HskEnd \/ RpcEnd \/ SweepEnd \/ SweepNext
    BY <1>1, <2>1 DEF Check, PollSleep, HskEnd, RpcEnd, SweepEnd, SweepNext,
       connVars, reqVars
  <2>2. ASSUME NEW r \in Req, AuthOk(r) \/ RpcDone(r) PROVE ConnInv'
    <3> DEFINE a == owner[r]
               h == Released(heap, a)
    <3>1. /\ TakeResult(r) /\ result[r] \in Results
          /\ FreeClients(h, c2s) \/ FreeClients(LoggedIn(h, a), c2s)
          /\ UNCHANGED <<registry, slots>>
      BY <2>2 DEF AuthOk, RpcDone, Results
    <3> HIDE DEF a
    <3>2. /\ Evolves(heap, h) /\ Spares(heap, h) /\ h \in [Addr -> ActiveClient]
      BY ReleasedEffect, ReleasedType DEF TypeOK
    <3> HIDE DEF h
    <3>3. Evolves(heap, LoggedIn(h, a)) /\ Spares(heap, LoggedIn(h, a))
      <4>1. Evolves(h, LoggedIn(h, a)) /\ Spares(h, LoggedIn(h, a))
        BY <3>2, LoggedInEffect
      <4> QED BY <3>2, <4>1, EvolvesTransitive, SparesTransitive
    <3>4. Handshakes
      BY <1>3, <3>1
    <3> QED BY <3>1, <3>2, <3>3, <3>4, ReleaseConn
  <2>3. ASSUME NEW r \in Req, AuthReject(r) PROVE ConnInv'
    <3>1. TakeResult(r) /\ result[r] \in Results
      BY <2>3 DEF AuthReject, Results
    <3> QED BY <1>3, <2>3, <3>1, AuthRejectConn
  <2> QED BY <1>4, <1>5, <1>6, <1>7, <1>8, <1>9, <2>1, <2>2, <2>3,
          HskOkConn, HskDropConn DEF MainStep
<1>10. ASSUME NEW w \in Worker, WorkerStep(w) PROVE ConnInv'
  <2>1. CASE WorkerExit(w)
    BY <1>1, <2>1 DEF WorkerExit, connVars, reqVars
  <2>2. CASE Dequeue(w)
    <3> DEFINE r == Head(queue)
    <3>1. queue \in Seq(Req) /\ queue # <<>>
      BY <2>2 DEF TypeOK, Dequeue
    <3>2. r \in Req /\ stage[r] = "queued"
      BY <3>1, AllAtTail DEF TypeOK, Pipeline
    <3>3. stage' = [stage EXCEPT ![r] = "running"]
      BY <2>2 DEF Dequeue
    <3> HIDE DEF r
    <3>4. Handshakes
      BY <3>2, <3>3, EarlyHandshakes
    <3> QED BY <2>2, <3>4, StepAside DEF Dequeue, connVars
  <2>3. CASE FinishSilently(w)
    <3> DEFINE r == work[w]
    <3>1. r \in Req /\ stage[r] = "running"
      BY <2>3 DEF TypeOK, Pipeline, WorkAt, FinishSilently
    <3>2. stage' = [stage EXCEPT ![r] = IF kind[r] = "HANDSHAKE" THEN "done" ELSE "lost"]
      BY <2>3 DEF FinishSilently
    <3> HIDE DEF r
    <3>3. CASE kind[r] = "HANDSHAKE"
      <4>1. stage' = [stage EXCEPT ![r] = "done"]
        BY <3>2, <3>3
      <4>2. Handshakes
        BY <3>1, <4>1, EarlyHandshakes
      <4> QED BY <2>3, <4>2, StepAside DEF FinishSilently, connVars
    <3>4. CASE kind[r] # "HANDSHAKE"
      <4>1. Handshakes
        BY <3>2, <3>4, KindIsLine, LineHandshakes
      <4> QED BY <2>3, <4>1, StepAside DEF FinishSilently, connVars
    <3> QED BY <3>3, <3>4
  <2>4. ASSUME NEW type \in Results, Finish(w, type) PROVE ConnInv'
    <3>1. /\ kind[work[w]] # "HANDSHAKE" /\ Report(work[w], type)
          /\ UNCHANGED connVars
      BY <2>4 DEF Finish
    <3>2. PICK s \in {"piped", "lost"} : stage' = [stage EXCEPT ![work[w]] = s]
      BY <3>1, ReportStage
    <3>3. Handshakes
      BY <3>1, <3>2, KindIsLine, LineHandshakes
    <3> QED BY <3>1, <3>3, StepAside DEF connVars
  <2> QED BY <1>10, <2>1, <2>2, <2>3, <2>4, FinishHandshakeConn DEF WorkerStep
<1>11. ASSUME NEW p \in Pid, ClientStep(p) PROVE ConnInv'
  <2>1. CASE Sigusr1(p) \/ ClientOpen(p) \/ ClientAuthorised(p)
             \/ ClientRead(p) \/ ClientExit(p)
    BY <1>1, <2>1 DEF Sigusr1, ClientOpen, ClientAuthorised,
       ClientRead, ClientExit,
       serverVars, connVars, reqVars
  <2>2. ASSUME NEW k \in Commands, ClientSend(p, k) PROVE ConnInv'
    <3> DEFINE r == <<p, sent[p] + 1>>
    <3>1. sent[p] \in 0..MaxSend /\ sent[p] + 1 # 0
      BY ConstantsAssumption DEF TypeOK
    <3>2. IsLine(r)
      BY <3>1 DEF IsLine
    <3>3. stage' = [stage EXCEPT ![r] = "sent"] /\ UNCHANGED connVars
      BY <2>2 DEF ClientSend, serverVars
    <3> HIDE DEF r
    <3>4. Handshakes
      BY <3>2, <3>3, LineHandshakes
    <3> QED BY <3>3, <3>4, StepAside DEF connVars
  <2> QED BY <1>11, <2>1, <2>2 DEF ClientStep
<1>12. CASE SigShutdown \/ UNCHANGED vars
  BY <1>1, <1>12 DEF SigShutdown, vars, connVars, reqVars
<1> QED BY <1>9, <1>10, <1>11, <1>12 DEF Next
-----------------------------------------------------------------------------
\* The invariant holds when main starts.
LEMMA InvInit == Init => IInv
<1> SUFFICES ASSUME Init PROVE IInv
  OBVIOUS
<1>1. TypeOK
  BY TypeInit
<1>2. /\ queue = <<>> /\ rpc = <<>> /\ hsk = <<>> /\ slots = <<>> /\ registry = {}
      /\ \A p \in Pid : c2s[p] = <<>> /\ sent[p] = 0 /\ ~sfd[p]
      /\ \A w \in Worker : work[w] = None
      /\ \A a \in Addr : ~heap[a].alloc
      /\ \A r \in Req : /\ stage[r] = "none" /\ kind[r] = "HANDSHAKE"
                        /\ owner[r] = None /\ result[r] = None
  BY DEF Init, Freed
<1>3. /\ \A p \in Pid : <<p, 0>> \in Req
      /\ \A p \in Pid : \A n \in 1..MaxSend : <<p, n>> \in Req
  <2>1. \A p \in Pid : \A n \in 1..MaxSend : <<p, n>> \in Req
    BY DEF Req
  <2> QED BY <2>1, HandshakeInReq
<1>4. SignalsOnce
  BY <1>2, <1>3 DEF SignalsOnce
<1>5. Numbered
  <2>1. \A p \in Pid : \A n \in 1..MaxSend : ~(n <= sent[p])
    BY <1>2
  <2>2. \A p \in Pid : /\ kind[<<p, 0>>] = "HANDSHAKE" /\ stage[<<p, 0>>] # "sent"
                       /\ owner[<<p, 0>>] = None /\ result[<<p, 0>>] = None
    BY <1>2, <1>3
  <2>3. \A p \in Pid : \A n \in 1..MaxSend :
           stage[<<p, n>>] = "none" /\ stage[<<p, n>>] \notin Holding
    BY <1>2, <1>3 DEF Holding
  <2>4. \A p \in Pid : DOMAIN c2s[p] = {}
    BY <1>2
  <2> QED BY <2>1, <2>2, <2>3, <2>4 DEF Numbered
<1>6. Pipeline
  <2>1. WorkAt(stage, work)
    BY <1>2 DEF WorkAt
  <2> QED BY <1>2, <2>1, AllAtEmpty DEF Pipeline
<1>7. ConnInv
  BY <1>2, <1>3 DEF ConnInv, OneRecord, DescriptorsOwned, Owned,
     SlotsMatchRegistry
<1> QED BY <1>1, <1>4, <1>5, <1>6, <1>7 DEF IInv

\* Whatever the clients do, requests are in one place at a time and records,
\* poll slots and descriptors agree.
THEOREM Invariance == Spec => []IInv
<1>1. Init => IInv
  BY InvInit
<1>2. IInv /\ [Next]_vars => IInv'
  BY TypeStep, NumberedStep, PipelineStep, ConnStep DEF IInv
<1> QED BY <1>1, <1>2, PTL DEF Spec

\* A sweep always pairs a descriptor with its own client: the theorem behind
\* SlotsMatchRegistry, for any number of clients, sizes of pipes and lines.
THEOREM SlotsCorrect == Spec => []SlotsMatchRegistry
<1>1. IInv => SlotsMatchRegistry
  BY DEF IInv, ConnInv
<1> QED BY <1>1, Invariance, PTL

\* No descriptor is closed under its owner or outlives it unseen: the theorem
\* behind DescriptorsOwned.
THEOREM DescriptorsCorrect == Spec => []DescriptorsOwned
<1>1. IInv => DescriptorsOwned
  BY DEF IInv, ConnInv
<1> QED BY <1>1, Invariance, PTL
-----------------------------------------------------------------------------
(* The lines of a client of the repository *)

\* How far one step takes a request.
Ladder(r) ==
    \/ stage'[r] = stage[r]
    \/ stage[r] = "none"
    \/ stage[r] = "sent" /\ stage'[r] \in {"queued", "lost", "done"}
    \/ stage[r] = "queued" /\ stage'[r] \in {"running", "done", "lost"}
    \/ stage[r] = "running" /\ stage'[r] \in {"piped", "lost", "done"}
    \/ stage[r] = "piped" /\ stage'[r] \in {"done", "lost"}

\* What the first move of a line, a result and a new kind come from.
FromFifo(r) ==
    stage[r] \in {"none", "sent"} /\ stage'[r] \notin {"none", "sent"} =>
        \/ ~IsLine(r)
        \/ /\ SweepTask \/ SweepQuit \/ SweepIgnore
           /\ r = Head(c2s[slots[at].fd])
FromResult(r) ==
    stage[r] = "piped" /\ stage'[r] = "done" =>
        \/ \E a \in Addr : HskOk(r, a)
        \/ HskDrop(r) \/ AuthOk(r) \/ AuthReject(r) \/ RpcDone(r)
KindKept(r) ==
    kind'[r] = kind[r] \/ (stage[r] = "none" /\ stage'[r] = "sent")
ResultKept(r) ==
    \/ result'[r] = result[r]
    \/ /\ stage[r] = "running" /\ stage'[r] \in {"piped", "lost"}
       /\ \/ kind[r] = "AUTHORISE" /\ result'[r] # "RPC_DONE"
          \/ kind[r] = "RPC" /\ result'[r] = "RPC_DONE"
OwnerKept(r) == owner'[r] = owner[r] \/ stage[r] = "sent"

OneStep(r) == /\ Ladder(r) /\ FromFifo(r) /\ FromResult(r) /\ KindKept(r)
              /\ ResultKept(r) /\ OwnerKept(r)

\* What any step of the server does to any request.
LEMMA RequestStep ==
    ASSUME TypeOK, SignalsOnce, Numbered, Pipeline, [Next]_vars
    PROVE  \A r \in Req : OneStep(r)
<1> DEFINE Goal == \A r \in Req : OneStep(r)
<1>a. /\ stage \in [Req -> Stages] /\ queue \in Seq(Req) /\ rpc \in Seq(Req)
      /\ owner \in [Req -> Addr \cup {None}]
      /\ result \in [Req -> Results \cup {None}]
      /\ kind \in [Req -> LineKinds \cup {"HANDSHAKE"}]
  BY DEF TypeOK
<1>1. ASSUME UNCHANGED reqVars PROVE Goal
  BY <1>1 DEF reqVars, reqInfo, OneStep, Ladder, FromFifo, FromResult,
     KindKept,
     ResultKept, OwnerKept
\* A move of x alone, which is not the first move of a line and not the end
\* of a result, and leaves kind, owner and result alone.
<1>2. ASSUME NEW x \in Req, NEW s, stage' = [stage EXCEPT ![x] = s],
             UNCHANGED <<kind, owner, result>>,
             Ladder(x), FromFifo(x), FromResult(x)
      PROVE  Goal
  <2>1. ASSUME NEW r \in Req PROVE OneStep(r)
    <3>1. KindKept(r) /\ ResultKept(r) /\ OwnerKept(r)
      BY <1>2 DEF KindKept, ResultKept, OwnerKept
    <3>2. CASE r = x
      BY <1>2, <3>1, <3>2 DEF OneStep
    <3>3. CASE r # x
      <4>1. stage'[r] = stage[r]
        BY <1>a, <1>2, <3>3
      <4> QED BY <3>1, <4>1 DEF OneStep, Ladder, FromFifo, FromResult
    <3> QED BY <3>2, <3>3
  <2> QED BY <2>1
<1>3. CASE HskRead
  <2>1. hsk \in Seq(Pid) /\ hsk # <<>>
    BY <1>3 DEF TypeOK, HskRead, MoreHsk
  <2>2. PICK p \in Pid : p = Head(hsk) /\ p = hsk[1] /\ 1 \in DOMAIN hsk
    BY <2>1, HeadAt
  <2>3. PICK s \in {"queued", "done"} : stage' = [stage EXCEPT ![<<p, 0>>] = s]
    BY <1>3, <2>2 DEF HskRead
  <2>4. stage[<<p, 0>>] = "none" /\ <<p, 0>> \in Req /\ ~IsLine(<<p, 0>>)
    BY <2>2, HandshakeInReq DEF SignalsOnce, IsLine
  <2>5. UNCHANGED <<kind, owner, result>>
    BY <1>3 DEF HskRead, reqInfo
  <2> QED BY <1>2, <2>3, <2>4, <2>5 DEF Ladder, FromFifo, FromResult
<1>4. ASSUME NEW x \in Req,
             (\E a \in Addr : HskOk(x, a)) \/ HskDrop(x) \/ AuthOk(x)
                \/ AuthReject(x) \/ RpcDone(x)
      PROVE  Goal
  <2>1. /\ rpc # <<>> /\ x = Head(rpc) /\ stage' = [stage EXCEPT ![x] = "done"]
        /\ UNCHANGED <<kind, owner, result>>
    BY <1>4 DEF HskOk, HskDrop, AuthOk, AuthReject, RpcDone, TakeResult,
       MoreRpc,
       reqInfo
  <2>2. stage[x] = "piped"
    BY <1>a, <2>1, AllAtTail DEF Pipeline
  <2>3. stage'[x] = "done"
    BY <1>a, <2>1
  <2> QED BY <1>2, <1>4, <2>1, <2>2, <2>3 DEF Ladder, FromFifo, FromResult
<1>5. CASE SweepTask \/ SweepQuit \/ SweepIgnore
  <2> DEFINE p == slots[at].fd
             x == Head(c2s[p])
  <2>1. p \in Pid /\ c2s[p] # <<>>
    BY <1>5, SlotAtType DEF SweepTask, SweepQuit, SweepIgnore, AtLine
  <2>2. PICK s \in {"queued", "lost", "done"} : stage' = [stage EXCEPT ![x] = s]
    BY <1>5 DEF SweepTask, SweepQuit, SweepIgnore
  <2>3. x \in Req /\ stage[x] = "sent"
    BY <2>1, LineTaken
  <2>4. \/ UNCHANGED owner \/ \E a : owner' = [owner EXCEPT ![x] = a]
    BY <1>5 DEF SweepTask, SweepQuit, SweepIgnore, reqInfo
  <2>5. UNCHANGED <<kind, result>>
    BY <1>5 DEF SweepTask, SweepQuit, SweepIgnore, reqInfo
  <2>6. ASSUME NEW r \in Req PROVE OneStep(r)
    <3>1. OwnerKept(r)
      BY <1>a, <2>3, <2>4 DEF OwnerKept
    <3>2. KindKept(r) /\ ResultKept(r)
      BY <2>5 DEF KindKept, ResultKept
    <3>3. Ladder(r) /\ FromFifo(r) /\ FromResult(r)
      <4>1. CASE r = x
        BY <1>5, <1>a, <2>2, <2>3, <4>1 DEF Ladder, FromFifo, FromResult
      <4>2. CASE r # x
        <5>1. stage'[r] = stage[r]
          BY <1>a, <2>2, <4>2
        <5> QED BY <5>1 DEF Ladder, FromFifo, FromResult
      <4> QED BY <4>1, <4>2
    <3> QED BY <3>1, <3>2, <3>3 DEF OneStep
  <2> QED BY <2>6
<1>6. CASE Teardown
  <2>1. ASSUME NEW r \in Req PROVE OneStep(r)
    <3>1. \/ stage'[r] = stage[r]
          \/ stage[r] = "queued" /\ stage'[r] \in {"done", "lost"}
          \/ stage[r] = "piped" /\ stage'[r] = "lost"
      BY <1>6 DEF Teardown
    <3>2. UNCHANGED <<kind, owner, result>>
      BY <1>6 DEF Teardown, reqInfo
    <3> QED BY <3>1, <3>2 DEF OneStep, Ladder, FromFifo, FromResult, KindKept,
            ResultKept, OwnerKept
  <2> QED BY <2>1
<1>7. CASE MainStep
  <2>1. CASE Check \/ PollSleep \/ PollReturn \/ HskEnd \/ RpcEnd \/ SweepEnd
                \/ SweepNext \/ SweepHangup
    BY <1>1, <2>1 DEF Check, PollSleep, PollReturn, HskEnd, RpcEnd, SweepEnd,
       SweepNext, SweepHangup
  <2> QED BY <1>3, <1>4, <1>5, <1>6, <1>7, <2>1 DEF MainStep
<1>8. ASSUME NEW w \in Worker, WorkerStep(w) PROVE Goal
  <2> DEFINE x == work[w]
  <2>1. CASE WorkerExit(w)
    BY <1>1, <2>1 DEF WorkerExit
  <2>2. CASE Dequeue(w)
    <3> DEFINE y == Head(queue)
    <3>1. queue # <<>> /\ stage' = [stage EXCEPT ![y] = "running"]
          /\ UNCHANGED <<kind, owner, result>>
      BY <2>2 DEF Dequeue, reqInfo
    <3>2. y \in Req /\ stage[y] = "queued"
      BY <1>a, <3>1, AllAtTail DEF Pipeline
    <3> HIDE DEF y
    <3>3. stage'[y] = "running"
      BY <1>a, <3>1, <3>2
    <3> QED BY <1>2, <3>1, <3>2, <3>3 DEF Ladder, FromFifo, FromResult
  <2>3. ASSUME work[w] # None PROVE x \in Req /\ stage[x] = "running"
    BY <2>3 DEF TypeOK, Pipeline, WorkAt
  <2>4. CASE FinishSilently(w)
    <3>1. PICK s \in {"done", "lost"} : stage' = [stage EXCEPT ![x] = s]
      BY <2>4 DEF FinishSilently
    <3>2. x \in Req /\ stage[x] = "running" /\ UNCHANGED <<kind, owner, result>>
      BY <2>3, <2>4 DEF FinishSilently, reqInfo
    <3> HIDE DEF x
    <3>3. stage'[x] = s
      BY <1>a, <3>1, <3>2
    <3> QED BY <1>2, <3>1, <3>2, <3>3 DEF Ladder, FromFifo, FromResult
  <2>5. CASE FinishHandshake(w)
    <3>1. /\ x \in Req /\ stage[x] = "running" /\ kind[x] = "HANDSHAKE"
          /\ Report(x, None) /\ UNCHANGED <<kind, owner>>
      BY <2>3, <2>5 DEF FinishHandshake
    <3>2. PICK s \in {"piped", "lost"} : stage' = [stage EXCEPT ![x] = s]
      BY <3>1, ReportStage
    <3>3. result' = [result EXCEPT ![x] = None]
      BY <3>1, ReportStage
    <3>4. result[x] = None
      BY <3>1, HandshakeKind DEF Numbered
    <3> HIDE DEF x
    <3>5. result' = result
      BY <1>a, <3>1, <3>3, <3>4
    <3>6. stage'[x] = s
      BY <1>a, <3>1, <3>2
    <3> QED BY <1>2, <3>1, <3>2, <3>5, <3>6 DEF Ladder, FromFifo, FromResult
  <2>6. ASSUME NEW type \in Results, Finish(w, type) PROVE Goal
    <3>1. /\ x \in Req /\ stage[x] = "running"
          /\ \/ kind[x] = "AUTHORISE" /\ type # "RPC_DONE"
             \/ kind[x] = "RPC" /\ type = "RPC_DONE"
          /\ Report(x, type) /\ UNCHANGED <<kind, owner>>
      BY <2>3, <2>6 DEF Finish
    <3>2. PICK s \in {"piped", "lost"} : stage' = [stage EXCEPT ![x] = s]
      BY <3>1, ReportStage
    <3>3. result' = [result EXCEPT ![x] = type]
      BY <3>1, ReportStage
    <3> HIDE DEF x
    <3>4. ASSUME NEW r \in Req PROVE OneStep(r)
      <4>1. CASE r = x
        <5>1. stage'[r] = s /\ result'[r] = type /\ stage[r] = "running"
          BY <1>a, <3>1, <3>2, <3>3, <4>1
        <5> QED BY <3>1, <4>1, <5>1 DEF OneStep, Ladder, FromFifo, FromResult,
                KindKept, ResultKept, OwnerKept
      <4>2. CASE r # x
        <5>1. stage'[r] = stage[r] /\ result'[r] = result[r]
          BY <1>a, <3>2, <3>3, <4>2
        <5> QED BY <3>1, <5>1 DEF OneStep, Ladder, FromFifo, FromResult,
                KindKept, ResultKept, OwnerKept
      <4> QED BY <4>1, <4>2
    <3> QED BY <3>4
  <2> QED BY <1>8, <2>1, <2>2, <2>4, <2>5, <2>6 DEF WorkerStep
<1>9. ASSUME NEW p \in Pid, NEW k \in Commands, ClientSend(p, k) PROVE Goal
  <2> DEFINE x == <<p, sent[p] + 1>>
  <2>1. /\ stage' = [stage EXCEPT ![x] = "sent"] /\ kind' = [kind EXCEPT ![x] = k]
        /\ UNCHANGED <<owner, result>>
    BY <1>9 DEF ClientSend
  <2>2. stage[x] = "none" /\ x \in Req
    <3>1. /\ sent[p] \in 0..MaxSend /\ sent[p] < MaxSend
      BY <1>9 DEF TypeOK, ClientSend
    <3>2. sent[p] + 1 \in 1..MaxSend /\ sent[p] + 1 > sent[p] /\ sent[p] + 1 \in 0..MaxSend
      BY <3>1, ConstantsAssumption
    <3>3. \A n \in 1..MaxSend : n > sent[p] => stage[<<p, n>>] = "none"
      BY DEF Numbered
    <3> QED BY <3>2, <3>3 DEF Req
  <2> HIDE DEF x
  <2>3. ASSUME NEW r \in Req PROVE OneStep(r)
    <3>1. CASE r = x
      <4>1. stage'[r] = "sent" /\ stage[r] = "none"
        BY <1>a, <2>1, <2>2, <3>1
      <4> QED BY <2>1, <4>1 DEF OneStep, Ladder, FromFifo, FromResult,
         KindKept,
              ResultKept, OwnerKept
    <3>2. CASE r # x
      <4>1. stage'[r] = stage[r] /\ kind'[r] = kind[r]
        BY <1>a, <2>1, <3>2
      <4> QED BY <2>1, <4>1 DEF OneStep, Ladder, FromFifo, FromResult,
         KindKept,
              ResultKept, OwnerKept
    <3> QED BY <3>1, <3>2
  <2> QED BY <2>3
<1>10. ASSUME NEW p \in Pid, ClientStep(p) PROVE Goal
  <2>1. CASE Sigusr1(p) \/ ClientOpen(p) \/ ClientAuthorised(p)
             \/ ClientRead(p) \/ ClientExit(p)
    BY <1>1, <2>1 DEF Sigusr1, ClientOpen, ClientAuthorised,
       ClientRead, ClientExit
  <2> QED BY <1>9, <1>10, <2>1 DEF ClientStep
<1>11. CASE SigShutdown \/ UNCHANGED vars
  BY <1>1, <1>11 DEF SigShutdown, vars, reqVars, reqInfo
<1> QED BY <1>7, <1>8, <1>10, <1>11 DEF Next

\* The queue is the only way to a worker, and a worker leaves its task with
\* the step that moves it on.
LEMMA WorkStep ==
    ASSUME TypeOK, SignalsOnce, Numbered, Pipeline, [Next]_vars
    PROVE  \/ /\ UNCHANGED <<work, exited>>
              /\ \A r \in Req : stage'[r] = "running" => stage[r] = "running"
              /\ pc' = "done" => pc = "done" \/ exited = Worker
           \/ \E w \in Worker : WorkerExit(w)
           \/ \E w \in Worker : Dequeue(w)
           \/ \E w \in Worker : /\ work[w] # None
                                /\ work' = [work EXCEPT ![w] = None]
                                /\ \E s : s # "running" /\ stage' = [stage EXCEPT ![work[w]] = s]
                                /\ UNCHANGED <<pc, exited>>
<1> DEFINE Calm == /\ UNCHANGED <<work, exited>>
                   /\ \A r \in Req : stage'[r] = "running" => stage[r] = "running"
                   /\ pc' = "done" => pc = "done" \/ exited = Worker
<1>a. stage \in [Req -> Stages]
  BY DEF TypeOK
<1>1. ASSUME NEW x, NEW s, s # "running", stage' = [stage EXCEPT ![x] = s],
             UNCHANGED <<work, exited>>, pc' = "done" => pc = "done"
      PROVE  Calm
  BY <1>a, <1>1
<1>2. ASSUME UNCHANGED <<stage, work, exited>>, pc' = "done" => pc = "done"
      PROVE  Calm
  BY <1>2
<1>3. CASE MainStep
  <2>1. CASE Check \/ PollSleep \/ PollReturn \/ HskEnd \/ RpcEnd \/ SweepEnd
                \/ SweepNext \/ SweepHangup
    BY <1>2, <2>1 DEF Check, PollSleep, PollReturn, HskEnd, RpcEnd, SweepEnd,
       SweepNext, SweepHangup, reqVars, poolVars
  <2>2. CASE HskRead
    BY <1>1, <2>2 DEF HskRead
  <2>3. ASSUME NEW x \in Req,
               (\E a \in Addr : HskOk(x, a)) \/ HskDrop(x) \/ AuthOk(x)
                  \/ AuthReject(x) \/ RpcDone(x)
        PROVE  Calm
    <3>1. TakeResult(x) /\ (pc' = "done" => pc = "done")
      BY <2>3 DEF HskOk, HskDrop, AuthOk, AuthReject, RpcDone, Touch
    <3> QED BY <1>1, <3>1 DEF TakeResult, poolVars
  <2>4. CASE SweepTask \/ SweepQuit \/ SweepIgnore
    BY <1>1, <2>4, ZenonT(60) DEF SweepTask, SweepQuit, SweepIgnore, poolVars
  <2>5. CASE Teardown
    <3>1. \A r \in Req : stage'[r] = "running" => stage[r] = "running"
      BY <2>5 DEF Teardown
    <3>2. UNCHANGED <<work, exited>> /\ exited = Worker
      BY <2>5 DEF Teardown
    <3> QED BY <3>1, <3>2
  <2> QED BY <1>3, <2>1, <2>2, <2>3, <2>4, <2>5 DEF MainStep
<1>4. ASSUME NEW w \in Worker, WorkerStep(w), ~WorkerExit(w), ~Dequeue(w)
      PROVE  /\ work[w] # None
             /\ work' = [work EXCEPT ![w] = None]
             /\ \E s : s # "running" /\ stage' = [stage EXCEPT ![work[w]] = s]
             /\ UNCHANGED <<pc, exited>>
  <2>1. CASE FinishSilently(w)
    BY <2>1 DEF FinishSilently, mainVars
  <2>2. CASE FinishHandshake(w) \/ \E type \in Results : Finish(w, type)
    <3>1. /\ \E t : Report(work[w], t) /\ work[w] # None
          /\ work' = [work EXCEPT ![w] = None] /\ UNCHANGED <<pc, exited>>
      BY <2>2 DEF FinishHandshake, Finish, mainVars
    <3>2. PICK t : Report(work[w], t)
      BY <3>1
    <3>3. PICK s \in {"piped", "lost"} : stage' = [stage EXCEPT ![work[w]] = s]
      BY <3>2, ReportStage
    <3> QED BY <3>1, <3>3
  <2> QED BY <1>4, <2>1, <2>2 DEF WorkerStep
<1>5. ASSUME NEW p \in Pid, ClientStep(p) PROVE Calm
  <2>1. CASE Sigusr1(p) \/ ClientOpen(p) \/ ClientAuthorised(p)
             \/ ClientRead(p) \/ ClientExit(p)
    BY <1>2, <2>1 DEF Sigusr1, ClientOpen, ClientAuthorised,
       ClientRead, ClientExit,
       serverVars, mainVars, reqVars, poolVars
  <2>2. ASSUME NEW k \in Commands, ClientSend(p, k) PROVE Calm
    BY <1>1, <2>2 DEF ClientSend, serverVars, mainVars, poolVars
  <2> QED BY <1>5, <2>1, <2>2 DEF ClientStep
<1>6. CASE SigShutdown \/ UNCHANGED vars
  BY <1>2, <1>6 DEF SigShutdown, vars, reqVars, poolVars
<1> QED BY <1>3, <1>4, <1>5, <1>6 DEF Next

\* A running task always has its worker.
LEMMA TasksHeldStep ==
    TypeOK /\ SignalsOnce /\ Numbered /\ Pipeline /\ TasksHeld /\ [Next]_vars
        => TasksHeld'
<1> SUFFICES ASSUME TypeOK, SignalsOnce, Numbered, Pipeline, TasksHeld, [Next]_vars
             PROVE  TasksHeld'
  OBVIOUS
<1>1. CASE /\ UNCHANGED <<work, exited>>
           /\ \A r \in Req : stage'[r] = "running" => stage[r] = "running"
           /\ pc' = "done" => pc = "done" \/ exited = Worker
  BY <1>1 DEF TasksHeld
<1>2. ASSUME NEW w \in Worker, WorkerExit(w) PROVE TasksHeld'
  <2>1. /\ UNCHANGED <<stage, work, pc>> /\ exited' = exited \cup {w}
        /\ work[w] = None
    BY <1>2 DEF WorkerExit, reqVars, mainVars
  <2> QED BY <2>1 DEF TasksHeld
<1>3. ASSUME NEW w \in Worker, Dequeue(w) PROVE TasksHeld'
  <2> DEFINE r == Head(queue)
  <2>1. /\ queue \in Seq(Req) /\ queue # <<>> /\ w \notin exited /\ work[w] = None
        /\ work' = [work EXCEPT ![w] = r] /\ stage' = [stage EXCEPT ![r] = "running"]
        /\ UNCHANGED <<pc, exited>>
    BY <1>3 DEF TypeOK, Dequeue, mainVars
  <2>2. r \in Req
    BY <2>1
  <2> HIDE DEF r
  <2>3. work \in [Worker -> Req \cup {None}] /\ stage \in [Req -> Stages]
    BY DEF TypeOK
  <2>4. ASSUME NEW x \in Req, stage'[x] = "running"
        PROVE  \E v \in Worker : work'[v] = x
    <3>1. CASE x = r
      BY <2>1, <2>3, <3>1
    <3>2. CASE x # r
      <4>1. PICK v \in Worker : work[v] = x
        BY <2>1, <2>3, <2>4, <3>2 DEF TasksHeld
      <4>2. v # w
        BY <2>1, <4>1, ConstantsAssumption
      <4> QED BY <2>1, <2>3, <4>1, <4>2
    <3> QED BY <3>1, <3>2
  <2>5. \A v \in exited' : work'[v] = None
    <3>1. \A v \in exited : v # w /\ v \in Worker /\ work[v] = None
      BY <2>1 DEF TasksHeld, TypeOK
    <3> QED BY <2>1, <2>3, <3>1
  <2> QED BY <2>1, <2>4, <2>5 DEF TasksHeld
<1>4. ASSUME NEW w \in Worker, work[w] # None, work' = [work EXCEPT ![w] = None],
             NEW s, s # "running", stage' = [stage EXCEPT ![work[w]] = s],
             UNCHANGED <<pc, exited>>
      PROVE  TasksHeld'
  <2>1. work \in [Worker -> Req \cup {None}] /\ stage \in [Req -> Stages]
        /\ exited \subseteq Worker
    BY DEF TypeOK
  <2>2. ASSUME NEW x \in Req, stage'[x] = "running"
        PROVE  \E v \in Worker : work'[v] = x
    <3>1. x # work[w]
      BY <1>4, <2>1, <2>2
    <3>2. PICK v \in Worker : work[v] = x
      BY <1>4, <2>1, <2>2, <3>1 DEF TasksHeld
    <3> QED BY <1>4, <2>1, <3>1, <3>2
  <2>3. \A v \in exited' : work'[v] = None
    BY <1>4, <2>1 DEF TasksHeld
  <2> QED BY <1>4, <2>2, <2>3 DEF TasksHeld
<1> QED BY <1>1, <1>2, <1>3, <1>4, WorkStep

\* Only tasks that were worked on get a result, of their own kind.
LEMMA ResultKindsStep ==
    TypeOK /\ SignalsOnce /\ Numbered /\ Pipeline /\ ResultKinds /\ [Next]_vars
        => ResultKinds'
<1> SUFFICES ASSUME TypeOK, SignalsOnce, Numbered, Pipeline, ResultKinds,
                    [Next]_vars, NEW r \in Req
             PROVE  /\ result'[r] \in {"AUTH_OK", "AUTH_NO", "AUTH_UN"}
                          => kind'[r] = "AUTHORISE"
                    /\ result'[r] = "RPC_DONE" => kind'[r] = "RPC"
                    /\ result'[r] # None => stage'[r] \in {"piped", "lost", "done"}
  BY DEF ResultKinds
<1>1. Ladder(r) /\ KindKept(r) /\ ResultKept(r)
  BY RequestStep DEF OneStep
<1>2. /\ result[r] \in {"AUTH_OK", "AUTH_NO", "AUTH_UN"} => kind[r] = "AUTHORISE"
      /\ result[r] = "RPC_DONE" => kind[r] = "RPC"
      /\ result[r] # None => stage[r] \in {"piped", "lost", "done"}
  BY DEF ResultKinds
<1>3. CASE result'[r] = result[r]
  <2>1. CASE result[r] = None
    BY <1>3, <2>1, ConstantsAssumption DEF Results
  <2>2. CASE result[r] # None
    <3>1. stage[r] \in {"piped", "lost", "done"} /\ kind'[r] = kind[r]
      BY <1>1, <1>2, <2>2 DEF KindKept
    <3> QED BY <1>1, <1>2, <1>3, <2>2, <3>1 DEF Ladder
  <2> QED BY <2>1, <2>2
<1>4. CASE result'[r] # result[r]
  BY <1>1, <1>4 DEF ResultKept, KindKept
<1> QED BY <1>3, <1>4

\* The line the sweep reads is a line of the live client of its slot.
LEMMA SlotOfSweep ==
    ASSUME TypeOK, Numbered, Pipeline, ConnInv,
           SweepTask \/ SweepQuit \/ SweepIgnore
    PROVE  LET p == slots[at].fd
               a == slots[at].client
               r == Head(c2s[p])
           IN /\ p \in Pid /\ a \in Addr /\ c2s[p] # <<>>
              /\ heap[a].alloc /\ ~heap[a].dead /\ heap[a].pid = p
              /\ r \in Req /\ stage[r] = "sent" /\ IsLine(r) /\ PidOf(r) = p
<1>1. AtSlot /\ c2s[slots[at].fd] # <<>>
  BY DEF SweepTask, SweepQuit, SweepIgnore, AtLine
<1>2. slots[at].fd \in Pid /\ slots[at].client \in Addr
  BY <1>1, SlotAtType
<1>3. at \in DOMAIN slots
  BY <1>1 DEF TypeOK, AtSlot
<1>4. LET c == heap[slots[at].client] IN c.alloc /\ ~c.dead /\ c.pid = slots[at].fd
  BY <1>3 DEF ConnInv, SlotsMatchRegistry
<1>5. LET r == Head(c2s[slots[at].fd])
      IN r \in Req /\ stage[r] = "sent" /\ PidOf(r) = slots[at].fd
  BY <1>1, <1>2, LineTaken
<1> QED BY <1>1, <1>2, <1>4, <1>5, SentIsLine

\* No line is read before its client is registered.
LEMMA HandshakeFirstStep ==
    TypeOK /\ SignalsOnce /\ Numbered /\ Pipeline /\ ConnInv /\ HandshakeFirst
       /\ [Next]_vars => HandshakeFirst'
<1> SUFFICES ASSUME TypeOK, SignalsOnce, Numbered, Pipeline, ConnInv,
                    HandshakeFirst, [Next]_vars, NEW p \in Pid,
                    NEW n \in 1..MaxSend, stage'[<<p, n>>] \notin {"none", "sent"}
             PROVE  stage'[<<p, 0>>] = "done"
  BY DEF HandshakeFirst
<1> DEFINE r == <<p, n>>
<1>1. r \in Req /\ <<p, 0>> \in Req /\ IsLine(r) /\ PidOf(r) = p
  BY HandshakeInReq DEF Req, IsLine, PidOf
<1>2. Ladder(<<p, 0>>) /\ FromFifo(r)
  BY <1>1, RequestStep DEF OneStep
<1> HIDE DEF r
<1>3. stage[<<p, 0>>] = "done"
  <2>1. CASE stage[r] \notin {"none", "sent"}
    BY <2>1 DEF r, HandshakeFirst
  <2>2. CASE stage[r] \in {"none", "sent"}
    <3>1. (SweepTask \/ SweepQuit \/ SweepIgnore) /\ r = Head(c2s[slots[at].fd])
      BY <1>1, <1>2, <2>2 DEF FromFifo, r
    <3>2. LET a == slots[at].client
          IN a \in Addr /\ heap[a].alloc /\ heap[a].pid = p
      BY <1>1, <3>1, SlotOfSweep
    <3> QED BY <3>2 DEF ConnInv, OneRecord
  <2> QED BY <2>1, <2>2
<1> QED BY <1>2, <1>3 DEF Ladder
-----------------------------------------------------------------------------
\* The program ends in Teardown, and stays ended.
LEMMA PcStep ==
    ASSUME [Next]_vars
    PROVE  /\ pc = "done" => pc' = "done" /\ ~MainStep
           /\ pc' = "done" => pc = "done" \/ Teardown
<1>1. ASSUME MainStep
      PROVE  pc # "done" /\ (pc' = "done" => Teardown)
  <2>1. pc # "done"
    BY <1>1 DEF MainStep, Check, PollSleep, PollReturn, HskRead, HskEnd,
       RpcEnd,
       SweepNext, SweepHangup, SweepTask, SweepQuit, SweepIgnore, SweepEnd,
       AtLine, AtSlot, Teardown, HskOk, HskDrop, AuthOk, AuthReject, RpcDone,
       TakeResult
  <2>2. pc' = "done" => Teardown
    <3>1. CASE Check \/ PollSleep \/ PollReturn \/ HskRead \/ HskEnd \/ RpcEnd
                  \/ SweepNext \/ SweepHangup \/ SweepTask \/ SweepQuit
                  \/ SweepIgnore \/ SweepEnd
      BY <2>1, <3>1 DEF Check, PollSleep, PollReturn, HskRead, HskEnd, RpcEnd,
         SweepNext, SweepHangup, SweepTask, SweepQuit, SweepIgnore, SweepEnd
    <3>2. ASSUME NEW r \in Req,
                 (\E a \in Addr : HskOk(r, a)) \/ HskDrop(r) \/ AuthOk(r)
                    \/ AuthReject(r) \/ RpcDone(r)
          PROVE  pc' # "done"
      BY <2>1, <3>2 DEF HskOk, HskDrop, AuthOk, AuthReject, RpcDone, Touch
    <3> QED BY <1>1, <3>1, <3>2 DEF MainStep
  <2> QED BY <2>1, <2>2
<1>2. ASSUME NEW w \in Worker, WorkerStep(w) PROVE pc' = pc
  BY <1>2 DEF WorkerStep, Dequeue, WorkerExit, FinishHandshake, FinishSilently,
     Finish, mainVars
<1>3. ASSUME NEW p \in Pid, ClientStep(p)
      PROVE  /\ pc = "done" => pc' = "done"
             /\ pc' = "done" => pc = "done"
  <2>1. CASE Sigusr1(p)
    BY <2>1 DEF Sigusr1
  <2>2. CASE ~Sigusr1(p)
    <3>1. UNCHANGED serverVars
      BY <1>3, <2>2 DEF ClientStep, ClientOpen, ClientAuthorised,
         ClientRead, ClientExit,
         ClientSend
    <3> QED BY <3>1 DEF serverVars, mainVars
  <2> QED BY <2>1, <2>2
<1>4. CASE SigShutdown \/ UNCHANGED vars
  BY <1>1, <1>4 DEF SigShutdown, vars
<1> QED BY <1>1, <1>2, <1>3, <1>4 DEF Next

\* Records are made by accepted handshakes only.
LEMMA RecordStep ==
    ASSUME TypeOK, [Next]_vars
    PROVE  \/ Evolves(heap, heap')
           \/ \E r \in Req, a \in Addr : HskOk(r, a)
<1>a. heap \in [Addr -> ActiveClient]
  BY DEF TypeOK
<1>1. ASSUME UNCHANGED heap PROVE Evolves(heap, heap')
  BY <1>1 DEF Evolves
<1>2. CASE MainStep
  <2>1. CASE Check \/ PollSleep \/ PollReturn \/ HskRead \/ HskEnd \/ RpcEnd
                \/ SweepNext \/ SweepIgnore \/ SweepEnd
    BY <1>1, <2>1 DEF Check, PollSleep, PollReturn, HskRead, HskEnd, RpcEnd,
       SweepNext, SweepIgnore, SweepEnd, connVars
  <2>2. CASE SweepHangup \/ SweepQuit
    <3>1. heap' = Removed(heap, slots[at].client)
      BY <2>2 DEF SweepHangup, SweepQuit, RemoveSwept, FreeClients
    <3> QED BY <1>a, <3>1, RemovedEffect
  <2>3. CASE SweepTask
    <3>1. heap' = Acquired(heap, slots[at].client)
      BY <2>3 DEF SweepTask
    <3> QED BY <1>a, <3>1, AcquiredEffect
  <2>4. CASE Teardown
    <3>1. heap' = [a \in Addr |-> IF a \in registry THEN Freed ELSE heap[a]]
      BY <2>4 DEF Teardown, FreeClients
    <3>2. ~Freed.alloc
      BY DEF Freed
    <3> QED BY <3>1, <3>2 DEF Evolves
  <2>5. ASSUME NEW r \in Req,
               HskDrop(r) \/ AuthOk(r) \/ AuthReject(r) \/ RpcDone(r)
        PROVE  Evolves(heap, heap')
    <3> DEFINE a == owner[r]
               h == Released(heap, a)
    <3>1. heap' \in {heap, h, LoggedIn(h, a), Removed(h, a)}
      BY <2>5 DEF HskDrop, AuthOk, AuthReject, RpcDone, FreeClients
    <3> HIDE DEF a
    <3>2. Evolves(heap, h) /\ h \in [Addr -> ActiveClient]
      BY <1>a, ReleasedEffect, ReleasedType
    <3> HIDE DEF h
    <3>3. Evolves(h, LoggedIn(h, a)) /\ Evolves(h, Removed(h, a))
      BY <3>2, LoggedInEffect, RemovedEffect
    <3> QED BY <1>1, <3>1, <3>2, <3>3, EvolvesTransitive
  <2> QED BY <1>2, <2>1, <2>2, <2>3, <2>4, <2>5 DEF MainStep
<1>3. ASSUME NEW w \in Worker, WorkerStep(w) PROVE UNCHANGED heap
  BY <1>3 DEF WorkerStep, Dequeue, WorkerExit, FinishHandshake, FinishSilently,
     Finish, connVars
<1>4. ASSUME NEW p \in Pid, ClientStep(p) PROVE UNCHANGED heap
  BY <1>4 DEF ClientStep, Sigusr1, ClientOpen, ClientAuthorised,
     ClientRead, ClientExit, ClientSend, serverVars, connVars
<1>5. CASE SigShutdown \/ UNCHANGED vars
  BY <1>1, <1>5 DEF SigShutdown, vars, connVars
<1> QED BY <1>1, <1>2, <1>3, <1>4, <1>5 DEF Next

\* What a step that is not a line of p changes of p.
OwnStep(p) ==
    /\ sent'[p] = sent[p]
    /\ \A n \in 0..MaxSend : kind'[<<p, n>>] = kind[<<p, n>>]
    /\ \/ cli'[p] = cli[p]
       \/ <<cli[p], cli'[p]>> \in
             {<<"idle", "syn">>, <<"syn", "half">>, <<"half", "login">>,
              <<"syn", "gone">>, <<"half", "gone">>, <<"login", "closed">>,
              <<"waiting", "closed">>, <<"rpc", "closed">>}
       \/ /\ cli[p] = "waiting" /\ cli'[p] = "rpc"
          /\ s2c[p] # <<>>
          /\ result[Head(s2c[p])] \notin {"AUTH_NO", "AUTH_UN"}

\* A step either leaves the lines of p alone or writes one.
LEMMA OwnClientStep ==
    ASSUME TypeOK, [Next]_vars, NEW p \in Pid
    PROVE  OwnStep(p) \/ \E k \in Commands : ClientSend(p, k)
<1>a. cli \in [Pid -> CliStates] /\ sent \in [Pid -> 0..MaxSend]
      /\ kind \in [Req -> LineKinds \cup {"HANDSHAKE"}]
  BY DEF TypeOK
<1>1. ASSUME UNCHANGED <<kind, sent, cli>> PROVE OwnStep(p)
  BY <1>1 DEF OwnStep
<1>2. ASSUME NEW q \in Pid, NEW v, cli' = [cli EXCEPT ![q] = v],
             UNCHANGED <<kind, sent>>,
             \/ cli[q] = v
             \/ <<cli[q], v>> \in
                {<<"idle", "syn">>, <<"syn", "half">>, <<"half", "login">>,
                 <<"syn", "gone">>, <<"half", "gone">>, <<"login", "closed">>,
                 <<"waiting", "closed">>, <<"rpc", "closed">>}
             \/ /\ cli[q] = "waiting" /\ v = "rpc"
                /\ s2c[q] # <<>>
                /\ result[Head(s2c[q])] \notin {"AUTH_NO", "AUTH_UN"}
      PROVE  OwnStep(p)
  <2>1. cli'[p] = IF p = q THEN v ELSE cli[p]
    BY <1>a, <1>2
  <2>2. CASE p = q
    BY <1>2, <2>1, <2>2 DEF OwnStep
  <2>3. CASE p # q
    BY <1>2, <2>1, <2>3 DEF OwnStep
  <2> QED BY <2>2, <2>3
<1>3. CASE MainStep
  <2>1. UNCHANGED <<kind, sent, cli>>
    BY <1>3 DEF MainStep, Check, PollSleep, PollReturn, HskRead, HskEnd,
       RpcEnd,
       SweepNext, SweepHangup, SweepTask, SweepQuit, SweepIgnore, SweepEnd,
       Teardown, HskOk, HskDrop, AuthOk, AuthReject, RpcDone, TakeResult,
       reqVars, reqInfo, clientVars
  <2> QED BY <1>1, <2>1
<1>4. ASSUME NEW w \in Worker, WorkerStep(w) PROVE OwnStep(p)
  <2>1. CASE FinishHandshake(w)
    <3>1. work[w] \in Req
      BY <2>1 DEF TypeOK, FinishHandshake
    <3>2. PidOf(work[w]) \in Pid
      BY <3>1 DEF Req, PidOf
    <3>3. /\ cli[PidOf(work[w])] = "syn"
          /\ cli' = [cli EXCEPT ![PidOf(work[w])] = "half"]
          /\ UNCHANGED <<kind, sent>>
      BY <2>1 DEF FinishHandshake
    <3> QED BY <1>2, <3>2, <3>3
  <2>2. CASE ~FinishHandshake(w)
    <3>1. UNCHANGED <<kind, sent, cli>>
      BY <1>4, <2>2 DEF WorkerStep, Dequeue, WorkerExit, FinishSilently,
         Finish,
         reqVars, reqInfo, clientVars
    <3> QED BY <1>1, <3>1
  <2> QED BY <2>1, <2>2
<1>5. ASSUME NEW q \in Pid, ClientStep(q)
      PROVE  OwnStep(p) \/ \E k \in Commands : ClientSend(p, k)
  <2>1. CASE Sigusr1(q)
    BY <1>2, <2>1 DEF Sigusr1, reqVars, reqInfo
  <2>2. CASE ClientOpen(q)
    BY <1>2, <2>2 DEF ClientOpen, reqVars, reqInfo
  <2>3. CASE ClientAuthorised(q)
    <3> DEFINE v == IF result[Head(s2c[q])] \in {"AUTH_NO", "AUTH_UN"}
                    THEN "closed" ELSE "rpc"
    <3>1. /\ cli[q] = "waiting" /\ s2c[q] # <<>> /\ cli' = [cli EXCEPT ![q] = v]
          /\ UNCHANGED <<kind, sent>>
      BY <2>3 DEF ClientAuthorised, reqVars, reqInfo
    <3>2. \/ v = "closed"
          \/ v = "rpc" /\ result[Head(s2c[q])] \notin {"AUTH_NO", "AUTH_UN"}
      OBVIOUS
    <3> HIDE DEF v
    <3> QED BY <1>2, <3>1, <3>2
  <2>4. CASE ClientExit(q)
    <3> DEFINE v == IF cli[q] \in Writing THEN "closed" ELSE "gone"
    <3>1. /\ cli[q] \in {"syn", "half"} \cup Writing
          /\ cli' = [cli EXCEPT ![q] = v] /\ UNCHANGED <<kind, sent>>
      BY <2>4 DEF ClientExit, reqVars, reqInfo
    <3>2. <<cli[q], v>> \in
                {<<"syn", "gone">>, <<"half", "gone">>, <<"login", "closed">>,
                 <<"waiting", "closed">>, <<"rpc", "closed">>}
      BY <3>1 DEF Writing
    <3> HIDE DEF v
    <3> QED BY <1>2, <3>1, <3>2
  <2>5. ASSUME NEW k \in Commands, ClientSend(q, k)
        PROVE  OwnStep(p) \/ \E j \in Commands : ClientSend(p, j)
    <3>1. CASE q = p
      BY <2>5, <3>1
    <3>2. CASE q # p
      <4> DEFINE x == <<q, sent[q] + 1>>
      <4>1. /\ sent' = [sent EXCEPT ![q] = @ + 1]
            /\ kind' = [kind EXCEPT ![x] = k]
            /\ \E v : cli' = [cli EXCEPT ![q] = v]
        BY <2>5 DEF ClientSend
      <4>2. \A n \in 0..MaxSend : <<p, n>> \in Req /\ <<p, n>> # x
        BY <3>2 DEF Req
      <4> HIDE DEF x
      <4>3. sent'[p] = sent[p] /\ cli'[p] = cli[p]
        BY <1>a, <3>2, <4>1
      <4>4. \A n \in 0..MaxSend : kind'[<<p, n>>] = kind[<<p, n>>]
        BY <1>a, <4>1, <4>2
      <4> QED BY <4>3, <4>4 DEF OwnStep
    <3> QED BY <3>1, <3>2
  <2>6. CASE ClientRead(q)
    BY <1>1, <2>6 DEF ClientRead, reqVars, reqInfo
  <2> QED BY <1>5, <2>1, <2>2, <2>3, <2>4, <2>5, <2>6 DEF ClientStep
<1>6. CASE SigShutdown \/ UNCHANGED vars
  BY <1>1, <1>6 DEF SigShutdown, vars, reqVars, reqInfo, clientVars
<1> QED BY <1>3, <1>4, <1>5, <1>6 DEF Next

\* Nothing is left over when the program ends.
LEMMA EndedStep ==
    TypeOK /\ SignalsOnce /\ Numbered /\ Pipeline /\ TasksHeld /\ Ended
       /\ [Next]_vars => Ended'
<1> SUFFICES ASSUME TypeOK, SignalsOnce, Numbered, Pipeline, TasksHeld, Ended,
                    [Next]_vars, pc' = "done", NEW r \in Req
             PROVE  stage'[r] \notin {"queued", "running", "piped"}
  BY DEF Ended
<1>a. stage \in [Req -> Stages]
  BY DEF TypeOK
<1>1. CASE pc # "done"
  <2>1. Teardown
    BY <1>1, PcStep
  <2>2. stage[r] # "running"
    BY <2>1, ConstantsAssumption DEF TasksHeld, Teardown
  <2>3. stage'[r] = IF stage[r] = "queued" /\ kind[r] = "HANDSHAKE" THEN "done"
                    ELSE IF stage[r] \in {"queued", "piped"} THEN "lost"
                    ELSE stage[r]
    BY <2>1 DEF Teardown
  <2> QED BY <2>2, <2>3
<1>2. CASE pc = "done"
  <2>1. stage[r] \notin {"queued", "running", "piped"} /\ ~MainStep
    BY <1>2, PcStep DEF Ended
  <2>2. ASSUME NEW w \in Worker, WorkerStep(w) PROVE stage' = stage
    <3>1. w \in exited /\ work[w] = None
      BY <1>2 DEF TasksHeld
    <3> QED BY <2>2, <3>1 DEF WorkerStep, Dequeue, WorkerExit, FinishHandshake,
            FinishSilently, Finish, reqVars
  <2>3. ASSUME NEW p \in Pid, ClientStep(p)
        PROVE  stage' = stage \/ \E x : stage' = [stage EXCEPT ![x] = "sent"]
    BY <2>3 DEF ClientStep, Sigusr1, ClientOpen, ClientAuthorised,
       ClientRead, ClientExit, ClientSend, reqVars
  <2>4. CASE SigShutdown \/ UNCHANGED vars
    BY <2>1, <2>4 DEF SigShutdown, vars, reqVars
  <2> QED BY <1>a, <2>1, <2>2, <2>3, <2>4 DEF Next
<1> QED BY <1>1, <1>2

\* The client a result names is the one that wrote the line.
LEMMA NamedByResult ==
    ASSUME TypeOK, Numbered, Pipeline, References, NEW r \in Req, TakeResult(r),
           result[r] \in Results
    PROVE  /\ owner[r] \in Addr /\ stage[r] = "piped" /\ IsLine(r)
           /\ r \in Outstanding(owner[r])
           /\ heap[owner[r]].alloc /\ heap[owner[r]].pid = PidOf(r)
<1>1. stage[r] = "piped" /\ pc # "done"
  <2>1. rpc \in Seq(Req) /\ rpc # <<>> /\ r = Head(rpc) /\ pc # "done"
    BY DEF TypeOK, TakeResult, MoreRpc
  <2> QED BY <2>1, AllAtTail DEF TypeOK, Pipeline
<1>2. IsLine(r)
  BY ResultIsLine, ConstantsAssumption
<1>3. owner[r] \in Addr
  BY <1>1, <1>2, HolderNamed DEF Holding
<1>4. r \in Outstanding(owner[r])
  BY <1>1 DEF Outstanding, Holding
<1> QED BY <1>1, <1>2, <1>3, <1>4 DEF References

\* Each step writes one reply at most, and that when a result is taken.
Replied(p, r) ==
    /\ s2c'[p] = Append(s2c[p], r)
    /\ IsLine(r) /\ result[r] \in Results
    /\ stage[r] = "piped" /\ stage'[r] = "done"

LEMMA ReplyStep ==
    ASSUME TypeOK, Numbered, Pipeline, References, [Next]_vars, NEW p \in Pid
    PROVE  s2c'[p] = s2c[p] \/ \E r \in Req : Replied(p, r)
<1> DEFINE Goal == s2c'[p] = s2c[p] \/ \E r \in Req : Replied(p, r)
<1>a. /\ s2c \in [Pid -> Seq(Req)] /\ stage \in [Req -> Stages]
      /\ heap \in [Addr -> ActiveClient]
  BY DEF TypeOK
<1>1. ASSUME NEW r \in Req, AuthOk(r) \/ AuthReject(r) \/ RpcDone(r)
      PROVE  Goal
  <2> DEFINE a == owner[r]
             h == Released(heap, a)
  <2>1. /\ TakeResult(r) /\ result[r] \in Results
        /\ Reply(h, a, r)
    BY <1>1 DEF AuthOk, AuthReject, RpcDone, Results
  <2>2. stage[r] = "piped" /\ IsLine(r)
    BY <2>1, NamedByResult
  <2>3. stage'[r] = "done"
    BY <1>a, <2>1 DEF TakeResult
  <2> HIDE DEF a, h
  <2>4. s2c' = s2c \/ \E q : s2c' = [s2c EXCEPT ![q] = Append(@, r)]
    BY <2>1 DEF Reply, Written
  <2> QED BY <1>a, <2>1, <2>2, <2>3, <2>4 DEF Replied
<1>2. CASE MainStep
  <2>1. CASE Check \/ PollSleep \/ PollReturn \/ HskRead \/ HskEnd \/ RpcEnd
                \/ SweepNext \/ SweepHangup \/ SweepTask \/ SweepQuit
                \/ SweepIgnore \/ SweepEnd \/ Teardown
    BY <2>1 DEF Check, PollSleep, PollReturn, HskRead, HskEnd, RpcEnd,
       SweepNext, SweepHangup, SweepTask, SweepQuit, SweepIgnore, SweepEnd,
       Teardown, fifoVars
  <2>2. ASSUME NEW r \in Req, (\E a \in Addr : HskOk(r, a)) \/ HskDrop(r)
        PROVE  UNCHANGED s2c
    BY <2>2 DEF HskOk, HskDrop, fifoVars
  <2> HIDE DEF Goal
  <2>3. ASSUME UNCHANGED s2c PROVE Goal
    BY <2>3 DEF Goal
  <2> QED BY <1>1, <1>2, <2>1, <2>2, <2>3 DEF MainStep, Goal
<1>3. ASSUME NEW w \in Worker, WorkerStep(w) PROVE UNCHANGED s2c
  BY <1>3 DEF WorkerStep, Dequeue, WorkerExit, FinishHandshake, FinishSilently,
     Finish, fifoVars
<1>4. ASSUME NEW q \in Pid, ClientStep(q) PROVE UNCHANGED s2c
  BY <1>4 DEF ClientStep, Sigusr1, ClientOpen, ClientAuthorised,
     ClientRead, ClientExit, ClientSend, serverVars, fifoVars
<1>5. CASE SigShutdown \/ UNCHANGED vars
  BY <1>5 DEF SigShutdown, vars, fifoVars
<1> QED BY <1>2, <1>3, <1>4, <1>5 DEF Next

\* As long as replies go straight, the client that gets it wrote the line.
LEMMA StraightReply ==
    ASSUME TypeOK, Straight', NEW p \in Pid, NEW r \in Req, Replied(p, r)
    PROVE  PidOf(r) = p
<1>1. s2c[p] \in Seq(Req)
  BY DEF TypeOK
<1>2. Len(s2c[p]) + 1 \in DOMAIN s2c'[p] /\ s2c'[p][Len(s2c[p]) + 1] = r
  BY <1>1 DEF Replied
<1> QED BY <1>2 DEF Straight

\* A request that has been answered stays so, with the result it has.
LEMMA AnsweredStays ==
    ASSUME TypeOK, SignalsOnce, Numbered, Pipeline, [Next]_vars, NEW r \in Req,
           stage[r] = "done"
    PROVE  stage'[r] = "done" /\ result'[r] = result[r]
<1>1. Ladder(r) /\ ResultKept(r)
  BY RequestStep DEF OneStep
<1> QED BY <1>1 DEF Ladder, ResultKept

\* Each step sends at most one reply, to a line not answered before.
LEMMA RepliesDoneStep ==
    ASSUME TypeOK, SignalsOnce, Numbered, Pipeline, References, [Next]_vars,
           Straight', NEW p \in Pid, RepliesDone(p)
    PROVE  RepliesDone(p)'
<1>a. s2c[p] \in Seq(Req)
  BY DEF TypeOK
<1>1. \A i \in DOMAIN s2c[p] :
         /\ s2c[p][i] \in Req /\ PidOf(s2c[p][i]) = p /\ s2c[p][i] # <<p, 0>>
         /\ stage[s2c[p][i]] = "done" /\ stage'[s2c[p][i]] = "done"
         /\ result'[s2c[p][i]] # None
  <2>1. ASSUME NEW i \in DOMAIN s2c[p]
        PROVE  /\ s2c[p][i] \in Req /\ PidOf(s2c[p][i]) = p
               /\ s2c[p][i] # <<p, 0>> /\ stage[s2c[p][i]] = "done"
               /\ result[s2c[p][i]] # None
    BY <1>a DEF RepliesDone
  <2> QED BY <2>1, AnsweredStays
<1>2. CASE s2c'[p] = s2c[p]
  BY <1>1, <1>2 DEF RepliesDone
<1>3. ASSUME NEW r \in Req, Replied(p, r) PROVE RepliesDone(p)'
  <2>a. /\ s2c'[p] = Append(s2c[p], r) /\ IsLine(r) /\ PidOf(r) = p
        /\ stage[r] = "piped" /\ stage'[r] = "done"
    BY <1>3, StraightReply DEF Replied
  <2>b. result'[r] # None
    <3>1. result[r] # None
      BY <1>3, ConstantsAssumption DEF Replied
    <3>2. ResultKept(r)
      BY RequestStep DEF OneStep
    <3> QED BY <2>a, <3>1, <3>2 DEF ResultKept
  <2>1. r # <<p, 0>> /\ \A i \in DOMAIN s2c[p] : s2c[p][i] # r
    BY <1>1, <2>a DEF IsLine
  <2>2. \A i \in DOMAIN s2c'[p] :
           \/ i \in DOMAIN s2c[p] /\ s2c'[p][i] = s2c[p][i]
           \/ i = Len(s2c[p]) + 1 /\ s2c'[p][i] = r
    BY <1>a, <2>a
  <2>3. \A i \in DOMAIN s2c'[p] :
           /\ PidOf(s2c'[p][i]) = p /\ s2c'[p][i] # <<p, 0>>
           /\ stage'[s2c'[p][i]] = "done" /\ result'[s2c'[p][i]] # None
    BY <1>1, <2>a, <2>b, <2>1, <2>2
  <2>4. \A i, j \in DOMAIN s2c'[p] : s2c'[p][i] = s2c'[p][j] => i = j
    BY <2>1, <2>2 DEF RepliesDone
  <2> QED BY <2>3, <2>4 DEF RepliesDone
<1> QED BY <1>2, <1>3, ReplyStep

\* The client of the repository sends Login first ...
LEMMA LoginSentStep ==
    ASSUME OwnClients, TypeOK, [Next]_vars, NEW p \in Pid, LoginSent(p)
    PROVE  LoginSent(p)'
<1>a. /\ sent[p] \in 0..MaxSend /\ MaxSend \in Nat /\ cli[p] \in CliStates
      /\ cli \in [Pid -> CliStates] /\ sent \in [Pid -> 0..MaxSend]
      /\ kind \in [Req -> LineKinds \cup {"HANDSHAKE"}]
  BY ConstantsAssumption DEF TypeOK
<1>b. /\ sent[p] > 0 => kind[<<p, 1>>] = "AUTHORISE"
      /\ cli[p] \in {"idle", "syn", "half", "login", "gone"} => sent[p] = 0
      /\ cli[p] = "waiting" => sent[p] = 1
  BY DEF LoginSent
<1>1. CASE OwnStep(p)
  <2>1. sent[p] > 0 => kind'[<<p, 1>>] = kind[<<p, 1>>]
    <3>1. sent[p] > 0 => 1 \in 0..MaxSend
      BY <1>a
    <3> QED BY <1>1, <3>1 DEF OwnStep
  <2>2. /\ cli'[p] \in {"idle", "syn", "half", "login", "gone"}
              => cli[p] \in {"idle", "syn", "half", "login", "gone"}
        /\ cli'[p] = "waiting" => cli[p] = "waiting"
    BY <1>1 DEF OwnStep
  <2>3. sent'[p] = sent[p]
    BY <1>1 DEF OwnStep
  <2> QED BY <1>b, <2>1, <2>2, <2>3 DEF LoginSent
<1>2. ASSUME NEW k \in Commands, ClientSend(p, k) PROVE LoginSent(p)'
  <2> DEFINE x == <<p, sent[p] + 1>>
  <2>1. /\ cli[p] = IF sent[p] > 0 THEN "rpc" ELSE "login"
        /\ sent[p] = 0 => k = "AUTHORISE"
        /\ sent[p] < MaxSend
        /\ sent'[p] = sent[p] + 1
        /\ kind' = [kind EXCEPT ![x] = k]
        /\ cli'[p] \in IF sent[p] = 0 THEN {"waiting", "closed"}
                       ELSE {"rpc", "closed"}
    BY <1>a, <1>2 DEF ClientSend, AfterLine
  <2>2. <<p, 1>> \in Req
    BY <1>a, <2>1 DEF Req
  <2>3. CASE sent[p] = 0
    <3>1. x = <<p, 1>>
      BY <2>3
    <3>2. kind'[<<p, 1>>] = "AUTHORISE"
      BY <1>a, <2>1, <2>2, <2>3, <3>1
    <3>3. cli'[p] \in {"waiting", "closed"} /\ sent'[p] = 1
      BY <2>1, <2>3
    <3> QED BY <3>2, <3>3 DEF LoginSent
  <2>4. CASE sent[p] > 0
    <3>1. x # <<p, 1>>
      BY <1>a, <2>4
    <3> HIDE DEF x
    <3>2. kind'[<<p, 1>>] = "AUTHORISE"
      BY <1>a, <1>b, <2>1, <2>2, <2>4, <3>1
    <3>3. cli'[p] \in {"closed", "rpc"}
      BY <1>a, <2>1, <2>4
    <3> QED BY <3>2, <3>3 DEF LoginSent
  <2> QED BY <1>a, <2>3, <2>4
<1> QED BY <1>1, <1>2, OwnClientStep

\* ... and nothing more before it has been accepted.
LEMMA LoginAnsweredStep ==
    ASSUME OwnClients, TypeOK, SignalsOnce, Numbered, Pipeline, [Next]_vars,
           ResultKinds, NEW p \in Pid, LoginSent(p), LoginAnswered(p),
           RepliesDone(p)
    PROVE  LoginAnswered(p)'
<1>a. /\ sent[p] \in 0..MaxSend /\ MaxSend \in Nat /\ s2c[p] \in Seq(Req)
  BY ConstantsAssumption DEF TypeOK
<1>1. ASSUME sent[p] > 0, stage[<<p, 1>>] = "done", result[<<p, 1>>] = "AUTH_OK",
             sent'[p] >= sent[p]
      PROVE  LoginAnswered(p)'
  <2>1. <<p, 1>> \in Req
    BY <1>a, <1>1 DEF Req
  <2>2. stage'[<<p, 1>>] = "done" /\ result'[<<p, 1>>] = "AUTH_OK"
    BY <1>1, <2>1, AnsweredStays
  <2>3. sent'[p] \in 0..MaxSend
    BY TypeStep DEF TypeOK
  <2>4. sent'[p] > 0
    BY <1>a, <1>1, <2>3
  <2> QED BY <2>2, <2>4 DEF LoginAnswered
<1>2. CASE OwnStep(p)
  <2>1. sent'[p] = sent[p] /\ sent'[p] >= sent[p]
    BY <1>a, <1>2 DEF OwnStep
  <2>2. CASE cli[p] = "rpc" \/ sent[p] > 1
    BY <1>1, <2>1, <2>2 DEF LoginAnswered
  <2>3. CASE ~(cli[p] = "rpc" \/ sent[p] > 1) /\ cli'[p] = "rpc"
    <3>1. /\ cli[p] = "waiting" /\ s2c[p] # <<>>
          /\ result[Head(s2c[p])] \notin {"AUTH_NO", "AUTH_UN"}
      BY <1>2, <2>3 DEF OwnStep
    <3>2. 1 \in DOMAIN s2c[p] /\ Head(s2c[p]) = s2c[p][1] /\ Head(s2c[p]) \in Req
      BY <1>a, <3>1, HeadAt
    <3> DEFINE r == Head(s2c[p])
    <3>3. /\ r \in Req /\ PidOf(r) = p /\ r # <<p, 0>> /\ stage[r] = "done"
          /\ result[r] # None
      BY <3>2 DEF RepliesDone
    <3> HIDE DEF r
    <3>4. PICK n \in 1..MaxSend : r = <<p, n>>
      BY <1>a, <3>3 DEF Req, PidOf
    <3>5. sent[p] = 1
      BY <3>1 DEF LoginSent
    <3>6. ~(n > sent[p])
      BY <3>3, <3>4 DEF Numbered
    <3>7. n = 1
      BY <3>5, <3>6
    <3>8. sent[p] > 0
      BY <3>5
    <3>9. kind[<<p, 1>>] = "AUTHORISE"
      BY <3>8 DEF LoginSent
    <3>10. result[r] = "AUTH_OK"
      <4>1. result[r] \in Results
        BY <3>3 DEF TypeOK
      <4>2. result[r] # "RPC_DONE"
        BY <3>3, <3>4, <3>7, <3>9 DEF ResultKinds
      <4> QED BY <3>1, <4>1, <4>2 DEF Results, r
    <3> QED BY <1>1, <2>1, <3>3, <3>4, <3>7, <3>8, <3>10
  <2>4. CASE ~(cli[p] = "rpc" \/ sent[p] > 1) /\ cli'[p] # "rpc"
    BY <2>1, <2>4 DEF LoginAnswered
  <2> QED BY <2>2, <2>3, <2>4
<1>3. ASSUME NEW k \in Commands, ClientSend(p, k) PROVE LoginAnswered(p)'
  <2>1. /\ cli[p] = IF sent[p] > 0 THEN "rpc" ELSE "login"
        /\ sent[p] < MaxSend
        /\ sent'[p] = sent[p] + 1
        /\ sent[p] = 0 => cli'[p] \in {"waiting", "closed"}
    BY <1>3 DEF ClientSend, AfterLine, TypeOK
  <2>2. CASE sent[p] > 0
    <3>1. sent'[p] >= sent[p] /\ cli[p] = "rpc"
      BY <1>a, <2>1, <2>2
    <3> QED BY <1>1, <2>2, <3>1 DEF LoginAnswered
  <2>3. CASE ~(sent[p] > 0)
    <3>1. sent[p] = 0 /\ sent'[p] = 1 /\ cli'[p] # "rpc"
      BY <1>a, <2>1, <2>3
    <3> QED BY <3>1 DEF LoginAnswered
  <2> QED BY <2>2, <2>3
<1> QED BY <1>2, <1>3, OwnClientStep

\* An accepted Login stays recorded in the client.
LEMMA LoginRecordedStep ==
    ASSUME TypeOK, SignalsOnce, Numbered, Pipeline, OneRecord, ResultKinds,
           HandshakeFirst, References, [Next]_vars,
           NEW p \in Pid, LoginRecorded(p)
    PROVE  LoginRecorded(p)'
<1> SUFFICES ASSUME NEW a \in Addr, heap'[a].alloc, heap'[a].pid = p,
                    sent'[p] > 0, stage'[<<p, 1>>] = "done",
                    result'[<<p, 1>>] = "AUTH_OK"
             PROVE  heap'[a].logged_in
  BY DEF LoginRecorded
<1> DEFINE r == <<p, 1>>
<1>a. /\ sent[p] \in 0..MaxSend /\ MaxSend \in Nat /\ sent'[p] \in 0..MaxSend
      /\ heap \in [Addr -> ActiveClient] /\ stage \in [Req -> Stages]
  BY ConstantsAssumption, TypeStep DEF TypeOK
<1>b. 1 \in 1..MaxSend /\ 1 \in 0..MaxSend
  BY <1>a
<1>c. r \in Req /\ PidOf(r) = p /\ IsLine(r)
  BY <1>b DEF Req, PidOf, IsLine
<1>d. Ladder(r) /\ FromResult(r) /\ ResultKept(r)
  BY <1>c, RequestStep DEF OneStep
<1>e. result[r] = "AUTH_OK"
  BY <1>d DEF ResultKept
<1>f. kind[r] = "AUTHORISE" /\ stage[r] \in {"piped", "lost", "done"}
  BY <1>c, <1>e, ConstantsAssumption DEF ResultKinds, Results
<1>g. stage[r] \in {"piped", "done"}
  BY <1>d, <1>f DEF Ladder
<1>h. sent[p] > 0
  <2>1. 1 > sent[p] => stage[<<p, 1>>] = "none"
    BY <1>b DEF Numbered
  <2> QED BY <1>a, <1>g, <2>1
<1>i. stage[<<p, 0>>] = "done"
  BY <1>b, <1>g DEF HandshakeFirst
<1>1. ASSUME Evolves(heap, heap'), stage[r] = "done" PROVE heap'[a].logged_in
  <2>1. heap[a].alloc /\ heap[a].pid = p
    BY <1>1 DEF Evolves
  <2>2. heap[a].logged_in
    BY <1>1, <1>e, <1>h, <2>1 DEF LoginRecorded
  <2> QED BY <1>1, <2>2 DEF Evolves
<1>2. CASE stage[r] = "piped"
  <2>1. AuthOk(r)
    <3>1. ~\E b \in Addr : HskOk(r, b)
      BY <1>f DEF HskOk
    <3>2. ~HskDrop(r) /\ ~AuthReject(r) /\ ~RpcDone(r)
      BY <1>e, <1>f DEF HskDrop, AuthReject, RpcDone
    <3> QED BY <1>2, <1>d, <3>1, <3>2 DEF FromResult
  <2> DEFINE b == owner[r]
             h == Released(heap, b)
  <2>2. heap' = LoggedIn(h, b) /\ TakeResult(r) /\ result[r] \in Results
    BY <2>1 DEF AuthOk, FreeClients, Results
  <2>3. b \in Addr /\ heap[b].alloc /\ heap[b].pid = p
    BY <1>c, <2>2, NamedByResult
  <2> HIDE DEF b
  <2>4. Evolves(heap, h) /\ h \in [Addr -> ActiveClient]
    BY <1>a, ReleasedEffect, ReleasedType
  <2> HIDE DEF h
  <2>5. Evolves(h, heap')
    BY <2>2, <2>4, LoggedInEffect
  <2>6. heap[a].alloc /\ heap[a].pid = p /\ h[a].alloc
    BY <2>4, <2>5 DEF Evolves
  <2>7. a = b
    BY <2>3, <2>6 DEF OneRecord
  <2>8. heap' = [h EXCEPT ![b] = [@ EXCEPT !.logged_in = TRUE]]
    BY <2>2, <2>6, <2>7 DEF LoggedIn
  <2>9. [h[b] EXCEPT !.logged_in = TRUE].logged_in = TRUE
    BY <2>3, <2>4, FieldUpdates
  <2>10. heap'[a] = [h[b] EXCEPT !.logged_in = TRUE]
    BY <2>3, <2>4, <2>7, <2>8
  <2> QED BY <2>9, <2>10
<1>3. CASE stage[r] = "done"
  <2>1. ASSUME NEW x \in Req, NEW b \in Addr, HskOk(x, b)
        PROVE  heap'[a].logged_in
    <3>1. /\ rpc # <<>> /\ x = Head(rpc) /\ ~heap[b].alloc
          /\ kind[x] = "HANDSHAKE"
          /\ heap' = [heap EXCEPT ![b] = [alloc |-> TRUE, pid |-> PidOf(x),
                                    refcount |-> 1, dead |-> FALSE,
                                    logged_in |-> FALSE]]
      BY <2>1 DEF HskOk, TakeResult, MoreRpc
    <3>2. stage[x] = "piped"
      BY <3>1, AllAtTail DEF TypeOK, Pipeline
    <3>3. PICK q \in Pid : x = <<q, 0>> /\ PidOf(x) = q
      BY <3>1, <3>2, HandshakeKind
    <3>4. q # p
      BY <1>i, <3>2, <3>3
    <3>5. b \in Addr => [alloc |-> TRUE, pid |-> PidOf(x), refcount |-> 1,
                         dead |-> FALSE, logged_in |-> FALSE].pid = q
      BY <3>3
    <3>6. a # b
      BY <1>a, <3>1, <3>4, <3>5
    <3>7. heap'[a] = heap[a]
      BY <1>a, <3>1, <3>6
    <3> QED BY <1>3, <1>e, <1>h, <3>7 DEF LoginRecorded
  <2> QED BY <1>1, <1>3, <2>1, RecordStep
<1> QED BY <1>2, <1>3, <1>g

\* So a later Login becomes no task.
LEMMA LoginOnceStep ==
    ASSUME TypeOK, SignalsOnce, Numbered, Pipeline, ConnInv, ResultKinds,
           [Next]_vars, NEW p \in Pid, LoginOnce(p), LoginAnswered(p),
           LoginRecorded(p)
    PROVE  LoginOnce(p)'
<1> SUFFICES ASSUME NEW n \in 2..MaxSend, kind'[<<p, n>>] = "AUTHORISE"
             PROVE  stage'[<<p, n>>] \notin Holding /\ result'[<<p, n>>] = None
  BY DEF LoginOnce
<1> DEFINE r == <<p, n>>
<1>a. /\ sent[p] \in 0..MaxSend /\ MaxSend \in Nat /\ n \in 1..MaxSend
      /\ n \in 0..MaxSend /\ n \in Nat /\ n >= 2
      /\ stage \in [Req -> Stages]
  BY ConstantsAssumption DEF TypeOK
<1>b. r \in Req /\ PidOf(r) = p /\ IsLine(r)
  BY <1>a DEF Req, PidOf, IsLine
<1>c. Ladder(r) /\ FromFifo(r) /\ KindKept(r) /\ ResultKept(r)
  BY <1>b, RequestStep DEF OneStep
<1>1. CASE kind'[r] # kind[r]
  <2>1. stage[r] = "none" /\ stage'[r] = "sent"
    BY <1>1, <1>c DEF KindKept
  <2>2. result[r] = None
    BY <1>b, <2>1 DEF ResultKinds
  <2>3. result'[r] = None
    BY <1>c, <2>1, <2>2 DEF ResultKept
  <2> QED BY <2>1, <2>3 DEF Holding
<1>2. CASE kind'[r] = kind[r]
  <2>1. kind[r] = "AUTHORISE" /\ stage[r] \notin Holding /\ result[r] = None
    BY <1>2 DEF LoginOnce
  <2>2. result'[r] = None
    BY <1>c, <2>1 DEF ResultKept, Holding
  <2>3. ASSUME stage'[r] \in Holding PROVE FALSE
    <3>1. stage[r] \in {"none", "sent"}
      BY <1>a, <1>b, <1>c, <2>1, <2>3 DEF Ladder, Holding, Stages
    <3>2. /\ SweepTask \/ SweepQuit \/ SweepIgnore
          /\ r = Head(c2s[slots[at].fd])
      BY <1>b, <1>c, <2>3, <3>1 DEF FromFifo, Holding
    <3>3. ~SweepQuit /\ ~SweepIgnore
      <4>1. ASSUME SweepQuit \/ SweepIgnore PROVE stage'[r] = "done"
        BY <1>a, <1>b, <3>2, <4>1 DEF SweepQuit, SweepIgnore
      <4> QED BY <2>3, <4>1 DEF Holding
    <3> DEFINE b == slots[at].client
    <3>4. ~heap[b].logged_in
      BY <2>1, <3>2, <3>3 DEF SweepTask
    <3>5. b \in Addr /\ heap[b].alloc /\ heap[b].pid = p /\ stage[r] = "sent"
      BY <1>b, <3>2, SlotOfSweep
    <3> HIDE DEF b
    <3>6. ~(n > sent[p])
      BY <1>a, <3>5 DEF Numbered
    <3>7. sent[p] > 1
      BY <1>a, <3>6
    <3>8. sent[p] > 0 /\ stage[<<p, 1>>] = "done" /\ result[<<p, 1>>] = "AUTH_OK"
      BY <3>7 DEF LoginAnswered
    <3> QED BY <3>4, <3>5, <3>8 DEF LoginRecorded
  <2> QED BY <2>2, <2>3
<1> QED BY <1>1, <1>2
=============================================================================
