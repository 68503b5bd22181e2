-------------------------- MODULE TaskQueue_proofs --------------------------
(***************************************************************************)
(* The task queue and the thread pool, for any number of workers and tasks.*)
(***************************************************************************)
EXTENDS TaskQueueProperties, FiniteSetTheorems, TLAPS

(* The inductive invariant, part by part. *)

\* q is the list from h to tl with n members, linked by nx.
Links(q, h, tl, n, nx) ==
    /\ h = IF q = <<>> THEN None ELSE q[1]
    /\ tl = IF q = <<>> THEN None ELSE q[Len(q)]
    /\ n = Len(q)
    /\ \A i \in DOMAIN q : nx[q[i]] = IF i < Len(q) THEN q[i + 1] ELSE None
    /\ \A i, j \in DOMAIN q : q[i] = q[j] => i = j

\* Head, tail, count and links are those of one list, until it is cleared.
List == pc # "done" =>
    Queue \in Seq(Task) /\ Links(Queue, tq_head, tq_tail, tq_count, next)

\* Every task that is allocated is in one place.
Places ==
    /\ \A v, w \in Worker : task[v] = task[w] /\ task[v] # None => v = w
    /\ \A w \in Worker : task[w] # None <=> wpc[w] = "work"
    /\ new # None <=> pc \in {"enqueue", "link"}
    /\ new # None => next[new] = None
    /\ pc # "done" =>
        /\ Held \cap ToSet(Queue) = {} /\ new \notin Held \cup ToSet(Queue)
        /\ heap = Held \cup ToSet(Queue) \cup ({new} \ {None})

\* Who holds the mutex; the queue is empty while a worker that has seen it
\* empty is about to wait.
Mutex ==
    /\ \A w \in Worker : tq_lock = w <=> wpc[w] \in {"check", "wait", "take"}
    /\ tq_lock = Main <=> pc \in {"link", "broadcast", "clear"}
    /\ \A w \in Worker : wpc[w] = "wait" => tq_head = None

\* The array of threads, and the threads that have been created, have left
\* and have been joined.
Threads ==
    /\ \A w \in joined : wpc[w] = "gone"
    /\ \A w \in Worker : wpc[w] = "gone" => ~running
    /\ threads = "none" =>
        \/ Created = {} /\ pc \in {"create", "teardown", "lock", "broadcast",
                                   "join", "fault"}
        \/ pc \in {"destroy", "clear", "done"}
    /\ threads = "freed" =>
        /\ Created \subseteq joined
        /\ pc \in {"teardown", "lock", "broadcast", "join", "fault"}
    /\ pc \in {"destroy", "clear", "done"} => joined = Worker
    /\ pc = "done" => tq_lock = None /\ heap = {}

IInv ==
    TypeOK /\ List /\ Places /\ Mutex /\ Threads /\ WakeupsSuffice
-----------------------------------------------------------------------------
(* Induction, sequences and lists *)

\* A set of numbers that is not empty has a least element: the induction the
\* recursive functions of the model need.
LEMMA Least ==
    ASSUME NEW S, S \subseteq Nat, S # {}
    PROVE  \E n \in S : \A m \in S : n <= m
  <1>1. \E n \in S : \A m \in S : ~ (<<m, n>> \in OpToRel(<, Nat))
    BY NatLessThanWellFounded, WFMin, Zenon
  <1>2. PICK n \in S : \A m \in S : ~ (<<m, n>> \in OpToRel(<, Nat))
    BY <1>1
  <1>3. ASSUME NEW m \in S
        PROVE  n <= m
    <2>1. SUFFICES ASSUME m < n PROVE FALSE
      BY SMT
    <2>2. <<m, n>> \in Nat \X Nat
      BY SMT
    <2>3. <<m, n>> \in OpToRel(<, Nat)
      BY <2>1, <2>2 DEF OpToRel
    <2>4. QED
      BY <2>3, <1>2
  <1>4. QED
    BY <1>3

\* A sequence without repetitions is as long as its set of elements is large,
\* and no longer than there are tasks.
LEMMA DistinctCount ==
    ASSUME NEW q \in Seq(Task), \A i, j \in DOMAIN q : q[i] = q[j] => i = j
    PROVE  /\ Cardinality(ToSet(q)) = Len(q)
           /\ Len(q) <= Cardinality(Task)
  <1>1. Len(q) \in Nat /\ DOMAIN q = 1..Len(q) /\ q \in [1..Len(q) -> Task]
    OBVIOUS
  <1>2. ToSet(q) = {q[i] : i \in 1..Len(q)} /\ ToSet(q) \subseteq Task
    BY <1>1 DEF ToSet
  <1>3. q \in Bijection(1..Len(q), ToSet(q))
    BY <1>1, <1>2 DEF Bijection, Injection, Surjection, IsInjective
  <1>4. Cardinality(ToSet(q)) = Len(q)
    BY <1>1, <1>3, FS_CountingElements DEF ExistsBijection
  <1>5. Cardinality(ToSet(q)) <= Cardinality(Task)
    <2>1. ToSet(q) \in SUBSET Task /\ IsFiniteSet(Task)
      BY <1>2, PoolAssumption
    <2>2. QED
      BY <2>1, FS_Subset
  <1>6. QED
    BY <1>4, <1>5

\* The equation that defines the nodes of a list.
Node(h, nx, f) ==
    f = [i \in 1..Cardinality(Task) |->
            IF i = 1 THEN h
            ELSE IF f[i - 1] = None THEN None ELSE nx[f[i - 1]]]

\* Two lists of nodes with the same head and links are the same.
LEMMA NodesUnique ==
    ASSUME NEW h, NEW nx, NEW f, NEW g, Node(h, nx, f), Node(h, nx, g)
    PROVE  f = g
  <1> DEFINE N == 1..Cardinality(Task)
             Bad == {i \in N : f[i] # g[i]}
  <1>1. Cardinality(Task) \in Nat
    BY FS_CardinalityType, PoolAssumption
  <1>2. /\ \A i \in N : f[i] = IF i = 1 THEN h
                             ELSE IF f[i - 1] = None THEN None ELSE nx[f[i - 1]]
        /\ \A i \in N : g[i] = IF i = 1 THEN h
                             ELSE IF g[i - 1] = None THEN None ELSE nx[g[i - 1]]
        /\ DOMAIN f = N /\ DOMAIN g = N
        /\ f = [i \in N |-> f[i]] /\ g = [i \in N |-> g[i]]
    BY Zenon DEF Node
  <1>3. Bad = {}
    <2>1. SUFFICES ASSUME Bad # {} PROVE FALSE
      BY Zenon
    <2>2. Bad \subseteq Nat
      BY <1>1
    <2>3. PICK n \in Bad : \A m \in Bad : n <= m
      BY <2>1, <2>2, Least, Zenon
    <2>4. n \in N /\ f[n] # g[n]
      OBVIOUS
    <2>5. CASE n = 1
      BY <1>2, <2>4, <2>5
    <2>6. CASE n # 1
      <3>1. n - 1 \in N /\ ~ (n <= n - 1)
        BY <1>1, <2>4, <2>6
      <3>2. f[n - 1] = g[n - 1]
        BY <2>3, <3>1
      <3>3. QED
        BY <1>2, <2>4, <2>6, <3>2
    <2>7. QED
      BY <2>5, <2>6
  <1>4. QED
    BY <1>2, <1>3

\* Head and links determine the list, if they are those of one.
LEMMA ListIs ==
    ASSUME NEW q \in Seq(Task), NEW h, NEW tl, NEW n, NEW nx,
           Links(q, h, tl, n, nx)
    PROVE  ListFrom(h, nx) = q
  <1> DEFINE N == 1..Cardinality(Task)
             f == [i \in N |-> IF i <= Len(q) THEN q[i] ELSE None]
             g == CHOOSE node : Node(h, nx, node)
  <1>1. /\ Cardinality(Task) \in Nat /\ Len(q) \in Nat
        /\ Len(q) <= Cardinality(Task)
        /\ \A i \in 1..Len(q) : q[i] # None
    BY FS_CardinalityType, PoolAssumption, DistinctCount DEF Links
  <1>2. Node(h, nx, f)
    <2>1. ASSUME NEW i \in N, i # 1
          PROVE  f[i] = IF f[i - 1] = None THEN None ELSE nx[f[i - 1]]
      <3>1. i - 1 \in N
        BY <1>1, <2>1
      <3>2. CASE i - 1 <= Len(q)
        <4>1. f[i - 1] = q[i - 1] /\ q[i - 1] # None
          BY <1>1, <3>1, <3>2
        <4>2. nx[q[i - 1]] = IF i - 1 < Len(q) THEN q[i] ELSE None
          BY <1>1, <3>1, <3>2 DEF Links
        <4>3. QED
          BY <1>1, <4>1, <4>2
      <3>3. CASE i - 1 > Len(q)
        BY <1>1, <3>1, <3>3
      <3>4. QED
        BY <1>1, <3>2, <3>3
    <2>2. 1 \in N => f[1] = h
      BY <1>1 DEF Links
    <2>3. QED
      BY <2>1, <2>2 DEF Node
  <1>3. g = f
    <2>1. Node(h, nx, g)
      BY <1>2, Zenon
    <2>2. QED
      BY <1>2, <2>1, NodesUnique, Zenon
  <1>4. ListFrom(h, nx) = [i \in {j \in N : g[j] # None} |-> g[i]]
    BY DEF ListFrom, Node
  <1>5. {j \in N : f[j] # None} = 1..Len(q)
    BY <1>1
  <1>6. ListFrom(h, nx) = [i \in 1..Len(q) |-> q[i]]
    BY <1>1, <1>3, <1>4, <1>5
  <1>7. QED
    BY <1>6

\* The equation that defines what Chain reaches in n steps.
Reached(h, nx, f) ==
    f = [n \in 0..Cardinality(Task) |->
            IF n = 0 THEN {h} \ {None}
            ELSE f[n - 1] \cup ({nx[u] : u \in f[n - 1]} \ {None})]

LEMMA ReachedUnique ==
    ASSUME NEW h, NEW nx, NEW f, NEW g, Reached(h, nx, f), Reached(h, nx, g)
    PROVE  f = g
  <1> DEFINE N == 0..Cardinality(Task)
             Bad == {n \in N : f[n] # g[n]}
  <1>1. Cardinality(Task) \in Nat
    BY FS_CardinalityType, PoolAssumption
  <1>2. /\ \A n \in N : f[n] = IF n = 0 THEN {h} \ {None}
              ELSE f[n - 1] \cup ({nx[u] : u \in f[n - 1]} \ {None})
        /\ \A n \in N : g[n] = IF n = 0 THEN {h} \ {None}
              ELSE g[n - 1] \cup ({nx[u] : u \in g[n - 1]} \ {None})
        /\ f = [n \in N |-> f[n]] /\ g = [n \in N |-> g[n]]
    BY Zenon DEF Reached
  <1>3. Bad = {}
    <2>1. SUFFICES ASSUME Bad # {} PROVE FALSE
      BY Zenon
    <2>2. Bad \subseteq Nat
      BY <1>1
    <2>3. PICK n \in Bad : \A m \in Bad : n <= m
      BY <2>1, <2>2, Least, Zenon
    <2>4. n \in N /\ f[n] # g[n]
      OBVIOUS
    <2>5. CASE n = 0
      BY <1>2, <2>4, <2>5
    <2>6. CASE n # 0
      <3>1. n - 1 \in N /\ ~ (n <= n - 1)
        BY <1>1, <2>4, <2>6
      <3>2. f[n - 1] = g[n - 1]
        BY <2>3, <3>1
      <3>3. QED
        BY <1>2, <2>4, <2>6, <3>2, ZenonT(60)
    <2>7. QED
      BY <2>5, <2>6
  <1>4. QED
    BY <1>2, <1>3

\* task_destroy reaches every task of the list, however long it is.
LEMMA ChainIsList ==
    ASSUME NEW q \in Seq(Task), NEW tl, NEW n,
           Links(q, tq_head, tl, n, next)
    PROVE  Chain(tq_head) = ToSet(q)
  <1> DEFINE N == Cardinality(Task)
             First(k) == {q[i] : i \in {j \in DOMAIN q : j <= k + 1}}
             f == [k \in 0..N |-> First(k)]
             g == CHOOSE step : Reached(tq_head, next, step)
  <1>1. /\ N \in Nat /\ Len(q) \in Nat /\ Len(q) <= N
        /\ DOMAIN q = 1..Len(q)
        /\ \A i \in DOMAIN q : q[i] \in Task /\ q[i] # None
    BY FS_CardinalityType, PoolAssumption, DistinctCount, SMTT(30) DEF Links
  <1>2. First(0) = {tq_head} \ {None}
    <2>1. CASE q = <<>>
      BY <2>1 DEF Links
    <2>2. CASE q # <<>>
      <3>1. {j \in DOMAIN q : j <= 0 + 1} = {1}
        BY <1>1, <2>2
      <3>2. tq_head = q[1] /\ q[1] # None
        BY <1>1, <2>2 DEF Links
      <3>3. QED
        BY <3>1, <3>2
    <2>3. QED
      BY <2>1, <2>2
  <1>3. ASSUME NEW k \in 0..N, k # 0
        PROVE  First(k) = First(k - 1) \cup ({next[u] : u \in First(k - 1)} \ {None})
    <2>1. ASSUME NEW i \in DOMAIN q, i <= k + 1
          PROVE  q[i] \in First(k - 1)
                    \cup ({next[u] : u \in First(k - 1)} \ {None})
      <3>1. CASE i <= k
        BY <1>1, <1>3, <3>1
      <3>2. CASE i > k
        <4>1. i - 1 \in DOMAIN q /\ i - 1 <= k - 1 + 1
          BY <1>1, <1>3, <2>1, <3>2
        <4>2. next[q[i - 1]] = q[i] /\ q[i] # None
          BY <1>1, <4>1 DEF Links
        <4>3. q[i - 1] \in First(k - 1)
          BY <4>1
        <4>4. QED
          BY <4>2, <4>3
      <3>3. QED
        BY <1>1, <1>3, <3>1, <3>2
    <2>2. ASSUME NEW i \in DOMAIN q, i <= k - 1 + 1, next[q[i]] # None
          PROVE  next[q[i]] \in First(k)
      <3>1. i + 1 \in DOMAIN q /\ i + 1 <= k + 1 /\ next[q[i]] = q[i + 1]
        BY <1>1, <1>3, <2>2 DEF Links
      <3>2. QED
        BY <3>1
    <2>3. First(k - 1) \subseteq First(k)
      BY <1>1, <1>3
    <2>4. QED
      BY <2>1, <2>2, <2>3
  <1>4. Reached(tq_head, next, f)
    <2>1. \A k \in 0..N : k # 0 => k - 1 \in 0..N
      BY <1>1
    <2>2. \A k \in 0..N : f[k] = IF k = 0 THEN {tq_head} \ {None}
                ELSE f[k - 1] \cup ({next[u] : u \in f[k - 1]} \ {None})
      <3> HIDE DEF First
      <3>1. QED
        BY <1>2, <1>3, <2>1
    <2>3. QED
      <3> HIDE DEF First
      <3>1. f = [k \in 0..N |-> f[k]]
        OBVIOUS
      <3> HIDE DEF f
      <3>2. QED
        BY <2>2, <3>1 DEF Reached
  <1>5. g = f
    <2>1. Reached(tq_head, next, g)
      BY <1>4, Zenon
    <2>2. QED
      BY <1>4, <2>1, ReachedUnique, Zenon
  <1>6. Chain(tq_head) = g[N]
    BY DEF Chain, Reached
  <1>7. First(N) = ToSet(q)
    BY <1>1 DEF ToSet
  <1>8. f[N] = First(N)
    <2> HIDE DEF First
    <2>1. QED
      BY <1>1
  <1>9. QED
    BY <1>5, <1>6, <1>7, <1>8, Zenon
-----------------------------------------------------------------------------
(* What a step makes of the list *)

\* A sequence and its indices.
LEMMA SeqFacts ==
    ASSUME NEW q \in Seq(Task)
    PROVE  /\ Len(q) \in Nat /\ DOMAIN q = 1..Len(q)
           /\ \A i \in 1..Len(q) : q[i] \in Task
           /\ q = <<>> <=> Len(q) = 0
           /\ ToSet(q) = {q[i] : i \in 1..Len(q)}
  BY DEF ToSet

LEMMA AppendFacts ==
    ASSUME NEW q \in Seq(Task), NEW t \in Task, NEW a, a = Append(q, t)
    PROVE  /\ a \in Seq(Task) /\ Len(a) = Len(q) + 1
           /\ \A i \in 1..Len(q) : a[i] = q[i]
           /\ a[Len(q) + 1] = t
  OBVIOUS

LEMMA TailFacts ==
    ASSUME NEW q \in Seq(Task), q # <<>>, NEW r, r = Tail(q)
    PROVE  /\ r \in Seq(Task) /\ Len(r) = Len(q) - 1
           /\ \A i \in 1..(Len(q) - 1) : r[i] = q[i + 1]
           /\ Head(q) = q[1]
  OBVIOUS

LEMMA AppendSet ==
    ASSUME NEW q \in Seq(Task), NEW t \in Task
    PROVE  ToSet(Append(q, t)) = ToSet(q) \cup {t}
  <1> DEFINE a == Append(q, t)
  <1>1. /\ a \in Seq(Task) /\ Len(a) = Len(q) + 1 /\ a[Len(q) + 1] = t
        /\ \A i \in 1..Len(q) : a[i] = q[i]
    BY AppendFacts
  <1> HIDE DEF a
  <1>2. Len(q) \in Nat /\ 1..(Len(q) + 1) = 1..Len(q) \cup {Len(q) + 1}
    BY SeqFacts
  <1>3. /\ ToSet(a) = {a[i] : i \in 1..(Len(q) + 1)}
        /\ ToSet(q) = {q[i] : i \in 1..Len(q)}
    BY <1>1, SeqFacts
  <1>4. QED
    BY <1>1, <1>2, <1>3 DEF a

\* The first task of a list without repetitions is not among the others.
LEMMA TailSet ==
    ASSUME NEW q \in Seq(Task), q # <<>>,
           \A i, j \in DOMAIN q : q[i] = q[j] => i = j
    PROVE  /\ ToSet(q) = {Head(q)} \cup ToSet(Tail(q))
           /\ Head(q) \notin ToSet(Tail(q)) /\ Head(q) \in Task
  <1> DEFINE r == Tail(q)
  <1>1. /\ r \in Seq(Task) /\ Len(r) = Len(q) - 1 /\ Head(q) = q[1]
        /\ \A i \in 1..(Len(q) - 1) : r[i] = q[i + 1]
    BY TailFacts
  <1> HIDE DEF r
  <1>2. /\ Len(q) \in Nat \ {0} /\ DOMAIN q = 1..Len(q) /\ q[1] \in Task
        /\ ToSet(r) = {r[i] : i \in 1..(Len(q) - 1)}
        /\ ToSet(q) = {q[i] : i \in 1..Len(q)}
    BY <1>1, SeqFacts
  <1>3. ToSet(r) = {q[i] : i \in 2..Len(q)}
    <2>1. ASSUME NEW i \in 1..(Len(q) - 1)
          PROVE  i + 1 \in 2..Len(q) /\ r[i] = q[i + 1]
      BY <1>1, <1>2
    <2>2. ASSUME NEW i \in 2..Len(q)
          PROVE  i - 1 \in 1..(Len(q) - 1) /\ r[i - 1] = q[i]
      BY <1>1, <1>2
    <2>3. QED
      BY <1>2, <2>1, <2>2
  <1>5. ToSet(q) = {Head(q)} \cup ToSet(r)
    <2>1. ASSUME NEW i \in 1..Len(q)
          PROVE  q[i] = q[1] \/ \E j \in 2..Len(q) : q[i] = q[j]
      BY <1>2
    <2>2. \A i \in 2..Len(q) : i \in 1..Len(q)
      BY <1>2
    <2>3. 1 \in 1..Len(q)
      BY <1>2
    <2>4. ToSet(q) \subseteq {q[1]} \cup ToSet(r)
      <3>1. SUFFICES ASSUME NEW i \in 1..Len(q)
                     PROVE  q[i] \in {q[1]} \cup ToSet(r)
        BY <1>2
      <3>2. QED
        BY <1>3, <2>1
    <2>5. {q[1]} \cup ToSet(r) \subseteq ToSet(q)
      BY <1>2, <1>3, <2>2, <2>3
    <2>6. QED
      BY <1>1, <2>4, <2>5
  <1>6. Head(q) \notin ToSet(r)
    <2>1. ASSUME NEW i \in 2..Len(q)
          PROVE  q[1] # q[i]
      BY <1>2
    <2>2. QED
      BY <1>1, <1>3, <2>1
  <1>7. QED
    BY <1>1, <1>2, <1>5, <1>6 DEF r

\* Linking t behind the tail appends it to the list.
LEMMA AppendLinks ==
    ASSUME NEW q \in Seq(Task), NEW h, NEW tl, NEW n, Links(q, h, tl, n, next),
           NEW t \in Task, t \notin ToSet(q), next[t] = None,
           next \in [Task -> Task \cup {None}], NEW nx,
           nx = IF tl = None THEN next ELSE [next EXCEPT ![tl] = t]
    PROVE  Links(Append(q, t), IF tl = None THEN t ELSE h, t, n + 1, nx)
  <1> DEFINE a == Append(q, t)
             m == Len(q)
  <1>1. /\ a \in Seq(Task) /\ Len(a) = m + 1
        /\ \A i \in 1..m : a[i] = q[i]
        /\ a[m + 1] = t
    BY AppendFacts
  <1> HIDE DEF a
  <1>2. /\ m \in Nat /\ DOMAIN q = 1..m /\ (q = <<>> <=> m = 0)
        /\ DOMAIN a = 1..(m + 1) /\ a # <<>>
        /\ \A i \in 1..m : q[i] \in Task /\ q[i] # t
    BY <1>1, SeqFacts
  <1>3. /\ n = m /\ (tl = None <=> m = 0)
        /\ m > 0 => h = q[1] /\ tl = q[m]
    BY <1>2, PoolAssumption DEF Links
  <1>4. \A i, j \in DOMAIN a : a[i] = a[j] => i = j
    BY <1>1, <1>2 DEF Links
  <1>5. ASSUME NEW i \in 1..(m + 1)
        PROVE  nx[a[i]] = IF i < m + 1 THEN a[i + 1] ELSE None
    <2>1. CASE i = m + 1
      <3>1. tl # t
        BY <1>2, <1>3, PoolAssumption
      <3>2. QED
        BY <1>1, <2>1, <3>1
    <2>2. CASE i = m
      BY <1>1, <1>2, <1>3, <1>5, <2>2
    <2>3. CASE i < m
      <3>1. q[i] # q[m] /\ next[q[i]] = q[i + 1]
        BY <1>2, <1>5, <2>3 DEF Links
      <3>2. nx[q[i]] = q[i + 1]
        BY <1>2, <1>3, <1>5, <2>3, <3>1
      <3>3. QED
        BY <1>1, <1>2, <1>5, <2>3, <3>2
    <2>4. i = m + 1 \/ i = m \/ i < m
      <3>1. m \in Nat /\ i \in 1..(m + 1)
        BY <1>2, <1>5
      <3> HIDE DEF m
      <3>2. QED
        BY <3>1
    <2>5. QED
      BY <2>1, <2>2, <2>3, <2>4, Zenon
  <1>6. (IF tl = None THEN t ELSE h) = a[1]
    BY <1>1, <1>2, <1>3
  <1>7. QED
    BY <1>1, <1>2, <1>3, <1>4, <1>5, <1>6 DEF Links, a

\* Taking the first task off the list leaves the others.
LEMMA TailLinks ==
    ASSUME NEW q \in Seq(Task), NEW h, NEW tl, NEW n, NEW nx,
           Links(q, h, tl, n, nx), h # None
    PROVE  /\ q # <<>> /\ h = Head(q) /\ h \in Task /\ n > 0
           /\ Links(Tail(q), IF n = 1 THEN None ELSE nx[h],
                    IF n = 1 THEN None ELSE tl, n - 1, nx)
  <1> DEFINE r == Tail(q)
             m == Len(q)
  <1>1. q # <<>> /\ h = q[1] /\ tl = q[m] /\ n = m
    BY DEF Links
  <1>2. /\ r \in Seq(Task) /\ Len(r) = m - 1 /\ Head(q) = q[1]
        /\ \A i \in 1..(m - 1) : r[i] = q[i + 1]
    BY <1>1, TailFacts
  <1> HIDE DEF r
  <1>3. /\ m \in Nat \ {0} /\ DOMAIN q = 1..m /\ q[1] \in Task
        /\ DOMAIN r = 1..(m - 1) /\ (r = <<>> <=> m = 1)
    BY <1>1, <1>2, SeqFacts
  <1>4. \A i \in 1..m : nx[q[i]] = IF i < m THEN q[i + 1] ELSE None
    BY <1>3 DEF Links
  <1>5. ASSUME NEW i \in 1..(m - 1)
        PROVE  nx[r[i]] = IF i < m - 1 THEN r[i + 1] ELSE None
    <2>1. i + 1 \in 1..m /\ r[i] = q[i + 1]
      BY <1>2, <1>3, <1>5
    <2>2. i < m - 1 => r[i + 1] = q[i + 1 + 1]
      BY <1>2, <1>3, <1>5
    <2>3. QED
      BY <1>3, <1>4, <1>5, <2>1, <2>2
  <1>6. ASSUME NEW i \in 1..(m - 1), NEW j \in 1..(m - 1), r[i] = r[j]
        PROVE  i = j
    <2>1. i + 1 \in DOMAIN q /\ j + 1 \in DOMAIN q /\ q[i + 1] = q[j + 1]
      BY <1>2, <1>3, <1>6
    <2>2. i + 1 = j + 1
      BY <2>1 DEF Links
    <2>3. QED
      BY <1>3, <2>2
  <1>7. m > 1 => r[1] = q[2] /\ r[m - 1] = q[m] /\ nx[q[1]] = q[2]
    BY <1>2, <1>3, <1>4
  <1>8. Links(r, IF n = 1 THEN None ELSE nx[h],
              IF n = 1 THEN None ELSE tl, n - 1, nx)
    <2>1. (IF n = 1 THEN None ELSE nx[h]) = IF r = <<>> THEN None ELSE r[1]
      BY <1>1, <1>3, <1>7
    <2>2. (IF n = 1 THEN None ELSE tl) = IF r = <<>> THEN None ELSE r[Len(r)]
      BY <1>1, <1>2, <1>3, <1>7
    <2>3. n - 1 = Len(r)
      BY <1>1, <1>2
    <2>4. \A i \in DOMAIN r : nx[r[i]] = IF i < Len(r) THEN r[i + 1] ELSE None
      BY <1>2, <1>3, <1>5
    <2>5. \A i, j \in DOMAIN r : r[i] = r[j] => i = j
      BY <1>3, <1>6
    <2>6. QED
      BY <2>1, <2>2, <2>3, <2>4, <2>5, Zenon DEF Links
  <1>9. QED
    BY <1>1, <1>2, <1>3, <1>8 DEF r

QueueThere == Queue \in Seq(Task) /\ Links(Queue, tq_head, tq_tail, tq_count, next)

LEMMA SameList ==
    ASSUME UNCHANGED <<tq_head, tq_tail, tq_count, next>>,
           pc' # "done" => pc # "done"
    PROVE  Queue' = Queue /\ (List => List')
  BY DEF Queue, List

\* A task outside the list gets a link of its own.
LEMMA NewTaskList ==
    ASSUME NEW t \in Task, IInv, NewTask(t)
    PROVE  Queue' = Queue /\ List'
  <1>1. QueueThere /\ t \notin ToSet(Queue) /\ next \in [Task -> Task \cup {None}]
    BY DEF IInv, List, Places, NewTask, TypeOK, QueueThere
  <1>2. \A i \in DOMAIN Queue : Queue[i] # t /\ Queue[i] \in Task
    BY <1>1, SeqFacts DEF QueueThere
  <1>3. \A i \in DOMAIN Queue : next'[Queue[i]] = next[Queue[i]]
    BY <1>1, <1>2 DEF NewTask
  <1>4. Links(Queue, tq_head', tq_tail', tq_count', next')
    BY <1>1, <1>3 DEF Links, NewTask, QueueThere
  <1>5. ListFrom(tq_head', next') = Queue
    BY <1>1, <1>4, ListIs DEF QueueThere
  <1>6. QED
    BY <1>1, <1>4, <1>5 DEF Queue, List, QueueThere

\* Link appends.
LEMMA LinkList ==
    ASSUME IInv, Link
    PROVE  /\ Queue' = Append(Queue, new) /\ List'
           /\ new \in Task /\ Queue \in Seq(Task)
  <1>1. /\ QueueThere /\ new \in Task /\ new \notin ToSet(Queue)
        /\ next[new] = None /\ next \in [Task -> Task \cup {None}]
    BY DEF IInv, List, Places, Link, TypeOK, QueueThere
  <1>2. /\ tq_head' = IF tq_tail = None THEN new ELSE tq_head
        /\ tq_tail' = new /\ tq_count' = tq_count + 1
        /\ next' = IF tq_tail = None THEN next
                   ELSE [next EXCEPT ![tq_tail] = new]
    BY DEF Link, Linked
  <1>3. Links(Append(Queue, new), tq_head', tq_tail', tq_count', next')
    BY <1>1, <1>2, AppendLinks DEF QueueThere
  <1>4. Append(Queue, new) \in Seq(Task)
    BY <1>1, AppendFacts DEF QueueThere
  <1>5. ListFrom(tq_head', next') = Append(Queue, new)
    BY <1>3, <1>4, ListIs
  <1>6. QED
    BY <1>1, <1>3, <1>4, <1>5 DEF Queue, List, QueueThere

\* A worker takes the first task of a list that is not empty.
LEMMA TakeList ==
    ASSUME NEW w \in Worker, IInv, Take(w), tq_head # None
    PROVE  /\ Queue \in Seq(Task) /\ Queue # <<>>
           /\ \A i, j \in DOMAIN Queue : Queue[i] = Queue[j] => i = j
           /\ tq_head = Head(Queue) /\ tq_head \in Task
           /\ tq_count > 0 /\ Queue' = Tail(Queue) /\ List'
  <1>1. QueueThere
    BY DEF IInv, Take, Threads, List, Mutex, QueueThere
  <1>2. /\ tq_count' = tq_count - 1 /\ next' = next
        /\ tq_head' = IF tq_count = 1 THEN None ELSE next[tq_head]
        /\ tq_tail' = IF tq_count = 1 THEN None ELSE tq_tail
    BY DEF Take, Unlinked
  <1>3. /\ Queue # <<>> /\ tq_head = Head(Queue) /\ tq_head \in Task
        /\ tq_count > 0
        /\ Links(Tail(Queue), tq_head', tq_tail', tq_count', next')
    BY <1>1, <1>2, TailLinks DEF QueueThere
  <1>4. Tail(Queue) \in Seq(Task)
    BY <1>1, <1>3, TailFacts DEF QueueThere
  <1>5. ListFrom(tq_head', next') = Tail(Queue)
    BY <1>3, <1>4, ListIs
  <1>6. QED
    BY <1>1, <1>3, <1>4, <1>5 DEF Queue, List, QueueThere, Links
-----------------------------------------------------------------------------
(* Init, and what every step keeps *)

\* Types; the count never falls below zero.
LEMMA TypeStep == IInv /\ [Next]_vars => TypeOK'
  <1> SUFFICES ASSUME IInv, [Next]_vars PROVE TypeOK'
    OBVIOUS
  <1> USE DEF TypeOK
  <1>1. ASSUME NEW w \in Worker, CreateThread(w) PROVE TypeOK'
    BY <1>1 DEF CreateThread, queueVars, mainVars, IInv
  <1>2. ASSUME NEW w \in Worker, Reap(w) PROVE TypeOK'
    BY <1>2 DEF Reap, JoinThread, queueVars, mainVars, IInv
  <1>3. ASSUME NEW w \in Worker, Join(w) PROVE TypeOK'
    BY <1>3 DEF Join, JoinThread, queueVars, mainVars, IInv
  <1>4. CASE ArrayFails
    BY <1>4 DEF ArrayFails, queueVars, mainVars, IInv
  <1>5. CASE CreateFails
    BY <1>5 DEF CreateFails, queueVars, mainVars, IInv
  <1>6. CASE WakeUp
    BY <1>6 DEF WakeUp, Broadcast, queueVars, mainVars, IInv
  <1>7. CASE ReapEnd
    BY <1>7 DEF ReapEnd, queueVars, mainVars, IInv
  <1>8. ASSUME NEW t \in Task, NewTask(t) PROVE TypeOK'
    BY <1>8 DEF NewTask, queueVars, mainVars, IInv
  <1>9. CASE MainLock("enqueue", "link")
    BY <1>9 DEF MainLock, queueVars, mainVars, IInv
  <1>10. CASE Link
    BY <1>10 DEF Link, Linked, CondSignal, queueVars, mainVars, IInv
  <1>11. CASE LoopEnd
    BY <1>11 DEF LoopEnd, queueVars, mainVars, IInv
  <1>12. CASE Teardown
    BY <1>12 DEF Teardown, queueVars, mainVars, IInv
  <1>13. CASE MainLock("lock", "broadcast")
    BY <1>13 DEF MainLock, queueVars, mainVars, IInv
  <1>14. CASE WakeAll
    BY <1>14 DEF WakeAll, Broadcast, queueVars, mainVars, IInv
  <1>15. CASE JoinNothing
    BY <1>15 DEF JoinNothing, queueVars, mainVars, IInv
  <1>16. CASE JoinEnd
    BY <1>16 DEF JoinEnd, queueVars, mainVars, IInv
  <1>17. CASE MainLock("destroy", "clear")
    BY <1>17 DEF MainLock, queueVars, mainVars, IInv
  <1>18. CASE Clear
    BY <1>18 DEF Clear, Cleared, queueVars, mainVars, IInv
  <1>19. CASE Shutdown
    BY <1>19 DEF Shutdown, queueVars, mainVars, IInv
  <1>20. ASSUME NEW w \in Worker, Routine(w) PROVE TypeOK'
    BY <1>20 DEF Routine, queueVars, mainVars, IInv
  <1>21. ASSUME NEW w \in Worker, Lock(w) PROVE TypeOK'
    BY <1>21 DEF Lock, queueVars, mainVars, IInv
  <1>22. ASSUME NEW w \in Worker, Check(w) PROVE TypeOK'
    BY <1>22 DEF Check, queueVars, mainVars, IInv
  <1>23. ASSUME NEW w \in Worker, CondWait(w) PROVE TypeOK'
    BY <1>23 DEF CondWait, queueVars, mainVars, IInv
  <1>24. ASSUME NEW w \in Worker, GiveUp(w) PROVE TypeOK'
    BY <1>24 DEF GiveUp, queueVars, mainVars, IInv
  <1>25. ASSUME NEW w \in Worker, Take(w) PROVE TypeOK'
    <2>1. CASE tq_head = None
      BY <1>25, <2>1 DEF Take, IInv, queueVars, mainVars
    <2>2. CASE tq_head # None
      <3>1. tq_head \in Task /\ tq_count > 0
        BY <1>25, <2>2, TakeList
      <3>2. QED
        BY <1>25, <2>2, <3>1 DEF Take, Unlinked, IInv, mainVars
    <2>3. QED
      BY <2>1, <2>2
  <1>26. ASSUME NEW w \in Worker, FreeTask(w) PROVE TypeOK'
    BY <1>26 DEF FreeTask, queueVars, mainVars, IInv
  <1>27. ASSUME NEW w \in Worker, Spurious(w) PROVE TypeOK'
    BY <1>27 DEF Spurious, queueVars, mainVars, IInv
  <1>28. CASE UNCHANGED vars
    BY <1>28 DEF vars, queueVars, mainVars, IInv
  <1>29. QED
    BY <1>1, <1>2, <1>3, <1>4, <1>5, <1>6, <1>7, <1>8, <1>9, <1>10, <1>11,
        <1>12, <1>13, <1>14, <1>15, <1>16, <1>17, <1>18, <1>19, <1>20,
        <1>21, <1>22, <1>23, <1>24, <1>25, <1>26, <1>27, <1>28 DEF Next,
        MainStep, WorkerStep

LEMMA MutexStep == IInv /\ [Next]_vars => Mutex'
  <1> SUFFICES ASSUME IInv, [Next]_vars PROVE Mutex'
    OBVIOUS
  <1> USE DEF Mutex, TypeOK
  <1>1. ASSUME NEW w \in Worker, CreateThread(w) PROVE Mutex'
    BY <1>1, PoolAssumption DEF CreateThread, queueVars, mainVars, IInv
  <1>2. ASSUME NEW w \in Worker, Reap(w) PROVE Mutex'
    BY <1>2, PoolAssumption DEF Reap, JoinThread, queueVars, mainVars, IInv
  <1>3. ASSUME NEW w \in Worker, Join(w) PROVE Mutex'
    BY <1>3, PoolAssumption DEF Join, JoinThread, queueVars, mainVars, IInv
  <1>4. CASE ArrayFails
    BY <1>4, PoolAssumption DEF ArrayFails, queueVars, mainVars, IInv
  <1>5. CASE CreateFails
    BY <1>5, PoolAssumption DEF CreateFails, queueVars, mainVars, IInv
  <1>6. CASE WakeUp
    BY <1>6, PoolAssumption DEF WakeUp, Broadcast, queueVars, mainVars, IInv
  <1>7. CASE ReapEnd
    BY <1>7, PoolAssumption DEF ReapEnd, queueVars, mainVars, IInv
  <1>8. ASSUME NEW t \in Task, NewTask(t) PROVE Mutex'
    BY <1>8, PoolAssumption DEF NewTask, queueVars, mainVars, IInv
  <1>9. CASE MainLock("enqueue", "link")
    BY <1>9, PoolAssumption DEF MainLock, queueVars, mainVars, IInv
  <1>10. CASE Link
    BY <1>10, PoolAssumption DEF Link, Linked, CondSignal, queueVars,
        mainVars, IInv
  <1>11. CASE LoopEnd
    BY <1>11, PoolAssumption DEF LoopEnd, queueVars, mainVars, IInv
  <1>12. CASE Teardown
    BY <1>12, PoolAssumption DEF Teardown, queueVars, mainVars, IInv
  <1>13. CASE MainLock("lock", "broadcast")
    BY <1>13, PoolAssumption DEF MainLock, queueVars, mainVars, IInv
  <1>14. CASE WakeAll
    BY <1>14, PoolAssumption DEF WakeAll, Broadcast, queueVars, mainVars,
        IInv
  <1>15. CASE JoinNothing
    BY <1>15, PoolAssumption DEF JoinNothing, queueVars, mainVars, IInv
  <1>16. CASE JoinEnd
    BY <1>16, PoolAssumption DEF JoinEnd, queueVars, mainVars, IInv
  <1>17. CASE MainLock("destroy", "clear")
    BY <1>17, PoolAssumption DEF MainLock, queueVars, mainVars, IInv
  <1>18. CASE Clear
    BY <1>18, PoolAssumption DEF Clear, Cleared, queueVars, mainVars, IInv
  <1>19. CASE Shutdown
    BY <1>19, PoolAssumption DEF Shutdown, queueVars, mainVars, IInv
  <1>20. ASSUME NEW w \in Worker, Routine(w) PROVE Mutex'
    BY <1>20, PoolAssumption DEF Routine, queueVars, mainVars, IInv
  <1>21. ASSUME NEW w \in Worker, Lock(w) PROVE Mutex'
    BY <1>21, PoolAssumption DEF Lock, queueVars, mainVars, IInv
  <1>22. ASSUME NEW w \in Worker, Check(w) PROVE Mutex'
    BY <1>22, PoolAssumption DEF Check, queueVars, mainVars, IInv
  <1>23. ASSUME NEW w \in Worker, CondWait(w) PROVE Mutex'
    BY <1>23, PoolAssumption DEF CondWait, queueVars, mainVars, IInv
  <1>24. ASSUME NEW w \in Worker, GiveUp(w) PROVE Mutex'
    BY <1>24, PoolAssumption DEF GiveUp, queueVars, mainVars, IInv
  <1>25. ASSUME NEW w \in Worker, Take(w) PROVE Mutex'
    BY <1>25, PoolAssumption DEF Take, Unlinked, queueVars, mainVars, IInv
  <1>26. ASSUME NEW w \in Worker, FreeTask(w) PROVE Mutex'
    BY <1>26, PoolAssumption DEF FreeTask, queueVars, mainVars, IInv
  <1>27. ASSUME NEW w \in Worker, Spurious(w) PROVE Mutex'
    BY <1>27, PoolAssumption DEF Spurious, queueVars, mainVars, IInv
  <1>28. CASE UNCHANGED vars
    BY <1>28 DEF vars, queueVars, mainVars, IInv
  <1>29. QED
    BY <1>1, <1>2, <1>3, <1>4, <1>5, <1>6, <1>7, <1>8, <1>9, <1>10, <1>11,
        <1>12, <1>13, <1>14, <1>15, <1>16, <1>17, <1>18, <1>19, <1>20,
        <1>21, <1>22, <1>23, <1>24, <1>25, <1>26, <1>27, <1>28 DEF Next,
        MainStep, WorkerStep

\* task_destroy frees all there is: the workers have left, and the rest of the
\* heap is the list.
LEMMA ClearEmpties ==
    ASSUME IInv, Clear
    PROVE  heap' = {} /\ Queue' = <<>>
  <1>1. QueueThere /\ joined = Worker /\ new = None
    BY DEF IInv, List, Clear, Threads, Places, QueueThere
  <1>2. Held = {}
    BY <1>1 DEF IInv, Threads, Places, Held
  <1>3. heap = ToSet(Queue)
    BY <1>1, <1>2 DEF IInv, Places, Clear
  <1>4. Chain(tq_head) = ToSet(Queue)
    BY <1>1, ChainIsList DEF QueueThere
  <1>5. Links(<<>>, None, None, 0, next') /\ <<>> \in Seq(Task)
    BY DEF Links
  <1>6. ListFrom(None, next') = <<>>
    BY <1>5, ListIs
  <1>7. QED
    BY <1>3, <1>4, <1>6 DEF Clear, Cleared, Queue

LEMMA ThreadsStep == IInv /\ [Next]_vars => Threads'
  <1> SUFFICES ASSUME IInv, [Next]_vars PROVE Threads'
    OBVIOUS
  <1> USE DEF Threads, TypeOK, Created
  <1>1. ASSUME NEW w \in Worker, CreateThread(w) PROVE Threads'
    BY <1>1, PoolAssumption DEF CreateThread, queueVars, mainVars, IInv
  <1>2. ASSUME NEW w \in Worker, Reap(w) PROVE Threads'
    BY <1>2, PoolAssumption DEF Reap, JoinThread, queueVars, mainVars, IInv
  <1>3. ASSUME NEW w \in Worker, Join(w) PROVE Threads'
    BY <1>3, PoolAssumption DEF Join, JoinThread, queueVars, mainVars, IInv
  <1>4. CASE ArrayFails
    BY <1>4, PoolAssumption DEF ArrayFails, queueVars, mainVars, IInv
  <1>5. CASE CreateFails
    BY <1>5, PoolAssumption DEF CreateFails, queueVars, mainVars, IInv
  <1>6. CASE WakeUp
    BY <1>6, PoolAssumption DEF WakeUp, Broadcast, queueVars, mainVars, IInv
  <1>7. CASE ReapEnd
    BY <1>7, PoolAssumption DEF ReapEnd, queueVars, mainVars, IInv
  <1>8. ASSUME NEW t \in Task, NewTask(t) PROVE Threads'
    BY <1>8, PoolAssumption DEF NewTask, queueVars, mainVars, IInv
  <1>9. CASE MainLock("enqueue", "link")
    BY <1>9, PoolAssumption DEF MainLock, queueVars, mainVars, IInv
  <1>10. CASE Link
    BY <1>10, PoolAssumption DEF Link, Linked, CondSignal, Asleep, IInv
  <1>11. CASE LoopEnd
    BY <1>11, PoolAssumption DEF LoopEnd, queueVars, mainVars, IInv
  <1>12. CASE Teardown
    BY <1>12, PoolAssumption DEF Teardown, queueVars, mainVars, IInv
  <1>13. CASE MainLock("lock", "broadcast")
    BY <1>13, PoolAssumption DEF MainLock, queueVars, mainVars, IInv
  <1>14. CASE WakeAll
    BY <1>14, PoolAssumption DEF WakeAll, Broadcast, queueVars, mainVars,
        IInv
  <1>15. CASE JoinNothing
    BY <1>15, PoolAssumption DEF JoinNothing, queueVars, mainVars, IInv
  <1>16. CASE JoinEnd
    BY <1>16, PoolAssumption DEF JoinEnd, queueVars, mainVars, IInv
  <1>17. CASE MainLock("destroy", "clear")
    BY <1>17, PoolAssumption DEF MainLock, queueVars, mainVars, IInv
  <1>18. CASE Clear
    BY <1>18, ClearEmpties DEF Clear, IInv
  <1>19. CASE Shutdown
    BY <1>19, PoolAssumption DEF Shutdown, queueVars, mainVars, IInv
  <1>20. ASSUME NEW w \in Worker, Routine(w) PROVE Threads'
    BY <1>20, PoolAssumption DEF Routine, queueVars, mainVars, IInv
  <1>21. ASSUME NEW w \in Worker, Lock(w) PROVE Threads'
    BY <1>21, PoolAssumption DEF Lock, queueVars, mainVars, IInv
  <1>22. ASSUME NEW w \in Worker, Check(w) PROVE Threads'
    BY <1>22, PoolAssumption DEF Check, queueVars, mainVars, IInv
  <1>23. ASSUME NEW w \in Worker, CondWait(w) PROVE Threads'
    BY <1>23, PoolAssumption DEF CondWait, queueVars, mainVars, IInv
  <1>24. ASSUME NEW w \in Worker, GiveUp(w) PROVE Threads'
    BY <1>24, PoolAssumption DEF GiveUp, queueVars, mainVars, IInv
  <1>25. ASSUME NEW w \in Worker, Take(w) PROVE Threads'
    BY <1>25, PoolAssumption DEF Take, Unlinked, queueVars, mainVars, IInv
  <1>26. ASSUME NEW w \in Worker, FreeTask(w) PROVE Threads'
    BY <1>26, PoolAssumption DEF FreeTask, queueVars, mainVars, IInv
  <1>27. ASSUME NEW w \in Worker, Spurious(w) PROVE Threads'
    BY <1>27, PoolAssumption DEF Spurious, queueVars, mainVars, IInv
  <1>28. CASE UNCHANGED vars
    BY <1>28 DEF vars, queueVars, mainVars, IInv
  <1>29. QED
    BY <1>1, <1>2, <1>3, <1>4, <1>5, <1>6, <1>7, <1>8, <1>9, <1>10, <1>11,
        <1>12, <1>13, <1>14, <1>15, <1>16, <1>17, <1>18, <1>19, <1>20,
        <1>21, <1>22, <1>23, <1>24, <1>25, <1>26, <1>27, <1>28 DEF Next,
        MainStep, WorkerStep

\* The list is empty when its head is NULL, and only then.
LEMMA EmptyList ==
    ASSUME IInv, pc # "done"
    PROVE  /\ tq_head = None <=> Queue = <<>>
           /\ tq_head = None => tq_count = 0
  <1>1. QueueThere
    BY DEF IInv, List, QueueThere
  <1>2. Queue # <<>> => Queue[1] \in Task
    BY <1>1, SeqFacts DEF QueueThere
  <1>3. QED
    BY <1>1, <1>2, PoolAssumption DEF Links, QueueThere

LEMMA ReadyFinite == IsFiniteSet(Ready) /\ Cardinality(Ready) \in Nat
  <1>1. Ready \in SUBSET Worker /\ IsFiniteSet(Worker)
    BY PoolAssumption DEF Ready
  <1>2. IsFiniteSet(Ready)
    BY <1>1, FS_Subset
  <1>3. QED
    BY <1>2, FS_CardinalityType

LEMMA ReadyFiniteNext == IsFiniteSet(Ready') /\ Cardinality(Ready') \in Nat
  <1>1. Ready' \in SUBSET Worker /\ IsFiniteSet(Worker)
    BY PoolAssumption DEF Ready
  <1>2. IsFiniteSet(Ready')
    BY <1>1, FS_Subset
  <1>3. QED
    BY <1>2, FS_CardinalityType

\* Steps that put nothing into the queue and nobody to sleep, and keep
\* everybody on the way to the queue there.
LEMMA ReadyStay ==
    ASSUME IInv, tq_count' = tq_count, running' => running,
           Asleep' # {} => Asleep # {}, Ready \subseteq Ready'
    PROVE  WakeupsSuffice'
  <1>1. Ready \in SUBSET (Ready')
    OBVIOUS
  <1>2. Cardinality(Ready) <= Cardinality(Ready')
    BY <1>1, ReadyFiniteNext, FS_Subset
  <1>3. tq_count \in Nat
    BY DEF IInv, TypeOK
  <1>4. QED
    BY <1>2, <1>3, ReadyFinite, ReadyFiniteNext DEF IInv, WakeupsSuffice

\* A step that leaves the queue empty needs nobody.
LEMMA EmptyNeedsNone ==
    ASSUME tq_count' = 0
    PROVE  WakeupsSuffice'
  BY ReadyFiniteNext DEF WakeupsSuffice

\* The task that is linked wakes one more worker, if one sleeps.
LEMMA LinkWakes ==
    ASSUME IInv, Link
    PROVE  WakeupsSuffice'
  <1>1. tq_count' = tq_count + 1 /\ tq_count \in Nat /\ running' = running
    BY DEF Link, Linked, IInv, TypeOK
  <1>2. CASE Asleep = {}
    <2>1. Asleep' = {}
      BY <1>2 DEF Link, CondSignal, Asleep
    <2>2. QED
      BY <2>1 DEF WakeupsSuffice
  <1>3. CASE Asleep # {}
    <2>1. PICK w \in Asleep : wpc' = [wpc EXCEPT ![w] = "woken"]
      BY <1>3 DEF Link, CondSignal
    <2>2. w \in Worker /\ wpc[w] = "asleep" /\ DOMAIN wpc = Worker
      BY <2>1 DEF Asleep, IInv, TypeOK
    <2>3. Ready' = Ready \cup {w} /\ w \notin Ready
      BY <2>1, <2>2 DEF Ready
    <2>4. Cardinality(Ready') = Cardinality(Ready) + 1
      BY <2>3, ReadyFinite, FS_AddElement
    <2>5. QED
      BY <1>1, <1>3, <2>4, ReadyFinite DEF IInv, WakeupsSuffice
  <1>4. QED
    BY <1>2, <1>3

\* A worker that takes a task leaves the queue with one task less.
LEMMA TakeWakes ==
    ASSUME IInv, NEW w \in Worker, Take(w)
    PROVE  WakeupsSuffice'
  <1>1. /\ DOMAIN wpc = Worker /\ tq_count \in Nat /\ running'
        /\ wpc[w] = "take" /\ Asleep' = Asleep
    <2>1. DOMAIN wpc = Worker
      BY DEF IInv, TypeOK
    <2>2. QED
      BY <2>1 DEF Take, IInv, TypeOK, Asleep
  <1>2. CASE tq_head = None
    <2>1. tq_count' = tq_count /\ Ready \subseteq Ready' /\ running' = running
      BY <1>1, <1>2 DEF Take, queueVars, Ready
    <2>2. QED
      BY <1>1, <2>1, ReadyStay
  <1>3. CASE tq_head # None
    <2>1. tq_count' = tq_count - 1
      BY <1>3 DEF Take, Unlinked
    <2>2. Ready' = Ready \ {w} /\ w \in Ready
      BY <1>1, <1>3 DEF Take, Ready
    <2>3. Cardinality(Ready') = Cardinality(Ready) - 1
      BY <2>2, ReadyFinite, FS_RemoveElement
    <2>4. running
      BY DEF Take
    <2>5. QED
      BY <1>1, <2>1, <2>3, <2>4, ReadyFinite DEF IInv, WakeupsSuffice
  <1>4. QED
    BY <1>2, <1>3

LEMMA WakeStep == IInv /\ [Next]_vars => WakeupsSuffice'
  <1> SUFFICES ASSUME IInv, [Next]_vars PROVE WakeupsSuffice'
    OBVIOUS
  <1>1. ASSUME NEW w \in Worker, CreateThread(w) PROVE WakeupsSuffice'
    BY <1>1, ReadyStay DEF CreateThread, Ready, Asleep, queueVars, IInv,
        TypeOK
  <1>2. ASSUME NEW w \in Worker, Reap(w) PROVE WakeupsSuffice'
    BY <1>2, ReadyStay DEF Reap, JoinThread, Ready, Asleep, queueVars, IInv,
        TypeOK
  <1>3. ASSUME NEW w \in Worker, Join(w) PROVE WakeupsSuffice'
    BY <1>3, ReadyStay DEF Join, JoinThread, Ready, Asleep, queueVars, IInv,
        TypeOK
  <1>4. CASE ArrayFails
    BY <1>4, ReadyStay DEF ArrayFails, Ready, Asleep, queueVars, IInv,
        TypeOK
  <1>5. CASE CreateFails
    BY <1>5, ReadyStay DEF CreateFails, Ready, Asleep, queueVars, IInv,
        TypeOK
  <1>6. CASE WakeUp
    BY <1>6, ReadyStay DEF WakeUp, Broadcast, Ready, Asleep, queueVars,
        IInv, TypeOK
  <1>7. CASE ReapEnd
    BY <1>7, ReadyStay DEF ReapEnd, Ready, Asleep, queueVars, IInv, TypeOK
  <1>8. ASSUME NEW t \in Task, NewTask(t) PROVE WakeupsSuffice'
    BY <1>8, ReadyStay DEF NewTask, Ready, Asleep, queueVars, IInv, TypeOK
  <1>9. CASE MainLock("enqueue", "link")
    BY <1>9, ReadyStay DEF MainLock, Ready, Asleep, queueVars, IInv, TypeOK
  <1>10. CASE Link
    BY <1>10, LinkWakes
  <1>11. CASE LoopEnd
    BY <1>11, ReadyStay DEF LoopEnd, Ready, Asleep, queueVars, IInv, TypeOK
  <1>12. CASE Teardown
    BY <1>12, ReadyStay DEF Teardown, Ready, Asleep, queueVars, IInv, TypeOK
  <1>13. CASE MainLock("lock", "broadcast")
    BY <1>13, ReadyStay DEF MainLock, Ready, Asleep, queueVars, IInv, TypeOK
  <1>14. CASE WakeAll
    BY <1>14, ReadyStay DEF WakeAll, Broadcast, Ready, Asleep, queueVars,
        IInv, TypeOK
  <1>15. CASE JoinNothing
    BY <1>15, ReadyStay DEF JoinNothing, Ready, Asleep, queueVars, IInv,
        TypeOK
  <1>16. CASE JoinEnd
    BY <1>16, ReadyStay DEF JoinEnd, Ready, Asleep, queueVars, IInv, TypeOK
  <1>17. CASE MainLock("destroy", "clear")
    BY <1>17, ReadyStay DEF MainLock, Ready, Asleep, queueVars, IInv, TypeOK
  <1>18. CASE Clear
    BY <1>18, ReadyStay DEF Clear, Cleared, Ready, Asleep, queueVars, IInv,
        TypeOK
  <1>19. CASE Shutdown
    BY <1>19, ReadyStay DEF Shutdown, Ready, Asleep, queueVars, IInv, TypeOK
  <1>20. ASSUME NEW w \in Worker, Routine(w) PROVE WakeupsSuffice'
    BY <1>20, ReadyStay
    DEF Routine, queueVars, Ready, Asleep, IInv, TypeOK, Threads, WakeupsSuffice
  <1>21. ASSUME NEW w \in Worker, Lock(w) PROVE WakeupsSuffice'
    BY <1>21, ReadyStay DEF Lock, Ready, Asleep, queueVars, IInv, TypeOK
  <1>22. ASSUME NEW w \in Worker, Check(w) PROVE WakeupsSuffice'
    <2>1. CASE tq_head = None
      <3>1. tq_count' = 0
        BY <1>22, <2>1, EmptyList DEF Check, IInv, Mutex, Threads, queueVars
      <3>2. QED
        BY <3>1, EmptyNeedsNone
    <2>2. CASE tq_head # None
      <3>1. Ready \subseteq Ready' /\ Asleep' = Asleep
        BY <1>22, <2>2 DEF Check, Ready, Asleep, IInv, TypeOK
      <3>2. QED
        BY <1>22, <3>1, ReadyStay DEF Check, queueVars
    <2>3. QED
      BY <2>1, <2>2
  <1>23. ASSUME NEW w \in Worker, CondWait(w) PROVE WakeupsSuffice'
    <2>1. tq_count' = 0
      BY <1>23, EmptyList DEF CondWait, IInv, Mutex, Threads, queueVars
    <2>2. QED
      BY <2>1, EmptyNeedsNone
  <1>24. ASSUME NEW w \in Worker, GiveUp(w) PROVE WakeupsSuffice'
    BY <1>24, ReadyStay DEF GiveUp, Ready, Asleep, queueVars, IInv, TypeOK
  <1>25. ASSUME NEW w \in Worker, Take(w) PROVE WakeupsSuffice'
    BY <1>25, TakeWakes
  <1>26. ASSUME NEW w \in Worker, FreeTask(w) PROVE WakeupsSuffice'
    BY <1>26, ReadyStay DEF FreeTask, Ready, Asleep, queueVars, IInv, TypeOK
  <1>27. ASSUME NEW w \in Worker, Spurious(w) PROVE WakeupsSuffice'
    BY <1>27, ReadyStay DEF Spurious, Ready, Asleep, queueVars, IInv, TypeOK
  <1>28. CASE UNCHANGED vars
    BY <1>28, ReadyStay DEF vars, Ready, Asleep
  <1>29. QED
    BY <1>1, <1>2, <1>3, <1>4, <1>5, <1>6, <1>7, <1>8, <1>9, <1>10, <1>11,
        <1>12, <1>13, <1>14, <1>15, <1>16, <1>17, <1>18, <1>19, <1>20,
        <1>21, <1>22, <1>23, <1>24, <1>25, <1>26, <1>27, <1>28 DEF Next,
        MainStep, WorkerStep

LEMMA ListStep == IInv /\ [Next]_vars => List'
  <1> SUFFICES ASSUME IInv, [Next]_vars PROVE List'
    OBVIOUS
  <1>1. ASSUME NEW w \in Worker, CreateThread(w) PROVE List'
    BY <1>1, SameList DEF CreateThread, queueVars, mainVars, IInv
  <1>2. ASSUME NEW w \in Worker, Reap(w) PROVE List'
    BY <1>2, SameList DEF Reap, JoinThread, queueVars, mainVars, IInv
  <1>3. ASSUME NEW w \in Worker, Join(w) PROVE List'
    BY <1>3, SameList DEF Join, JoinThread, queueVars, mainVars, IInv
  <1>4. CASE ArrayFails
    BY <1>4, SameList DEF ArrayFails, queueVars, mainVars, IInv
  <1>5. CASE CreateFails
    BY <1>5, SameList DEF CreateFails, queueVars, mainVars, IInv
  <1>6. CASE WakeUp
    BY <1>6, SameList DEF WakeUp, Broadcast, queueVars, mainVars, IInv
  <1>7. CASE ReapEnd
    BY <1>7, SameList DEF ReapEnd, queueVars, mainVars, IInv
  <1>8. ASSUME NEW t \in Task, NewTask(t) PROVE List'
    BY <1>8, NewTaskList
  <1>9. CASE MainLock("enqueue", "link")
    BY <1>9, SameList DEF MainLock, queueVars, mainVars, IInv
  <1>10. CASE Link
    BY <1>10, LinkList
  <1>11. CASE LoopEnd
    BY <1>11, SameList DEF LoopEnd, queueVars, mainVars, IInv
  <1>12. CASE Teardown
    BY <1>12, SameList DEF Teardown, queueVars, mainVars, IInv
  <1>13. CASE MainLock("lock", "broadcast")
    BY <1>13, SameList DEF MainLock, queueVars, mainVars, IInv
  <1>14. CASE WakeAll
    BY <1>14, SameList DEF WakeAll, Broadcast, queueVars, mainVars, IInv
  <1>15. CASE JoinNothing
    BY <1>15, SameList DEF JoinNothing, queueVars, mainVars, IInv
  <1>16. CASE JoinEnd
    BY <1>16, SameList DEF JoinEnd, queueVars, mainVars, IInv
  <1>17. CASE MainLock("destroy", "clear")
    BY <1>17, SameList DEF MainLock, queueVars, mainVars, IInv
  <1>18. CASE Clear
    BY <1>18 DEF Clear, List
  <1>19. CASE Shutdown
    BY <1>19, SameList DEF Shutdown, queueVars, mainVars, IInv
  <1>20. ASSUME NEW w \in Worker, Routine(w) PROVE List'
    BY <1>20, SameList DEF Routine, queueVars, mainVars, IInv
  <1>21. ASSUME NEW w \in Worker, Lock(w) PROVE List'
    BY <1>21, SameList DEF Lock, queueVars, mainVars, IInv
  <1>22. ASSUME NEW w \in Worker, Check(w) PROVE List'
    BY <1>22, SameList DEF Check, queueVars, mainVars, IInv
  <1>23. ASSUME NEW w \in Worker, CondWait(w) PROVE List'
    BY <1>23, SameList DEF CondWait, queueVars, mainVars, IInv
  <1>24. ASSUME NEW w \in Worker, GiveUp(w) PROVE List'
    BY <1>24, SameList DEF GiveUp, queueVars, mainVars, IInv
  <1>25. ASSUME NEW w \in Worker, Take(w) PROVE List'
    <2>1. CASE tq_head = None
      BY <1>25, <2>1, SameList DEF Take, queueVars, mainVars, IInv
    <2>2. CASE tq_head # None
      BY <1>25, <2>2, TakeList
    <2>3. QED
      BY <2>1, <2>2
  <1>26. ASSUME NEW w \in Worker, FreeTask(w) PROVE List'
    BY <1>26, SameList DEF FreeTask, queueVars, mainVars, IInv
  <1>27. ASSUME NEW w \in Worker, Spurious(w) PROVE List'
    BY <1>27, SameList DEF Spurious, queueVars, mainVars, IInv
  <1>28. CASE UNCHANGED vars
    BY <1>28, SameList DEF vars, IInv
  <1>29. QED
    BY <1>1, <1>2, <1>3, <1>4, <1>5, <1>6, <1>7, <1>8, <1>9, <1>10, <1>11,
        <1>12, <1>13, <1>14, <1>15, <1>16, <1>17, <1>18, <1>19, <1>20,
        <1>21, <1>22, <1>23, <1>24, <1>25, <1>26, <1>27, <1>28 DEF Next,
        MainStep, WorkerStep

\* Steps that move no task.
LEMMA SamePlaces ==
    ASSUME IInv, UNCHANGED <<task, heap, new, tq_head, tq_tail, tq_count, next>>,
           \A w \in Worker : wpc'[w] = "work" <=> wpc[w] = "work",
           pc' \in {"enqueue", "link"} <=> pc \in {"enqueue", "link"},
           pc' # "done" => pc # "done"
    PROVE  Places'
  <1>1. Queue' = Queue /\ Held' = Held
    BY SameList DEF Held
  <1>2. Places
    BY DEF IInv
  <1>3. QED
    BY <1>1, <1>2 DEF Places

\* A task goes from the head of the list to the worker that takes it.
LEMMA TakePlaces ==
    ASSUME IInv, NEW w \in Worker, Take(w), tq_head # None
    PROVE  Places'
  <1> DEFINE t == tq_head
  <1>1. /\ ToSet(Queue) = {t} \cup ToSet(Queue') /\ t \notin ToSet(Queue')
        /\ t \in Task
    BY TakeList, TailSet, ZenonT(60)
  <1>2. /\ task' = [task EXCEPT ![w] = t] /\ heap' = heap /\ new' = new
        /\ wpc' = [wpc EXCEPT ![w] = "work"] /\ pc' = pc /\ next' = next
        /\ wpc[w] = "take" /\ DOMAIN task = Worker /\ DOMAIN wpc = Worker
    BY DEF Take, Unlinked, mainVars, IInv, TypeOK
  <1>3. Places /\ task[w] = None /\ t # None /\ pc # "done"
    BY <1>2 DEF IInv, Places, Mutex, Threads
  <1>4. Held' = Held \cup {t}
    <2>1. \A v \in Worker : task'[v] = IF v = w THEN t ELSE task[v]
      BY <1>2
    <2>2. QED
      BY <1>3, <2>1 DEF Held
  <1>5. t \notin Held
    BY <1>1, <1>3 DEF Places
  <1>6. \A v \in Worker : v # w => task[v] # t
    BY <1>3, <1>5 DEF Held
  <1>7. /\ \A v \in Worker : task'[v] = IF v = w THEN t ELSE task[v]
        /\ \A v \in Worker : wpc'[v] = IF v = w THEN "work" ELSE wpc[v]
    BY <1>2
  <1>8. /\ \A u, v \in Worker : task'[u] = task'[v] /\ task'[u] # None => u = v
        /\ \A v \in Worker : task'[v] # None <=> wpc'[v] = "work"
    BY <1>3, <1>6, <1>7 DEF Places
  <1>9. /\ Held' \cap ToSet(Queue') = {} /\ new' \notin Held' \cup ToSet(Queue')
        /\ heap' = Held' \cup ToSet(Queue') \cup ({new'} \ {None})
    BY <1>1, <1>2, <1>3, <1>4, <1>5 DEF Places
  <1>10. QED
    BY <1>2, <1>3, <1>8, <1>9 DEF Places

\* A task that has been worked on is freed.
LEMMA FreePlaces ==
    ASSUME IInv, NEW w \in Worker, FreeTask(w)
    PROVE  Places'
  <1> DEFINE t == task[w]
  <1>1. /\ task' = [task EXCEPT ![w] = None] /\ heap' = heap \ {t}
        /\ wpc' = [wpc EXCEPT ![w] = "routine"] /\ wpc[w] = "work"
        /\ pc' = pc /\ new' = new /\ next' = next
        /\ DOMAIN task = Worker /\ DOMAIN wpc = Worker /\ Queue' = Queue
    BY SameList DEF FreeTask, queueVars, mainVars, IInv, TypeOK
  <1>2. Places /\ t # None /\ t \in Held /\ pc # "done"
    BY <1>1 DEF IInv, Places, Held, Threads
  <1>3. \A v \in Worker : task'[v] = IF v = w THEN None ELSE task[v]
    BY <1>1
  <1>4. \A v \in Worker : v # w => task[v] # t
    BY <1>2 DEF Places
  <1>5. Held' = Held \ {t}
    BY <1>3, <1>4 DEF Held
  <1>6. \A v \in Worker : wpc'[v] = IF v = w THEN "routine" ELSE wpc[v]
    BY <1>1
  <1>7. /\ \A u, v \in Worker : task'[u] = task'[v] /\ task'[u] # None => u = v
        /\ \A v \in Worker : task'[v] # None <=> wpc'[v] = "work"
    BY <1>2, <1>3, <1>6 DEF Places
  <1>8. /\ Held' \cap ToSet(Queue') = {} /\ new' \notin Held' \cup ToSet(Queue')
        /\ heap' = Held' \cup ToSet(Queue') \cup ({new'} \ {None})
    BY <1>1, <1>2, <1>5 DEF Places
  <1>9. QED
    BY <1>1, <1>2, <1>7, <1>8 DEF Places

LEMMA PlacesStep == IInv /\ [Next]_vars => Places'
  <1> SUFFICES ASSUME IInv, [Next]_vars PROVE Places'
    OBVIOUS
  <1>1. ASSUME NEW w \in Worker, CreateThread(w) PROVE Places'
    BY <1>1, SamePlaces DEF CreateThread, queueVars, mainVars, IInv, TypeOK
  <1>2. ASSUME NEW w \in Worker, Reap(w) PROVE Places'
    BY <1>2, SamePlaces DEF Reap, JoinThread, queueVars, mainVars, IInv,
        TypeOK
  <1>3. ASSUME NEW w \in Worker, Join(w) PROVE Places'
    BY <1>3, SamePlaces DEF Join, JoinThread, queueVars, mainVars, IInv,
        TypeOK
  <1>4. CASE ArrayFails
    BY <1>4, SamePlaces DEF ArrayFails, queueVars, mainVars, IInv, TypeOK
  <1>5. CASE CreateFails
    BY <1>5, SamePlaces DEF CreateFails, queueVars, mainVars, IInv, TypeOK
  <1>6. CASE WakeUp
    BY <1>6, SamePlaces DEF WakeUp, Broadcast, queueVars, mainVars, IInv,
        TypeOK
  <1>7. CASE ReapEnd
    BY <1>7, SamePlaces DEF ReapEnd, queueVars, mainVars, IInv, TypeOK
  <1>8. ASSUME NEW t \in Task, NewTask(t) PROVE Places'
    <2>1. /\ new' = t /\ heap' = heap \cup {t} /\ t \notin heap /\ pc = "loop"
          /\ task' = task /\ wpc' = wpc /\ pc' = "enqueue"
          /\ next' = [next EXCEPT ![t] = None] /\ t # None /\ t \in DOMAIN next
      BY <1>8, PoolAssumption DEF NewTask, IInv, TypeOK
    <2>2. Queue' = Queue /\ Held' = Held
      BY <1>8, <2>1, NewTaskList DEF Held
    <2>3. Places /\ new = None
      BY <2>1 DEF IInv, Places
    <2>4. t \notin Held \cup ToSet(Queue)
      BY <2>1, <2>3 DEF Places
    <2>5. QED
      BY <2>1, <2>2, <2>3, <2>4 DEF Places
  <1>9. CASE MainLock("enqueue", "link")
    BY <1>9, SamePlaces DEF MainLock, queueVars, mainVars, IInv, TypeOK
  <1>10. CASE Link
    <2>1. ToSet(Queue') = ToSet(Queue) \cup {new} /\ new \in Task
      BY <1>10, LinkList, AppendSet
    <2>2. /\ Held' = Held /\ task' = task /\ heap' = heap /\ new' = None
          /\ pc = "link" /\ pc' = "loop" /\ new # None
          /\ \A w \in Worker : wpc'[w] = "work" <=> wpc[w] = "work"
      BY <1>10, <2>1, PoolAssumption
      DEF Link, Held, CondSignal, Asleep, IInv, TypeOK
    <2>3. None \notin Held \cup ToSet(Queue')
      <3>1. None \notin ToSet(Queue)
        BY <1>10, LinkList, SeqFacts, PoolAssumption
      <3>2. QED
        BY <2>1, <3>1, PoolAssumption DEF Held
    <2>4. Places
      BY DEF IInv
    <2>5. QED
      BY <2>1, <2>2, <2>3, <2>4 DEF Places
  <1>11. CASE LoopEnd
    BY <1>11, SamePlaces DEF LoopEnd, queueVars, mainVars, IInv, TypeOK
  <1>12. CASE Teardown
    BY <1>12, SamePlaces DEF Teardown, queueVars, mainVars, IInv, TypeOK
  <1>13. CASE MainLock("lock", "broadcast")
    BY <1>13, SamePlaces DEF MainLock, queueVars, mainVars, IInv, TypeOK
  <1>14. CASE WakeAll
    BY <1>14, SamePlaces DEF WakeAll, Broadcast, queueVars, mainVars, IInv,
        TypeOK
  <1>15. CASE JoinNothing
    BY <1>15, SamePlaces DEF JoinNothing, queueVars, mainVars, IInv, TypeOK
  <1>16. CASE JoinEnd
    BY <1>16, SamePlaces DEF JoinEnd, queueVars, mainVars, IInv, TypeOK
  <1>17. CASE MainLock("destroy", "clear")
    BY <1>17, SamePlaces DEF MainLock, queueVars, mainVars, IInv, TypeOK
  <1>18. CASE Clear
    BY <1>18 DEF Clear, Cleared, Places, IInv
  <1>19. CASE Shutdown
    BY <1>19, SamePlaces DEF Shutdown, queueVars, mainVars, IInv, TypeOK
  <1>20. ASSUME NEW w \in Worker, Routine(w) PROVE Places'
    BY <1>20, SamePlaces DEF Routine, queueVars, mainVars, IInv, TypeOK
  <1>21. ASSUME NEW w \in Worker, Lock(w) PROVE Places'
    BY <1>21, SamePlaces DEF Lock, queueVars, mainVars, IInv, TypeOK
  <1>22. ASSUME NEW w \in Worker, Check(w) PROVE Places'
    BY <1>22, SamePlaces DEF Check, queueVars, mainVars, IInv, TypeOK
  <1>23. ASSUME NEW w \in Worker, CondWait(w) PROVE Places'
    BY <1>23, SamePlaces DEF CondWait, queueVars, mainVars, IInv, TypeOK
  <1>24. ASSUME NEW w \in Worker, GiveUp(w) PROVE Places'
    BY <1>24, SamePlaces DEF GiveUp, queueVars, mainVars, IInv, TypeOK
  <1>25. ASSUME NEW w \in Worker, Take(w) PROVE Places'
    <2>1. CASE tq_head = None
      <3>1. task[w] = None
        BY <1>25 DEF Take, IInv, Places
      <3>2. task' = task
        BY <1>25, <2>1, <3>1 DEF Take, IInv, TypeOK
      <3>3. QED
        BY <1>25, <2>1, <3>2, SamePlaces
        DEF Take, queueVars, mainVars, IInv, TypeOK
    <2>2. CASE tq_head # None
      BY <1>25, <2>2, TakePlaces
    <2>3. QED
      BY <2>1, <2>2
  <1>26. ASSUME NEW w \in Worker, FreeTask(w) PROVE Places'
    BY <1>26, FreePlaces
  <1>27. ASSUME NEW w \in Worker, Spurious(w) PROVE Places'
    BY <1>27, SamePlaces DEF Spurious, queueVars, mainVars, IInv, TypeOK
  <1>28. CASE UNCHANGED vars
    BY <1>28, SamePlaces DEF vars
  <1>29. QED
    BY <1>1, <1>2, <1>3, <1>4, <1>5, <1>6, <1>7, <1>8, <1>9, <1>10, <1>11,
        <1>12, <1>13, <1>14, <1>15, <1>16, <1>17, <1>18, <1>19, <1>20,
        <1>21, <1>22, <1>23, <1>24, <1>25, <1>26, <1>27, <1>28 DEF Next,
        MainStep, WorkerStep

LEMMA InitIInv == Init => IInv
  <1> SUFFICES ASSUME Init PROVE IInv
    OBVIOUS
  <1>1. TypeOK
    BY PoolAssumption DEF Init, TypeOK
  <1>2. /\ tq_head = None /\ tq_tail = None /\ tq_count = 0 /\ heap = {}
        /\ new = None /\ pc = "create" /\ threads = "none" /\ tq_lock = None
        /\ joined = {}
        /\ \A w \in Worker : wpc[w] = "unborn" /\ task[w] = None
    BY DEF Init
  <1>3. Links(<<>>, None, None, 0, next) /\ <<>> \in Seq(Task)
    BY DEF Links
  <1>4. Queue = <<>>
    BY <1>2, <1>3, ListIs DEF Queue
  <1>5. List
    BY <1>2, <1>3, <1>4 DEF List
  <1>6. Places
    <2>1. Held = {} /\ ToSet(Queue) = {}
      BY <1>2, <1>4 DEF Held, ToSet
    <2>2. QED
      BY <1>2, <2>1 DEF Places
  <1>7. Mutex /\ Threads
    BY <1>2, PoolAssumption DEF Mutex, Threads, Created
  <1>8. WakeupsSuffice
    BY <1>2 DEF WakeupsSuffice, Asleep
  <1>9. QED
    BY <1>1, <1>5, <1>6, <1>7, <1>8 DEF IInv

\* The invariant from which the promises of the queue and the pool follow: the
\* list of task.c, the places of its tasks, its mutex and the threads.
THEOREM Invariance == Spec => []IInv
  <1>1. IInv /\ [Next]_vars => IInv'
    BY TypeStep, ListStep, PlacesStep, MutexStep, ThreadsStep, WakeStep DEF IInv
  <1>2. QED
    BY <1>1, InitIInv, PTL DEF Spec

\* task_enqueue and task_dequeue keep head, tail, count and links those of one
\* list, and every allocated task is in one place, for any number of tasks and
\* threads, whoever is woken and whatever fails.
THEOREM ListCorrect == Spec => []ListShape
  <1>1. IInv => ListShape
    <2> SUFFICES ASSUME IInv, pc # "done"
                 PROVE  /\ Len(Queue) = tq_count
                        /\ tq_tail = IF Queue = <<>> THEN None ELSE Last(Queue)
                        /\ Cardinality(ToSet(Queue)) = Len(Queue)
      BY DEF ListShape, IInv, Places
    <2>1. QueueThere
      BY DEF IInv, List, QueueThere
    <2>2. Cardinality(ToSet(Queue)) = Len(Queue)
      BY <2>1, DistinctCount DEF QueueThere, Links
    <2>3. QED
      BY <2>1, <2>2 DEF QueueThere, Links, Last
  <1>2. QED
    BY <1>1, Invariance, PTL

\* pthread_cond_signal once for each task leaves no task waiting for a worker
\* that sleeps, however many workers there are.
THEOREM WakeupsCorrect == Spec => []WakeupsSuffice
  <1>1. IInv => WakeupsSuffice
    BY DEF IInv
  <1>2. QED
    BY <1>1, Invariance, PTL

\* threadpool_destroy and task_destroy leave no thread, no task and no owner of
\* the mutex behind, also when the start of the threads has failed.
THEOREM NothingLeftCorrect == Spec => []NothingLeft
  <1>1. IInv => NothingLeft
    <2> SUFFICES ASSUME IInv PROVE NothingLeft
      OBVIOUS
    <2>1. CASE threads = "live"
      BY <2>1 DEF IInv, Threads, NothingLeft
    <2>2. CASE threads = "none"
      BY <2>2 DEF IInv, Threads, NothingLeft, Created
    <2>3. CASE threads = "freed"
      BY <2>3 DEF IInv, Threads, NothingLeft, Created
    <2>4. QED
      BY <2>1, <2>2, <2>3 DEF IInv, TypeOK
  <1>2. QED
    BY <1>1, Invariance, PTL
-----------------------------------------------------------------------------
(* The pool of TaskPool *)

\* Steps the abstract pool does not see.
LEMMA SamePool ==
    ASSUME UNCHANGED <<running, new, task>>, Queue' = Queue,
           \A w \in Worker : wpc'[w] = "gone" <=> wpc[w] = "gone"
    PROVE  UNCHANGED Pool!vars
  <1>1. {w \in Worker : wpc'[w] = "gone"} = {w \in Worker : wpc[w] = "gone"}
    OBVIOUS
  <1>2. QED
    BY <1>1 DEF Pool!vars

\* Steps that stop the server, or find it stopped.
LEMMA StopPool ==
    ASSUME running' = FALSE, UNCHANGED <<new, task>>, Queue' = Queue, wpc' = wpc
    PROVE  Pool!Next
  BY DEF Pool!Next, Pool!Stop

\* A new task is in no place yet.
LEMMA NewPool ==
    ASSUME IInv, NEW t \in Task, NewTask(t)
    PROVE  Pool!New(t)
  <1>1. /\ new = None /\ new' = t /\ t \notin heap /\ pc # "done"
        /\ UNCHANGED <<running, task, wpc>>
    BY DEF NewTask, IInv, Places
  <1>2. Queue' = Queue
    BY NewTaskList
  <1>3. t \notin Held \cup ToSet(Queue) /\ t # None
    BY <1>1, PoolAssumption DEF IInv, Places
  <1>4. t \notin Pool!Tasks
    BY <1>3 DEF Held, ToSet, Pool!Tasks
  <1>5. QED
    BY <1>1, <1>2, <1>4 DEF Pool!New

\* Link puts the task at the end of the queue.
LEMMA PutPool ==
    ASSUME IInv, Link
    PROVE  Pool!Put
  <1>1. new # None /\ new' = None /\ UNCHANGED <<running, task>>
    BY DEF Link, IInv, Places
  <1>2. \A w \in Worker : wpc'[w] = "gone" <=> wpc[w] = "gone"
    BY DEF Link, CondSignal, Asleep, IInv, TypeOK
  <1>3. {w \in Worker : wpc'[w] = "gone"} = {w \in Worker : wpc[w] = "gone"}
    BY <1>2
  <1>4. Queue' = Append(Queue, new)
    BY LinkList
  <1>5. QED
    BY <1>1, <1>3, <1>4 DEF Pool!Put

\* A worker gets the oldest task.
LEMMA TakePool ==
    ASSUME IInv, NEW w \in Worker, Take(w), tq_head # None
    PROVE  Pool!Take(w)
  <1>1. /\ running /\ running' = running /\ new' = new
        /\ task' = [task EXCEPT ![w] = tq_head] /\ wpc[w] = "take"
        /\ wpc' = [wpc EXCEPT ![w] = "work"] /\ DOMAIN wpc = Worker
    BY DEF Take, mainVars, IInv, TypeOK
  <1>2. task[w] = None
    BY <1>1 DEF IInv, Places
  <1>3. Queue # <<>> /\ tq_head = Head(Queue) /\ Queue' = Tail(Queue)
    BY TakeList
  <1>4. {v \in Worker : wpc'[v] = "gone"} = {v \in Worker : wpc[v] = "gone"}
    BY <1>1
  <1>5. w \notin {v \in Worker : wpc[v] = "gone"}
    BY <1>1
  <1>6. QED
    BY <1>1, <1>2, <1>3, <1>4, <1>5 DEF Pool!Take

LEMMA FinishPool ==
    ASSUME IInv, NEW w \in Worker, FreeTask(w)
    PROVE  Pool!Finish(w)
  <1>1. /\ running' = running /\ new' = new
        /\ task' = [task EXCEPT ![w] = None] /\ wpc[w] = "work"
        /\ wpc' = [wpc EXCEPT ![w] = "routine"] /\ DOMAIN wpc = Worker
    BY DEF FreeTask, mainVars, IInv, TypeOK
  <1>2. task[w] # None
    BY <1>1 DEF IInv, Places
  <1>3. Queue' = Queue
    BY SameList DEF FreeTask, queueVars, mainVars
  <1>4. {v \in Worker : wpc'[v] = "gone"} = {v \in Worker : wpc[v] = "gone"}
    BY <1>1
  <1>5. QED
    BY <1>1, <1>2, <1>3, <1>4 DEF Pool!Finish

LEMMA LeavePool ==
    ASSUME IInv, NEW w \in Worker, Routine(w), ~running
    PROVE  Pool!Leave(w)
  <1>1. /\ running' = running /\ new' = new /\ task' = task
        /\ wpc[w] = "routine"
        /\ wpc' = [wpc EXCEPT ![w] = "gone"] /\ DOMAIN wpc = Worker
    BY DEF Routine, mainVars, IInv, TypeOK
  <1>2. task[w] = None
    BY <1>1 DEF IInv, Places
  <1>3. Queue' = Queue
    BY SameList DEF Routine, queueVars, mainVars
  <1>4. {v \in Worker : wpc'[v] = "gone"}
            = {v \in Worker : wpc[v] = "gone"} \cup {w}
    BY <1>1
  <1>5. w \notin {v \in Worker : wpc[v] = "gone"}
    BY <1>1
  <1>6. QED
    BY <1>1, <1>2, <1>3, <1>4, <1>5 DEF Pool!Leave

LEMMA ClearPool ==
    ASSUME IInv, Clear
    PROVE  Pool!Clear
  <1>1. UNCHANGED <<running, new, task, wpc>> /\ Queue' = <<>>
    BY ClearEmpties DEF Clear
  <1>2. {w \in Worker : wpc[w] = "gone"} = Worker
    BY DEF Clear, IInv, Threads
  <1>3. QED
    BY <1>1, <1>2 DEF Pool!Clear

LEMMA StepImplements == IInv /\ [Next]_vars => [Pool!Next]_(Pool!vars)
  <1> SUFFICES ASSUME IInv, [Next]_vars PROVE [Pool!Next]_(Pool!vars)
    OBVIOUS
  <1>1. ASSUME NEW w \in Worker, CreateThread(w) PROVE [Pool!Next]_(Pool!vars)
    BY <1>1, SameList, SamePool DEF CreateThread, queueVars, mainVars, IInv,
        TypeOK
  <1>2. ASSUME NEW w \in Worker, Reap(w) PROVE [Pool!Next]_(Pool!vars)
    BY <1>2, SameList, SamePool DEF Reap, JoinThread, queueVars, mainVars,
        IInv, TypeOK
  <1>3. ASSUME NEW w \in Worker, Join(w) PROVE [Pool!Next]_(Pool!vars)
    BY <1>3, SameList, SamePool DEF Join, JoinThread, queueVars, mainVars,
        IInv, TypeOK
  <1>4. CASE ArrayFails
    BY <1>4, SameList, SamePool DEF ArrayFails, queueVars, mainVars, IInv,
        TypeOK
  <1>5. CASE CreateFails
    BY <1>5, SameList, StopPool DEF CreateFails, queueVars, mainVars
  <1>6. CASE WakeUp
    BY <1>6, SameList, SamePool DEF WakeUp, Broadcast, queueVars, mainVars,
        IInv, TypeOK
  <1>7. CASE ReapEnd
    BY <1>7, SameList, SamePool DEF ReapEnd, queueVars, mainVars, IInv,
        TypeOK
  <1>8. ASSUME NEW t \in Task, NewTask(t) PROVE [Pool!Next]_(Pool!vars)
    BY <1>8, NewPool DEF Pool!Next
  <1>9. CASE MainLock("enqueue", "link")
    BY <1>9, SameList, SamePool DEF MainLock, queueVars, mainVars, IInv,
        TypeOK
  <1>10. CASE Link
    BY <1>10, PutPool DEF Pool!Next
  <1>11. CASE LoopEnd
    BY <1>11, SameList, SamePool DEF LoopEnd, queueVars, mainVars, IInv,
        TypeOK
  <1>12. CASE Teardown
    BY <1>12, SameList, StopPool DEF Teardown, queueVars, mainVars
  <1>13. CASE MainLock("lock", "broadcast")
    BY <1>13, SameList, SamePool DEF MainLock, queueVars, mainVars, IInv,
        TypeOK
  <1>14. CASE WakeAll
    BY <1>14, SameList, SamePool DEF WakeAll, Broadcast, queueVars, mainVars,
        IInv, TypeOK
  <1>15. CASE JoinNothing
    BY <1>15, SameList, SamePool DEF JoinNothing, queueVars, mainVars, IInv,
        TypeOK
  <1>16. CASE JoinEnd
    BY <1>16, SameList, SamePool DEF JoinEnd, queueVars, mainVars, IInv,
        TypeOK
  <1>17. CASE MainLock("destroy", "clear")
    BY <1>17, SameList, SamePool DEF MainLock, queueVars, mainVars, IInv,
        TypeOK
  <1>18. CASE Clear
    BY <1>18, ClearPool DEF Pool!Next
  <1>19. CASE Shutdown
    BY <1>19, SameList, StopPool DEF Shutdown, queueVars, mainVars
  <1>20. ASSUME NEW w \in Worker, Routine(w) PROVE [Pool!Next]_(Pool!vars)
    <2>1. CASE running
      BY <1>20, <2>1, SameList, SamePool
      DEF Routine, queueVars, mainVars, IInv, TypeOK
    <2>2. CASE ~running
      BY <1>20, <2>2, LeavePool DEF Pool!Next
    <2>3. QED
      BY <2>1, <2>2
  <1>21. ASSUME NEW w \in Worker, Lock(w) PROVE [Pool!Next]_(Pool!vars)
    BY <1>21, SameList, SamePool DEF Lock, queueVars, mainVars, IInv, TypeOK
  <1>22. ASSUME NEW w \in Worker, Check(w) PROVE [Pool!Next]_(Pool!vars)
    BY <1>22, SameList, SamePool DEF Check, queueVars, mainVars, IInv, TypeOK
  <1>23. ASSUME NEW w \in Worker, CondWait(w) PROVE [Pool!Next]_(Pool!vars)
    BY <1>23, SameList, SamePool DEF CondWait, queueVars, mainVars, IInv,
        TypeOK
  <1>24. ASSUME NEW w \in Worker, GiveUp(w) PROVE [Pool!Next]_(Pool!vars)
    BY <1>24, SameList, SamePool DEF GiveUp, queueVars, mainVars, IInv,
        TypeOK
  <1>25. ASSUME NEW w \in Worker, Take(w) PROVE [Pool!Next]_(Pool!vars)
    <2>1. CASE tq_head = None
      <3>1. task' = task /\ Queue' = Queue
        BY <1>25, <2>1, SameList
        DEF Take, queueVars, mainVars, IInv, TypeOK, Places
      <3>2. QED
        BY <1>25, <2>1, <3>1, SamePool DEF Take, mainVars, IInv, TypeOK
    <2>2. CASE tq_head # None
      BY <1>25, <2>2, TakePool DEF Pool!Next
    <2>3. QED
      BY <2>1, <2>2
  <1>26. ASSUME NEW w \in Worker, FreeTask(w) PROVE [Pool!Next]_(Pool!vars)
    BY <1>26, FinishPool DEF Pool!Next
  <1>27. ASSUME NEW w \in Worker, Spurious(w) PROVE [Pool!Next]_(Pool!vars)
    BY <1>27, SameList, SamePool DEF Spurious, queueVars, mainVars, IInv,
        TypeOK
  <1>28. CASE UNCHANGED vars
    BY <1>28, SameList, SamePool DEF vars
  <1>29. QED
    BY <1>1, <1>2, <1>3, <1>4, <1>5, <1>6, <1>7, <1>8, <1>9, <1>10, <1>11,
        <1>12, <1>13, <1>14, <1>15, <1>16, <1>17, <1>18, <1>19, <1>20,
        <1>21, <1>22, <1>23, <1>24, <1>25, <1>26, <1>27, <1>28 DEF Next,
        MainStep, WorkerStep

\* The linked list under its mutex and condition variable implements the FIFO
\* queue and the workers of TaskPool, which AnimateServer takes them to be: a
\* task is given to one worker, in the order in which tasks were queued.
THEOREM Refinement == Spec => ImplementsPool
  <1>1. Init => Pool!Init
    <2> SUFFICES ASSUME Init PROVE Pool!Init
      OBVIOUS
    <2>1. Links(<<>>, None, None, 0, next) /\ <<>> \in Seq(Task)
      BY DEF Links, Init
    <2>2. Queue = <<>>
      BY <2>1, ListIs DEF Queue, Init
    <2>3. {w \in Worker : wpc[w] = "gone"} = {}
      BY DEF Init
    <2>4. QED
      BY <2>2, <2>3 DEF Init, Pool!Init
  <1>2. QED
    BY <1>1, StepImplements, Invariance, PTL DEF Spec, ImplementsPool, Pool!Spec
=============================================================================
