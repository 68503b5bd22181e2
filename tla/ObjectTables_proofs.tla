------------------------ MODULE ObjectTables_proofs -------------------------
(***************************************************************************)
(* The object tables, for any number of threads, clients and objects.      *)
(***************************************************************************)
EXTENDS ObjectTablesProperties, SequenceTheorems, TLAPS

(* The inductive invariant, part by part.  A table that is not to blame has *)
(* not forgotten its array and has not taken two insertions at once.        *)

Job == [at : At, a : Addr \cup {None}, k : Kind, id : Int,
        o : Nat \cup {None}, p : Pointer, q : Pointer, robbed : BOOLEAN]

Table == [arr : Block, count : Nat, cap : Nat, slot : Seq(Entry \cup {Junk})]

\* The steps of an insertion: all of them; before the object has an id; and
\* those that read and write the table.
Making   == {"insert", "grow", "assign", "fill", "count"}
Nameless == {"insert", "grow", "assign", "fill"}
Entering == {"grow", "assign", "fill", "count"}

\* The walk of client_markdead.
Walking == {"test", "remove", "clear"}

Types ==
    /\ bound \in Instance
    /\ session \in [Addr -> 0..bound.sessions] /\ dead \subseteq Addr
    /\ born \in 0..bound.sessions
    /\ obj \in [Kind -> Seq(Object)]
    /\ table \in [Kind -> Table]
    /\ \A k \in Kind : Len(table[k].slot) = table[k].cap
    /\ job \in [Thread -> Job]
    /\ blame \subseteq Kind

\* An address has one client, and every object was made by one that came.
Sessions ==
    /\ \A a, b \in Addr : session[a] = session[b] /\ session[a] # 0 => a = b
    /\ \A a \in Addr : session[a] <= born
    /\ \A a \in dead : session[a] # 0
    /\ \A k \in Kind : \A x \in DOMAIN obj[k] : obj[k][x].by <= born

\* A job as its place says: what it makes is its client's, and it points into
\* the table it is about.
Shape(t) ==
    LET j == job[t] IN
    /\ j.at \in Making =>
        /\ j.o \in DOMAIN obj[j.k] /\ j.a \in Addr /\ session[j.a] # 0
        /\ obj[j.k][j.o].by = session[j.a]
        /\ j.at \in Nameless => obj[j.k][j.o].id = None
    /\ j.at = "place" =>
        /\ j.a \in Addr /\ session[j.a] # 0
        /\ j.p.k = "canvas" /\ j.q.k = "sprite"
    /\ j.at \in {"frame", "film", "target", "append"} => j.p.k = "canvas"
    /\ j.at = "adjust" => j.p.k = "placement"
    /\ j.at = "remove" => j.p.k = j.k /\ j.p.i = j.id
    /\ j.at = "assign" => j.p.k = j.k
    /\ j.at = "count" => j.id \in Nat
    /\ j.at = "clear" => (IsNull(j.q) \/ (j.q.k = j.k /\ j.q.i = j.id))
    /\ t \in Worker => j.at \notin {"test", "done"}
    /\ t = Main =>
        /\ j.at \in Walking \cup {"idle", "done"}
        /\ j.at \in Walking => j.a \in dead /\ j.id \in Nat
        /\ j.at \notin Walking => j.a = None
        /\ j.at = "clear" => j.p.k = j.k /\ j.p.i = j.id
        /\ j.at = "done" => \A w \in Worker : job[w].at = "idle"

Shapes == \A t \in Thread : Shape(t)

\* Two insertions have two objects.
Apart ==
    \A v, w \in Worker :
        /\ job[v].at \in Making /\ job[w].at \in Making
        /\ job[v].k = job[w].k /\ job[v].o = job[w].o
        => v = w

\* One worker at a time works on a table.
Alone(k) ==
    \A v, w \in Worker :
        /\ job[v].at \in Entering /\ job[w].at \in Entering
        /\ job[v].k = k /\ job[w].k = k
        => v = w

\* The array of a table, its count and its capacity.
Array(k) ==
    LET T == table[k] IN
    /\ T.count <= T.cap
    /\ T.arr = "none" =>
        /\ T.count = 0
        /\ T.cap = 0 \/ \E w \in Worker : job[w].at = "assign" /\ job[w].k = k
    /\ T.arr = "released" =>
        \/ \E w \in Worker : job[w].at = "assign" /\ job[w].k = k
        \/ job[Main].at = "done"
    /\ \A i \in 1..T.count : T.slot[i] # Junk

\* What an insertion has found and done.
EnteredBy(w, k) ==
    LET j == job[w]
        T == table[k]
    IN j.k = k =>
        /\ j.at = "grow" => T.count = T.cap
        /\ j.at \in {"assign", "fill", "count"} => T.count < T.cap
        /\ j.at = "assign" => j.p.g = "present"
        /\ j.at \in Making => obj[k][j.o].alive
        /\ j.at = "count" =>
            /\ j.id = T.count /\ obj[k][j.o].id = j.id
            /\ T.slot[j.id + 1] # Junk
            /\ T.slot[j.id + 1].ptr = j.o /\ T.slot[j.id + 1].owner = j.a

Entered(k) == \A w \in Worker : EnteredBy(w, k)

\* The entry of object x of table k.
EntryOf(k, x) == table[k].slot[obj[k][x].id + 1]

\* Objects and entries name each other.
NamedOnce(k) ==
    /\ \A i \in 1..table[k].count : table[k].slot[i].ptr # None =>
        /\ table[k].slot[i].ptr \in DOMAIN obj[k]
        /\ obj[k][table[k].slot[i].ptr].id = i - 1
    /\ \A x \in DOMAIN obj[k] : obj[k][x].id # None =>
        /\ \/ obj[k][x].id < table[k].count
           \/ \E w \in Worker : job[w].at = "count" /\ job[w].k = k
                                    /\ job[w].o = x
        /\ EntryOf(k, x).ptr \in {x, None}

\* An object that lives is entered or about to be; one that does not has lost
\* its entry, or loses it next.
Living(k) ==
    /\ \A x \in DOMAIN obj[k] : obj[k][x].alive =>
        IF obj[k][x].id = None
        THEN \E w \in Worker : job[w].at \in Nameless /\ job[w].k = k
                                  /\ job[w].o = x
        ELSE EntryOf(k, x).ptr = x
    /\ \A i \in 1..table[k].count :
        LET x == table[k].slot[i].ptr IN
        x # None /\ ~obj[k][x].alive =>
            \E t \in Thread : job[t].at = "clear" /\ job[t].k = k
                                /\ job[t].q.k = k /\ job[t].q.i = i - 1

\* A removal is about an entry, and has destroyed its object.
RemovedBy(t, k) ==
    LET j == job[t] IN
    j.k = k =>
      /\ j.at \in {"remove", "clear"} => j.id \in 0..table[k].count - 1
      /\ j.at = "clear" =>
          /\ j.q.k = k /\ j.q.i = j.id /\ j.q.g # "none"
          /\ LET x == table[k].slot[j.id + 1].ptr IN
             x # None => ~obj[k][x].alive

Removing(k) == \A t \in Thread : RemovedBy(t, k)

\* The places of a job that has a pointer to use.
Using == {"adjust", "place", "frame", "film", "target", "append", "remove"}

\* The entry that p points to is there, and unless it was robbed its object
\* lives.
Sound(p, robbed) ==
    /\ p.g # "none" /\ p.i < table[p.k].count
    /\ ~robbed => LET x == table[p.k].slot[p.i + 1].ptr IN
                  x # None /\ obj[p.k][x].alive

PointersOf(t, k) ==
    LET j == job[t] IN
    /\ j.at \in Using /\ j.p.k = k => Sound(j.p, j.robbed)
    /\ j.at = "clear" /\ t = Main /\ j.k = k => Sound(j.p, TRUE)
    /\ j.at = "place" /\ j.q.k = k => Sound(j.q, j.robbed)
    /\ j.at = "frame" /\ k = "canvas" /\ ~j.robbed =>
         j.o = table[k].slot[j.p.i + 1].ptr
    /\ j.at = "append" /\ k = "canvas" /\ ~j.robbed =>
         table[k].slot[j.p.i + 1].shared < MAX_CLIENTS

Pointers(k) == \A t \in Thread : PointersOf(t, k)

Rank == [canvas |-> 0, sprite |-> 1, placement |-> 2]

\* The walk for the client at a has passed entry i of table k.
Passed(a, k, i) ==
    LET j == job[Main] IN
    /\ a \in dead
    /\ \/ j.a # a
       \/ Rank[k] < Rank[j.k]
       \/ k = j.k /\ i < j.id

\* An entry has the address of the client of its object, and what a walk has
\* left was entered later.
Owners(k) ==
    /\ \A i \in 1..table[k].count :
        LET e == table[k].slot[i] IN e.ptr # None =>
            /\ \A a \in Addr : obj[k][e.ptr].by = session[a] =>
                /\ e.owner = a
                /\ Passed(a, k, i - 1) => obj[k][e.ptr].late
            /\ (\A a \in Addr : obj[k][e.ptr].by # session[a]) =>
                  obj[k][e.ptr].late
    /\ job[Main].at = "remove" /\ job[Main].k = k =>
          table[k].slot[job[Main].id + 1].owner = job[Main].a

Clean(k) ==
    /\ Alone(k) /\ Array(k) /\ Entered(k) /\ NamedOnce(k) /\ Living(k)
    /\ Removing(k) /\ Pointers(k) /\ Owners(k)

\* Two objects have two ids.
OneId(k) ==
    \A x, y \in DOMAIN obj[k] :
        obj[k][x].id # None /\ obj[k][x].id = obj[k][y].id => x = y

Ids == \A k \in Kind \ blame : OneId(k)

Tables == \A k \in Kind \ blame : Clean(k)

IInv ==
    /\ Types /\ Sessions /\ Shapes /\ Apart
    /\ Tables /\ Ids /\ FaultsAreRaces
-----------------------------------------------------------------------------
(* Types *)

\* The bounds of an instance are numbers.
LEMMA BoundType ==
    ASSUME Types
    PROVE  /\ bound.sessions \in Nat /\ bound.objects \in [Kind -> Nat]
           /\ bound.pool \subseteq Worker
  BY TableConstants DEF Types

\* One of three numbers is the largest.
LEMMA Largest ==
    ASSUME NEW a \in Nat, NEW b \in Nat, NEW c \in Nat
    PROVE  \E x \in {a, b, c} : \A y \in {a, b, c} : x >= y
<1>1. CASE a >= b /\ a >= c
  BY <1>1
<1>2. CASE b >= a /\ b >= c
  BY <1>2
<1>3. CASE c >= a /\ c >= b
  BY <1>3
<1> QED
  BY <1>1, <1>2, <1>3

\* The numbers of a request, and the conversion to int, are numbers.
LEMMA IntOfType == ASSUME Types, NEW n \in Arg PROVE IntOf(n) \in Int
<1>1. bound \in Instance /\ bound.objects \in [Kind -> Nat]
  BY BoundType DEF Types
<1>2. Span \in Nat /\ Span > 2 * (bound.objects["canvas"] + 1)
  BY <1>1, TableConstants DEF Kind
<1>3. bound.objects["canvas"] \in Nat
  BY <1>1 DEF Kind
<1>4. Span \in Nat /\ Span > 0
  BY <1>2, <1>3
<1>5. Max({bound.objects[k] : k \in Kind}) \in Int
  <2> DEFINE S == {bound.objects[k] : k \in Kind}
  <2>1. S = {bound.objects["canvas"], bound.objects["sprite"],
             bound.objects["placement"]}
    BY DEF Kind
  <2>2. /\ bound.objects["canvas"] \in Nat /\ bound.objects["sprite"] \in Nat
        /\ bound.objects["placement"] \in Nat
    BY <1>1 DEF Kind
  <2>3. \E x \in S : \A y \in S : x >= y
    <3>1. \A a, b, c \in Nat : \E x \in {a, b, c} : \A y \in {a, b, c} : x >= y
      BY Largest
    <3>2. \E x \in {bound.objects["canvas"], bound.objects["sprite"],
                     bound.objects["placement"]} :
            \A y \in {bound.objects["canvas"], bound.objects["sprite"],
                      bound.objects["placement"]} : x >= y
      BY <2>2, <3>1
    <3> HIDE DEF S
    <3> QED
      BY <2>1, <3>2
  <2>4. S \subseteq Nat
    BY <2>1, <2>2
  <2> QED
    BY <2>3, <2>4 DEF Max
<1>6. n \in Int
  BY <1>4, <1>5 DEF Arg, Id
<1>7. Span \div 2 \in Int
  BY <1>4
<1>8. (n + Span \div 2) % Span \in Int
  BY <1>4, <1>6, <1>7
<1> QED
  BY <1>7, <1>8 DEF IntOf
-----------------------------------------------------------------------------
(* The steps, as what they do to jobs, objects and tables *)

\* A thread that is overtaken keeps its place; it may be robbed, and its
\* pointers may end up in a released array.
PointerKept(p, q) ==
    q.k = p.k /\ q.i = p.i /\ (q.g = p.g \/ (p.g = "present" /\ q.g = "released"))

Kept(u) ==
    LET j == job[u]
        i == job'[u]
    IN /\ i.at = j.at /\ i.a = j.a /\ i.k = j.k /\ i.id = j.id /\ i.o = j.o
       /\ PointerKept(j.p, i.p) /\ PointerKept(j.q, i.q)
       /\ j.robbed => i.robbed

Others(t) == \A u \in Thread \ {t} : Kept(u)

JobOnly == UNCHANGED <<bound, session, dead, born, obj, table, blame>>

\* A rule was broken: only fault changes.
Stops == JobOnly /\ UNCHANGED job

\* A pointer that has just been looked up.
Fresh(w, p, robbed) ==
    /\ p.g # "none" /\ p.i < table[p.k].count
    /\ EntryAt(p).ptr # None
    /\ ~robbed => ~HalfGone(w, p)

\* A worker that is not entering or clearing anything goes to step j.
Looks(w) ==
    LET i == job[w]
        j == job'[w]
    IN
    /\ i.at \notin Making \cup {"clear", "done", "remove", "test"}
    /\ JobOnly /\ j \in Job /\ job' = [job EXCEPT ![w] = j]
    /\ \/ j.at = "idle"
       \/ /\ j.at \in {"remove", "adjust", "frame", "target"}
          /\ j.p.k = j.k /\ j.p.i = j.id /\ j.id \in 0..table[j.k].count - 1
          /\ j.at = "adjust" => j.k = "placement"
          /\ j.at \in {"frame", "target"} => j.k = "canvas"
          /\ Fresh(w, j.p, j.robbed) /\ j.o = EntryAt(j.p).ptr
       \/ /\ j.at = "place" /\ j.p.k = "canvas" /\ j.q.k = "sprite"
          /\ j.a \in Addr /\ session[j.a] # 0
          /\ Fresh(w, j.p, j.robbed) /\ Fresh(w, j.q, j.robbed)
       \/ /\ j.p = i.p /\ j.robbed = i.robbed
          /\ \/ i.at = "frame" /\ j.at = "film"
             \/ i.at = "target" /\ j.at = "append"
                   /\ EntryAt(i.p).shared < MAX_CLIENTS

\* An object is made, which is to be entered.
Creates(w) ==
    LET j == job'[w] IN
    /\ job[w].at \in {"idle", "place"}
    /\ j \in Job /\ job' = [job EXCEPT ![w] = j]
    /\ j.at = "insert" /\ j.a \in Addr /\ session[j.a] # 0
    /\ j.o = Len(obj[j.k]) + 1
    /\ obj' = [obj EXCEPT ![j.k] = Append(@, [by |-> session[j.a], alive |-> TRUE,
                                             id |-> None, late |-> FALSE])]
    /\ UNCHANGED <<bound, session, dead, born, table, blame>>

\* The sequence index of an array index.
LEMMA IndexOf == ASSUME NEW i \in Nat, NEW n \in Nat, i < n
                 PROVE  i + 1 \in 1..n /\ (i + 1) - 1 = i
  OBVIOUS

\* An index that is not past the end.
LEMMA IndexIn == ASSUME NEW i \in Nat, NEW n \in Nat, ~(i >= n)
                 PROVE  i + 1 \in 1..n
  OBVIOUS

\* An entry that can be used is one.
LEMMA DefectFree ==
    ASSUME Types, NEW p \in Pointer, Defect(p) = ""
    PROVE  /\ p.g = "present" /\ p.i \in Nat /\ p.k \in Kind
           /\ p.i + 1 \in 1..Len(table[p.k].slot)
           /\ table[p.k].slot[p.i + 1] # Junk
           /\ EntryAt(p) \in Entry /\ EntryAt(p) = table[p.k].slot[p.i + 1]
<1>1. p.i \in Nat /\ p.k \in Kind /\ p.g \in Block
  BY DEF Pointer
<1>2. /\ table[p.k].slot \in Seq(Entry \cup {Junk})
      /\ Len(table[p.k].slot) \in Nat
  BY <1>1 DEF Types, Table
<1>3. /\ p.g = "present" /\ ~(p.i >= Len(table[p.k].slot))
      /\ table[p.k].slot[p.i + 1] # Junk
  BY <1>1 DEF Defect, Block
<1>4. p.i + 1 \in 1..Len(table[p.k].slot)
  <2> DEFINE n == Len(table[p.k].slot)
  <2>1. n \in Nat /\ ~(p.i >= n)
    BY <1>2, <1>3
  <2> HIDE DEF n
  <2>2. p.i + 1 \in 1..n
    BY <1>1, <2>1, IndexIn
  <2> QED
    BY <2>2 DEF n
<1>5. table[p.k].slot[p.i + 1] \in Entry
  <2> DEFINE s == table[p.k].slot
             n == p.i + 1
  <2>1. s \in Seq(Entry \cup {Junk}) /\ n \in 1..Len(s) /\ s[n] # Junk
    BY <1>2, <1>3, <1>4
  <2> HIDE DEF s, n
  <2>2. s[n] \in Entry \cup {Junk}
    BY <2>1, ElementOfSeq
  <2>3. s[n] \in Entry
    BY <2>1, <2>2
  <2> QED
    BY <2>3 DEF s, n
<1> QED
  BY <1>1, <1>3, <1>4, <1>5 DEF EntryAt

\* What is looked up is what Lookup says.
LEMMA LookupSound ==
    ASSUME Types, NEW k \in Kind, NEW n \in Int
    PROVE  LET p == Lookup(k, n) IN
           /\ p \in Pointer
           /\ Present(p) =>
                /\ p.k = k /\ p.i = n /\ n \in 0..table[k].count - 1
                /\ p.g = "present" /\ EntryAt(p) \in Entry
                /\ EntryAt(p).ptr # None
<1> DEFINE p == Lookup(k, n)
<1>1. table[k] \in Table /\ Len(table[k].slot) = table[k].cap
  BY DEF Types
<1>2. /\ table[k].count \in Nat /\ table[k].arr \in Block
      /\ table[k].slot \in Seq(Entry \cup {Junk})
  BY <1>1 DEF Table
<1>3. CASE n \in 0..table[k].count - 1
  <2>1. p = [k |-> k, g |-> table[k].arr, i |-> n]
    BY <1>3 DEF Lookup
  <2>2. p \in Pointer /\ p.k = k /\ p.i = n
    BY <1>2, <1>3, <2>1 DEF Pointer
  <2>3. ASSUME Present(p)
        PROVE p.g = "present" /\ EntryAt(p) \in Entry /\ EntryAt(p).ptr # None
    <3>1. Defect(p) = "" /\ EntryAt(p).ptr # None
      BY <2>3 DEF Present
    <3>2. p.g = "present" /\ ~(p.i >= Len(table[k].slot))
          /\ table[k].slot[p.i + 1] # Junk
      BY <2>2, <3>1 DEF Defect, Block, Pointer
    <3>3. p.i + 1 \in 1..Len(table[k].slot)
      BY <1>2, <1>3, <2>2, <3>2
    <3>4. EntryAt(p) \in Entry
      BY <1>2, <2>2, <3>2, <3>3, ElementOfSeq DEF EntryAt
    <3> QED
      BY <3>1, <3>2, <3>4
  <2> QED
    BY <1>3, <2>2, <2>3
<1>4. CASE n \notin 0..table[k].count - 1
  <2>1. p = Null
    BY <1>4 DEF Lookup
  <2>2. p \in Pointer /\ ~Present(p)
    <3>1. p \in Pointer /\ p.g = "none"
      BY <2>1 DEF Null, Pointer, Block, Kind
    <3>2. Defect(p) = "none"
      BY <3>1 DEF Defect
    <3> QED
      BY <3>1, <3>2 DEF Present
  <2> QED
    BY <2>2
<1> QED
  BY <1>3, <1>4

\* A worker that takes a task gets the job it is for.
LEMMA TakesJob ==
    ASSUME Types, NEW w \in Worker, NEW j \in Job, Takes(w, j)
    PROVE  /\ job[w].at = "idle" /\ w \in Thread
           /\ UNCHANGED <<bound, session, dead, born, table, fault, blame>>
           /\ job' = [job EXCEPT ![w] = job'[w]]
           /\ job'[w] \in Job
           /\ job'[w].at = j.at /\ job'[w].a = j.a /\ job'[w].k = j.k
           /\ job'[w].id = j.id /\ job'[w].o = j.o /\ job'[w].p = j.p
           /\ job'[w].q = j.q
           /\ \A p \in {j.p, j.q} \ {Null} : ~job'[w].robbed => ~HalfGone(w, p)
<1> DEFINE r == \E p \in {j.p, j.q} \ {Null} : HalfGone(w, p)
           i == [j EXCEPT !.robbed = r]
<1>1. /\ job[w].at = "idle" /\ job' = [job EXCEPT ![w] = i]
      /\ UNCHANGED <<bound, session, dead, born, table, fault, blame>>
  BY DEF Takes, Ready, Becomes, clientVars
<1>2. w \in Thread /\ job \in [Thread -> Job]
  BY DEF Thread, Types
<1>3. r \in BOOLEAN
  OBVIOUS
<1>4. /\ i \in Job
      /\ i.at = j.at /\ i.a = j.a /\ i.k = j.k /\ i.id = j.id /\ i.o = j.o
      /\ i.p = j.p /\ i.q = j.q /\ i.robbed = r
  <2> HIDE DEF r
  <2> QED
    BY <1>3 DEF Job
<1> HIDE DEF i
<1>5. job'[w] = i
  BY <1>1, <1>2
<1>6. job' = [job EXCEPT ![w] = job'[w]]
  BY <1>1, <1>5
<1> QED
  BY <1>1, <1>2, <1>4, <1>5, <1>6

\* The job of a thread that waits.
LEMMA IdleType ==
    /\ Idle \in Job /\ Null \in Pointer
    /\ Idle.at = "idle" /\ Idle.a = None /\ Idle.id = 0 /\ Idle.k = "canvas"
    /\ Idle.p = Null /\ Idle.q = Null /\ Idle.robbed = FALSE
<1>1. Null \in Pointer
  BY DEF Null, Pointer, Block, Kind
<1> QED
  BY <1>1 DEF Idle, Job, At, Kind

\* A refusal leaves the worker idle.
LEMMA RefusesLooks ==
    ASSUME Types, NEW w \in Worker, NEW c, Refuses(w, c)
    PROVE  Looks(w)
<1>1. Takes(w, Idle) /\ UNCHANGED obj
  BY DEF Refuses
<1>2. /\ job[w].at = "idle" /\ JobOnly
      /\ job' = [job EXCEPT ![w] = job'[w]] /\ job'[w] \in Job
      /\ job'[w].at = "idle"
  BY <1>1, IdleType, TakesJob DEF JobOnly
<1> QED
  BY <1>2 DEF Looks, Making

\* The making of an object, from the view of the tables.
LEMMA MakesCreates ==
    ASSUME Types, NEW w \in Worker, NEW a \in Addr, NEW k \in Kind,
           Makes(w, a, k)
    PROVE  Creates(w)
<1> DEFINE j == [Idle EXCEPT !.at = "insert", !.a = a, !.k = k,
                             !.o = Len(obj[k]) + 1]
<1>1. session[a] # 0 /\ NewObject(a, k) /\ Takes(w, j)
  BY DEF Makes
<1>2. Len(obj[k]) \in Nat
  BY DEF Types
<1>3. /\ j \in Job
      /\ j.at = "insert" /\ j.a = a /\ j.k = k /\ j.o = Len(obj[k]) + 1
  <2>1. \A n \in Nat : LET i == [Idle EXCEPT !.at = "insert", !.a = a, !.k = k,
                                          !.o = n]
                     IN /\ i \in Job /\ i.at = "insert" /\ i.a = a /\ i.k = k
                        /\ i.o = n
    BY IdleType DEF Job, At
  <2>2. Len(obj[k]) + 1 \in Nat
    BY <1>2
  <2> QED
    BY <2>1, <2>2
<1> HIDE DEF j
<1>4. /\ job[w].at = "idle" /\ job'[w] \in Job
      /\ job' = [job EXCEPT ![w] = job'[w]]
      /\ UNCHANGED <<bound, session, dead, born, table, blame>>
      /\ job'[w].at = "insert" /\ job'[w].a = a /\ job'[w].k = k
      /\ job'[w].o = Len(obj[k]) + 1
  BY <1>1, <1>3, TakesJob
<1> QED
  BY <1>1, <1>4 DEF Creates, NewObject

\* A broken rule changes nothing but fault.
LEMMA BreaksStops ==
    ASSUME NEW t, NEW c, NEW k, Breaks(t, c, k)
    PROVE  Stops
  BY DEF Breaks, Stops, JobOnly, clientVars

\* A lookup ends with a fresh pointer, or with an answer.
LEMMA FindsLooks ==
    ASSUME Types, NEW w \in Worker, NEW k \in Kind, NEW n \in Arg,
           NEW next, NEW miss, Finds(w, k, n, next, miss),
           next \in {"remove", "adjust", "frame", "target"},
           next = "adjust" => k = "placement",
           next \in {"frame", "target"} => k = "canvas"
    PROVE  Stops \/ Looks(w)
<1> DEFINE p == Lookup(k, IntOf(n))
           j == [Idle EXCEPT !.at = next, !.k = k, !.id = IntOf(n), !.p = p,
                       !.o = EntryAt(p).ptr]
<1>1. IntOf(n) \in Int
  BY IntOfType
<1>2. CASE Refuses(w, {miss})
  BY <1>2, RefusesLooks
<1>3. CASE Breaks(w, Defect(p), k)
  BY <1>3, BreaksStops
<1>4. CASE Present(p) /\ UNCHANGED obj /\ Takes(w, j)
  <2>1. /\ p \in Pointer /\ p.k = k /\ p.i = IntOf(n) /\ p.g = "present"
        /\ IntOf(n) \in 0..table[k].count - 1
        /\ EntryAt(p) \in Entry /\ EntryAt(p).ptr # None
    BY <1>1, <1>4, LookupSound
  <2>2. EntryAt(p).ptr \in Nat \cup {None}
    BY <2>1 DEF Entry
  <2> HIDE DEF p
  <2>3. /\ j \in Job /\ j.at = next /\ j.k = k /\ j.id = IntOf(n) /\ j.p = p
        /\ j.o = EntryAt(p).ptr
    BY <1>1, <2>1, <2>2, IdleType DEF Job, At
  <2>4. p # Null
    BY <2>1 DEF Null
  <2> HIDE DEF j
  <2>5. /\ job[w].at = "idle" /\ job'[w] \in Job /\ JobOnly
        /\ job' = [job EXCEPT ![w] = job'[w]]
        /\ job'[w].at = next /\ job'[w].k = k /\ job'[w].id = IntOf(n)
        /\ job'[w].p = p /\ job'[w].o = EntryAt(p).ptr
        /\ ~job'[w].robbed => ~HalfGone(w, p)
    BY <1>4, <2>3, <2>4, TakesJob DEF JobOnly
  <2>6. Fresh(w, p, job'[w].robbed)
    <3>1. table[k].count \in Nat
      BY DEF Types, Table
    <3>2. p.i < table[p.k].count /\ p.g # "none"
      BY <2>1, <3>1
    <3> QED
      BY <2>1, <2>5, <3>2 DEF Fresh
  <2> QED
    BY <2>1, <2>5, <2>6 DEF Looks, Making
<1> QED
  BY <1>2, <1>3, <1>4 DEF Finds

\* Two lookups in a row.
LEMMA PlaceSpriteLooks ==
    ASSUME Types, NEW w \in Worker, NEW a \in Addr, PlaceSprite(w, a)
    PROVE  Stops \/ Looks(w)
<1>1. CASE Refuses(w, {"fail", "value"})
  BY <1>1, RefusesLooks
<1>2. ASSUME NEW c \in Arg, NEW n \in Arg,
             Refuses(w, {"value"})
      PROVE  Looks(w)
  BY <1>2, RefusesLooks
<1>3. ASSUME NEW k \in Kind, NEW d, Breaks(w, d, k) PROVE Stops
  BY <1>3, BreaksStops
<1>4. ASSUME NEW c \in Arg, NEW n \in Arg, NEW p, NEW q,
             p = Lookup("canvas", IntOf(c)), q = Lookup("sprite", IntOf(n)),
             Present(p), Present(q), UNCHANGED obj, session[a] # 0,
             Takes(w, [Idle EXCEPT !.at = "place", !.a = a, !.p = p, !.q = q])
      PROVE  Looks(w)
  <2> DEFINE j == [Idle EXCEPT !.at = "place", !.a = a, !.p = p, !.q = q]
  <2>1. /\ p \in Pointer /\ p.k = "canvas" /\ p.g = "present"
        /\ p.i \in 0..table["canvas"].count - 1 /\ EntryAt(p).ptr # None
    BY <1>4, IntOfType, LookupSound DEF Kind
  <2>2. /\ q \in Pointer /\ q.k = "sprite" /\ q.g = "present"
        /\ q.i \in 0..table["sprite"].count - 1 /\ EntryAt(q).ptr # None
    BY <1>4, IntOfType, LookupSound DEF Kind
  <2>3. table["canvas"].count \in Nat /\ table["sprite"].count \in Nat
    BY DEF Types, Table, Kind
  <2>4. p # Null /\ q # Null
    BY <2>1, <2>2 DEF Null
  <2>5. j \in Job /\ j.at = "place" /\ j.a = a /\ j.p = p /\ j.q = q
    BY <2>1, <2>2, IdleType DEF Job, At
  <2> HIDE DEF j
  <2>6. /\ job[w].at = "idle" /\ job'[w] \in Job /\ JobOnly
        /\ job' = [job EXCEPT ![w] = job'[w]]
        /\ job'[w].at = "place" /\ job'[w].a = a /\ job'[w].p = p
        /\ job'[w].q = q
        /\ ~job'[w].robbed => ~HalfGone(w, p) /\ ~HalfGone(w, q)
    <3>1. Takes(w, j)
      BY <1>4 DEF j
    <3> QED
      BY <1>4, <2>4, <2>5, <3>1, TakesJob DEF JobOnly
  <2>7. Fresh(w, p, job'[w].robbed)
    BY <2>1, <2>3, <2>6 DEF Fresh
  <2>8. Fresh(w, q, job'[w].robbed)
    BY <2>2, <2>3, <2>6 DEF Fresh
  <2> QED
    BY <1>4, <2>1, <2>2, <2>6, <2>7, <2>8 DEF Looks, Making
<1>5. ASSUME NEW c \in Arg, NEW n \in Arg, NEW p, NEW q, NEW bad,
             p = Lookup("canvas", IntOf(c)), q = Lookup("sprite", IntOf(n)),
             bad \in {p, q}, Breaks(w, Defect(bad), bad.k)
      PROVE  Stops
  BY <1>5, BreaksStops
<1> QED
  BY <1>1, <1>2, <1>4, <1>5 DEF PlaceSprite

\* A task begins as one of these, and its first steps as others.
LEMMA TaskCases ==
    ASSUME Types, NEW w \in Worker, Task(w)
    PROVE  Stops \/ Looks(w) \/ Creates(w)
<1>1. ASSUME NEW a \in Addr, CreateCanvas(w, a) \/ CreateSprite(w, a)
                             \/ CreateRectangle(w, a) \/ CreateCircle(w, a)
      PROVE  Looks(w) \/ Creates(w)
  <2>1. \/ \E c : Refuses(w, c)
        \/ \E k \in Kind : Makes(w, a, k)
    BY <1>1 DEF CreateCanvas, CreateSprite, CreateRectangle, CreateCircle, Kind
  <2> QED
    BY <2>1, RefusesLooks, MakesCreates
<1>2. InRange \subseteq Arg
  BY DEF InRange
<1>3. ASSUME NEW k \in Kind, NEW n \in Arg, NEW miss,
             \/ Finds(w, k, n, "remove", miss)
             \/ k = "placement" /\ Finds(w, k, n, "adjust", miss)
             \/ k = "canvas" /\ Finds(w, k, n, "frame", miss)
             \/ k = "canvas" /\ Finds(w, k, n, "target", miss)
      PROVE  Stops \/ Looks(w)
  BY <1>3, FindsLooks
<1>4. "placement" \in Kind /\ "canvas" \in Kind /\ "sprite" \in Kind
  BY DEF Kind
<1>5. ASSUME NEW ids \in SUBSET Arg, Adjusts(w, ids) PROVE Stops \/ Looks(w)
  BY <1>3, <1>4, <1>5, RefusesLooks DEF Adjusts
<1>6. CASE DestroyCanvas(w) \/ DestroySprite(w) \/ DestroyPlacement(w)
  BY <1>2, <1>3, <1>4, <1>6, RefusesLooks
     DEF DestroyCanvas, DestroySprite, DestroyPlacement
<1>7. CASE \/ PlacementUp(w) \/ PlacementDown(w) \/ PlacementTop(w)
           \/ PlacementBottom(w) \/ SetAnimParam(w)
  BY <1>2, <1>5, <1>7
     DEF PlacementUp, PlacementDown, PlacementTop, PlacementBottom, SetAnimParam
<1>8. CASE Generate(w) \/ Share(w)
  BY <1>2, <1>3, <1>4, <1>8, RefusesLooks DEF Generate, Share
<1> QED
  BY <1>1, <1>6, <1>7, <1>8, PlaceSpriteLooks DEF Task

\* A job that goes on keeps its pointers.
LEMMA StepType ==
    ASSUME NEW r \in Job, NEW at \in At
    PROVE  LET f == [r EXCEPT !.at = at, !.o = None, !.id = 0] IN
           /\ f \in Job /\ f.at = at /\ f.p = r.p /\ f.robbed = r.robbed
<1>1. [r EXCEPT !.at = at] \in Job
  BY DEF Job
<1>2. \A f \in Job : [f EXCEPT !.o = None] \in Job
  BY DEF Job
<1>3. \A f \in Job : [f EXCEPT !.id = 0] \in Job
  BY DEF Job
<1> QED
  BY <1>1, <1>2, <1>3 DEF Job

\* The steps of a worker between its lookup and its answer.
LEMMA HandlerCases ==
    ASSUME Types, NEW w \in Worker,
           Adjust(w) \/ NoDataFile(w) \/ Frame(w) \/ Film(w) \/ Target(w)
    PROVE  Stops \/ Looks(w)
<1> DEFINE film == [job[w] EXCEPT !.at = "film", !.o = None, !.id = 0]
           append == [job[w] EXCEPT !.at = "append", !.o = None, !.id = 0]
<1>1. w \in Thread /\ job[w] \in Job /\ job \in [Thread -> Job]
  BY DEF Types, Thread
<1>2. ASSUME NEW j \in Job, job' = [job EXCEPT ![w] = j]
      PROVE  job'[w] = j /\ job' = [job EXCEPT ![w] = job'[w]]
  BY <1>1, <1>2
<1>3. /\ film \in Job /\ film.at = "film" /\ film.p = job[w].p
      /\ film.robbed = job[w].robbed
  BY <1>1, StepType DEF At
<1>4. /\ append \in Job /\ append.at = "append" /\ append.p = job[w].p
      /\ append.robbed = job[w].robbed
  BY <1>1, StepType DEF At
<1> HIDE DEF film, append
<1>5. ASSUME NEW c, Answers(w, c), JobOnly,
             job[w].at \in {"adjust", "frame", "film", "target"}
      PROVE  Looks(w)
  <2>1. job' = [job EXCEPT ![w] = Idle]
    BY <1>5 DEF Answers, Becomes
  <2>2. /\ job'[w] \in Job /\ job'[w].at = "idle"
        /\ job' = [job EXCEPT ![w] = job'[w]]
    BY <1>2, <2>1, IdleType
  <2> QED
    BY <1>5, <2>2 DEF Looks, Making
<1>6. CASE Adjust(w)
  BY <1>5, <1>6, BreaksStops DEF Adjust, Uses, Calls, Ready, JobOnly, clientVars
<1>7. CASE NoDataFile(w)
  BY <1>5, <1>7 DEF NoDataFile, Ready, JobOnly, clientVars
<1>8. CASE Frame(w)
  <2>1. /\ job[w].at = "frame"
        /\ \/ Breaks(w, "object", "canvas")
           \/ JobOnly /\ \E c : Answers(w, c)
           \/ JobOnly /\ job' = [job EXCEPT ![w] = film]
    BY <1>8 DEF Frame, Calls, Ready, JobOnly, clientVars, Becomes, film
  <2>2. CASE JobOnly /\ job' = [job EXCEPT ![w] = film]
    BY <1>2, <1>3, <2>1, <2>2 DEF Looks, Making
  <2> QED
    BY <1>5, <2>1, <2>2, BreaksStops
<1>9. CASE Film(w)
  BY <1>5, <1>9, BreaksStops DEF Film, Uses, Ready, JobOnly, clientVars
<1>10. CASE Target(w)
  <2>1. /\ job[w].at = "target"
        /\ \/ Breaks(w, Defect(job[w].p), job[w].p.k)
           \/ JobOnly /\ \E c : Answers(w, c)
           \/ /\ JobOnly /\ job' = [job EXCEPT ![w] = append]
              /\ ~Full(EntryAt(job[w].p)) /\ Defect(job[w].p) = ""
    BY <1>10 DEF Target, Uses, Ready, JobOnly, clientVars, Becomes, append
  <2>2. CASE /\ JobOnly /\ job' = [job EXCEPT ![w] = append]
             /\ ~Full(EntryAt(job[w].p)) /\ Defect(job[w].p) = ""
    <3>1. EntryAt(job[w].p).shared < MAX_CLIENTS
      <4>1. job[w].p \in Pointer
        BY <1>1 DEF Job
      <4>2. EntryAt(job[w].p) \in Entry
        BY <2>2, <4>1, DefectFree
      <4>3. EntryAt(job[w].p).shared \in Nat /\ MAX_CLIENTS \in Nat
        BY <4>2, TableConstants DEF Entry
      <4>4. ~(EntryAt(job[w].p).shared >= MAX_CLIENTS)
        BY <2>2 DEF Full
      <4>5. \A m, n \in Nat : ~(m >= n) => m < n
        OBVIOUS
      <4> QED
        BY <4>3, <4>4, <4>5
    <3> QED
      BY <1>2, <1>4, <2>1, <2>2, <3>1 DEF Looks, Making
  <2> QED
    BY <1>5, <2>1, <2>2, BreaksStops
<1> QED
  BY <1>6, <1>7, <1>8, <1>9, <1>10

\* The placement that follows them makes an object.
LEMMA PlaceCases ==
    ASSUME Types, Shapes, NEW w \in Worker, Place(w)
    PROVE  Stops \/ Looks(w) \/ Creates(w)
<1> DEFINE i == job[w]
           j == [Idle EXCEPT !.at = "insert", !.a = i.a, !.k = "placement",
                             !.o = Len(obj["placement"]) + 1]
<1>1. w \in Thread /\ job[w] \in Job /\ job \in [Thread -> Job]
  BY DEF Types, Thread
<1>2. /\ i.at = "place"
      /\ \/ \E c, k : Breaks(w, c, k)
         \/ /\ NewObject(i.a, "placement") /\ job' = [job EXCEPT ![w] = j]
            /\ UNCHANGED <<bound, session, dead, born, table, blame>>
         \/ JobOnly /\ job' = [job EXCEPT ![w] = Idle]
  BY DEF Place, Uses, Calls, Ready, Becomes, Answers, JobOnly, clientVars
<1>3. CASE \E c, k : Breaks(w, c, k)
  BY <1>3, BreaksStops
<1>4. CASE JobOnly /\ job' = [job EXCEPT ![w] = Idle]
  <2>1. job'[w] = Idle
    BY <1>1, <1>4
  <2> QED
    BY <1>2, <1>4, <2>1, IdleType DEF Looks, Making
<1>5. CASE /\ NewObject(i.a, "placement") /\ job' = [job EXCEPT ![w] = j]
           /\ UNCHANGED <<bound, session, dead, born, table, blame>>
  <2>1. i.a \in Addr /\ session[i.a] # 0
    BY <1>1, <1>2 DEF Shapes, Shape
  <2>2. Len(obj["placement"]) + 1 \in Nat
    BY DEF Types, Kind
  <2>3. \A a \in Addr, n \in Nat :
            LET r == [Idle EXCEPT !.at = "insert", !.a = a, !.k = "placement",
                                  !.o = n]
            IN /\ r \in Job /\ r.at = "insert" /\ r.a = a /\ r.k = "placement"
               /\ r.o = n
    BY IdleType DEF Job, At, Kind
  <2>4. /\ j \in Job /\ j.at = "insert" /\ j.a = i.a /\ j.k = "placement"
        /\ j.o = Len(obj["placement"]) + 1
    BY <2>1, <2>2, <2>3, ZenonT(60)
  <2> HIDE DEF j
  <2>5. job'[w] = j /\ job' = [job EXCEPT ![w] = job'[w]]
    BY <1>1, <1>5
  <2> QED
    BY <1>2, <1>5, <2>1, <2>4, <2>5 DEF Creates, NewObject
<1> QED
  BY <1>2, <1>3, <1>4, <1>5

-----------------------------------------------------------------------------
(* Tables that a step leaves alone *)

\* What others may rely on of the job of thread t, as it was.
WitnessKept(t, k) ==
    LET i == job[t]
        j == job'[t]
    IN /\ i.k = k /\ i.at \in {"assign", "count", "clear"} =>
            /\ j.at = i.at /\ j.k = k /\ j.o = i.o
            /\ j.q.k = i.q.k /\ j.q.i = i.q.i
       /\ i.k = k /\ i.at \in Nameless =>
            j.at \in Nameless /\ j.k = k /\ j.o = i.o
       /\ i.at = "done" => j.at = "done"

\* The other threads keep their places, and their pointers into table k.
OthersAt(t, k) ==
    \A u \in Thread \ {t} :
        Kept(u) /\ (job[u].p.k = k => job'[u].p.g = job[u].p.g)

\* A thread that is overtaken still explains what it explained.
LEMMA KeptWitness ==
    ASSUME NEW u, NEW k, Kept(u)
    PROVE  WitnessKept(u, k)
  BY DEF Kept, PointerKept, WitnessKept

\* The jobs are records before and after.
LEMMA JobsType ==
    ASSUME Types, NEW t \in Thread
    PROVE  /\ job[t] \in Job /\ job[t].p \in Pointer /\ job[t].q \in Pointer
           /\ job[t].k \in Kind /\ job[t].p.k \in Kind /\ job[t].q.k \in Kind
           /\ job[t].p.i \in Nat /\ job[t].q.i \in Nat
           /\ job[t].robbed \in BOOLEAN /\ job[t].id \in Int
  BY DEF Types, Job, Pointer

\* What a table is made of.
LEMMA TableType ==
    ASSUME Types, NEW k \in Kind
    PROVE  /\ table[k].count \in Nat /\ table[k].cap \in Nat
           /\ table[k].arr \in Block
           /\ \A i \in 1..table[k].cap : table[k].slot[i] \in Entry \cup {Junk}
           /\ Len(table[k].slot) = table[k].cap
           /\ obj[k] \in Seq(Object)
           /\ \A x \in DOMAIN obj[k] : obj[k][x] \in Object
           /\ DOMAIN obj[k] = 1..Len(obj[k]) /\ Len(obj[k]) \in Nat
<1>1. table[k] \in Table /\ Len(table[k].slot) = table[k].cap
      /\ obj[k] \in Seq(Object)
  BY DEF Types
<1>2. table[k].slot \in Seq(Entry \cup {Junk})
  BY <1>1 DEF Table
<1>3. \A i \in 1..table[k].cap : table[k].slot[i] \in Entry \cup {Junk}
  BY <1>1, <1>2, ElementOfSeq
<1>4. \A x \in DOMAIN obj[k] : obj[k][x] \in Object
  BY <1>1, ElementOfSeq, LenProperties
<1> QED
  BY <1>1, <1>3, <1>4, LenProperties DEF Table

\* Nobody joins a worker that works on a table.
LEMMA AloneKept ==
    ASSUME NEW t \in Thread, NEW k, Alone(k), Others(t),
           job'[t].at \in Entering /\ job'[t].k = k =>
               job[t].at \in Entering /\ job[t].k = k
    PROVE  Alone(k)'
<1>1. \A u \in Worker : job'[u].at \in Entering /\ job'[u].k = k =>
               job[u].at \in Entering /\ job[u].k = k
  BY DEF Others, Kept, Thread
<1> QED
  BY <1>1 DEF Alone

\* A table that a step does not touch, nor says more about, stays clean.
LEMMA SameTable ==
    ASSUME Types, Shapes, NEW t \in Thread, NEW k \in Kind, Clean(k),
           table'[k] = table[k], obj'[k] = obj[k],
           OthersAt(t, k), WitnessKept(t, k),
           Alone(k)', t \in Worker => EnteredBy(t, k)',
           RemovedBy(t, k)', PointersOf(t, k)', Owners(k)'
    PROVE  Clean(k)'
<1>w. Worker \subseteq Thread
  BY DEF Thread
<1>1. \A u \in Thread \ {t} : Kept(u)
  BY DEF OthersAt
<1>2. \A u \in Thread : WitnessKept(u, k)
  BY <1>1, KeptWitness
<1>4. Array(k)'
  BY <1>w, <1>2, Main \in Thread DEF Clean, Array, WitnessKept, Thread
<1>5. Entered(k)'
  <2> SUFFICES ASSUME NEW u \in Worker PROVE EnteredBy(u, k)'
    BY DEF Entered
  <2>1. CASE u = t
    BY <2>1
  <2>2. CASE u # t
    <3>1. /\ job'[u].at = job[u].at /\ job'[u].k = job[u].k
          /\ job'[u].a = job[u].a /\ job'[u].o = job[u].o
          /\ job'[u].id = job[u].id
      BY <1>w, <1>1, <2>2 DEF Kept
    <3>2. job[u].k = k /\ job[u].at = "assign" => job'[u].p.g = job[u].p.g
      BY <1>w, <2>2 DEF OthersAt, Shapes, Shape
    <3>3. EnteredBy(u, k)
      BY DEF Clean, Entered
    <3> QED
      BY <3>1, <3>2, <3>3 DEF EnteredBy
  <2> QED
    BY <2>1, <2>2
<1>6. NamedOnce(k)'
  BY <1>w, <1>2 DEF Clean, NamedOnce, EntryOf, WitnessKept
<1>7. Living(k)'
  <2>1. \A w \in Worker : job[w].at \in Nameless /\ job[w].k = k =>
            job'[w].at \in Nameless /\ job'[w].k = k /\ job'[w].o = job[w].o
    BY <1>w, <1>2 DEF WitnessKept
  <2>2. \A u \in Thread : job[u].at = "clear" /\ job[u].k = k =>
            /\ job'[u].at = "clear" /\ job'[u].k = k
            /\ job'[u].q.k = job[u].q.k /\ job'[u].q.i = job[u].q.i
    BY <1>2 DEF WitnessKept
  <2> QED
    BY <2>1, <2>2 DEF Clean, Living, EntryOf
<1>8. Removing(k)'
  <2> SUFFICES ASSUME NEW u \in Thread PROVE RemovedBy(u, k)'
    BY DEF Removing
  <2>1. CASE u = t
    BY <2>1
  <2>2. CASE u # t
    <3>1. /\ job'[u].at = job[u].at /\ job'[u].k = job[u].k
          /\ job'[u].id = job[u].id
          /\ job'[u].q.k = job[u].q.k /\ job'[u].q.i = job[u].q.i
          /\ job[u].q.g # "none" => job'[u].q.g # "none"
      BY <1>1, <2>2 DEF Kept, PointerKept
    <3>2. RemovedBy(u, k)
      BY DEF Clean, Removing
    <3> QED
      BY <3>1, <3>2 DEF RemovedBy
  <2> QED
    BY <2>1, <2>2
<1>9. Pointers(k)'
  <2> SUFFICES ASSUME NEW u \in Thread PROVE PointersOf(u, k)'
    BY DEF Pointers
  <2>1. CASE u = t
    BY <2>1
  <2>2. CASE u # t
    <3>1. /\ job'[u].at = job[u].at /\ job'[u].k = job[u].k
          /\ job'[u].o = job[u].o
          /\ job'[u].p.k = job[u].p.k /\ job'[u].p.i = job[u].p.i
          /\ job'[u].q.k = job[u].q.k /\ job'[u].q.i = job[u].q.i
          /\ job[u].p.g # "none" => job'[u].p.g # "none"
          /\ job[u].q.g # "none" => job'[u].q.g # "none"
          /\ ~job'[u].robbed => ~job[u].robbed
      BY <1>1, <2>2 DEF Kept, PointerKept
    <3>2. PointersOf(u, k)
      BY DEF Clean, Pointers
    <3>3. job[u].at \in Using /\ job[u].p.k = k
              => Sound(job[u].p, job[u].robbed)'
      BY <3>1, <3>2 DEF PointersOf, Sound
    <3>4. job[u].at = "clear" /\ u = Main /\ job[u].k = k
              => Sound(job[u].p, TRUE)'
      <4>1. Main \in Thread
        BY DEF Thread
      <4>2. job[Main].at = "clear" /\ job[Main].k = k => job[Main].p.k = k
        BY <4>1 DEF Shapes, Shape
      <4> QED
        BY <3>1, <3>2, <4>2, ZenonT(60) DEF PointersOf, Sound
    <3>5. job[u].at = "place" /\ job[u].q.k = k
              => Sound(job[u].q, job[u].robbed)'
      BY <3>1, <3>2 DEF PointersOf, Sound
    <3> QED
      BY <3>1, <3>2, <3>3, <3>4, <3>5 DEF PointersOf
  <2> QED
    BY <2>1, <2>2
<1> QED
  BY <1>4, <1>5, <1>6, <1>7, <1>8, <1>9 DEF Clean

\* A job is about table k.
About(j, k) ==
    \/ j.at \in Making \cup {"remove", "clear"} /\ j.k = k
    \/ j.at \in Using /\ j.p.k = k
    \/ j.at = "place" /\ j.q.k = k

\* What the walk of the main thread is doing elsewhere.
MainKept(t, k) ==
    t = Main =>
        /\ job'[Main].a = job[Main].a /\ job'[Main].k = job[Main].k
        /\ job[Main].k = k => job'[Main].id = job[Main].id

\* The owners of a table whose entries name the same objects, of the same
\* sessions.
LEMMA OwnersStay ==
    ASSUME NEW k \in Kind, Owners(k), table'[k].count = table[k].count,
           \A i \in 1..table[k].count : table'[k].slot[i] = table[k].slot[i],
           \A i \in 1..table[k].count : table[k].slot[i].ptr # None =>
              obj'[k][table[k].slot[i].ptr].late = obj[k][table[k].slot[i].ptr].late,
           \A i \in 1..table[k].count : table[k].slot[i].ptr # None =>
              \A a \in Addr : obj'[k][table[k].slot[i].ptr].by = session'[a]
                                 <=> obj[k][table[k].slot[i].ptr].by = session[a],
           \A a \in Addr : \A i : Passed(a, k, i)' => Passed(a, k, i),
           job'[Main].at = "remove" /\ job'[Main].k = k =>
              table'[k].slot[job'[Main].id + 1].owner = job'[Main].a
    PROVE  Owners(k)'
<1>1. ASSUME NEW i \in 1..table'[k].count, table'[k].slot[i].ptr # None
      PROVE  LET e == table'[k].slot[i] IN
             /\ \A a \in Addr : obj'[k][e.ptr].by = session'[a] =>
                 /\ e.owner = a
                 /\ Passed(a, k, i - 1)' => obj'[k][e.ptr].late
             /\ (\A a \in Addr : obj'[k][e.ptr].by # session'[a]) =>
                   obj'[k][e.ptr].late
  <2> DEFINE e == table[k].slot[i]
  <2>1. i \in 1..table[k].count /\ table'[k].slot[i] = e /\ e.ptr # None
    BY <1>1
  <2>2. /\ \A a \in Addr : obj[k][e.ptr].by = session[a] =>
            /\ e.owner = a
            /\ Passed(a, k, i - 1) => obj[k][e.ptr].late
        /\ (\A a \in Addr : obj[k][e.ptr].by # session[a]) => obj[k][e.ptr].late
    BY <2>1 DEF Owners
  <2>3. /\ obj'[k][e.ptr].late = obj[k][e.ptr].late
        /\ \A a \in Addr : obj'[k][e.ptr].by = session'[a]
                              <=> obj[k][e.ptr].by = session[a]
    BY <2>1
  <2>4. \A a \in Addr : Passed(a, k, i - 1)' => Passed(a, k, i - 1)
    OBVIOUS
  <2> HIDE DEF e
  <2>5. \A a \in Addr : obj'[k][e.ptr].by = session'[a] =>
            /\ e.owner = a
            /\ Passed(a, k, i - 1)' => obj'[k][e.ptr].late
    BY <2>2, <2>3, <2>4
  <2>6. (\A a \in Addr : obj'[k][e.ptr].by # session'[a]) =>
            obj'[k][e.ptr].late
    BY <2>2, <2>3
  <2> QED
    BY <2>1, <2>5, <2>6
<1> QED
  BY <1>1 DEF Owners

\* The owners of a table that nobody touches.
LEMMA OwnersKept ==
    ASSUME NEW t \in Thread, NEW k \in Kind, Owners(k),
           table'[k] = table[k], obj'[k] = obj[k], session' = session,
           dead' = dead, OthersAt(t, k), MainKept(t, k),
           t = Main => ~(job'[Main].at = "remove" /\ job'[Main].k = k)
    PROVE  Owners(k)'
<1>1. /\ job'[Main].a = job[Main].a /\ job'[Main].k = job[Main].k
      /\ job[Main].k = k => job'[Main].id = job[Main].id
      /\ job'[Main].at = "remove" /\ job'[Main].k = k => job[Main].at = "remove"
  BY DEF OthersAt, Kept, MainKept, Thread
<1>2. \A a \in Addr : \A i : Passed(a, k, i)' => Passed(a, k, i)
  BY <1>1 DEF Passed
<1>4. job'[Main].at = "remove" /\ job'[Main].k = k =>
          table'[k].slot[job'[Main].id + 1].owner = job'[Main].a
  BY <1>1 DEF Owners
<1> QED
  BY <1>2, <1>4, OwnersStay

\* A step that is about other tables.
LEMMA OtherTable ==
    ASSUME Types, Shapes, Shapes', NEW t \in Thread, NEW k \in Kind, Clean(k),
           table'[k] = table[k], obj'[k] = obj[k], session' = session,
           dead' = dead, OthersAt(t, k), MainKept(t, k),
           ~About(job[t], k), ~About(job'[t], k), job[t].at # "done"
    PROVE  Clean(k)'
<1>1. WitnessKept(t, k)
  BY DEF WitnessKept, About, Making, Nameless
<1>2. /\ EnteredBy(t, k)' /\ RemovedBy(t, k)'
      /\ ~(job'[t].at \in Entering /\ job'[t].k = k)
      /\ ~(job'[t].at = "remove" /\ job'[t].k = k)
  BY DEF EnteredBy, RemovedBy, About, Making, Entering
<1>3. PointersOf(t, k)'
  <2>1. job'[t].at \in {"frame", "append"} => job'[t].p.k = "canvas"
    BY DEF Shapes, Shape
  <2> QED
    BY <2>1 DEF PointersOf, About, Using
<1>4. Owners(k)'
  BY <1>2, OwnersKept DEF Clean
<1>5. Alone(k)'
  BY <1>2, AloneKept DEF Clean, Others, OthersAt
<1> QED
  BY <1>1, <1>2, <1>3, <1>4, <1>5, SameTable

\* Only thread t moves.
LEMMA AloneMoves ==
    ASSUME Types, NEW t \in Thread, NEW j \in Job,
           job' = [job EXCEPT ![t] = j]
    PROVE  /\ \A k : OthersAt(t, k)
           /\ job' \in [Thread -> Job] /\ job'[t] = j
           /\ Others(t) /\ \A u \in Thread \ {t} : job'[u] = job[u]
<1>1. job \in [Thread -> Job]
  BY DEF Types
<1> QED
  BY <1>1 DEF OthersAt, Others, Kept, PointerKept

\* What has just been looked up can be used.
LEMMA FreshSound ==
    ASSUME Types, NEW w \in Thread, NEW k \in Kind, Clean(k),
           NEW p \in Pointer, NEW r \in BOOLEAN, p.k = k, Fresh(w, p, r),
           job[w].at # "clear"
    PROVE  Sound(p, r)
<1>1. /\ p.g # "none" /\ p.i < table[k].count /\ EntryAt(p).ptr # None
      /\ ~r => ~HalfGone(w, p)
      /\ p.i \in Nat
  BY DEF Fresh, Pointer
<1>2. table[k].count \in Nat
  BY TableType
<1>3. p.i + 1 \in 1..table[k].count /\ (p.i + 1) - 1 = p.i
  BY <1>1, <1>2, IndexOf
<1>4. ASSUME ~r, ~obj[k][table[k].slot[p.i + 1].ptr].alive PROVE FALSE
  <2>1. PICK t \in Thread : /\ job[t].at = "clear" /\ job[t].k = k
                            /\ job[t].q.k = k /\ job[t].q.i = p.i
    BY <1>1, <1>3, <1>4 DEF Clean, Living, EntryAt
  <2>2. p # Null
    BY <1>1 DEF Null
  <2>a. job[t].q # Null
    <3>1. RemovedBy(t, k)
      BY DEF Clean, Removing
    <3>2. job[t].q.g # "none"
      BY <2>1, <3>1 DEF RemovedBy
    <3>3. Null.g = "none"
      BY DEF Null
    <3> QED
      BY <3>2, <3>3, ZenonT(60)
  <2>3. HalfGone(w, p)
    BY <2>1, <2>2, <2>a DEF HalfGone, Same
  <2> QED
    BY <1>1, <1>4, <2>3
<1> QED
  BY <1>1, <1>4 DEF Sound, EntryAt

\* A lookup, or a step without effect on tables, keeps every table clean.
LEMMA LooksClean ==
    ASSUME Types, Shapes, NEW w \in Worker, Looks(w), NEW k \in Kind, Clean(k)
    PROVE  Clean(k)'
<1> DEFINE i == job[w]
           j == job'[w]
<1>1. w \in Thread /\ w # Main /\ w \in Worker
  BY TableConstants DEF Thread
<1>2. /\ i.at \notin Making \cup {"clear", "done", "remove", "test"}
      /\ JobOnly /\ j \in Job /\ job' = [job EXCEPT ![w] = j]
  BY DEF Looks
<1>3. /\ table'[k] = table[k] /\ obj'[k] = obj[k] /\ session' = session
      /\ dead' = dead
  BY <1>2 DEF JobOnly
<1>4. OthersAt(w, k)
  BY <1>1, <1>2, AloneMoves
<1>5. WitnessKept(w, k)
  BY <1>2 DEF WitnessKept, Making, Nameless
<1>6. j.at \in {"idle", "remove", "adjust", "frame", "target", "place",
                "film", "append"}
  BY DEF Looks
<1>7. EnteredBy(w, k)' /\ ~(j.at \in Entering)
  BY <1>6 DEF EnteredBy, Entering, Making
<1>8. Owners(k)'
  BY <1>1, <1>3, <1>4, OwnersKept DEF Clean, MainKept
<1>9. RemovedBy(w, k)'
  <2>1. j.at = "remove" => j.id \in 0..table[j.k].count - 1
    BY DEF Looks
  <2> QED
    BY <1>3, <1>6, <2>1 DEF RemovedBy
<1>10. PointersOf(w, k)'
  <2>1. j.p \in Pointer /\ j.q \in Pointer /\ j.robbed \in BOOLEAN
    BY <1>2 DEF Job
  <2>2. \A p \in Pointer : p.k = k /\ Fresh(w, p, j.robbed) =>
            Sound(p, j.robbed)
    BY <1>1, <1>2, <2>1, FreshSound
  <2>3. \A p : p.k = k /\ Sound(p, j.robbed) =>
          /\ p.g # "none" /\ p.i < table'[p.k].count
          /\ ~j.robbed => LET x == table'[p.k].slot[p.i + 1].ptr IN
                          x # None /\ obj'[p.k][x].alive
    BY <1>3 DEF Sound
  <2>4. j.at \in Using /\ j.p.k = k => Sound(j.p, j.robbed)
    <3>1. CASE j.at \in {"remove", "adjust", "frame", "target", "place"}
      <4>1. Fresh(w, j.p, j.robbed)
        BY <3>1 DEF Looks
      <4> QED
        BY <2>1, <2>2, <4>1
    <3>2. CASE j.at \in {"film", "append"}
      <4>1. j.p = i.p /\ j.robbed = i.robbed /\ i.at \in Using
        BY <3>2 DEF Looks, Using
      <4>2. PointersOf(w, k)
        BY <1>1 DEF Clean, Pointers
      <4> QED
        BY <4>1, <4>2 DEF PointersOf
    <3> QED
      BY <1>6, <3>1, <3>2 DEF Using
  <2>5. j.at = "place" /\ j.q.k = k => Sound(j.q, j.robbed)
    BY <2>1, <2>2 DEF Looks
  <2>6. j.at = "frame" /\ k = "canvas" =>
           j.o = table[k].slot[j.p.i + 1].ptr
    BY DEF Looks, EntryAt
  <2>7. j.at = "append" /\ k = "canvas" =>
           table[k].slot[j.p.i + 1].shared < MAX_CLIENTS
    BY <1>1 DEF Looks, EntryAt, Shapes, Shape
  <2>8. job'[w].at \in Using /\ job'[w].p.k = k
            => Sound(job[w].p, job[w].robbed)'
    BY <2>3, <2>4 DEF Sound
  <2>9. job'[w].at = "place" /\ job'[w].q.k = k
            => Sound(job[w].q, job[w].robbed)'
    BY <2>3, <2>5 DEF Sound
  <2> QED
    BY <1>1, <1>3, <2>6, <2>7, <2>8, <2>9 DEF PointersOf
<1>11. Alone(k)'
  BY <1>1, <1>2, <1>7, AloneMoves, AloneKept DEF Clean
<1> QED
  BY <1>1, <1>3, <1>4, <1>5, <1>7, <1>8, <1>9, <1>10, <1>11, SameTable

-----------------------------------------------------------------------------
(* Steps that leave the tables and their objects alone *)

\* The part of the invariant that does not look into the tables.
Core == Types /\ Sessions /\ Shapes /\ Apart

\* Objects stay, and stay their client's.
ObjectsStay ==
    \A k \in Kind : \A x \in DOMAIN obj[k] :
        x \in DOMAIN obj'[k] /\ obj'[k][x].by = obj[k][x].by

\* What no other insertion has named stays without a name.
NamelessStay(t) ==
    \A u \in Worker \ {t} : job[u].at \in Nameless =>
        obj'[job[u].k][job[u].o].id = None

\* The other threads keep the shape of their jobs.
LEMMA ShapesKept ==
    ASSUME Types, Shapes, NEW t \in Thread, Others(t), session' = session,
           dead' = dead, ObjectsStay, NamelessStay(t), Shape(t)',
           job[Main].at # "done"
    PROVE  Shapes'
<1> SUFFICES ASSUME NEW u \in Thread \ {t} PROVE Shape(u)'
  BY DEF Shapes
<1>1. /\ job'[u].at = job[u].at /\ job'[u].a = job[u].a
      /\ job'[u].k = job[u].k /\ job'[u].id = job[u].id
      /\ job'[u].o = job[u].o
      /\ job'[u].p.k = job[u].p.k /\ job'[u].p.i = job[u].p.i
      /\ job'[u].q.k = job[u].q.k /\ job'[u].q.i = job[u].q.i
      /\ (IsNull(job[u].q) => IsNull(job[u].q)')
  BY DEF Others, Kept, PointerKept, IsNull
<1>2. Shape(u)
  BY DEF Shapes
<1>3. job[u].k \in Kind
  BY JobsType
<1>4. job[u].at \in Making => u \in Worker
  <2>1. u = Main => job[u].at \in Walking \cup {"idle", "done"}
    BY <1>2 DEF Shape
  <2> QED
    BY <2>1 DEF Making, Walking, Thread
<1>5. job[u].at \in Making =>
        /\ job[u].o \in DOMAIN obj'[job[u].k]
        /\ obj'[job[u].k][job[u].o].by = session[job[u].a]
        /\ job[u].at \in Nameless => obj'[job[u].k][job[u].o].id = None
  BY <1>2, <1>3, <1>4 DEF ObjectsStay, NamelessStay, Shape
<1>6. u = Main => job[u].at # "done"
  OBVIOUS
<1>7. job'[u].at \in Making =>
        /\ job'[u].o \in DOMAIN obj'[job'[u].k] /\ job'[u].a \in Addr
        /\ session'[job'[u].a] # 0
        /\ obj'[job'[u].k][job'[u].o].by = session'[job'[u].a]
        /\ job'[u].at \in Nameless => obj'[job'[u].k][job'[u].o].id = None
  BY <1>1, <1>2, <1>5 DEF Shape
<1>8. u = Main =>
        /\ job'[u].at \in Walking \cup {"idle", "done"}
        /\ job'[u].at \in Walking => job'[u].a \in dead' /\ job'[u].id \in Nat
        /\ job'[u].at \notin Walking => job'[u].a = None
        /\ job'[u].at = "clear" => job'[u].p.k = job'[u].k
                                   /\ job'[u].p.i = job'[u].id
        /\ job'[u].at = "done" => \A w \in Worker : job'[w].at = "idle"
  BY <1>1, <1>2, <1>6 DEF Shape
<1>9. /\ job'[u].at = "place" =>
        /\ job'[u].a \in Addr /\ session'[job'[u].a] # 0
        /\ job'[u].p.k = "canvas" /\ job'[u].q.k = "sprite"
      /\ job'[u].at \in {"frame", "film", "target", "append"}
            => job'[u].p.k = "canvas"
      /\ job'[u].at = "adjust" => job'[u].p.k = "placement"
      /\ job'[u].at = "remove" => job'[u].p.k = job'[u].k
                                  /\ job'[u].p.i = job'[u].id
      /\ job'[u].at = "assign" => job'[u].p.k = job'[u].k
      /\ job'[u].at = "count" => job'[u].id \in Nat
      /\ job'[u].at = "clear" => (IsNull(job[u].q)'
            \/ (job'[u].q.k = job'[u].k /\ job'[u].q.i = job'[u].id))
      /\ u \in Worker => job'[u].at \notin {"test", "done"}
  BY <1>1, <1>2 DEF Shape
<1> QED
  BY <1>7, <1>8, <1>9 DEF Shape

\* A busy worker, or one whose queue is open, has the main thread running.
LEMMA MainRuns ==
    ASSUME Shapes, NEW w \in Worker, job[w].at # "idle"
    PROVE  job[Main].at # "done"
  BY DEF Shapes, Shape, Thread

\* Clients that stay keep their addresses.
LEMMA SessionsKept ==
    ASSUME Types, Sessions, session' = session, dead' = dead, born' = born,
           \A k \in Kind : \A x \in DOMAIN obj'[k] : obj'[k][x].by <= born
    PROVE  Sessions'
  BY DEF Sessions

\* No second insertion of an object begins.
LEMMA ApartKept ==
    ASSUME Apart, NEW t \in Thread, Others(t),
           job'[t].at \in Making =>
              /\ job[t].at \in Making
              /\ job'[t].k = job[t].k /\ job'[t].o = job[t].o
    PROVE  Apart'
<1>1. \A u \in Worker : job'[u].at \in Making =>
        job[u].at \in Making /\ job'[u].k = job[u].k /\ job'[u].o = job[u].o
  BY DEF Others, Kept, Thread
<1> QED
  BY <1>1 DEF Apart

\* A lookup keeps the shapes of all jobs.
LEMMA LooksCore ==
    ASSUME Core, NEW w \in Worker, Looks(w), job[Main].at # "done"
    PROVE  Core'
<1> DEFINE i == job[w]
           j == job'[w]
<1>0. Types /\ Sessions /\ Shapes /\ Apart
  BY DEF Core
<1>1. w \in Thread /\ w # Main
  BY TableConstants DEF Thread
<1>2. /\ i.at \notin Making \cup {"clear", "done", "remove", "test"}
      /\ JobOnly /\ j \in Job /\ job' = [job EXCEPT ![w] = j]
  BY DEF Looks
<1>3. job' \in [Thread -> Job] /\ Others(w)
  BY <1>0, <1>1, <1>2, AloneMoves
<1>4. j.at \in {"idle", "remove", "adjust", "frame", "target", "place",
                "film", "append"}
  BY DEF Looks
<1>5. Types'
  BY <1>0, <1>2, <1>3 DEF Types, JobOnly
<1>6. Sessions'
  BY <1>0, <1>2 DEF Sessions, JobOnly
<1>7. Shape(w)
  BY <1>0, <1>1 DEF Shapes
<1>8. /\ j.at \in {"remove", "adjust", "frame", "target"} =>
           /\ j.p.k = j.k /\ j.p.i = j.id
           /\ j.at = "adjust" => j.k = "placement"
           /\ j.at \in {"frame", "target"} => j.k = "canvas"
      /\ j.at = "place" => /\ j.p.k = "canvas" /\ j.q.k = "sprite"
                           /\ j.a \in Addr /\ session[j.a] # 0
      /\ j.at \in {"film", "append"} => j.p = i.p
                                         /\ i.at \in {"frame", "target"}
  BY DEF Looks
<1>9. Shape(w)'
  <2>1. j.at \in {"film", "append"} => j.p.k = "canvas"
    BY <1>7, <1>8 DEF Shape
  <2>2. session' = session
    BY <1>2 DEF JobOnly
  <2> QED
    BY <1>1, <1>4, <1>8, <2>1, <2>2 DEF Shape, Making
<1>10. ObjectsStay
  BY <1>2 DEF JobOnly, ObjectsStay
<1>11. NamelessStay(w)
  <2>1. \A u \in Worker : job[u].at \in Nameless => Shape(u)
    BY <1>0 DEF Shapes, Thread
  <2> QED
    BY <1>2, <2>1 DEF JobOnly, NamelessStay, Shape, Making, Nameless
<1>12. Shapes'
  BY <1>0, <1>1, <1>2, <1>3, <1>9, <1>10, <1>11, ShapesKept DEF JobOnly
<1>13. Apart'
  BY <1>0, <1>1, <1>3, <1>4, ApartKept DEF Making
<1> QED
  BY <1>5, <1>6, <1>12, <1>13 DEF Core
-----------------------------------------------------------------------------
(* Steps that leave the entries of a table alone *)

EntriesStay(k) ==
    \A i \in 1..table[k].count :
        /\ i \in 1..table'[k].count
        /\ table'[k].slot[i] = table[k].slot[i]
        /\ LET x == table[k].slot[i].ptr IN
           x # None => obj'[k][x].alive = obj[k][x].alive

\* All entries but number e, of which no more can be said than before.
StaysBut(k, e) ==
    \A i \in 1..table[k].count :
        /\ i \in 1..table'[k].count
        /\ i # e => /\ table'[k].slot[i] = table[k].slot[i]
                    /\ LET x == table[k].slot[i].ptr IN
                       x # None => obj'[k][x].alive = obj[k][x].alive
        /\ LET x == table'[k].slot[i].ptr IN
           x # None => \/ ~obj'[k][x].alive
                       \/ x = table[k].slot[i].ptr /\ obj[k][x].alive

\* The others that have looked at entry e are robbed.
RobbedAt(t, k, e) ==
    \A u \in Thread \ {t} : ~job'[u].robbed =>
        /\ job[u].at \in Using /\ job[u].p.k = k => job[u].p.i + 1 # e
        /\ job[u].at = "place" /\ job[u].q.k = k => job[u].q.i + 1 # e

\* An entry another step does not change, seen through a pointer.
LEMMA EntryStays ==
    ASSUME Types, Types', NEW k \in Kind, NEW e, StaysBut(k, e),
           NEW i \in Nat, i < table[k].count
    PROVE  /\ i < table'[k].count
           /\ i + 1 # e =>
                /\ table'[k].slot[i + 1] = table[k].slot[i + 1]
                /\ LET x == table[k].slot[i + 1].ptr IN
                   x # None => obj'[k][x].alive = obj[k][x].alive
           /\ LET x == table'[k].slot[i + 1].ptr IN
              x # None => \/ ~obj'[k][x].alive
                          \/ x = table[k].slot[i + 1].ptr /\ obj[k][x].alive
<1>1. table[k].count \in Nat /\ table'[k].count \in Nat
  BY DEF Types, Table
<1>2. i + 1 \in 1..table[k].count
  BY <1>1, IndexOf
<1>3. i + 1 \in 1..table'[k].count
  BY <1>2 DEF StaysBut
<1>4. i < table'[k].count
  BY <1>1, <1>3
<1> QED
  BY <1>2, <1>4 DEF StaysBut

\* Where all entries stay, none is an exception.
LEMMA NoneBut ==
    ASSUME Types, NEW t \in Thread, NEW k \in Kind, EntriesStay(k)
    PROVE  StaysBut(k, 0) /\ RobbedAt(t, k, 0)
<1>1. \A u \in Thread : job[u].p.i + 1 # 0 /\ job[u].q.i + 1 # 0
  BY JobsType
<1>2. RobbedAt(t, k, 0)
  BY <1>1 DEF RobbedAt
<1>3. ASSUME NEW i \in 1..table[k].count
      PROVE  /\ i \in 1..table'[k].count
             /\ table'[k].slot[i] = table[k].slot[i]
             /\ LET x == table[k].slot[i].ptr IN
                x # None => obj'[k][x].alive = obj[k][x].alive
  BY DEF EntriesStay
<1>4. StaysBut(k, 0)
  BY <1>3 DEF StaysBut
<1> QED
  BY <1>2, <1>4

\* Removals under way, when one entry changes.
LEMMA RemovingStays ==
    ASSUME Types, Types', NEW t \in Thread, NEW k \in Kind, Removing(k),
           NEW e, StaysBut(k, e), Others(t), RemovedBy(t, k)'
    PROVE  Removing(k)'
<1> SUFFICES ASSUME NEW u \in Thread \ {t} PROVE RemovedBy(u, k)'
  BY DEF Removing
<1>1. /\ job'[u].at = job[u].at /\ job'[u].k = job[u].k
      /\ job'[u].id = job[u].id
      /\ job'[u].q.k = job[u].q.k /\ job'[u].q.i = job[u].q.i
      /\ job[u].q.g # "none" => job'[u].q.g # "none"
  BY DEF Others, Kept, PointerKept
<1>2. RemovedBy(u, k)
  BY DEF Removing
<1>3. ASSUME job[u].k = k, job[u].at \in {"remove", "clear"}
      PROVE  /\ job[u].id \in 0..table'[k].count - 1
             /\ LET x == table'[k].slot[job[u].id + 1].ptr IN
                x # None => \/ ~obj'[k][x].alive
                            \/ /\ x = table[k].slot[job[u].id + 1].ptr
                               /\ obj[k][x].alive
  <2>1. job[u].id \in 0..table[k].count - 1
    BY <1>2, <1>3 DEF RemovedBy
  <2>2. table[k].count \in Nat /\ table'[k].count \in Nat
    BY DEF Types, Table
  <2>3. job[u].id \in Nat /\ job[u].id < table[k].count
    BY <2>1, <2>2
  <2>4. /\ job[u].id < table'[k].count
        /\ LET x == table'[k].slot[job[u].id + 1].ptr IN
           x # None => \/ ~obj'[k][x].alive
                       \/ /\ x = table[k].slot[job[u].id + 1].ptr
                          /\ obj[k][x].alive
    BY <2>3, EntryStays
  <2>5. job[u].id < table'[k].count
    BY <2>4
  <2>6. job[u].id \in 0..table'[k].count - 1
    BY <2>2, <2>3, <2>5
  <2> QED
    BY <2>4, <2>6
<1> QED
  BY <1>1, <1>2, <1>3 DEF RemovedBy

\* Pointers in use, when one entry changes and those who saw it are robbed.
LEMMA PointersStay ==
    ASSUME Types, Types', Shapes, NEW t \in Thread, NEW k \in Kind,
           Pointers(k), NEW e, StaysBut(k, e), RobbedAt(t, k, e), Others(t),
           PointersOf(t, k)'
    PROVE  Pointers(k)'
<1> SUFFICES ASSUME NEW u \in Thread \ {t} PROVE PointersOf(u, k)'
  BY DEF Pointers
<1>1. /\ job'[u].at = job[u].at /\ job'[u].k = job[u].k
      /\ job'[u].o = job[u].o
      /\ job'[u].p.k = job[u].p.k /\ job'[u].p.i = job[u].p.i
      /\ job'[u].q.k = job[u].q.k /\ job'[u].q.i = job[u].q.i
      /\ job[u].p.g # "none" => job'[u].p.g # "none"
      /\ job[u].q.g # "none" => job'[u].q.g # "none"
      /\ ~job'[u].robbed => ~job[u].robbed
  BY DEF Others, Kept, PointerKept
<1>2. PointersOf(u, k)
  BY DEF Pointers
<1>3. job[u].p.i \in Nat /\ job[u].q.i \in Nat
  BY JobsType
<1>4. \A i \in Nat : i < table[k].count =>
        /\ i < table'[k].count
        /\ i + 1 # e =>
             /\ table'[k].slot[i + 1] = table[k].slot[i + 1]
             /\ LET x == table[k].slot[i + 1].ptr IN
                x # None => obj'[k][x].alive = obj[k][x].alive
  BY EntryStays
<1>r. /\ ~job'[u].robbed => /\ job[u].at \in Using /\ job[u].p.k = k
                                => job[u].p.i + 1 # e
                            /\ job[u].at = "place" /\ job[u].q.k = k
                                => job[u].q.i + 1 # e
  BY DEF RobbedAt
<1>5. job[u].at \in Using /\ job[u].p.k = k /\ Sound(job[u].p, job[u].robbed)
        => Sound(job[u].p, job[u].robbed)'
  <2> SUFFICES ASSUME job[u].at \in Using, job[u].p.k = k, Sound(job[u].p, job[u].robbed)
               PROVE  Sound(job[u].p, job[u].robbed)'
    OBVIOUS
  <2>1. /\ job[u].p.g # "none" /\ job[u].p.i < table[k].count
        /\ ~job[u].robbed => LET x == table[k].slot[job[u].p.i + 1].ptr IN
                             x # None /\ obj[k][x].alive
    BY DEF Sound
  <2>a. LET i == job[u].p.i IN
        /\ i < table'[k].count
        /\ ~job'[u].robbed =>
             /\ table'[k].slot[i + 1] = table[k].slot[i + 1]
             /\ LET x == table[k].slot[i + 1].ptr IN
                x # None => obj'[k][x].alive = obj[k][x].alive
    BY <1>3, <1>4, <1>r, <2>1
  <2>2. /\ job'[u].p.g # "none" /\ job'[u].p.i < table'[k].count
        /\ ~job'[u].robbed => LET x == table'[k].slot[job'[u].p.i + 1].ptr IN
                              x # None /\ obj'[k][x].alive
    BY <1>1, <2>1, <2>a
  <2> QED
    BY <1>1, <2>2 DEF Sound
<1>6. job[u].p.k = k /\ Sound(job[u].p, TRUE)
        => Sound(job[u].p, TRUE)'
  BY <1>1, <1>3, <1>4 DEF Sound
<1>7. job[u].at = "place" /\ job[u].q.k = k /\ Sound(job[u].q, job[u].robbed)
        => Sound(job[u].q, job[u].robbed)'
  <2> SUFFICES ASSUME job[u].at = "place", job[u].q.k = k, Sound(job[u].q, job[u].robbed)
               PROVE  Sound(job[u].q, job[u].robbed)'
    OBVIOUS
  <2>1. /\ job[u].q.g # "none" /\ job[u].q.i < table[k].count
        /\ ~job[u].robbed => LET x == table[k].slot[job[u].q.i + 1].ptr IN
                             x # None /\ obj[k][x].alive
    BY DEF Sound
  <2>a. LET i == job[u].q.i IN
        /\ i < table'[k].count
        /\ ~job'[u].robbed =>
             /\ table'[k].slot[i + 1] = table[k].slot[i + 1]
             /\ LET x == table[k].slot[i + 1].ptr IN
                x # None => obj'[k][x].alive = obj[k][x].alive
    BY <1>3, <1>4, <1>r, <2>1
  <2>2. /\ job'[u].q.g # "none" /\ job'[u].q.i < table'[k].count
        /\ ~job'[u].robbed => LET x == table'[k].slot[job'[u].q.i + 1].ptr IN
                              x # None /\ obj'[k][x].alive
    BY <1>1, <2>1, <2>a
  <2> QED
    BY <1>1, <2>2 DEF Sound
<1>8. u = Main /\ job[u].at = "clear" /\ job[u].k = k => job[u].p.k = k
  BY DEF Shapes, Shape
<1>9. job[u].at \in {"frame", "append"} => job[u].p.k = "canvas"
  BY DEF Shapes, Shape
<1>10. job[u].at \in {"frame", "append"} /\ k = "canvas" /\ ~job'[u].robbed
          => table'[k].slot[job[u].p.i + 1] = table[k].slot[job[u].p.i + 1]
  BY <1>2, <1>3, <1>4, <1>9, <1>r DEF PointersOf, Using, Sound
<1> QED
  BY <1>1, <1>2, <1>5, <1>6, <1>7, <1>8, <1>10 DEF PointersOf
\* An insertion that leaves objects and entries alone.
LEMMA SameEntries ==
    ASSUME Types, Types', Shapes, NEW w \in Worker, NEW k \in Kind, Clean(k),
           obj'[k] = obj[k], session' = session, dead' = dead,
           table'[k].count = table[k].count,
           \A i \in 1..table[k].count : table'[k].slot[i] = table[k].slot[i],
           Others(w), job[w].at \in Nameless, job'[w].at \in Nameless,
           job'[w].k = job[w].k, job'[w].o = job[w].o,
           \A u \in Worker : job[u].at = "count" => job[u].k # k,
           RemovedBy(w, k)', PointersOf(w, k)'
    PROVE  /\ NamedOnce(k)' /\ Living(k)' /\ Removing(k)' /\ Pointers(k)'
           /\ Owners(k)'
<1>1. w \in Thread /\ w # Main /\ Worker \subseteq Thread
  BY TableConstants DEF Thread
<1>3. \A x \in DOMAIN obj[k] : obj[k][x].id # None =>
        /\ obj[k][x].id < table[k].count
        /\ EntryOf(k, x)' = EntryOf(k, x)
  <2> SUFFICES ASSUME NEW x \in DOMAIN obj[k], obj[k][x].id # None
               PROVE  /\ obj[k][x].id < table[k].count
                      /\ EntryOf(k, x)' = EntryOf(k, x)
    OBVIOUS
  <2>1. obj[k][x].id < table[k].count
    BY DEF Clean, NamedOnce
  <2>2. obj[k][x].id \in Nat /\ table[k].count \in Nat
    BY TableType DEF Object
  <2>3. obj[k][x].id + 1 \in 1..table[k].count
    BY <2>1, <2>2, IndexOf
  <2> QED
    BY <2>1, <2>3 DEF EntryOf
<1>4. NamedOnce(k)'
  BY <1>3 DEF Clean, NamedOnce
<1>5. Living(k)'
  <2>1. \A u \in Worker : job[u].at \in Nameless /\ job[u].k = k =>
            job'[u].at \in Nameless /\ job'[u].k = k /\ job'[u].o = job[u].o
    BY <1>1 DEF Others, Kept
  <2>2. \A u \in Thread : job[u].at = "clear" /\ job[u].k = k =>
            /\ job'[u].at = "clear" /\ job'[u].k = k
            /\ job'[u].q.k = job[u].q.k /\ job'[u].q.i = job[u].q.i
    BY <1>1 DEF Others, Kept, PointerKept, Nameless
  <2> QED
    BY <1>3, <2>1, <2>2 DEF Clean, Living
<1>6. EntriesStay(k)
  BY DEF EntriesStay
<1>7. Removing(k)' /\ Pointers(k)'
  BY <1>1, <1>6, NoneBut, RemovingStays, PointersStay DEF Clean
<1>8. Owners(k)'
  <2>1. /\ job'[Main].at = job[Main].at /\ job'[Main].a = job[Main].a
        /\ job'[Main].k = job[Main].k /\ job'[Main].id = job[Main].id
    BY <1>1 DEF Others, Kept, Thread
  <2>2. \A a \in Addr : \A i : Passed(a, k, i)' <=> Passed(a, k, i)
    BY <2>1 DEF Passed
  <2>3. job[Main].at = "remove" /\ job[Main].k = k =>
          table'[k].slot[job[Main].id + 1] = table[k].slot[job[Main].id + 1]
    <3>1. job[Main].at = "remove" /\ job[Main].k = k =>
             job[Main].id \in 0..table[k].count - 1
      BY DEF Clean, Removing, RemovedBy, Thread
    <3>2. table[k].count \in Nat
      BY TableType
    <3>3. \A i \in 0..table[k].count - 1 : i + 1 \in 1..table[k].count
      BY <3>2
    <3> QED
      BY <3>1, <3>3
  <2>4. Owners(k)
    BY DEF Clean
  <2>5. job'[Main].at = "remove" /\ job'[Main].k = k =>
           table'[k].slot[job'[Main].id + 1].owner = job'[Main].a
    <3>1. job[Main].at = "remove" /\ job[Main].k = k =>
             table[k].slot[job[Main].id + 1].owner = job[Main].a
      BY <2>4 DEF Owners
    <3>2. job'[Main].at = "remove" /\ job'[Main].k = k =>
             job[Main].at = "remove" /\ job[Main].k = k
      BY <2>1
    <3>3. table'[k].slot[job'[Main].id + 1] = table'[k].slot[job[Main].id + 1]
      BY <2>1
    <3> QED
      BY ONLY <2>1, <2>3, <3>1, <3>2, <3>3
  <2> QED
    BY <2>2, <2>4, <2>5, OwnersStay
<1> QED
  BY <1>4, <1>5, <1>7, <1>8

-----------------------------------------------------------------------------
(* An object is made *)

\* The new object is the last one, lives, and has no id.
LEMMA CreatesObjects ==
    ASSUME Types, Sessions, NEW w \in Worker, Creates(w)
    PROVE  LET k == job'[w].k
               n == Len(obj[k]) + 1
           IN
           /\ k \in Kind /\ job'[w].o = n /\ n \notin DOMAIN obj[k]
           /\ obj' \in [Kind -> Seq(Object)]
           /\ \A m \in Kind \ {k} : obj'[m] = obj[m]
           /\ DOMAIN obj'[k] = DOMAIN obj[k] \cup {n}
           /\ \A x \in DOMAIN obj[k] : obj'[k][x] = obj[k][x]
           /\ obj'[k][n].by = session[job'[w].a]
           /\ obj'[k][n].id = None /\ obj'[k][n].alive
           /\ obj'[k][n].by <= born
<1> DEFINE k == job'[w].k
           n == Len(obj[k]) + 1
           a == job'[w].a
           new == [by |-> session[a], alive |-> TRUE,
                   id |-> None, late |-> FALSE]
<1>1. /\ job'[w] \in Job /\ a \in Addr /\ session[a] # 0 /\ job'[w].o = n
      /\ obj' = [obj EXCEPT ![k] = Append(@, new)]
  BY DEF Creates
<1>2. k \in Kind
  BY <1>1 DEF Job
<1>3. session[a] \in Nat \ {0} /\ session[a] <= born
  <2>1. session[a] \in 0..bound.sessions
    BY <1>1 DEF Types
  <2>2. bound.sessions \in Nat
    BY BoundType
  <2> QED
    BY <1>1, <2>1, <2>2 DEF Sessions
<1>4. new \in Object /\ new.by = session[a] /\ new.id = None
      /\ new.alive
  BY <1>3 DEF Object
<1> HIDE DEF new
<1>5. obj \in [Kind -> Seq(Object)] /\ obj[k] \in Seq(Object)
  BY <1>2 DEF Types
<1>6. /\ Append(obj[k], new) \in Seq(Object)
      /\ DOMAIN Append(obj[k], new) = 1..n
      /\ \A x \in 1..Len(obj[k]) : Append(obj[k], new)[x] = obj[k][x]
      /\ Append(obj[k], new)[n] = new
      /\ DOMAIN obj[k] = 1..Len(obj[k]) /\ Len(obj[k]) \in Nat
  BY <1>4, <1>5, AppendProperties, LenProperties
<1>7. obj'[k] = Append(obj[k], new) /\ \A m \in Kind \ {k} : obj'[m] = obj[m]
  BY <1>1, <1>2, <1>5
<1>8. obj' \in [Kind -> Seq(Object)]
  BY <1>1, <1>2, <1>5, <1>6
<1>9. 1..n = 1..Len(obj[k]) \cup {n} /\ n \notin 1..Len(obj[k])
  BY <1>6, SMTT(30)
<1> QED
  BY <1>1, <1>2, <1>3, <1>4, <1>6, <1>7, <1>8, <1>9

\* A new object has a client and one worker that enters it.
LEMMA CreatesCore ==
    ASSUME Core, NEW w \in Worker, Creates(w), job[Main].at # "done"
    PROVE  Core'
<1> DEFINE k == job'[w].k
           n == Len(obj[k]) + 1
<1>0. Types /\ Sessions /\ Shapes /\ Apart
  BY DEF Core
<1>1. w \in Thread /\ w # Main
  BY TableConstants DEF Thread
<1>2. /\ k \in Kind /\ job'[w].o = n /\ n \notin DOMAIN obj[k]
      /\ obj' \in [Kind -> Seq(Object)]
      /\ \A m \in Kind \ {k} : obj'[m] = obj[m]
      /\ DOMAIN obj'[k] = DOMAIN obj[k] \cup {n}
      /\ \A x \in DOMAIN obj[k] : obj'[k][x] = obj[k][x]
      /\ obj'[k][n].by = session[job'[w].a]
      /\ obj'[k][n].id = None
      /\ obj'[k][n].by <= born
  BY <1>0, CreatesObjects
<1>3. /\ job[w].at \in {"idle", "place"}
      /\ job'[w] \in Job /\ job' = [job EXCEPT ![w] = job'[w]]
      /\ job'[w].at = "insert" /\ job'[w].a \in Addr
      /\ session[job'[w].a] # 0
      /\ UNCHANGED <<bound, session, dead, born, table, blame>>
  BY DEF Creates
<1>4. /\ job' \in [Thread -> Job] /\ Others(w)
      /\ \A u \in Thread \ {w} : job'[u] = job[u]
  BY <1>0, <1>1, <1>3, AloneMoves
<1>5. Types'
  BY <1>0, <1>2, <1>3, <1>4 DEF Types
<1> HIDE DEF n
<1>6. Sessions'
  <2>1. \A m \in Kind : \A x \in DOMAIN obj'[m] : obj'[m][x].by <= born
    BY <1>0, <1>2 DEF Sessions
  <2> QED
    BY <1>0, <1>3, <2>1, SessionsKept
<1>7. ObjectsStay
  BY <1>2 DEF ObjectsStay
<1>8. \A u \in Worker : job[u].at \in Making =>
        /\ job[u].o \in DOMAIN obj[job[u].k] /\ job[u].k \in Kind
        /\ job[u].at \in Nameless => obj[job[u].k][job[u].o].id = None
  BY <1>0, JobsType DEF Shapes, Shape, Thread
<1>9. NamelessStay(w)
  <2> SUFFICES ASSUME NEW u \in Worker \ {w}, job[u].at \in Nameless
               PROVE  obj'[job[u].k][job[u].o].id = None
    BY DEF NamelessStay
  <2>1. /\ job[u].o \in DOMAIN obj[job[u].k] /\ job[u].k \in Kind
        /\ obj[job[u].k][job[u].o].id = None
    BY <1>8 DEF Making, Nameless
  <2> QED
    BY <1>2, <2>1
<1>10. Shape(w)'
  <2>1. /\ job'[w].o \in DOMAIN obj'[k] /\ obj'[k][job'[w].o].id = None
        /\ obj'[k][job'[w].o].by = session'[job'[w].a]
        /\ session'[job'[w].a] # 0 /\ job'[w].a \in Addr
    BY <1>2, <1>3
  <2> QED
    BY <1>1, <1>3, <2>1 DEF Shape
<1>11. Shapes'
  BY <1>0, <1>1, <1>3, <1>4, <1>7, <1>9, <1>10, ShapesKept
<1>12. Apart'
  <2> SUFFICES ASSUME NEW u \in Worker, NEW v \in Worker,
                      job'[u].at \in Making, job'[v].at \in Making,
                      job'[u].k = job'[v].k, job'[u].o = job'[v].o
               PROVE  u = v
    BY DEF Apart
  <2>1. \A x \in Worker \ {w} : job'[x] = job[x]
    BY <1>4 DEF Thread
  <2>2. \A x \in Worker \ {w} : job'[x].at \in Making /\ job'[x].k = k =>
            job'[x].o # n
    BY <1>2, <1>8, <2>1
  <2>3. CASE u # w /\ v # w
    BY <1>0, <2>1, <2>3 DEF Apart
  <2> QED
    BY <1>2, <2>2, <2>3
<1> QED
  BY <1>5, <1>6, <1>11, <1>12 DEF Core

\* A new object is about to be entered: the tables stay clean.
LEMMA CreatesClean ==
    ASSUME Core, Types', NEW w \in Worker, Creates(w), NEW k \in Kind, Clean(k)
    PROVE  Clean(k)'
<1>0. Types /\ Sessions /\ Shapes /\ Apart
  BY DEF Core
<1>1. w \in Thread /\ w # Main
  BY TableConstants DEF Thread
<1>2. /\ job[w].at \in {"idle", "place"}
      /\ job'[w] \in Job /\ job' = [job EXCEPT ![w] = job'[w]]
      /\ job'[w].at = "insert" /\ session[job'[w].a] # 0
      /\ UNCHANGED <<bound, session, dead, born, table, blame>>
  BY DEF Creates
<1>3. /\ job' \in [Thread -> Job] /\ Others(w) /\ OthersAt(w, k)
      /\ \A u \in Thread \ {w} : job'[u] = job[u]
  BY <1>0, <1>1, <1>2, AloneMoves
<1>4. WitnessKept(w, k)
  BY <1>2 DEF WitnessKept, Nameless
<1>5. RemovedBy(w, k)' /\ PointersOf(w, k)' /\ ~(job'[w].at \in Entering)
  BY <1>1, <1>2 DEF RemovedBy, PointersOf, Using, Entering
<1>6. CASE job'[w].k # k
  <2>1. table'[k] = table[k] /\ obj'[k] = obj[k]
    BY <1>0, <1>2, <1>6, CreatesObjects
  <2>2. EnteredBy(w, k)'
    BY <1>6 DEF EnteredBy
  <2>3. Owners(k)'
    BY <1>1, <1>2, <1>3, <2>1, OwnersKept DEF Clean, MainKept
  <2>4. Alone(k)'
    BY <1>1, <1>3, <1>5, AloneKept DEF Clean
  <2> QED
    BY <1>0, <1>1, <1>2, <1>3, <1>4, <1>5, <2>1, <2>2, <2>3, <2>4, SameTable
<1>7. CASE job'[w].k = k
  <2> DEFINE n == Len(obj[k]) + 1
  <2>1. /\ job'[w].o = n /\ n \notin DOMAIN obj[k]
        /\ DOMAIN obj'[k] = DOMAIN obj[k] \cup {n}
        /\ \A x \in DOMAIN obj[k] : obj'[k][x] = obj[k][x]
        /\ obj'[k][n].id = None /\ obj'[k][n].alive /\ table'[k] = table[k]
    BY <1>0, <1>2, <1>7, CreatesObjects
  <2> HIDE DEF n
  <2>2. \A u \in Worker \ {w} : job[u].at \in Making /\ job[u].k = k =>
            job[u].o \in DOMAIN obj[k]
    BY <1>0 DEF Shapes, Shape, Thread
  <2>3. \A i \in 1..table[k].count : table[k].slot[i].ptr # None =>
            /\ table[k].slot[i].ptr \in DOMAIN obj[k]
            /\ obj'[k][table[k].slot[i].ptr] = obj[k][table[k].slot[i].ptr]
    BY <2>1 DEF Clean, NamedOnce
  <2>4. \A u \in Worker \ {w} : job'[u] = job[u]
    BY <1>3 DEF Thread
  <2>5. Alone(k)'
    BY <1>5, <2>4 DEF Clean, Alone
  <2>6. Array(k)'
    BY <1>1, <1>2, <1>3, <2>1, <2>4 DEF Clean, Array, Thread
  <2>7. Entered(k)'
    <3>1. EnteredBy(w, k)'
      BY <1>2, <1>7, <2>1 DEF EnteredBy
    <3>2. ASSUME NEW u \in Worker \ {w} PROVE EnteredBy(u, k)'
      BY <2>1, <2>2, <2>4, <3>2 DEF Clean, Entered, EnteredBy, Making
    <3> QED
      BY <3>1, <3>2 DEF Entered
  <2>8. NamedOnce(k)'
    <3>1. \A i \in 1..table'[k].count : table'[k].slot[i].ptr # None =>
            /\ table'[k].slot[i].ptr \in DOMAIN obj'[k]
            /\ obj'[k][table'[k].slot[i].ptr].id = i - 1
      BY <2>1, <2>3 DEF Clean, NamedOnce
    <3>2. ASSUME NEW x \in DOMAIN obj'[k], obj'[k][x].id # None
          PROVE  /\ \/ obj'[k][x].id < table'[k].count
                    \/ \E u \in Worker : job'[u].at = "count"
                                          /\ job'[u].k = k /\ job'[u].o = x
                 /\ EntryOf(k, x)'.ptr \in {x, None}
      <4>1. x \in DOMAIN obj[k] /\ obj'[k][x] = obj[k][x]
        BY <2>1, <3>2
      <4>2. \A u \in Worker : job[u].at = "count" => job'[u] = job[u]
        BY <1>2, <2>4
      <4> QED
        BY <2>1, <3>2, <4>1, <4>2 DEF Clean, NamedOnce, EntryOf
    <3> QED
      BY <3>1, <3>2 DEF NamedOnce
  <2>9. Living(k)'
    <3>1. ASSUME NEW x \in DOMAIN obj'[k], obj'[k][x].alive
          PROVE  IF obj'[k][x].id = None
                 THEN \E u \in Worker : job'[u].at \in Nameless
                                     /\ job'[u].k = k /\ job'[u].o = x
                 ELSE EntryOf(k, x)'.ptr = x
      <4>1. CASE x = n
        BY <1>2, <1>7, <2>1, <4>1 DEF Nameless
      <4>2. CASE x # n
        <5>1. x \in DOMAIN obj[k] /\ obj'[k][x] = obj[k][x]
          BY <2>1, <4>2
        <5>2. \A u \in Worker : job[u].at \in Nameless => job'[u] = job[u]
          BY <1>2, <2>4 DEF Nameless
        <5> QED
          BY <2>1, <3>1, <5>1, <5>2 DEF Clean, Living, EntryOf
      <4> QED
        BY <4>1, <4>2
    <3>2. \A u \in Thread : job[u].at = "clear" => job'[u] = job[u]
      BY <1>2, <1>3
    <3>3. \A i \in 1..table'[k].count :
            LET x == table'[k].slot[i].ptr IN
            x # None /\ ~obj'[k][x].alive =>
              \E u \in Thread : job'[u].at = "clear" /\ job'[u].k = k
                                  /\ job'[u].q.k = k /\ job'[u].q.i = i - 1
      BY <2>1, <2>3, <3>2 DEF Clean, Living
    <3> QED
      BY <3>1, <3>3 DEF Living
  <2>10. EntriesStay(k)
    BY <2>1, <2>3 DEF EntriesStay
  <2>11. Removing(k)' /\ Pointers(k)'
    BY <1>0, <1>1, <1>3, <1>5, <2>10, NoneBut, RemovingStays, PointersStay
       DEF Clean
  <2>12. Owners(k)'
    <3>1. job'[Main] = job[Main]
      BY <1>1, <1>3 DEF Thread
    <3>2. \A a \in Addr : \A i : Passed(a, k, i)' <=> Passed(a, k, i)
      BY <1>2, <3>1 DEF Passed
    <3>3. Owners(k)
      BY DEF Clean
    <3>4. table'[k] = table[k] /\ session' = session
      BY <1>2, <2>1
    <3>5. job'[Main].at = "remove" /\ job'[Main].k = k =>
             table'[k].slot[job'[Main].id + 1].owner = job'[Main].a
      BY <3>1, <3>3, <3>4 DEF Owners
    <3> QED
      BY <2>3, <3>2, <3>3, <3>4, <3>5, OwnersStay
  <2> QED
    BY <2>5, <2>6, <2>7, <2>8, <2>9, <2>11, <2>12 DEF Clean
<1> QED
  BY <1>6, <1>7

-----------------------------------------------------------------------------
(* An insertion finds out whether there is room *)

\* A job at another place.
LEMMA Placed ==
    ASSUME NEW r \in Job, NEW at \in At
    PROVE  LET j == [r EXCEPT !.at = at] IN
           /\ j \in Job /\ j.at = at /\ j.a = r.a /\ j.k = r.k /\ j.id = r.id
           /\ j.o = r.o /\ j.p = r.p /\ j.q = r.q /\ j.robbed = r.robbed
  BY DEF Job

\* The test for room: what it changes.
LEMMA InsertFacts ==
    ASSUME Types, NEW w \in Worker, Insert(w)
    PROVE  LET i == job[w]
               j == job'[w]
           IN
           /\ i.at = "insert" /\ j \in Job
           /\ job' = [job EXCEPT ![w] = j]
           /\ j.at \in {"grow", "fill"}
           /\ j.a = i.a /\ j.k = i.k /\ j.o = i.o
           /\ j.at = "grow" => table[i.k].count = table[i.k].cap
           /\ j.at = "fill" => table[i.k].count # table[i.k].cap
           /\ UNCHANGED <<bound, session, dead, born, obj, table>>
           /\ blame \subseteq blame' /\ blame' \subseteq Kind
           /\ i.k \notin blame' => \A u \in Worker \ {w} :
                ~(job[u].k = i.k /\ job[u].at \in Entering)
<1> DEFINE i == job[w]
           at == IF table[i.k].count = table[i.k].cap THEN "grow" ELSE "fill"
           r == [i EXCEPT !.at = at]
<1>1. w \in Thread /\ job \in [Thread -> Job] /\ i \in Job
  BY DEF Types, Thread
<1>2. i.at = "insert" /\ job' = [job EXCEPT ![w] = r]
  BY DEF Insert, Ready, Becomes
<1>a. at \in At
  BY DEF At
<1>3. /\ r \in Job /\ r.at = at /\ r.a = i.a /\ r.k = i.k /\ r.o = i.o
  <2> HIDE DEF at, i
  <2> QED
    BY <1>1, <1>a, Placed DEF i
<1> HIDE DEF r
<1>4. job'[w] = r
  BY <1>1, <1>2
<1>5. /\ UNCHANGED <<bound, session, dead, born, obj, table>>
      /\ blame \subseteq blame' /\ blame' \subseteq blame \cup {i.k}
  BY DEF Insert, clientVars
<1>6. i.k \notin blame' => \A u \in Worker \ {w} :
                ~(job[u].k = i.k /\ job[u].at \in Entering)
  BY DEF Insert, Entering
<1>7. blame' \subseteq Kind
  BY <1>1, <1>5 DEF Types, Job
<1> QED
  BY <1>1, <1>2, <1>3, <1>4, <1>5, <1>6, <1>7

\* The test for room: clients, and the shapes of jobs.
LEMMA InsertCore ==
    ASSUME Core, NEW w \in Worker, Insert(w)
    PROVE  Core'
<1>0. Types /\ Sessions /\ Shapes /\ Apart
  BY DEF Core
<1>1. w \in Thread /\ w # Main
  BY TableConstants DEF Thread
<1>2. /\ job[w].at = "insert" /\ job'[w] \in Job
      /\ job' = [job EXCEPT ![w] = job'[w]]
      /\ job'[w].at \in {"grow", "fill"} /\ job'[w].a = job[w].a
      /\ job'[w].k = job[w].k /\ job'[w].o = job[w].o
      /\ UNCHANGED <<bound, session, dead, born, obj, table>>
      /\ blame' \subseteq Kind
  BY <1>0, InsertFacts
<1>3. job' \in [Thread -> Job] /\ Others(w)
  BY <1>0, <1>1, <1>2, AloneMoves
<1>4. Types'
  BY <1>0, <1>2, <1>3 DEF Types
<1>5. Sessions'
  BY <1>0, <1>2 DEF Sessions
<1>6. ObjectsStay /\ NamelessStay(w)
  <2>1. \A u \in Worker : job[u].at \in Nameless => Shape(u)
    BY <1>0 DEF Shapes, Thread
  <2> QED
    BY <1>2, <2>1 DEF ObjectsStay, NamelessStay, Shape, Making, Nameless
<1>7. Shape(w)'
  <2>1. Shape(w)
    BY <1>0, <1>1 DEF Shapes
  <2> QED
    BY <1>1, <1>2, <2>1 DEF Shape, Making, Nameless
<1>8. Shapes'
  <2>1. job[Main].at # "done"
    BY <1>0, <1>2, MainRuns
  <2> QED
    BY <1>0, <1>1, <1>2, <1>3, <1>6, <1>7, <2>1, ShapesKept
<1>9. Apart'
  BY <1>0, <1>1, <1>2, <1>3, ApartKept DEF Making
<1> QED
  BY <1>4, <1>5, <1>8, <1>9 DEF Core

\* The test for room: the tables.
LEMMA InsertClean ==
    ASSUME Core, Core', NEW w \in Worker, Insert(w),
           NEW k \in Kind \ blame', Clean(k)
    PROVE  Clean(k)'
<1>0. Types /\ Sessions /\ Shapes /\ Apart /\ Shapes'
  BY DEF Core
<1>1. w \in Thread /\ w # Main
  BY TableConstants DEF Thread
<1>2. /\ job[w].at = "insert" /\ job'[w] \in Job
      /\ job' = [job EXCEPT ![w] = job'[w]]
      /\ job'[w].at \in {"grow", "fill"} /\ job'[w].a = job[w].a
      /\ job'[w].k = job[w].k /\ job'[w].o = job[w].o
      /\ UNCHANGED <<bound, session, dead, born, obj, table>>
  BY <1>0, InsertFacts
<1>3. OthersAt(w, k) /\ \A u \in Thread \ {w} : job'[u] = job[u]
  BY <1>0, <1>1, <1>2, AloneMoves
<1>4. WitnessKept(w, k)
  BY <1>2 DEF WitnessKept, Nameless
<1>5. RemovedBy(w, k)' /\ PointersOf(w, k)'
  BY <1>1, <1>2 DEF RemovedBy, PointersOf, Using
<1>6. Owners(k)'
  BY <1>1, <1>2, <1>3, OwnersKept DEF Clean, MainKept
<1>7. Alone(k)'
  <2>1. \A u \in Worker \ {w} : job'[u] = job[u]
    BY <1>3 DEF Thread
  <2>2. CASE job[w].k = k
    <3>1. \A u \in Worker \ {w} : ~(job[u].k = k /\ job[u].at \in Entering)
      BY <1>0, <2>2, InsertFacts
    <3> QED
      BY <2>1, <3>1 DEF Alone
  <2>3. CASE job[w].k # k
    BY <1>2, <2>1, <2>3 DEF Clean, Alone
  <2> QED
    BY <2>2, <2>3
<1>8. EnteredBy(w, k)'
  <2> SUFFICES ASSUME job[w].k = k PROVE EnteredBy(w, k)'
    BY <1>2 DEF EnteredBy
  <2>1. EnteredBy(w, k)
    BY DEF Clean, Entered
  <2>2. job'[w].at = "fill" => table[k].count < table[k].cap
    <3>1. job'[w].at = "fill" => table[k].count # table[k].cap
      BY <1>0, InsertFacts
    <3>2. table[k].count <= table[k].cap
      BY DEF Clean, Array
    <3> QED
      BY <1>0, <3>1, <3>2, TableType
  <2>3. job'[w].at = "grow" => table[k].count = table[k].cap
    BY <1>0, InsertFacts
  <2> QED
    BY <1>2, <2>1, <2>2, <2>3 DEF EnteredBy, Making
<1> QED
  BY <1>0, <1>1, <1>2, <1>3, <1>4, <1>5, <1>6, <1>7, <1>8, SameTable

-----------------------------------------------------------------------------
(* The array of a table grows *)

\* The array after realloc: longer, and the old entries first.
LEMMA GrownTable ==
    ASSUME NEW T \in Table, Len(T.slot) = T.cap
    PROVE  /\ NewCap(T.cap) \in Nat /\ NewCap(T.cap) > T.cap
           /\ Grown(T) \in Seq(Entry \cup {Junk})
           /\ Len(Grown(T)) = NewCap(T.cap)
           /\ T.arr # "none" =>
                \A n \in 1..T.cap : Grown(T)[n] = T.slot[n]
<1> DEFINE N == NewCap(T.cap)
           old == IF T.arr = "none" THEN <<>> ELSE T.slot
<1>1. T.cap \in Nat /\ T.slot \in Seq(Entry \cup {Junk})
  BY DEF Table
<1>2. N \in Nat /\ N > T.cap
  BY <1>1, TableConstants DEF NewCap
<1>3. old \in Seq(Entry \cup {Junk}) /\ Len(old) \in Nat
  BY <1>1, EmptySeq, LenProperties
<1>4. \A n \in 1..Len(old) : old[n] \in Entry \cup {Junk}
  BY <1>3, ElementOfSeq
<1>5. Grown(T) = [n \in 1..N |-> IF n <= Len(old) THEN old[n] ELSE Junk]
  BY DEF Grown
<1> HIDE DEF N, old
<1>6. \A n \in 1..N : (IF n <= Len(old) THEN old[n] ELSE Junk)
                          \in Entry \cup {Junk}
  BY <1>2, <1>3, <1>4
<1>7. Grown(T) \in [1..N -> Entry \cup {Junk}]
  BY <1>5, <1>6
<1>8. Grown(T) \in Seq(Entry \cup {Junk}) /\ Len(Grown(T)) = N
  BY <1>2, <1>7, SeqDef, LenProperties
<1>9. ASSUME T.arr # "none", NEW n \in 1..T.cap
      PROVE  Grown(T)[n] = T.slot[n]
  <2>1. old = T.slot
    BY <1>9 DEF old
  <2>2. n \in 1..N /\ n <= Len(old)
    BY <1>1, <1>2, <2>1
  <2> QED
    BY <1>5, <2>1, <2>2
<1> QED
  BY <1>2, <1>8, <1>9 DEF N

\* Pointers into a block that has moved.
LEMMA StaleKept ==
    ASSUME Types, NEW w \in Thread, NEW k \in Kind, NEW j \in Job,
           job' = Moved(k, w, j)
    PROVE  /\ job' \in [Thread -> Job] /\ job'[w] = j /\ Others(w)
           /\ \A m \in Kind \ {k} : OthersAt(w, m)
<1> DEFINE stale(p) == IF p.k = k /\ p.g = "present"
                       THEN [p EXCEPT !.g = "released"] ELSE p
<1>1. job \in [Thread -> Job]
  BY DEF Types
<1>2. \A u \in Thread \ {w} :
        job'[u] = [job[u] EXCEPT !.p = stale(@), !.q = stale(@)]
  BY DEF Moved
<1>3. job'[w] = j /\ job' = [u \in Thread |-> job'[u]]
  BY DEF Moved
<1>4. ASSUME NEW p \in Pointer
      PROVE  /\ stale(p) \in Pointer /\ PointerKept(p, stale(p))
             /\ p.k # k => stale(p) = p
  BY DEF Pointer, Block, PointerKept
<1> HIDE DEF stale
<1>6. ASSUME NEW u \in Thread \ {w}
      PROVE  /\ job'[u] \in Job /\ Kept(u)
             /\ job[u].p.k # k => job'[u].p = job[u].p
  <2>1. job[u] \in Job /\ job[u].p \in Pointer /\ job[u].q \in Pointer
    BY JobsType
  <2>2. stale(job[u].p) \in Pointer /\ stale(job[u].q) \in Pointer
    BY <1>4, <2>1
  <2>3. /\ job'[u] \in Job /\ job'[u].at = job[u].at /\ job'[u].a = job[u].a
        /\ job'[u].k = job[u].k /\ job'[u].id = job[u].id
        /\ job'[u].o = job[u].o /\ job'[u].p = stale(job[u].p)
        /\ job'[u].q = stale(job[u].q) /\ job'[u].robbed = job[u].robbed
    <3> DEFINE p == stale(job[u].p)
               q == stale(job[u].q)
    <3>1. job'[u] = [job[u] EXCEPT !.p = p, !.q = q]
      BY <1>2, <2>1 DEF Job
    <3>a. p \in Pointer /\ q \in Pointer
      BY <2>2
    <3> HIDE DEF p, q
    <3>2. PICK r \in Job : r = job[u]
      BY <2>1
    <3>3. LET f == [r EXCEPT !.p = p, !.q = q] IN
          /\ f \in Job /\ f.at = r.at /\ f.a = r.a
          /\ f.k = r.k /\ f.id = r.id /\ f.o = r.o
          /\ f.p = p /\ f.q = q /\ f.robbed = r.robbed
      BY <3>a DEF Job
    <3> QED
      BY <3>1, <3>2, <3>3 DEF p, q
  <2> QED
    BY <1>4, <2>1, <2>3 DEF Kept
<1>7. job' \in [Thread -> Job]
  BY <1>3, <1>6
<1>8. \A m \in Kind \ {k} : OthersAt(w, m)
  BY <1>6 DEF OthersAt
<1> QED
  BY <1>3, <1>6, <1>7, <1>8 DEF Others

\* What becomes of table k, if the array grows.
GrowsTo(T, U) ==
    /\ U \in Table /\ Len(U.slot) = U.cap
    /\ U.count = T.count /\ U.cap > T.cap
    /\ T.arr = "none" => U.arr = "none"
    /\ T.arr # "none" =>
        U.arr # "none" /\ \A n \in 1..T.cap : U.slot[n] = T.slot[n]

\* The table after realloc, wherever its array points.
LEMMA GrownTo ==
    ASSUME NEW T \in Table, Len(T.slot) = T.cap, NEW arr \in Block,
           T.arr = "none" <=> arr = "none"
    PROVE  LET U == [T EXCEPT !.cap = NewCap(@), !.slot = Grown(T)] IN
           /\ [U EXCEPT !.arr = arr] \in Table
           /\ GrowsTo(T, [U EXCEPT !.arr = arr])
<1> DEFINE N == NewCap(T.cap)
           S == Grown(T)
           U == [T EXCEPT !.cap = N, !.slot = S]
           V == [U EXCEPT !.arr = arr]
<1>1. /\ N \in Nat /\ N > T.cap /\ S \in Seq(Entry \cup {Junk}) /\ Len(S) = N
      /\ T.arr # "none" => \A n \in 1..T.cap : S[n] = T.slot[n]
  BY GrownTable
<1> HIDE DEF N, S
<1>2. /\ V \in Table /\ V.count = T.count /\ V.cap = N /\ V.slot = S
      /\ V.arr = arr
  BY <1>1 DEF Table
<1> HIDE DEF V
<1>3. V \in Table /\ GrowsTo(T, V)
  BY <1>1, <1>2 DEF GrowsTo
<1> QED
  BY <1>3 DEF V, N, S

\* realloc: what it changes.
LEMMA GrowFacts ==
    ASSUME Types, NEW w \in Worker, Grow(w)
    PROVE  LET i == job[w]
               j == job'[w]
               k == i.k
           IN
           \/ Stops
           \/ /\ i.at = "grow" /\ j \in Job /\ job' \in [Thread -> Job]
              /\ j.at = "assign" /\ j.a = i.a /\ j.k = k /\ j.o = i.o
              /\ j.p.k = k /\ j.p.g = "present"
              /\ Others(w) /\ k \in Kind
              /\ \A m \in Kind \ {k} :
                    OthersAt(w, m) /\ table'[m] = table[m]
              /\ GrowsTo(table[k], table'[k])
              /\ table[k].arr # "released"
              /\ table' \in [Kind -> Table]
              /\ UNCHANGED <<bound, session, dead, born, obj, blame>>
<1> DEFINE i == job[w]
           k == i.k
           T == table[k]
           new == [k |-> k, g |-> "present", i |-> 0]
           j == [i EXCEPT !.at = "assign", !.p = new]
           U == [T EXCEPT !.cap = NewCap(@), !.slot = Grown(T)]
           moved == [U EXCEPT !.arr = IF @ = "none" THEN @ ELSE "released"]
<1>1. /\ w \in Thread /\ job \in [Thread -> Job] /\ i \in Job /\ k \in Kind
      /\ table \in [Kind -> Table] /\ T \in Table /\ Len(T.slot) = T.cap
      /\ T.arr \in Block
  BY DEF Types, Thread, Job, Table
<1>2. /\ new \in Pointer /\ new.k = k /\ new.g = "present"
  BY <1>1 DEF Pointer, Block
<1>3. /\ j \in Job /\ j.at = "assign" /\ j.a = i.a /\ j.k = k /\ j.o = i.o
      /\ j.p = new
  <2> HIDE DEF new, i
  <2>1. \A r \in Job, p \in Pointer :
          LET f == [r EXCEPT !.at = "assign", !.p = p] IN
          /\ f \in Job /\ f.at = "assign" /\ f.a = r.a /\ f.k = r.k
          /\ f.o = r.o /\ f.p = p
    BY DEF Job, At
  <2> QED
    BY <1>1, <1>2, <2>1
<1>4. /\ i.at = "grow"
      /\ \/ Breaks(w, "released", k)
         \/ /\ T.arr = "present" /\ table' = [table EXCEPT ![k] = U]
            /\ job' = [job EXCEPT ![w] = j]
            /\ UNCHANGED <<bound, session, dead, born, obj, blame>>
         \/ /\ T.arr # "released" /\ table' = [table EXCEPT ![k] = moved]
            /\ job' = Moved(k, w, j)
            /\ UNCHANGED <<bound, session, dead, born, obj, blame>>
  BY DEF Grow, Ready, Becomes, clientVars
<1>5. GrowsTo(T, moved) /\ moved \in Table
  <2> DEFINE arr == IF T.arr = "none" THEN T.arr ELSE "released"
  <2>1. arr \in Block /\ (T.arr = "none" <=> arr = "none")
    BY <1>1 DEF Block
  <2>2. moved = [U EXCEPT !.arr = arr]
    BY <1>1 DEF Table
  <2> HIDE DEF arr
  <2>3. [U EXCEPT !.arr = arr] \in Table /\ GrowsTo(T, [U EXCEPT !.arr = arr])
    BY <1>1, <2>1, GrownTo
  <2> QED
    BY <2>2, <2>3
<1>6. T.arr = "present" => GrowsTo(T, U) /\ U \in Table
  <2>1. ASSUME T.arr = "present" PROVE U = [U EXCEPT !.arr = "present"]
    BY <1>1, <2>1 DEF Table
  <2>2. T.arr = "present" => /\ [U EXCEPT !.arr = "present"] \in Table
                             /\ GrowsTo(T, [U EXCEPT !.arr = "present"])
    BY <1>1, GrownTo DEF Block
  <2> QED
    BY <2>1, <2>2
<1> HIDE DEF j, moved, U, new
<1>7. CASE Breaks(w, "released", k)
  BY <1>7, BreaksStops
<1>8. CASE /\ T.arr = "present" /\ table' = [table EXCEPT ![k] = U]
           /\ job' = [job EXCEPT ![w] = j]
           /\ UNCHANGED <<bound, session, dead, born, obj, blame>>
  <2>1. /\ job' \in [Thread -> Job] /\ Others(w) /\ \A m : OthersAt(w, m)
        /\ job'[w] = j
    BY <1>1, <1>3, <1>8, AloneMoves
  <2>2. /\ table' \in [Kind -> Table] /\ table'[k] = U
        /\ \A m \in Kind \ {k} : table'[m] = table[m]
    BY <1>1, <1>6, <1>8
  <2> QED
    BY <1>1, <1>2, <1>3, <1>4, <1>6, <1>8, <2>1, <2>2
<1>9. CASE /\ T.arr # "released" /\ table' = [table EXCEPT ![k] = moved]
           /\ job' = Moved(k, w, j)
           /\ UNCHANGED <<bound, session, dead, born, obj, blame>>
  <2>1. /\ job' \in [Thread -> Job] /\ Others(w) /\ job'[w] = j
        /\ \A m \in Kind \ {k} : OthersAt(w, m)
    BY <1>1, <1>3, <1>9, StaleKept
  <2>2. /\ table' \in [Kind -> Table] /\ table'[k] = moved
        /\ \A m \in Kind \ {k} : table'[m] = table[m]
    BY <1>1, <1>5, <1>9
  <2> QED
    BY <1>1, <1>2, <1>3, <1>4, <1>5, <1>9, <2>1, <2>2
<1> QED
  BY <1>4, <1>7, <1>8, <1>9

\* An insertion that goes on with its object.
LEMMA EnteringCore ==
    ASSUME Core, NEW w \in Worker, job[w].at \in Nameless,
           job'[w].at \in Nameless, job'[w].a = job[w].a,
           job'[w].k = job[w].k, job'[w].o = job[w].o,
           job'[w].at = "assign" => job'[w].p.k = job'[w].k,
           Types', Others(w), UNCHANGED <<session, dead, born, obj>>
    PROVE  Core'
<1>0. Types /\ Sessions /\ Shapes /\ Apart
  BY DEF Core
<1>1. w \in Thread /\ w # Main
  BY TableConstants DEF Thread
<1>2. Sessions'
  BY <1>0 DEF Sessions
<1>3. ObjectsStay /\ NamelessStay(w)
  <2>1. \A u \in Worker : job[u].at \in Nameless => Shape(u)
    BY <1>0 DEF Shapes, Thread
  <2> QED
    BY <2>1 DEF ObjectsStay, NamelessStay, Shape, Making, Nameless
<1>4. Shape(w)'
  <2>1. Shape(w)
    BY <1>0, <1>1 DEF Shapes
  <2>2. /\ job'[w].o \in DOMAIN obj'[job'[w].k] /\ job'[w].a \in Addr
        /\ session'[job'[w].a] # 0
        /\ obj'[job'[w].k][job'[w].o].by = session'[job'[w].a]
        /\ obj'[job'[w].k][job'[w].o].id = None
    BY <2>1 DEF Shape, Making, Nameless
  <2> QED
    BY <1>1, <2>2 DEF Shape, Nameless
<1>5. Shapes'
  <2>1. job[Main].at # "done"
    BY <1>0, MainRuns DEF Nameless
  <2> QED
    BY <1>0, <1>1, <1>3, <1>4, <2>1, ShapesKept
<1>6. Apart'
  BY <1>0, <1>1, ApartKept DEF Making, Nameless
<1> QED
  BY <1>2, <1>5, <1>6 DEF Core

\* realloc: clients, and the shapes of jobs.
LEMMA GrowCore ==
    ASSUME Core, NEW w \in Worker, Grow(w), ~Stops
    PROVE  Core'
<1>0. Types
  BY DEF Core
<1>1. LET i == job[w]
          j == job'[w]
          k == i.k
      IN /\ i.at = "grow" /\ job' \in [Thread -> Job]
         /\ j.at = "assign" /\ j.a = i.a /\ j.k = k /\ j.o = i.o
         /\ j.p.k = k /\ Others(w)
         /\ \A m \in Kind \ {k} : table'[m] = table[m]
         /\ GrowsTo(table[k], table'[k])
         /\ table' \in [Kind -> Table]
         /\ UNCHANGED <<bound, session, dead, born, obj, blame>>
  BY <1>0, GrowFacts
<1>2. \A k \in Kind : Len(table'[k].slot) = table'[k].cap
  BY <1>0, <1>1 DEF Types, GrowsTo
<1>3. Types'
  BY <1>0, <1>1, <1>2 DEF Types
<1> QED
  BY <1>1, <1>3, EnteringCore DEF Nameless

\* realloc: the tables.
LEMMA GrowClean ==
    ASSUME Core, Core', NEW w \in Worker, Grow(w), ~Stops,
           NEW k \in Kind, Clean(k)
    PROVE  Clean(k)'
<1>0. Types /\ Sessions /\ Shapes /\ Apart /\ Types' /\ Shapes'
  BY DEF Core
<1>1. w \in Thread /\ w # Main
  BY TableConstants DEF Thread
<1>2. /\ job[w].at = "grow" /\ job'[w].at = "assign"
      /\ job'[w].a = job[w].a /\ job'[w].k = job[w].k /\ job'[w].o = job[w].o
      /\ job'[w].p.k = job[w].k /\ job'[w].p.g = "present"
      /\ Others(w)
      /\ \A m \in Kind \ {job[w].k} : OthersAt(w, m) /\ table'[m] = table[m]
      /\ GrowsTo(table[job[w].k], table'[job[w].k])
      /\ table[job[w].k].arr # "released"
      /\ UNCHANGED <<bound, session, dead, born, obj, blame>>
  BY <1>0, GrowFacts
<1>3. CASE job[w].k # k
  <2>1. ~About(job[w], k) /\ ~About(job'[w], k)
    BY <1>2, <1>3 DEF About, Using
  <2> QED
    BY <1>0, <1>1, <1>2, <1>3, <2>1, OtherTable DEF MainKept
<1>4. CASE job[w].k = k
  <2> DEFINE T == table[k]
             U == table'[k]
  <2>1. /\ U.count = T.count /\ U.cap > T.cap
        /\ T.arr = "none" => U.arr = "none"
        /\ T.arr # "none" =>
              U.arr # "none" /\ \A n \in 1..T.cap : U.slot[n] = T.slot[n]
        /\ T.arr # "released" /\ obj'[k] = obj[k]
    BY <1>2, <1>4 DEF GrowsTo
  <2>2. /\ T.count \in Nat /\ T.cap \in Nat /\ T.count <= T.cap
        /\ U.cap \in Nat
        /\ T.arr = "none" => T.count = 0
    <3>1. T.count \in Nat /\ T.cap \in Nat /\ U.cap \in Nat
      BY <1>0 DEF Types, Table
    <3> QED
      BY <3>1 DEF Clean, Array
  <2>3. \A n \in 1..T.count : n \in 1..U.count /\ U.slot[n] = T.slot[n]
    <3>1. CASE T.arr = "none"
      BY <2>2, <3>1
    <3>2. CASE T.arr # "none"
      BY <2>1, <2>2, <3>2
    <3> QED
      BY <3>1, <3>2
  <2>4. EntriesStay(k)
    BY <2>1, <2>3 DEF EntriesStay
  <2>5. Alone(k)'
    BY <1>1, <1>2, <1>4, AloneKept DEF Clean, Entering
  <2>6. \A u \in Worker \ {w} : job[u].at \in Entering => job[u].k # k
    BY <1>2, <1>4 DEF Clean, Alone, Entering
  <2>7. \A u \in Worker \ {w} : Kept(u)
    BY <1>2 DEF Others, Thread
  <2>8. Array(k)'
    <3>1. \E u \in Worker : job'[u].at = "assign" /\ job'[u].k = k
      BY <1>2, <1>4
    <3>2. U.count <= U.cap
      BY <2>1, <2>2
    <3>3. \A n \in 1..U.count : U.slot[n] # Junk
      BY <2>1, <2>3 DEF Clean, Array
    <3>4. U.arr = "none" => U.count = 0
      BY <2>1, <2>2
    <3> QED
      BY <3>1, <3>2, <3>3, <3>4 DEF Array
  <2>9. Entered(k)'
    <3>1. EnteredBy(w, k)'
      <4>1. T.count = T.cap /\ obj[k][job[w].o].alive
        BY <1>2, <1>4 DEF Clean, Entered, EnteredBy, Making
      <4>2. U.count < U.cap
        BY <2>1, <2>2, <4>1
      <4> QED
        BY <1>2, <1>4, <2>1, <4>1, <4>2 DEF EnteredBy
    <3>2. ASSUME NEW u \in Worker \ {w} PROVE EnteredBy(u, k)'
      <4>1. /\ job'[u].at = job[u].at /\ job'[u].k = job[u].k
            /\ job'[u].o = job[u].o
        BY <2>7 DEF Kept
      <4>2. EnteredBy(u, k)
        BY DEF Clean, Entered
      <4>3. job[u].k = k => job[u].at \notin Entering
        BY <2>6
      <4> QED
        BY <2>1, <4>1, <4>2, <4>3 DEF EnteredBy, Entering
    <3> QED
      BY <3>1, <3>2 DEF Entered
  <2>10. /\ NamedOnce(k)' /\ Living(k)' /\ Removing(k)' /\ Pointers(k)'
         /\ Owners(k)'
    <3>1. job[w].at \in Nameless /\ job'[w].at \in Nameless
      BY <1>2 DEF Nameless
    <3>2. RemovedBy(w, k)' /\ PointersOf(w, k)'
      BY <1>1, <1>2 DEF RemovedBy, PointersOf, Using
    <3>3. \A u \in Worker : job[u].at = "count" => job[u].k # k
      BY <1>2, <2>6 DEF Entering
    <3> QED
      BY <1>0, <1>1, <1>2, <2>1, <2>3, <3>1, <3>2, <3>3, SameEntries
  <2> QED
    BY <2>5, <2>8, <2>9, <2>10 DEF Clean
<1> QED
  BY <1>3, <1>4

-----------------------------------------------------------------------------
(* TABLE.arr is assigned *)

\* The new array: what it changes.
LEMMA AssignFacts ==
    ASSUME Types, NEW w \in Worker, Assign(w)
    PROVE  LET i == job[w]
               j == job'[w]
               k == i.k
           IN
           /\ i.at = "assign" /\ job' = [job EXCEPT ![w] = j] /\ j \in Job
           /\ j.at = "fill" /\ j.a = i.a /\ j.k = k /\ j.o = i.o /\ k \in Kind
           /\ \A m \in Kind \ {k} : table'[m] = table[m]
           /\ table' \in [Kind -> Table]
           /\ table'[k].arr = i.p.g /\ table'[k].count = table[k].count
           /\ table'[k].cap = table[k].cap /\ table'[k].slot = table[k].slot
           /\ UNCHANGED <<bound, session, dead, born, obj, blame>>
<1> DEFINE i == job[w]
           k == i.k
           j == [i EXCEPT !.at = "fill", !.p = Null]
           U == [table[k] EXCEPT !.arr = i.p.g]
<1>1. /\ w \in Thread /\ job \in [Thread -> Job] /\ i \in Job /\ k \in Kind
      /\ table \in [Kind -> Table] /\ table[k] \in Table /\ i.p.g \in Block
  BY DEF Types, Thread, Job, Pointer
<1>2. /\ i.at = "assign" /\ table' = [table EXCEPT ![k] = U]
      /\ job' = [job EXCEPT ![w] = j]
      /\ UNCHANGED <<bound, session, dead, born, obj, blame>>
  BY DEF Assign, Ready, Becomes, clientVars
<1>3. /\ j \in Job /\ j.at = "fill" /\ j.a = i.a /\ j.k = k /\ j.o = i.o
  <2>1. PICK r \in Job : r = i
    BY <1>1
  <2>2. Null \in Pointer
    BY IdleType DEF Job, Idle
  <2>3. LET f == [r EXCEPT !.at = "fill", !.p = Null] IN
        f \in Job /\ f.at = "fill" /\ f.a = r.a /\ f.k = r.k /\ f.o = r.o
    BY <2>2 DEF Job, At
  <2> QED
    BY <2>1, <2>3
<1>4. /\ U \in Table /\ U.arr = i.p.g /\ U.count = table[k].count
      /\ U.cap = table[k].cap /\ U.slot = table[k].slot
  <2>1. PICK T \in Table, g \in Block : T = table[k] /\ g = i.p.g
    BY <1>1
  <2>2. LET V == [T EXCEPT !.arr = g] IN
        /\ V \in Table /\ V.arr = g /\ V.count = T.count /\ V.cap = T.cap
        /\ V.slot = T.slot
    BY DEF Table
  <2> QED
    BY <2>1, <2>2
<1> HIDE DEF j, U
<1>5. job'[w] = j
  BY <1>1, <1>2
<1>6. /\ table' \in [Kind -> Table] /\ table'[k] = U
      /\ \A m \in Kind \ {k} : table'[m] = table[m]
  BY <1>1, <1>2, <1>4
<1> QED
  BY <1>1, <1>2, <1>3, <1>4, <1>5, <1>6

\* The new array: clients, and the shapes of jobs.
LEMMA AssignCore ==
    ASSUME Core, NEW w \in Worker, Assign(w)
    PROVE  Core'
<1>0. Types
  BY DEF Core
<1>1. LET i == job[w]
          j == job'[w]
          k == i.k
      IN /\ i.at = "assign" /\ job' = [job EXCEPT ![w] = j] /\ j \in Job
         /\ j.at = "fill" /\ j.a = i.a /\ j.k = k /\ j.o = i.o /\ k \in Kind
         /\ \A m \in Kind \ {k} : table'[m] = table[m]
         /\ table' \in [Kind -> Table]
         /\ table'[k].cap = table[k].cap /\ table'[k].slot = table[k].slot
         /\ UNCHANGED <<bound, session, dead, born, obj, blame>>
  BY <1>0, AssignFacts
<1>2. \A k \in Kind : Len(table'[k].slot) = table'[k].cap
  BY <1>0, <1>1, ZenonT(60) DEF Types
<1>3. job' \in [Thread -> Job] /\ Others(w)
  BY <1>0, <1>1, AloneMoves DEF Thread
<1>4. Types'
  BY <1>0, <1>1, <1>2, <1>3 DEF Types
<1> QED
  BY <1>1, <1>3, <1>4, EnteringCore DEF Nameless

\* The new array: the tables.
LEMMA AssignClean ==
    ASSUME Core, Core', NEW w \in Worker, Assign(w),
           NEW k \in Kind, Clean(k)
    PROVE  Clean(k)'
<1>0. Types /\ Sessions /\ Shapes /\ Apart /\ Types' /\ Shapes'
  BY DEF Core
<1>1. w \in Thread /\ w # Main
  BY TableConstants DEF Thread
<1>2. /\ job[w].at = "assign" /\ job' = [job EXCEPT ![w] = job'[w]]
      /\ job'[w] \in Job /\ job'[w].at = "fill"
      /\ job'[w].a = job[w].a /\ job'[w].k = job[w].k /\ job'[w].o = job[w].o
      /\ \A m \in Kind \ {job[w].k} : table'[m] = table[m]
      /\ UNCHANGED <<bound, session, dead, born, obj, blame>>
  BY <1>0, AssignFacts
<1>3. OthersAt(w, k) /\ Others(w) /\ \A u \in Thread \ {w} : job'[u] = job[u]
  BY <1>0, <1>1, <1>2, AloneMoves
<1>4. CASE job[w].k # k
  <2>1. ~About(job[w], k) /\ ~About(job'[w], k)
    BY <1>2, <1>4 DEF About, Using
  <2> QED
    BY <1>0, <1>1, <1>2, <1>3, <1>4, <2>1, OtherTable DEF MainKept
<1>5. CASE job[w].k = k
  <2> DEFINE T == table[k]
             U == table'[k]
  <2>1. /\ U.arr = job[w].p.g /\ U.count = T.count /\ U.cap = T.cap
        /\ U.slot = T.slot
    BY <1>0, <1>5, AssignFacts
  <2>2. EnteredBy(w, k)
    BY DEF Clean, Entered
  <2>3. U.arr = "present" /\ T.count < T.cap /\ obj[k][job[w].o].alive
    BY <1>2, <1>5, <2>1, <2>2 DEF EnteredBy, Making
  <2>4. \A u \in Worker \ {w} : job[u].at \in Entering => job[u].k # k
    BY <1>2, <1>5 DEF Clean, Alone, Entering
  <2>5. \A u \in Worker \ {w} : job'[u] = job[u]
    BY <1>3 DEF Thread
  <2>6. Alone(k)'
    BY <1>1, <1>2, <1>3, AloneKept DEF Clean, Entering
  <2>7. Array(k)'
    BY <2>1, <2>3 DEF Clean, Array
  <2>8. Entered(k)'
    <3>1. EnteredBy(w, k)'
      BY <1>2, <1>5, <2>1, <2>3 DEF EnteredBy
    <3>2. ASSUME NEW u \in Worker \ {w} PROVE EnteredBy(u, k)'
      <4>1. EnteredBy(u, k) /\ job'[u] = job[u]
        BY <2>5 DEF Clean, Entered
      <4> QED
        BY <1>2, <2>1, <2>4, <4>1 DEF EnteredBy, Entering
    <3> QED
      BY <3>1, <3>2 DEF Entered
  <2>9. /\ NamedOnce(k)' /\ Living(k)' /\ Removing(k)' /\ Pointers(k)'
        /\ Owners(k)'
    <3>2. RemovedBy(w, k)' /\ PointersOf(w, k)'
      BY <1>1, <1>2 DEF RemovedBy, PointersOf, Using
    <3>3. \A u \in Worker : job[u].at = "count" => job[u].k # k
      BY <1>2, <2>4 DEF Entering
    <3>1. job[w].at \in Nameless /\ job'[w].at \in Nameless
      BY <1>2 DEF Nameless
    <3> QED
      BY <1>0, <1>2, <1>3, <2>1, <3>1, <3>2, <3>3, SameEntries
  <2> QED
    BY <2>6, <2>7, <2>8, <2>9 DEF Clean
<1> QED
  BY <1>4, <1>5

-----------------------------------------------------------------------------
(* realloc fails *)

\* An object that changes.
LEMMA ObjectSet ==
    ASSUME NEW f \in [Kind -> Seq(Object)], NEW k \in Kind,
           NEW x \in DOMAIN f[k], NEW new \in Object
    PROVE  LET g == [f EXCEPT ![k] = [f[k] EXCEPT ![x] = new]] IN
           /\ g \in [Kind -> Seq(Object)]
           /\ \A m \in Kind \ {k} : g[m] = f[m]
           /\ DOMAIN g[k] = DOMAIN f[k] /\ g[k][x] = new
           /\ \A y \in DOMAIN f[k] \ {x} : g[k][y] = f[k][y]
<1> DEFINE s == [f[k] EXCEPT ![x] = new]
           g == [f EXCEPT ![k] = s]
<1>1. f[k] \in Seq(Object) /\ DOMAIN f[k] = 1..Len(f[k])
  BY LenProperties
<1>2. s \in Seq(Object)
  BY <1>1, ExceptSeq
<1>3. /\ DOMAIN s = DOMAIN f[k] /\ s[x] = new
      /\ \A y \in DOMAIN f[k] \ {x} : s[y] = f[k][y]
  OBVIOUS
<1> HIDE DEF s
<1>4. g[k] = s /\ g \in [Kind -> Seq(Object)]
      /\ \A m \in Kind \ {k} : g[m] = f[m]
  BY <1>2
<1> HIDE DEF g
<1>5. /\ g \in [Kind -> Seq(Object)]
      /\ \A m \in Kind \ {k} : g[m] = f[m]
      /\ DOMAIN g[k] = DOMAIN f[k] /\ g[k][x] = new
      /\ \A y \in DOMAIN f[k] \ {x} : g[k][y] = f[k][y]
  BY <1>3, <1>4
<1> QED
  BY <1>5 DEF g, s

\* Every object stays who it was.
SameObjects ==
    \A k \in Kind :
        /\ DOMAIN obj'[k] = DOMAIN obj[k]
        /\ \A x \in DOMAIN obj[k] : obj'[k][x].by = obj[k][x].by
                                    /\ obj'[k][x].id = obj[k][x].id

\* An object is destroyed.
Kills(k, x) ==
    /\ \A m \in Kind \ {k} : obj'[m] = obj[m]
    /\ DOMAIN obj'[k] = DOMAIN obj[k]
    /\ ~obj'[k][x].alive
    /\ \A y \in DOMAIN obj[k] :
         /\ obj'[k][y].by = obj[k][y].by /\ obj'[k][y].id = obj[k][y].id
         /\ obj'[k][y].late = obj[k][y].late
         /\ y # x => obj'[k][y] = obj[k][y]

\* The destruction of one object.
LEMMA ObjectKilled ==
    ASSUME Types, NEW k \in Kind, NEW x \in DOMAIN obj[k],
           obj' = [obj EXCEPT ![k][x].alive = FALSE]
    PROVE  obj' \in [Kind -> Seq(Object)] /\ Kills(k, x) /\ SameObjects
<1>1. PICK o \in Object : o = obj[k][x]
  BY TableType
<1> DEFINE new == [o EXCEPT !.alive = FALSE]
<1>2. /\ new \in Object /\ new.by = o.by /\ new.id = o.id
      /\ new.late = o.late /\ ~new.alive
  BY DEF Object
<1>3. obj' = [obj EXCEPT ![k] = [obj[k] EXCEPT ![x] = new]]
  BY <1>1
<1> HIDE DEF new
<1>4. /\ obj' \in [Kind -> Seq(Object)]
      /\ \A m \in Kind \ {k} : obj'[m] = obj[m]
      /\ DOMAIN obj'[k] = DOMAIN obj[k] /\ obj'[k][x] = new
      /\ \A y \in DOMAIN obj[k] \ {x} : obj'[k][y] = obj[k][y]
  <2>1. obj \in [Kind -> Seq(Object)]
    BY DEF Types
  <2>2. PICK f \in [Kind -> Seq(Object)] : f = obj
    BY <2>1
  <2>3. x \in DOMAIN f[k]
    BY <2>2
  <2>4. LET g == [f EXCEPT ![k] = [f[k] EXCEPT ![x] = new]] IN
        /\ g \in [Kind -> Seq(Object)]
        /\ \A m \in Kind \ {k} : g[m] = f[m]
        /\ DOMAIN g[k] = DOMAIN f[k] /\ g[k][x] = new
        /\ \A y \in DOMAIN f[k] \ {x} : g[k][y] = f[k][y]
    BY <1>2, <2>3, ObjectSet
  <2> QED
    BY <1>3, <2>2, <2>4
<1> QED
  BY <1>1, <1>2, <1>4 DEF Kills, SameObjects

\* Objects that keep their makers and ids.
LEMMA SameObjectsStay ==
    ASSUME Types, Shapes, Sessions, NEW t \in Thread, SameObjects, born' = born,
           session' = session, dead' = dead
    PROVE  ObjectsStay /\ NamelessStay(t) /\ Sessions'
<1>1. ObjectsStay
  BY DEF SameObjects, ObjectsStay
<1>2. \A u \in Worker : job[u].at \in Nameless =>
        /\ job[u].o \in DOMAIN obj[job[u].k] /\ job[u].k \in Kind
        /\ obj[job[u].k][job[u].o].id = None
  BY JobsType DEF Shapes, Shape, Thread, Making, Nameless
<1>3. NamelessStay(t)
  BY <1>2 DEF NamelessStay, SameObjects
<1>4. Sessions'
  BY SessionsKept DEF SameObjects, Sessions
<1> QED
  BY <1>1, <1>3, <1>4

\* A worker has answered.
LEMMA IdleCore ==
    ASSUME Core, NEW w \in Worker, job[w].at # "idle", job'[w].at = "idle",
           Types', Others(w), UNCHANGED <<session, dead, born>>, SameObjects
    PROVE  Core'
<1>0. Types /\ Sessions /\ Shapes /\ Apart
  BY DEF Core
<1>1. w \in Thread /\ w # Main
  BY TableConstants DEF Thread
<1>2. ObjectsStay /\ NamelessStay(w) /\ Sessions'
  BY <1>0, <1>1, SameObjectsStay
<1>3. Shape(w)'
  BY <1>1 DEF Shape, Making
<1>4. Shapes'
  BY <1>0, <1>1, <1>2, <1>3, MainRuns, ShapesKept
<1>5. Apart'
  BY <1>0, <1>1, ApartKept DEF Making
<1> QED
  BY <1>2, <1>4, <1>5 DEF Core

\* A realloc that fails: what it changes.
LEMMA GrowFailsFacts ==
    ASSUME Types, Shapes, NEW w \in Worker, GrowFails(w)
    PROVE  LET i == job[w]
               k == i.k
           IN
           /\ i.at = "grow" /\ job' = [job EXCEPT ![w] = Idle] /\ k \in Kind
           /\ i.o \in DOMAIN obj[k] /\ Kills(k, i.o) /\ SameObjects
           /\ obj' \in [Kind -> Seq(Object)]
           /\ \A m \in Kind \ {k} : table'[m] = table[m]
           /\ table' \in [Kind -> Table]
           /\ \A m \in Kind : Len(table'[m].slot) = table'[m].cap
           /\ k \notin blame' =>
                table[k].arr = "none" /\ table'[k] = table[k]
           /\ UNCHANGED <<bound, session, dead, born>>
           /\ blame \subseteq blame' /\ blame' \subseteq Kind
<1> DEFINE i == job[w]
           k == i.k
<1>1. /\ w \in Thread /\ i \in Job /\ k \in Kind
      /\ table \in [Kind -> Table] /\ Len(table[k].slot) = table[k].cap
      /\ \A m \in Kind : Len(table[m].slot) = table[m].cap
  BY DEF Types, Thread, Job
<1>2. /\ i.at = "grow" /\ job' = [job EXCEPT ![w] = Idle]
      /\ table' = [table EXCEPT ![k].arr = "none"]
      /\ obj' = [obj EXCEPT ![k][i.o].alive = FALSE]
      /\ blame' = IF table[k].arr = "none" THEN blame ELSE blame \cup {k}
      /\ UNCHANGED <<bound, session, dead, born>>
  BY DEF GrowFails, Ready, Answers, Becomes, Undone, clientVars
<1>3. i.o \in DOMAIN obj[k]
  BY <1>1, <1>2 DEF Shapes, Shape, Making
<1>4. Kills(k, i.o) /\ SameObjects /\ obj' \in [Kind -> Seq(Object)]
  BY <1>1, <1>2, <1>3, ObjectKilled
<1>5. PICK T \in Table : T = table[k]
  BY <1>1
<1> DEFINE U == [T EXCEPT !.arr = "none"]
<1>6. /\ U \in Table /\ U.slot = T.slot /\ U.cap = T.cap
      /\ T.arr = "none" => U = T
  BY DEF Table, Block
<1>7. table' = [table EXCEPT ![k] = U]
  BY <1>2, <1>5
<1> HIDE DEF U
<1>8. /\ table' \in [Kind -> Table] /\ table'[k] = U
      /\ \A m \in Kind \ {k} : table'[m] = table[m]
  BY <1>1, <1>6, <1>7
<1>9. \A m \in Kind : Len(table'[m].slot) = table'[m].cap
  BY <1>1, <1>5, <1>6, <1>8
<1>10. blame \subseteq blame' /\ blame' \subseteq Kind
  BY <1>1, <1>2 DEF Types
<1>11. k \notin blame' => table[k].arr = "none" /\ table'[k] = table[k]
  BY <1>2, <1>5, <1>6, <1>8
<1> QED
  BY <1>1, <1>2, <1>3, <1>4, <1>8, <1>9, <1>10, <1>11

\* A realloc that fails: clients, and the shapes of jobs.
LEMMA GrowFailsCore ==
    ASSUME Core, NEW w \in Worker, GrowFails(w)
    PROVE  Core'
<1>0. Types /\ Shapes
  BY DEF Core
<1>1. /\ job[w].at = "grow" /\ job' = [job EXCEPT ![w] = Idle]
      /\ SameObjects /\ obj' \in [Kind -> Seq(Object)]
      /\ table' \in [Kind -> Table]
      /\ \A m \in Kind : Len(table'[m].slot) = table'[m].cap
      /\ UNCHANGED <<bound, session, dead, born>>
      /\ blame' \subseteq Kind
  BY <1>0, GrowFailsFacts
<1>2. job' \in [Thread -> Job] /\ Others(w) /\ job'[w] = Idle
  BY <1>0, <1>1, AloneMoves, IdleType DEF Thread
<1>3. Types'
  BY <1>0, <1>1, <1>2 DEF Types
<1> QED
  BY <1>1, <1>2, <1>3, IdleType, IdleCore

\* A realloc that fails: the tables.
LEMMA GrowFailsClean ==
    ASSUME Core, Core', NEW w \in Worker, GrowFails(w),
           NEW k \in Kind \ blame', Clean(k)
    PROVE  Clean(k)'
<1>0. Types /\ Sessions /\ Shapes /\ Apart /\ Types' /\ Shapes'
  BY DEF Core
<1>1. w \in Thread /\ w # Main
  BY TableConstants DEF Thread
<1>2. /\ job[w].at = "grow" /\ job' = [job EXCEPT ![w] = Idle]
      /\ job[w].k \in Kind /\ Kills(job[w].k, job[w].o)
      /\ \A m \in Kind \ {job[w].k} : table'[m] = table[m]
      /\ UNCHANGED <<bound, session, dead, born>>
  BY <1>0, GrowFailsFacts
<1>3. /\ OthersAt(w, k) /\ Others(w) /\ job'[w] = Idle
      /\ \A u \in Thread \ {w} : job'[u] = job[u]
  BY <1>0, <1>1, <1>2, AloneMoves, IdleType
<1>a. job'[w].at = "idle"
  BY <1>3, IdleType
<1>4. CASE job[w].k # k
  <2>1. ~About(job[w], k) /\ ~About(job'[w], k)
    BY <1>2, <1>4, <1>a DEF About, Using, Making
  <2>2. table'[k] = table[k] /\ obj'[k] = obj[k]
    BY <1>2, <1>4 DEF Kills
  <2> QED
    BY <1>0, <1>1, <1>2, <1>3, <2>1, <2>2, OtherTable DEF MainKept
<1>5. CASE job[w].k = k
  <2>1. table[k].arr = "none" /\ table'[k] = table[k]
    BY <1>0, <1>5, GrowFailsFacts
  <2>2. /\ job[w].o \in DOMAIN obj[k] /\ DOMAIN obj'[k] = DOMAIN obj[k]
        /\ ~obj'[k][job[w].o].alive
        /\ \A y \in DOMAIN obj[k] :
             /\ obj'[k][y].by = obj[k][y].by /\ obj'[k][y].id = obj[k][y].id
             /\ obj'[k][y].late = obj[k][y].late
             /\ y # job[w].o => obj'[k][y] = obj[k][y]
    BY <1>0, <1>2, <1>5, GrowFailsFacts DEF Kills
  <2>3. \A u \in Worker \ {w} : job[u].at \in Entering => job[u].k # k
    BY <1>2, <1>5 DEF Clean, Alone, Entering
  <2>4. \A u \in Worker \ {w} : job'[u] = job[u]
    BY <1>3 DEF Thread
  <2>5. table[k].count = 0 /\ table[k].cap = 0 /\ table'[k].count = 0
    BY <1>2, <2>1, <2>3 DEF Clean, Array, Entering
  <2>6. 1..table[k].count = {} /\ 0..table[k].count - 1 = {}
    BY <2>5
  <2>7. Alone(k)'
    BY <1>1, <1>3, <1>a, AloneKept DEF Clean, Entering
  <2>8. Array(k)'
    BY <2>1, <2>5, <2>6 DEF Clean, Array
  <2>9. Entered(k)'
    <3>1. EnteredBy(w, k)'
      BY <1>a DEF EnteredBy, Making
    <3>2. ASSUME NEW u \in Worker \ {w}, job[u].k = k, job[u].at \in Making
          PROVE  obj'[k][job[u].o].alive
      <4>1. job[u].o # job[w].o
        BY <1>0, <1>2, <1>5, <3>2 DEF Apart, Making
      <4>2. job[u].o \in DOMAIN obj[k]
        BY <1>0, <3>2 DEF Shapes, Shape, Thread
      <4>3. obj[k][job[u].o].alive
        BY <3>2 DEF Clean, Entered, EnteredBy
      <4> QED
        BY <2>2, <4>1, <4>2, <4>3
    <3>3. ASSUME NEW u \in Worker \ {w} PROVE EnteredBy(u, k)'
      BY <2>3, <2>4, <3>2 DEF EnteredBy, Entering
    <3> QED
      BY <3>1, <3>3 DEF Entered
  <2>10. NamedOnce(k)'
    <3>1. \A x \in DOMAIN obj[k] : obj[k][x].id = None
      <4>1. \A x \in DOMAIN obj[k] : obj[k][x].id \in Nat \cup {None}
        BY <1>0, TableType DEF Object
      <4>2. \A u \in Worker : ~(job[u].at = "count" /\ job[u].k = k)
        BY <1>2, <2>3 DEF Entering
      <4>3. \A x \in DOMAIN obj[k] : obj[k][x].id # None => obj[k][x].id < 0
        BY <2>5, <4>2 DEF Clean, NamedOnce
      <4>4. \A n \in Nat : ~(n < 0)
        OBVIOUS
      <4> QED
        BY <4>1, <4>3, <4>4
    <3> QED
      BY <2>1, <2>2, <2>6, <3>1 DEF NamedOnce
  <2>11. Living(k)'
    <3>1. ASSUME NEW x \in DOMAIN obj[k], obj'[k][x].alive
          PROVE  x # job[w].o /\ obj'[k][x] = obj[k][x] /\ obj[k][x].alive
      BY <2>2, <3>1
    <3>2. \A u \in Worker : job[u].at \in Nameless /\ job[u].k = k
                            /\ job[u].o # job[w].o => job'[u] = job[u]
      BY <2>4
    <3>3. \A x \in DOMAIN obj'[k] : obj'[k][x].alive =>
            IF obj'[k][x].id = None
            THEN \E u \in Worker : job'[u].at \in Nameless
                                   /\ job'[u].k = k /\ job'[u].o = x
            ELSE EntryOf(k, x)'.ptr = x
      BY <2>1, <2>2, <3>1, <3>2 DEF Clean, Living, EntryOf
    <3> QED
      BY <2>1, <2>6, <3>3 DEF Living
  <2>12. EntriesStay(k)
    BY <2>6 DEF EntriesStay
  <2>13. Removing(k)' /\ Pointers(k)'
    <3>1. RemovedBy(w, k)' /\ PointersOf(w, k)'
      BY <1>1, <1>a DEF RemovedBy, PointersOf, Using
    <3> QED
      BY <1>0, <1>1, <1>3, <2>12, <3>1, NoneBut, RemovingStays, PointersStay
         DEF Clean
  <2>14. Owners(k)'
    <3>1. job'[Main] = job[Main]
      BY <1>1, <1>3 DEF Thread
    <3> QED
      BY <2>1, <2>6, <3>1 DEF Clean, Owners
  <2> QED
    BY <2>7, <2>8, <2>9, <2>10, <2>11, <2>13, <2>14 DEF Clean
<1> QED
  BY <1>4, <1>5

-----------------------------------------------------------------------------
(* An entry is written *)

\* The writing of one entry, for any tables.
LEMMA SlotSet ==
    ASSUME NEW f \in [Kind -> Table], NEW k \in Kind,
           \A m \in Kind : Len(f[m].slot) = f[m].cap,
           NEW n \in 1..f[k].cap, NEW e \in Entry
    PROVE  LET g == [f EXCEPT ![k].slot[n] = e] IN
           /\ g \in [Kind -> Table]
           /\ \A m \in Kind : Len(g[m].slot) = g[m].cap
           /\ \A m \in Kind \ {k} : g[m] = f[m]
           /\ g[k].arr = f[k].arr /\ g[k].count = f[k].count
           /\ g[k].cap = f[k].cap /\ g[k].slot[n] = e
           /\ \A i \in 1..f[k].cap : i # n => g[k].slot[i] = f[k].slot[i]
<1> DEFINE s == [f[k].slot EXCEPT ![n] = e]
           T == [f[k] EXCEPT !.slot = s]
           g == [f EXCEPT ![k] = T]
           S == Entry \cup {Junk}
<1>1. PICK U \in Table : U = f[k]
  OBVIOUS
<1>2. /\ U.slot \in Seq(S) /\ Len(U.slot) = U.cap /\ n \in 1..Len(U.slot)
      /\ e \in S
  BY <1>1 DEF Table
<1>3. /\ s \in Seq(S) /\ Len(s) = U.cap
      /\ \A i \in 1..U.cap : s[i] = IF i = n THEN e ELSE U.slot[i]
  <2> HIDE DEF S
  <2>1. /\ [U.slot EXCEPT ![n] = e] \in Seq(S)
        /\ Len([U.slot EXCEPT ![n] = e]) = Len(U.slot)
        /\ \A j \in 1..Len(U.slot) :
             [U.slot EXCEPT ![n] = e][j] = IF j = n THEN e ELSE U.slot[j]
    BY <1>2, ExceptSeq
  <2> QED
    BY <1>1, <1>2, <2>1
<1> HIDE DEF s
<1>4. /\ [U EXCEPT !.slot = s] \in Table
      /\ [U EXCEPT !.slot = s].slot = s /\ [U EXCEPT !.slot = s].cap = U.cap
      /\ [U EXCEPT !.slot = s].arr = U.arr
      /\ [U EXCEPT !.slot = s].count = U.count
  BY <1>3 DEF Table
<1>5. /\ T \in Table /\ T.slot = s /\ T.cap = U.cap /\ T.arr = U.arr
      /\ T.count = U.count
  BY <1>1, <1>4
<1> HIDE DEF T
<1>6. g \in [Kind -> Table] /\ g[k] = T /\ \A m \in Kind \ {k} : g[m] = f[m]
  BY <1>5
<1>7. [f EXCEPT ![k].slot[n] = e] = g
  BY DEF T, s
<1> HIDE DEF g
<1>8. /\ g \in [Kind -> Table]
      /\ \A m \in Kind : Len(g[m].slot) = g[m].cap
      /\ \A m \in Kind \ {k} : g[m] = f[m]
      /\ g[k].arr = f[k].arr /\ g[k].count = f[k].count
      /\ g[k].cap = f[k].cap /\ g[k].slot[n] = e
      /\ \A i \in 1..f[k].cap : i # n => g[k].slot[i] = f[k].slot[i]
  BY <1>1, <1>2, <1>3, <1>5, <1>6
<1> QED
  BY <1>7, <1>8

\* What a write into table k leaves.
Writes(k, n) ==
    /\ table' \in [Kind -> Table]
    /\ \A m \in Kind : Len(table'[m].slot) = table'[m].cap
    /\ \A m \in Kind \ {k} : table'[m] = table[m]
    /\ table'[k].arr = table[k].arr /\ table'[k].count = table[k].count
    /\ table'[k].cap = table[k].cap
    /\ \A i \in 1..table[k].cap : i # n => table'[k].slot[i] = table[k].slot[i]

\* The writing of one entry.
LEMMA EntryWritten ==
    ASSUME Types, NEW k \in Kind, NEW n \in 1..table[k].cap, NEW e \in Entry,
           table' = [table EXCEPT ![k].slot[n] = e]
    PROVE  Writes(k, n) /\ table'[k].slot[n] = e
<1>1. /\ table \in [Kind -> Table]
      /\ \A m \in Kind : Len(table[m].slot) = table[m].cap
  BY DEF Types
<1>2. PICK f \in [Kind -> Table] : f = table
  BY <1>1
<1>3. n \in 1..f[k].cap
  BY <1>2
<1>4. LET g == [f EXCEPT ![k].slot[n] = e] IN
      /\ g \in [Kind -> Table]
      /\ \A m \in Kind : Len(g[m].slot) = g[m].cap
      /\ \A m \in Kind \ {k} : g[m] = f[m]
      /\ g[k].arr = f[k].arr /\ g[k].count = f[k].count
      /\ g[k].cap = f[k].cap /\ g[k].slot[n] = e
      /\ \A i \in 1..f[k].cap : i # n => g[k].slot[i] = f[k].slot[i]
  BY <1>1, <1>2, <1>3, SlotSet
<1> QED
  BY <1>2, <1>4 DEF Writes

\* An object gets its id.
Names(k, x, n) ==
    /\ \A m \in Kind \ {k} : obj'[m] = obj[m]
    /\ DOMAIN obj'[k] = DOMAIN obj[k] /\ obj'[k][x].id = n
    /\ \A y \in DOMAIN obj[k] :
         /\ obj'[k][y].by = obj[k][y].by /\ obj'[k][y].late = obj[k][y].late
         /\ obj'[k][y].alive = obj[k][y].alive
         /\ y # x => obj'[k][y] = obj[k][y]

\* The id of one object.
LEMMA ObjectNamed ==
    ASSUME Types, NEW k \in Kind, NEW x \in DOMAIN obj[k], NEW n \in Nat,
           obj' = [obj EXCEPT ![k][x].id = n]
    PROVE  obj' \in [Kind -> Seq(Object)] /\ Names(k, x, n)
<1>1. PICK o \in Object : o = obj[k][x]
  BY TableType
<1> DEFINE new == [o EXCEPT !.id = n]
<1>2. /\ new \in Object /\ new.by = o.by /\ new.id = n
      /\ new.late = o.late /\ new.alive = o.alive
  BY DEF Object
<1>3. obj' = [obj EXCEPT ![k] = [obj[k] EXCEPT ![x] = new]]
  BY <1>1
<1> HIDE DEF new
<1>4. /\ obj' \in [Kind -> Seq(Object)]
      /\ \A m \in Kind \ {k} : obj'[m] = obj[m]
      /\ DOMAIN obj'[k] = DOMAIN obj[k] /\ obj'[k][x] = new
      /\ \A y \in DOMAIN obj[k] \ {x} : obj'[k][y] = obj[k][y]
  <2>1. PICK f \in [Kind -> Seq(Object)] : f = obj
    BY DEF Types
  <2>2. x \in DOMAIN f[k]
    BY <2>1
  <2>3. LET g == [f EXCEPT ![k] = [f[k] EXCEPT ![x] = new]] IN
        /\ g \in [Kind -> Seq(Object)]
        /\ \A m \in Kind \ {k} : g[m] = f[m]
        /\ DOMAIN g[k] = DOMAIN f[k] /\ g[k][x] = new
        /\ \A y \in DOMAIN f[k] \ {x} : g[k][y] = f[k][y]
    BY <1>2, <2>2, ObjectSet
  <2> QED
    BY <1>3, <2>1, <2>3
<1> QED
  BY <1>1, <1>2, <1>4 DEF Names

\* The new entry: what it changes.
LEMMA FillFacts ==
    ASSUME Types, Shapes, NEW w \in Worker, Fill(w)
    PROVE  LET i == job[w]
               j == job'[w]
               k == i.k
               n == table[k].count
           IN
           \/ Stops
           \/ /\ i.at = "fill" /\ k \in Kind /\ i.o \in DOMAIN obj[k]
              /\ n \in Nat /\ n + 1 \in 1..table[k].cap
              /\ table[k].arr = "present"
              /\ Writes(k, n + 1) /\ table'[k].slot[n + 1] # Junk
              /\ table'[k].slot[n + 1].ptr = i.o
              /\ table'[k].slot[n + 1].owner = i.a
              /\ obj' \in [Kind -> Seq(Object)] /\ Names(k, i.o, n)
              /\ j \in Job /\ job' = [job EXCEPT ![w] = j]
              /\ j.at = "count" /\ j.id = n /\ j.a = i.a /\ j.k = k
              /\ j.o = i.o
              /\ UNCHANGED <<bound, session, dead, born, blame>>
<1> DEFINE i == job[w]
           k == i.k
           n == table[k].count
           p == [k |-> k, g |-> table[k].arr, i |-> n]
           j == [i EXCEPT !.at = "count", !.id = n]
<1>1. /\ w \in Thread /\ i \in Job /\ k \in Kind /\ job \in [Thread -> Job]
      /\ Len(table[k].slot) = table[k].cap /\ table[k].cap \in Nat
      /\ n \in Nat /\ table[k].arr \in Block
  BY TableType DEF Types, Thread, Job
<1>2. /\ i.at = "fill"
      /\ \/ \E c : Breaks(w, c, k)
         \/ /\ Defect(p) \in {"", "junk"}
            /\ table' = [table EXCEPT ![k].slot[n + 1] = NewEntry(i.o, i.a)]
            /\ obj' = [obj EXCEPT ![k][i.o].id = n]
            /\ job' = [job EXCEPT ![w] = j]
            /\ UNCHANGED <<bound, session, dead, born, blame>>
  BY DEF Fill, Ready, Becomes, NextId, clientVars
<1>3. CASE \E c : Breaks(w, c, k)
  BY <1>3, BreaksStops
<1>4. CASE /\ Defect(p) \in {"", "junk"}
           /\ table' = [table EXCEPT ![k].slot[n + 1] = NewEntry(i.o, i.a)]
           /\ obj' = [obj EXCEPT ![k][i.o].id = n]
           /\ job' = [job EXCEPT ![w] = j]
           /\ UNCHANGED <<bound, session, dead, born, blame>>
  <2>1. i.o \in DOMAIN obj[k] /\ i.a \in Addr
    BY <1>1, <1>2 DEF Shapes, Shape, Making
  <2>2. i.o \in Nat
    <3>1. DOMAIN obj[k] = 1..Len(obj[k]) /\ Len(obj[k]) \in Nat
      BY <1>1, TableType
    <3> QED
      BY <2>1, <3>1
  <2>3. table[k].arr = "present" /\ ~(n >= table[k].cap)
    BY <1>1, <1>4 DEF Defect, Block
  <2>4. n + 1 \in 1..table[k].cap
    BY <1>1, <2>3, IndexIn
  <2> DEFINE e == NewEntry(i.o, i.a)
  <2>5. e \in Entry /\ e.ptr = i.o /\ e.owner = i.a
    BY <2>1, <2>2 DEF NewEntry, Entry
  <2>6. e # Junk
    BY <2>5, PointerConstants
  <2> HIDE DEF e
  <2>7. Writes(k, n + 1) /\ table'[k].slot[n + 1] = e
    <3>1. table' = [table EXCEPT ![k].slot[n + 1] = e]
      BY <1>4 DEF e
    <3> QED
      BY <1>1, <2>4, <2>5, <3>1, EntryWritten, ZenonT(60)
  <2>8. obj' \in [Kind -> Seq(Object)] /\ Names(k, i.o, n)
    BY <1>1, <1>4, <2>1, ObjectNamed
  <2>9. /\ j \in Job /\ j.at = "count" /\ j.id = n /\ j.a = i.a /\ j.k = k
        /\ j.o = i.o
    <3>1. PICK r \in Job, m \in Int : r = i /\ m = n
      BY <1>1
    <3>2. LET f == [r EXCEPT !.at = "count", !.id = m] IN
          /\ f \in Job /\ f.at = "count" /\ f.id = m /\ f.a = r.a /\ f.k = r.k
          /\ f.o = r.o
      BY DEF Job, At
    <3> QED
      BY <3>1, <3>2
  <2> HIDE DEF j
  <2>10. job'[w] = j
    BY <1>1, <1>4
  <2> QED
    BY <1>1, <1>2, <1>4, <2>1, <2>3, <2>4, <2>5, <2>6, <2>7, <2>8, <2>9, <2>10
<1> QED
  BY <1>2, <1>3, <1>4

\* The new entry: clients, and the shapes of jobs.
LEMMA FillCore ==
    ASSUME Core, NEW w \in Worker, Fill(w), ~Stops
    PROVE  Core'
<1>0. Types /\ Sessions /\ Shapes /\ Apart
  BY DEF Core
<1>1. w \in Thread /\ w # Main
  BY TableConstants DEF Thread
<1> DEFINE k == job[w].k
           x == job[w].o
           n == table[k].count
<1>2. /\ job[w].at = "fill" /\ k \in Kind /\ x \in DOMAIN obj[k]
      /\ n \in Nat /\ Writes(k, n + 1)
      /\ obj' \in [Kind -> Seq(Object)] /\ Names(k, x, n)
      /\ job'[w] \in Job /\ job' = [job EXCEPT ![w] = job'[w]]
      /\ job'[w].at = "count" /\ job'[w].a = job[w].a /\ job'[w].k = k
      /\ job'[w].o = x /\ job'[w].id \in Nat
      /\ UNCHANGED <<bound, session, dead, born, blame>>
  BY <1>0, FillFacts
<1> HIDE DEF n
<1>3. job' \in [Thread -> Job] /\ Others(w)
  BY <1>0, <1>1, <1>2, AloneMoves
<1>4. Types'
  BY <1>0, <1>2, <1>3 DEF Types, Writes
<1>5. /\ \A m \in Kind \ {k} : obj'[m] = obj[m]
      /\ DOMAIN obj'[k] = DOMAIN obj[k]
      /\ \A y \in DOMAIN obj[k] :
         /\ obj'[k][y].by = obj[k][y].by
         /\ y # x => obj'[k][y] = obj[k][y]
  BY <1>2 DEF Names
<1>6. ObjectsStay
  BY <1>5 DEF ObjectsStay
<1>7. Sessions'
  <2>1. \A m \in Kind : \A y \in DOMAIN obj'[m] : obj'[m][y].by <= born
    BY <1>0, <1>5 DEF Sessions
  <2> QED
    BY <1>0, <1>2, <2>1, SessionsKept
<1>8. NamelessStay(w)
  <2> SUFFICES ASSUME NEW u \in Worker \ {w}, job[u].at \in Nameless
               PROVE  obj'[job[u].k][job[u].o].id = None
    BY DEF NamelessStay
  <2>1. /\ job[u].o \in DOMAIN obj[job[u].k] /\ job[u].k \in Kind
        /\ obj[job[u].k][job[u].o].id = None /\ job[u].at \in Making
    BY <1>0, JobsType DEF Shapes, Shape, Thread, Making, Nameless
  <2>2. job[u].k = k => job[u].o # x
    BY <1>0, <1>2, <2>1 DEF Apart, Making
  <2> QED
    BY <1>5, <2>1, <2>2
<1>9. Shape(w)'
  <2>1. /\ job[w].a \in Addr /\ session[job[w].a] # 0
        /\ obj[k][x].by = session[job[w].a]
    BY <1>0, <1>1, <1>2 DEF Shapes, Shape, Making
  <2>2. /\ x \in DOMAIN obj'[k] /\ obj'[k][x].by = session'[job[w].a]
        /\ session'[job[w].a] # 0
    BY <1>2, <1>5, <2>1
  <2> QED
    BY <1>1, <1>2, <2>1, <2>2 DEF Shape, Nameless
<1>10. Shapes'
  BY <1>0, <1>1, <1>2, <1>3, <1>6, <1>8, <1>9, MainRuns, ShapesKept
<1>11. Apart'
  BY <1>0, <1>1, <1>2, <1>3, ApartKept DEF Making
<1> QED
  BY <1>4, <1>7, <1>10, <1>11 DEF Core

\* The new entry: the tables.
LEMMA FillClean ==
    ASSUME Core, Core', NEW w \in Worker, Fill(w), ~Stops,
           NEW k \in Kind, Clean(k)
    PROVE  Clean(k)'
<1>0. Types /\ Sessions /\ Shapes /\ Apart /\ Types' /\ Shapes'
  BY DEF Core
<1>1. w \in Thread /\ w # Main
  BY TableConstants DEF Thread
<1>2. /\ job[w].at = "fill" /\ job[w].k \in Kind
      /\ Writes(job[w].k, table[job[w].k].count + 1)
      /\ Names(job[w].k, job[w].o, table[job[w].k].count)
      /\ job'[w] \in Job /\ job' = [job EXCEPT ![w] = job'[w]]
      /\ job'[w].at = "count" /\ job'[w].a = job[w].a
      /\ job'[w].k = job[w].k /\ job'[w].o = job[w].o
      /\ UNCHANGED <<bound, session, dead, born, blame>>
  BY <1>0, FillFacts
<1>3. /\ OthersAt(w, k) /\ Others(w)
      /\ \A u \in Thread \ {w} : job'[u] = job[u]
  BY <1>0, <1>1, <1>2, AloneMoves
<1>4. CASE job[w].k # k
  <2>1. ~About(job[w], k) /\ ~About(job'[w], k)
    BY <1>2, <1>4 DEF About, Using
  <2>2. table'[k] = table[k] /\ obj'[k] = obj[k]
    BY <1>2, <1>4 DEF Names, Writes
  <2> QED
    BY <1>0, <1>1, <1>2, <1>3, <2>1, <2>2, OtherTable DEF MainKept
<1>5. CASE job[w].k = k
  <2> DEFINE n == table[k].count
             x == job[w].o
             T == table[k]
             U == table'[k]
  <2>1. /\ x \in DOMAIN obj[k] /\ n \in Nat /\ n + 1 \in 1..T.cap
        /\ T.arr = "present" /\ job'[w].id = n
        /\ U.slot[n + 1] # Junk /\ U.slot[n + 1].ptr = x
        /\ U.slot[n + 1].owner = job[w].a
    BY <1>0, <1>5, FillFacts
  <2>2. /\ U.arr = T.arr /\ U.count = n /\ U.cap = T.cap
        /\ \A i \in 1..T.cap : i # n + 1 => U.slot[i] = T.slot[i]
    BY <1>2, <1>5 DEF Writes
  <2>3. /\ DOMAIN obj'[k] = DOMAIN obj[k] /\ obj'[k][x].id = n
        /\ \A y \in DOMAIN obj[k] :
             /\ obj'[k][y].by = obj[k][y].by
             /\ obj'[k][y].late = obj[k][y].late
             /\ obj'[k][y].alive = obj[k][y].alive
             /\ y # x => obj'[k][y] = obj[k][y]
    BY <1>2, <1>5 DEF Names
  <2>4. /\ obj[k][x].id = None /\ obj[k][x].alive
    BY <1>0, <1>1, <1>2, <1>5 DEF Shapes, Shape, Making, Nameless,
                                  Clean, Entered, EnteredBy
  <2>5. \A i \in 1..n : i # n + 1 /\ i \in 1..T.cap /\ U.slot[i] = T.slot[i]
    <3>1. T.cap \in Nat /\ n <= T.cap
      BY <1>0, TableType DEF Clean, Array
    <3>2. \A i \in 1..n : i # n + 1 /\ i \in 1..T.cap
      BY <2>1, <3>1
    <3> QED
      BY <2>2, <3>2
  <2>6. \A u \in Worker \ {w} : job[u].at \in Entering => job[u].k # k
    BY <1>2, <1>5 DEF Clean, Alone, Entering
  <2>7. \A u \in Worker \ {w} : job'[u] = job[u]
    BY <1>3 DEF Thread
  <2>8. Alone(k)'
    BY <1>1, <1>2, <1>3, AloneKept DEF Clean, Entering
  <2>9. Array(k)'
    BY <2>1, <2>2, <2>5 DEF Clean, Array
  <2>10. Entered(k)'
    <3>1. EnteredBy(w, k)'
      <4>1. n < T.cap
        BY <1>2, <1>5 DEF Clean, Entered, EnteredBy
      <4> QED
        BY <1>2, <1>5, <2>1, <2>2, <2>3, <2>4, <4>1 DEF EnteredBy
    <3>2. ASSUME NEW u \in Worker \ {w} PROVE EnteredBy(u, k)'
      <4>1. job[u].k = k /\ job[u].at \in Making => obj[k][job[u].o].alive
        BY DEF Clean, Entered, EnteredBy
      <4>2. job[u].k = k /\ job[u].at \in Making => job[u].o \in DOMAIN obj[k]
        BY <1>0 DEF Shapes, Shape, Thread
      <4> QED
        BY <2>3, <2>6, <2>7, <4>1, <4>2 DEF EnteredBy, Entering
    <3> QED
      BY <3>1, <3>2 DEF Entered
  <2>11. NamedOnce(k)'
    <3>1. ASSUME NEW i \in 1..n, U.slot[i].ptr # None
          PROVE  U.slot[i].ptr \in DOMAIN obj'[k]
                 /\ obj'[k][U.slot[i].ptr].id = i - 1
      <4>1. /\ T.slot[i].ptr \in DOMAIN obj[k]
            /\ obj[k][T.slot[i].ptr].id = i - 1 /\ U.slot[i] = T.slot[i]
        BY <2>5, <3>1 DEF Clean, NamedOnce
      <4>2. T.slot[i].ptr # x
        <5>1. i - 1 \in Nat
          OBVIOUS
        <5> QED
          BY <2>4, <4>1, <5>1, PointerConstants
      <4> QED
        BY <2>3, <4>1, <4>2
    <3>2. ASSUME NEW y \in DOMAIN obj[k], obj'[k][y].id # None
          PROVE  /\ \/ obj'[k][y].id < U.count
                    \/ \E u \in Worker : job'[u].at = "count"
                                          /\ job'[u].k = k /\ job'[u].o = y
                 /\ EntryOf(k, y)'.ptr \in {y, None}
      <4>1. CASE y = x
        BY <1>2, <1>5, <2>1, <2>2, <2>3, <4>1 DEF EntryOf
      <4>2. CASE y # x
        <5>1. obj'[k][y] = obj[k][y]
          BY <2>3, <4>2
        <5>2. obj[k][y].id < n
          <6>1. \A u \in Worker : ~(job[u].at = "count" /\ job[u].k = k)
            BY <1>2, <2>6 DEF Entering
          <6> QED
            BY <3>2, <5>1, <6>1 DEF Clean, NamedOnce
        <5>3. obj[k][y].id \in Nat
          BY <1>0, <3>2, <5>1, TableType DEF Object
        <5>4. obj[k][y].id + 1 \in 1..n
          BY <2>1, <5>2, <5>3, IndexOf
        <5>5. EntryOf(k, y)' = EntryOf(k, y)
          BY <2>5, <5>1, <5>4 DEF EntryOf
        <5> QED
          BY <2>2, <3>2, <5>1, <5>2, <5>5 DEF Clean, NamedOnce
      <4> QED
        BY <4>1, <4>2
    <3> QED
      BY <2>2, <2>3, <3>1, <3>2 DEF NamedOnce
  <2>12. Living(k)'
    <3>1. ASSUME NEW y \in DOMAIN obj[k], obj'[k][y].alive
          PROVE  IF obj'[k][y].id = None
                 THEN \E u \in Worker : job'[u].at \in Nameless
                                        /\ job'[u].k = k /\ job'[u].o = y
                 ELSE EntryOf(k, y)'.ptr = y
      <4>1. CASE y = x
        <5>1. obj'[k][y].id # None
          BY <2>1, <2>3, <4>1, PointerConstants
        <5> QED
          BY <2>1, <2>3, <4>1, <5>1 DEF EntryOf
      <4>2. CASE y # x
        <5>1. obj'[k][y] = obj[k][y]
          BY <2>3, <4>2
        <5>2. CASE obj[k][y].id = None
          <6>1. PICK u \in Worker : job[u].at \in Nameless /\ job[u].k = k
                                    /\ job[u].o = y
            BY <3>1, <5>1, <5>2 DEF Clean, Living
          <6>2. job'[u] = job[u]
            BY <2>7, <4>2, <6>1
          <6> QED
            BY <5>1, <5>2, <6>1, <6>2
        <5>3. CASE obj[k][y].id # None
          <6>1. obj[k][y].id < n
            <7>1. \A u \in Worker : ~(job[u].at = "count" /\ job[u].k = k)
              BY <1>2, <2>6 DEF Entering
            <7> QED
              BY <5>3, <7>1 DEF Clean, NamedOnce
          <6>2. obj[k][y].id \in Nat
            BY <1>0, <5>3, TableType DEF Object
          <6>3. obj[k][y].id + 1 \in 1..n
            BY <2>1, <6>1, <6>2, IndexOf
          <6>4. EntryOf(k, y)' = EntryOf(k, y)
            BY <2>5, <5>1, <6>3 DEF EntryOf
          <6> QED
            BY <3>1, <5>1, <5>3, <6>4 DEF Clean, Living
        <5> QED
          BY <5>2, <5>3
      <4> QED
        BY <4>1, <4>2
    <3>2. \A u \in Thread : job[u].at = "clear" => job'[u] = job[u]
      BY <1>2, <1>3
    <3>3. ASSUME NEW i \in 1..n, U.slot[i].ptr # None,
                 ~obj'[k][U.slot[i].ptr].alive
          PROVE  \E u \in Thread : job'[u].at = "clear" /\ job'[u].k = k
                                  /\ job'[u].q.k = k /\ job'[u].q.i = i - 1
      <4>1. U.slot[i] = T.slot[i] /\ T.slot[i].ptr \in DOMAIN obj[k]
        BY <2>5, <3>3 DEF Clean, NamedOnce
      <4>2. ~obj[k][T.slot[i].ptr].alive
        BY <2>3, <3>3, <4>1
      <4> QED
        BY <3>2, <3>3, <4>1, <4>2 DEF Clean, Living
    <3> QED
      BY <2>2, <2>3, <3>1, <3>3 DEF Living
  <2>13. EntriesStay(k)
    BY <2>2, <2>3, <2>5 DEF EntriesStay, Clean, NamedOnce
  <2>14. Removing(k)' /\ Pointers(k)'
    <3>1. RemovedBy(w, k)' /\ PointersOf(w, k)'
      BY <1>1, <1>2 DEF RemovedBy, PointersOf, Using
    <3> QED
      BY <1>0, <1>1, <1>3, <2>13, <3>1, NoneBut, RemovingStays, PointersStay
         DEF Clean
  <2>15. Owners(k)'
    <3>1. job'[Main] = job[Main]
      BY <1>1, <1>3 DEF Thread
    <3>2. \A a \in Addr : \A i : Passed(a, k, i)' <=> Passed(a, k, i)
      BY <1>2, <3>1 DEF Passed
    <3>3. \A i \in 1..n : U.slot[i].ptr # None =>
            /\ U.slot[i] = T.slot[i]
            /\ obj'[k][U.slot[i].ptr].by = obj[k][T.slot[i].ptr].by
            /\ obj'[k][U.slot[i].ptr].late = obj[k][T.slot[i].ptr].late
      BY <2>3, <2>5, SMTT(30) DEF Clean, NamedOnce
    <3>4. job[Main].at = "remove" /\ job[Main].k = k =>
            U.slot[job[Main].id + 1] = T.slot[job[Main].id + 1]
      <4>1. job[Main].at = "remove" /\ job[Main].k = k =>
               job[Main].id \in 0..n - 1
        BY DEF Clean, Removing, RemovedBy, Thread
      <4>2. \A i \in 0..n - 1 : i + 1 \in 1..n
        BY <2>1
      <4> QED
        BY <2>5, <4>1, <4>2
    <3>5. ASSUME NEW i \in 1..n, U.slot[i].ptr # None
          PROVE  /\ \A a \in Addr : obj'[k][U.slot[i].ptr].by = session[a] =>
                    /\ U.slot[i].owner = a
                    /\ Passed(a, k, i - 1)' => obj'[k][U.slot[i].ptr].late
                 /\ (\A a \in Addr : obj'[k][U.slot[i].ptr].by # session[a]) =>
                      obj'[k][U.slot[i].ptr].late
      <4>1. /\ \A a \in Addr : obj[k][T.slot[i].ptr].by = session[a] =>
                    /\ T.slot[i].owner = a
                    /\ Passed(a, k, i - 1) => obj[k][T.slot[i].ptr].late
            /\ (\A a \in Addr : obj[k][T.slot[i].ptr].by # session[a]) =>
                      obj[k][T.slot[i].ptr].late
        BY <3>3, <3>5 DEF Clean, Owners
      <4> QED
        BY <3>2, <3>3, <3>5, <4>1
    <3>6. job[Main].at = "remove" /\ job[Main].k = k =>
            U.slot[job[Main].id + 1].owner = job[Main].a
      BY <3>4 DEF Clean, Owners
    <3> QED
      BY <1>2, <2>2, <3>1, <3>5, <3>6 DEF Owners
  <2> QED
    BY <2>8, <2>9, <2>10, <2>11, <2>12, <2>14, <2>15 DEF Clean
<1> QED
  BY <1>4, <1>5

-----------------------------------------------------------------------------
(* The count is raised *)

\* An object is late.
Lates(k, x, b) ==
    /\ \A m \in Kind \ {k} : obj'[m] = obj[m]
    /\ DOMAIN obj'[k] = DOMAIN obj[k] /\ obj'[k][x].late = b
    /\ \A y \in DOMAIN obj[k] :
         /\ obj'[k][y].by = obj[k][y].by /\ obj'[k][y].id = obj[k][y].id
         /\ obj'[k][y].alive = obj[k][y].alive
         /\ y # x => obj'[k][y] = obj[k][y]

\* The mark of one object.
LEMMA ObjectLate ==
    ASSUME Types, NEW k \in Kind, NEW x \in DOMAIN obj[k], NEW b \in BOOLEAN,
           obj' = [obj EXCEPT ![k][x].late = b]
    PROVE  obj' \in [Kind -> Seq(Object)] /\ Lates(k, x, b) /\ SameObjects
<1>1. PICK o \in Object : o = obj[k][x]
  BY TableType
<1> DEFINE new == [o EXCEPT !.late = b]
<1>2. /\ new \in Object /\ new.by = o.by /\ new.id = o.id
      /\ new.late = b /\ new.alive = o.alive
  BY DEF Object
<1>3. obj' = [obj EXCEPT ![k] = [obj[k] EXCEPT ![x] = new]]
  BY <1>1
<1> HIDE DEF new
<1>4. /\ obj' \in [Kind -> Seq(Object)]
      /\ \A m \in Kind \ {k} : obj'[m] = obj[m]
      /\ DOMAIN obj'[k] = DOMAIN obj[k] /\ obj'[k][x] = new
      /\ \A y \in DOMAIN obj[k] \ {x} : obj'[k][y] = obj[k][y]
  <2>1. PICK f \in [Kind -> Seq(Object)] : f = obj
    BY DEF Types
  <2>2. x \in DOMAIN f[k]
    BY <2>1
  <2>3. LET g == [f EXCEPT ![k] = [f[k] EXCEPT ![x] = new]] IN
        /\ g \in [Kind -> Seq(Object)]
        /\ \A m \in Kind \ {k} : g[m] = f[m]
        /\ DOMAIN g[k] = DOMAIN f[k] /\ g[k][x] = new
        /\ \A y \in DOMAIN f[k] \ {x} : g[k][y] = f[k][y]
    BY <1>2, <2>2, ObjectSet
  <2> QED
    BY <1>3, <2>1, <2>3
<1> QED
  BY <1>1, <1>2, <1>4 DEF Lates, SameObjects

\* The new count: what it changes.
LEMMA CountFacts ==
    ASSUME Types, Shapes, NEW w \in Worker, Count(w)
    PROVE  LET i == job[w]
               k == i.k
           IN
           /\ i.at = "count" /\ job' = [job EXCEPT ![w] = Idle] /\ k \in Kind
           /\ i.o \in DOMAIN obj[k] /\ Lates(k, i.o, i.a \in dead)
           /\ SameObjects /\ obj' \in [Kind -> Seq(Object)]
           /\ \A m \in Kind \ {k} : table'[m] = table[m]
           /\ table' \in [Kind -> Table]
           /\ \A m \in Kind : Len(table'[m].slot) = table'[m].cap
           /\ table'[k].arr = table[k].arr /\ table'[k].cap = table[k].cap
           /\ table'[k].slot = table[k].slot
           /\ table'[k].count \in {table[k].count + 1, i.id + 1}
           /\ UNCHANGED <<bound, session, dead, born, blame>>
<1> DEFINE i == job[w]
           k == i.k
<1>1. /\ w \in Thread /\ i \in Job /\ k \in Kind
      /\ table \in [Kind -> Table] /\ table[k].count \in Nat
      /\ \A m \in Kind : Len(table[m].slot) = table[m].cap
  BY TableType DEF Types, Thread, Job
<1>2. /\ i.at = "count" /\ job' = [job EXCEPT ![w] = Idle]
      /\ \E n \in {table[k].count, i.id} :
            table' = [table EXCEPT ![k].count = n + 1]
      /\ obj' = [obj EXCEPT ![k][i.o].late = i.a \in dead]
      /\ UNCHANGED <<bound, session, dead, born, blame>>
  BY DEF Count, Ready, Answers, Becomes, clientVars
<1>3. i.o \in DOMAIN obj[k] /\ i.id \in Nat
  BY <1>1, <1>2 DEF Shapes, Shape, Making
<1>4. Lates(k, i.o, i.a \in dead) /\ SameObjects
      /\ obj' \in [Kind -> Seq(Object)]
  <2> DEFINE b == i.a \in dead
  <2>1. b \in BOOLEAN
    OBVIOUS
  <2>2. obj' = [obj EXCEPT ![k][i.o].late = b]
    BY <1>2
  <2> HIDE DEF b
  <2>3. obj' \in [Kind -> Seq(Object)] /\ Lates(k, i.o, b) /\ SameObjects
    BY <1>1, <1>3, <2>1, <2>2, ObjectLate
  <2> QED
    BY <2>3 DEF b
<1>5. PICK n \in Nat : /\ n \in {table[k].count, i.id}
                       /\ table' = [table EXCEPT ![k].count = n + 1]
  BY <1>1, <1>2, <1>3
<1>6. PICK T \in Table : T = table[k]
  BY <1>1
<1> DEFINE U == [T EXCEPT !.count = n + 1]
<1>7. /\ U \in Table /\ U.slot = T.slot /\ U.cap = T.cap /\ U.arr = T.arr
      /\ U.count = n + 1
  BY DEF Table
<1>8. table' = [table EXCEPT ![k] = U]
  BY <1>5, <1>6
<1> HIDE DEF U
<1>9. /\ table' \in [Kind -> Table] /\ table'[k] = U
      /\ \A m \in Kind \ {k} : table'[m] = table[m]
  BY <1>1, <1>7, <1>8
<1>10. \A m \in Kind : Len(table'[m].slot) = table'[m].cap
  BY <1>1, <1>6, <1>7, <1>9
<1> QED
  BY <1>1, <1>2, <1>3, <1>4, <1>5, <1>6, <1>7, <1>9, <1>10

\* The new count: clients, and the shapes of jobs.
LEMMA CountCore ==
    ASSUME Core, NEW w \in Worker, Count(w)
    PROVE  Core'
<1>0. Types /\ Shapes
  BY DEF Core
<1>1. /\ job[w].at = "count" /\ job' = [job EXCEPT ![w] = Idle]
      /\ SameObjects /\ obj' \in [Kind -> Seq(Object)]
      /\ table' \in [Kind -> Table]
      /\ \A m \in Kind : Len(table'[m].slot) = table'[m].cap
      /\ UNCHANGED <<bound, session, dead, born, blame>>
  BY <1>0, CountFacts
<1>2. job' \in [Thread -> Job] /\ Others(w) /\ job'[w] = Idle
  BY <1>0, <1>1, AloneMoves, IdleType DEF Thread
<1>3. Types'
  BY <1>0, <1>1, <1>2 DEF Types
<1> QED
  BY <1>1, <1>2, <1>3, IdleType, IdleCore

\* The new count: the tables.
LEMMA CountClean ==
    ASSUME Core, Core', NEW w \in Worker, Count(w), NEW k \in Kind, Clean(k)
    PROVE  Clean(k)'
<1>0. Types /\ Sessions /\ Shapes /\ Apart /\ Types' /\ Shapes'
  BY DEF Core
<1>1. w \in Thread /\ w # Main
  BY TableConstants DEF Thread
<1>2. /\ job[w].at = "count" /\ job' = [job EXCEPT ![w] = Idle]
      /\ Lates(job[w].k, job[w].o, job[w].a \in dead) /\ job[w].k \in Kind
      /\ \A m \in Kind \ {job[w].k} : table'[m] = table[m]
      /\ UNCHANGED <<bound, session, dead, born, blame>>
  BY <1>0, CountFacts
<1>3. /\ OthersAt(w, k) /\ Others(w) /\ job'[w] = Idle
      /\ \A u \in Thread \ {w} : job'[u] = job[u]
  BY <1>0, <1>1, <1>2, AloneMoves, IdleType
<1>a. job'[w].at = "idle"
  BY <1>3, IdleType
<1>4. CASE job[w].k # k
  <2>1. ~About(job[w], k) /\ ~About(job'[w], k)
    BY <1>2, <1>4, <1>a DEF About, Using, Making
  <2>2. table'[k] = table[k] /\ obj'[k] = obj[k]
    BY <1>2, <1>4 DEF Lates
  <2> QED
    BY <1>0, <1>1, <1>2, <1>3, <2>1, <2>2, OtherTable DEF MainKept
<1>5. CASE job[w].k = k
  <2> DEFINE n == table[k].count
             x == job[w].o
             T == table[k]
             U == table'[k]
  <2>1. /\ x \in DOMAIN obj[k] /\ U.arr = T.arr /\ U.cap = T.cap
        /\ U.slot = T.slot /\ U.count \in {n + 1, job[w].id + 1}
    BY <1>0, <1>5, CountFacts
  <2>2. /\ n < T.cap /\ obj[k][x].alive /\ job[w].id = n
        /\ obj[k][x].id = n /\ T.slot[n + 1] # Junk
        /\ T.slot[n + 1].ptr = x /\ T.slot[n + 1].owner = job[w].a
    BY <1>2, <1>5 DEF Clean, Entered, EnteredBy, Making
  <2>3. U.count = n + 1 /\ n \in Nat /\ T.cap \in Nat /\ n + 1 <= T.cap
    <3>1. n \in Nat /\ T.cap \in Nat
      BY <1>0, TableType
    <3> QED
      BY <2>1, <2>2, <3>1
  <2>4. /\ DOMAIN obj'[k] = DOMAIN obj[k]
        /\ obj'[k][x].late = (job[w].a \in dead)
        /\ \A y \in DOMAIN obj[k] :
             /\ obj'[k][y].by = obj[k][y].by
             /\ obj'[k][y].id = obj[k][y].id
             /\ obj'[k][y].alive = obj[k][y].alive
             /\ y # x => obj'[k][y] = obj[k][y]
    BY <1>2, <1>5 DEF Lates
  <2>5. 1..U.count = 1..n \cup {n + 1}
    BY <2>3
  <2>6. \A u \in Worker \ {w} : job[u].at \in Entering => job[u].k # k
    BY <1>2, <1>5 DEF Clean, Alone, Entering
  <2>7. \A u \in Worker \ {w} : job'[u] = job[u]
    BY <1>3 DEF Thread
  <2>8. Alone(k)'
    BY <1>1, <1>2, <1>3, <1>a, AloneKept DEF Clean, Entering
  <2>9. Array(k)'
    <3>1. \A u \in Worker : ~(job[u].at = "assign" /\ job[u].k = k)
      BY <1>2, <2>6 DEF Entering
    <3>2. T.arr # "none"
      BY <2>2, <2>3, <3>1 DEF Clean, Array
    <3>3. T.arr # "released"
      <4>1. job[Main].at # "done"
        BY <1>0, <1>2, MainRuns
      <4> QED
        BY <3>1, <4>1 DEF Clean, Array
    <3>4. \A i \in 1..U.count : U.slot[i] # Junk
      BY <2>1, <2>2, <2>5 DEF Clean, Array
    <3> QED
      BY <2>1, <2>3, <3>2, <3>3, <3>4 DEF Array
  <2>10. Entered(k)'
    <3>1. EnteredBy(w, k)'
      BY <1>a DEF EnteredBy, Making
    <3>2. ASSUME NEW u \in Worker \ {w} PROVE EnteredBy(u, k)'
      <4>1. job[u].k = k /\ job[u].at \in Making => obj[k][job[u].o].alive
        BY DEF Clean, Entered, EnteredBy
      <4>2. job[u].k = k /\ job[u].at \in Making => job[u].o \in DOMAIN obj[k]
        BY <1>0 DEF Shapes, Shape, Thread
      <4> QED
        BY <2>4, <2>6, <2>7, <4>1, <4>2 DEF EnteredBy, Entering
    <3> QED
      BY <3>1, <3>2 DEF Entered
  <2>11. NamedOnce(k)'
    <3>1. ASSUME NEW i \in 1..U.count, U.slot[i].ptr # None
          PROVE  U.slot[i].ptr \in DOMAIN obj'[k]
                 /\ obj'[k][U.slot[i].ptr].id = i - 1
      <4>1. CASE i \in 1..n
        BY <2>1, <2>4, <3>1, <4>1 DEF Clean, NamedOnce
      <4>2. CASE i = n + 1
        <5>1. i - 1 = n
          BY <2>3, <4>2
        <5> QED
          BY <2>1, <2>2, <2>4, <4>2, <5>1
      <4> QED
        BY <2>5, <4>1, <4>2
    <3>2. ASSUME NEW y \in DOMAIN obj[k], obj'[k][y].id # None
          PROVE  /\ obj'[k][y].id < U.count
                 /\ EntryOf(k, y)'.ptr \in {y, None}
      <4>1. obj'[k][y].id = obj[k][y].id /\ obj[k][y].id \in Nat
        BY <1>0, <2>4, <3>2, TableType DEF Object
      <4>2. obj[k][y].id < U.count
        <5>1. CASE y = x
          BY <2>2, <2>3, <5>1
        <5>2. CASE y # x
          <6>1. \A u \in Worker : ~(job[u].at = "count" /\ job[u].k = k
                                    /\ job[u].o = y)
            BY <2>6, <5>2 DEF Entering
          <6>2. obj[k][y].id < n
            BY <3>2, <4>1, <6>1 DEF Clean, NamedOnce
          <6> QED
            BY <2>3, <4>1, <6>2
        <5> QED
          BY <5>1, <5>2
      <4>3. EntryOf(k, y)' = EntryOf(k, y)
        BY <2>1, <4>1 DEF EntryOf
      <4> QED
        BY <3>2, <4>1, <4>2, <4>3 DEF Clean, NamedOnce
    <3> QED
      BY <2>4, <3>1, <3>2 DEF NamedOnce
  <2>12. Living(k)'
    <3>1. ASSUME NEW y \in DOMAIN obj[k], obj'[k][y].alive
          PROVE  IF obj'[k][y].id = None
                 THEN \E u \in Worker : job'[u].at \in Nameless
                                        /\ job'[u].k = k /\ job'[u].o = y
                 ELSE EntryOf(k, y)'.ptr = y
      <4>1. obj'[k][y].id = obj[k][y].id /\ obj[k][y].alive
        BY <2>4, <3>1
      <4>2. \A u \in Worker : job[u].at \in Nameless => job'[u] = job[u]
        BY <1>2, <2>7 DEF Nameless
      <4>3. EntryOf(k, y)' = EntryOf(k, y)
        BY <2>1, <4>1 DEF EntryOf
      <4> QED
        BY <4>1, <4>2, <4>3 DEF Clean, Living
    <3>2. \A u \in Thread : job[u].at = "clear" => job'[u] = job[u]
      BY <1>2, <1>3
    <3>3. ASSUME NEW i \in 1..U.count, U.slot[i].ptr # None,
                 ~obj'[k][U.slot[i].ptr].alive
          PROVE  \E u \in Thread : job'[u].at = "clear" /\ job'[u].k = k
                                  /\ job'[u].q.k = k /\ job'[u].q.i = i - 1
      <4>1. i \in 1..n
        BY <2>1, <2>2, <2>4, <2>5, <3>3
      <4>2. T.slot[i].ptr \in DOMAIN obj[k]
        BY <2>1, <3>3, <4>1 DEF Clean, NamedOnce
      <4>3. ~obj[k][T.slot[i].ptr].alive
        BY <2>1, <2>4, <3>3, <4>2
      <4> QED
        BY <2>1, <3>2, <3>3, <4>1, <4>3 DEF Clean, Living
    <3> QED
      BY <2>4, <3>1, <3>3 DEF Living
  <2>13. EntriesStay(k)
    BY <2>1, <2>4, <2>5 DEF EntriesStay, Clean, NamedOnce
  <2>14. Removing(k)' /\ Pointers(k)'
    <3>1. RemovedBy(w, k)' /\ PointersOf(w, k)'
      BY <1>1, <1>a DEF RemovedBy, PointersOf, Using
    <3> QED
      BY <1>0, <1>1, <1>3, <2>13, <3>1, NoneBut, RemovingStays, PointersStay
         DEF Clean
  <2>15. Owners(k)'
    <3>1. job'[Main] = job[Main]
      BY <1>1, <1>3 DEF Thread
    <3>2. \A a \in Addr : \A i : Passed(a, k, i)' <=> Passed(a, k, i)
      BY <1>2, <3>1 DEF Passed
    <3>3. ASSUME NEW i \in 1..n, U.slot[i].ptr # None
          PROVE  /\ \A a \in Addr : obj'[k][U.slot[i].ptr].by = session[a] =>
                    /\ U.slot[i].owner = a
                    /\ Passed(a, k, i - 1)' => obj'[k][U.slot[i].ptr].late
                 /\ (\A a \in Addr : obj'[k][U.slot[i].ptr].by # session[a]) =>
                      obj'[k][U.slot[i].ptr].late
      <4>1. /\ \A a \in Addr : obj[k][T.slot[i].ptr].by = session[a] =>
                    /\ T.slot[i].owner = a
                    /\ Passed(a, k, i - 1) => obj[k][T.slot[i].ptr].late
            /\ (\A a \in Addr : obj[k][T.slot[i].ptr].by # session[a]) =>
                      obj[k][T.slot[i].ptr].late
        BY <2>1, <3>3 DEF Clean, Owners
      <4>2. T.slot[i].ptr \in DOMAIN obj[k] /\ T.slot[i].ptr # x
        <5>1. T.slot[i].ptr \in DOMAIN obj[k]
              /\ obj[k][T.slot[i].ptr].id = i - 1
          BY <2>1, <3>3 DEF Clean, NamedOnce
        <5>2. i - 1 # n
          BY <2>3
        <5> QED
          BY <2>2, <5>1, <5>2
      <4>3. U.slot[i] = T.slot[i]
        BY <2>1, <3>3
      <4>4. obj'[k][T.slot[i].ptr] = obj[k][T.slot[i].ptr]
        BY <2>4, <4>2
      <4> QED
        BY <3>2, <4>1, <4>3, <4>4
    <3>4. /\ \A a \in Addr : obj'[k][x].by = session[a] =>
                    /\ U.slot[n + 1].owner = a
                    /\ \A i : Passed(a, k, i)' => obj'[k][x].late
          /\ \E a \in Addr : obj'[k][x].by = session[a]
      <4>1. /\ job[w].a \in Addr /\ session[job[w].a] # 0
            /\ obj[k][x].by = session[job[w].a]
        BY <1>0, <1>1, <1>2, <1>5 DEF Shapes, Shape, Making
      <4>2. obj'[k][x].by = session[job[w].a]
        BY <2>1, <2>4, <4>1
      <4>3. \A a \in Addr : obj'[k][x].by = session[a] => a = job[w].a
        BY <1>0, <4>1, <4>2 DEF Sessions
      <4>4. \A a \in Addr : \A i : Passed(a, k, i)' => a \in dead
        BY <3>2 DEF Passed
      <4> QED
        BY <2>1, <2>2, <2>4, <4>1, <4>2, <4>3, <4>4
    <3>5. job[Main].at = "remove" /\ job[Main].k = k =>
            U.slot[job[Main].id + 1].owner = job[Main].a
      BY <2>1 DEF Clean, Owners
    <3>6. U.slot[n + 1].ptr = x
      BY <2>1, <2>2
    <3>7. ASSUME NEW i \in 1..U.count, U.slot[i].ptr # None
          PROVE  /\ \A a \in Addr : obj'[k][U.slot[i].ptr].by = session[a] =>
                    /\ U.slot[i].owner = a
                    /\ Passed(a, k, i - 1)' => obj'[k][U.slot[i].ptr].late
                 /\ (\A a \in Addr : obj'[k][U.slot[i].ptr].by # session[a]) =>
                      obj'[k][U.slot[i].ptr].late
      <4>1. CASE i \in 1..n
        BY <3>3, <3>7, <4>1
      <4>2. CASE i = n + 1
        <5> HIDE DEF n, x, T, U
        <5>1. U.slot[i].ptr = x
          BY <3>6, <4>2
        <5>2. \A a \in Addr : obj'[k][x].by = session[a] =>
                /\ U.slot[i].owner = a
                /\ Passed(a, k, i - 1)' => obj'[k][x].late
          BY <3>4, <4>2
        <5>3. PICK b \in Addr : obj'[k][x].by = session[b]
          BY <3>4
        <5> QED
          BY <5>1, <5>2, <5>3
      <4> QED
        BY <2>5, <4>1, <4>2
    <3> QED
      BY <1>2, <3>1, <3>5, <3>7 DEF Owners
  <2> QED
    BY <2>8, <2>9, <2>10, <2>11, <2>12, <2>14, <2>15 DEF Clean
<1> QED
  BY <1>4, <1>5

-----------------------------------------------------------------------------
(* An entry changes, and those who have looked at it are robbed *)

\* Thread t moves, and those who had looked at the entry are robbed.
LEMMA AfterMoves ==
    ASSUME Types, NEW t \in Thread, NEW j \in Job, NEW p \in Pointer,
           BecomesAfter(t, j, p)
    PROVE  /\ job' \in [Thread -> Job] /\ job'[t] = j /\ Others(t)
           /\ \A k : OthersAt(t, k)
           /\ p # Null => RobbedAt(t, p.k, p.i + 1)
<1>1. ASSUME NEW u \in Thread \ {t}
      PROVE  /\ job'[u] \in Job /\ Kept(u) /\ job'[u].p = job[u].p
             /\ job'[u].robbed = (job[u].robbed \/ Eyes(u, p))
  <2>1. PICK r \in Job : r = job[u]
    BY DEF Types
  <2> DEFINE b == r.robbed \/ Eyes(u, p)
             i == [r EXCEPT !.robbed = b]
  <2>2. b \in BOOLEAN
    <3>1. r.robbed \in BOOLEAN /\ Eyes(u, p) \in BOOLEAN
      BY DEF Job, Eyes, Same
    <3> QED
      BY <3>1
  <2>3. job'[u] = i
    BY <2>1 DEF BecomesAfter
  <2> HIDE DEF b
  <2>4. /\ i \in Job /\ i.at = r.at /\ i.a = r.a /\ i.k = r.k /\ i.id = r.id
        /\ i.o = r.o /\ i.p = r.p /\ i.q = r.q /\ i.robbed = b
    BY <2>2 DEF Job
  <2> HIDE DEF i
  <2>5. r.robbed => b
    BY DEF b
  <2>6. job'[u] \in Job /\ Kept(u) /\ job'[u].p = job[u].p
    BY <2>1, <2>3, <2>4, <2>5 DEF Kept, PointerKept
  <2>7. job'[u].robbed = (job[u].robbed \/ Eyes(u, p))
    BY <2>1, <2>3, <2>4 DEF b
  <2> QED
    BY <2>6, <2>7
<1>2. job'[t] = j /\ DOMAIN job' = Thread
      /\ job' = [u \in Thread |-> job'[u]]
  BY DEF BecomesAfter
<1>3. \A u \in Thread : job'[u] \in Job
  BY <1>1, <1>2
<1>4. job' \in [Thread -> Job]
  BY <1>2, <1>3
<1>5. p # Null => RobbedAt(t, p.k, p.i + 1)
  <2> SUFFICES ASSUME p # Null, NEW u \in Thread \ {t}, ~job'[u].robbed
               PROVE  /\ job[u].p.k = p.k => job[u].p.i + 1 # p.i + 1
                      /\ job[u].q.k = p.k => job[u].q.i + 1 # p.i + 1
    BY DEF RobbedAt
  <2>1. ~Eyes(u, p)
    BY <1>1
  <2>2. p.i \in Nat /\ job[u].p.i \in Nat /\ job[u].q.i \in Nat
    BY JobsType DEF Pointer
  <2>3. ~(p.k = job[u].p.k /\ p.i = job[u].p.i)
        /\ ~(p.k = job[u].q.k /\ p.i = job[u].q.i)
    BY <2>1 DEF Eyes, Same
  <2> QED
    BY <2>2, <2>3
<1> QED
  BY <1>1, <1>2, <1>4, <1>5 DEF Others, OthersAt

\* A pointer that has lost its entry's object is one that was robbed.
LEMMA RobbedAlready ==
    ASSUME Types, NEW t \in Thread, NEW k \in Kind, Pointers(k), Others(t),
           NEW n \in Nat,
           LET x == table[k].slot[n + 1].ptr IN x # None => ~obj[k][x].alive
    PROVE  RobbedAt(t, k, n + 1)
<1> SUFFICES ASSUME NEW u \in Thread \ {t}, ~job'[u].robbed
             PROVE  /\ job[u].at \in Using /\ job[u].p.k = k
                         => job[u].p.i + 1 # n + 1
                    /\ job[u].at = "place" /\ job[u].q.k = k
                         => job[u].q.i + 1 # n + 1
  BY DEF RobbedAt
<1>1. ~job[u].robbed
  BY DEF Others, Kept
<1>2. job[u].p.i \in Nat /\ job[u].q.i \in Nat
  BY JobsType
<1>3. \A i \in Nat : i + 1 = n + 1 => i = n
  OBVIOUS
<1>4. PointersOf(u, k)
  BY DEF Pointers
<1>5. job[u].at \in Using /\ job[u].p.k = k => job[u].p.i # n
  BY <1>1, <1>4 DEF PointersOf, Sound
<1>6. job[u].at = "place" /\ job[u].q.k = k => job[u].q.i # n
  BY <1>1, <1>4 DEF PointersOf, Sound
<1> QED
  BY <1>2, <1>3, <1>5, <1>6

\* What thread t has done to entry e of table k: the object it names may die
\* or lose its name, and nothing else is different.
Changes(t, k, e) ==
    /\ e \in 1..table[k].count
    /\ table'[k].count = table[k].count /\ table'[k].cap = table[k].cap
    /\ table'[k].arr = table[k].arr
    /\ \A i \in 1..table[k].cap : i # e => table'[k].slot[i] = table[k].slot[i]
    /\ LET x == table[k].slot[e].ptr
           y == table'[k].slot[e].ptr
       IN /\ table'[k].slot[e] # Junk /\ y \in {x, None}
          /\ \/ table'[k].slot[e].owner = table[k].slot[e].owner
             \/ t = Main /\ y = None
          /\ DOMAIN obj'[k] = DOMAIN obj[k]
          /\ \A z \in DOMAIN obj[k] :
               /\ obj'[k][z].by = obj[k][z].by /\ obj'[k][z].id = obj[k][z].id
               /\ obj'[k][z].late = obj[k][z].late
               /\ obj'[k][z].alive => obj[k][z].alive
               /\ z # x => obj'[k][z] = obj[k][z]
          /\ x # None => y = x \/ ~obj'[k][x].alive
          /\ y # None /\ ~obj'[k][y].alive =>
               \E u \in Thread : job'[u].at = "clear" /\ job'[u].k = k
                                   /\ job'[u].q.k = k /\ job'[u].q.i = e - 1

\* Thread t changes an entry with what it does between its look and its answer.
Handles(t, k, e) ==
    /\ job[t].at \notin Making \cup {"done"}
    /\ job'[t].at \notin Making \cup {"remove"}
    /\ job[t].at = "clear" /\ job[t].k = k => job[t].q.i = e - 1
    /\ t = Main => \A a \in Addr, i \in 1..table[k].count :
         table'[k].slot[i].ptr # None /\ Passed(a, k, i - 1)'
            => Passed(a, k, i - 1)

\* A live entry names one object, and no other entry names it.
LEMMA EntryNames ==
    ASSUME Types, NEW k \in Kind, NamedOnce(k), NEW i \in 1..table[k].count,
           table[k].slot[i].ptr # None
    PROVE  /\ table[k].slot[i].ptr \in DOMAIN obj[k]
           /\ obj[k][table[k].slot[i].ptr].id = i - 1
           /\ \A j \in 1..table[k].count :
                table[k].slot[j].ptr = table[k].slot[i].ptr => i = j
<1>1. /\ table[k].slot[i].ptr \in DOMAIN obj[k]
      /\ obj[k][table[k].slot[i].ptr].id = i - 1
  BY DEF NamedOnce
<1>2. ASSUME NEW j \in 1..table[k].count,
             table[k].slot[j].ptr = table[k].slot[i].ptr
      PROVE  i = j
  <2>1. i - 1 = j - 1
    BY <1>1, <1>2 DEF NamedOnce
  <2>2. table[k].count \in Nat
    BY TableType
  <2> QED
    BY <2>1, <2>2
<1> QED
  BY <1>1, <1>2

\* One entry and its object change: what all the removals and shares rest on.
LEMMA EntryChanges ==
    ASSUME Types, Types', Shapes, NEW t \in Thread, NEW k \in Kind, Clean(k),
           NEW e \in Nat, Changes(t, k, e), Handles(t, k, e),
           OthersAt(t, k),
           UNCHANGED <<session, dead>>, RobbedAt(t, k, e),
           RemovedBy(t, k)', PointersOf(t, k)'
    PROVE  Clean(k)'
<1> DEFINE x == table[k].slot[e].ptr
           n == table[k].count
<1>1. /\ e \in 1..n /\ n \in Nat /\ table[k].cap \in Nat /\ n <= table[k].cap
      /\ table'[k].count = n /\ table'[k].cap = table[k].cap
      /\ table'[k].arr = table[k].arr
      /\ \A i \in 1..table[k].cap :
            i # e => table'[k].slot[i] = table[k].slot[i]
  BY TableType DEF Changes, Clean, Array
<1>2. \A i \in 1..n : i # e => table'[k].slot[i] = table[k].slot[i]
  BY <1>1
<1>3. /\ table'[k].slot[e] # Junk /\ table'[k].slot[e].ptr \in {x, None}
      /\ \/ table'[k].slot[e].owner = table[k].slot[e].owner
         \/ t = Main /\ table'[k].slot[e].ptr = None
      /\ DOMAIN obj'[k] = DOMAIN obj[k]
      /\ x # None => table'[k].slot[e].ptr = x \/ ~obj'[k][x].alive
  BY DEF Changes
<1>4. \A z \in DOMAIN obj[k] :
        /\ obj'[k][z].by = obj[k][z].by /\ obj'[k][z].id = obj[k][z].id
        /\ obj'[k][z].late = obj[k][z].late
        /\ obj'[k][z].alive => obj[k][z].alive
        /\ z # x => obj'[k][z] = obj[k][z]
  BY DEF Changes
<1>5. /\ job[t].at \notin Making \cup {"done"}
      /\ job'[t].at \notin Making \cup {"remove"}
      /\ job[t].at = "clear" /\ job[t].k = k => job[t].q.i = e - 1
  BY DEF Handles
<1>6. (\A u \in Thread \ {t} : Kept(u)) /\ Others(t)
  BY DEF OthersAt, Others
<1>7. \A i \in 1..n : i # e /\ table[k].slot[i].ptr # None =>
         /\ table[k].slot[i].ptr \in DOMAIN obj[k]
         /\ table[k].slot[i].ptr # x
  BY <1>1, EntryNames DEF Clean
<1>8. x # None => x \in DOMAIN obj[k] /\ obj[k][x].id = e - 1
  BY <1>1, EntryNames DEF Clean
<1> HIDE DEF x, n
<1>9. Alone(k)'
  BY <1>5, <1>6, AloneKept DEF Clean, Making, Entering
<1>10. Array(k)'
  <2>1. \A u \in Thread : job[u].at \in {"assign", "done"} =>
            job'[u].at = job[u].at /\ job'[u].k = job[u].k
    BY <1>5, <1>6 DEF Making, Kept
  <2>2. \A i \in 1..n : table'[k].slot[i] # Junk
    BY <1>2, <1>3 DEF Clean, Array, n
  <2> QED
    BY <1>1, <2>1, <2>2 DEF Clean, Array, n, Thread
<1>11. Entered(k)'
  <2> SUFFICES ASSUME NEW u \in Worker PROVE EnteredBy(u, k)'
    BY DEF Entered
  <2>1. CASE u = t
    BY <1>5, <2>1 DEF EnteredBy, Making
  <2>2. CASE u # t
    <3>1. /\ job'[u].at = job[u].at /\ job'[u].k = job[u].k
          /\ job'[u].a = job[u].a /\ job'[u].o = job[u].o
          /\ job'[u].id = job[u].id /\ u \in Thread
          /\ job[u].p.g = "present" => job'[u].p.g \in {"present", "released"}
      BY <1>6, <2>2 DEF Kept, PointerKept, Thread
    <3>2. EnteredBy(u, k)
      BY DEF Clean, Entered
    <3>3. job[u].k = k /\ job[u].at = "assign" => job'[u].p.g = job[u].p.g
      BY <2>2, <3>1 DEF OthersAt, Shapes, Shape
    <3>4. ASSUME job[u].k = k, job[u].at \in Making
          PROVE  obj'[k][job[u].o].alive
      <4>1. /\ job[u].o \in DOMAIN obj[k] /\ obj[k][job[u].o].alive
            /\ job[u].at \in Nameless => obj[k][job[u].o].id = None
        BY <3>1, <3>2, <3>4 DEF Shapes, Shape, EnteredBy
      <4>2. job[u].at = "count" => obj[k][job[u].o].id = n
        BY <3>2, <3>4 DEF EnteredBy, n
      <4>3. None \notin Nat /\ e - 1 \in Nat /\ e - 1 # n
        BY <1>1, PointerConstants
      <4>5. job[u].o # None
        BY <4>1, <4>3, TableType
      <4>6. job[u].at = "count" \/ job[u].at \in Nameless
        BY <3>4 DEF Making, Nameless
      <4>4. job[u].o # x
        BY <1>8, <4>1, <4>2, <4>3, <4>5, <4>6
      <4> QED
        BY <1>4, <4>1, <4>4
    <3>5. ASSUME job[u].k = k, job[u].at = "count"
          PROVE  /\ table'[k].slot[n + 1] = table[k].slot[n + 1]
                 /\ obj'[k][job[u].o].id = obj[k][job[u].o].id
      <4>1. job[u].o \in DOMAIN obj[k] /\ n < table[k].cap
        BY <3>1, <3>2, <3>5 DEF Shapes, Shape, EnteredBy, Making, n
      <4>2. n + 1 \in 1..table[k].cap /\ n + 1 # e
        BY <1>1, <4>1
      <4> QED
        BY <1>1, <1>4, <4>1, <4>2
    <3> QED
      BY <1>1, <3>1, <3>2, <3>3, <3>4, <3>5 DEF EnteredBy, n
  <2> QED
    BY <2>1, <2>2
<1>12. \A z \in DOMAIN obj[k] : obj[k][z].id # None => obj[k][z].id \in Nat
  BY TableType DEF Object
<1>13. ASSUME NEW z \in DOMAIN obj[k], obj[k][z].id # None
       PROVE  /\ \/ obj[k][z].id < n
                 \/ \E u \in Worker : job[u].at = "count" /\ job[u].k = k
                                       /\ job[u].o = z
              /\ obj[k][z].id + 1 # e => EntryOf(k, z)' = EntryOf(k, z)
              /\ EntryOf(k, z)'.ptr \in {EntryOf(k, z).ptr, None}
  <2>1. \/ obj[k][z].id < n
        \/ \E u \in Worker : job[u].at = "count" /\ job[u].k = k
                              /\ job[u].o = z
    BY <1>13 DEF Clean, NamedOnce, n
  <2>2. obj[k][z].id + 1 \in 1..table[k].cap
    <3>1. obj[k][z].id \in Nat
      BY <1>12, <1>13
    <3>2. CASE obj[k][z].id < n
      BY <1>1, <3>1, <3>2
    <3>3. CASE \E u \in Worker : job[u].at = "count" /\ job[u].k = k
                                 /\ job[u].o = z
      <4>1. obj[k][z].id = n /\ n < table[k].cap
        BY <3>3 DEF Clean, Entered, EnteredBy, n
      <4> QED
        BY <1>1, <4>1
    <3> QED
      BY <2>1, <3>2, <3>3
  <2>3. obj'[k][z].id = obj[k][z].id
    BY <1>4
  <2>4. obj[k][z].id + 1 # e => EntryOf(k, z)' = EntryOf(k, z)
    BY <1>1, <2>2, <2>3 DEF EntryOf
  <2>5. obj[k][z].id + 1 = e =>
           EntryOf(k, z)'.ptr = table'[k].slot[e].ptr /\ EntryOf(k, z).ptr = x
    BY <2>3 DEF EntryOf, x
  <2> QED
    BY <1>3, <2>1, <2>4, <2>5
<1>14. NamedOnce(k)'
  <2>1. ASSUME NEW i \in 1..n, table'[k].slot[i].ptr # None
        PROVE  /\ table'[k].slot[i].ptr \in DOMAIN obj'[k]
               /\ obj'[k][table'[k].slot[i].ptr].id = i - 1
    <3>1. table'[k].slot[i].ptr = table[k].slot[i].ptr
      BY <1>2, <1>3, <2>1 DEF x
    <3>2. /\ table[k].slot[i].ptr \in DOMAIN obj[k]
          /\ obj[k][table[k].slot[i].ptr].id = i - 1
      BY <2>1, <3>1, EntryNames DEF Clean, n
    <3> QED
      BY <1>3, <1>4, <3>1, <3>2
  <2>2. \A u \in Worker : job[u].at = "count" =>
           job'[u].at = "count" /\ job'[u].k = job[u].k /\ job'[u].o = job[u].o
    BY <1>5, <1>6 DEF Making, Kept, Thread
  <2>3. ASSUME NEW z \in DOMAIN obj'[k], obj'[k][z].id # None
        PROVE  /\ \/ obj'[k][z].id < n
                  \/ \E u \in Worker : job'[u].at = "count" /\ job'[u].k = k
                                        /\ job'[u].o = z
               /\ EntryOf(k, z)'.ptr \in {z, None}
    <3>1. z \in DOMAIN obj[k] /\ obj[k][z].id # None
          /\ obj'[k][z].id = obj[k][z].id
      BY <1>3, <1>4, <2>3
    <3>2. EntryOf(k, z).ptr \in {z, None}
      BY <3>1 DEF Clean, NamedOnce
    <3> QED
      BY <1>13, <2>2, <3>1, <3>2
  <2> QED
    BY <1>1, <2>1, <2>3 DEF NamedOnce
<1>15. Living(k)'
  <2>1. ASSUME NEW z \in DOMAIN obj'[k], obj'[k][z].alive
        PROVE  IF obj'[k][z].id = None
               THEN \E u \in Worker : job'[u].at \in Nameless /\ job'[u].k = k
                                     /\ job'[u].o = z
               ELSE EntryOf(k, z)'.ptr = z
    <3>1. z \in DOMAIN obj[k] /\ obj[k][z].alive
          /\ obj'[k][z].id = obj[k][z].id
      BY <1>3, <1>4, <2>1
    <3>2. \A u \in Worker : job[u].at \in Nameless =>
            /\ job'[u].at \in Nameless /\ job'[u].k = job[u].k
            /\ job'[u].o = job[u].o
      BY <1>5, <1>6 DEF Making, Nameless, Kept, Thread
    <3>3. CASE obj[k][z].id = None
      BY <3>1, <3>2, <3>3 DEF Clean, Living
    <3>4. CASE obj[k][z].id # None
      <4>1. EntryOf(k, z).ptr = z
        BY <3>1, <3>4 DEF Clean, Living
      <4>2. obj[k][z].id + 1 = e => EntryOf(k, z)'.ptr = z
        <5>1. SUFFICES ASSUME obj[k][z].id + 1 = e PROVE EntryOf(k, z)'.ptr = z
          OBVIOUS
        <5>2. x = z /\ EntryOf(k, z)'.ptr = table'[k].slot[e].ptr
          BY <3>1, <4>1, <5>1 DEF EntryOf, x
        <5>3. z # None
          BY <3>1, TableType, PointerConstants
        <5> QED
          BY <1>3, <2>1, <5>2, <5>3
      <4> QED
        BY <1>13, <3>1, <3>4, <4>1, <4>2
    <3> QED
      BY <3>1, <3>3, <3>4
  <2>2. ASSUME NEW i \in 1..n, table'[k].slot[i].ptr # None,
               ~obj'[k][table'[k].slot[i].ptr].alive
        PROVE  \E u \in Thread : job'[u].at = "clear" /\ job'[u].k = k
                                  /\ job'[u].q.k = k /\ job'[u].q.i = i - 1
    <3>1. CASE i = e
      BY <2>2, <3>1 DEF Changes
    <3>2. CASE i # e
      <4>1. /\ table'[k].slot[i] = table[k].slot[i]
            /\ table[k].slot[i].ptr \in DOMAIN obj[k]
            /\ table[k].slot[i].ptr # x
        BY <1>2, <1>7, <2>2, <3>2
      <4>2. ~obj[k][table[k].slot[i].ptr].alive
        BY <1>4, <2>2, <4>1
      <4>3. PICK u \in Thread : job[u].at = "clear" /\ job[u].k = k
                                /\ job[u].q.k = k /\ job[u].q.i = i - 1
        BY <2>2, <4>1, <4>2 DEF Clean, Living, n
      <4>4. u # t
        <5>1. i - 1 # e - 1
          BY <1>1, <3>2
        <5> QED
          BY <1>5, <4>3, <5>1
      <4> QED
        BY <1>6, <4>3, <4>4 DEF Kept, PointerKept
    <3> QED
      BY <3>1, <3>2
  <2> QED
    BY <1>1, <2>1, <2>2 DEF Living
<1>16. StaysBut(k, e)
  <2>1. ASSUME NEW i \in 1..n
        PROVE  /\ i # e => /\ table'[k].slot[i] = table[k].slot[i]
                           /\ LET z == table[k].slot[i].ptr IN
                              z # None => obj'[k][z].alive = obj[k][z].alive
               /\ LET z == table'[k].slot[i].ptr IN
                  z # None => \/ ~obj'[k][z].alive
                              \/ z = table[k].slot[i].ptr /\ obj[k][z].alive
    <3>1. CASE i = e
      BY <1>3, <1>4, <1>8, <3>1 DEF x
    <3>2. CASE i # e
      <4>1. table'[k].slot[i] = table[k].slot[i]
        BY <1>2, <3>2
      <4>2. table[k].slot[i].ptr # None =>
               obj'[k][table[k].slot[i].ptr] = obj[k][table[k].slot[i].ptr]
        BY <1>4, <1>7, <3>2
      <4> QED
        BY <3>2, <4>1, <4>2
    <3> QED
      BY <3>1, <3>2
  <2> QED
    BY <1>1, <2>1 DEF StaysBut, n
<1>17. Removing(k)' /\ Pointers(k)'
  BY <1>6, <1>16, RemovingStays, PointersStay DEF Clean
<1>18. Owners(k)'
  <2>1. t # Main =>
          /\ job'[Main].at = job[Main].at /\ job'[Main].a = job[Main].a
          /\ job'[Main].k = job[Main].k /\ job'[Main].id = job[Main].id
    BY <1>6 DEF Kept, Thread
  <2>2. \A a \in Addr, i \in 1..n :
           table'[k].slot[i].ptr # None /\ Passed(a, k, i - 1)'
              => Passed(a, k, i - 1)
    <3>1. t # Main => \A a \in Addr : \A i : Passed(a, k, i)' => Passed(a, k, i)
      BY <2>1 DEF Passed
    <3>2. t = Main => \A a \in Addr, i \in 1..table[k].count :
            table'[k].slot[i].ptr # None /\ Passed(a, k, i - 1)'
              => Passed(a, k, i - 1)
      BY DEF Handles
    <3> QED
      BY <3>1, <3>2 DEF n
  <2>3. ASSUME NEW i \in 1..n, table'[k].slot[i].ptr # None
        PROVE  /\ \A a \in Addr :
                     obj'[k][table'[k].slot[i].ptr].by = session'[a] =>
                       /\ table'[k].slot[i].owner = a
                       /\ Passed(a, k, i - 1)' =>
                            obj'[k][table'[k].slot[i].ptr].late
               /\ (\A a \in Addr :
                     obj'[k][table'[k].slot[i].ptr].by # session'[a]) =>
                       obj'[k][table'[k].slot[i].ptr].late
    <3>1. /\ table'[k].slot[i].ptr = table[k].slot[i].ptr
          /\ table'[k].slot[i].owner = table[k].slot[i].owner
      BY <1>2, <1>3, <2>3 DEF x
    <3>2. table[k].slot[i].ptr \in DOMAIN obj[k]
      BY <2>3, <3>1, EntryNames DEF Clean, n
    <3>3. /\ \A a \in Addr : obj[k][table[k].slot[i].ptr].by = session[a] =>
                /\ table[k].slot[i].owner = a
                /\ Passed(a, k, i - 1) => obj[k][table[k].slot[i].ptr].late
          /\ (\A a \in Addr : obj[k][table[k].slot[i].ptr].by # session[a]) =>
                  obj[k][table[k].slot[i].ptr].late
      BY <2>3, <3>1 DEF Clean, Owners, n
    <3>4. /\ obj'[k][table[k].slot[i].ptr].by = obj[k][table[k].slot[i].ptr].by
          /\ obj[k][table[k].slot[i].ptr].late =>
                obj'[k][table[k].slot[i].ptr].late
      BY <1>4, <3>2
    <3>5. \A a \in Addr : obj[k][table[k].slot[i].ptr].by = session'[a] =>
            /\ table[k].slot[i].owner = a
            /\ Passed(a, k, i - 1)' => obj[k][table[k].slot[i].ptr].late
      BY <1>1, <2>2, <2>3, <3>3, ZenonT(60)
    <3> QED
      <4>1. ASSUME NEW a \in Addr,
                   obj'[k][table'[k].slot[i].ptr].by = session'[a]
            PROVE  /\ table'[k].slot[i].owner = a
                   /\ Passed(a, k, i - 1)' =>
                        obj'[k][table'[k].slot[i].ptr].late
        BY <3>1, <3>4, <3>5, <4>1, ZenonT(60)
      <4>2. (\A a \in Addr :
               obj'[k][table'[k].slot[i].ptr].by # session'[a]) =>
                 obj'[k][table'[k].slot[i].ptr].late
        <5>1. obj'[k][table'[k].slot[i].ptr].by = obj[k][table[k].slot[i].ptr].by
          BY <3>1, <3>4
        <5>2. obj[k][table[k].slot[i].ptr].late =>
                obj'[k][table'[k].slot[i].ptr].late
          BY <3>1, <3>4
        <5>3. session' = session
          OBVIOUS
        <5> QED
          BY <3>3, <5>1, <5>2, <5>3, ZenonT(60)
      <4> QED
        BY <4>1, <4>2, ZenonT(60)
  <2>4. job'[Main].at = "remove" /\ job'[Main].k = k =>
          table'[k].slot[job'[Main].id + 1].owner = job'[Main].a
    <3> SUFFICES ASSUME job'[Main].at = "remove", job'[Main].k = k
                 PROVE  table'[k].slot[job'[Main].id + 1].owner = job'[Main].a
      OBVIOUS
    <3>1. t # Main
      BY <1>5
    <3>2. job[Main].id \in 0..n - 1
      BY <2>1, <3>1 DEF Clean, Removing, RemovedBy, Thread, n
    <3>3. job[Main].id + 1 \in 1..n
      BY <1>1, <3>2
    <3>4. table'[k].slot[job[Main].id + 1].owner
            = table[k].slot[job[Main].id + 1].owner
      BY <1>2, <1>3, <3>1, <3>3
    <3> QED
      BY <2>1, <3>1, <3>4 DEF Clean, Owners
  <2> QED
    BY <1>1, <2>3, <2>4 DEF Owners
<1> QED
  BY <1>9, <1>10, <1>11, <1>14, <1>15, <1>17, <1>18 DEF Clean

-----------------------------------------------------------------------------
(* An object is destroyed *)

\* What a lookup returns.
LEMMA LookupIs ==
    ASSUME Types, NEW k \in Kind, NEW n \in Int
    PROVE  LET e == Lookup(k, n) IN
           /\ e \in Pointer
           /\ IsNull(e) \/ (e.k = k /\ e.i = n)
           /\ n \in 0..table[k].count - 1 =>
                e.k = k /\ e.i = n /\ e.g = table[k].arr
<1>1. Lookup(k, n) \in Pointer
  BY LookupSound
<1>2. CASE n \in 0..table[k].count - 1
  BY <1>1, <1>2 DEF Lookup
<1>3. CASE n \notin 0..table[k].count - 1
  <2>1. Lookup(k, n) = Null /\ IsNull(Null)
    BY <1>3 DEF Lookup, IsNull, Null
  <2> QED
    BY <1>1, <1>3, <2>1
<1> QED
  BY <1>2, <1>3

\* The job after the first half of a removal.
LEMMA ClearJob ==
    ASSUME NEW r \in Job, NEW e \in Pointer
    PROVE  LET f == [r EXCEPT !.at = "clear", !.q = e] IN
           /\ f \in Job /\ f.at = "clear" /\ f.q = e
           /\ f.a = r.a /\ f.k = r.k /\ f.id = r.id /\ f.o = r.o /\ f.p = r.p
           /\ f.robbed = r.robbed
<1>1. [r EXCEPT !.at = "clear"] \in Job
  BY DEF Job, At
<1>2. \A f \in Job : [f EXCEPT !.q = e] \in Job
  BY DEF Job
<1> QED
  BY <1>1, <1>2 DEF Job

\* The first half of a removal: what it changes.
LEMMA RemoveFacts ==
    ASSUME Types, NEW t \in Thread, Remove(t), ~Stops
    PROVE  LET i == job[t]
               j == job'[t]
               e == Lookup(i.k, i.id)
           IN
           /\ i.at = "remove" /\ j.at = "clear" /\ j.q = e
           /\ i.k \in Kind /\ e \in Pointer
           /\ j.a = i.a /\ j.k = i.k /\ j.id = i.id /\ j.o = i.o /\ j.p = i.p
           /\ job' \in [Thread -> Job] /\ Others(t) /\ \A k : OthersAt(t, k)
           /\ UNCHANGED <<bound, session, dead, born, table, blame>>
           /\ obj' \in [Kind -> Seq(Object)] /\ SameObjects
           /\ \A m \in Kind \ {i.k} : obj'[m] = obj[m]
           /\ ~IsNull(e) =>
                /\ Defect(e) = "" /\ EntryAt(e).ptr # None
                /\ EntryAt(e).ptr \in DOMAIN obj[i.k] =>
                     Kills(i.k, EntryAt(e).ptr)
                /\ e # Null => RobbedAt(t, e.k, e.i + 1)
<1> DEFINE i == job[t]
           e == Lookup(i.k, i.id)
           x == EntryAt(e).ptr
           j == [i EXCEPT !.at = "clear", !.q = e]
<1>1. i \in Job /\ i.k \in Kind /\ i.id \in Int
  BY JobsType
<1>2. e \in Pointer
  BY <1>1, LookupIs
<1>3. /\ j \in Job /\ j.at = "clear" /\ j.q = e
      /\ j.a = i.a /\ j.k = i.k /\ j.id = i.id /\ j.o = i.o /\ j.p = i.p
  BY <1>1, <1>2, ClearJob
<1>4. /\ i.at = "remove"
      /\ \/ IsNull(e) /\ JobOnly /\ Becomes(t, j)
         \/ /\ ~IsNull(e) /\ Defect(e) = "" /\ x # None
            /\ obj' = [obj EXCEPT ![i.k][x].alive = FALSE]
            /\ BecomesAfter(t, j, e)
            /\ UNCHANGED <<bound, session, dead, born, table, blame>>
  BY BreaksStops DEF Remove, Ready, Uses, Calls, JobOnly, clientVars
<1> HIDE DEF j, e, x
<1>5. CASE IsNull(e) /\ JobOnly /\ Becomes(t, j)
  <2>1. /\ job' \in [Thread -> Job] /\ Others(t) /\ job'[t] = j
        /\ \A k : OthersAt(t, k)
    BY <1>3, <1>5, AloneMoves DEF Becomes
  <2>2. SameObjects /\ obj' \in [Kind -> Seq(Object)]
    BY <1>5 DEF SameObjects, JobOnly, Types
  <2> QED
    BY <1>1, <1>2, <1>3, <1>4, <1>5, <2>1, <2>2 DEF JobOnly, e
<1>6. CASE /\ ~IsNull(e) /\ Defect(e) = "" /\ x # None
           /\ obj' = [obj EXCEPT ![i.k][x].alive = FALSE]
           /\ BecomesAfter(t, j, e)
           /\ UNCHANGED <<bound, session, dead, born, table, blame>>
  <2>1. /\ job' \in [Thread -> Job] /\ Others(t) /\ job'[t] = j
        /\ \A k : OthersAt(t, k)
        /\ e # Null => RobbedAt(t, e.k, e.i + 1)
    BY <1>2, <1>3, <1>6, AfterMoves
  <2>2. /\ SameObjects /\ obj' \in [Kind -> Seq(Object)]
        /\ \A m \in Kind \ {i.k} : obj'[m] = obj[m]
        /\ x \in DOMAIN obj[i.k] => Kills(i.k, x)
    <3>1. CASE x \in DOMAIN obj[i.k]
      BY <1>1, <1>6, <3>1, ObjectKilled DEF Kills
    <3>2. CASE x \notin DOMAIN obj[i.k]
      <4>1. PICK f \in [Kind -> Seq(Object)] : f = obj
        BY DEF Types
      <4>2. PICK s \in Seq(Object) : s = f[i.k]
        BY <1>1
      <4>3. [s EXCEPT ![x].alive = FALSE] = s
        <5>1. x \notin DOMAIN s
          BY <3>2, <4>1, <4>2
        <5>2. s = [y \in DOMAIN s |-> s[y]]
          BY LenProperties
        <5>3. [s EXCEPT ![x].alive = FALSE] = [y \in DOMAIN s |-> s[y]]
          BY <5>1
        <5> QED
          BY <5>2, <5>3
      <4>4. [f EXCEPT ![i.k] = s] = f
        BY <1>1, <4>2
      <4>5. obj' = obj
        BY <1>6, <4>1, <4>2, <4>3, <4>4
      <4> QED
        BY <3>2, <4>1, <4>5 DEF SameObjects
    <3> QED
      BY <3>1, <3>2
  <2> QED
    BY <1>1, <1>2, <1>3, <1>4, <1>6, <2>1, <2>2 DEF e, x
<1> QED
  BY <1>4, <1>5, <1>6

\* A thread that is between its look and its answer, and enters nothing.
LEMMA HandlingCore ==
    ASSUME Core, NEW t \in Thread, job[t].at \notin {"idle", "done"},
           job'[t].at \notin Making, Types', Others(t), Shape(t)',
           UNCHANGED <<session, dead, born>>, SameObjects
    PROVE  Core'
<1>0. Types /\ Sessions /\ Shapes /\ Apart
  BY DEF Core
<1>1. ObjectsStay /\ NamelessStay(t) /\ Sessions'
  BY <1>0, SameObjectsStay
<1>2. job[Main].at # "done"
  BY <1>0, MainRuns DEF Thread
<1>3. Shapes'
  BY <1>0, <1>1, <1>2, ShapesKept
<1>4. Apart'
  BY <1>0, ApartKept
<1> QED
  BY <1>1, <1>3, <1>4 DEF Core

\* The first half of a removal: clients, and the shapes of jobs.
LEMMA RemoveCore ==
    ASSUME Core, NEW t \in Thread, Remove(t), ~Stops
    PROVE  Core'
<1> DEFINE i == job[t]
           j == job'[t]
           e == Lookup(i.k, i.id)
<1>0. Types /\ Sessions /\ Shapes /\ Apart
  BY DEF Core
<1>1. /\ i.at = "remove" /\ j.at = "clear" /\ j.q = e
      /\ i.k \in Kind /\ e \in Pointer
      /\ j.a = i.a /\ j.k = i.k /\ j.id = i.id /\ j.o = i.o /\ j.p = i.p
      /\ job' \in [Thread -> Job] /\ Others(t)
      /\ UNCHANGED <<bound, session, dead, born, table, blame>>
      /\ obj' \in [Kind -> Seq(Object)] /\ SameObjects
  BY <1>0, RemoveFacts
<1>2. Types'
  BY <1>0, <1>1 DEF Types
<1>3. IsNull(e) \/ (e.k = i.k /\ e.i = i.id)
  BY <1>0, <1>1, LookupIs, JobsType
<1>4. Shape(t)'
  <2>1. Shape(t)
    BY <1>0 DEF Shapes
  <2>2. IsNull(job[t].q)' <=> IsNull(e)
    BY <1>1 DEF IsNull
  <2> HIDE DEF e
  <2> QED
    BY <1>1, <1>3, <2>1, <2>2 DEF Shape, Making, Walking
<1> QED
  BY <1>0, <1>1, <1>2, <1>4, HandlingCore DEF Making

\* The first half of a removal: the tables.
LEMMA RemoveClean ==
    ASSUME Core, Core', NEW t \in Thread, Remove(t), ~Stops,
           NEW k \in Kind, Clean(k)
    PROVE  Clean(k)'
<1> DEFINE i == job[t]
           e == Lookup(i.k, i.id)
           x == EntryAt(e).ptr
<1>0. Types /\ Sessions /\ Shapes /\ Apart /\ Types' /\ Shapes'
  BY DEF Core
<1>1. /\ i.at = "remove" /\ job'[t].at = "clear" /\ job'[t].q = e
      /\ i.k \in Kind /\ e \in Pointer
      /\ job'[t].a = i.a /\ job'[t].k = i.k /\ job'[t].id = i.id
      /\ job'[t].o = i.o /\ job'[t].p = i.p
      /\ Others(t) /\ \A m : OthersAt(t, m)
      /\ UNCHANGED <<bound, session, dead, born, table, blame>>
      /\ \A m \in Kind \ {i.k} : obj'[m] = obj[m]
  BY <1>0, RemoveFacts
<1>2. i.p.k = i.k /\ i.p.i = i.id
  BY <1>0, <1>1 DEF Shapes, Shape
<1>3. CASE i.k # k
  <2>1. ~About(job[t], k) /\ ~About(job'[t], k)
    BY <1>1, <1>2, <1>3 DEF About, Using, Making
  <2> QED
    BY <1>0, <1>1, <1>3, <2>1, OtherTable DEF MainKept
<1>4. CASE i.k = k
  <2> DEFINE n == table[k].count
  <2>1. i.id \in 0..n - 1
    BY <1>1, <1>4 DEF Clean, Removing, RemovedBy
  <2>2. n \in Nat /\ i.id \in Nat /\ i.id + 1 \in 1..n /\ n # 0
        /\ (i.id + 1) - 1 = i.id /\ table[k].cap \in Nat /\ n <= table[k].cap
    <3>1. n \in Nat /\ table[k].cap \in Nat /\ i.id \in Int
      BY <1>0, TableType, JobsType
    <3>2. n <= table[k].cap
      BY DEF Clean, Array
    <3> QED
      BY <2>1, <3>1, <3>2
  <2>3. e.k = k /\ e.i = i.id /\ e.g = table[k].arr
    BY <1>0, <1>1, <1>4, <2>1, <2>2, LookupIs
  <2>4. e.g # "none"
    BY <2>2, <2>3 DEF Clean, Array
  <2>5. ~IsNull(e) /\ e # Null
    BY <2>4 DEF IsNull, Null
  <2>6. x = table[k].slot[i.id + 1].ptr
    BY <2>3 DEF EntryAt
  <2>7. /\ x # None /\ RobbedAt(t, k, i.id + 1)
        /\ x \in DOMAIN obj[k] => Kills(k, x)
    <3>1. /\ x # None /\ RobbedAt(t, e.k, e.i + 1)
          /\ x \in DOMAIN obj[k] => Kills(k, x)
      BY <1>0, <1>4, <2>5, RemoveFacts
    <3> QED
      BY <2>3, <3>1
  <2>8. x \in DOMAIN obj[k] /\ Kills(k, x)
    BY <1>0, <2>2, <2>6, <2>7, EntryNames DEF Clean
  <2> HIDE DEF e, x, n
  <2>9. Changes(t, k, i.id + 1)
    <3>1. table[k].slot[i.id + 1] # Junk
      BY <2>2 DEF Clean, Array, n
    <3>2. /\ job'[t].at = "clear" /\ job'[t].k = k
          /\ job'[t].q.k = k /\ job'[t].q.i = (i.id + 1) - 1
      BY <1>1, <1>4, <2>2, <2>3
    <3> QED
      BY <1>1, <2>2, <2>6, <2>8, <3>1, <3>2 DEF Changes, Kills, n
  <2>10. Handles(t, k, i.id + 1)
    BY <1>1 DEF Handles, Making, Passed
  <2>11. RemovedBy(t, k)'
    BY <1>1, <1>4, <2>1, <2>3, <2>4, <2>6, <2>8 DEF RemovedBy, Kills, n
  <2>12. PointersOf(t, k)'
    <3>1. i.p.g # "none" /\ i.p.i < table[k].count
      BY <1>1, <1>2, <1>4 DEF Clean, Pointers, PointersOf, Using, Sound
    <3>2. Sound(job[t].p, TRUE)'
      BY <1>1, <1>2, <1>4, <3>1 DEF Sound
    <3> QED
      BY <1>1, <3>2 DEF PointersOf, Using
  <2>13. i.id + 1 \in Nat
    BY <2>2
  <2> QED
    BY <1>0, <1>1, <2>7, <2>9, <2>10, <2>11, <2>12, <2>13, EntryChanges
<1> QED
  BY <1>3, <1>4

\* Changes of one field of an entry.
LEMMA EntryPart ==
    ASSUME NEW e \in Entry
    PROVE  /\ Cleared(e) \in Entry /\ Cleared(e).ptr = None
           /\ Cleared(e).owner = e.owner
           /\ [e EXCEPT !.shared = @ + 1] \in Entry
           /\ [e EXCEPT !.shared = @ + 1].ptr = e.ptr
           /\ [e EXCEPT !.shared = @ + 1].owner = e.owner
           /\ [e EXCEPT !.owner = None] \in Entry
           /\ [e EXCEPT !.owner = None].ptr = e.ptr
           /\ [e EXCEPT !.owner = None].owner = None
<1>1. e.shared + 1 \in Nat
  BY DEF Entry
<1> QED
  BY <1>1 DEF Entry, Cleared

\* The second half of a removal by a worker: what it changes.
LEMMA ClearFacts ==
    ASSUME Types, NEW w \in Worker, Clear(w), ~Stops
    PROVE  LET i == job[w]
               q == i.q
           IN
           /\ i.at = "clear" /\ q \in Pointer
           /\ job' = [job EXCEPT ![w] = Idle]
           /\ UNCHANGED <<bound, session, dead, born, obj, blame>>
           /\ IsNull(q) => table' = table
           /\ ~IsNull(q) =>
                /\ Defect(q) = "" /\ Writes(q.k, q.i + 1)
                /\ table'[q.k].slot[q.i + 1] = Cleared(EntryAt(q))
<1> DEFINE q == job[w].q
<1>1. w \in Thread /\ q \in Pointer
  BY JobsType DEF Thread
<1>2. /\ job[w].at = "clear"
      /\ \/ /\ IsNull(q) /\ job' = [job EXCEPT ![w] = Idle]
            /\ UNCHANGED <<bound, session, dead, born, obj, table, blame>>
         \/ /\ ~IsNull(q) /\ Defect(q) = "" /\ job' = [job EXCEPT ![w] = Idle]
            /\ table' = [table EXCEPT ![q.k].slot[q.i + 1] = Cleared(@)]
            /\ UNCHANGED <<bound, session, dead, born, obj, blame>>
  BY BreaksStops DEF Clear, Ready, Uses, Answers, Becomes, clientVars
<1>3. CASE IsNull(q)
  BY <1>1, <1>2, <1>3
<1>4. CASE ~IsNull(q)
  <2>1. /\ q.k \in Kind /\ q.i + 1 \in 1..Len(table[q.k].slot)
        /\ EntryAt(q) \in Entry /\ EntryAt(q) = table[q.k].slot[q.i + 1]
    BY <1>1, <1>2, <1>4, DefectFree
  <2>2. Len(table[q.k].slot) = table[q.k].cap
    BY <2>1 DEF Types
  <2>3. table' = [table EXCEPT ![q.k].slot[q.i + 1] = Cleared(EntryAt(q))]
    BY <1>2, <1>4, <2>1
  <2>4. Cleared(EntryAt(q)) \in Entry
    BY <2>1, EntryPart
  <2> HIDE DEF q
  <2>5. Writes(q.k, q.i + 1)
        /\ table'[q.k].slot[q.i + 1] = Cleared(EntryAt(q))
    <3>1. PICK p \in Pointer : p = q
      BY <1>1
    <3>2. PICK e \in Entry : e = Cleared(EntryAt(q))
      BY <2>4
    <3>3. /\ p.k \in Kind /\ p.i + 1 \in 1..table[p.k].cap
          /\ table' = [table EXCEPT ![p.k].slot[p.i + 1] = e]
      BY <2>1, <2>2, <2>3, <3>1, <3>2
    <3>4. Writes(p.k, p.i + 1) /\ table'[p.k].slot[p.i + 1] = e
      BY <3>3, EntryWritten
    <3> QED
      BY <3>1, <3>2, <3>4
  <2> QED
    BY <1>1, <1>2, <1>4, <2>5 DEF q
<1> QED
  BY <1>3, <1>4

\* The second half of a removal by a worker: clients, and the shapes of jobs.
LEMMA ClearCore ==
    ASSUME Core, NEW w \in Worker, Clear(w), ~Stops
    PROVE  Core'
<1>0. Types /\ Shapes
  BY DEF Core
<1>1. /\ job[w].at = "clear" /\ job[w].q \in Pointer
      /\ job' = [job EXCEPT ![w] = Idle]
      /\ UNCHANGED <<bound, session, dead, born, obj, blame>>
      /\ table' = table \/ Writes(job[w].q.k, job[w].q.i + 1)
  BY <1>0, ClearFacts
<1>2. job' \in [Thread -> Job] /\ Others(w) /\ job'[w] = Idle
  BY <1>0, <1>1, AloneMoves, IdleType DEF Thread
<1>3. /\ table' \in [Kind -> Table]
      /\ \A m \in Kind : Len(table'[m].slot) = table'[m].cap
  BY <1>0, <1>1 DEF Types, Writes
<1>4. Types'
  BY <1>0, <1>1, <1>2, <1>3 DEF Types
<1>5. SameObjects
  BY <1>1 DEF SameObjects
<1> QED
  BY <1>1, <1>2, <1>4, <1>5, IdleType, IdleCore

\* The second half of a removal by a worker: the tables.
LEMMA ClearClean ==
    ASSUME Core, Core', NEW w \in Worker, Clear(w), ~Stops,
           NEW k \in Kind, Clean(k)
    PROVE  Clean(k)'
<1> DEFINE i == job[w]
           q == i.q
<1>0. Types /\ Sessions /\ Shapes /\ Apart /\ Types' /\ Shapes'
  BY DEF Core
<1>1. w \in Thread /\ w # Main
  BY TableConstants DEF Thread
<1>2. /\ i.at = "clear" /\ job' = [job EXCEPT ![w] = Idle] /\ q \in Pointer
      /\ UNCHANGED <<bound, session, dead, born, obj, blame>>
      /\ IsNull(q) => table' = table
      /\ ~IsNull(q) =>
            /\ Defect(q) = "" /\ Writes(q.k, q.i + 1)
            /\ table'[q.k].slot[q.i + 1] = Cleared(EntryAt(q))
  BY <1>0, ClearFacts
<1>3. /\ OthersAt(w, k) /\ Others(w) /\ job'[w] = Idle
      /\ \A u \in Thread \ {w} : job'[u] = job[u]
  BY <1>0, <1>1, <1>2, AloneMoves, IdleType
<1>a. job'[w].at = "idle"
  BY <1>3, IdleType
<1>b. IsNull(q) \/ (q.k = i.k /\ q.i = i.id)
  BY <1>0, <1>1, <1>2 DEF Shapes, Shape
<1>4. CASE i.k # k
  <2>1. ~About(job[w], k) /\ ~About(job'[w], k)
    BY <1>2, <1>4, <1>a DEF About, Using, Making
  <2>2. table'[k] = table[k] /\ obj'[k] = obj[k]
    BY <1>2, <1>4, <1>b DEF Writes
  <2> QED
    BY <1>0, <1>1, <1>2, <1>3, <2>1, <2>2, OtherTable DEF MainKept
<1>5. CASE i.k = k
  <2> DEFINE n == table[k].count
  <2>1. /\ i.id \in 0..n - 1 /\ q.k = k /\ q.i = i.id /\ q.g # "none"
        /\ LET x == table[k].slot[i.id + 1].ptr IN x # None => ~obj[k][x].alive
    BY <1>1, <1>2, <1>5 DEF Clean, Removing, RemovedBy
  <2>2. n \in Nat /\ i.id \in Nat /\ i.id + 1 \in 1..n /\ (i.id + 1) - 1 = i.id
        /\ i.id + 1 \in Nat
    <3>1. n \in Nat /\ i.id \in Int
      BY <1>0, <1>1, TableType, JobsType
    <3> QED
      BY <2>1, <3>1
  <2>3. /\ Defect(q) = "" /\ Writes(k, i.id + 1)
        /\ table'[k].slot[i.id + 1] = Cleared(EntryAt(q))
    BY <1>2, <2>1 DEF IsNull
  <2>4. EntryAt(q) \in Entry /\ EntryAt(q) = table[k].slot[i.id + 1]
        /\ Entry # {Junk} /\ Junk \notin Entry
    BY <1>0, <1>2, <2>1, <2>3, DefectFree, PointerConstants
  <2>5. /\ table'[k].slot[i.id + 1] \in Entry
        /\ table'[k].slot[i.id + 1].ptr = None
        /\ table'[k].slot[i.id + 1].owner = table[k].slot[i.id + 1].owner
    BY <2>3, <2>4, EntryPart
  <2> HIDE DEF q, n
  <2>9. Changes(w, k, i.id + 1)
    BY <1>2, <2>1, <2>2, <2>3, <2>4, <2>5 DEF Changes, Writes, n
  <2>10. Handles(w, k, i.id + 1)
    BY <1>1, <1>2, <1>a, <2>1, <2>2 DEF Handles, Making, q
  <2>11. RemovedBy(w, k)' /\ PointersOf(w, k)'
    BY <1>1, <1>a DEF RemovedBy, PointersOf, Using
  <2>12. RobbedAt(w, k, i.id + 1)
    BY <1>0, <1>1, <1>3, <2>1, <2>2, RobbedAlready DEF Clean
  <2> QED
    BY <1>0, <1>1, <1>2, <1>3, <2>2, <2>9, <2>10, <2>11, <2>12, EntryChanges
<1> QED
  BY <1>4, <1>5

-----------------------------------------------------------------------------
(* A canvas is shared *)

\* A share: what it changes.
LEMMA AppendFacts ==
    ASSUME Types, Shapes, NEW w \in Worker, AppendShared(w), ~Stops
    PROVE  LET i == job[w]
               p == i.p
           IN
           /\ i.at = "append" /\ p \in Pointer /\ p.k = "canvas"
           /\ job' \in [Thread -> Job] /\ job'[w] = Idle
           /\ Others(w) /\ \A k : OthersAt(w, k)
           /\ RobbedAt(w, "canvas", p.i + 1)
           /\ UNCHANGED <<bound, session, dead, born, obj, blame>>
           /\ Defect(p) = "" /\ Writes("canvas", p.i + 1)
           /\ table'["canvas"].slot[p.i + 1]
                = [EntryAt(p) EXCEPT !.shared = @ + 1]
<1>1. w \in Thread /\ job[w].p \in Pointer
  BY JobsType DEF Thread
<1>2. /\ job[w].at = "append" /\ Defect(job[w].p) = ""
      /\ table' = [table EXCEPT !["canvas"].slot[job[w].p.i + 1].shared = @ + 1]
      /\ BecomesAfter(w, Idle, job[w].p)
      /\ UNCHANGED <<bound, session, dead, born, obj, blame>>
  BY BreaksStops DEF AppendShared, Ready, Uses, clientVars
<1>3. job[w].p.k = "canvas"
  BY <1>1, <1>2 DEF Shapes, Shape
<1>4. PICK p \in Pointer : p = job[w].p
  BY <1>1
<1>5. PICK e \in Entry : e = [EntryAt(p) EXCEPT !.shared = @ + 1]
  BY <1>2, <1>4, DefectFree, EntryPart
<1>6. /\ p.i + 1 \in 1..table["canvas"].cap /\ "canvas" \in Kind
      /\ EntryAt(p) = table["canvas"].slot[p.i + 1]
  <2>1. p.k = "canvas" /\ p.k \in Kind /\ p.i + 1 \in 1..Len(table[p.k].slot)
        /\ EntryAt(p) = table[p.k].slot[p.i + 1]
    BY <1>2, <1>3, <1>4, DefectFree
  <2> QED
    BY <2>1 DEF Types
<1>7. table' = [table EXCEPT !["canvas"].slot[p.i + 1] = e]
  BY <1>2, <1>4, <1>5, <1>6
<1>8. Writes("canvas", p.i + 1) /\ table'["canvas"].slot[p.i + 1] = e
  BY <1>6, <1>7, EntryWritten
<1>9. /\ job' \in [Thread -> Job] /\ job'[w] = Idle
      /\ Others(w) /\ \A k : OthersAt(w, k)
      /\ p # Null => RobbedAt(w, p.k, p.i + 1)
  BY <1>1, <1>2, <1>4, IdleType, AfterMoves
<1>10. p # Null
  BY <1>2, <1>4, DefectFree DEF Null
<1> QED
  BY <1>1, <1>2, <1>3, <1>4, <1>5, <1>8, <1>9, <1>10

\* A share: clients, and the shapes of jobs.
LEMMA AppendCore ==
    ASSUME Core, NEW w \in Worker, AppendShared(w), ~Stops
    PROVE  Core'
<1>0. Types /\ Shapes
  BY DEF Core
<1>1. /\ job[w].at = "append"
      /\ job' \in [Thread -> Job] /\ Others(w) /\ job'[w] = Idle
      /\ UNCHANGED <<bound, session, dead, born, obj, blame>>
      /\ Writes("canvas", job[w].p.i + 1)
  BY <1>0, AppendFacts
<1>2. Types'
  BY <1>0, <1>1 DEF Types, Writes
<1>3. SameObjects
  BY <1>1 DEF SameObjects
<1> QED
  BY <1>1, <1>2, <1>3, IdleType, IdleCore

\* A share: the tables.
LEMMA AppendClean ==
    ASSUME Core, Core', NEW w \in Worker, AppendShared(w), ~Stops,
           NEW k \in Kind, Clean(k)
    PROVE  Clean(k)'
<1> DEFINE i == job[w]
           p == i.p
<1>0. Types /\ Sessions /\ Shapes /\ Apart /\ Types' /\ Shapes'
  BY DEF Core
<1>1. w \in Thread /\ w # Main
  BY TableConstants DEF Thread
<1>2. /\ i.at = "append" /\ p \in Pointer /\ p.k = "canvas"
      /\ job'[w] = Idle
      /\ Others(w) /\ OthersAt(w, k)
      /\ RobbedAt(w, "canvas", p.i + 1)
      /\ UNCHANGED <<bound, session, dead, born, obj, blame>>
      /\ Defect(p) = "" /\ Writes("canvas", p.i + 1)
      /\ table'["canvas"].slot[p.i + 1] = [EntryAt(p) EXCEPT !.shared = @ + 1]
  BY <1>0, AppendFacts
<1>a. job'[w].at = "idle"
  BY <1>2, IdleType
<1>4. CASE k # "canvas"
  <2>1. ~About(job[w], k) /\ ~About(job'[w], k)
    BY <1>2, <1>4, <1>a DEF About, Using, Making
  <2>2. table'[k] = table[k] /\ obj'[k] = obj[k]
    BY <1>2, <1>4 DEF Writes
  <2> QED
    BY <1>0, <1>1, <1>2, <2>1, <2>2, OtherTable DEF MainKept
<1>5. CASE k = "canvas"
  <2> DEFINE n == table[k].count
  <2>1. p.i < n /\ n \in Nat /\ p.i \in Nat
    <3>1. p.i < n
      BY <1>1, <1>2, <1>5 DEF Clean, Pointers, PointersOf, Sound, Using
    <3> QED
      BY <1>0, <1>2, <3>1, TableType DEF Pointer
  <2>2. p.i + 1 \in 1..n /\ (p.i + 1) - 1 = p.i /\ p.i + 1 \in Nat
    BY <2>1
  <2>4. EntryAt(p) \in Entry /\ EntryAt(p) = table[k].slot[p.i + 1]
        /\ Junk \notin Entry
    BY <1>0, <1>2, <1>5, DefectFree, PointerConstants
  <2>5. /\ table'[k].slot[p.i + 1] \in Entry
        /\ table'[k].slot[p.i + 1].ptr = table[k].slot[p.i + 1].ptr
        /\ table'[k].slot[p.i + 1].owner = table[k].slot[p.i + 1].owner
    BY <1>2, <1>5, <2>4, EntryPart
  <2>6. ASSUME table[k].slot[p.i + 1].ptr # None,
               ~obj[k][table[k].slot[p.i + 1].ptr].alive
        PROVE  \E u \in Thread : job'[u].at = "clear" /\ job'[u].k = k
                            /\ job'[u].q.k = k /\ job'[u].q.i = (p.i + 1) - 1
    <3>1. PICK u \in Thread : job[u].at = "clear" /\ job[u].k = k
                        /\ job[u].q.k = k /\ job[u].q.i = (p.i + 1) - 1
      BY <2>2, <2>6 DEF Clean, Living
    <3>2. u # w
      BY <1>2, <3>1
    <3>3. Kept(u)
      BY <1>2, <3>2 DEF Others
    <3>4. /\ job'[u].at = "clear" /\ job'[u].k = k
          /\ job'[u].q.k = k /\ job'[u].q.i = (p.i + 1) - 1
      BY <3>1, <3>3 DEF Kept, PointerKept
    <3> QED
      BY <3>4
  <2> HIDE DEF p, n
  <2>9. Changes(w, k, p.i + 1)
    BY <1>2, <1>5, <2>2, <2>4, <2>5, <2>6 DEF Changes, Writes, n
  <2>10. Handles(w, k, p.i + 1)
    BY <1>1, <1>2, <1>a DEF Handles, Making
  <2>11. RemovedBy(w, k)' /\ PointersOf(w, k)'
    BY <1>1, <1>a DEF RemovedBy, PointersOf, Using
  <2> QED
    BY <1>0, <1>1, <1>2, <1>5, <2>2, <2>9, <2>10, <2>11, EntryChanges
<1> QED
  BY <1>4, <1>5

-----------------------------------------------------------------------------
(* The main thread has removed an object *)

\* The walk goes on to the next entry.
LEMMA NextJob ==
    ASSUME NEW r \in Job
    PROVE  LET f == [r EXCEPT !.at = "test", !.id = @ + 1, !.p = Null,
                              !.q = Null, !.robbed = FALSE]
           IN /\ f \in Job /\ f.at = "test" /\ f.a = r.a /\ f.k = r.k
              /\ f.id = r.id + 1
<1>1. r.id + 1 \in Int
  BY DEF Job
<1>2. [r EXCEPT !.at = "test"] \in Job
  BY DEF Job, At
<1>3. \A f \in Job : [f EXCEPT !.id = r.id + 1] \in Job
  BY <1>1 DEF Job
<1>4. \A f \in Job : [f EXCEPT !.p = Null] \in Job
  BY IdleType DEF Job
<1>5. \A f \in Job : [f EXCEPT !.q = Null] \in Job
  BY IdleType DEF Job
<1>6. \A f \in Job : [f EXCEPT !.robbed = FALSE] \in Job
  BY DEF Job
<1>7. [r EXCEPT !.at = "test", !.id = @ + 1] \in Job
  BY <1>2, <1>3
<1>8. [r EXCEPT !.at = "test", !.id = @ + 1, !.p = Null] \in Job
  BY <1>4, <1>7
<1>9. [r EXCEPT !.at = "test", !.id = @ + 1, !.p = Null, !.q = Null] \in Job
  BY <1>5, <1>8
<1>10. [r EXCEPT !.at = "test", !.id = @ + 1, !.p = Null, !.q = Null,
                 !.robbed = FALSE] \in Job
  BY <1>6, <1>9
<1> QED
  BY <1>10 DEF Job

\* The second half of a removal by main: what it changes.
LEMMA DisownFacts ==
    ASSUME Types, Shapes, Disown, ~Stops
    PROVE  LET i == job[Main]
               j == job'[Main]
               n == i.id + 1
           IN
           /\ i.at = "clear" /\ i.k \in Kind /\ i.id \in Nat
           /\ i.p.k = i.k /\ i.p.i = i.id
           /\ j.at = "test" /\ j.a = i.a /\ j.k = i.k /\ j.id = n
           /\ job' \in [Thread -> Job] /\ Others(Main)
           /\ \A k : OthersAt(Main, k)
           /\ UNCHANGED <<bound, session, dead, born, obj, blame>>
           /\ Writes(i.k, n)
           /\ table'[i.k].slot[n] \in Entry
           /\ table'[i.k].slot[n].ptr \in {table[i.k].slot[n].ptr, None}
           /\ ~IsNull(i.q) => table'[i.k].slot[n].ptr = None
<1> DEFINE r == [job[Main] EXCEPT !.at = "test", !.id = @ + 1,
                                  !.p = Null, !.q = Null, !.robbed = FALSE]
<1>1. Main \in Thread /\ job[Main] \in Job
  BY JobsType DEF Thread
<1>2. PICK i \in Job : i = job[Main]
  BY <1>1
<1>3. /\ i.at = "clear" /\ Defect(i.p) = ""
      /\ \/ /\ IsNull(i.q)
            /\ table' = [table EXCEPT ![i.k].slot[i.p.i + 1].owner = None]
         \/ /\ ~IsNull(i.q)
            /\ table' = [[table EXCEPT ![i.k].slot[i.q.i + 1] = Cleared(@)]
                            EXCEPT ![i.k].slot[i.p.i + 1].owner = None]
      /\ job' = [job EXCEPT ![Main] = r]
      /\ UNCHANGED <<bound, session, dead, born, obj, blame>>
  BY <1>2, BreaksStops DEF Disown, Ready, Uses, Becomes, clientVars
<1>4. /\ i.p.k = i.k /\ i.p.i = i.id /\ i.id \in Nat
      /\ IsNull(i.q) \/ i.q.i = i.id
  BY <1>1, <1>2, <1>3 DEF Shapes, Shape, Walking
<1>5. r \in Job /\ r.at = "test" /\ r.a = i.a /\ r.k = i.k /\ r.id = i.id + 1
  BY <1>1, <1>2, NextJob
<1> HIDE DEF r
<1>6. /\ job' \in [Thread -> Job] /\ Others(Main) /\ job'[Main] = r
      /\ \A k : OthersAt(Main, k)
  BY <1>1, <1>3, <1>5, AloneMoves
<1> DEFINE k == i.k
           n == i.id + 1
<1>7. i.p \in Pointer /\ k \in Kind
  BY DEF Job
<1>8. /\ n \in 1..Len(table[k].slot)
      /\ table[k].slot[n] \in Entry
  BY <1>3, <1>4, <1>7, DefectFree
<1>9. PICK f \in [Kind -> Table] : f = table
  BY DEF Types
<1>10. PICK e \in Entry : e = f[k].slot[n]
  BY <1>8, <1>9
<1> HIDE DEF n, k
<1>11. n \in 1..f[k].cap /\ \A m \in Kind : Len(f[m].slot) = f[m].cap
  BY <1>7, <1>8, <1>9 DEF Types
<1>12. \/ IsNull(i.q)
          /\ table' = [f EXCEPT ![k].slot[n] = [e EXCEPT !.owner = None]]
       \/ table' = [f EXCEPT ![k].slot[n] =
                       [Cleared(e) EXCEPT !.owner = None]]
  <2>1. CASE IsNull(i.q)
    <3>1. table' = [f EXCEPT ![k].slot[n].owner = None]
      BY <1>3, <1>4, <1>9, <2>1 DEF k, n
    <3> QED
      BY <1>10, <2>1, <3>1
  <2>2. CASE ~IsNull(i.q)
    <3>1. PICK g : g = [f EXCEPT ![k].slot[n] = Cleared(e)]
      OBVIOUS
    <3>2. table' = [[f EXCEPT ![k].slot[n] = Cleared(@)]
                       EXCEPT ![k].slot[n].owner = None]
      BY <1>3, <1>4, <1>9, <2>2 DEF k, n
    <3>3. table' = [g EXCEPT ![k].slot[n].owner = None]
      BY <1>10, <3>1, <3>2
    <3>4. PICK c \in Entry : c = Cleared(e)
      BY EntryPart
    <3>5. [g EXCEPT ![k].slot[n].owner = None]
              = [f EXCEPT ![k].slot[n] = [c EXCEPT !.owner = None]]
      <4>1. g = [f EXCEPT ![k].slot[n] = c] /\ Len(f[k].slot) = f[k].cap
        BY <1>7, <1>11, <3>1, <3>4
      <4> DEFINE h == [c EXCEPT !.owner = None]
      <4> HIDE DEF k, n
      <4>2. f[k] \in Table /\ n \in DOMAIN f[k].slot /\ k \in DOMAIN f
            /\ "slot" \in DOMAIN f[k]
        <5>1. f[k] \in Table
          BY <1>7
        <5>2. f[k].slot \in Seq(Entry \cup {Junk})
          BY <5>1 DEF Table
        <5> QED
          BY <1>7, <1>11, <4>1, <5>1, <5>2, LenProperties DEF Table
      <4>3. g[k] = [f[k] EXCEPT !.slot = [f[k].slot EXCEPT ![n] = c]]
        BY <4>1, <4>2
      <4>4. g[k].slot = [f[k].slot EXCEPT ![n] = c]
        BY <4>2, <4>3
      <4>5. g[k].slot[n] = c
        BY <4>2, <4>4
      <4>6. [g EXCEPT ![k].slot[n].owner = None] = [g EXCEPT ![k].slot[n] = h]
        BY <4>5
      <4> HIDE DEF h
      <4>7. [g[k].slot EXCEPT ![n] = h] = [f[k].slot EXCEPT ![n] = h]
        BY <4>4
      <4>8. [g[k] EXCEPT !.slot = [g[k].slot EXCEPT ![n] = h]]
               = [f[k] EXCEPT !.slot = [f[k].slot EXCEPT ![n] = h]]
        BY <4>3, <4>7
      <4>9. [g EXCEPT ![k].slot[n] = h] = [f EXCEPT ![k].slot[n] = h]
        BY <4>1, <4>8
      <4> QED
        BY <4>6, <4>9 DEF h
    <3> QED
      BY <3>3, <3>4, <3>5
  <2> QED
    BY <2>1, <2>2
<1>13. PICK d \in Entry :
         /\ table' = [table EXCEPT ![k].slot[n] = d]
         /\ d.ptr \in {e.ptr, None}
         /\ ~IsNull(i.q) => d.ptr = None
  <2>1. /\ Cleared(e) \in Entry /\ Cleared(e).ptr = None
        /\ [e EXCEPT !.owner = None] \in Entry
        /\ [e EXCEPT !.owner = None].ptr = e.ptr
    BY EntryPart
  <2>2. /\ [Cleared(e) EXCEPT !.owner = None] \in Entry
        /\ [Cleared(e) EXCEPT !.owner = None].ptr = None
    BY <2>1, EntryPart
  <2> QED
    BY <1>9, <1>12, <2>1, <2>2
<1>14. Writes(k, n) /\ table'[k].slot[n] = d
  BY <1>7, <1>9, <1>11, <1>13, EntryWritten
<1>15. /\ table'[k].slot[n] \in Entry
       /\ table'[k].slot[n].ptr \in {table[k].slot[n].ptr, None}
       /\ ~IsNull(i.q) => table'[k].slot[n].ptr = None
  BY <1>9, <1>10, <1>13, <1>14
<1>16. /\ job'[Main].at = "test" /\ job'[Main].a = i.a
       /\ job'[Main].k = i.k /\ job'[Main].id = i.id + 1
  BY <1>5, <1>6
<1> QED
  BY <1>2, <1>3, <1>4, <1>6, <1>7, <1>14, <1>15, <1>16 DEF k, n

\* The second half of a removal by main: clients, and the shapes of jobs.
LEMMA DisownCore ==
    ASSUME Core, Disown, ~Stops
    PROVE  Core'
<1>0. Types /\ Shapes /\ Main \in Thread
  BY DEF Core, Thread
<1>1. LET i == job[Main]
          j == job'[Main]
      IN /\ i.at = "clear" /\ i.id \in Nat
         /\ j.at = "test" /\ j.a = i.a /\ j.k = i.k /\ j.id = i.id + 1
         /\ job' \in [Thread -> Job] /\ Others(Main)
         /\ UNCHANGED <<bound, session, dead, born, obj, blame>>
         /\ Writes(i.k, i.id + 1)
  BY <1>0, DisownFacts
<1>2. Types'
  BY <1>0, <1>1 DEF Types, Writes
<1>3. SameObjects
  BY <1>1 DEF SameObjects
<1>4. Shape(Main)'
  <2>1. job[Main].a \in dead /\ job[Main].id + 1 \in Nat
    BY <1>0, <1>1 DEF Shapes, Shape, Walking
  <2> QED
    BY <1>1, <2>1, TableConstants DEF Shape, Making, Walking
<1> QED
  BY <1>0, <1>1, <1>2, <1>3, <1>4, HandlingCore DEF Making

\* The second half of a removal by main: the tables.
LEMMA DisownClean ==
    ASSUME Core, Core', Disown, ~Stops, NEW k \in Kind, Clean(k)
    PROVE  Clean(k)'
<1> DEFINE i == job[Main]
           n == i.id + 1
<1>0. Types /\ Sessions /\ Shapes /\ Apart /\ Types' /\ Shapes'
      /\ Main \in Thread
  BY DEF Core, Thread
<1>1. /\ i.at = "clear" /\ i.k \in Kind /\ i.id \in Nat
      /\ i.p.k = i.k /\ i.p.i = i.id
      /\ job'[Main].at = "test" /\ job'[Main].a = i.a /\ job'[Main].k = i.k
      /\ job'[Main].id = n
      /\ Others(Main) /\ OthersAt(Main, k)
      /\ UNCHANGED <<bound, session, dead, born, obj, blame>>
      /\ Writes(i.k, n)
      /\ table'[i.k].slot[n] \in Entry
      /\ ~IsNull(i.q) => table'[i.k].slot[n].ptr = None
  BY <1>0, DisownFacts
<1>4. CASE i.k # k
  <2>1. ~About(job[Main], k) /\ ~About(job'[Main], k)
    BY <1>1, <1>4 DEF About, Using, Making
  <2>2. table'[k] = table[k] /\ obj'[k] = obj[k]
    BY <1>1, <1>4 DEF Writes
  <2> QED
    BY <1>0, <1>1, <1>4, <2>1, <2>2, OtherTable DEF MainKept
<1>5. CASE i.k = k
  <2>1. /\ i.id \in 0..table[k].count - 1 /\ i.q.g # "none" /\ i.q.i = i.id
        /\ LET x == table[k].slot[n].ptr IN x # None => ~obj[k][x].alive
    BY <1>0, <1>1, <1>5 DEF Clean, Removing, RemovedBy
  <2>2. n \in 1..table[k].count /\ n - 1 = i.id /\ n \in Nat
    <3>1. table[k].count \in Nat
      BY <1>0, TableType
    <3>2. \A c \in Nat : \A d \in 0..c - 1 :
            d + 1 \in 1..c /\ (d + 1) - 1 = d /\ d + 1 \in Nat
      OBVIOUS
    <3> QED
      BY <2>1, <3>1, <3>2, ZenonT(60)
  <2>3. table'[k].slot[n].ptr = None /\ table'[k].slot[n] # Junk
    <3>1. ~IsNull(i.q)
      BY <2>1 DEF IsNull
    <3> QED
      BY <1>1, <1>5, <3>1, PointerConstants
  <2>9. Changes(Main, k, n)
    <3>1. Writes(k, n)
      BY <1>1, <1>5
    <3> HIDE DEF n
    <3> QED
      BY <1>1, <2>1, <2>2, <2>3, <3>1 DEF Changes, Writes
  <2>10. Handles(Main, k, n)
    <3>1. ASSUME NEW a \in Addr, NEW m \in 1..table[k].count,
                 table'[k].slot[m].ptr # None, Passed(a, k, m - 1)'
          PROVE  Passed(a, k, m - 1)
      <4>1. m - 1 < n => m - 1 < i.id
        <5>1. m # n
          BY <2>3, <3>1
        <5>2. m \in Nat
          BY <1>0, TableType
        <5> QED
          BY <1>1, <5>1, <5>2
      <4> HIDE DEF n
      <4> QED
        BY <1>1, <1>5, <3>1, <4>1 DEF Passed
    <3> HIDE DEF n
    <3> QED
      BY <1>1, <2>1, <2>2, <3>1 DEF Handles, Making
  <2>11. RemovedBy(Main, k)' /\ PointersOf(Main, k)'
    BY <1>1 DEF RemovedBy, PointersOf, Using
  <2>12. RobbedAt(Main, k, n)
    BY <1>0, <1>1, <2>1, RobbedAlready DEF Clean
  <2> HIDE DEF n
  <2> QED
    BY <1>0, <1>1, <2>2, <2>9, <2>10, <2>11, <2>12, EntryChanges
<1> QED
  BY <1>4, <1>5

-----------------------------------------------------------------------------
(* A client connects, or its last reference goes *)

\* A new client: clients, and the shapes of jobs.
LEMMA ConnectCore ==
    ASSUME Core, NEW a \in Addr, Connect(a)
    PROVE  Core'
<1>0. Types /\ Sessions /\ Shapes /\ Apart
  BY DEF Core
<1>1. /\ session[a] = 0 /\ born < bound.sessions /\ born' = born + 1
      /\ session' = [session EXCEPT ![a] = born + 1]
      /\ UNCHANGED <<bound, dead, obj, table, job, blame>>
  BY DEF Connect
<1>2. /\ bound.sessions \in Nat /\ born \in Nat
      /\ session \in [Addr -> 0..bound.sessions]
  BY <1>0, BoundType DEF Types
<1>3. \A b \in Addr : session'[b] = IF b = a THEN born + 1 ELSE session[b]
  BY <1>1, <1>2
<1>4. Types'
  <2>1. born + 1 \in 0..bound.sessions
    BY <1>1, <1>2
  <2>2. session' \in [Addr -> 0..bound.sessions]
    BY <1>1, <1>2, <2>1
  <2> QED
    BY <1>0, <1>1, <2>1, <2>2 DEF Types
<1>5. Sessions'
  <2>1. \A b \in Addr : session[b] <= born /\ session[b] \in Nat
    BY <1>0, <1>2 DEF Sessions
  <2>2. ASSUME NEW b \in Addr, NEW c \in Addr, session'[b] = session'[c],
               session'[b] # 0
        PROVE  b = c
    BY <1>0, <1>2, <1>3, <2>1, <2>2 DEF Sessions
  <2>3. \A b \in Addr : session'[b] <= born'
    BY <1>1, <1>2, <1>3, <2>1
  <2>4. \A b \in dead' : session'[b] # 0
    BY <1>0, <1>1, <1>2, <1>3 DEF Sessions, Types
  <2>5. \A k \in Kind : \A x \in DOMAIN obj'[k] : obj'[k][x].by <= born'
    <3> SUFFICES ASSUME NEW k \in Kind, NEW x \in DOMAIN obj[k]
                 PROVE  obj[k][x].by <= born + 1
      BY <1>1
    <3>1. obj[k][x].by <= born /\ obj[k][x].by \in Nat
      BY <1>0, TableType DEF Sessions, Object
    <3> QED
      BY <1>2, <3>1
  <2> QED
    BY <2>2, <2>3, <2>4, <2>5 DEF Sessions
<1>6. Shapes'
  <2> SUFFICES ASSUME NEW t \in Thread PROVE Shape(t)'
    BY DEF Shapes
  <2>1. Shape(t)
    BY <1>0 DEF Shapes
  <2>2. \A b \in Addr : session[b] # 0 => session'[b] = session[b] /\ session'[b] # 0
    BY <1>1, <1>3
  <2>3. (IsNull(job[t].q))' <=> IsNull(job[t].q)
    BY <1>1 DEF IsNull
  <2> QED
    BY <1>1, <2>1, <2>2, <2>3 DEF Shape
<1>7. Apart'
  BY <1>0, <1>1 DEF Apart
<1> QED
  BY <1>4, <1>5, <1>6, <1>7 DEF Core

\* Steps that touch neither tables, objects nor jobs.
LEMMA SameButOwners ==
    ASSUME NEW k \in Kind, Clean(k), UNCHANGED <<table, obj, job>>, Owners(k)'
    PROVE  Clean(k)'
<1>1. Alone(k)' /\ Array(k)'
  BY DEF Clean, Alone, Array
<1>2. Entered(k)'
  BY DEF Clean, Entered, EnteredBy
<1>3. NamedOnce(k)'
  BY DEF Clean, NamedOnce, EntryOf
<1>4. Living(k)'
  BY DEF Clean, Living, EntryOf
<1>5. Removing(k)'
  BY DEF Clean, Removing, RemovedBy
<1>6. Pointers(k)'
  BY DEF Clean, Pointers, PointersOf, Sound
<1> QED
  BY <1>1, <1>2, <1>3, <1>4, <1>5, <1>6 DEF Clean

\* A new client: the tables.
LEMMA ConnectClean ==
    ASSUME Core, NEW a \in Addr, Connect(a), NEW k \in Kind, Clean(k)
    PROVE  Clean(k)'
<1>0. Types /\ Sessions /\ Shapes /\ Apart
  BY DEF Core
<1>1. /\ session[a] = 0
      /\ session' = [session EXCEPT ![a] = born + 1]
      /\ UNCHANGED <<bound, dead, obj, table, job, blame>>
  BY DEF Connect
<1>2. \A b \in Addr : session'[b] = IF b = a THEN born + 1 ELSE session[b]
  BY <1>0, <1>1 DEF Types
<1>3. ASSUME NEW x \in DOMAIN obj[k], NEW b \in Addr
      PROVE  obj[k][x].by = session'[b] <=> obj[k][x].by = session[b]
  <2>1. obj[k][x].by <= born /\ obj[k][x].by \in Nat \ {0} /\ born \in Nat
    <3>1. born \in 0..bound.sessions /\ bound.sessions \in Nat
      BY <1>0, BoundType DEF Types
    <3>2. obj[k][x] \in Object
      BY <1>0, TableType
    <3>3. obj[k][x].by <= born
      BY <1>0 DEF Sessions
    <3> QED
      BY <3>1, <3>2, <3>3 DEF Object
  <2> QED
    BY <1>1, <1>2, <2>1
<1>4. \A b \in Addr : \A i : Passed(b, k, i)' <=> Passed(b, k, i)
  BY <1>1 DEF Passed
<1>5. \A i \in 1..table[k].count : table[k].slot[i].ptr # None =>
         table[k].slot[i].ptr \in DOMAIN obj[k]
  BY DEF Clean, NamedOnce
<1>6. Owners(k)'
  <2>1. UNCHANGED <<obj, table, job>>
    BY <1>1
  <2>2. Owners(k)
    BY DEF Clean
  <2>3. \A i \in 1..table[k].count : table[k].slot[i].ptr # None =>
           \A b \in Addr : obj'[k][table[k].slot[i].ptr].by = session'[b]
                              <=> obj[k][table[k].slot[i].ptr].by = session[b]
    BY <1>3, <1>5, <2>1
  <2>4. job'[Main].at = "remove" /\ job'[Main].k = k =>
           table'[k].slot[job'[Main].id + 1].owner = job'[Main].a
    BY <2>1, <2>2 DEF Owners
  <2> QED
    BY <1>4, <2>1, <2>2, <2>3, <2>4, OwnersStay
<1> QED
  BY <1>1, <1>6, SameButOwners

\* The end of a client: clients, and the shapes of jobs.
LEMMA ReleaseCore ==
    ASSUME Core, NEW a \in Addr, Release(a)
    PROVE  Core'
<1>0. Types /\ Sessions /\ Shapes /\ Apart
  BY DEF Core
<1>1. /\ job[Main].at = "idle" /\ \A w \in Worker : job[w].a # a
      /\ session' = [session EXCEPT ![a] = 0] /\ dead' = dead \ {a}
      /\ UNCHANGED <<bound, born, obj, table, job, blame>>
  BY DEF Release, Ready
<1>2. \A b \in Addr : session'[b] = IF b = a THEN 0 ELSE session[b]
  BY <1>0, <1>1 DEF Types
<1>3. Types'
  <2>1. bound.sessions \in Nat
    BY <1>0, BoundType
  <2> QED
    BY <1>0, <1>1, <2>1 DEF Types
<1>4. Sessions'
  <2>1. \A b \in Addr : session'[b] <= born
    <3>1. born \in 0..bound.sessions /\ bound.sessions \in Nat
      BY <1>0, BoundType DEF Types
    <3>2. \A b \in Addr : session[b] <= born
      BY <1>0 DEF Sessions
    <3> QED
      BY <1>2, <3>1, <3>2
  <2>2. \A b, c \in Addr : session'[b] = session'[c] /\ session'[b] # 0 => b = c
    BY <1>0, <1>2 DEF Sessions
  <2>3. \A b \in dead' : session'[b] # 0
    BY <1>0, <1>1, <1>2 DEF Sessions, Types
  <2> QED
    BY <1>0, <1>1, <2>1, <2>2, <2>3 DEF Sessions
<1>5. Shapes'
  <2> SUFFICES ASSUME NEW t \in Thread PROVE Shape(t)'
    BY DEF Shapes
  <2>1. Shape(t)
    BY <1>0 DEF Shapes
  <2>2. (IsNull(job[t].q))' <=> IsNull(job[t].q)
    BY <1>1 DEF IsNull
  <2>3. CASE t = Main
    BY <1>1, <2>1, <2>3 DEF Shape, Making, Walking
  <2>4. CASE t # Main
    <3>1. job[t].a # a
      BY <1>1, <2>4 DEF Thread
    <3>2. job[t].a \in Addr => session'[job[t].a] = session[job[t].a]
      BY <1>2, <3>1
    <3> QED
      BY <1>1, <2>1, <2>2, <2>4, <3>2 DEF Shape
  <2> QED
    BY <2>3, <2>4
<1>6. Apart'
  BY <1>0, <1>1 DEF Apart
<1> QED
  BY <1>3, <1>4, <1>5, <1>6 DEF Core

\* The end of a client: the tables.
LEMMA ReleaseClean ==
    ASSUME Core, NEW a \in Addr, Release(a), NEW k \in Kind, Clean(k)
    PROVE  Clean(k)'
<1>0. Types /\ Sessions /\ Shapes /\ Apart /\ Main \in Thread
  BY DEF Core, Thread
<1>1. /\ job[Main].at = "idle" /\ a \in dead
      /\ session' = [session EXCEPT ![a] = 0] /\ dead' = dead \ {a}
      /\ UNCHANGED <<bound, born, obj, table, job, blame>>
  BY DEF Release, Ready
<1>2. \A b \in Addr : session'[b] = IF b = a THEN 0 ELSE session[b]
  BY <1>0, <1>1 DEF Types
<1>3. job[Main].a # a
  <2>1. job[Main].a = None
    BY <1>0, <1>1 DEF Shapes, Shape, Walking
  <2> QED
    BY <2>1, PointerConstants
<1>4. \A i : Passed(a, k, i)
  BY <1>1, <1>3 DEF Passed
<1>5. \A b \in Addr : \A i : Passed(b, k, i)' => Passed(b, k, i)
  BY <1>1 DEF Passed
<1>6. ASSUME NEW i \in 1..table[k].count, table[k].slot[i].ptr # None
      PROVE  LET e == table[k].slot[i] IN
             /\ \A b \in Addr : obj[k][e.ptr].by = session'[b] =>
                 /\ e.owner = b
                 /\ Passed(b, k, i - 1)' => obj[k][e.ptr].late
             /\ (\A b \in Addr : obj[k][e.ptr].by # session'[b]) =>
                   obj[k][e.ptr].late
  <2> DEFINE x == table[k].slot[i].ptr
  <2>1. x \in DOMAIN obj[k]
    BY <1>6 DEF Clean, NamedOnce
  <2>2. obj[k][x].by # 0
    BY <1>0, <2>1, TableType DEF Object
  <2>3. /\ \A b \in Addr : obj[k][x].by = session[b] =>
             /\ table[k].slot[i].owner = b
             /\ Passed(b, k, i - 1) => obj[k][x].late
        /\ (\A b \in Addr : obj[k][x].by # session[b]) => obj[k][x].late
    BY <1>6 DEF Clean, Owners
  <2>4. \A b \in Addr : obj[k][x].by = session'[b] => obj[k][x].by = session[b]
    BY <1>2, <2>2
  <2>5. obj[k][x].by = session[a] => obj[k][x].late
    BY <1>4, <2>3
  <2>6. (\A b \in Addr : obj[k][x].by # session'[b]) => obj[k][x].late
    BY <1>2, <2>3, <2>5
  <2> QED
    BY <1>5, <2>3, <2>4, <2>6
<1>7. Owners(k)'
  BY <1>1, <1>6 DEF Owners
<1> QED
  BY <1>1, <1>7, SameButOwners

-----------------------------------------------------------------------------
(* The walk of client_markdead *)

\* The main thread moves, and changes no object.
LEMMA MainMoves ==
    ASSUME Core, NEW j \in Job, job' = [job EXCEPT ![Main] = j],
           UNCHANGED <<session, obj>>, Shape(Main)', j.at \notin Making
    PROVE  /\ Main \in Thread /\ job' \in [Thread -> Job] /\ job'[Main] = j
           /\ Others(Main) /\ \A k : OthersAt(Main, k)
           /\ \A u \in Thread \ {Main} : job'[u] = job[u]
           /\ Shapes' /\ Apart'
<1>0. Types /\ Shapes /\ Apart /\ Main \in Thread
  BY DEF Core, Thread
<1>1. /\ job' \in [Thread -> Job] /\ job'[Main] = j
      /\ Others(Main) /\ \A k : OthersAt(Main, k)
      /\ \A u \in Thread \ {Main} : job'[u] = job[u]
  BY <1>0, AloneMoves
<1>2. ASSUME NEW u \in Thread \ {Main} PROVE Shape(u)'
  <2>1. Shape(u) /\ job'[u] = job[u]
    BY <1>0, <1>1 DEF Shapes
  <2>2. (IsNull(job[u].q))' <=> IsNull(job[u].q)
    BY <2>1 DEF IsNull
  <2> QED
    BY <2>1, <2>2 DEF Shape
<1>3. Shapes'
  BY <1>2 DEF Shapes
<1>4. Apart'
  BY <1>0, <1>1, ApartKept
<1> QED
  BY <1>0, <1>1, <1>3, <1>4

\* The walk goes on: nothing is passed that has an owner to be removed.
LEMMA WalkClean ==
    ASSUME Core, Types', Shapes', NEW k \in Kind, Clean(k), NEW j \in Job,
           job' = [job EXCEPT ![Main] = j], UNCHANGED <<session, obj, table>>,
           job[Main].at \in {"idle", "test"}, j.at \in {"idle", "test"},
           \A a \in Addr, i \in 1..table[k].count :
              /\ table[k].slot[i].ptr # None /\ table[k].slot[i].owner = a
              /\ Passed(a, k, i - 1)'
              => Passed(a, k, i - 1)
    PROVE  Clean(k)'
<1>0. Types /\ Shapes /\ Main \in Thread /\ Main \notin Worker
  BY TableConstants DEF Core, Thread
<1>1. /\ job'[Main] = j /\ Others(Main) /\ OthersAt(Main, k)
  BY <1>0, AloneMoves
<1>2. WitnessKept(Main, k)
  BY <1>1 DEF WitnessKept, Nameless
<1>3. Alone(k)'
  BY <1>0, <1>1, AloneKept DEF Clean, Entering
<1>4. RemovedBy(Main, k)' /\ PointersOf(Main, k)'
  BY <1>1 DEF RemovedBy, PointersOf, Using
<1>5. ASSUME NEW i \in 1..table[k].count, table[k].slot[i].ptr # None
      PROVE  LET e == table[k].slot[i] IN
             /\ \A a \in Addr : obj[k][e.ptr].by = session[a] =>
                 /\ e.owner = a
                 /\ Passed(a, k, i - 1)' => obj[k][e.ptr].late
             /\ (\A a \in Addr : obj[k][e.ptr].by # session[a]) =>
                   obj[k][e.ptr].late
  <2>1. /\ \A a \in Addr : obj[k][table[k].slot[i].ptr].by = session[a] =>
             /\ table[k].slot[i].owner = a
             /\ Passed(a, k, i - 1) => obj[k][table[k].slot[i].ptr].late
        /\ (\A a \in Addr : obj[k][table[k].slot[i].ptr].by # session[a]) =>
                obj[k][table[k].slot[i].ptr].late
    BY <1>5 DEF Clean, Owners
  <2> QED
    BY <1>5, <2>1
<1>6. Owners(k)'
  BY <1>1, <1>5 DEF Owners
<1> QED
  BY <1>0, <1>1, <1>2, <1>3, <1>4, <1>6, SameTable

\* The walk begins at the first canvas.
LEMMA MarkJob ==
    ASSUME NEW a \in Addr
    PROVE  LET f == [Idle EXCEPT !.at = "test", !.a = a] IN
           /\ f \in Job /\ f.at = "test" /\ f.a = a /\ f.k = "canvas"
           /\ f.id = 0
<1>1. [Idle EXCEPT !.at = "test"] \in Job
  BY IdleType DEF Job, At
<1>2. \A f \in Job : [f EXCEPT !.a = a] \in Job
  BY DEF Job
<1>3. [Idle EXCEPT !.at = "test", !.a = a] \in Job
  BY <1>1, <1>2
<1> QED
  BY <1>3, IdleType DEF Job, Idle

\* The beginning of a walk: what it changes.
LEMMA MarkDeadFacts ==
    ASSUME NEW a \in Addr, MarkDead(a)
    PROVE  \E j \in Job :
             /\ job' = [job EXCEPT ![Main] = j]
             /\ j.at = "test" /\ j.a = a /\ j.k = "canvas" /\ j.id = 0
             /\ job[Main].at = "idle" /\ session[a] # 0 /\ a \notin dead
             /\ dead' = dead \cup {a}
             /\ UNCHANGED <<bound, session, born, obj, table, blame>>
<1> DEFINE j == [Idle EXCEPT !.at = "test", !.a = a]
<1>1. /\ job' = [job EXCEPT ![Main] = j]
      /\ job[Main].at = "idle" /\ session[a] # 0 /\ a \notin dead
      /\ dead' = dead \cup {a}
      /\ UNCHANGED <<bound, session, born, obj, table, blame>>
  BY DEF MarkDead, Ready, Becomes
<1>2. j \in Job /\ j.at = "test" /\ j.a = a /\ j.k = "canvas" /\ j.id = 0
  BY MarkJob
<1> QED
  BY <1>1, <1>2

\* The beginning of a walk: clients, and the shapes of jobs.
LEMMA MarkDeadCore ==
    ASSUME Core, NEW a \in Addr, MarkDead(a)
    PROVE  Core'
<1>0. Types /\ Sessions /\ Shapes /\ Apart /\ Main \in Thread
      /\ Main \notin Worker
  BY TableConstants DEF Core, Thread
<1>1. PICK j \in Job :
             /\ job' = [job EXCEPT ![Main] = j]
             /\ j.at = "test" /\ j.a = a /\ j.k = "canvas" /\ j.id = 0
             /\ job[Main].at = "idle" /\ session[a] # 0 /\ a \notin dead
             /\ dead' = dead \cup {a}
             /\ UNCHANGED <<bound, session, born, obj, table, blame>>
  BY MarkDeadFacts
<1>2. job'[Main] = j /\ job' \in [Thread -> Job]
  BY <1>0, <1>1, AloneMoves
<1>3. Shape(Main)'
  BY <1>0, <1>1, <1>2 DEF Shape, Making, Walking
<1>4. Shapes' /\ Apart'
  BY <1>1, <1>3, MainMoves DEF Making
<1>5. Types'
  BY <1>0, <1>1, <1>2 DEF Types
<1>6. Sessions'
  BY <1>0, <1>1 DEF Sessions
<1> QED
  BY <1>4, <1>5, <1>6 DEF Core

\* The beginning of a walk: the tables.
LEMMA MarkDeadClean ==
    ASSUME Core, Core', NEW a \in Addr, MarkDead(a), NEW k \in Kind, Clean(k)
    PROVE  Clean(k)'
<1>0. Types /\ Shapes /\ Types' /\ Shapes' /\ Main \in Thread
  BY DEF Core, Thread
<1>1. PICK j \in Job :
             /\ job' = [job EXCEPT ![Main] = j]
             /\ j.at = "test" /\ j.a = a /\ j.k = "canvas" /\ j.id = 0
             /\ job[Main].at = "idle" /\ session[a] # 0 /\ a \notin dead
             /\ dead' = dead \cup {a}
             /\ UNCHANGED <<bound, session, born, obj, table, blame>>
  BY MarkDeadFacts
<1>2. job'[Main] = j
  BY <1>0, <1>1, AloneMoves
<1>3. job[Main].a = None
  BY <1>0, <1>1 DEF Shapes, Shape, Walking
<1>4. ASSUME NEW b \in Addr, NEW i \in 1..table[k].count,
             Passed(b, k, i - 1)'
      PROVE  Passed(b, k, i - 1)
  <2>1. ~(Rank[k] < Rank["canvas"])
    BY DEF Rank, Kind
  <2>2. ~(i - 1 < 0)
    BY <1>0, TableType
  <2>3. b # a
    BY <1>1, <1>2, <1>4, <2>1, <2>2 DEF Passed
  <2>4. b \in dead /\ job[Main].a # b
    BY <1>1, <1>3, <1>4, <2>3, PointerConstants DEF Passed
  <2> QED
    BY <2>4 DEF Passed
<1> QED
  BY <1>0, <1>1, <1>4, WalkClean

\* The end of a table in a walk: what it changes.
LEMMA WalkedFacts ==
    ASSUME Types, Walked
    PROVE  \E j \in Job :
             /\ job' = [job EXCEPT ![Main] = j]
             /\ job[Main].at = "test" /\ ~(job[Main].id < table[job[Main].k].count)
             /\ IF job[Main].k = "placement" THEN j.at = "idle" /\ j.a = None
                ELSE /\ j.at = "test" /\ j.a = job[Main].a /\ j.id = 0
                     /\ Rank[j.k] = Rank[job[Main].k] + 1
             /\ UNCHANGED <<bound, session, dead, born, obj, table, blame>>
<1>1. PICK i \in Job : i = job[Main]
  BY JobsType DEF Thread
<1> DEFINE n == NextTable[i.k]
           m == [i EXCEPT !.k = n, !.id = 0]
           j == IF i.k = "placement" THEN Idle ELSE m
<1>2. /\ job' = [job EXCEPT ![Main] = j]
      /\ i.at = "test" /\ ~(i.id < table[i.k].count)
      /\ UNCHANGED <<bound, session, dead, born, obj, table, blame>>
  BY <1>1 DEF Walked, Ready, InTable, Becomes, clientVars
<1>3. CASE i.k = "placement"
  BY <1>1, <1>2, <1>3, IdleType
<1>4. CASE i.k # "placement"
  <2>1. n \in Kind /\ Rank[n] = Rank[i.k] + 1
    <3>1. i.k \in {"canvas", "sprite"}
      BY <1>4 DEF Job, Kind
    <3> QED
      BY <3>1 DEF NextTable, Rank, Kind
  <2> HIDE DEF n
  <2>2. [i EXCEPT !.k = n] \in Job
    BY <2>1 DEF Job
  <2>3. \A f \in Job : [f EXCEPT !.id = 0] \in Job
    BY DEF Job
  <2>4. m \in Job
    BY <2>2, <2>3
  <2>5. m.at = i.at /\ m.a = i.a /\ m.id = 0 /\ m.k = n
    BY <2>4 DEF Job
  <2>6. j = m
    BY <1>4
  <2> HIDE DEF m, j
  <2> QED
    BY <1>1, <1>2, <1>4, <2>1, <2>4, <2>5, <2>6
<1> QED
  BY <1>3, <1>4

\* The end of a table in a walk: clients, and the shapes of jobs.
LEMMA WalkedCore ==
    ASSUME Core, Walked
    PROVE  Core'
<1>0. Types /\ Sessions /\ Shapes /\ Apart /\ Main \in Thread
      /\ Main \notin Worker
  BY TableConstants DEF Core, Thread
<1>1. PICK j \in Job :
             /\ job' = [job EXCEPT ![Main] = j]
             /\ job[Main].at = "test"
             /\ IF job[Main].k = "placement" THEN j.at = "idle" /\ j.a = None
                ELSE j.at = "test" /\ j.a = job[Main].a /\ j.id = 0
             /\ UNCHANGED <<bound, session, dead, born, obj, table, blame>>
  BY <1>0, WalkedFacts
<1>2. job'[Main] = j /\ job' \in [Thread -> Job]
  BY <1>0, <1>1, AloneMoves
<1>3. job[Main].a \in dead
  BY <1>0, <1>1 DEF Shapes, Shape, Walking
<1>4. Shape(Main)'
  BY <1>0, <1>1, <1>2, <1>3 DEF Shape, Making, Walking
<1>5. Shapes' /\ Apart'
  BY <1>1, <1>4, MainMoves DEF Making
<1>6. Types'
  BY <1>0, <1>1, <1>2 DEF Types
<1>7. Sessions'
  BY <1>0, <1>1 DEF Sessions
<1> QED
  BY <1>5, <1>6, <1>7 DEF Core

\* The end of a table in a walk: the tables.
LEMMA WalkedClean ==
    ASSUME Core, Core', Walked, NEW k \in Kind, Clean(k)
    PROVE  Clean(k)'
<1>0. Types /\ Shapes /\ Types' /\ Shapes' /\ Main \in Thread
  BY DEF Core, Thread
<1>1. PICK j \in Job :
             /\ job' = [job EXCEPT ![Main] = j]
             /\ job[Main].at = "test" /\ ~(job[Main].id < table[job[Main].k].count)
             /\ IF job[Main].k = "placement" THEN j.at = "idle" /\ j.a = None
                ELSE /\ j.at = "test" /\ j.a = job[Main].a /\ j.id = 0
                     /\ Rank[j.k] = Rank[job[Main].k] + 1
             /\ UNCHANGED <<bound, session, dead, born, obj, table, blame>>
  BY <1>0, WalkedFacts
<1>2. job'[Main] = j
  BY <1>0, <1>1, AloneMoves
<1>3. j.at \in {"idle", "test"}
  BY <1>1
<1>4. ASSUME NEW b \in Addr, NEW i \in 1..table[k].count,
             Passed(b, k, i - 1)'
      PROVE  Passed(b, k, i - 1)
  <2>1. b \in dead
    BY <1>1, <1>4 DEF Passed
  <2>2. CASE job[Main].a # b
    BY <2>1, <2>2 DEF Passed
  <2>3. CASE job[Main].a = b
    <3>1. \A m \in Kind : Rank[m] \in 0..2
      BY DEF Rank, Kind
    <3>2. i - 1 \in Nat /\ i - 1 < table[k].count /\ table[k].count \in Nat
      BY <1>0, TableType
    <3>3. job[Main].k = k => i - 1 < job[Main].id
      <4>1. job[Main].id \in Nat
        BY <1>0, <1>1 DEF Shapes, Shape, Walking
      <4> QED
        BY <1>1, <3>2, <4>1
    <3>4. CASE job[Main].k = "placement"
      <4>1. Rank[k] < Rank["placement"] \/ k = "placement"
        BY DEF Rank, Kind
      <4> QED
        BY <2>1, <3>3, <3>4, <4>1 DEF Passed
    <3>5. CASE job[Main].k # "placement"
      <4>1. /\ j.a = b /\ j.id = 0 /\ Rank[j.k] = Rank[job[Main].k] + 1
        BY <1>1, <2>3, <3>5
      <4>2. Rank[k] < Rank[j.k]
        BY <1>2, <1>4, <3>2, <4>1 DEF Passed
      <4>3. Rank[k] < Rank[job[Main].k] \/ k = job[Main].k
        <5>1. job[Main].k \in Kind
          BY <1>0, JobsType
        <5>2. Rank[k] <= Rank[job[Main].k]
          BY <3>1, <4>1, <4>2, <5>1
        <5> QED
          BY <5>1, <5>2 DEF Rank, Kind
      <4> QED
        BY <2>1, <3>3, <4>3 DEF Passed
    <3> QED
      BY <3>4, <3>5
  <2> QED
    BY <2>2, <2>3
<1> QED
  BY <1>0, <1>1, <1>3, <1>4, WalkClean

\* One entry of a walk: what it changes.
LEMMA TestFacts ==
    ASSUME Types, Shapes, Test, ~Stops
    PROVE  LET i == job[Main]
               e == [k |-> i.k, g |-> table[i.k].arr, i |-> i.id]
           IN
           /\ i.at = "test" /\ i.id < table[i.k].count
           /\ i.k \in Kind /\ i.id \in Nat
           /\ e \in Pointer /\ Defect(e) = ""
           /\ UNCHANGED <<bound, session, dead, born, obj, table, blame>>
           /\ \E j \in Job :
                /\ job' = [job EXCEPT ![Main] = j]
                /\ j.a = i.a /\ j.k = i.k
                /\ IF Owned(EntryAt(e), i.a)
                   THEN /\ j.at = "remove" /\ j.id = i.id /\ j.p = e
                        /\ ~j.robbed => ~HalfGone(Main, e)
                   ELSE j.at = "test" /\ j.id = i.id + 1
<1>1. PICK i \in Job : i = job[Main]
  BY JobsType DEF Thread
<1> DEFINE e == [k |-> i.k, g |-> table[i.k].arr, i |-> i.id]
           b == HalfGone(Main, e)
           f == [i EXCEPT !.at = "remove", !.p = e, !.robbed = b]
           g == [i EXCEPT !.id = @ + 1]
<1>2. /\ i.at = "test" /\ i.id < table[i.k].count /\ Defect(e) = ""
      /\ job' = [job EXCEPT ![Main] = IF Owned(EntryAt(e), i.a) THEN f ELSE g]
      /\ UNCHANGED <<bound, session, dead, born, obj, table, blame>>
  BY <1>1, BreaksStops DEF Test, Ready, Uses, InTable, Becomes, clientVars
<1>3. i.id \in Nat /\ i.k \in Kind
  BY <1>1, <1>2 DEF Shapes, Shape, Thread, Walking, Job
<1>4. e \in Pointer
  BY <1>3, TableType DEF Pointer
<1>5. b \in BOOLEAN
  BY DEF HalfGone
<1> HIDE DEF e, b
<1>6. f \in Job /\ f.a = i.a /\ f.k = i.k /\ f.at = "remove" /\ f.id = i.id
      /\ f.p = e /\ f.robbed = b
  <2>1. [i EXCEPT !.at = "remove"] \in Job
    BY DEF Job, At
  <2>2. \A h \in Job : [h EXCEPT !.p = e] \in Job
    BY <1>4 DEF Job
  <2>3. \A h \in Job : [h EXCEPT !.robbed = b] \in Job
    BY <1>5 DEF Job
  <2>4. [i EXCEPT !.at = "remove", !.p = e] \in Job
    BY <2>1, <2>2
  <2>5. f \in Job
    BY <2>3, <2>4
  <2> QED
    BY <2>5 DEF Job
<1>7. g \in Job /\ g.a = i.a /\ g.k = i.k /\ g.at = "test" /\ g.id = i.id + 1
  <2>1. i.id + 1 \in Int
    BY <1>3
  <2> QED
    BY <1>2, <2>1 DEF Job
<1> HIDE DEF f, g
<1>8. CASE Owned(EntryAt(e), i.a)
  <2>1. job' = [job EXCEPT ![Main] = f]
    BY <1>2, <1>8
  <2>2. ~f.robbed => ~HalfGone(Main, e)
    BY <1>6 DEF b
  <2> QED
    BY <1>1, <1>2, <1>3, <1>4, <1>6, <1>8, <2>1, <2>2 DEF e
<1>9. CASE ~Owned(EntryAt(e), i.a)
  <2>1. job' = [job EXCEPT ![Main] = g]
    BY <1>2, <1>9
  <2> QED
    BY <1>1, <1>2, <1>3, <1>4, <1>7, <1>9, <2>1 DEF e
<1> QED
  BY <1>8, <1>9

\* One entry of a walk: clients, and the shapes of jobs.
LEMMA TestCore ==
    ASSUME Core, Test, ~Stops
    PROVE  Core'
<1> DEFINE i == job[Main]
           e == [k |-> i.k, g |-> table[i.k].arr, i |-> i.id]
<1>0. Types /\ Sessions /\ Shapes /\ Apart /\ Main \in Thread
      /\ Main \notin Worker
  BY TableConstants DEF Core, Thread
<1>1. /\ i.at = "test" /\ i.id \in Nat
      /\ UNCHANGED <<bound, session, dead, born, obj, table, blame>>
  BY <1>0, TestFacts
<1>2. PICK j \in Job :
        /\ job' = [job EXCEPT ![Main] = j]
        /\ j.a = i.a /\ j.k = i.k
        /\ \/ /\ j.at = "remove" /\ j.id = i.id /\ j.p = e
           \/ j.at = "test" /\ j.id = i.id + 1
  BY <1>0, TestFacts
<1>3. job'[Main] = j /\ job' \in [Thread -> Job]
  BY <1>0, <1>2, AloneMoves
<1>4. i.a \in dead /\ i.id + 1 \in Nat
  BY <1>0, <1>1 DEF Shapes, Shape, Walking
<1>5. e.k = i.k /\ e.i = i.id
  OBVIOUS
<1> HIDE DEF e
<1>6. j.at = "remove" => j.p.k = j.k /\ j.p.i = j.id
  BY <1>2, <1>5
<1>7. Shape(Main)'
  BY <1>0, <1>1, <1>2, <1>3, <1>4, <1>6 DEF Shape, Making, Walking
<1>8. Shapes' /\ Apart'
  BY <1>1, <1>2, <1>7, MainMoves DEF Making
<1>9. Types'
  BY <1>0, <1>1, <1>3 DEF Types
<1>10. Sessions'
  BY <1>0, <1>1 DEF Sessions
<1> QED
  BY <1>8, <1>9, <1>10 DEF Core

\* One entry of a walk: the tables.
LEMMA TestClean ==
    ASSUME Core, Core', Test, ~Stops, NEW k \in Kind, Clean(k)
    PROVE  Clean(k)'
<1> DEFINE i == job[Main]
           e == [k |-> i.k, g |-> table[i.k].arr, i |-> i.id]
<1>0. Types /\ Shapes /\ Types' /\ Shapes' /\ Main \in Thread
      /\ Main \notin Worker
  BY TableConstants DEF Core, Thread
<1>1. /\ i.at = "test" /\ i.id < table[i.k].count
      /\ i.k \in Kind /\ i.id \in Nat
      /\ e \in Pointer /\ Defect(e) = ""
      /\ UNCHANGED <<bound, session, dead, born, obj, table, blame>>
  BY <1>0, TestFacts
<1>2. PICK j \in Job :
        /\ job' = [job EXCEPT ![Main] = j]
        /\ j.a = i.a /\ j.k = i.k
        /\ IF Owned(EntryAt(e), i.a)
           THEN /\ j.at = "remove" /\ j.id = i.id /\ j.p = e
                /\ ~j.robbed => ~HalfGone(Main, e)
           ELSE j.at = "test" /\ j.id = i.id + 1
  BY <1>0, TestFacts
<1>3. /\ job'[Main] = j /\ Others(Main) /\ OthersAt(Main, k)
  BY <1>0, <1>2, AloneMoves
<1>4. /\ e.k = i.k /\ e.i = i.id /\ e.g = "present"
      /\ EntryAt(e) = table[i.k].slot[i.id + 1]
  <2>1. e.k = i.k /\ e.i = i.id
    OBVIOUS
  <2> HIDE DEF e
  <2> QED
    BY <1>0, <1>1, <2>1, DefectFree DEF EntryAt
<1> HIDE DEF e
<1>5. CASE ~Owned(EntryAt(e), i.a)
  <2>1. j.at = "test" /\ j.id = i.id + 1
    BY <1>2, <1>5
  <2>2. ASSUME NEW a \in Addr, NEW m \in 1..table[k].count,
               table[k].slot[m].ptr # None, table[k].slot[m].owner = a,
               Passed(a, k, m - 1)'
        PROVE  Passed(a, k, m - 1)
    <3>1. m - 1 \in Nat /\ (m - 1) + 1 = m /\ m \in Nat
      BY <1>0, TableType
    <3>2. k = i.k /\ a = i.a => m - 1 # i.id
      <4>1. k = i.k /\ m = i.id + 1 => table[k].slot[m].owner # i.a
        BY <1>4, <1>5, <2>2 DEF Owned
      <4> QED
        BY <2>2, <3>1, <4>1
    <3>3. m - 1 < i.id + 1 /\ m - 1 # i.id => m - 1 < i.id
      <4>1. \A x, y \in Nat : x < y + 1 /\ x # y => x < y
        OBVIOUS
      <4> QED
        BY <1>1, <3>1, <4>1
    <3> QED
      BY <1>1, <1>2, <1>3, <2>1, <2>2, <3>2, <3>3 DEF Passed
  <2> QED
    BY <1>0, <1>1, <1>2, <2>1, <2>2, WalkClean
<1>6. CASE Owned(EntryAt(e), i.a)
  <2>1. /\ j.at = "remove" /\ j.id = i.id /\ j.p = e
        /\ ~j.robbed => ~HalfGone(Main, e)
    BY <1>2, <1>6
  <2>2. WitnessKept(Main, k)
    BY <1>1 DEF WitnessKept, Nameless
  <2>3. Alone(k)'
    BY <1>0, <1>3, <2>1, AloneKept DEF Clean, Entering
  <2>4. RemovedBy(Main, k)'
    <3>1. i.k = k => i.id \in 0..table[k].count - 1
      <4>1. \A x, y \in Nat : x < y => x \in 0..y - 1
        OBVIOUS
      <4>2. table[k].count \in Nat
        BY <1>0, TableType
      <4> QED
        BY <1>1, <4>1, <4>2
    <3> QED
      BY <1>1, <1>2, <1>3, <2>1, <3>1 DEF RemovedBy
  <2>5. PointersOf(Main, k)'
    <3>1. i.k = k => Sound(e, j.robbed)
      <4>1. Fresh(Main, e, j.robbed)
        BY <1>1, <1>4, <1>6, <2>1 DEF Fresh, Owned
      <4>2. j.robbed \in BOOLEAN
        BY DEF Job
      <4> QED
        BY <1>0, <1>1, <1>4, <4>1, <4>2, FreshSound
    <3>2. i.k = k => Sound(job[Main].p, job[Main].robbed)'
      BY <1>1, <1>3, <1>4, <2>1, <3>1 DEF Sound
    <3> QED
      BY <1>2, <1>3, <1>4, <2>1, <3>2 DEF PointersOf
  <2>6. Owners(k)'
    <3>1. \A a \in Addr : \A m : Passed(a, k, m)' <=> Passed(a, k, m)
      BY <1>1, <1>2, <1>3, <2>1 DEF Passed
    <3>2. job'[Main].k = k =>
            table'[k].slot[job'[Main].id + 1].owner = job'[Main].a
      BY <1>1, <1>2, <1>3, <1>4, <1>6, <2>1 DEF Owned
    <3> QED
      BY <1>1, <3>1, <3>2 DEF Clean, Owners
  <2> QED
    BY <1>0, <1>1, <1>3, <2>2, <2>3, <2>4, <2>5, <2>6, SameTable
<1> QED
  BY <1>5, <1>6

-----------------------------------------------------------------------------
(* The end of the server *)

\* tables_destroy: what it changes.
LEMMA DestroyFacts ==
    ASSUME Types, TablesDestroy
    PROVE  /\ job[Main].at = "idle" /\ \A w \in Worker : job[w].at = "idle"
           /\ \E j \in Job : /\ job' = [job EXCEPT ![Main] = j]
                             /\ j.at = "done" /\ j.a = None
           /\ table' \in [Kind -> Table]
           /\ \A k \in Kind :
                /\ Len(table'[k].slot) = table'[k].cap
                /\ table'[k].count = table[k].count
                /\ table'[k].cap = table[k].cap
                /\ table'[k].slot = table[k].slot
                /\ IF table[k].arr = "none" THEN table'[k].arr = "none"
                   ELSE table'[k].arr = "released"
           /\ UNCHANGED <<bound, session, dead, born, obj, blame>>
<1> DEFINE j == [Idle EXCEPT !.at = "done"]
<1>1. /\ job[Main].at = "idle" /\ \A w \in Worker : job[w].at = "idle"
      /\ job' = [job EXCEPT ![Main] = j]
      /\ table' = [k \in Kind |-> [table[k] EXCEPT !.arr =
                                     IF @ = "none" THEN @ ELSE "released"]]
      /\ UNCHANGED <<bound, session, dead, born, obj, blame>>
  BY DEF TablesDestroy, Ready, Becomes, clientVars
<1>2. j \in Job /\ j.at = "done" /\ j.a = None
  BY IdleType DEF Job, At
<1>3. ASSUME NEW k \in Kind
      PROVE  /\ table'[k] \in Table
             /\ Len(table'[k].slot) = table'[k].cap
             /\ table'[k].count = table[k].count
             /\ table'[k].cap = table[k].cap
             /\ table'[k].slot = table[k].slot
             /\ IF table[k].arr = "none" THEN table'[k].arr = "none"
                ELSE table'[k].arr = "released"
  <2>1. PICK T \in Table : T = table[k]
    BY DEF Types
  <2> DEFINE b == IF T.arr = "none" THEN "none" ELSE "released"
             U == [T EXCEPT !.arr = b]
  <2>2. table'[k] = U
    BY <1>1, <2>1
  <2>3. b \in Block
    BY DEF Block
  <2> HIDE DEF b
  <2>4. /\ U \in Table /\ U.arr = b /\ U.slot = T.slot /\ U.cap = T.cap
        /\ U.count = T.count
    BY <2>3 DEF Table
  <2> HIDE DEF U
  <2>5. Len(T.slot) = T.cap
    BY <2>1 DEF Types
  <2> QED
    BY <2>1, <2>2, <2>4, <2>5 DEF b
<1>4. table' \in [Kind -> Table]
  BY <1>1, <1>3
<1> QED
  BY <1>1, <1>2, <1>3, <1>4

\* tables_destroy: clients, and the shapes of jobs.
LEMMA DestroyCore ==
    ASSUME Core, TablesDestroy
    PROVE  Core'
<1>0. Types /\ Sessions /\ Shapes /\ Apart /\ Main \in Thread
      /\ Main \notin Worker
  BY TableConstants DEF Core, Thread
<1>1. /\ job[Main].at = "idle" /\ \A w \in Worker : job[w].at = "idle"
      /\ table' \in [Kind -> Table]
      /\ \A k \in Kind : Len(table'[k].slot) = table'[k].cap
      /\ UNCHANGED <<bound, session, dead, born, obj, blame>>
  BY <1>0, DestroyFacts
<1>2. PICK j \in Job : /\ job' = [job EXCEPT ![Main] = j]
                       /\ j.at = "done" /\ j.a = None
  BY <1>0, DestroyFacts
<1>3. job'[Main] = j /\ job' \in [Thread -> Job]
      /\ \A u \in Thread \ {Main} : job'[u] = job[u]
  BY <1>0, <1>2, AloneMoves
<1>4. Shape(Main)'
  <2>1. \A w \in Worker : job'[w].at = "idle"
    BY <1>0, <1>1, <1>3 DEF Thread
  <2> QED
    BY <1>0, <1>2, <1>3, <2>1 DEF Shape, Making, Walking
<1>5. Shapes' /\ Apart'
  BY <1>1, <1>2, <1>4, MainMoves DEF Making
<1>6. Types'
  BY <1>0, <1>1, <1>3 DEF Types
<1>7. Sessions'
  BY <1>0, <1>1 DEF Sessions
<1> QED
  BY <1>5, <1>6, <1>7 DEF Core

\* tables_destroy: the tables.
LEMMA DestroyClean ==
    ASSUME Core, Core', TablesDestroy, NEW k \in Kind, Clean(k)
    PROVE  Clean(k)'
<1>0. Types /\ Shapes /\ Main \in Thread /\ Main \notin Worker
  BY TableConstants DEF Core, Thread
<1>1. /\ job[Main].at = "idle" /\ \A w \in Worker : job[w].at = "idle"
      /\ table'[k].count = table[k].count /\ table'[k].cap = table[k].cap
      /\ table'[k].slot = table[k].slot
      /\ IF table[k].arr = "none" THEN table'[k].arr = "none"
         ELSE table'[k].arr = "released"
      /\ UNCHANGED <<bound, session, dead, born, obj, blame>>
  BY <1>0, DestroyFacts
<1>2. PICK j \in Job : /\ job' = [job EXCEPT ![Main] = j]
                       /\ j.at = "done" /\ j.a = None
  BY <1>0, DestroyFacts
<1>3. job'[Main] = j /\ \A u \in Thread \ {Main} : job'[u] = job[u]
  BY <1>0, <1>2, AloneMoves
<1>4. \A u \in Thread : job[u].at = "idle" /\ job'[u].at \in {"idle", "done"}
  BY <1>1, <1>2, <1>3 DEF Thread
<1>w. Worker \subseteq Thread
  BY DEF Thread
<1>5. Alone(k)'
  BY <1>4, <1>w DEF Alone, Entering
<1>6. Array(k)'
  BY <1>1, <1>2, <1>3, <1>4, <1>w DEF Clean, Array
<1>7. Entered(k)'
  BY <1>4, <1>w DEF Entered, EnteredBy, Making
<1>8. NamedOnce(k)'
  BY <1>1, <1>4, <1>w DEF Clean, NamedOnce, EntryOf
<1>9. Living(k)'
  BY <1>1, <1>4, <1>w DEF Clean, Living, EntryOf, Nameless
<1>10. Removing(k)' /\ Pointers(k)'
  BY <1>4, <1>w DEF Removing, RemovedBy, Pointers, PointersOf, Using
<1>11. Owners(k)'
  <2>1. job[Main].a = None
    BY <1>0, <1>1 DEF Shapes, Shape, Walking
  <2>2. \A a \in Addr : \A i : Passed(a, k, i)' => Passed(a, k, i)
    BY <1>1, <2>1, PointerConstants DEF Passed
  <2>3. /\ table'[k].count = table[k].count /\ table'[k].slot = table[k].slot
        /\ obj' = obj /\ session' = session
    BY <1>1
  <2>4. ~(job'[Main].at = "remove" /\ job'[Main].k = k)
    BY <1>2, <1>3
  <2>5. Owners(k)
    BY DEF Clean
  <2> QED
    BY <2>2, <2>3, <2>4, <2>5, OwnersStay
<1> QED
  BY <1>5, <1>6, <1>7, <1>8, <1>9, <1>10, <1>11 DEF Clean

-----------------------------------------------------------------------------
(* The first undefined access *)

\* A broken rule leaves the invariant as it was.
LEMMA StopsKept ==
    ASSUME Core, Stops
    PROVE  Core' /\ \A k \in Kind : Clean(k) => Clean(k)'
<1> USE DEF Stops, JobOnly
<1>1. Core'
  BY DEF Core, Types, Sessions, Shapes, Shape, Apart
<1>2. ASSUME NEW k \in Kind, Clean(k) PROVE Clean(k)'
  <2>1. Alone(k)' /\ Array(k)' /\ Entered(k)'
    BY <1>2 DEF Clean, Alone, Array, Entered, EnteredBy
  <2>2. NamedOnce(k)' /\ Living(k)'
    BY <1>2 DEF Clean, NamedOnce, Living, EntryOf
  <2>3. Removing(k)' /\ Pointers(k)'
    BY <1>2 DEF Clean, Removing, RemovedBy, Pointers, PointersOf, Sound
  <2>4. Owners(k)'
    BY <1>2 DEF Clean, Owners, Passed
  <2> QED
    BY <2>1, <2>2, <2>3, <2>4 DEF Clean
<1> QED
  BY <1>1, <1>2

\* The rule that is broken is not a handler's own fault.
Excused(t, what, k) ==
    \/ k \in blame
    \/ what = "released"
    \/ what \in {"object", "share"} /\ job[t].robbed

\* An excused fault is a race.
LEMMA BreaksRaces ==
    ASSUME NEW t, NEW what, NEW k, Breaks(t, what, k), Excused(t, what, k)
    PROVE  FaultsAreRaces'
<1>1. /\ fault'.by = t /\ fault'.what = what /\ fault'.k = k
      /\ job' = job /\ blame' = blame
  BY DEF Breaks
<1> QED
  BY <1>1 DEF FaultsAreRaces, Excused

\* A step without a fault.
LEMMA RunsRaces == ASSUME fault = None, fault' = fault PROVE FaultsAreRaces'
  BY DEF FaultsAreRaces

\* A pointer into a table, at one of its entries.
Inside(p) == p.k \in blame \/ (p.g # "none" /\ p.i < table[p.k].count)

\* An index below the count is below the capacity.
LEMMA Position == ASSUME NEW i \in Nat, NEW m \in Nat, NEW n \in Nat,
                         i < m, m <= n
                  PROVE  i + 1 \in 1..m /\ ~(i >= n)
  OBVIOUS

\* What is wrong with such a pointer is that the array is gone.
LEMMA InsideDefect ==
    ASSUME Types, Tables, NEW t, NEW p \in Pointer, Inside(p), Defect(p) # ""
    PROVE  Excused(t, Defect(p), p.k)
<1>1. CASE p.k \in blame
  BY <1>1 DEF Excused
<1>2. CASE p.k \notin blame
  <2>1. /\ p.k \in Kind /\ p.i \in Nat /\ p.g \in Block
        /\ table[p.k].count \in Nat /\ table[p.k].cap \in Nat
        /\ Len(table[p.k].slot) = table[p.k].cap
    BY TableType DEF Pointer
  <2>2. /\ table[p.k].count <= table[p.k].cap
        /\ \A i \in 1..table[p.k].count : table[p.k].slot[i] # Junk
    BY <1>2, <2>1 DEF Tables, Clean, Array
  <2>3. p.g # "none" /\ p.i < table[p.k].count
    BY <1>2 DEF Inside
  <2>4. /\ p.i + 1 \in 1..table[p.k].count
        /\ ~(p.i >= Len(table[p.k].slot))
    BY <2>1, <2>2, <2>3, Position
  <2>5. p.g = "released" /\ Defect(p) = "released"
    BY <2>1, <2>2, <2>3, <2>4 DEF Defect, Block
  <2> QED
    BY <2>5 DEF Excused
<1> QED
  BY <1>1, <1>2

\* So is what a lookup returns.
LEMMA LookupInside ==
    ASSUME Types, Tables, NEW k \in Kind, NEW n \in Int,
           ~IsNull(Lookup(k, n))
    PROVE  LET p == Lookup(k, n) IN p \in Pointer /\ p.k = k /\ Inside(p)
<1>1. Lookup(k, n) \in Pointer
  BY LookupIs
<1>2. n \in 0..table[k].count - 1
  BY DEF Lookup, IsNull, Null
<1>3. Lookup(k, n) = [k |-> k, g |-> table[k].arr, i |-> n]
  BY <1>2 DEF Lookup
<1>4. n < table[k].count /\ table[k].count # 0
  <2>1. table[k].count \in Nat
    BY TableType
  <2> QED
    BY <1>2, <2>1
<1>5. k \in blame \/ table[k].arr # "none"
  BY <1>4 DEF Tables, Clean, Array
<1> QED
  BY <1>1, <1>3, <1>4, <1>5 DEF Inside

\* To take a task breaks no rule.
LEMMA TakesRaces ==
    ASSUME NEW w, NEW j, Takes(w, j)
    PROVE  FaultsAreRaces'
  BY RunsRaces DEF Takes, Ready

\* A lookup breaks no rule but by a released array.
LEMMA FindsRaces ==
    ASSUME Types, Tables, NEW w \in Worker, NEW k \in Kind, NEW n \in Arg,
           NEW next, NEW miss, Finds(w, k, n, next, miss)
    PROVE  FaultsAreRaces'
<1> DEFINE p == Lookup(k, IntOf(n))
<1>1. IntOf(n) \in Int
  BY IntOfType
<1>2. CASE \E j : Takes(w, j)
  BY <1>2, TakesRaces
<1>3. CASE Wild(p) /\ Breaks(w, Defect(p), k)
  <2>1. ~IsNull(p) /\ Defect(p) # ""
    BY <1>3 DEF Wild
  <2>2. p \in Pointer /\ p.k = k /\ Inside(p)
    BY <1>1, <2>1, LookupInside
  <2> HIDE DEF p
  <2>3. Excused(w, Defect(p), k)
    BY <2>1, <2>2, InsideDefect
  <2> QED
    BY <1>3, <2>3, BreaksRaces
<1> QED
  BY <1>2, <1>3 DEF Finds, Refuses

\* Nor do the two lookups of PLACE_SPRITE.
LEMMA PlaceSpriteRaces ==
    ASSUME Types, Tables, NEW w \in Worker, NEW a \in Addr, PlaceSprite(w, a)
    PROVE  FaultsAreRaces'
<1>1. CASE \E j : Takes(w, j)
  BY <1>1, TakesRaces
<1>2. ASSUME NEW p \in Pointer, Inside(p), Wild(p),
             Breaks(w, Defect(p), p.k)
      PROVE  FaultsAreRaces'
  <2>1. Excused(w, Defect(p), p.k)
    BY <1>2, InsideDefect DEF Wild
  <2> QED
    BY <1>2, <2>1, BreaksRaces
<1>3. ASSUME NEW k \in Kind, NEW n \in Arg, Wild(Lookup(k, IntOf(n)))
      PROVE  Lookup(k, IntOf(n)) \in Pointer /\ Inside(Lookup(k, IntOf(n)))
  BY <1>3, IntOfType, LookupInside DEF Wild
<1>4. CASE \E c, n \in Arg :
             LET p == Lookup("canvas", IntOf(c))
                 q == Lookup("sprite", IntOf(n))
                 bad == IF Wild(p) THEN p ELSE q
             IN (Wild(p) \/ Wild(q)) /\ Breaks(w, Defect(bad), bad.k)
  <2>1. PICK c \in Arg, n \in Arg :
             LET p == Lookup("canvas", IntOf(c))
                 q == Lookup("sprite", IntOf(n))
                 bad == IF Wild(p) THEN p ELSE q
             IN (Wild(p) \/ Wild(q)) /\ Breaks(w, Defect(bad), bad.k)
    BY <1>4
  <2>2. "canvas" \in Kind /\ "sprite" \in Kind
    BY DEF Kind
  <2>3. CASE Wild(Lookup("canvas", IntOf(c)))
    BY <1>2, <1>3, <2>1, <2>2, <2>3
  <2>4. CASE ~Wild(Lookup("canvas", IntOf(c)))
    BY <1>2, <1>3, <2>1, <2>2, <2>4
  <2> QED
    BY <2>3, <2>4
<1> QED
  BY <1>1, <1>4 DEF PlaceSprite, Refuses

\* Nor does any RPC up to its first access.
LEMMA TaskRaces ==
    ASSUME Types, Tables, NEW w \in Worker, Task(w)
    PROVE  FaultsAreRaces'
<1>1. ASSUME NEW c, Refuses(w, c) PROVE FaultsAreRaces'
  BY <1>1, TakesRaces DEF Refuses
<1>2. ASSUME NEW a, NEW k, Makes(w, a, k) PROVE FaultsAreRaces'
  BY <1>2, TakesRaces DEF Makes
<1>3. InRange \subseteq Arg
  BY DEF InRange
<1>4. "placement" \in Kind /\ "canvas" \in Kind /\ "sprite" \in Kind
  BY DEF Kind
<1>5. ASSUME NEW ids \in SUBSET Arg, Adjusts(w, ids) PROVE FaultsAreRaces'
  BY <1>1, <1>4, <1>5, FindsRaces DEF Adjusts
<1>6. CASE \E a \in Addr : CreateCanvas(w, a) \/ CreateSprite(w, a)
                             \/ CreateRectangle(w, a) \/ CreateCircle(w, a)
  BY <1>1, <1>2, <1>6
     DEF CreateCanvas, CreateSprite, CreateRectangle, CreateCircle
<1>7. CASE DestroyCanvas(w) \/ DestroySprite(w) \/ DestroyPlacement(w)
  BY <1>1, <1>3, <1>4, <1>7, FindsRaces
     DEF DestroyCanvas, DestroySprite, DestroyPlacement
<1>8. CASE \/ PlacementUp(w) \/ PlacementDown(w) \/ PlacementTop(w)
           \/ PlacementBottom(w) \/ SetAnimParam(w)
  BY <1>3, <1>5, <1>8
     DEF PlacementUp, PlacementDown, PlacementTop, PlacementBottom, SetAnimParam
<1>9. CASE Generate(w) \/ Share(w)
  BY <1>1, <1>3, <1>4, <1>9, FindsRaces DEF Generate, Share
<1> QED
  BY <1>6, <1>7, <1>8, <1>9, PlaceSpriteRaces DEF Task

\* A thread uses the entry it found.
LEMMA UsesRaces ==
    ASSUME Types, Tables, NEW t, NEW p \in Pointer, Inside(p), Defect(p) # "",
           Breaks(t, Defect(p), p.k)
    PROVE  FaultsAreRaces'
  BY InsideDefect, BreaksRaces

\* A thread gives the object it found to the library.
LEMMA CallsRaces ==
    ASSUME Types, Tables, NEW t \in Thread, NEW p \in Pointer,
           NEW o, p.k \notin blame => Sound(p, job[t].robbed),
           ~job[t].robbed => o = table[p.k].slot[p.i + 1].ptr,
           o = None \/ ~obj[p.k][o].alive,
           Breaks(t, "object", p.k)
    PROVE  FaultsAreRaces'
  BY BreaksRaces DEF Excused, Sound

\* A sound pointer is inside its table.
LEMMA SoundInside ==
    ASSUME NEW p, NEW r, p.k \notin blame => Sound(p, r)
    PROVE  Inside(p)
  BY DEF Sound, Inside

\* What a thread holds when it is to use it.
LEMMA HeldSound ==
    ASSUME Types, Tables, NEW t \in Thread
    PROVE  LET j == job[t] IN
           /\ j.p \in Pointer /\ j.q \in Pointer /\ j.k \in Kind
           /\ j.at \in Using /\ j.p.k \notin blame => Sound(j.p, j.robbed)
           /\ j.at = "place" /\ j.q.k \notin blame => Sound(j.q, j.robbed)
           /\ j.at = "clear" /\ t = Main /\ j.k \notin blame => Sound(j.p, TRUE)
           /\ j.at = "clear" /\ j.k \notin blame =>
                j.q.k = j.k /\ j.q.g # "none" /\ j.q.i < table[j.k].count
<1>1. /\ job[t].p \in Pointer /\ job[t].q \in Pointer /\ job[t].k \in Kind
      /\ job[t].p.k \in Kind /\ job[t].q.k \in Kind
  BY JobsType
<1>2. \A k \in Kind : table[k].count \in Nat
  BY TableType
<1>3. \A k \in Kind \ blame : PointersOf(t, k) /\ RemovedBy(t, k)
  BY DEF Tables, Clean, Pointers, Removing
<1>4. \A n \in Nat : \A i \in 0..n - 1 : i < n
  OBVIOUS
<1> QED
  BY <1>1, <1>2, <1>3, <1>4 DEF PointersOf, RemovedBy

\* The handlers: what they found is there unless someone came between.
LEMMA HandlerRaces ==
    ASSUME Types, Shapes, Tables, NEW w \in Worker,
           Adjust(w) \/ NoDataFile(w) \/ Frame(w) \/ Film(w) \/ Target(w)
    PROVE  FaultsAreRaces'
<1> DEFINE p == job[w].p
<1>1. w \in Thread /\ p \in Pointer
  BY HeldSound DEF Thread
<1>2. ASSUME job[w].at \in Using
      PROVE  Inside(p) /\ (p.k \notin blame => Sound(p, job[w].robbed))
  BY <1>1, <1>2, HeldSound, SoundInside
<1>3. CASE fault = None /\ fault' = fault
  BY <1>3, RunsRaces
<1>4. CASE job[w].at \in Using /\ Defect(p) # "" /\ Breaks(w, Defect(p), p.k)
  BY <1>1, <1>2, <1>4, UsesRaces
<1>5. CASE /\ job[w].at = "adjust" /\ Defect(p) = ""
           /\ Breaks(w, "object", "placement")
           /\ EntryAt(p).ptr = None \/ ~obj["placement"][EntryAt(p).ptr].alive
  <2>1. p.k = "placement"
    BY <1>1, <1>5 DEF Shapes, Shape
  <2> QED
    BY <1>1, <1>2, <1>5, <2>1, CallsRaces DEF EntryAt, Using
<1>6. CASE /\ job[w].at = "frame" /\ Breaks(w, "object", "canvas")
           /\ job[w].o = None \/ ~obj["canvas"][job[w].o].alive
  <2>1. p.k = "canvas" /\ "canvas" \in Kind
    BY <1>1, <1>6 DEF Shapes, Shape, Kind
  <2>2. CASE "canvas" \in blame
    BY <1>6, <2>2, BreaksRaces DEF Excused
  <2>3. CASE "canvas" \notin blame
    <3>1. PointersOf(w, "canvas")
      BY <1>1, <2>1, <2>3 DEF Tables, Clean, Pointers
    <3>2. ~job[w].robbed => job[w].o = table[p.k].slot[p.i + 1].ptr
      BY <1>6, <2>1, <3>1 DEF PointersOf
    <3> QED
      BY <1>1, <1>2, <1>6, <2>1, <3>2, CallsRaces DEF Using
  <2> QED
    BY <2>2, <2>3
<1>7. CASE Adjust(w)
  BY <1>3, <1>4, <1>5, <1>7 DEF Adjust, Uses, Calls, Ready, Using
<1>8. CASE NoDataFile(w)
  BY <1>3, <1>8 DEF NoDataFile, Ready
<1>9. CASE Frame(w)
  BY <1>3, <1>6, <1>9 DEF Frame, Calls, Ready
<1>10. CASE Film(w)
  BY <1>3, <1>4, <1>10 DEF Film, Uses, Ready, Using
<1>11. CASE Target(w)
  BY <1>3, <1>4, <1>11 DEF Target, Uses, Ready, Using
<1> QED
  BY <1>7, <1>8, <1>9, <1>10, <1>11

\* The same for both objects of a placement.
LEMMA PlaceRaces ==
    ASSUME Types, Shapes, Tables, NEW w \in Worker, Place(w)
    PROVE  FaultsAreRaces'
<1> DEFINE p == job[w].p
           q == job[w].q
<1>1. w \in Thread /\ p \in Pointer /\ q \in Pointer
  BY HeldSound DEF Thread
<1>2. fault = None /\ job[w].at = "place"
  BY DEF Place, Ready
<1>3. p.k = "canvas" /\ q.k = "sprite"
  BY <1>1, <1>2 DEF Shapes, Shape
<1>4. /\ p.k \notin blame => Sound(p, job[w].robbed)
      /\ q.k \notin blame => Sound(q, job[w].robbed)
  BY <1>1, <1>2, HeldSound DEF Using
<1>5. Inside(p) /\ Inside(q)
  BY <1>4, SoundInside
<1>6. CASE Defect(p) # "" /\ Breaks(w, Defect(p), p.k)
  BY <1>1, <1>5, <1>6, UsesRaces
<1>7. CASE Defect(q) # "" /\ Breaks(w, Defect(q), q.k)
  BY <1>1, <1>5, <1>7, UsesRaces
<1>8. CASE /\ Breaks(w, "object", "canvas")
           /\ EntryAt(p).ptr = None \/ ~obj["canvas"][EntryAt(p).ptr].alive
  BY <1>1, <1>3, <1>4, <1>8, CallsRaces DEF EntryAt
<1>9. CASE /\ Breaks(w, "object", "sprite")
           /\ EntryAt(q).ptr = None \/ ~obj["sprite"][EntryAt(q).ptr].alive
  BY <1>1, <1>3, <1>4, <1>9, CallsRaces DEF EntryAt
<1>10. CASE fault' = fault
  BY <1>2, <1>10, RunsRaces
<1> QED
  BY <1>6, <1>7, <1>8, <1>9, <1>10 DEF Place, Uses, Calls

\* A canvas is shared too often only when another share came between.
LEMMA AppendRaces ==
    ASSUME Types, Shapes, Tables, NEW w \in Worker, AppendShared(w)
    PROVE  FaultsAreRaces'
<1> DEFINE p == job[w].p
<1>1. w \in Thread /\ p \in Pointer
  BY HeldSound DEF Thread
<1>2. fault = None /\ job[w].at = "append"
  BY DEF AppendShared, Ready
<1>3. p.k = "canvas" /\ "canvas" \in Kind
  BY <1>1, <1>2 DEF Shapes, Shape, Kind
<1>4. Inside(p)
  BY <1>1, <1>2, HeldSound, SoundInside DEF Using
<1>5. CASE Defect(p) # "" /\ Breaks(w, Defect(p), p.k)
  BY <1>1, <1>4, <1>5, UsesRaces
<1>6. CASE /\ Defect(p) = "" /\ EntryAt(p).shared >= MAX_CLIENTS
           /\ Breaks(w, "share", "canvas")
  <2>1. EntryAt(p).shared \in Nat /\ MAX_CLIENTS \in Nat
    BY <1>1, <1>6, DefectFree, TableConstants DEF Entry
  <2>2. ~(EntryAt(p).shared < MAX_CLIENTS)
    <3>1. \A m, n \in Nat : m >= n => ~(m < n)
      OBVIOUS
    <3> QED
      BY <1>6, <2>1, <3>1
  <2>3. "canvas" \in blame \/ job[w].robbed
    <3>1. "canvas" \notin blame => PointersOf(w, "canvas")
      BY <1>1, <1>3 DEF Tables, Clean, Pointers
    <3> QED
      BY <1>2, <1>3, <2>2, <3>1 DEF PointersOf, EntryAt
  <2> QED
    BY <1>6, <2>3, BreaksRaces DEF Excused
<1>7. CASE fault' = fault
  BY <1>2, <1>7, RunsRaces
<1> QED
  BY <1>5, <1>6, <1>7 DEF AppendShared, Uses

\* To grow an array that is being moved is to use a released one.
LEMMA GrowRaces ==
    ASSUME NEW w \in Worker, Grow(w)
    PROVE  FaultsAreRaces'
<1>1. CASE Breaks(w, "released", job[w].k)
  BY <1>1, BreaksRaces DEF Excused
<1>2. CASE fault = None /\ fault' = fault
  BY <1>2, RunsRaces
<1> QED
  BY <1>1, <1>2 DEF Grow, Ready

\* A new entry is inside the array, or the array is released.
LEMMA FillRaces ==
    ASSUME Types, Tables, NEW w \in Worker, Fill(w)
    PROVE  FaultsAreRaces'
<1> DEFINE k == job[w].k
           p == [k |-> k, g |-> table[k].arr, i |-> table[k].count]
<1>1. /\ w \in Thread /\ k \in Kind /\ table[k].arr \in Block
      /\ table[k].count \in Nat /\ table[k].cap \in Nat
      /\ Len(table[k].slot) = table[k].cap
  BY JobsType, TableType DEF Thread
<1>2. fault = None /\ job[w].at = "fill"
  BY DEF Fill, Ready
<1>3. CASE fault' = fault
  BY <1>2, <1>3, RunsRaces
<1>4. CASE Defect(p) \notin {"", "junk"} /\ Breaks(w, Defect(p), k)
  <2>1. CASE k \in blame
    BY <1>4, <2>1, BreaksRaces DEF Excused
  <2>2. CASE k \notin blame
    <3>1. Alone(k) /\ Array(k) /\ EnteredBy(w, k)
      BY <1>1, <2>2 DEF Tables, Clean, Entered
    <3>2. table[k].count < table[k].cap
      BY <1>2, <3>1 DEF EnteredBy
    <3>3. table[k].arr # "none"
      <4>1. SUFFICES ASSUME table[k].arr = "none" PROVE FALSE
        OBVIOUS
      <4>2. table[k].cap # 0
        BY <1>1, <3>2
      <4>3. PICK u \in Worker : job[u].at = "assign" /\ job[u].k = k
        BY <3>1, <4>1, <4>2 DEF Array
      <4>4. u = w
        BY <1>2, <3>1, <4>3 DEF Alone, Entering
      <4> QED
        BY <1>2, <4>3, <4>4
    <3>4. ~(table[k].count >= Len(table[k].slot))
      <4>1. \A m, n \in Nat : m < n => ~(m >= n)
        OBVIOUS
      <4> QED
        BY <1>1, <3>2, <4>1
    <3>5. Defect(p) = "released"
      BY <1>1, <1>4, <3>3, <3>4 DEF Defect, Block
    <3> QED
      BY <1>4, <3>5, BreaksRaces DEF Excused
  <2> QED
    BY <2>1, <2>2
<1> QED
  BY <1>3, <1>4 DEF Fill, NextId

\* The second lookup of a removal.
LEMMA RemoveRaces ==
    ASSUME Types, Shapes, Tables, NEW t \in Thread, Remove(t)
    PROVE  FaultsAreRaces'
<1> DEFINE e == Lookup(job[t].k, job[t].id)
           p == job[t].p
<1>1. /\ p \in Pointer /\ job[t].k \in Kind /\ job[t].id \in Int
  BY JobsType
<1>2. fault = None /\ job[t].at = "remove"
  BY DEF Remove, Ready
<1>3. /\ p.k = job[t].k /\ p.i = job[t].id
      /\ p.k \notin blame => Sound(p, job[t].robbed)
  BY <1>2, HeldSound DEF Shapes, Shape, Using
<1>4. CASE fault' = fault
  BY <1>2, <1>4, RunsRaces
<1>5. ASSUME ~IsNull(e)
      PROVE  e \in Pointer /\ e.k = p.k /\ e.i = p.i /\ Inside(e)
  BY <1>1, <1>3, <1>5, LookupInside, LookupIs
<1>6. CASE ~IsNull(e) /\ Defect(e) # "" /\ Breaks(t, Defect(e), e.k)
  <2> HIDE DEF e
  <2> QED
    BY <1>5, <1>6, UsesRaces
<1>7. CASE /\ ~IsNull(e) /\ Breaks(t, "object", job[t].k)
           /\ \/ EntryAt(e).ptr = None
              \/ ~obj[job[t].k][EntryAt(e).ptr].alive
  <2> HIDE DEF e
  <2>1. EntryAt(e).ptr = table[p.k].slot[p.i + 1].ptr
    BY <1>5, <1>7 DEF EntryAt
  <2> QED
    BY <1>1, <1>3, <1>7, <2>1, CallsRaces
<1> QED
  BY <1>4, <1>6, <1>7 DEF Remove, Uses, Calls

\* The pointer of a removal's second lookup.
LEMMA ClearInside ==
    ASSUME Types, Shapes, Tables, NEW t \in Thread, job[t].at = "clear",
           ~IsNull(job[t].q)
    PROVE  LET q == job[t].q IN q \in Pointer /\ q.k = job[t].k /\ Inside(q)
<1>1. job[t].q \in Pointer /\ job[t].q.k = job[t].k
  BY HeldSound DEF Shapes, Shape
<1>2. job[t].k \notin blame =>
        job[t].q.g # "none" /\ job[t].q.i < table[job[t].k].count
  BY HeldSound
<1> QED
  BY <1>1, <1>2 DEF Inside

\* The rest of a removal.
LEMMA ClearRaces ==
    ASSUME Types, Shapes, Tables, NEW w \in Worker, Clear(w)
    PROVE  FaultsAreRaces'
<1> DEFINE q == job[w].q
<1>1. fault = None /\ job[w].at = "clear" /\ w \in Thread
  BY DEF Clear, Ready, Thread
<1>2. CASE fault' = fault
  BY <1>1, <1>2, RunsRaces
<1>3. CASE ~IsNull(q) /\ Defect(q) # "" /\ Breaks(w, Defect(q), q.k)
  BY <1>1, <1>3, ClearInside, UsesRaces
<1> QED
  BY <1>2, <1>3 DEF Clear, Uses

\* The walk of client_markdead.
LEMMA TestRaces ==
    ASSUME Types, Shapes, Tables, Test
    PROVE  FaultsAreRaces'
<1> DEFINE i == job[Main]
           e == [k |-> i.k, g |-> table[i.k].arr, i |-> i.id]
<1>1. /\ fault = None /\ i.at = "test" /\ i.id < table[i.k].count
      /\ Main \in Thread
  BY DEF Test, Ready, InTable, Thread
<1>2. /\ i.k \in Kind /\ i.id \in Nat /\ table[i.k].count \in Nat
      /\ table[i.k].arr \in Block
  BY <1>1, JobsType, TableType DEF Shapes, Shape, Walking
<1>3. e \in Pointer /\ e.k = i.k
  BY <1>2 DEF Pointer
<1>4. Inside(e)
  <2>1. table[i.k].count # 0
    BY <1>1, <1>2
  <2>2. i.k \in blame \/ table[i.k].arr # "none"
    BY <1>2, <2>1 DEF Tables, Clean, Array
  <2> QED
    BY <1>1, <2>2 DEF Inside
<1>5. CASE fault' = fault
  BY <1>1, <1>5, RunsRaces
<1>6. CASE Defect(e) # "" /\ Breaks(Main, Defect(e), e.k)
  <2> HIDE DEF e
  <2> QED
    BY <1>3, <1>4, <1>6, UsesRaces
<1> QED
  BY <1>5, <1>6 DEF Test, Uses

\* The end of its removals.
LEMMA DisownRaces ==
    ASSUME Types, Shapes, Tables, Disown
    PROVE  FaultsAreRaces'
<1> DEFINE p == job[Main].p
           q == job[Main].q
<1>1. fault = None /\ job[Main].at = "clear" /\ Main \in Thread
  BY DEF Disown, Ready, Thread
<1>2. p \in Pointer /\ p.k = job[Main].k /\ Inside(p)
  <2>1. /\ p \in Pointer
        /\ job[Main].k \notin blame => Sound(p, TRUE)
    BY <1>1, HeldSound
  <2>2. p.k = job[Main].k
    BY <1>1 DEF Shapes, Shape
  <2> QED
    BY <2>1, <2>2, SoundInside
<1>3. CASE fault' = fault
  BY <1>1, <1>3, RunsRaces
<1>4. CASE ~IsNull(q) /\ Defect(q) # "" /\ Breaks(Main, Defect(q), job[Main].k)
  BY <1>1, <1>4, ClearInside, UsesRaces
<1>5. CASE Defect(p) # "" /\ Breaks(Main, Defect(p), p.k)
  BY <1>2, <1>5, UsesRaces
<1> QED
  BY <1>3, <1>4, <1>5 DEF Disown, Uses

\* Nobody's step breaks a rule of C that FaultsAreRaces does not excuse.
LEMMA StepRaces ==
    ASSUME Types, Shapes, Tables, Next
    PROVE  FaultsAreRaces'
<1>1. bound.pool \subseteq Worker /\ Worker \subseteq Thread /\ Main \in Thread
  BY BoundType DEF Thread
<1>2. CASE MainStep
  <2>1. CASE \E a \in Addr : Connect(a) \/ Release(a) \/ MarkDead(a)
    BY <2>1, RunsRaces DEF Connect, Release, MarkDead, Ready
  <2>2. CASE Walked \/ TablesDestroy
    BY <2>2, RunsRaces DEF Walked, TablesDestroy, Ready
  <2> QED
    BY <1>1, <1>2, <2>1, <2>2, TestRaces, RemoveRaces, DisownRaces DEF MainStep
<1>3. ASSUME NEW w \in bound.pool, Work(w) PROVE FaultsAreRaces'
  <2>1. w \in Worker /\ w \in Thread
    BY <1>1
  <2>2. CASE Insert(w) \/ GrowFails(w) \/ Assign(w) \/ Count(w)
    BY <2>2, RunsRaces DEF Insert, GrowFails, Assign, Count, Ready
  <2>3. CASE Task(w) \/ Grow(w) \/ Fill(w) \/ Remove(w) \/ Clear(w)
    BY <2>1, <2>3, TaskRaces, GrowRaces, FillRaces, RemoveRaces, ClearRaces
  <2> QED
    BY <1>3, <2>1, <2>2, <2>3, PlaceRaces, HandlerRaces, AppendRaces DEF Work
<1> QED
  BY <1>2, <1>3 DEF Next

-----------------------------------------------------------------------------
(* Every step *)

\* The inductive invariant but for FaultsAreRaces.
Good == Core /\ Tables /\ Ids

\* A step that gives no id and keeps the tables.
LEMMA GoodAfter ==
    ASSUME Good, Core', blame \subseteq blame', SameObjects,
           \A k \in Kind \ blame' : Clean(k) => Clean(k)'
    PROVE  Good'
<1>1. Tables'
  BY DEF Good, Tables
<1>2. ASSUME NEW k \in Kind \ blame' PROVE OneId(k)'
  <2>1. OneId(k)
    BY DEF Good, Ids
  <2> QED
    BY <2>1 DEF SameObjects, OneId
<1> QED
  BY <1>1, <1>2 DEF Good, Ids

\* Objects that do not change keep makers and ids.
LEMMA ObjectsSame == ASSUME UNCHANGED obj PROVE SameObjects
  BY DEF SameObjects

\* The steps, one by one, keep what is good.
LEMMA StopsGood == ASSUME Good, Stops PROVE Good'
<1>1. UNCHANGED <<blame, obj>>
  BY DEF Stops, JobOnly
<1> QED
  BY <1>1, StopsKept, GoodAfter, ObjectsSame DEF Good

\* Lookups.
LEMMA LooksGood ==
    ASSUME Good, NEW w \in Worker, Looks(w), job[Main].at # "done"
    PROVE  Good'
<1>1. UNCHANGED <<blame, obj>>
  BY DEF Looks, JobOnly
<1>2. Core'
  BY LooksCore DEF Good
<1>3. \A k \in Kind : Clean(k) => Clean(k)'
  BY LooksClean DEF Good, Core
<1> QED
  BY <1>1, <1>2, <1>3, GoodAfter, ObjectsSame

\* New objects, which have no id yet.
LEMMA CreatesGood ==
    ASSUME Good, NEW w \in Worker, Creates(w), job[Main].at # "done"
    PROVE  Good'
<1>0. Types /\ Sessions
  BY DEF Good, Core
<1>1. Core'
  BY CreatesCore DEF Good
<1>2. \A k \in Kind : Clean(k) => Clean(k)'
  BY <1>1, CreatesClean DEF Good, Core
<1>3. UNCHANGED blame
  BY DEF Creates
<1>4. Tables'
  BY <1>2, <1>3 DEF Good, Tables
<1>5. ASSUME NEW k \in Kind \ blame' PROVE OneId(k)'
  <2>1. OneId(k)
    BY <1>3 DEF Good, Ids
  <2> DEFINE n == Len(obj[k]) + 1
  <2>2. CASE k = job'[w].k
    <3>1. /\ DOMAIN obj'[k] = DOMAIN obj[k] \cup {n}
          /\ \A x \in DOMAIN obj[k] : obj'[k][x] = obj[k][x]
          /\ obj'[k][n].id = None
      BY <1>0, <2>2, CreatesObjects
    <3> QED
      BY <2>1, <3>1 DEF OneId
  <2>3. CASE k # job'[w].k
    <3>1. obj'[k] = obj[k]
      BY <1>0, <2>3, CreatesObjects
    <3> QED
      BY <2>1, <3>1 DEF OneId
  <2> QED
    BY <2>2, <2>3
<1> QED
  BY <1>1, <1>4, <1>5 DEF Good, Ids

\* The id of a new entry is the count: no other object has it.
LEMMA FillGood ==
    ASSUME Good, NEW w \in Worker, Fill(w), ~Stops
    PROVE  Good'
<1>0. Types /\ Shapes /\ Core
  BY DEF Good, Core
<1>1. Core'
  BY FillCore DEF Good
<1>2. \A k \in Kind : Clean(k) => Clean(k)'
  BY <1>0, <1>1, FillClean
<1> DEFINE m == job[w].k
           x == job[w].o
           n == table[m].count
<1>3. /\ job[w].at = "fill" /\ m \in Kind /\ n \in Nat
      /\ Names(m, x, n) /\ UNCHANGED blame
  BY <1>0, FillFacts
<1>4. Tables'
  BY <1>2, <1>3 DEF Good, Tables
<1>5. ASSUME NEW k \in Kind \ blame' PROVE OneId(k)'
  <2>1. OneId(k) /\ Clean(k)
    BY <1>3 DEF Good, Ids, Tables
  <2>2. CASE k # m
    BY <1>3, <2>1, <2>2 DEF Names, OneId
  <2>3. CASE k = m
    <3>1. ASSUME NEW z \in DOMAIN obj[k], z # x PROVE obj[k][z].id # n
      <4>1. SUFFICES ASSUME obj[k][z].id = n PROVE FALSE
        OBVIOUS
      <4>2. n # None
        BY <1>3, PointerConstants
      <4>3. ~(obj[k][z].id < table[k].count)
        BY <1>3, <2>3, <4>1
      <4>4. PICK u \in Worker : job[u].at = "count" /\ job[u].k = k
        BY <2>1, <4>1, <4>2, <4>3 DEF Clean, NamedOnce
      <4>5. u = w
        BY <1>3, <2>1, <2>3, <4>4 DEF Clean, Alone, Entering
      <4> QED
        BY <1>3, <4>4, <4>5
    <3>2. /\ DOMAIN obj'[k] = DOMAIN obj[k] /\ obj'[k][x].id = n
          /\ \A y \in DOMAIN obj[k] : y # x => obj'[k][y] = obj[k][y]
      BY <1>3, <2>3 DEF Names
    <3> HIDE DEF n, x
    <3> QED
      BY <2>1, <3>1, <3>2 DEF OneId
  <2> QED
    BY <2>2, <2>3
<1> QED
  BY <1>1, <1>4, <1>5 DEF Good, Ids

\* Removals, of a worker or of main.
LEMMA RemoveGood ==
    ASSUME Good, NEW t \in Thread, Remove(t), ~Stops
    PROVE  Good'
<1>0. Types /\ Core
  BY DEF Good, Core
<1>1. Core' /\ SameObjects /\ UNCHANGED blame
  BY <1>0, RemoveCore, RemoveFacts
<1>2. \A k \in Kind : Clean(k) => Clean(k)'
  BY <1>0, <1>1, RemoveClean
<1> QED
  BY <1>1, <1>2, GoodAfter

\* The steps of an insertion but the writing of the entry.
LEMMA InsertionGood ==
    ASSUME Good, NEW w \in Worker, ~Stops,
           Insert(w) \/ Grow(w) \/ GrowFails(w) \/ Assign(w) \/ Count(w)
    PROVE  Good'
<1>0. Types /\ Shapes /\ Core
  BY DEF Good, Core
<1>1. CASE Insert(w)
  <2>1. Core' /\ SameObjects /\ blame \subseteq blame'
    BY <1>0, <1>1, InsertCore, InsertFacts, ObjectsSame
  <2>2. \A k \in Kind \ blame' : Clean(k) => Clean(k)'
    BY <1>0, <1>1, <2>1, InsertClean
  <2> QED
    BY <2>1, <2>2, GoodAfter
<1>2. CASE Grow(w)
  <2>1. Core' /\ SameObjects /\ blame \subseteq blame'
    BY <1>0, <1>2, GrowCore, GrowFacts, ObjectsSame
  <2>2. \A k \in Kind : Clean(k) => Clean(k)'
    BY <1>0, <1>2, <2>1, GrowClean
  <2> QED
    BY <2>1, <2>2, GoodAfter
<1>3. CASE GrowFails(w)
  <2>1. Core' /\ SameObjects /\ blame \subseteq blame'
    BY <1>0, <1>3, GrowFailsCore, GrowFailsFacts
  <2>2. \A k \in Kind \ blame' : Clean(k) => Clean(k)'
    BY <1>0, <1>3, <2>1, GrowFailsClean
  <2> QED
    BY <2>1, <2>2, GoodAfter
<1>4. CASE Assign(w)
  <2>1. Core' /\ SameObjects /\ blame \subseteq blame'
    BY <1>0, <1>4, AssignCore, AssignFacts, ObjectsSame
  <2>2. \A k \in Kind : Clean(k) => Clean(k)'
    BY <1>0, <1>4, <2>1, AssignClean
  <2> QED
    BY <2>1, <2>2, GoodAfter
<1>5. CASE Count(w)
  <2>1. Core' /\ SameObjects /\ blame \subseteq blame'
    BY <1>0, <1>5, CountCore, CountFacts
  <2>2. \A k \in Kind : Clean(k) => Clean(k)'
    BY <1>0, <1>5, <2>1, CountClean
  <2> QED
    BY <2>1, <2>2, GoodAfter
<1> QED
  BY <1>1, <1>2, <1>3, <1>4, <1>5

\* All steps of a worker.
LEMMA WorkGood == ASSUME Good, NEW w \in Worker, Work(w) PROVE Good'
<1>0. Types /\ Shapes /\ Core /\ w \in Thread
  BY DEF Good, Core, Thread
<1>1. CASE Stops
  BY <1>1, StopsGood
<1>2. CASE ~Stops
  <2>1. ASSUME job[Main].at # "done", Looks(w) \/ Creates(w) PROVE Good'
    BY <2>1, LooksGood, CreatesGood
  <2>2. CASE job[Main].at # "done" /\ Task(w)
    BY <1>0, <1>2, <2>1, <2>2, TaskCases
  <2>3. CASE \/ Place(w) \/ Adjust(w) \/ NoDataFile(w) \/ Frame(w)
             \/ Film(w) \/ Target(w)
    <3>1. job[w].at # "idle"
      BY <2>3 DEF Place, Adjust, NoDataFile, Frame, Film, Target, Ready
    <3>2. job[Main].at # "done"
      BY <1>0, <3>1, MainRuns
    <3> QED
      BY <1>0, <1>2, <2>1, <2>3, <3>2, HandlerCases, PlaceCases
  <2>4. CASE Clear(w)
    <3>1. Core' /\ SameObjects /\ blame \subseteq blame'
      BY <1>0, <1>2, <2>4, ClearCore, ClearFacts, ObjectsSame
    <3>2. \A k \in Kind : Clean(k) => Clean(k)'
      BY <1>0, <1>2, <2>4, <3>1, ClearClean
    <3> QED
      BY <3>1, <3>2, GoodAfter
  <2>5. CASE AppendShared(w)
    <3>1. Core' /\ SameObjects /\ blame \subseteq blame'
      BY <1>0, <1>2, <2>5, AppendCore, AppendFacts, ObjectsSame
    <3>2. \A k \in Kind : Clean(k) => Clean(k)'
      BY <1>0, <1>2, <2>5, <3>1, AppendClean
    <3> QED
      BY <3>1, <3>2, GoodAfter
  <2>6. CASE \/ Insert(w) \/ Grow(w) \/ GrowFails(w) \/ Assign(w) \/ Count(w)
             \/ Fill(w) \/ Remove(w)
    BY <1>0, <1>2, <2>6, InsertionGood, FillGood, RemoveGood
  <2> QED
    BY <2>2, <2>3, <2>4, <2>5, <2>6 DEF Work
<1> QED
  BY <1>1, <1>2

\* All steps of the main thread.
LEMMA MainGood == ASSUME Good, MainStep PROVE Good'
<1>0. Types /\ Shapes /\ Core /\ Main \in Thread
  BY DEF Good, Core, Thread
<1>1. CASE Stops
  BY <1>1, StopsGood
<1>2. ASSUME Core', UNCHANGED <<blame, obj>>,
             \A k \in Kind : Clean(k) => Clean(k)'
      PROVE  Good'
  BY <1>2, GoodAfter, ObjectsSame
<1>3. ASSUME NEW a \in Addr, Connect(a) PROVE Good'
  <2>1. Core' /\ UNCHANGED <<blame, obj>>
    BY <1>0, <1>3, ConnectCore DEF Connect
  <2> QED
    BY <1>0, <1>2, <1>3, <2>1, ConnectClean
<1>4. ASSUME NEW a \in Addr, Release(a) PROVE Good'
  <2>1. Core' /\ UNCHANGED <<blame, obj>>
    BY <1>0, <1>4, ReleaseCore DEF Release
  <2> QED
    BY <1>0, <1>2, <1>4, <2>1, ReleaseClean
<1>5. ASSUME NEW a \in Addr, MarkDead(a) PROVE Good'
  <2>1. Core' /\ UNCHANGED <<blame, obj>>
    BY <1>0, <1>5, MarkDeadCore DEF MarkDead
  <2> QED
    BY <1>0, <1>2, <1>5, <2>1, MarkDeadClean
<1>6. CASE ~Stops /\ Test
  <2>1. Core' /\ UNCHANGED <<blame, obj>>
    BY <1>0, <1>6, TestCore, TestFacts
  <2> QED
    BY <1>0, <1>2, <1>6, <2>1, TestClean
<1>7. CASE ~Stops /\ Disown
  <2>1. Core' /\ UNCHANGED <<blame, obj>>
    BY <1>0, <1>7, DisownCore, DisownFacts
  <2> QED
    BY <1>0, <1>2, <1>7, <2>1, DisownClean
<1>8. CASE Walked
  <2>1. Core' /\ UNCHANGED <<blame, obj>>
    BY <1>0, <1>8, WalkedCore DEF Walked
  <2> QED
    BY <1>0, <1>2, <1>8, <2>1, WalkedClean
<1>9. CASE TablesDestroy
  <2>1. Core' /\ UNCHANGED <<blame, obj>>
    BY <1>0, <1>9, DestroyCore DEF TablesDestroy
  <2> QED
    BY <1>0, <1>2, <1>9, <2>1, DestroyClean
<1> QED
  BY <1>0, <1>1, <1>3, <1>4, <1>5, <1>6, <1>7, <1>8, <1>9, RemoveGood
     DEF MainStep

\* No step.
LEMMA VarsGood == ASSUME Good, UNCHANGED vars PROVE Good'
  BY StopsGood DEF vars, clientVars, Stops, JobOnly

\* tables_init.
LEMMA InitGood == ASSUME Init PROVE Good
<1>1. Idle \in Job /\ Idle.at = "idle" /\ Idle.a = None
  BY IdleType
<1>2. \A t \in Thread : job[t] = Idle
  BY DEF Init
<1>3. /\ \A k \in Kind : obj[k] = <<>> /\ DOMAIN obj[k] = {}
      /\ \A k \in Kind : /\ table[k].arr = "none" /\ table[k].count = 0
                         /\ table[k].cap = 0 /\ table[k].slot = <<>>
      /\ dead = {} /\ blame = {} /\ born = 0
      /\ \A a \in Addr : session[a] = 0
  BY DEF Init
<1>4. Types
  <2>1. bound \in Instance /\ bound.sessions \in Nat
    BY TableConstants DEF Init
  <2>2. session \in [Addr -> 0..bound.sessions] /\ born \in 0..bound.sessions
    BY <2>1 DEF Init
  <2>3. obj \in [Kind -> Seq(Object)]
    BY DEF Init
  <2>4. [arr |-> "none", count |-> 0, cap |-> 0, slot |-> <<>>] \in Table
    BY DEF Table, Block
  <2>5. table \in [Kind -> Table] /\ job \in [Thread -> Job]
    BY <1>1, <2>4 DEF Init
  <2> QED
    BY <1>3, <2>1, <2>2, <2>3, <2>5 DEF Types
<1>5. Sessions /\ Apart
  BY <1>1, <1>2, <1>3 DEF Sessions, Apart, Making, Thread
<1>6. Shapes
  BY <1>1, <1>2 DEF Shapes, Shape, Making, Nameless, Walking
<1>7. ASSUME NEW k \in Kind PROVE Clean(k) /\ OneId(k)
  <2>0. 1..0 = {}
    OBVIOUS
  <2>1. Alone(k) /\ Entered(k) /\ Removing(k)
    BY <1>1, <1>2
       DEF Alone, Entered, EnteredBy, Removing, RemovedBy, Entering, Making, Thread
  <2>2. Array(k)
    BY <1>3, <2>0 DEF Array
  <2>3. NamedOnce(k) /\ Living(k) /\ OneId(k)
    BY <1>3, <2>0 DEF NamedOnce, Living, OneId
  <2>4. Pointers(k)
    BY <1>1, <1>2 DEF Pointers, PointersOf, Using
  <2>5. Owners(k)
    BY <1>1, <1>2, <1>3, <2>0 DEF Owners, Thread
  <2> QED
    BY <2>1, <2>2, <2>3, <2>4, <2>5 DEF Clean
<1> QED
  BY <1>4, <1>5, <1>6, <1>7 DEF Good, Core, Tables, Ids

-----------------------------------------------------------------------------
(* The theorems *)

\* Whatever the workers, the clients and the allocator do, a table that has
\* never taken two insertions at once or lost its array keeps its objects,
\* entries, counts and owners in agreement.
THEOREM Invariance == Spec => []IInv
<1>1. Init => IInv
  <2> SUFFICES ASSUME Init PROVE IInv
    OBVIOUS
  <2>1. FaultsAreRaces
    BY DEF Init, FaultsAreRaces
  <2> QED
    BY <2>1, InitGood DEF IInv, Good, Core
<1>2. IInv /\ [Next]_vars => IInv'
  <2> SUFFICES ASSUME IInv, [Next]_vars PROVE IInv'
    OBVIOUS
  <2>1. Good /\ Types /\ Shapes /\ Tables /\ FaultsAreRaces
    BY DEF IInv, Good, Core
  <2>2. CASE Next
    <3>1. Good'
      <4>1. bound.pool \subseteq Worker
        BY <2>1, BoundType
      <4> QED
        BY <2>1, <2>2, <4>1, WorkGood, MainGood DEF Next
    <3> QED
      BY <2>1, <2>2, <3>1, StepRaces DEF IInv, Good, Core
  <2>3. CASE UNCHANGED vars
    <3>1. Good'
      BY <2>1, <2>3, VarsGood
    <3>2. FaultsAreRaces'
      BY <2>1, <2>3 DEF vars, FaultsAreRaces
    <3> QED
      BY <3>1, <3>2 DEF IInv, Good, Core
  <2> QED
    BY <2>2, <2>3
<1> QED
  BY <1>1, <1>2, PTL DEF Spec

\* Every undefined access is another thread's doing: of the one that moved or
\* freed an array, destroyed an object, or met this one in an insertion.
THEOREM FaultsRaces == Spec => []FaultsAreRaces
<1>1. IInv => FaultsAreRaces
  BY DEF IInv
<1> QED
  BY <1>1, Invariance, PTL

\* What the entry of an object is, in a table that is not to blame.
LEMMA EntryFound ==
    ASSUME Types, NEW k \in Kind, Clean(k), NEW x \in DOMAIN obj[k],
           obj[k][x].id # None
    PROVE  /\ EntryOf(k, x) # Junk /\ EntryOf(k, x).ptr \in {x, None}
           /\ \/ obj[k][x].id + 1 \in 1..table[k].count
              \/ \E w \in Worker : job[w].at = "count" /\ job[w].k = k
                                       /\ job[w].o = x
<1>1. /\ table[k].count \in Nat /\ obj[k][x] \in Object
  BY TableType
<1>2. obj[k][x].id \in Nat
  BY <1>1 DEF Object
<1>3. EntryOf(k, x).ptr \in {x, None}
  BY DEF Clean, NamedOnce
<1>4. CASE obj[k][x].id < table[k].count
  <2>1. obj[k][x].id + 1 \in 1..table[k].count
    BY <1>1, <1>2, <1>4, IndexOf
  <2> QED
    BY <1>3, <2>1 DEF Clean, Array, EntryOf
<1>5. ASSUME NEW w \in Worker, job[w].at = "count", job[w].k = k, job[w].o = x
      PROVE  EntryOf(k, x) # Junk
  <2>1. EnteredBy(w, k)
    BY DEF Clean, Entered
  <2> QED
    BY <1>5, <2>1 DEF EnteredBy, EntryOf
<1>6. \/ obj[k][x].id < table[k].count
      \/ \E w \in Worker : job[w].at = "count" /\ job[w].k = k
                               /\ job[w].o = x
  BY DEF Clean, NamedOnce
<1> QED
  BY <1>3, <1>4, <1>5, <1>6

\* No object that lives is forgotten, whichever handler fails at which step.
THEOREM NothingLeaked == Spec => []NothingLeaks
<1>1. IInv => NothingLeaks
  <2> SUFFICES ASSUME IInv, NEW k \in Kind \ blame, NEW x \in DOMAIN obj[k],
                      obj[k][x].alive
               PROVE  \/ x \in Named(k)
                      \/ \E w \in Worker : job[w].k = k /\ job[w].o = x
                           /\ job[w].at \in
                                {"insert", "grow", "assign", "fill", "count"}
    BY DEF NothingLeaks
  <2>1. Types /\ Clean(k)
    BY DEF IInv, Tables
  <2>2. CASE obj[k][x].id = None
    BY <2>1, <2>2 DEF Clean, Living, Nameless
  <2>3. CASE obj[k][x].id # None
    <3>1. EntryOf(k, x).ptr = x
      BY <2>1, <2>3 DEF Clean, Living
    <3>2. CASE obj[k][x].id + 1 \in 1..table[k].count
      <4>1. EntryOf(k, x) # Junk
        BY <2>1, <2>3, EntryFound
      <4>2. x # None
        <5>1. DOMAIN obj[k] = 1..Len(obj[k]) /\ Len(obj[k]) \in Nat
          BY <2>1, TableType
        <5>2. x \in Nat
          BY <5>1
        <5> QED
          BY <5>2, PointerConstants
      <4> QED
        BY <3>1, <3>2, <4>1, <4>2 DEF Named, EntryOf
    <3> QED
      BY <2>1, <2>3, <3>2, EntryFound
  <2> QED
    BY <2>2, <2>3
<1> QED
  BY <1>1, Invariance, PTL

\* An id names one object for good, through every growth of the table.
THEOREM IdsCorrect == Spec => []IdsNameOne
<1>1. IInv => IdsNameOne
  <2> SUFFICES ASSUME IInv PROVE IdsNameOne
    OBVIOUS
  <2>1. Types
    BY DEF IInv
  <2>2. TypeOK
    <3>1. ASSUME NEW k \in Kind
          PROVE  /\ table[k].count \in Nat /\ table[k].cap \in Nat
                 /\ table[k].arr \in Block
                 /\ table[k].slot \in Seq(Entry \cup {Junk})
                 /\ Len(table[k].slot) = table[k].cap
      BY <2>1 DEF Types, Table
    <3>2. ASSUME NEW t \in Thread
          PROVE  /\ job[t].at \in At /\ job[t].a \in Addr \cup {None}
                 /\ job[t].k \in Kind /\ job[t].id \in Int
                 /\ job[t].o \in Nat \cup {None} /\ job[t].robbed \in BOOLEAN
                 /\ {job[t].p, job[t].q} \subseteq Pointer
      <4>1. job[t] \in Job
        BY <2>1 DEF Types
      <4> QED
        BY <4>1 DEF Job
    <3> QED
      BY <2>1, <3>1, <3>2 DEF Types, TypeOK
  <2>3. ASSUME NEW k \in Kind \ blame, NEW x \in DOMAIN obj[k],
               obj[k][x].id # None
        PROVE  /\ \A y \in DOMAIN obj[k] : obj[k][y].id = obj[k][x].id => x = y
               /\ table[k].slot[obj[k][x].id + 1] # Junk
               /\ table[k].slot[obj[k][x].id + 1].ptr \in {x, None}
    <3>1. Clean(k) /\ OneId(k)
      BY DEF IInv, Tables, Ids
    <3>2. \A y \in DOMAIN obj[k] : obj[k][y].id = obj[k][x].id => x = y
      BY <2>3, <3>1 DEF OneId
    <3> QED
      BY <2>1, <2>3, <3>1, <3>2, EntryFound DEF EntryOf
  <2> QED
    BY <2>2, <2>3 DEF IdsNameOne
<1> QED
  BY <1>1, Invariance, PTL

\* The walk of a removal leaves what was entered while it went on, no more.
THEOREM OnlyLateStay == Spec => []OnlyLateObjectsStay
<1>1. IInv => OnlyLateObjectsStay
  <2> SUFFICES ASSUME IInv, NEW k \in Kind \ blame, NEW x \in Named(k),
                      Over(obj[k][x].by)
               PROVE  obj[k][x].late
    BY DEF OnlyLateObjectsStay
  <2>1. Owners(k)
    BY DEF IInv, Tables, Clean
  <2>2. PICK i \in 1..table[k].count :
          table[k].slot[i].ptr = x /\ x # None
    BY DEF Named
  <2>3. CASE \A a \in Addr : obj[k][x].by # session[a]
    BY <2>1, <2>2, <2>3 DEF Owners
  <2>4. ASSUME NEW a \in Addr, obj[k][x].by = session[a]
        PROVE  obj[k][x].late
    <3>1. a \in dead /\ job[Main].a # a
      BY <2>4 DEF Over
    <3>2. Passed(a, k, i - 1)
      BY <3>1 DEF Passed
    <3> QED
      BY <2>1, <2>2, <2>4, <3>2 DEF Owners
  <2> QED
    BY <2>3, <2>4
<1> QED
  BY <1>1, Invariance, PTL

\* A worker leaves the main thread where it is.
LEMMA MainStays ==
    ASSUME Types, Shapes, NEW w \in Worker, Work(w)
    PROVE  job'[Main].at = job[Main].at
<1>1. Main \in Thread /\ w \in Thread /\ w # Main /\ job \in [Thread -> Job]
  BY TableConstants DEF Thread, Types
<1>2. ASSUME NEW j, job' = [job EXCEPT ![w] = j]
      PROVE  job'[Main].at = job[Main].at
  BY <1>1, <1>2
<1>3. CASE Stops \/ Looks(w) \/ Creates(w)
  BY <1>2, <1>3 DEF Stops, Looks, Creates
<1>4. CASE Task(w)
  BY <1>3, <1>4, TaskCases
<1>5. CASE \/ Place(w) \/ Adjust(w) \/ NoDataFile(w) \/ Frame(w)
           \/ Film(w) \/ Target(w)
  BY <1>3, <1>5, PlaceCases, HandlerCases
<1>6. CASE Insert(w) \/ GrowFails(w) \/ Assign(w) \/ Count(w)
  BY <1>2, <1>6 DEF Insert, GrowFails, Assign, Count, Answers, Becomes
<1>7. CASE Grow(w)
  BY <1>1, <1>3, <1>7, GrowFacts DEF Others, Kept
<1>8. CASE Fill(w)
  BY <1>2, <1>3, <1>8, FillFacts
<1>9. CASE Remove(w)
  BY <1>1, <1>3, <1>9, RemoveFacts, ZenonT(60) DEF Others, Kept
<1>10. CASE Clear(w)
  BY <1>2, <1>3, <1>10, ClearFacts
<1>11. CASE AppendShared(w)
  BY <1>1, <1>3, <1>11, AppendFacts DEF Others, Kept
<1> QED
  BY <1>4, <1>5, <1>6, <1>7, <1>8, <1>9, <1>10, <1>11 DEF Work

\* What a removal by the main thread destroys is its client's.
LEMMA RemovesOwn ==
    ASSUME IInv, Remove(Main), ~Stops, job[Main].k \notin blame,
           NEW x \in DOMAIN obj[job[Main].k], obj[job[Main].k][x].alive,
           ~obj'[job[Main].k][x].alive
    PROVE  LET by == obj[job[Main].k][x].by IN
           by = session[job[Main].a] \/ Over(by)
<1> DEFINE k == job[Main].k
           n == job[Main].id
           e == Lookup(k, n)
           z == table[k].slot[n + 1].ptr
<1>0. Types /\ Shapes /\ Main \in Thread
  BY DEF IInv, Thread
<1>1. k \in Kind /\ n \in Int /\ table[k].count \in Nat
  BY <1>0, JobsType, TableType
<1>2. Clean(k) /\ job[Main].at = "remove"
  BY <1>1 DEF IInv, Tables, Remove, Ready
<1>3. n \in 0..table[k].count - 1
  BY <1>0, <1>2 DEF Clean, Removing, RemovedBy
<1>4. n + 1 \in 1..table[k].count
  BY <1>1, <1>3
<1>5. e \in Pointer /\ e.k = k /\ e.i = n
  BY <1>0, <1>1, <1>3, LookupIs
<1>6. EntryAt(e).ptr = z
  BY <1>5 DEF EntryAt
<1>7. /\ IsNull(e) => obj' = obj
      /\ ~IsNull(e) => z # None /\ (z \in DOMAIN obj[k] => Kills(k, z))
  <2>1. IsNull(e) => obj' = obj
    BY BreaksStops DEF Remove, Uses
  <2> QED
    BY <1>0, <1>6, <2>1, RemoveFacts
<1>8. ~IsNull(e)
  <2>1. obj' # obj
    OBVIOUS
  <2> QED
    BY <1>7, <2>1
<1>9. z # None /\ z \in DOMAIN obj[k] /\ Kills(k, z)
  BY <1>2, <1>4, <1>7, <1>8 DEF Clean, NamedOnce
<1>10. z = x
  <2> HIDE DEF z
  <2> QED
    BY <1>9 DEF Kills
<1>11. table[k].slot[n + 1].owner = job[Main].a
  BY <1>2 DEF Clean, Owners
<1>12. ASSUME NEW a \in Addr, obj[k][x].by = session[a]
       PROVE  a = job[Main].a
  BY <1>2, <1>4, <1>9, <1>10, <1>11, <1>12 DEF Clean, Owners
<1> QED
  BY <1>12 DEF Over

\* A removal destroys nothing of another client, nor of a later one at the
\* same address.
THEOREM OthersSpared == Spec => RemovalSparesOthers
<1>1. ASSUME IInv, Next, Ready(Main, "remove"), job'[Main].at = "clear",
             job[Main].k \notin blame, NEW x \in DOMAIN obj[job[Main].k],
             obj[job[Main].k][x].alive, ~obj'[job[Main].k][x].alive
      PROVE  \/ obj[job[Main].k][x].by = session[job[Main].a]
             \/ Over(obj[job[Main].k][x].by)
  <2>0. Types /\ Shapes /\ bound.pool \subseteq Worker
    BY <1>1, BoundType DEF IInv
  <2>1. job[Main].at = "remove" /\ job'[Main].at # job[Main].at
    BY <1>1 DEF Ready
  <2>2. \A w \in bound.pool : ~Work(w)
    BY <2>0, <2>1, MainStays
  <2>3. Remove(Main)
    BY <1>1, <2>1, <2>2 DEF Next, MainStep, Connect, Release, MarkDead, Test,
       Disown, Walked, TablesDestroy, Ready
  <2>4. ~Stops
    BY <2>1 DEF Stops
  <2> QED
    BY <1>1, <2>3, <2>4, RemovesOwn
<1>2. IInv /\ [Next]_vars =>
        [Ready(Main, "remove") /\ job'[Main].at = "clear" =>
           LET k == job[Main].k IN
           k \in blame \/ \A o \in DOMAIN obj[k] :
             obj[k][o].alive /\ ~obj'[k][o].alive =>
               obj[k][o].by = session[job[Main].a] \/ Over(obj[k][o].by)]_vars
  BY <1>1
<1> QED
  BY <1>2, Invariance, PTL DEF Spec, RemovalSparesOthers


=============================================================================
