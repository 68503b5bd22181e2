---------------------------- MODULE ObjectTables ----------------------------
(***************************************************************************)
(* The three object tables of the server (object_table.c), the RPC bodies  *)
(* of the workers that insert into them, look objects up and remove them   *)
(* (threadpool.c), and client_markdead, with which the main thread walks   *)
(* the same tables when a client leaves (client_registry.c).               *)
(*                                                                         *)
(* Nothing locks a table.  A step of a thread is one access to a table or  *)
(* one call of the animation library; between two of them every other      *)
(* thread may do anything.  Objects are numbered as the library makes      *)
(* them.  A pointer to an entry remembers whether the array it points into *)
(* is still the one the table uses.  The first access that C does not      *)
(* define is recorded in fault, and nothing is said about what the process *)
(* does after it.                                                          *)
(***************************************************************************)
EXTENDS Integers, Sequences, FiniteSets, FiniteSetsExt

CONSTANTS
    Addr,           \* addresses malloc can give an ActiveClient
    Worker,         \* the threads of the pool
    Main,           \* the main thread
    None,           \* a NULL pointer, no fault
    Junk,           \* what memory holds before anything is written to it
    Instance,       \* the instances to look at: how many threads there are,
                    \* clients that ever connect, objects that are ever
                    \* made, and whether realloc may return NULL
    INITIAL_CAPACITY, MAX_CLIENTS,
    Span            \* how many values an int has, 2^32 in the code

Kind == {"canvas", "sprite", "placement"}
Thread == Worker \cup {Main}

ASSUME TableConstants ==
    /\ IsFiniteSet(Addr) /\ IsFiniteSet(Worker) /\ Main \notin Worker
    /\ Instance \subseteq [pool : SUBSET Worker, sessions : Nat,
                           objects : [Kind -> Nat], growMayFail : BOOLEAN]
    /\ INITIAL_CAPACITY \in Nat \ {0} /\ MAX_CLIENTS \in Nat \ {0}
    /\ Span \in Nat /\ Span % 2 = 0
    /\ \A i \in Instance, k \in Kind : Span > 2 * (i.objects[k] + 1)

VARIABLES
    bound,      \* the instance of this behaviour
    session,    \* the client at each address, 0 when there is none
    dead,       \* the addresses whose client has been marked dead
    born,       \* clients that have connected so far
    obj,        \* the objects of the library, in the order they were made
    table,      \* CANVAS_TABLE, SPRITE_TABLE, PLACEMENT_TABLE
    job,        \* what each thread is doing
    fault,      \* the first undefined access, None before it
    blame       \* tables that forgot their array or met two inserts at once

clientVars == <<bound, session, dead, born>>
vars == <<bound, session, dead, born, obj, table, job, fault, blame>>
-----------------------------------------------------------------------------
Id == 0..Max({bound.objects[k] : k \in Kind}) - 1

\* The numbers a request may hold: too small, an id, and too large for an int.
Arg == {-1} \cup Id \cup {Span}

\* parse_int and the test that the value is an int, where a handler has one.
InRange == {n \in Arg : 0 <= n /\ n < Span \div 2}

\* The conversion of a long to the int that a lookup takes.
IntOf(n) == ((n + Span \div 2) % Span) - Span \div 2

\* An array and an index.  The array is the table's present block, one that
\* realloc has released, or none; entry 0 of no array is at address NULL.
Block == {"present", "released", "none"}
Pointer == [k : Kind, g : Block, i : Nat]
Null == [k |-> "canvas", g |-> "none", i |-> 0]

\* by: the client whose task made it; id: what it was entered as, None
\* before; late: its task was not done when its client had been marked dead.
Object == [by : Nat \ {0}, alive : BOOLEAN, id : Nat \cup {None},
           late : BOOLEAN]

\* ptr is the number of an object of the table's kind.
Entry == [ptr : Nat \cup {None}, owner : Addr \cup {None}, shared : Nat]

\* NULL is no object, no address and no id, and what malloc leaves in memory is
\* told apart from entries.
ASSUME PointerConstants == None \notin Nat \cup Addr /\ Junk \notin Entry

At == {"idle", "insert", "grow", "assign", "fill", "count", "remove", "clear",
       "place", "adjust", "frame", "film", "target", "append",
       "test", "done"}

\* at: the next step; a: the client; k: the table; id: the id asked for (as
\* an int) or given; o: the object in hand; p, q: pointers to entries; robbed: since it
\* looked at an entry, another thread has destroyed the object or shared the
\* canvas it found there (for the properties only).
Idle == [at |-> "idle", a |-> None, k |-> "canvas", id |-> 0, o |-> None,
         p |-> Null, q |-> Null, robbed |-> FALSE]

TypeOK ==
    /\ bound \in Instance
    /\ session \in [Addr -> 0..bound.sessions] /\ dead \subseteq Addr
    /\ born \in 0..bound.sessions
    /\ obj \in [Kind -> Seq(Object)]
    /\ \A k \in Kind :
         /\ table[k].count \in Nat /\ table[k].cap \in Nat
         /\ table[k].arr \in Block
         /\ table[k].slot \in Seq(Entry \cup {Junk})
         /\ Len(table[k].slot) = table[k].cap
    /\ \A t \in Thread :
         /\ job[t].at \in At /\ job[t].a \in Addr \cup {None}
         /\ job[t].k \in Kind /\ job[t].id \in Int
         /\ job[t].o \in Nat \cup {None} /\ job[t].robbed \in BOOLEAN
         /\ {job[t].p, job[t].q} \subseteq Pointer

\* tables_init.
Init ==
    /\ bound \in Instance
    /\ session = [a \in Addr |-> 0] /\ dead = {} /\ born = 0
    /\ obj = [k \in Kind |-> <<>>]
    /\ table = [k \in Kind |-> [arr |-> "none", count |-> 0, cap |-> 0,
                                slot |-> <<>>]]
    /\ job = [t \in Thread |-> Idle]
    /\ fault = None /\ blame = {}
-----------------------------------------------------------------------------
(* Threads *)

Ready(t, s) == fault = None /\ job[t].at = s
Busy(t) == job[t].at \notin {"idle", "done"}

Becomes(t, j) == job' = [job EXCEPT ![t] = j]

\* Pointers to the same entry, in whatever array.
Same(p, q) == p # Null /\ p.k = q.k /\ p.i = q.i

\* Thread u has looked at the entry p points to.
Eyes(u, p) == Same(p, job[u].p) \/ Same(p, job[u].q)

\* Thread t becomes j, and has changed what the entry p points to stands for.
BecomesAfter(t, j, p) ==
    job' = [u \in Thread |-> IF u = t THEN j
                             ELSE [job[u] EXCEPT !.robbed = @ \/ Eyes(u, p)]]

\* Another thread has destroyed the object of entry p and has not said so.
HalfGone(t, p) ==
    \E u \in Thread \ {t} : job[u].at = "clear" /\ Same(job[u].q, p)

\* Thread t breaks a rule of C on table k: the run ends here.
Breaks(t, what, k) ==
    /\ fault' = [by |-> t, what |-> what, k |-> k]
    /\ UNCHANGED <<clientVars, obj, table, job, blame>>
-----------------------------------------------------------------------------
(* Pointers into a table *)

\* canvas_lookup, sprite_lookup, placement_lookup.
Lookup(k, n) ==
    IF n \in 0..table[k].count - 1 THEN [k |-> k, g |-> table[k].arr, i |-> n]
    ELSE Null

IsNull(p) == p.g = "none" /\ p.i = 0

\* Why the entry p points to cannot be used, "" when it can.
Defect(p) ==
    IF p.g # "present" THEN p.g
    ELSE IF p.i >= Len(table[p.k].slot) THEN "bounds"
    ELSE IF table[p.k].slot[p.i + 1] = Junk THEN "junk" ELSE ""

EntryAt(p) == table[p.k].slot[p.i + 1]

\* !ce || !ce->ptr, and what is left when reading ce->ptr is no error.
Missing(p) == IF Defect(p) = "" THEN EntryAt(p).ptr = None ELSE IsNull(p)
Present(p) == IF Defect(p) = "" THEN EntryAt(p).ptr # None ELSE FALSE
Wild(p) == Defect(p) # "" /\ ~IsNull(p)

\* Thread t uses the entry that p points to: it cannot, or it does Then.
Uses(t, p, Then) ==
    IF Defect(p) = "" THEN Then ELSE Breaks(t, Defect(p), p.k)

\* Thread t calls the library with object o of table k.
Calls(t, k, o, Then) ==
    IF o # None /\ obj[k][o].alive THEN Then ELSE Breaks(t, "object", k)
-----------------------------------------------------------------------------
(* A worker takes a task, and answers it.  The queue is left open: a client *)
(* that is dead may have had any number of tasks in it.  Whose task it is   *)
(* matters to the handlers that make an object only; the others do not look *)
(* at the owner of what they use.                                           *)

Takes(w, j) ==
    /\ Ready(w, "idle") /\ \E a \in Addr : session[a] # 0
    /\ Becomes(w, [j EXCEPT !.robbed =
                      \E p \in {j.p, j.q} \ {Null} : HalfGone(w, p)])
    /\ UNCHANGED <<clientVars, table, fault, blame>>

\* The result is written: 0, -1, -2, -3, or 0 with the -1 of GENERATE for its
\* data or its movie.
Answers(w, c) == Becomes(w, Idle)

\* A task that is answered before any table is looked at.
Refuses(w, codes) ==
    Takes(w, Idle) /\ UNCHANGED obj

\* The library makes an object for the client at a.
NewObject(a, k) ==
    /\ Len(obj[k]) < bound.objects[k]
    /\ obj' = [obj EXCEPT ![k] = Append(@, [by |-> session[a], alive |-> TRUE,
                                          id |-> None, late |-> FALSE])]

\* A task that makes an object, which is then put into table k.
Makes(w, a, k) ==
    /\ session[a] # 0 /\ NewObject(a, k)
    /\ Takes(w, [Idle EXCEPT !.at = "insert", !.a = a, !.k = k,
                             !.o = Len(obj[k]) + 1])

\* A task that looks id n up in table k: the handler goes on at step next,
\* or answers miss.
Finds(w, k, n, next, miss) ==
    LET p == Lookup(k, IntOf(n)) IN
    \/ Missing(p) /\ Refuses(w, {miss})
    \/ /\ Present(p) /\ UNCHANGED obj
       /\ Takes(w, [Idle EXCEPT !.at = next, !.k = k, !.id = IntOf(n), !.p = p,
                       !.o = EntryAt(p).ptr])
    \/ /\ Wild(p) /\ Ready(w, "idle") /\ \E a \in Addr : session[a] # 0
       /\ Breaks(w, Defect(p), k)
-----------------------------------------------------------------------------
(* The RPCs, up to their first access to a table *)

CreateCanvas(w, a) ==
    Refuses(w, {"fail", "value", "internal"}) \/ Makes(w, a, "canvas")

CreateSprite(w, a) ==
    Refuses(w, {"fail", "internal"}) \/ Makes(w, a, "sprite")

CreateRectangle(w, a) ==
    Refuses(w, {"fail", "value", "internal"}) \/ Makes(w, a, "sprite")

CreateCircle(w, a) ==
    Refuses(w, {"fail", "value", "internal"}) \/ Makes(w, a, "sprite")

DestroyCanvas(w) ==
    \/ Refuses(w, {"fail", "value"})
    \/ \E n \in Arg : Finds(w, "canvas", n, "remove", "fail")

DestroySprite(w) ==
    \/ Refuses(w, {"fail", "value"})
    \/ \E n \in InRange : Finds(w, "sprite", n, "remove", "fail")

DestroyPlacement(w) ==
    \/ Refuses(w, {"fail", "value"})
    \/ \E n \in InRange : Finds(w, "placement", n, "remove", "value")

\* The placement is looked up, and then given to the library.
Adjusts(w, ids) ==
    \/ Refuses(w, {"fail", "value"})
    \/ \E n \in ids : Finds(w, "placement", n, "adjust", "value")

PlacementUp(w) == Adjusts(w, InRange)
PlacementDown(w) == Adjusts(w, InRange)
PlacementTop(w) == Adjusts(w, InRange)
PlacementBottom(w) == Adjusts(w, InRange)
SetAnimParam(w) == Adjusts(w, Arg)

Generate(w) ==
    \/ Refuses(w, {"value"})
    \/ \E n \in Arg : Finds(w, "canvas", n, "frame", "value")

Share(w) ==
    \/ Refuses(w, {"fail", "value"})
    \/ \E n \in InRange : Finds(w, "canvas", n, "target", "value")

\* The canvas is looked at first: when it is missing the sprite is not read.
PlaceSprite(w, a) ==
    \/ Refuses(w, {"fail", "value"})
    \/ \E c, n \in Arg :
         LET p == Lookup("canvas", IntOf(c))
             q == Lookup("sprite", IntOf(n))
             bad == IF Wild(p) THEN p ELSE q
         IN \/ (Missing(p) \/ (Present(p) /\ Missing(q)))
               /\ Refuses(w, {"value"})
            \/ Present(p) /\ Present(q) /\ UNCHANGED obj
               /\ session[a] # 0
               /\ Takes(w, [Idle EXCEPT !.at = "place", !.a = a, !.p = p,
                                        !.q = q])
            \/ (Wild(p) \/ (Present(p) /\ Wild(q)))
               /\ Ready(w, "idle")
               /\ Breaks(w, Defect(bad), bad.k)

Task(w) ==
    \/ \E a \in Addr : \/ CreateCanvas(w, a) \/ CreateSprite(w, a)
                       \/ CreateRectangle(w, a) \/ CreateCircle(w, a)
                       \/ PlaceSprite(w, a)
    \/ DestroyCanvas(w) \/ DestroySprite(w) \/ DestroyPlacement(w)
    \/ PlacementUp(w) \/ PlacementDown(w) \/ PlacementTop(w)
    \/ PlacementBottom(w) \/ SetAnimParam(w) \/ Generate(w) \/ Share(w)
-----------------------------------------------------------------------------
(* Insertion *)

\* canvas_insert, sprite_insert, placement_insert: is there room?
Insert(w) ==
    LET j == job[w]
        racing == \E u \in Worker \ {w} : job[u].k = j.k
                    /\ job[u].at \in {"grow", "assign", "fill", "count"}
        full == table[j.k].count = table[j.k].cap
    IN /\ Ready(w, "insert")
       /\ Becomes(w, [j EXCEPT !.at = IF full THEN "grow" ELSE "fill"])
       /\ blame' = IF racing THEN blame \cup {j.k} ELSE blame
       /\ UNCHANGED <<clientVars, obj, table, fault>>

NewCap(cap) == IF cap = 0 THEN INITIAL_CAPACITY ELSE 2 * cap

\* realloc: the entries of the old block, and memory nobody has written to.
Grown(T) ==
    LET old == IF T.arr = "none" THEN <<>> ELSE T.slot
    IN [j \in 1..NewCap(T.cap) |-> IF j <= Len(old) THEN old[j] ELSE Junk]

\* Every pointer into the block of table k but thread t's is one too many.
Moved(k, t, j) ==
    LET stale(p) == IF p.k = k /\ p.g = "present"
                    THEN [p EXCEPT !.g = "released"] ELSE p
    IN [u \in Thread |->
          IF u = t THEN j
          ELSE [job[u] EXCEPT !.p = stale(@), !.q = stale(@)]]

\* grow_array: the block grows in place or moves, and the capacity changes;
\* the pointer to the array is still the old one.
Grow(w) ==
    LET k == job[w].k
        T == table[k]
        new == [k |-> k, g |-> "present", i |-> 0]
        j == [job[w] EXCEPT !.at = "assign", !.p = new]
        grown == [T EXCEPT !.cap = NewCap(@), !.slot = Grown(T)]
    IN /\ Ready(w, "grow")
       /\ \/ T.arr = "released" /\ Breaks(w, "released", k)
          \/ /\ T.arr = "present"
             /\ table' = [table EXCEPT ![k] = grown]
             /\ Becomes(w, j)
             /\ UNCHANGED <<clientVars, obj, fault, blame>>
          \/ /\ T.arr # "released"
             /\ table' = [table EXCEPT ![k] =
                    [grown EXCEPT !.arr = IF @ = "none" THEN @
                                          ELSE "released"]]
             /\ job' = Moved(k, w, j)
             /\ UNCHANGED <<clientVars, obj, fault, blame>>

\* Deviation: an object that could not be entered stays.
Undone_Kept(k, o) == obj

\* animate_destroy_canvas(cv) after an insertion that failed.
Undone(k, o) == [obj EXCEPT ![k][o].alive = FALSE]

\* realloc fails: the table has no array any more, and the old count; the
\* array it had is still there, for those who point into it.
GrowFails(w) ==
    LET k == job[w].k IN
    /\ Ready(w, "grow") /\ bound.growMayFail /\ table[k].arr # "released"
    /\ table' = [table EXCEPT ![k].arr = "none"]
    /\ blame' = IF table[k].arr = "none" THEN blame ELSE blame \cup {k}
    /\ obj' = Undone(k, job[w].o)
    /\ Answers(w, "internal")
    /\ UNCHANGED <<clientVars, fault>>

\* TABLE.arr = grow_array(...).
Assign(w) ==
    /\ Ready(w, "assign")
    /\ table' = [table EXCEPT ![job[w].k].arr = job[w].p.g]
    /\ Becomes(w, [job[w] EXCEPT !.at = "fill", !.p = Null])
    /\ UNCHANGED <<clientVars, obj, fault, blame>>

NewEntry(o, a) == [ptr |-> o, owner |-> a, shared |-> 0]

\* Deviation: the entry of an object that is gone is used again.
NextId_Reused(T) ==
    LET free == {j \in 1..T.count : T.slot[j] # Junk /\ T.slot[j].ptr = None}
    IN IF free = {} THEN T.count ELSE Min(free) - 1

\* int id = TABLE.count;
NextId(T) == T.count

\* The new entry: e = &TABLE.arr[id], and its fields.
Fill(w) ==
    LET j == job[w]
        id == NextId(table[j.k])
        bad == Defect([k |-> j.k, g |-> table[j.k].arr, i |-> id])
    IN /\ Ready(w, "fill")
       /\ \/ bad \notin {"", "junk"} /\ Breaks(w, bad, j.k)
          \/ /\ bad \in {"", "junk"}
             /\ table' = [table EXCEPT ![j.k].slot[id + 1] =
                                           NewEntry(j.o, j.a)]
             /\ obj' = [obj EXCEPT ![j.k][j.o].id = id]
             /\ Becomes(w, [j EXCEPT !.at = "count", !.id = id])
             /\ UNCHANGED <<clientVars, fault, blame>>

\* TABLE.count++, which reads the count and writes it.
Count(w) ==
    LET j == job[w] IN
    /\ Ready(w, "count")
    /\ \E n \in {table[j.k].count, j.id} :
         table' = [table EXCEPT ![j.k].count = n + 1]
    /\ obj' = [obj EXCEPT ![j.k][j.o].late = j.a \in dead]
    /\ Answers(w, "ok")
    /\ UNCHANGED <<clientVars, fault, blame>>
-----------------------------------------------------------------------------
(* Removal, by a worker or by the main thread *)

\* canvas_remove, sprite_remove, placement_remove: a second lookup, and the
\* object the entry names by now is destroyed.
Remove(t) ==
    LET j == job[t]
        e == Lookup(j.k, j.id)
    IN /\ Ready(t, "remove")
       /\ \/ /\ IsNull(e) /\ Becomes(t, [j EXCEPT !.at = "clear", !.q = e])
             /\ UNCHANGED <<clientVars, obj, table, fault, blame>>
          \/ ~IsNull(e) /\ Uses(t, e, Calls(t, j.k, EntryAt(e).ptr,
               /\ obj' = [obj EXCEPT ![j.k][EntryAt(e).ptr].alive = FALSE]
               /\ BecomesAfter(t, [j EXCEPT !.at = "clear", !.q = e], e)
               /\ UNCHANGED <<clientVars, table, fault, blame>>))

\* Deviation: the entry goes on naming the object.
Cleared_NotNulled(e) == e

\* e->ptr = NULL
Cleared(e) == [e EXCEPT !.ptr = None]

\* The rest of the removal by a worker.
Clear(w) ==
    LET q == job[w].q IN
    /\ Ready(w, "clear")
    /\ \/ IsNull(q) /\ Answers(w, "ok")
          /\ UNCHANGED <<clientVars, obj, table, fault, blame>>
       \/ ~IsNull(q) /\ Uses(w, q,
            /\ table' = [table EXCEPT ![q.k].slot[q.i + 1] = Cleared(@)]
            /\ Answers(w, "ok")
            /\ UNCHANGED <<clientVars, obj, fault, blame>>)
-----------------------------------------------------------------------------
(* The rest of the RPCs *)

\* animate_place_sprite(ce->ptr, se->ptr, x, y).
Place(w) ==
    LET j == job[w] IN
    /\ Ready(w, "place")
    /\ Uses(w, j.p, Uses(w, j.q,
       Calls(w, "canvas", EntryAt(j.p).ptr,
       Calls(w, "sprite", EntryAt(j.q).ptr,
         /\ \/ /\ NewObject(j.a, "placement")
               /\ Becomes(w, [Idle EXCEPT !.at = "insert", !.a = j.a,
                      !.k = "placement", !.o = Len(obj["placement"]) + 1])
            \/ Answers(w, "internal") /\ UNCHANGED obj
         /\ UNCHANGED <<clientVars, table, fault, blame>>))))

\* animate_placement_up(pe->ptr) and the other calls on a placement.
Adjust(w) ==
    LET p == job[w].p IN
    Ready(w, "adjust") /\ Uses(w, p, Calls(w, "placement", EntryAt(p).ptr,
        Answers(w, "ok") /\ UNCHANGED <<clientVars, obj, table, fault, blame>>))

\* The data file cannot be opened: the canvas is not used.
NoDataFile(w) ==
    /\ Ready(w, "frame") /\ Answers(w, "data")
    /\ UNCHANGED <<clientVars, obj, table, fault, blame>>

\* From open to close: frames of the canvas that was found at first, and an
\* answer as soon as memory or the data file fails.
Frame(w) ==
    Ready(w, "frame") /\ Calls(w, "canvas", job[w].o,
        /\ \/ \E c \in {"internal", "data"} : Answers(w, c)
           \/ Becomes(w, [job[w] EXCEPT !.at = "film", !.o = None,
                                          !.id = 0])
        /\ UNCHANGED <<clientVars, obj, table, fault, blame>>)

\* ce->width and ce->height, and the movie.
Film(w) ==
    Ready(w, "film") /\ Uses(w, job[w].p,
        /\ \E c \in {"ok", "movie"} : Answers(w, c)
        /\ UNCHANGED <<clientVars, obj, table, fault, blame>>)

\* A client that creg_unlink has not taken from the list.
Registered(a) == session[a] # 0 /\ (a \in dead => job[Main].a = a)

Full(e) == e.shared >= MAX_CLIENTS

\* The user to share with is sought under cr_lock, and then it is read from
\* the entry found before whether its list is full.
Target(w) ==
    LET p == job[w].p
        refuse == Answers(w, "internal")
    IN /\ Ready(w, "target")
       /\ \/ Answers(w, "value")
             /\ UNCHANGED <<clientVars, obj, table, fault, blame>>
          \/ (\E a \in Addr : Registered(a)) /\ Uses(w, p,
               /\ \/ Full(EntryAt(p)) /\ refuse
                  \/ ~Full(EntryAt(p))
                     /\ Becomes(w, [job[w] EXCEPT !.at = "append",
                                               !.o = None, !.id = 0])
               /\ UNCHANGED <<clientVars, obj, table, fault, blame>>)

\* ce->shared[ce->shared_count++] = target.
AppendShared(w) ==
    LET p == job[w].p IN
    Ready(w, "append") /\ Uses(w, p,
      \/ EntryAt(p).shared >= MAX_CLIENTS /\ Breaks(w, "share", "canvas")
      \/ /\ EntryAt(p).shared < MAX_CLIENTS
         /\ table' = [table EXCEPT !["canvas"].slot[p.i + 1].shared = @ + 1]
         /\ BecomesAfter(w, Idle, p)
         /\ UNCHANGED <<clientVars, obj, fault, blame>>)
-----------------------------------------------------------------------------
(* The main thread *)

\* A client connects; its record is put at a.
Connect(a) ==
    /\ Ready(Main, "idle") /\ session[a] = 0 /\ born < bound.sessions
    /\ born' = born + 1
    /\ session' = [session EXCEPT ![a] = born + 1]
    /\ UNCHANGED <<bound, dead, obj, table, job, fault, blame>>

\* The last reference to a dead client is released with its last result.
Release(a) ==
    /\ Ready(Main, "idle") /\ a \in dead /\ \A w \in Worker : job[w].a # a
    /\ session' = [session EXCEPT ![a] = 0] /\ dead' = dead \ {a}
    /\ UNCHANGED <<bound, born, obj, table, job, fault, blame>>

\* client_markdead.
MarkDead(a) ==
    /\ Ready(Main, "idle") /\ session[a] # 0 /\ a \notin dead
    /\ dead' = dead \cup {a}
    /\ Becomes(Main, [Idle EXCEPT !.at = "test", !.a = a])
    /\ UNCHANGED <<bound, session, born, obj, table, fault, blame>>

\* Deviation: the object of every client goes.
Owned_Any(e, a) == e.ptr # None

\* ce->ptr && ce->owner == client
Owned(e, a) == e.ptr # None /\ e.owner = a

\* Deviation: the last entry is not looked at.
InTable_ShortByOne(k, i) == i + 1 < table[k].count

\* i < TABLE.count, read again every time.
InTable(k, i) == i < table[k].count

\* One entry of the walk is looked at.
Test ==
    LET j == job[Main]
        e == [k |-> j.k, g |-> table[j.k].arr, i |-> j.id]
    IN /\ Ready(Main, "test") /\ InTable(j.k, j.id)
       /\ Uses(Main, e,
            /\ Becomes(Main, IF Owned(EntryAt(e), j.a)
                             THEN [j EXCEPT !.at = "remove", !.p = e,
                                            !.robbed = HalfGone(Main, e)]
                             ELSE [j EXCEPT !.id = @ + 1])
            /\ UNCHANGED <<clientVars, obj, table, fault, blame>>)

\* Canvases, then sprites, then placements.
NextTable == [canvas |-> "sprite", sprite |-> "placement"]

\* The end of a table, or of the walk.
Walked ==
    LET j == job[Main] IN
    /\ Ready(Main, "test") /\ ~InTable(j.k, j.id)
    /\ Becomes(Main, IF j.k = "placement" THEN Idle
                     ELSE [j EXCEPT !.k = NextTable[j.k], !.id = 0])
    /\ UNCHANGED <<clientVars, obj, table, fault, blame>>

\* The end of canvas_remove, and ce->owner = NULL.
Disown ==
    LET j == job[Main]
        nulled == IF IsNull(j.q) THEN table
                  ELSE [table EXCEPT ![j.k].slot[j.q.i + 1] = Cleared(@)]
    IN /\ Ready(Main, "clear")
       /\ \/ ~IsNull(j.q) /\ Defect(j.q) # ""
             /\ Breaks(Main, Defect(j.q), j.k)
          \/ (IsNull(j.q) \/ Defect(j.q) = "") /\ Uses(Main, j.p,
               /\ table' = [nulled EXCEPT ![j.k].slot[j.p.i + 1].owner = None]
               /\ Becomes(Main, [j EXCEPT !.at = "test", !.id = @ + 1,
                                 !.p = Null, !.q = Null, !.robbed = FALSE])
               /\ UNCHANGED <<clientVars, obj, fault, blame>>)

\* The server ends: the threads have been joined, tables_destroy.
TablesDestroy ==
    /\ Ready(Main, "idle") /\ \A w \in Worker : job[w].at = "idle"
    /\ Becomes(Main, [Idle EXCEPT !.at = "done"])
    /\ table' = [k \in Kind |-> [table[k] EXCEPT !.arr =
                                   IF @ = "none" THEN @ ELSE "released"]]
    /\ UNCHANGED <<clientVars, obj, fault, blame>>
-----------------------------------------------------------------------------
Work(w) ==
    \/ job[Main].at # "done" /\ Task(w)
    \/ Insert(w) \/ Grow(w) \/ GrowFails(w) \/ Assign(w) \/ Fill(w)
    \/ Count(w) \/ Remove(w) \/ Clear(w)
    \/ Place(w) \/ Adjust(w) \/ NoDataFile(w) \/ Frame(w) \/ Film(w)
    \/ Target(w) \/ AppendShared(w)

MainStep ==
    \/ \E a \in Addr : Connect(a) \/ Release(a) \/ MarkDead(a)
    \/ Test \/ Remove(Main) \/ Disown \/ Walked \/ TablesDestroy

Next == MainStep \/ \E w \in bound.pool : Work(w)

Spec == Init /\ [][Next]_vars
=============================================================================
