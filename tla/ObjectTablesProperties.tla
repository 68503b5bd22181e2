---------------------- MODULE ObjectTablesProperties ------------------------
(***************************************************************************)
(* What the object tables owe the clients, and where they stop owing it.   *)
(***************************************************************************)
EXTENDS ObjectTables

\* The objects that the entries of table k name.
Named(k) == {table[k].slot[j].ptr : j \in
               {i \in 1..table[k].count : table[k].slot[i] # Junk}} \ {None}

\* Every object that lives is named by an entry of its table, or a worker is
\* between making it and entering it: no failing handler forgets one.
NothingLeaks ==
    fault = None => \A k \in Kind \ blame : \A o \in DOMAIN obj[k] :
      obj[k][o].alive =>
        \/ o \in Named(k)
        \/ \E w \in Worker : job[w].k = k /\ job[w].o = o
              /\ job[w].at \in {"insert", "grow", "assign", "fill", "count"}

\* An id is given to one object only, and its entry names that object until
\* it names none: ids are never used again, through every growth of a table,
\* whose array is as long as its capacity says (TypeOK).
IdsNameOne ==
  /\ TypeOK
  /\ fault = None => \A k \in Kind \ blame : \A x \in DOMAIN obj[k] :
      LET o == obj[k][x] IN o.id # None =>
        /\ \A y \in DOMAIN obj[k] : obj[k][y].id = o.id => x = y
        /\ table[k].slot[o.id + 1] # Junk
        /\ table[k].slot[o.id + 1].ptr \in {x, None}

\* The session that made an object is over: the walk of its removal is done.
Over(s) == \A a \in Addr : session[a] = s => a \in dead /\ job[Main].a # a

\* After the walk of client_markdead, what is left of the client's objects was
\* entered by one of its tasks that was still under way when the walk began.
OnlyLateObjectsStay ==
    fault = None => \A k \in Kind \ blame : \A o \in Named(k) :
      Over(obj[k][o].by) => obj[k][o].late

\* The removal of a client destroys nothing of a client that is still there,
\* also when it has the address of one that left objects behind.
RemovalSparesOthers ==
    [][Ready(Main, "remove") /\ job'[Main].at = "clear" =>
         LET k == job[Main].k IN
         k \in blame \/ \A o \in DOMAIN obj[k] :
           obj[k][o].alive /\ ~obj'[k][o].alive =>
             obj[k][o].by = session[job[Main].a] \/ Over(obj[k][o].by)]_vars

\* Handlers one at a time break no rule of C.  An access through a pointer
\* into a released array is another thread's doing as it stands; behind every
\* use of an object that is gone, and every canvas shared too often, another
\* thread has come between the look and the use; and an access outside an
\* array, or to memory never written to, needs a table that had lost its
\* array or had taken two insertions at once.
FaultsAreRaces ==
    fault # None =>
      \/ fault.k \in blame
      \/ fault.what = "released"
      \/ fault.what \in {"object", "share"} /\ job[fault.by].robbed

\* "destroy all canvas owned by this client": once a client is removed no
\* object of it lives.
MarkDeadDestroysAll ==
    fault = None => \A k \in Kind \ blame : \A o \in Named(k) :
      ~Over(obj[k][o].by)
=============================================================================
