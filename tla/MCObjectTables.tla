-------------------------- MODULE MCObjectTables ----------------------------
(* Small instances of the object tables for TLC. *)
EXTENDS ObjectTablesProperties, TLC

Bounds(W, n, c, s, p, fail) ==
    [pool |-> W, sessions |-> n, growMayFail |-> fail,
     objects |-> [canvas |-> c, sprite |-> s, placement |-> p]]

\* One thread and main: an object of each kind; two clients with a table that
\* grows and may fail to; two clients and a canvas to share. Two threads: an
\* insertion race, and two kinds that one thread uses and the other removes.
SmallInstances ==
    UNION {{Bounds({w}, 1, 1, 1, 1, FALSE), Bounds({w}, 2, 0, 2, 0, TRUE),
            Bounds({w}, 2, 1, 0, 0, TRUE)} : w \in Worker}
      \cup {Bounds(Worker, 1, 0, 2, 0, TRUE), Bounds(Worker, 1, 1, 1, 0, FALSE)}

\* One thread and one canvas of one client.
OneCanvas == {Bounds(Worker, 1, 1, 0, 0, FALSE)}

Symmetry == Permutations(Worker) \cup Permutations(Addr)
=============================================================================
