------------------------- MODULE ConnectionLifetime -------------------------
(***************************************************************************)
(* What the registry promises, without counts, descriptors or queues: a    *)
(* connection is opened at an address, requests hold and drop it while it  *)
(* is open, and once it has been retired it is freed in the very step in   *)
(* which its last holder drops it, never earlier and never later.          *)
(***************************************************************************)
CONSTANTS Addr, Req

VARIABLES
    conn,   \* "none", "open" or "retired", for every address
    held    \* the requests that hold the connection at every address

vars == <<conn, held>>

TypeOK == /\ conn \in [Addr -> {"none", "open", "retired"}]
          /\ held \in [Addr -> SUBSET Req]

Init == /\ conn = [a \in Addr |-> "none"]
        /\ held = [a \in Addr |-> {}]

\* A connection is established.
Open(a) == /\ conn[a] = "none"
           /\ conn' = [conn EXCEPT ![a] = "open"]
           /\ UNCHANGED held

\* A request takes hold of an open connection.
Hold(a, r) == /\ conn[a] = "open" /\ r \notin held[a]
              /\ held' = [held EXCEPT ![a] = @ \cup {r}]
              /\ UNCHANGED conn

\* A connection nobody holds is gone the moment it is retired.
Gone(holders) == IF holders = {} THEN "none" ELSE "retired"

\* A request lets go.
Drop(a, r) == /\ r \in held[a]
              /\ held' = [held EXCEPT ![a] = @ \ {r}]
              /\ conn' = IF conn[a] = "open" THEN conn
                         ELSE [conn EXCEPT ![a] = Gone(held[a] \ {r})]

\* The connection is taken out of service.
Retire(a) == /\ conn[a] = "open"
             /\ conn' = [conn EXCEPT ![a] = Gone(held[a])]
             /\ UNCHANGED held

\* A request lets go and takes the connection out of service.
Refuse(a, r) == /\ r \in held[a]
                /\ held' = [held EXCEPT ![a] = @ \ {r}]
                /\ conn' = [conn EXCEPT ![a] = Gone(held[a] \ {r})]

\* The program ends: open connections go with whoever holds them.
Shutdown ==
    /\ conn' = [a \in Addr |-> IF conn[a] = "open" THEN "none" ELSE conn[a]]
    /\ held' = [a \in Addr |-> IF conn[a] = "open" THEN {} ELSE held[a]]

Next == \/ \E a \in Addr : \/ Open(a) \/ Retire(a)
                           \/ \E r \in Req : \/ Hold(a, r) \/ Drop(a, r)
                                             \/ Refuse(a, r)
        \/ Shutdown

Spec == Init /\ [][Next]_vars
=============================================================================
