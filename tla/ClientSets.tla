----------------------------- MODULE ClientSets -----------------------------
(***************************************************************************)
(* What the poll slots and the client registry are for, without arrays and *)
(* links: two sets. A client is polled only while it is listed, through    *)
(* one descriptor, which is nobody else's. AnimateServer works on these.   *)
(***************************************************************************)
CONSTANTS Client, Fd

VARIABLES
    listed,     \* the registered clients
    polled      \* pairs of a descriptor and the client it is polled for

vars == <<listed, polled>>

Init == listed = {} /\ polled = {}

List(c) == c \notin listed /\ listed' = listed \cup {c} /\ UNCHANGED polled

Poll(f, c) ==
    /\ c \in listed
    /\ \A p \in polled : p[1] # f /\ p[2] # c
    /\ polled' = polled \cup {<<f, c>>} /\ UNCHANGED listed

Unpoll(p) == p \in polled /\ polled' = polled \ {p} /\ UNCHANGED listed

Unlist(c) ==
    /\ c \in listed /\ \A p \in polled : p[2] # c
    /\ listed' = listed \ {c} /\ UNCHANGED polled

\* The server ends.
Clear == polled' = {} /\ UNCHANGED listed

Next ==
    \/ \E c \in Client : List(c) \/ Unlist(c)
    \/ \E f \in Fd, c \in Client : Poll(f, c)
    \/ \E p \in polled : Unpoll(p)
    \/ Clear

Spec == Init /\ [][Next]_vars
=============================================================================
