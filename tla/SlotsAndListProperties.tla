----------------------- MODULE SlotsAndListProperties -----------------------
(***************************************************************************)
(* What main relies on when it uses the poll slots and the registry, and   *)
(* their mapping to the two sets of ClientSets.                            *)
(***************************************************************************)
EXTENDS SlotsAndList

Ended == pc \in {"destroy", "end"}

Polled == IF Ended THEN {} ELSE {<<pfds[j], clients[j]>> : j \in Slots}

Sets == INSTANCE ClientSets WITH listed <- Listed, polled <- Polled

\* The arrays and the list, with growth that fails half way, swaps and
\* relinking, are the two sets AnimateServer works on: nobody is polled who
\* is not registered, twice, or through another client's descriptor.
ImplementsSets == Sets!Spec

\* Every slot there is, and the one written next, is inside both arrays,
\* whichever allocation of server_grow_pollslots has failed before; and the
\* self pipes keep the first two.
InBounds ==
    ~Ended => /\ pfds[0] = "hsk" /\ pfds[1] = "rpc"
              /\ count <= capacity
              /\ capacity <= psize /\ capacity <= csize
              /\ pc = "place" => count < capacity

\* Where the list begins, for the registry or for creg_destroy.
First == IF pc = "destroy" THEN curr ELSE cr_clients

\* Followed forwards and backwards the links give the registered clients,
\* each once, with the count that is kept of them.
ListIntact ==
    /\ \A j, k \in DOMAIN order : order[j] = order[k] => j = k
    /\ First = IF order = <<>> THEN NULL ELSE order[1]
    /\ ~Ended => cr_count = Len(order)
    /\ \A k \in DOMAIN order :
         /\ next[order[k]] = IF k = Len(order) THEN NULL ELSE order[k + 1]
         /\ pc # "destroy" =>
              prev[order[k]] = IF k = 1 THEN NULL ELSE order[k - 1]

\* The client main is working on has no slot: it has not got one yet, or the
\* slot is gone.
Between == {"insert", "grow", "grow2", "place", "dead", "unlink", "seek"}

\* The slots are those of the registered clients, each with the descriptor
\* the client has open; one client at a time is in between.
SlotsNameListed ==
    ~Ended =>
      /\ \A j, k \in Slots : clients[j] = clients[k] => j = k
      /\ \A j \in Slots : clients[j] \in Listed /\ pfds[j] = c2s_fd[clients[j]]
      /\ \A c \in Listed :
           (\E j \in Slots : clients[j] = c) # (pc \in Between /\ c = client)

\* A removal finds what it looks for: the descriptor in the array, where no
\* other slot has its number, and the client in the list.
SearchesFind ==
    /\ pc = "find" => \E j \in i..(count - 1) :
                        pfds[j] = fd /\ clients[j] = client
    /\ pc = "seek" => curr # NULL

\* Whoever follows the links, for SHARE, creg_unlink or creg_destroy, is at a
\* record that is still allocated.
WalkSafe ==
    /\ wcurr # NULL => wcurr \in heap
    /\ pc \in {"seek", "destroy"} /\ curr # NULL => curr \in heap

\* When the server has ended, every record that was registered to the end
\* has been destroyed; others only wait for a result nobody will read.
NothingForgotten == pc = "end" => \A c \in heap : dead[c] /\ requests[c] > 0
=============================================================================
