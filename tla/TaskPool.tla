------------------------------ MODULE TaskPool ------------------------------
(***************************************************************************)
(* What the rest of the server takes a task queue and its workers to be: a *)
(* FIFO queue whose tasks are given to one worker each, by workers that    *)
(* leave when the server stops. AnimateServer uses the queue in this form; *)
(* TaskQueue implements it with a linked list, a mutex and a condition     *)
(* variable.                                                               *)
(***************************************************************************)
EXTENDS Sequences, FiniteSets

CONSTANTS Worker, Task, None

VARIABLES
    running,    \* RUNNING
    new,        \* the task the main thread is about to queue
    queue,      \* the tasks nobody has taken, oldest first
    work,       \* the task each worker holds
    exited      \* the workers that have left

vars == <<running, new, queue, work, exited>>

Tasks == {queue[i] : i \in DOMAIN queue} \cup {work[w] : w \in Worker}

Init == /\ running = TRUE /\ new = None /\ queue = <<>>
        /\ work = [w \in Worker |-> None] /\ exited = {}

New(t) == /\ new = None /\ t \notin Tasks
          /\ new' = t
          /\ UNCHANGED <<running, queue, work, exited>>

Put == /\ new # None
       /\ queue' = Append(queue, new) /\ new' = None
       /\ UNCHANGED <<running, work, exited>>

Take(w) == /\ running /\ w \notin exited /\ work[w] = None /\ queue # <<>>
           /\ work' = [work EXCEPT ![w] = Head(queue)]
           /\ queue' = Tail(queue)
           /\ UNCHANGED <<running, new, exited>>

Finish(w) == /\ work[w] # None
             /\ work' = [work EXCEPT ![w] = None]
             /\ UNCHANGED <<running, new, queue, exited>>

Leave(w) == /\ ~running /\ w \notin exited /\ work[w] = None
            /\ exited' = exited \cup {w}
            /\ UNCHANGED <<running, new, queue, work>>

Stop == running' = FALSE /\ UNCHANGED <<new, queue, work, exited>>

Clear == /\ exited = Worker /\ queue' = <<>>
         /\ UNCHANGED <<running, new, work, exited>>

Next == \/ \E t \in Task : New(t)
        \/ Put
        \/ \E w \in Worker : Take(w) \/ Finish(w) \/ Leave(w)
        \/ Stop \/ Clear

Spec == Init /\ [][Next]_vars
=============================================================================
