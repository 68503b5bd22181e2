------------------------ MODULE TaskQueueProperties ------------------------
(***************************************************************************)
(* What the task queue and the thread pool promise.                        *)
(***************************************************************************)
EXTENDS TaskQueue, SequencesExt

\* The list that starts at h and is linked by nx, as a sequence: the addresses
\* from h on, up to the first NULL.
ListFrom(h, nx) ==
    LET node[i \in 1..Cardinality(Task)] ==
            IF i = 1 THEN h
            ELSE IF node[i - 1] = None THEN None ELSE nx[node[i - 1]]
    IN [i \in {j \in 1..Cardinality(Task) : node[j] # None} |-> node[i]]

\* The list from tq_head.
Queue == ListFrom(tq_head, next)

Held == {task[w] : w \in Worker} \ {None}

\* Head, tail, count and links describe one list, and every task that is
\* allocated is in one place: this list, one worker, or on its way in. None
\* is freed while it is linked, none is forgotten. TypeOK keeps the count
\* from falling below zero.
ListShape ==
    /\ TypeOK
    /\ pc # "done" =>
        /\ Len(Queue) = tq_count
        /\ tq_tail = IF Queue = <<>> THEN None ELSE Last(Queue)
        /\ Cardinality(ToSet(Queue)) = Len(Queue)
        /\ \A v, w \in Worker : task[v] = task[w] /\ task[v] # None => v = w
        /\ Held \cap ToSet(Queue) = {} /\ new \notin Held \cup ToSet(Queue)
        /\ heap = Held \cup ToSet(Queue) \cup ({new} \ {None})

\* The workers that will look at the queue before they sleep again.
Ready == {w \in Worker : wpc[w] \in {"routine", "dequeue", "woken", "check",
                                     "take"}}

\* One signal for each task is enough: whenever somebody sleeps, as many
\* workers are on their way to the queue as there are tasks in it, although
\* a worker that was never asleep may take the task another was woken for.
WakeupsSuffice == running /\ Asleep # {} => tq_count <= Cardinality(Ready)

\* The array outlives the threads in it, and when the program ends all
\* threads have been joined, nobody holds the mutex that is destroyed and
\* every task has been freed.
NothingLeft ==
    /\ threads # "live" => \A w \in Created : wpc[w] = "gone"
    /\ pc = "done" => joined = Worker /\ tq_lock = None /\ heap = {}

Pool == INSTANCE TaskPool
            WITH queue <- Queue, work <- task,
                 exited <- {w \in Worker : wpc[w] = "gone"}

\* The list under its mutex is a FIFO queue: each task is given to one
\* worker, in the order in which the tasks were queued.
ImplementsPool == Pool!Spec

\* A task that is queued is taken, unless the server stops.
TasksTaken == \A t \in Task : t \in ToSet(Queue) ~> t \notin ToSet(Queue)
                                                       \/ ~running

\* After a shutdown signal every worker leaves, whether it works, waits or is
\* just about to wait, and the program ends. The start must have succeeded:
\* when it has not, this is StartupReaps, which fails.
ShutdownJoins == ~running /\ Created = Worker ~> pc = "done"

\* threadpool.c:1209 "wake up", :1211 "reap": when a thread cannot be
\* created, those that were are woken up and reaped.
StartupReaps == pc = "reap" ~> pc # "reap"
=============================================================================
