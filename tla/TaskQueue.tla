------------------------------ MODULE TaskQueue ------------------------------
(***************************************************************************)
(* The task queue and the thread pool at the granularity of their mutex    *)
(* and condition variable: the start of the threads and its failure, the   *)
(* main thread that enqueues, the workers that wait and dequeue, and the   *)
(* end, where everybody is woken and joined.                               *)
(*                                                                         *)
(* Taking the mutex is a step, and what is done while it is held is one    *)
(* step when nobody can observe its parts. The test before                 *)
(* pthread_cond_wait is apart from the wait: RUNNING changes and a         *)
(* broadcast can come without the mutex.                                   *)
(***************************************************************************)
EXTENDS Integers, Sequences, FiniteSets

CONSTANTS
    Worker,         \* the TPOOL_SIZE threads
    Task,           \* addresses malloc can give a Task
    None,
    Main,           \* the main thread, as an owner of the mutex
    CreateMayFail   \* malloc of the array or pthread_create may fail

ASSUME PoolAssumption ==
    /\ IsFiniteSet(Worker) /\ Worker # {} /\ IsFiniteSet(Task)
    /\ None \notin Worker \cup Task \cup {Main} /\ Main \notin Worker
    /\ CreateMayFail \in BOOLEAN

VARIABLES
    running,    \* RUNNING
    tq_head, tq_tail, tq_count,
    next,       \* the member next of every Task
    tq_lock,    \* the owner of the mutex
    heap,       \* the tasks that are allocated
    pc,         \* where the main thread is
    new,        \* newtask of task_enqueue
    threads,    \* the array tpool_threads: none, live or freed
    joined,     \* the threads main has joined
    wpc,        \* where each worker is
    task        \* the local task of each worker

queueVars == <<tq_head, tq_tail, tq_count, next>>
mainVars  == <<pc, new, threads, joined>>
vars == <<running, tq_head, tq_tail, tq_count, next, tq_lock, heap, pc, new,
          threads, joined, wpc, task>>

TypeOK ==
    /\ running \in BOOLEAN
    /\ tq_head \in Task \cup {None} /\ tq_tail \in Task \cup {None}
    /\ tq_count \in Nat /\ next \in [Task -> Task \cup {None}]
    /\ tq_lock \in Worker \cup {Main, None}
    /\ heap \subseteq Task
    /\ pc \in {"create", "wake", "reap", "loop", "enqueue", "link",
               "teardown", "lock", "broadcast", "join", "destroy", "clear",
               "done", "fault"}
    /\ new \in Task \cup {None}
    /\ threads \in {"none", "live", "freed"}
    /\ joined \subseteq Worker
    /\ wpc \in [Worker -> {"unborn", "routine", "dequeue", "check", "wait",
                           "asleep", "woken", "take", "work", "gone"}]
    /\ task \in [Worker -> Task \cup {None}]

Init ==
    /\ running = TRUE
    /\ tq_head = None /\ tq_tail = None /\ tq_count = 0
    /\ next = [t \in Task |-> None] /\ tq_lock = None /\ heap = {}
    /\ pc = "create" /\ new = None /\ threads = "none" /\ joined = {}
    /\ wpc = [w \in Worker |-> "unborn"] /\ task = [w \in Worker |-> None]

Created == {w \in Worker : wpc[w] # "unborn"}
Asleep  == {w \in Worker : wpc[w] = "asleep"}
-----------------------------------------------------------------------------
(* The condition variable *)

\* pthread_cond_broadcast.
Broadcast == wpc' = [w \in Worker |-> IF wpc[w] = "asleep" THEN "woken"
                                      ELSE wpc[w]]

\* pthread_cond_signal wakes one of the waiters, when there is one.
CondSignal ==
    IF Asleep = {} THEN UNCHANGED wpc
    ELSE \E w \in Asleep : wpc' = [wpc EXCEPT ![w] = "woken"]
-----------------------------------------------------------------------------
(* threadpool_init *)

\* malloc and pthread_create; the last thread ends the start.
CreateThread(w) ==
    /\ pc = "create" /\ wpc[w] = "unborn"
    /\ threads' = "live"
    /\ wpc' = [wpc EXCEPT ![w] = "routine"]
    /\ pc' = IF Worker \subseteq Created \cup {w} THEN "loop" ELSE pc
    /\ UNCHANGED <<running, queueVars, tq_lock, heap, new, joined, task>>

\* malloc fails, and main goes straight to its teardown.
ArrayFails ==
    /\ pc = "create" /\ CreateMayFail /\ threads = "none"
    /\ pc' = "teardown"
    /\ UNCHANGED <<running, queueVars, tq_lock, heap, new, threads, joined,
                   wpc, task>>

\* pthread_create fails after the array is there.
CreateFails ==
    /\ pc = "create" /\ CreateMayFail
    /\ running' = FALSE /\ threads' = "live" /\ pc' = "wake"
    /\ UNCHANGED <<queueVars, tq_lock, heap, new, joined, wpc, task>>

\* The broadcast of the failure path, without the mutex.
WakeUp ==
    /\ pc = "wake" /\ Broadcast /\ pc' = "reap"
    /\ UNCHANGED <<running, queueVars, tq_lock, heap, new, threads, joined,
                   task>>

\* pthread_join: the caller goes on when w has returned.
JoinThread(w) == /\ wpc[w] = "gone" /\ w \notin joined
                 /\ joined' = joined \cup {w}

Reap(w) ==
    /\ pc = "reap" /\ JoinThread(w)
    /\ UNCHANGED <<running, queueVars, tq_lock, heap, pc, new, threads, wpc,
                   task>>

ReapEnd ==
    /\ pc = "reap" /\ Created \subseteq joined
    /\ threads' = "freed" /\ pc' = "teardown"
    /\ UNCHANGED <<running, queueVars, tq_lock, heap, new, joined, wpc, task>>
-----------------------------------------------------------------------------
(* The main thread *)

\* task_enqueue: the task is allocated before the mutex is taken. The lines
\* of a client are read without a test of RUNNING between them, so some
\* tasks follow the signal.
NewTask(t) ==
    /\ pc = "loop" /\ t \notin heap
    /\ heap' = heap \cup {t} /\ new' = t
    /\ next' = [next EXCEPT ![t] = None]
    /\ pc' = "enqueue"
    /\ UNCHANGED <<running, tq_head, tq_tail, tq_count, tq_lock, threads,
                   joined, wpc, task>>

MainLock(from, to) ==
    /\ pc = from /\ tq_lock = None
    /\ tq_lock' = Main /\ pc' = to
    /\ UNCHANGED <<running, queueVars, heap, new, threads, joined, wpc, task>>

\* Deviation: the old tail does not learn of the new task.
Linked_TailOnly ==
    /\ tq_head' = IF tq_tail = None THEN new ELSE tq_head
    /\ tq_tail' = new /\ tq_count' = tq_count + 1
    /\ UNCHANGED next

Linked ==
    /\ tq_tail' = new /\ tq_count' = tq_count + 1
    /\ IF tq_tail = None THEN tq_head' = new /\ UNCHANGED next
       ELSE next' = [next EXCEPT ![tq_tail] = new] /\ UNCHANGED tq_head

\* Deviation: only the task that ends an empty queue is signalled.
Link_SignalFirst ==
    /\ pc = "link"
    /\ Linked
    /\ IF tq_head = None THEN CondSignal ELSE UNCHANGED wpc
    /\ tq_lock' = None /\ new' = None /\ pc' = "loop"
    /\ UNCHANGED <<running, heap, threads, joined, task>>

\* Deviation: nobody is signalled.
Link_Silent ==
    /\ pc = "link"
    /\ Linked
    /\ tq_lock' = None /\ new' = None /\ pc' = "loop"
    /\ UNCHANGED <<running, heap, threads, joined, wpc, task>>

\* Link the task, signal a consumer, unlock.
Link ==
    /\ pc = "link"
    /\ Linked
    /\ CondSignal
    /\ tq_lock' = None /\ new' = None /\ pc' = "loop"
    /\ UNCHANGED <<running, heap, threads, joined, task>>

\* A shutdown signal, which main takes once its mask is open.
Shutdown ==
    /\ running /\ pc \in {"loop", "enqueue", "link"}
    /\ running' = FALSE
    /\ UNCHANGED <<queueVars, tq_lock, heap, mainVars, wpc, task>>

LoopEnd ==
    /\ pc = "loop" /\ ~running
    /\ pc' = "teardown"
    /\ UNCHANGED <<running, queueVars, tq_lock, heap, new, threads, joined,
                   wpc, task>>
-----------------------------------------------------------------------------
(* Teardown: threadpool_destroy, task_destroy *)

Teardown ==
    /\ pc = "teardown"
    /\ running' = FALSE /\ pc' = "lock"
    /\ UNCHANGED <<queueVars, tq_lock, heap, new, threads, joined, wpc, task>>

\* Deviation: one worker is woken instead of all.
WakeAll_One ==
    /\ pc = "broadcast" /\ CondSignal
    /\ tq_lock' = None /\ pc' = "join"
    /\ UNCHANGED <<running, queueVars, heap, new, threads, joined, task>>

WakeAll ==
    /\ pc = "broadcast" /\ Broadcast
    /\ tq_lock' = None /\ pc' = "join"
    /\ UNCHANGED <<running, queueVars, heap, new, threads, joined, task>>

Join(w) ==
    /\ pc = "join" /\ threads = "live" /\ JoinThread(w)
    /\ UNCHANGED <<running, queueVars, tq_lock, heap, pc, new, threads, wpc,
                   task>>

\* The array is missing or freed: what pthread_join is given is no thread.
JoinNothing ==
    /\ pc = "join" /\ threads # "live"
    /\ pc' = "fault"
    /\ UNCHANGED <<running, queueVars, tq_lock, heap, new, threads, joined,
                   wpc, task>>

JoinEnd ==
    /\ pc = "join" /\ threads = "live" /\ joined = Worker
    /\ threads' = "none" /\ pc' = "destroy"
    /\ UNCHANGED <<running, queueVars, tq_lock, heap, new, joined, wpc, task>>

\* The tasks that can be reached from t.
Chain(t) ==
    LET step[n \in 0..Cardinality(Task)] ==
            IF n = 0 THEN {t} \ {None}
            ELSE step[n - 1] \cup ({next[u] : u \in step[n - 1]} \ {None})
    IN step[Cardinality(Task)]

\* Deviation: the head is freed, the rest is not.
Cleared_HeadOnly == heap' = heap \ {tq_head} /\ tq_head' = None

\* task_destroy frees from the head to the end of the list.
Cleared == heap' = heap \ Chain(tq_head) /\ tq_head' = None

Clear ==
    /\ pc = "clear" /\ Cleared
    /\ tq_lock' = None /\ pc' = "done"
    /\ UNCHANGED <<running, tq_tail, tq_count, next, new, threads, joined,
                   wpc, task>>
-----------------------------------------------------------------------------
(* The workers *)

\* while (RUNNING)
Routine(w) ==
    /\ wpc[w] = "routine"
    /\ wpc' = [wpc EXCEPT ![w] = IF running THEN "dequeue" ELSE "gone"]
    /\ UNCHANGED <<running, queueVars, tq_lock, heap, mainVars, task>>

\* pthread_mutex_lock, or the way out of pthread_cond_wait.
Lock(w) ==
    /\ wpc[w] \in {"dequeue", "woken"} /\ tq_lock = None
    /\ tq_lock' = w
    /\ wpc' = [wpc EXCEPT ![w] = "check"]
    /\ UNCHANGED <<running, queueVars, heap, mainVars, task>>

\* while (tq_head == NULL && RUNNING)
Check(w) ==
    /\ wpc[w] = "check"
    /\ wpc' = [wpc EXCEPT ![w] =
                  IF tq_head = None /\ running THEN "wait" ELSE "take"]
    /\ UNCHANGED <<running, queueVars, tq_lock, heap, mainVars, task>>

\* pthread_cond_wait unlocks and waits in one step.
CondWait(w) ==
    /\ wpc[w] = "wait"
    /\ tq_lock' = None
    /\ wpc' = [wpc EXCEPT ![w] = "asleep"]
    /\ UNCHANGED <<running, queueVars, heap, mainVars, task>>

\* pthread_cond_wait may return for no reason.
Spurious(w) ==
    /\ wpc[w] = "asleep"
    /\ wpc' = [wpc EXCEPT ![w] = "woken"]
    /\ UNCHANGED <<running, queueVars, tq_lock, heap, mainVars, task>>

\* if (!RUNNING) return NULL.
GiveUp(w) ==
    /\ wpc[w] = "take" /\ ~running
    /\ tq_lock' = None
    /\ wpc' = [wpc EXCEPT ![w] = "routine"]
    /\ UNCHANGED <<running, queueVars, heap, mainVars, task>>

\* Deviation: the tail is not reset with the last task.
Unlinked_KeepTail ==
    /\ tq_count' = tq_count - 1 /\ tq_head' = next[tq_head]
    /\ UNCHANGED <<tq_tail, next>>

Unlinked ==
    /\ tq_count' = tq_count - 1
    /\ tq_head' = IF tq_count = 1 THEN None ELSE next[tq_head]
    /\ tq_tail' = IF tq_count = 1 THEN None ELSE tq_tail
    /\ UNCHANGED next

Take(w) ==
    /\ wpc[w] = "take" /\ running
    /\ IF tq_head = None THEN UNCHANGED queueVars ELSE Unlinked
    /\ task' = [task EXCEPT ![w] = tq_head]
    /\ tq_lock' = None
    /\ wpc' = [wpc EXCEPT ![w] = IF tq_head = None THEN "routine" ELSE "work"]
    /\ UNCHANGED <<running, heap, mainVars>>

\* The task is done, and freed.
FreeTask(w) ==
    /\ wpc[w] = "work"
    /\ heap' = heap \ {task[w]}
    /\ task' = [task EXCEPT ![w] = None]
    /\ wpc' = [wpc EXCEPT ![w] = "routine"]
    /\ UNCHANGED <<running, queueVars, tq_lock, mainVars>>
-----------------------------------------------------------------------------
MainStep ==
    \/ \E w \in Worker : CreateThread(w) \/ Reap(w) \/ Join(w)
    \/ ArrayFails \/ CreateFails \/ WakeUp \/ ReapEnd
    \/ \E t \in Task : NewTask(t)
    \/ MainLock("enqueue", "link") \/ Link \/ LoopEnd
    \/ Teardown \/ MainLock("lock", "broadcast") \/ WakeAll
    \/ JoinNothing \/ JoinEnd \/ MainLock("destroy", "clear") \/ Clear

WorkerStep(w) ==
    \/ Routine(w) \/ Lock(w) \/ Check(w) \/ CondWait(w)
    \/ GiveUp(w) \/ Take(w) \/ FreeTask(w)

Next == \/ MainStep \/ Shutdown
        \/ \E w \in Worker : WorkerStep(w) \/ Spurious(w)

Spec == Init /\ [][Next]_vars

\* Every thread that can go on does.
Fairness == WF_vars(MainStep) /\ \A w \in Worker : WF_vars(WorkerStep(w))

FairSpec == Spec /\ Fairness
=============================================================================
