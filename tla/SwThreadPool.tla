---------------------------- MODULE SwThreadPool ----------------------------
(***************************************************************************)
(* The thread pool of swoole (src/network/ThreadPool.c), which runs its    *)
(* asynchronous I/O: threads that dispatch tasks, worker threads that wait *)
(* on a condition variable (src/lock/Cond.c), and the thread that frees    *)
(* the pool.  The ring of tasks is used under the mutex of the condition;  *)
(* task_num, shutdown and the signals are not, so each access of those is  *)
(* a step of its own.                                                      *)
(***************************************************************************)
EXTENDS SwRingQueue, FiniteSets

CONSTANTS Workers, Dispatchers,
          WordMax   \* the largest value of task_num, 2^32 - 1 in the code

ASSUME PoolAssumption == WordMax \in Nat /\ IsFiniteSet(Workers) /\ IsFiniteSet(Dispatchers)

Nobody == "nobody"

VARIABLES
    queue,     \* pool->queue
    task_num,  \* pool->task_num, an unsigned word
    shutdown,  \* pool->shutdown
    running,   \* SwooleG.running
    mutex,     \* who holds pool->cond._lock
    wpc,       \* where each worker is in swThreadPool_loop
    task,      \* the task each worker has popped, 0 for none
    dpc,       \* where each dispatcher is in swThreadPool_dispatch
    fpc,       \* where swThreadPool_free is
    sent, done \* the tasks that were accepted, and that were run

vars == <<queue, task_num, shutdown, running, mutex, wpc, task, dpc, fpc, sent, done>>

WPCs == {"top", "lock", "locked", "test", "wait", "waiting", "relock", "pop", "dec", "run", "exited"}

Add(n, k) == (n + k) % (WordMax + 1)

TypeOK ==
    /\ queue \in Ring
    /\ task_num \in 0 .. WordMax /\ shutdown \in BOOLEAN /\ running \in BOOLEAN
    /\ mutex \in Workers \cup {Nobody}
    /\ wpc \in [Workers -> WPCs] /\ task \in [Workers -> Elements \cup {0}]
    /\ dpc \in [Dispatchers -> {"idle", "count", "notify"}]
    /\ fpc \in {"up", "broadcast", "join", "freed"}
    /\ sent \subseteq Elements /\ done \subseteq Elements

Init == /\ queue = EmptyRing /\ task_num = 0 /\ shutdown = FALSE /\ running = TRUE
        /\ mutex = Nobody
        /\ wpc = [w \in Workers |-> "top"] /\ task = [w \in Workers |-> 0]
        /\ dpc = [d \in Dispatchers |-> "idle"] /\ fpc = "up"
        /\ sent = {} /\ done = {}

-----------------------------------------------------------------------------
(***************************************************************************)
(* swThreadPool_dispatch: push under the lock; count and signal after it.  *)
(***************************************************************************)

\* Each task is dispatched once; a full ring refuses it.
Dispatch(d) ==
    /\ dpc[d] = "idle" /\ mutex = Nobody /\ fpc = "up"
    /\ ~IsFull(queue)
    /\ \E x \in Elements \ sent :
         /\ queue' = RingPush(queue, x)
         /\ sent' = sent \cup {x}
    /\ dpc' = [dpc EXCEPT ![d] = "count"]
    /\ UNCHANGED <<task_num, shutdown, running, mutex, wpc, task, fpc, done>>

Count(d) ==
    /\ dpc[d] = "count"
    /\ task_num' = Add(task_num, 1)
    /\ dpc' = [dpc EXCEPT ![d] = "notify"]
    /\ UNCHANGED <<queue, shutdown, running, mutex, wpc, task, fpc, sent, done>>

\* pthread_cond_signal wakes one of the threads that wait, if any.
Notify(d) ==
    /\ dpc[d] = "notify"
    /\ dpc' = [dpc EXCEPT ![d] = "idle"]
    /\ IF \E w \in Workers : wpc[w] = "waiting"
       THEN \E w \in Workers : wpc[w] = "waiting" /\ wpc' = [wpc EXCEPT ![w] = "relock"]
       ELSE UNCHANGED wpc
    /\ UNCHANGED <<queue, task_num, shutdown, running, mutex, task, fpc, sent, done>>

-----------------------------------------------------------------------------
(***************************************************************************)
(* swThreadPool_loop.                                                      *)
(***************************************************************************)

WorkerAt(w, from, to) == wpc[w] = from /\ wpc' = [wpc EXCEPT ![w] = to]

Loop(w) ==
    /\ IF running THEN WorkerAt(w, "top", "lock") ELSE WorkerAt(w, "top", "exited")
    /\ UNCHANGED <<queue, task_num, shutdown, running, mutex, task, dpc, fpc, sent, done>>

Lock(w) ==
    /\ mutex = Nobody /\ mutex' = w
    /\ WorkerAt(w, "lock", "locked") \/ WorkerAt(w, "relock", "pop")
    /\ UNCHANGED <<queue, task_num, shutdown, running, task, dpc, fpc, sent, done>>

CheckShutdown(w) ==
    /\ IF shutdown THEN WorkerAt(w, "locked", "exited") /\ mutex' = Nobody
                   ELSE WorkerAt(w, "locked", "test") /\ UNCHANGED mutex
    /\ UNCHANGED <<queue, task_num, shutdown, running, task, dpc, fpc, sent, done>>

TestCount(w) ==
    /\ IF task_num = 0 THEN WorkerAt(w, "test", "wait") ELSE WorkerAt(w, "test", "pop")
    /\ UNCHANGED <<queue, task_num, shutdown, running, mutex, task, dpc, fpc, sent, done>>

\* pthread_cond_wait: unlock and wait in one step; it may also wake by itself.
Wait(w) ==
    /\ WorkerAt(w, "wait", "waiting")
    /\ mutex' = Nobody
    /\ UNCHANGED <<queue, task_num, shutdown, running, task, dpc, fpc, sent, done>>

SpuriousWakeup(w) ==
    /\ WorkerAt(w, "waiting", "relock")
    /\ UNCHANGED <<queue, task_num, shutdown, running, mutex, task, dpc, fpc, sent, done>>

\* A worker that finds the ring empty still takes the count down.
Pop_AlwaysCounted(w) ==
    /\ WorkerAt(w, "pop", "dec")
    /\ IF IsEmpty(queue) THEN UNCHANGED <<queue, task>>
       ELSE queue' = RingPop(queue) /\ task' = [task EXCEPT ![w] = RingHead(queue)]
    /\ mutex' = Nobody
    /\ UNCHANGED <<task_num, shutdown, running, dpc, fpc, sent, done>>

Pop(w) ==
    /\ IF IsEmpty(queue)
       THEN WorkerAt(w, "pop", "top") /\ UNCHANGED <<queue, task>>
       ELSE /\ WorkerAt(w, "pop", "dec")
            /\ queue' = RingPop(queue)
            /\ task' = [task EXCEPT ![w] = RingHead(queue)]
    /\ mutex' = Nobody
    /\ UNCHANGED <<task_num, shutdown, running, dpc, fpc, sent, done>>

Uncount(w) ==
    /\ WorkerAt(w, "dec", "run")
    /\ task_num' = Add(task_num, WordMax)
    /\ UNCHANGED <<queue, shutdown, running, mutex, task, dpc, fpc, sent, done>>

\* pool->onTask.
Run(w) ==
    /\ WorkerAt(w, "run", "top")
    /\ done' = done \cup {task[w]}
    /\ task' = [task EXCEPT ![w] = 0]
    /\ UNCHANGED <<queue, task_num, shutdown, running, mutex, dpc, fpc, sent>>

-----------------------------------------------------------------------------
(***************************************************************************)
(* swThreadPool_free, by a thread that dispatches: nobody dispatches then. *)
(* A server or a worker process that ends takes SwooleG.running back.      *)
(***************************************************************************)

Stop ==
    /\ running /\ running' = FALSE
    /\ UNCHANGED <<queue, task_num, shutdown, mutex, wpc, task, dpc, fpc, sent, done>>

Shutdown ==
    /\ fpc = "up" /\ \A d \in Dispatchers : dpc[d] = "idle"
    /\ fpc' = "broadcast" /\ shutdown' = TRUE
    /\ UNCHANGED <<queue, task_num, running, mutex, wpc, task, dpc, sent, done>>

Broadcast ==
    /\ fpc = "broadcast" /\ fpc' = "join"
    /\ wpc' = [w \in Workers |-> IF wpc[w] = "waiting" THEN "relock" ELSE wpc[w]]
    /\ UNCHANGED <<queue, task_num, shutdown, running, mutex, task, dpc, sent, done>>

Joined ==
    /\ fpc = "join" /\ \A w \in Workers : wpc[w] = "exited"
    /\ fpc' = "freed"
    /\ UNCHANGED <<queue, task_num, shutdown, running, mutex, wpc, task, dpc, sent, done>>

Dispatching(d) == Dispatch(d) \/ Count(d) \/ Notify(d)
Working(w) == \/ Loop(w) \/ CheckShutdown(w) \/ TestCount(w) \/ Wait(w)
              \/ Pop(w) \/ Uncount(w) \/ Run(w)

Next == \/ \E d \in Dispatchers : Dispatching(d)
        \/ \E w \in Workers : Lock(w) \/ Working(w) \/ SpuriousWakeup(w)
        \/ Stop \/ Shutdown \/ Broadcast \/ Joined

Spec == Init /\ [][Next]_vars

\* Threads run, and a mutex that is free again and again is got in the end.
FairSpec == /\ Spec
            /\ \A w \in Workers : WF_vars(Working(w)) /\ SF_vars(Lock(w))
            /\ \A d \in Dispatchers : WF_vars(Count(d)) /\ WF_vars(Notify(d))
            /\ WF_vars(Broadcast) /\ WF_vars(Joined)

-----------------------------------------------------------------------------
(***************************************************************************)
(* What the pool promises.                                                 *)
(***************************************************************************)

\* A task that was accepted is in the ring, in the hands of one worker or
\* run, and never in two of these: no task is lost, overwritten in the full
\* ring (swRingQueue_push) or taken by two workers (swThreadPool_loop).
EachTaskOnce ==
    \A x \in Elements :
        LET slots == {i \in DOMAIN Contents(queue) : Contents(queue)[i] = x}
            hands == {w \in Workers : task[w] = x}
        IN  Cardinality(slots) + Cardinality(hands) + Cardinality({x} \cap done)
              = IF x \in sent THEN 1 ELSE 0

\* The count differs from the number of tasks in the ring by the calls that
\* have pushed and not yet counted, and those that have popped and not yet
\* uncounted; it may pass below zero meanwhile (swThreadPool_dispatch counts
\* after its unlock, swThreadPool_loop too), and settles on the ring.
CountSettles ==
    task_num = (RingCount(queue) + Cardinality({w \in Workers : wpc[w] = "dec"})
                 - Cardinality({d \in Dispatchers : dpc[d] = "count"})) % (WordMax + 1)

\* Whatever the threads do, tasks leave the ring in the order in which
\* swThreadPool_dispatch accepted them.
Fifo == INSTANCE BoundedFifo WITH items <- Contents(queue), Capacity <- Size
ImplementsFifo == Fifo!Spec

\* Every task accepted is run, unless the pool is being taken down: an
\* asynchronous call that returned success calls its callback in the end.
TasksRun == \A x \in Elements : x \in sent ~> (x \in done \/ shutdown \/ ~running)

\* swThreadPool_free wakes and joins every thread of the pool, and returns.
FreeReturns == shutdown ~> fpc = "freed"
=============================================================================
