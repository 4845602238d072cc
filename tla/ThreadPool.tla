----------------------------- MODULE ThreadPool -----------------------------
(***************************************************************************)
(* ThreadPool and the MPMCQueue it waits on.  Every operation of the queue *)
(* holds queue_mutex_ from beginning to end, but for the wait; a worker    *)
(* that was woken has to get the mutex again, and others come before it.   *)
(***************************************************************************)
EXTENDS Integers, Sequences, FiniteSets

CONSTANTS
  Worker,     \* the worker threads there may be
  Task,       \* what can be submitted
  NoTask

ASSUME WorkerAssumption == IsFiniteSet(Worker) /\ NoTask \notin Task

VARIABLES
  pool,       \* the threads of workers_
  worker,     \* where each is in its loop: about to look at the queue, asleep
              \* in condition_.wait, in a task, or at its end
  running,    \* the task of a worker
  queue,      \* queue_
  shutdown    \* shutdown_

poolVars == <<pool, worker, running, queue, shutdown>>

At(s) == {w \in pool : worker[w] = s}

PoolInit ==
  /\ pool \in SUBSET Worker \ {{}}
  /\ worker = [w \in Worker |-> IF w \in pool THEN "looking" ELSE "exited"]
  /\ running = [w \in Worker |-> NoTask]
  /\ queue = <<>> /\ shutdown = FALSE

-----------------------------------------------------------------------------
\* condition_.notify_one: a worker that sleeps, if there is one, wakes up.
NotifyOne ==
  IF At("asleep") = {} THEN UNCHANGED worker
  ELSE \E w \in At("asleep") : worker' = [worker EXCEPT ![w] = "looking"]

\* Mutant: a worker is woken when the queue is not empty any more, and only then.
EnqueueToEmpty(task) ==
  /\ queue' = Append(queue, task)
  /\ IF queue = <<>> THEN NotifyOne ELSE UNCHANGED worker
  /\ UNCHANGED <<pool, running, shutdown>>

Enqueue(task) ==
  /\ queue' = Append(queue, task)
  /\ NotifyOne
  /\ UNCHANGED <<pool, running, shutdown>>

\* Mutant: the newest task comes first.
DequeueLast(w) ==
  /\ worker[w] = "looking" /\ queue # <<>> /\ ~shutdown
  /\ running' = [running EXCEPT ![w] = queue[Len(queue)]]
  /\ queue' = SubSeq(queue, 1, Len(queue) - 1)
  /\ worker' = [worker EXCEPT ![w] = "busy"]
  /\ UNCHANGED <<pool, shutdown>>

\* DequeueWait, with its three ends: a task, ...
Dequeue(w) ==
  /\ worker[w] = "looking" /\ queue # <<>> /\ ~shutdown
  /\ running' = [running EXCEPT ![w] = Head(queue)]
  /\ queue' = Tail(queue)
  /\ worker' = [worker EXCEPT ![w] = "busy"]
  /\ UNCHANGED <<pool, shutdown>>

\* ... the wait, ...
Sleep(w) ==
  /\ worker[w] = "looking" /\ queue = <<>> /\ ~shutdown
  /\ worker' = [worker EXCEPT ![w] = "asleep"]
  /\ UNCHANGED <<pool, running, queue, shutdown>>

\* ... and the empty task that ends the thread.
Exit(w) ==
  /\ worker[w] = "looking" /\ shutdown
  /\ worker' = [worker EXCEPT ![w] = "exited"]
  /\ UNCHANGED <<pool, running, queue, shutdown>>

\* A condition variable may wake who waits for no reason.
WakeUp(w) ==
  /\ worker[w] = "asleep"
  /\ worker' = [worker EXCEPT ![w] = "looking"]
  /\ UNCHANGED <<pool, running, queue, shutdown>>

Done(w) ==
  /\ worker[w] = "busy"
  /\ worker' = [worker EXCEPT ![w] = "looking"]
  /\ running' = [running EXCEPT ![w] = NoTask]
  /\ UNCHANGED <<pool, queue, shutdown>>

\* Cancel, the first half of ~ThreadPool: what is queued is dropped.
Cancel ==
  /\ queue' = <<>> /\ shutdown' = TRUE
  /\ worker' = [w \in Worker |-> IF w \in At("asleep") THEN "looking" ELSE worker[w]]
  /\ UNCHANGED <<pool, running>>

\* The second half: every thread can be joined.
Joined == \A w \in pool : worker[w] = "exited"

-----------------------------------------------------------------------------
(* The pool by itself: anybody submits until it is destroyed, once.        *)

PoolNext ==
  \/ ~shutdown /\ (Cancel \/ \E task \in Task : Enqueue(task))
  \/ \E w \in pool : Dequeue(w) \/ Sleep(w) \/ Exit(w) \/ WakeUp(w) \/ Done(w)

PoolSpec == PoolInit /\ [][PoolNext]_poolVars

-----------------------------------------------------------------------------
\* Every variable of the pool keeps its type, and a worker has a task
\* exactly while it is busy.
PoolTypeOK ==
  /\ pool \in SUBSET Worker
  /\ worker \in [Worker -> {"looking", "asleep", "busy", "exited"}]
  /\ running \in [Worker -> Task \cup {NoTask}]
  /\ queue \in Seq(Task)
  /\ shutdown \in BOOLEAN
  /\ \A w \in Worker : running[w] = NoTask <=> worker[w] # "busy"

\* While a worker sleeps there is for every queued task one that will look
\* at the queue; so no task waits for a worker that nobody wakes.  None
\* sleeps when the pool is being destroyed.
NoLostWakeUp ==
  At("asleep") # {} => ~shutdown /\ Len(queue) <= Cardinality(At("looking"))
=============================================================================
