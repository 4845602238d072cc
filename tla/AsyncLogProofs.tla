--------------------------- MODULE AsyncLogProofs ---------------------------
(***************************************************************************)
(* TLAPS proofs about ThreadPool and AsyncLog: no wake-up of the pool is   *)
(* lost; one thread destroys the pool, and whoever submits a task finds it *)
(* alive; every line is written once, by one worker in the order of the    *)
(* calls; for any number of threads that log, of messages and of workers.  *)
(***************************************************************************)
EXTENDS AsyncLog, FiniteSetTheorems, TLAPS

-----------------------------------------------------------------------------
(* The pool by itself.                                                     *)

LEMMA AtIsFinite ==
  ASSUME PoolTypeOK, NEW s
  PROVE  IsFiniteSet(At(s)) /\ Cardinality(At(s)) \in Nat
<1>1. At(s) \subseteq Worker
  BY DEF PoolTypeOK, At
<1>2. IsFiniteSet(At(s))
  BY <1>1, WorkerAssumption, FS_Subset
<1> QED
  BY <1>2, FS_CardinalityType

\* One worker begins to look at the queue.
LEMMA OneMoreLooks ==
  ASSUME PoolTypeOK, NEW w \in pool, worker[w] # "looking",
         worker' = [worker EXCEPT ![w] = "looking"], pool' = pool
  PROVE  /\ At("asleep")' \subseteq At("asleep")
         /\ Cardinality(At("looking")') = Cardinality(At("looking")) + 1
         /\ Cardinality(At("looking")) \in Nat
<1>1. At("looking")' = At("looking") \cup {w}
  BY DEF PoolTypeOK, At
<1>2. w \notin At("looking")
  BY DEF At
<1>3. IsFiniteSet(At("looking")) /\ Cardinality(At("looking")) \in Nat
  BY AtIsFinite
<1>4. Cardinality(At("looking") \cup {w}) = Cardinality(At("looking")) + 1
  BY <1>2, <1>3, FS_AddElement
<1>5. At("asleep")' \subseteq At("asleep")
  BY DEF PoolTypeOK, At
<1> QED
  BY <1>1, <1>3, <1>4, <1>5

\* One worker that looked at the queue does not any more.
LEMMA OneLessLooks ==
  ASSUME PoolTypeOK, NEW w \in pool, worker[w] = "looking",
         NEW s, s # "looking",
         worker' = [worker EXCEPT ![w] = s], pool' = pool
  PROVE  /\ s # "asleep" => At("asleep")' = At("asleep")
         /\ Cardinality(At("looking")') = Cardinality(At("looking")) - 1
         /\ Cardinality(At("looking")) \in Nat
<1>1. At("looking")' = At("looking") \ {w}
  BY DEF PoolTypeOK, At
<1>2. w \in At("looking")
  BY DEF At
<1>3. IsFiniteSet(At("looking")) /\ Cardinality(At("looking")) \in Nat
  BY AtIsFinite
<1>4. Cardinality(At("looking") \ {w}) = Cardinality(At("looking")) - 1
  BY <1>2, <1>3, FS_RemoveElement
<1>5. s # "asleep" => At("asleep")' = At("asleep")
  BY DEF PoolTypeOK, At
<1> QED
  BY <1>1, <1>3, <1>4, <1>5

-----------------------------------------------------------------------------
LEMMA PoolTypeStep ==
  ASSUME PoolTypeOK, [PoolNext]_poolVars
  PROVE  PoolTypeOK'
<1>1. CASE UNCHANGED poolVars
  BY <1>1 DEF poolVars, PoolTypeOK
<1>2. CASE Cancel
  <2>1. queue' \in Seq(Task)
    BY <1>2 DEF Cancel
  <2>2. worker' \in [Worker -> {"looking", "asleep", "busy", "exited"}]
    BY <1>2 DEF Cancel, PoolTypeOK
  <2>3. \A w \in Worker : worker'[w] # "busy" <=> worker[w] # "busy"
    BY <1>2 DEF Cancel, At, PoolTypeOK
  <2> QED
    BY <1>2, <2>1, <2>2, <2>3 DEF Cancel, PoolTypeOK
<1>3. ASSUME NEW task \in Task, Enqueue(task)
      PROVE  PoolTypeOK'
  <2>1. queue' \in Seq(Task)
    BY <1>3 DEF Enqueue, PoolTypeOK
  <2>2. CASE UNCHANGED worker
    BY <1>3, <2>1, <2>2 DEF Enqueue, PoolTypeOK
  <2>3. ASSUME NEW w \in At("asleep"), worker' = [worker EXCEPT ![w] = "looking"]
        PROVE  PoolTypeOK'
    BY <1>3, <2>1, <2>3 DEF Enqueue, PoolTypeOK, At
  <2> QED
    BY <1>3, <2>2, <2>3 DEF Enqueue, NotifyOne
<1>4. ASSUME NEW w \in pool, Dequeue(w)
      PROVE  PoolTypeOK'
  <2>1. Head(queue) \in Task /\ Tail(queue) \in Seq(Task)
    BY <1>4 DEF Dequeue, PoolTypeOK
  <2>2. Head(queue) # NoTask
    BY <2>1, WorkerAssumption
  <2> QED
    BY <1>4, <2>1, <2>2 DEF Dequeue, PoolTypeOK
<1>5. ASSUME NEW w \in pool, Sleep(w) \/ Exit(w) \/ WakeUp(w)
      PROVE  PoolTypeOK'
  BY <1>5 DEF Sleep, Exit, WakeUp, PoolTypeOK
<1>6. ASSUME NEW w \in pool, Done(w)
      PROVE  PoolTypeOK'
  BY <1>6 DEF Done, PoolTypeOK
<1> QED
  BY <1>1, <1>2, <1>3, <1>4, <1>5, <1>6 DEF PoolNext

LEMMA WakeUpStep ==
  ASSUME PoolTypeOK, NoLostWakeUp, [PoolNext]_poolVars
  PROVE  NoLostWakeUp'
<1> SUFFICES ASSUME At("asleep")' # {}
             PROVE  ~shutdown' /\ Len(queue') <= Cardinality(At("looking")')
  BY DEF NoLostWakeUp
<1>len. Len(queue) \in Nat /\ queue \in Seq(Task)
  BY DEF PoolTypeOK
<1>1. CASE UNCHANGED poolVars
  BY <1>1 DEF poolVars, NoLostWakeUp, At
<1>2. CASE Cancel
  <2>1. At("asleep")' = {}
    BY <1>2 DEF Cancel, At, PoolTypeOK
  <2> QED
    BY <2>1
<1>3. ASSUME NEW task \in Task, Enqueue(task), ~shutdown
      PROVE  ~shutdown' /\ Len(queue') <= Cardinality(At("looking")')
  <2>1. Len(queue') = Len(queue) + 1 /\ ~shutdown'
    BY <1>3, <1>len DEF Enqueue
  <2>2. At("asleep") # {}
    BY <1>3 DEF Enqueue, NotifyOne, At
  <2>3. PICK w \in At("asleep") : worker' = [worker EXCEPT ![w] = "looking"]
    BY <1>3, <2>2 DEF Enqueue, NotifyOne
  <2>4. w \in pool /\ worker[w] # "looking"
    BY DEF At
  <2>5. /\ Cardinality(At("looking")') = Cardinality(At("looking")) + 1
        /\ Cardinality(At("looking")) \in Nat
    BY <1>3, <2>3, <2>4, OneMoreLooks DEF Enqueue
  <2>6. Len(queue) <= Cardinality(At("looking"))
    BY <2>2 DEF NoLostWakeUp
  <2> QED
    BY <1>len, <2>1, <2>5, <2>6
<1>4. ASSUME NEW w \in pool, Dequeue(w)
      PROVE  ~shutdown' /\ Len(queue') <= Cardinality(At("looking")')
  <2>1. Len(queue') = Len(queue) - 1 /\ ~shutdown'
    BY <1>4, <1>len DEF Dequeue
  <2>2. /\ At("asleep")' = At("asleep")
        /\ Cardinality(At("looking")') = Cardinality(At("looking")) - 1
        /\ Cardinality(At("looking")) \in Nat
    <3>1. worker[w] = "looking" /\ worker' = [worker EXCEPT ![w] = "busy"] /\ pool' = pool
      BY <1>4 DEF Dequeue
    <3>2. "busy" # "looking" /\ "busy" # "asleep"
      OBVIOUS
    <3> QED
      BY <3>1, <3>2, OneLessLooks, Zenon
  <2>3. Len(queue) <= Cardinality(At("looking"))
    BY <2>2 DEF NoLostWakeUp
  <2> QED
    BY <1>len, <2>1, <2>2, <2>3
<1>5. ASSUME NEW w \in pool, Sleep(w)
      PROVE  ~shutdown' /\ Len(queue') <= Cardinality(At("looking")')
  <2>1. PoolTypeOK'
    BY <1>5, PoolTypeStep DEF PoolNext
  <2>2. Len(queue') = 0 /\ ~shutdown'
    BY <1>5 DEF Sleep
  <2>3. Cardinality(At("looking")') \in Nat
    <3>1. At("looking")' \subseteq Worker
      BY <2>1 DEF PoolTypeOK, At
    <3> QED
      BY <3>1, WorkerAssumption, FS_Subset, FS_CardinalityType
  <2> QED
    BY <2>2, <2>3
<1>6. ASSUME NEW w \in pool, Exit(w)
      PROVE  FALSE
  <2>1. At("asleep") = {}
    BY <1>6 DEF Exit, NoLostWakeUp
  <2> QED
    BY <1>6, <2>1 DEF Exit, At, PoolTypeOK
<1>7. ASSUME NEW w \in pool, WakeUp(w) \/ Done(w)
      PROVE  ~shutdown' /\ Len(queue') <= Cardinality(At("looking")')
  <2>1. /\ At("asleep")' \subseteq At("asleep")
        /\ Cardinality(At("looking")') = Cardinality(At("looking")) + 1
        /\ Cardinality(At("looking")) \in Nat
    BY <1>7, OneMoreLooks DEF WakeUp, Done
  <2>2. ~shutdown /\ Len(queue) <= Cardinality(At("looking"))
    BY <2>1 DEF NoLostWakeUp
  <2>3. queue' = queue /\ shutdown' = shutdown
    BY <1>7 DEF WakeUp, Done
  <2> QED
    BY <1>len, <2>1, <2>2, <2>3
<1> QED
  BY <1>1, <1>2, <1>3, <1>4, <1>5, <1>6, <1>7 DEF PoolNext

LEMMA PoolInitOK == PoolInit => PoolTypeOK /\ NoLostWakeUp
<1> SUFFICES ASSUME PoolInit
             PROVE  PoolTypeOK /\ NoLostWakeUp
  OBVIOUS
<1>1. queue \in Seq(Task)
  BY DEF PoolInit
<1>2. PoolTypeOK
  BY <1>1, WorkerAssumption DEF PoolInit, PoolTypeOK
<1>3. At("asleep") = {}
  BY DEF PoolInit, At
<1> QED
  BY <1>2, <1>3 DEF NoLostWakeUp

\* Every variable of the thread pool keeps its type, and a worker has a task
\* exactly while it is in one: the loop of ThreadPool's threads between
\* DequeueWait and the end of the task.
THEOREM PoolTypeCorrect == PoolSpec => []PoolTypeOK
<1>1. PoolInit => PoolTypeOK
  BY PoolInitOK
<1>2. PoolTypeOK /\ [PoolNext]_poolVars => PoolTypeOK'
  BY PoolTypeStep
<1> QED
  BY <1>1, <1>2, PTL DEF PoolSpec

\* While a worker sleeps in condition_.wait, as many others look at the queue
\* as it has tasks, and the pool is not being destroyed: the notify_one of
\* Enqueue and the notify_all of Cancel lose no wake-up.
THEOREM PoolWakesUp == PoolSpec => []NoLostWakeUp
<1>1. PoolInit => PoolTypeOK /\ NoLostWakeUp
  BY PoolInitOK
<1>2. PoolTypeOK /\ NoLostWakeUp /\ [PoolNext]_poolVars => (PoolTypeOK /\ NoLostWakeUp)'
  BY PoolTypeStep, WakeUpStep
<1> QED
  BY <1>1, <1>2, PTL DEF PoolSpec

-----------------------------------------------------------------------------
(* The log: who holds the pool and who destroys it.                        *)

MainPc    == {"idle", "flush_all", "flush", "flush_submit", "flush_release", "flushed",
              "stop_flusher", "join_flusher", "drop_all", "reset", "cancel", "join",
              "exited"}
FlusherPc == {"idle", "flush_all", "flush", "flush_submit", "flush_release", "flushed",
              "exited"}
LoggingPc == {"idle", "submit", "release", "cancel", "join"}

PcOK ==
  /\ pc = [t \in Thread |-> pc[t]]
  /\ pc[Main] \in MainPc /\ pc[Flusher] \in FlusherPc
  /\ \A t \in Logging : pc[t] \in LoggingPc

LogsOK ==
  /\ logs = [t \in Logging |-> logs[t]]
  /\ \A t \in Logging : logs[t] \in 0..MaxLogs[t] /\ (pc[t] = "submit" => logs[t] # 0)

\* The hub holds the pool until Shutdown resets it, a thread while it submits.
HubOwns == Hub \in owners <=> pc[Main] \notin {"cancel", "join", "exited"}

Holds(t)      == pc[t] \in {"submit", "release", "flush_submit", "flush_release"}
Destroying(t) == pc[t] \in {"cancel", "join"}

HoldersOwn == \A t \in Thread : Holds(t) => t \in owners

\* Nobody destroys a pool that somebody holds, and one thread does it.
OwnedIsAlive == owners # {} => ~shutdown /\ \A t \in Thread : ~Destroying(t)

OneDestroys ==
  \A t \in Thread : pc[t] = "cancel" =>
    ~shutdown /\ \A u \in Thread \ {t} : ~Destroying(u)

\* The flusher has ended before the pool is let go of.
FlusherGone ==
  pc[Main] \in {"drop_all", "reset", "cancel", "join", "exited"} => pc[Flusher] = "exited"

LogInv ==
  /\ PcOK /\ LogsOK /\ HubOwns /\ HoldersOwn /\ OwnedIsAlive /\ OneDestroys /\ FlusherGone
  /\ FlushFindsThePool

USE LogAssumption DEF Main, Flusher, Hub, Thread

-----------------------------------------------------------------------------
LEMMA InitInv == Init => LogInv
<1> SUFFICES ASSUME Init
             PROVE  LogInv
  OBVIOUS
<1>1. pc \in [Thread -> {"idle", "exited"}] /\ pc["main"] = "idle"
       /\ \A t \in Logging : pc[t] = "idle"
  BY DEF Init
<1>2. PcOK /\ LogsOK
  BY <1>1 DEF Init, PcOK, LogsOK, MainPc, FlusherPc, LoggingPc
<1>3. HubOwns /\ HoldersOwn /\ OneDestroys /\ FlusherGone
  BY <1>1 DEF Init, HubOwns, HoldersOwn, OneDestroys, FlusherGone, Holds
<1>4. OwnedIsAlive
  BY <1>1 DEF Init, PoolInit, OwnedIsAlive, Destroying
<1> QED
  BY <1>2, <1>3, <1>4 DEF LogInv, FlushFindsThePool, Init

\* The steps that only move a thread, from a place where it neither holds nor
\* destroys the pool to another one.
LEMMA MoveStep ==
  ASSUME LogInv, NEW t \in Thread, NEW s,
         ~Holds(t), pc[t] # "cancel",
         s \notin {"submit", "release", "flush_submit", "flush_release", "cancel", "join"},
         pc' = [pc EXCEPT ![t] = s],
         UNCHANGED <<shutdown, owners, logs, thrown>>,
         t = Main => s \in MainPc /\ (s = "exited" <=> pc[t] \in {"join", "exited"})
                     /\ (s \in {"drop_all", "reset", "exited"} => pc[Flusher] = "exited"),
         t = Flusher => s \in FlusherPc /\ pc[t] # "exited",
         t \in Logging => s = "idle"
  PROVE  LogInv'
<1>1. PcOK' /\ LogsOK'
  BY DEF LogInv, PcOK, LogsOK, LoggingPc
<1>2. HubOwns' /\ FlusherGone'
  BY DEF LogInv, PcOK, HubOwns, FlusherGone, Holds
<1>3. HoldersOwn' /\ OwnedIsAlive' /\ OneDestroys'
  BY DEF LogInv, PcOK, HoldersOwn, OwnedIsAlive, OneDestroys, Holds, Destroying
<1> QED
  BY <1>1, <1>2, <1>3 DEF LogInv, FlushFindsThePool

\* A thread lets go of its shared_ptr of the pool, and destroys the pool if it
\* was the last.
LEMMA LetGoStep ==
  ASSUME LogInv, NEW t \in Thread, NEW owner, NEW next,
         \/ t \in Logging /\ owner = t /\ Holds(t) /\ next = "idle"
         \/ t = Main /\ owner = Hub /\ pc[t] = "reset" /\ next = "exited"
         \/ t \in {Main, Flusher} /\ owner = t /\ Holds(t) /\ next = "flushed",
         LetGo(t, owner, next),
         UNCHANGED <<shutdown, logs, thrown>>
  PROVE  LogInv'
<1> DEFINE s == IF owners' = {} THEN "cancel" ELSE next
<1>1. pc' = [pc EXCEPT ![t] = s] /\ owners' = owners \ {owner}
  BY DEF LetGo, Goto
<1>2. owner \in owners
  BY DEF LogInv, HubOwns, HoldersOwn, Holds
<1>3. ~shutdown /\ \A u \in Thread : ~Destroying(u)
  BY <1>2 DEF LogInv, OwnedIsAlive
<1>4. t \in {Main, Flusher} /\ owner = t => Hub \in owners'
  <2>1. pc[Main] \notin {"cancel", "join"}
    BY <1>3 DEF Destroying
  <2>2. pc[Main] = "exited" => t # Main /\ ~Holds(Flusher)
    BY DEF LogInv, FlusherGone, Holds
  <2> QED
    BY <1>1, <2>1, <2>2 DEF LogInv, HubOwns
<1>5. t \in {Main, Flusher} => s \in {"flushed", "exited", "cancel"}
       /\ (owner = t => s = "flushed") /\ (owner = Hub => s \in {"exited", "cancel"})
  BY <1>4
<1>6. t \in Logging => s \in {"idle", "cancel"}
  OBVIOUS
<1>7. PcOK' /\ LogsOK'
  BY <1>1, <1>5, <1>6 DEF LogInv, PcOK, LogsOK, LoggingPc, MainPc, FlusherPc
<1>8. HubOwns' /\ FlusherGone'
  BY <1>1, <1>3, <1>5, <1>6 DEF LogInv, PcOK, HubOwns, FlusherGone, Holds, Destroying
<1>9. HoldersOwn'
  BY <1>1, <1>5, <1>6 DEF LogInv, PcOK, HoldersOwn, Holds
<1>10. OwnedIsAlive' /\ OneDestroys'
  BY <1>1, <1>3 DEF LogInv, PcOK, OwnedIsAlive, OneDestroys, Destroying
<1> QED
  BY <1>7, <1>8, <1>9, <1>10 DEF LogInv, FlushFindsThePool

\* A thread takes a shared_ptr of a pool that somebody holds.
LEMMA TakeStep ==
  ASSUME LogInv, NEW t \in Thread, NEW s, owners # {},
         owners' = owners \cup {t}, pc' = [pc EXCEPT ![t] = s],
         UNCHANGED <<shutdown, thrown>>,
         s \in {"submit", "release", "flush_submit", "flush_release"},
         t = Main => pc[t] \in {"flush", "flush_submit"} /\ s \in {"flush_submit", "flush_release"},
         t = Flusher => pc[t] # "exited" /\ s \in {"flush_submit", "flush_release"},
         t \in Logging => s \in {"submit", "release"},
         LogsOK'
  PROVE  LogInv'
<1>1. PcOK'
  BY DEF LogInv, PcOK, LoggingPc, MainPc, FlusherPc
<1>2. HubOwns' /\ FlusherGone'
  BY DEF LogInv, PcOK, HubOwns, FlusherGone
<1>3. HoldersOwn' /\ OwnedIsAlive' /\ OneDestroys'
  BY DEF LogInv, PcOK, HoldersOwn, OwnedIsAlive, OneDestroys, Holds, Destroying
<1> QED
  BY <1>1, <1>2, <1>3 DEF LogInv, FlushFindsThePool

\* The thread that found itself the last owner begins to destroy the pool.
LEMMA CancelStep ==
  ASSUME LogInv, NEW t \in Thread, CancelPool(t)
  PROVE  LogInv'
<1>1. pc[t] = "cancel" /\ pc' = [pc EXCEPT ![t] = "join"]
      /\ UNCHANGED <<owners, logs, thrown>>
  BY DEF CancelPool, Goto
<1>2. owners = {} /\ \A u \in Thread \ {t} : ~Destroying(u)
  BY <1>1 DEF LogInv, OwnedIsAlive, OneDestroys, Destroying
<1>3. t # Flusher
  BY <1>1 DEF LogInv, PcOK, FlusherPc
<1>4. PcOK' /\ LogsOK'
  BY <1>1, <1>3 DEF LogInv, PcOK, LogsOK, LoggingPc, MainPc
<1>5. HubOwns' /\ FlusherGone'
  BY <1>1, <1>3 DEF LogInv, PcOK, HubOwns, FlusherGone
<1>6. HoldersOwn' /\ OwnedIsAlive' /\ OneDestroys'
  BY <1>1, <1>2 DEF LogInv, PcOK, HoldersOwn, OwnedIsAlive, OneDestroys, Holds, Destroying
<1> QED
  BY <1>1, <1>4, <1>5, <1>6 DEF LogInv, FlushFindsThePool

-----------------------------------------------------------------------------
(* The steps of each kind of thread.                                       *)

LEMMA LoggingStep ==
  ASSUME LogInv, NEW t \in Logging, Log(t) \/ LogStep(t)
  PROVE  LogInv' /\ [PoolNext]_poolVars
<1>pc. pc[t] \in LoggingPc /\ t \in Thread /\ t # Main /\ t # Flusher
  BY DEF LogInv, PcOK
<1>1. CASE Log(t)
  <2>1. LogsOK'
    BY <1>1 DEF Log, Goto, LogInv, LogsOK, PcOK
  <2>2. CASE owners # {}
    BY <1>1, <1>pc, <2>1, <2>2, TakeStep, Zenon DEF Log, Goto, poolVars
  <2>3. CASE owners = {}
    BY <1>1, <2>1, <2>3 DEF Log, poolVars, LogInv, PcOK, HubOwns, HoldersOwn, OwnedIsAlive,
       OneDestroys, FlusherGone, FlushFindsThePool, Holds, Destroying
  <2> QED
    BY <1>1, <2>2, <2>3 DEF Log, poolVars
<1>2. CASE LogSubmit(t)
  <2> DEFINE task == [by |-> t, n |-> logs[t]]
  <2>1. t \in owners
    BY <1>2 DEF LogSubmit, LogInv, HoldersOwn, Holds
  <2>2. task \in Task
    BY <1>2 DEF LogSubmit, LogInv, LogsOK
  <2>3. Enqueue(task) /\ ~shutdown
    BY <1>2, <2>1 DEF LogSubmit, LogInv, OwnedIsAlive
  <2>4. LogsOK'
    BY <1>2 DEF LogSubmit, Goto, LogInv, LogsOK, PcOK
  <2>5. /\ pc' = [pc EXCEPT ![t] = "release"] /\ owners' = owners \cup {t}
        /\ UNCHANGED <<shutdown, thrown>>
    BY <1>2, <2>1, <2>3 DEF LogSubmit, Goto, Enqueue
  <2>6. LogInv'
    BY <1>pc, <2>1, <2>4, <2>5, TakeStep
  <2> QED
    BY <2>2, <2>3, <2>6 DEF PoolNext
<1>3. CASE LogRelease(t)
  <2>1. Holds(t) /\ LetGo(t, t, "idle") /\ UNCHANGED <<poolVars, logs, thrown>>
    BY <1>3 DEF LogRelease, Holds
  <2> QED
    BY <1>pc, <2>1, LetGoStep DEF poolVars
<1>4. CASE CancelPool(t)
  <2>1. ~shutdown /\ Cancel
    BY <1>4 DEF CancelPool, LogInv, OneDestroys
  <2> QED
    BY <1>4, <2>1, CancelStep DEF PoolNext
<1>5. CASE JoinPool(t)
  <2>1. /\ ~Holds(t) /\ pc[t] # "cancel"
        /\ pc' = [pc EXCEPT ![t] = "idle"] /\ UNCHANGED <<poolVars, owners, logs, thrown>>
    BY <1>5, <1>pc DEF JoinPool, Goto, Holds
  <2> QED
    BY <1>pc, <2>1, MoveStep DEF poolVars
<1> QED
  BY <1>1, <1>2, <1>3, <1>4, <1>5 DEF LogStep

LEMMA FlushingStep ==
  ASSUME LogInv, NEW t \in {Main, Flusher}, Flushing(t)
  PROVE  LogInv' /\ [PoolNext]_poolVars
<1>t. t \in Thread /\ t \notin Logging
  OBVIOUS
<1>hub. pc[t] \in {"flush", "flush_submit", "flush_release"} => Hub \in owners
  BY DEF LogInv, HubOwns, FlusherGone
<1>1. CASE FlushAll(t) \/ Flushed(t)
  <2>1. PICK s \in {"flush", "flushed", "stop_flusher", "idle"} :
           /\ pc' = [pc EXCEPT ![t] = s]
           /\ s = "idle" => t = Flusher
           /\ s = "stop_flusher" => t = Main
    BY <1>1 DEF FlushAll, Flushed, Goto
  <2>2. /\ ~Holds(t) /\ pc[t] \notin {"cancel", "join", "exited"}
        /\ UNCHANGED <<poolVars, owners, logs, thrown>>
    BY <1>1 DEF FlushAll, Flushed, Holds
  <2> QED
    BY <1>t, <2>1, <2>2, MoveStep DEF poolVars, MainPc, FlusherPc
<1>2. CASE FlushLock(t)
  <2>1. /\ owners' = owners \cup {t} /\ pc' = [pc EXCEPT ![t] = "flush_submit"]
        /\ UNCHANGED <<poolVars, logs, thrown>> /\ pc[t] = "flush"
    BY <1>2, <1>hub DEF FlushLock, Goto
  <2>2. LogsOK'
    BY <1>t, <2>1 DEF LogInv, LogsOK, PcOK
  <2> QED
    BY <1>t, <1>hub, <2>1, <2>2, TakeStep DEF poolVars
<1>3. CASE FlushSubmit(t)
  <2>1. t \in owners /\ owners # {}
    BY <1>3, <1>hub DEF FlushSubmit, LogInv, HoldersOwn, Holds
  <2>2. Enqueue(Flush) /\ ~shutdown /\ Flush \in Task
    BY <1>3, <2>1 DEF FlushSubmit, LogInv, OwnedIsAlive
  <2>3. /\ owners' = owners \cup {t} /\ pc' = [pc EXCEPT ![t] = "flush_release"]
        /\ UNCHANGED <<shutdown, logs, thrown>> /\ pc[t] = "flush_submit"
    BY <1>3, <2>1, <2>2 DEF FlushSubmit, Goto, Enqueue
  <2>4. LogsOK'
    BY <1>t, <2>3 DEF LogInv, LogsOK, PcOK
  <2>5. LogInv'
    BY <1>t, <2>1, <2>3, <2>4, TakeStep
  <2> QED
    BY <2>2, <2>5 DEF PoolNext
<1>4. CASE FlushRelease(t)
  <2>1. Holds(t) /\ LetGo(t, t, "flushed") /\ UNCHANGED <<poolVars, logs, thrown>>
    BY <1>4 DEF FlushRelease, Holds
  <2> QED
    BY <1>t, <2>1, LetGoStep DEF poolVars
<1> QED
  BY <1>1, <1>2, <1>3, <1>4 DEF Flushing

LEMMA FlusherStep ==
  ASSUME LogInv, Tick \/ FlusherExit
  PROVE  LogInv' /\ [PoolNext]_poolVars
<1>1. PICK s \in {"flush_all", "exited"} : pc' = [pc EXCEPT ![Flusher] = s]
  BY DEF Tick, FlusherExit, Goto
<1>2. /\ ~Holds(Flusher) /\ pc[Flusher] = "idle"
      /\ UNCHANGED <<poolVars, owners, logs, thrown>>
  BY DEF Tick, FlusherExit, Holds
<1> QED
  BY <1>1, <1>2, MoveStep DEF poolVars, FlusherPc

LEMMA MainThreadStep ==
  ASSUME LogInv, Shutdown \/ MainStep
  PROVE  LogInv' /\ [PoolNext]_poolVars
<1>1. CASE Shutdown \/ StopFlusher \/ JoinFlusher \/ DropAll \/ JoinPool(Main)
  <2>1. PICK s \in {"flush_all", "join_flusher", "drop_all", "reset", "exited"} :
           /\ pc' = [pc EXCEPT ![Main] = s]
           /\ s = "exited" <=> pc[Main] = "join"
           /\ s = "drop_all" => pc[Flusher] = "exited"
           /\ s = "reset" => pc[Main] = "drop_all"
    BY <1>1 DEF Shutdown, StopFlusher, JoinFlusher, DropAll, JoinPool, Goto
  <2>2. /\ ~Holds(Main) /\ pc[Main] \notin {"cancel", "exited"}
        /\ UNCHANGED <<poolVars, owners, logs, thrown>>
    BY <1>1 DEF Shutdown, StopFlusher, JoinFlusher, DropAll, JoinPool, Holds
  <2>3. s \in {"drop_all", "reset", "exited"} => pc[Flusher] = "exited"
    BY <2>1 DEF LogInv, FlusherGone
  <2> QED
    BY <2>1, <2>2, <2>3, MoveStep DEF poolVars, MainPc
<1>2. CASE ResetPool
  <2>1. /\ pc[Main] = "reset" /\ LetGo(Main, Hub, "exited")
        /\ UNCHANGED <<poolVars, logs, thrown>>
    BY <1>2 DEF ResetPool
  <2> QED
    BY <2>1, LetGoStep DEF poolVars
<1>3. CASE CancelPool(Main)
  <2>1. ~shutdown /\ Cancel
    BY <1>3 DEF CancelPool, LogInv, OneDestroys
  <2> QED
    BY <1>3, <2>1, CancelStep DEF PoolNext
<1>4. CASE Flushing(Main)
  BY <1>4, FlushingStep
<1> QED
  BY <1>1, <1>2, <1>3, <1>4 DEF MainStep

LEMMA WorkerStep ==
  ASSUME LogInv, NEW w \in pool, Work(w) \/ (WakeUp(w) /\ UNCHANGED logVars)
  PROVE  LogInv' /\ [PoolNext]_poolVars
<1>1. Dequeue(w) \/ Sleep(w) \/ Exit(w) \/ WakeUp(w) \/ Done(w)
  BY DEF Work, Write
<1>2. UNCHANGED <<pc, owners, logs, thrown, shutdown>>
  BY DEF Work, Write, logVars, Dequeue, Sleep, Exit, WakeUp, Done
<1>3. LogInv'
  BY <1>2 DEF LogInv, PcOK, LogsOK, HubOwns, HoldersOwn, OwnedIsAlive, OneDestroys,
     FlusherGone, FlushFindsThePool, Holds, Destroying
<1> QED
  BY <1>1, <1>3 DEF PoolNext

LEMMA NextInv ==
  ASSUME LogInv, [Next]_vars
  PROVE  LogInv' /\ [PoolNext]_poolVars
<1>1. CASE UNCHANGED vars
  <2>1. LogInv'
    BY <1>1 DEF vars, poolVars, logVars, LogInv, PcOK, LogsOK, HubOwns, HoldersOwn,
       OwnedIsAlive, OneDestroys, FlusherGone, FlushFindsThePool, Holds, Destroying
  <2> QED
    BY <1>1, <2>1 DEF vars
<1>2. CASE Next
  BY <1>2, LoggingStep, FlushingStep, FlusherStep, MainThreadStep, WorkerStep DEF Next
<1> QED
  BY <1>1, <1>2

-----------------------------------------------------------------------------
\* The flusher and Shutdown find the pool when they submit their flush, so the
\* exception of AsyncLogger's DoFlush, which nobody catches, is never thrown.
THEOREM FlushIsSafe == Spec => []FlushFindsThePool
<1>1. LogInv /\ [Next]_vars => LogInv'
  BY NextInv
<1>2. LogInv => FlushFindsThePool
  BY DEF LogInv
<1> QED
  BY InitInv, <1>1, <1>2, PTL DEF Spec

\* Threads that log, the flusher and Shutdown use the pool as ThreadPool
\* promises to its users: tasks are submitted until it is destroyed, which
\* happens once, by whichever thread held the last shared_ptr.
THEOREM Refinement == Spec => UsesThePool
<1>1. Init => PoolInit
  BY DEF Init
<1>2. LogInv /\ [Next]_vars => LogInv' /\ [PoolNext]_poolVars
  BY NextInv
<1> QED
  BY InitInv, <1>1, <1>2, PTL DEF Spec, UsesThePool, PoolSpec

\* No wake-up of the logging module's workers is lost: the pool promises it to
\* whoever uses it so.
THEOREM LogWakesUp == Spec => []NoLostWakeUp
BY Refinement, PoolWakesUp DEF UsesThePool

-----------------------------------------------------------------------------
(* The end of the pool.                                                    *)

OwnersHold == owners \subseteq {Hub} \cup {t \in Thread : Holds(t)}

CancelledFirst == \A t \in Thread : pc[t] = "join" => shutdown

\* Nobody holds the pool and nobody destroys it any more: it is gone.
Gone == owners = {} /\ (\A t \in Thread : ~Destroying(t)) => shutdown /\ Joined

EndInv ==
  /\ PoolTypeOK /\ LogInv
  /\ OwnersHold /\ CancelledFirst /\ Gone /\ (shutdown => queue = <<>>)

\* One thread moves and nothing happens to the pool.
LEMMA EndMoves ==
  ASSUME EndInv, NEW t \in Thread, NEW s,
         pc' = [pc EXCEPT ![t] = s], UNCHANGED poolVars,
         s # "join", Destroying(t) => Joined /\ pc[t] = "join",
         owners' \subseteq owners \cup {t},
         t \in owners' => s \in {"submit", "release", "flush_submit", "flush_release"},
         owners' = {} => owners = {} \/ s = "cancel"
  PROVE  OwnersHold' /\ CancelledFirst' /\ Gone' /\ (shutdown => queue = <<>>)'
<1>pc. pc = [u \in Thread |-> pc[u]]
  BY DEF EndInv, LogInv, PcOK
<1>1. shutdown' = shutdown /\ queue' = queue /\ worker' = worker /\ pool' = pool
  BY DEF poolVars
<1>2. OwnersHold'
  <2> SUFFICES ASSUME NEW u \in owners', u # Hub
               PROVE  u \in Thread /\ Holds(u)'
    BY DEF OwnersHold
  <2>1. CASE u = t
    BY <1>pc, <2>1 DEF Holds
  <2>2. CASE u # t
    BY <1>pc, <2>2 DEF EndInv, OwnersHold, Holds
  <2> QED
    BY <2>1, <2>2
<1>3. CancelledFirst'
  BY <1>pc, <1>1 DEF EndInv, CancelledFirst
<1>4. Gone'
  <2> SUFFICES ASSUME owners' = {}, \A u \in Thread : ~Destroying(u)'
               PROVE  shutdown /\ Joined
    BY <1>1 DEF Gone, Joined
  <2>1. owners = {} /\ \A u \in Thread \ {t} : ~Destroying(u)
    BY <1>pc DEF Destroying
  <2>2. CASE Destroying(t)
    BY <2>2 DEF EndInv, CancelledFirst
  <2>3. CASE ~Destroying(t)
    BY <2>1, <2>3 DEF EndInv, Gone
  <2> QED
    BY <2>2, <2>3
<1> QED
  BY <1>1, <1>2, <1>3, <1>4 DEF EndInv

\* A thread submits a task; the pool is alive.
LEMMA EndSubmits ==
  ASSUME EndInv, NEW t \in Thread, NEW s, ~shutdown, shutdown' = shutdown,
         pc' = [pc EXCEPT ![t] = s], Holds(t),
         s \in {"release", "flush_release"}, owners' = owners, t \in owners
  PROVE  OwnersHold' /\ CancelledFirst' /\ Gone' /\ (shutdown => queue = <<>>)'
<1>pc. pc = [u \in Thread |-> pc[u]]
  BY DEF EndInv, LogInv, PcOK
<1>1. OwnersHold'
  BY <1>pc DEF EndInv, OwnersHold, Holds
<1>2. CancelledFirst' /\ Gone'
  BY <1>pc DEF EndInv, CancelledFirst, Gone
<1> QED
  BY <1>1, <1>2

\* A thread cancels the pool; what was queued is dropped.
LEMMA EndCancels ==
  ASSUME EndInv, NEW t \in Thread, CancelPool(t)
  PROVE  OwnersHold' /\ CancelledFirst' /\ Gone' /\ (shutdown => queue = <<>>)'
<1>pc. pc = [u \in Thread |-> pc[u]]
  BY DEF EndInv, LogInv, PcOK
<1>1. /\ pc[t] = "cancel" /\ pc' = [pc EXCEPT ![t] = "join"] /\ owners' = owners
      /\ queue' = <<>> /\ shutdown'
  BY DEF CancelPool, Goto, Cancel
<1>2. OwnersHold'
  BY <1>pc, <1>1 DEF EndInv, OwnersHold, Holds
<1>3. CancelledFirst' /\ Gone'
  BY <1>pc, <1>1 DEF CancelledFirst, Gone, Destroying
<1> QED
  BY <1>1, <1>2, <1>3

\* A worker goes on: one that has ended never does.
LEMMA EndWorks ==
  ASSUME EndInv, NEW w \in pool, Work(w) \/ (WakeUp(w) /\ UNCHANGED logVars)
  PROVE  OwnersHold' /\ CancelledFirst' /\ Gone' /\ (shutdown => queue = <<>>)'
<1>1. Dequeue(w) \/ Sleep(w) \/ Exit(w) \/ WakeUp(w) \/ Done(w)
  BY DEF Work, Write
<1>2. UNCHANGED <<pc, owners, shutdown, pool>>
  BY DEF Work, Write, logVars, Dequeue, Sleep, Exit, WakeUp, Done
<1>3. ~Joined
  BY <1>1 DEF Joined, Dequeue, Sleep, Exit, WakeUp, Done
<1>4. shutdown => queue' = queue
  BY <1>1 DEF Dequeue, Sleep, Exit, WakeUp, Done
<1> QED
  BY <1>2, <1>3, <1>4 DEF EndInv, OwnersHold, CancelledFirst, Gone, Holds, Destroying

\* What a thread gives away: it is no owner any more.
LEMMA EndLetsGo ==
  ASSUME EndInv, NEW t \in Thread, NEW owner, NEW next, LetGo(t, owner, next), UNCHANGED poolVars,
         \/ owner = t
         \/ ~Holds(t) /\ t # Hub,
         ~Destroying(t), next # "join"
  PROVE  OwnersHold' /\ CancelledFirst' /\ Gone' /\ (shutdown => queue = <<>>)'
<1> DEFINE s == IF owners' = {} THEN "cancel" ELSE next
<1>1. pc' = [pc EXCEPT ![t] = s] /\ owners' = owners \ {owner}
  BY DEF LetGo, Goto
<1>2. t # Hub
  OBVIOUS
<1>3. t \notin owners'
  BY <1>1, <1>2 DEF EndInv, OwnersHold
<1> QED
  BY <1>1, <1>3, EndMoves

-----------------------------------------------------------------------------
LEMMA EndStep ==
  ASSUME EndInv, Next
  PROVE  OwnersHold' /\ CancelledFirst' /\ Gone' /\ (shutdown => queue = <<>>)'
<1> DEFINE Goal == OwnersHold' /\ CancelledFirst' /\ Gone' /\ (shutdown => queue = <<>>)'
<1>rest. ASSUME NEW t \in Thread, ~Holds(t)
         PROVE  t \notin owners
  BY <1>rest DEF EndInv, OwnersHold
<1>1. ASSUME NEW t \in Logging, Log(t)
      PROVE  Goal
  <2>1. CASE owners # {}
    BY <1>1, <2>1, EndMoves DEF Log, Goto, Destroying
  <2>2. CASE owners = {}
    BY <1>1, <2>2 DEF Log, poolVars, EndInv, OwnersHold, CancelledFirst, Gone, Joined, Destroying
  <2> QED
    BY <2>1, <2>2
<1>2. ASSUME NEW t \in Thread, LogSubmit(t) \/ FlushSubmit(t)
      PROVE  Goal
  <2>1. t \in owners /\ Holds(t) /\ ~shutdown
    BY <1>2 DEF LogSubmit, FlushSubmit, EndInv, LogInv, HoldersOwn, OwnedIsAlive, Holds
  <2>2. PICK s \in {"release", "flush_release"} : pc' = [pc EXCEPT ![t] = s]
    BY <1>2 DEF LogSubmit, FlushSubmit, Goto
  <2>3. shutdown' = shutdown /\ owners' = owners
    BY <1>2 DEF LogSubmit, FlushSubmit, Enqueue
  <2> QED
    BY <2>1, <2>2, <2>3, EndSubmits
<1>3. ASSUME NEW t \in Thread, LogRelease(t) \/ FlushRelease(t)
      PROVE  Goal
  <2>1. PICK next \in {"idle", "flushed"} : LetGo(t, t, next)
    BY <1>3 DEF LogRelease, FlushRelease
  <2>2. UNCHANGED poolVars /\ ~Destroying(t)
    BY <1>3 DEF LogRelease, FlushRelease, Destroying
  <2> QED
    BY <2>1, <2>2, EndLetsGo
<1>4. CASE ResetPool
  <2>1. /\ LetGo(Main, Hub, "exited") /\ UNCHANGED poolVars
        /\ ~Holds(Main) /\ ~Destroying(Main) /\ Main # Hub
    BY <1>4 DEF ResetPool, Holds, Destroying
  <2> QED
    BY <2>1, EndLetsGo
<1>5. ASSUME NEW t \in Thread, CancelPool(t)
      PROVE  Goal
  BY <1>5, EndCancels
<1>6. ASSUME NEW t \in {Main, Flusher}, FlushLock(t)
      PROVE  Goal
  <2>1. pc[t] = "flush" /\ owners # {}
    BY <1>6 DEF FlushLock, EndInv, LogInv, HubOwns, FlusherGone
  <2>2. /\ owners' = owners \cup {t} /\ pc' = [pc EXCEPT ![t] = "flush_submit"]
        /\ UNCHANGED poolVars
    BY <1>6, <2>1 DEF FlushLock, Goto
  <2> QED
    BY <2>1, <2>2, EndMoves DEF Destroying
<1>7. ASSUME NEW t \in Thread,
             FlushAll(t) \/ Flushed(t) \/ JoinPool(t)
               \/ (t = Flusher /\ (Tick \/ FlusherExit))
               \/ (t = Main /\ (Shutdown \/ StopFlusher \/ JoinFlusher \/ DropAll))
      PROVE  Goal
  <2>1. PICK s \in {"flush", "flushed", "stop_flusher", "idle", "exited", "flush_all",
                    "join_flusher", "drop_all", "reset"} : pc' = [pc EXCEPT ![t] = s]
    BY <1>7 DEF FlushAll, Flushed, JoinPool, Tick, FlusherExit, Shutdown, StopFlusher,
       JoinFlusher, DropAll, Goto
  <2>2. /\ ~Holds(t) /\ (Destroying(t) => Joined /\ pc[t] = "join")
        /\ UNCHANGED poolVars /\ owners' = owners
    BY <1>7 DEF FlushAll, Flushed, JoinPool, Tick, FlusherExit, Shutdown, StopFlusher,
       JoinFlusher, DropAll, Holds, Destroying
  <2> QED
    BY <1>rest, <2>1, <2>2, EndMoves
<1>8. ASSUME NEW w \in pool, Work(w) \/ (WakeUp(w) /\ UNCHANGED logVars)
      PROVE  Goal
  BY <1>8, EndWorks
<1> QED
  BY <1>1, <1>2, <1>3, <1>4, <1>5, <1>6, <1>7, <1>8
     DEF Next, LogStep, MainStep, Flushing

LEMMA InitEndInv == Init => EndInv
<1> SUFFICES ASSUME Init
             PROVE  EndInv
  OBVIOUS
<1>1. PoolTypeOK
  BY PoolInitOK DEF Init
<1>2. owners = {Hub} /\ \A t \in Thread : pc[t] \in {"idle", "exited"}
  BY DEF Init
<1>3. OwnersHold /\ CancelledFirst /\ Gone
  BY <1>2 DEF OwnersHold, CancelledFirst, Gone
<1> QED
  BY <1>1, <1>3, InitInv DEF EndInv, Init, PoolInit

LEMMA NextEndInv ==
  ASSUME EndInv, [Next]_vars
  PROVE  EndInv'
<1>1. LogInv' /\ [PoolNext]_poolVars
  BY NextInv DEF EndInv
<1>2. PoolTypeOK'
  BY <1>1, PoolTypeStep DEF EndInv
<1>3. OwnersHold' /\ CancelledFirst' /\ Gone' /\ (shutdown => queue = <<>>)'
  <2>1. CASE Next
    BY <2>1, EndStep
  <2>2. CASE UNCHANGED vars
    BY <2>2 DEF vars, poolVars, logVars, EndInv, OwnersHold, CancelledFirst, Gone, Joined,
       Holds, Destroying
  <2> QED
    BY <2>1, <2>2
<1> QED
  BY <1>1, <1>2, <1>3 DEF EndInv

\* When Shutdown has returned and no thread is inside a call of Log, the worker
\* threads have ended, even if it was a logging thread whose shared_ptr kept the
\* pool alive beyond Shutdown and whose call had to destroy it.
THEOREM NoThreadIsLeft == Spec => []ShutdownLeavesNoThread
<1>1. EndInv /\ [Next]_vars => EndInv'
  BY NextEndInv
<1>2. EndInv => ShutdownLeavesNoThread
  <2> SUFFICES ASSUME EndInv, pc[Main] = "exited", \A t \in Logging : pc[t] = "idle"
               PROVE  Joined /\ queue = <<>>
    BY DEF ShutdownLeavesNoThread
  <2>1. pc[Flusher] = "exited" /\ Hub \notin owners
    BY DEF EndInv, LogInv, FlusherGone, HubOwns
  <2>2. \A t \in Thread : ~Holds(t) /\ ~Destroying(t)
    BY <2>1 DEF Holds, Destroying
  <2>3. owners = {}
    BY <2>1, <2>2 DEF EndInv, OwnersHold
  <2> QED
    BY <2>2, <2>3 DEF EndInv, Gone
<1> QED
  BY InitEndInv, <1>1, <1>2, PTL DEF Spec
-----------------------------------------------------------------------------
(* What is written: every message from the call that logs it to the file.  *)

Message == Task \ {Flush}

Distinct(s) == \A i, j \in DOMAIN s : i # j => s[i] # s[j]

IsLogged(x)   == \E j \in DOMAIN logged : logged[j] = x
WasWritten(x) == \E j \in DOMAIN written : written[j] = x
IsRunning(x)  == \E w \in Worker : running[w] = x

HistoryOK == logged \in Seq(Message) /\ written \in Seq(Message)

\* A thread numbers its messages as it logs them.
Numbered ==
  \A i \in DOMAIN logged : \E t \in Logging : \E n \in 1..logs[t] :
    logged[i] = [by |-> t, n |-> n] /\ (pc[t] = "submit" => n # logs[t])

\* A message is in one place: in the queue, in the hands of a worker, or in
\* the file.
RunningOnce(w) ==
  running[w] \in Message =>
    /\ IsLogged(running[w]) /\ ~WasWritten(running[w])
    /\ \A v \in Worker \ {w} : running[v] # running[w]

QueuedOnce(i) ==
  queue[i] \in Message =>
    /\ IsLogged(queue[i]) /\ ~WasWritten(queue[i]) /\ ~IsRunning(queue[i])
    /\ \A j \in DOMAIN queue \ {i} : queue[j] # queue[i]

WrittenOnce(i) == IsLogged(written[i])

OnePlace ==
  /\ Distinct(logged) /\ Distinct(written)
  /\ \A i \in DOMAIN written : WrittenOnce(i)
  /\ \A w \in Worker : RunningOnce(w)
  /\ \A i \in DOMAIN queue : QueuedOnce(i)

\* The order of a pool of one thread.  The messages among the tasks q are the
\* last of the log l, behind the first k: c[i] counts those of the log up to
\* the i-th task.
Counts(c, k, q, l) ==
  /\ c[0] = k /\ c[Len(q)] = Len(l)
  /\ \A i \in 1..Len(q) :
       IF q[i] = Flush THEN c[i] = c[i - 1]
       ELSE c[i] = c[i - 1] + 1 /\ q[i] = l[c[i]]

Follows(k, q, l) == \E c \in [0..Len(q) -> 0..Len(l)] : Counts(c, k, q, l)

Taken(w) == Len(written) + (IF running[w] \in Message THEN 1 ELSE 0)

WrittenFirst == \A i \in DOMAIN written : i \in DOMAIN logged /\ written[i] = logged[i]

RunningNext(w) ==
  running[w] \in Message =>
    Len(written) + 1 \in DOMAIN logged /\ logged[Len(written) + 1] = running[w]

QueuedLast(w) == ~shutdown => Follows(Taken(w), queue, logged)

InOrder == \A w \in Worker : pool = {w} => WrittenFirst /\ RunningNext(w) /\ QueuedLast(w)

HistInv == EndInv /\ HistoryOK /\ Numbered /\ OnePlace /\ InOrder
-----------------------------------------------------------------------------
LEMMA FollowsNothing ==
  ASSUME NEW l, Len(l) \in Nat
  PROVE  Follows(Len(l), <<>>, l)
<1> DEFINE c == [i \in 0..0 |-> Len(l)]
<1>1. c \in [0..Len(<<>>) -> 0..Len(l)] /\ Counts(c, Len(l), <<>>, l)
  BY DEF Counts
<1> QED
  BY <1>1 DEF Follows

LEMMA FollowsFlush ==
  ASSUME NEW k, NEW q \in Seq(Task), NEW l \in Seq(Message), Follows(k, q, l)
  PROVE  Follows(k, Append(q, Flush), l)
<1>1. PICK c \in [0..Len(q) -> 0..Len(l)] : Counts(c, k, q, l)
  BY DEF Follows
<1> DEFINE p == Append(q, Flush)
           d == [i \in 0..Len(p) |-> IF i = Len(p) THEN Len(l) ELSE c[i]]
<1>2. /\ Len(q) \in Nat /\ Len(l) \in Nat /\ Len(p) = Len(q) + 1
      /\ p[Len(p)] = Flush /\ \A i \in 1..Len(q) : p[i] = q[i]
  OBVIOUS
<1> HIDE DEF p
<1>3. d \in [0..Len(p) -> 0..Len(l)]
  BY <1>2
<1>4. d[0] = k /\ d[Len(p)] = Len(l)
  BY <1>1, <1>2 DEF Counts
<1>5. ASSUME NEW i \in 1..Len(p)
      PROVE  IF p[i] = Flush THEN d[i] = d[i - 1]
             ELSE d[i] = d[i - 1] + 1 /\ p[i] = l[d[i]]
  <2>1. CASE i = Len(p)
    <3>1. d[i] = Len(l) /\ d[i - 1] = c[Len(q)] /\ p[i] = Flush
      BY <1>2, <2>1
    <3> QED
      BY <1>1, <3>1 DEF Counts
  <2>2. CASE i # Len(p)
    <3>1. /\ i \in 1..Len(q) /\ i \in 0..Len(p) /\ i - 1 \in 0..Len(p) /\ i - 1 # Len(p)
          /\ p[i] = q[i]
      BY <1>2, <2>2
    <3>2. d[i] = c[i] /\ d[i - 1] = c[i - 1]
      BY <2>2, <3>1
    <3> QED
      BY <1>1, <3>1, <3>2 DEF Counts
  <2> QED
    BY <2>1, <2>2
<1>6. Counts(d, k, p, l)
  BY <1>4, <1>5 DEF Counts
<1>7. Follows(k, p, l)
  BY <1>3, <1>6 DEF Follows
<1> QED
  BY <1>7 DEF p

\* The places of a sequence longer by one that are not its last are those of the shorter.
LEMMA Below ==
  ASSUME NEW a \in Nat, NEW b, b = a + 1, NEW i \in 1..b, i # b
  PROVE  i \in 1..a /\ i \in 0..a /\ i - 1 \in 0..a /\ i \in 0..b /\ i - 1 \in 0..b /\ i - 1 # b
OBVIOUS

LEMMA FollowsMessage ==
  ASSUME NEW k, NEW q \in Seq(Task), NEW l \in Seq(Message), NEW x \in Message,
         Follows(k, q, l)
  PROVE  Follows(k, Append(q, x), Append(l, x))
<1>1. PICK c \in [0..Len(q) -> 0..Len(l)] : Counts(c, k, q, l)
  BY DEF Follows
<1> DEFINE p == Append(q, x)
           m == Append(l, x)
           d == [i \in 0..Len(p) |-> IF i = Len(p) THEN Len(m) ELSE c[i]]
<1>2. /\ Len(q) \in Nat /\ Len(l) \in Nat /\ Len(p) = Len(q) + 1 /\ Len(m) = Len(l) + 1
      /\ p[Len(p)] = x /\ \A i \in 1..Len(q) : p[i] = q[i]
      /\ m[Len(m)] = x /\ \A i \in 1..Len(l) : m[i] = l[i]
      /\ x # Flush
  BY DEF Message
<1> HIDE DEF p, m
<1>3. d \in [0..Len(p) -> 0..Len(m)]
  BY <1>2
<1>4. d[0] = k /\ d[Len(p)] = Len(m)
  BY <1>1, <1>2 DEF Counts
<1>5. ASSUME NEW i \in 1..Len(p)
      PROVE  IF p[i] = Flush THEN d[i] = d[i - 1]
             ELSE d[i] = d[i - 1] + 1 /\ p[i] = m[d[i]]
  <2>1. CASE i = Len(p)
    <3>1. d[i] = Len(m) /\ d[i - 1] = c[Len(q)] /\ p[i] = x
      BY <1>2, <2>1
    <3> QED
      BY <1>1, <1>2, <3>1 DEF Counts
  <2>2. CASE i # Len(p)
    <3>1. /\ i \in 1..Len(q) /\ i \in 0..Len(p) /\ i - 1 \in 0..Len(p) /\ i - 1 # Len(p)
          /\ p[i] = q[i] /\ i - 1 \in 0..Len(q) /\ i \in 0..Len(q)
      <4> HIDE DEF d
      <4>1. /\ i \in 1..Len(q) /\ i \in 0..Len(p) /\ i - 1 \in 0..Len(p) /\ i - 1 # Len(p)
            /\ i - 1 \in 0..Len(q) /\ i \in 0..Len(q)
        BY <1>2, <2>2, Below
      <4>2. p[i] = q[i]
        BY <1>2, <4>1
      <4> QED
        BY <4>1, <4>2
    <3>2. d[i] = c[i] /\ d[i - 1] = c[i - 1]
      BY <2>2, <3>1
    <3>3. q[i] # Flush => c[i] \in 1..Len(l)
      <4>1. c[i] \in 0..Len(l) /\ c[i - 1] \in 0..Len(l)
        BY <3>1
      <4>2. q[i] # Flush => c[i] = c[i - 1] + 1
        BY <1>1, <1>2, <2>2 DEF Counts
      <4> QED
        BY <1>2, <4>1, <4>2
    <3> QED
      BY <1>1, <1>2, <3>1, <3>2, <3>3 DEF Counts
  <2> QED
    BY <2>1, <2>2
<1>6. Counts(d, k, p, m)
  BY <1>4, <1>5 DEF Counts
<1>7. Follows(k, p, m)
  BY <1>3, <1>6 DEF Follows
<1> QED
  BY <1>7 DEF p, m

LEMMA FollowsBound ==
  ASSUME NEW k, NEW q \in Seq(Task), NEW l \in Seq(Message), Follows(k, q, l)
  PROVE  k \in 0..Len(l)
<1>1. PICK c \in [0..Len(q) -> 0..Len(l)] : Counts(c, k, q, l)
  BY DEF Follows
<1>2. 0 \in 0..Len(q)
  OBVIOUS
<1> QED
  BY <1>1, <1>2 DEF Counts

\* A worker takes the first task of the queue.
LEMMA FollowsTail ==
  ASSUME NEW k, NEW q \in Seq(Task), NEW l \in Seq(Message), Follows(k, q, l), q # <<>>
  PROVE  IF Head(q) = Flush THEN Follows(k, Tail(q), l)
         ELSE Follows(k + 1, Tail(q), l) /\ k + 1 \in 1..Len(l) /\ l[k + 1] = Head(q)
<1>1. PICK c \in [0..Len(q) -> 0..Len(l)] : Counts(c, k, q, l)
  BY DEF Follows
<1> DEFINE p == Tail(q)
           d == [i \in 0..Len(p) |-> c[i + 1]]
<1>2. /\ Len(q) \in Nat \ {0} /\ Len(l) \in Nat /\ Len(p) = Len(q) - 1
      /\ Head(q) = q[1] /\ \A i \in 1..Len(p) : p[i] = q[i + 1]
  OBVIOUS
<1> HIDE DEF p
<1>3. d \in [0..Len(p) -> 0..Len(l)]
  BY <1>2
<1>4. d[0] = c[1] /\ d[Len(p)] = Len(l)
  BY <1>1, <1>2 DEF Counts
<1>5. ASSUME NEW i \in 1..Len(p)
      PROVE  IF p[i] = Flush THEN d[i] = d[i - 1]
             ELSE d[i] = d[i - 1] + 1 /\ p[i] = l[d[i]]
  <2>1. /\ i + 1 \in 1..Len(q) /\ (i + 1) - 1 = i /\ (i - 1) + 1 = i
        /\ i \in 0..Len(p) /\ i - 1 \in 0..Len(p) /\ p[i] = q[i + 1]
    BY <1>2
  <2>2. d[i] = c[i + 1] /\ d[i - 1] = c[i]
    BY <2>1
  <2>3. IF q[i + 1] = Flush THEN c[i + 1] = c[(i + 1) - 1]
        ELSE c[i + 1] = c[(i + 1) - 1] + 1 /\ q[i + 1] = l[c[i + 1]]
    BY <1>1, <2>1 DEF Counts
  <2> QED
    BY <2>1, <2>2, <2>3
<1>6. Counts(d, c[1], p, l)
  BY <1>4, <1>5 DEF Counts
<1>7. Follows(c[1], p, l)
  BY <1>3, <1>6 DEF Follows
<1>one. 1 \in 1..Len(q) /\ 1 - 1 = 0 /\ 0 \in 0..Len(q) /\ 1 \in 0..Len(q)
  BY <1>2
<1>8. /\ c[0] = k /\ c[1] \in 0..Len(l) /\ k \in Nat
      /\ IF Head(q) = Flush THEN c[1] = k ELSE c[1] = k + 1 /\ Head(q) = l[c[1]]
  <2>1. c[0] \in 0..Len(l) /\ c[1] \in 0..Len(l)
    BY <1>one
  <2>2. IF q[1] = Flush THEN c[1] = c[1 - 1]
        ELSE c[1] = c[1 - 1] + 1 /\ q[1] = l[c[1]]
    BY <1>1, <1>one DEF Counts
  <2>3. c[0] = k
    BY <1>1 DEF Counts
  <2> QED
    BY <1>2, <1>one, <2>1, <2>2, <2>3
<1> QED
  BY <1>2, <1>7, <1>8 DEF p

LEMMA InitHist == Init => HistInv
<1> SUFFICES ASSUME Init
             PROVE  HistInv
  OBVIOUS
<1>1. logged = <<>> /\ written = <<>> /\ queue = <<>> /\ running = [w \in Worker |-> NoTask]
  BY DEF Init, PoolInit
<1>2. NoTask \notin Message
  BY WorkerAssumption DEF Message
<1>3. HistoryOK /\ Numbered
  BY <1>1 DEF HistoryOK, Numbered
<1>4. OnePlace
  BY <1>1, <1>2 DEF OnePlace, WrittenOnce, RunningOnce, QueuedOnce, Distinct
<1>5. InOrder
  <2> SUFFICES ASSUME NEW w \in Worker
               PROVE  WrittenFirst /\ RunningNext(w) /\ QueuedLast(w)
    BY DEF InOrder
  <2>1. QueuedLast(w)
    BY <1>1, <1>2, FollowsNothing DEF QueuedLast, Taken
  <2>2. WrittenFirst /\ RunningNext(w)
    BY <1>1, <1>2 DEF WrittenFirst, RunningNext
  <2> QED
    BY <2>1, <2>2
<1> QED
  BY <1>3, <1>4, <1>5, InitEndInv DEF HistInv

\* Whatever moves neither a task nor a message.
LEMMA HistKept ==
  ASSUME HistInv, UNCHANGED <<pool, running, queue, shutdown, logged, written>>, Numbered'
  PROVE  HistoryOK' /\ Numbered' /\ OnePlace' /\ InOrder'
<1>1. HistoryOK'
  BY DEF HistInv, HistoryOK
<1>2. OnePlace'
  BY DEF HistInv, OnePlace, WrittenOnce, RunningOnce, QueuedOnce, Distinct, IsLogged, WasWritten, IsRunning
<1>3. InOrder'
  BY DEF HistInv, InOrder, WrittenFirst, RunningNext, QueuedLast, Taken
<1> QED
  BY <1>1, <1>2, <1>3

\* A thread that neither begins nor ends a call of Log keeps its numbers.
LEMMA NumbersKept ==
  ASSUME HistInv, UNCHANGED <<logs, logged>>,
         \A t \in Logging : pc'[t] = "submit" => pc[t] = "submit"
  PROVE  Numbered'
BY DEF HistInv, Numbered

\* A task comes to the end of the queue.
LEMMA Queued ==
  ASSUME HistInv, NEW task \in Task, Enqueue(task)
  PROVE  /\ Len(queue') = Len(queue) + 1 /\ queue'[Len(queue) + 1] = task
         /\ \A i \in 1..Len(queue) : queue'[i] = queue[i]
         /\ Len(queue) \in Nat /\ DOMAIN queue = 1..Len(queue)
         /\ DOMAIN queue' = 1..(Len(queue) + 1)
         /\ pool' = pool /\ running' = running /\ shutdown' = shutdown
<1>1. queue \in Seq(Task) /\ queue' = Append(queue, task)
  BY DEF HistInv, EndInv, PoolTypeOK, Enqueue
<1> QED
  BY <1>1 DEF Enqueue

\* FlushSubmit: a flush is no message.
LEMMA HistFlushes ==
  ASSUME HistInv, Enqueue(Flush), UNCHANGED <<logged, written>>, Numbered'
  PROVE  HistoryOK' /\ Numbered' /\ OnePlace' /\ InOrder'
<1> DEFINE m == Len(queue)
<1>q. /\ Len(queue') = m + 1 /\ queue'[m + 1] = Flush
      /\ \A i \in 1..m : queue'[i] = queue[i]
      /\ m \in Nat /\ DOMAIN queue = 1..m /\ DOMAIN queue' = 1..(m + 1)
      /\ pool' = pool /\ running' = running /\ shutdown' = shutdown
  BY Queued
<1>t. queue \in Seq(Task) /\ logged \in Seq(Message) /\ queue' = Append(queue, Flush)
  BY DEF HistInv, EndInv, PoolTypeOK, HistoryOK, Enqueue
<1>f. Flush \notin Message
  BY DEF Message
<1> HIDE DEF m
<1>1. HistoryOK'
  BY DEF HistInv, HistoryOK
<1>2. ASSUME NEW i \in DOMAIN queue'
      PROVE  QueuedOnce(i)'
  <2> SUFFICES ASSUME queue'[i] \in Message
               PROVE  QueuedOnce(i)'
    BY DEF QueuedOnce
  <2>1. i \in 1..m /\ queue'[i] = queue[i]
    BY <1>q, <1>f
  <2>2. /\ IsLogged(queue[i]) /\ ~WasWritten(queue[i]) /\ ~IsRunning(queue[i])
        /\ \A j \in DOMAIN queue \ {i} : queue[j] # queue[i]
    BY <1>q, <2>1 DEF HistInv, OnePlace, QueuedOnce
  <2>3. \A j \in DOMAIN queue' \ {i} : queue'[j] # queue'[i]
    BY <1>q, <1>f, <2>1, <2>2
  <2> QED
    BY <1>q, <2>1, <2>2, <2>3 DEF QueuedOnce, IsLogged, WasWritten, IsRunning
<1>3. OnePlace'
  BY <1>q, <1>2 DEF HistInv, OnePlace, WrittenOnce, RunningOnce, Distinct, IsLogged, WasWritten
<1>4. InOrder'
  <2> SUFFICES ASSUME NEW w \in Worker, pool = {w}
               PROVE  WrittenFirst' /\ RunningNext(w)' /\ QueuedLast(w)'
    BY <1>q DEF InOrder
  <2>1. WrittenFirst /\ RunningNext(w) /\ QueuedLast(w)
    BY DEF HistInv, InOrder
  <2>2. WrittenFirst' /\ RunningNext(w)' /\ Taken(w)' = Taken(w)
    BY <1>q, <2>1 DEF WrittenFirst, RunningNext, Taken
  <2>3. ASSUME ~shutdown
        PROVE  Follows(Taken(w), queue', logged)
    BY <1>t, <2>1, <2>3, FollowsFlush DEF QueuedLast
  <2> QED
    BY <1>q, <2>2, <2>3 DEF QueuedLast
<1> QED
  BY <1>1, <1>3, <1>4
\* LogSubmit: the task has a number that no message of the thread had yet.
LEMMA HistLogs ==
  ASSUME HistInv, NEW t \in Logging, LogSubmit(t)
  PROVE  HistoryOK' /\ Numbered' /\ OnePlace' /\ InOrder'
<1> DEFINE m == Len(queue)
           n == Len(logged)
<1>0. PICK x : x = [by |-> t, n |-> logs[t]]
  OBVIOUS
<1>1. /\ pc[t] = "submit" /\ pc' = [pc EXCEPT ![t] = "release"]
      /\ Enqueue(x) /\ logged' = Append(logged, x)
      /\ UNCHANGED <<logs, written>>
  BY <1>0 DEF LogSubmit, Goto
<1>2. logs[t] \in Nat \ {0} /\ logs[t] \in 1..MaxLogs[t] /\ logs[t] \in 1..logs[t]
  <2>1. logs[t] \in 0..MaxLogs[t] /\ logs[t] # 0
    BY <1>1 DEF HistInv, EndInv, LogInv, LogsOK
  <2> QED
    BY <2>1
<1>x. x \in Message
  BY <1>0, <1>2 DEF Message, Flush
<1>t. /\ queue \in Seq(Task) /\ queue' = Append(queue, x)
      /\ logged \in Seq(Message) /\ written \in Seq(Message)
  BY <1>1 DEF HistInv, EndInv, PoolTypeOK, HistoryOK, Enqueue
<1>q. /\ queue'[m + 1] = x /\ \A i \in 1..m : queue'[i] = queue[i]
      /\ m \in Nat /\ DOMAIN queue = 1..m /\ DOMAIN queue' = 1..(m + 1)
      /\ pool' = pool /\ running' = running /\ shutdown' = shutdown
  <2>1. x \in Task
    BY <1>x DEF Message
  <2> QED
    BY <1>1, <2>1, Queued
<1>l. /\ logged'[n + 1] = x /\ \A i \in 1..n : logged'[i] = logged[i]
      /\ n \in Nat /\ DOMAIN logged = 1..n /\ DOMAIN logged' = 1..(n + 1)
  BY <1>1, <1>t
<1> HIDE DEF m, n
<1>new. \A j \in DOMAIN logged : logged[j] # x
  <2> SUFFICES ASSUME NEW j \in DOMAIN logged, logged[j] = x
               PROVE  FALSE
    OBVIOUS
  <2>0. PICK u \in Logging : \E k \in 1..logs[u] :
           logged[j] = [by |-> u, n |-> k] /\ (pc[u] = "submit" => k # logs[u])
    BY DEF HistInv, Numbered
  <2>1. PICK k \in 1..logs[u] :
           logged[j] = [by |-> u, n |-> k] /\ (pc[u] = "submit" => k # logs[u])
    BY <2>0
  <2>2. u = t /\ k = logs[t]
    BY <1>0, <2>1
  <2> QED
    BY <1>1, <2>1, <2>2
<1>num. Numbered'
  <2> SUFFICES ASSUME NEW i \in DOMAIN logged'
               PROVE  \E u \in Logging : \E k \in 1..logs[u] :
                        logged'[i] = [by |-> u, n |-> k] /\ (pc'[u] = "submit" => k # logs[u])
    <3>1. logs' = logs
      BY <1>1
    <3> QED
      BY <3>1 DEF Numbered
  <2>pc. pc'[t] = "release" /\ \A u \in Logging \ {t} : pc'[u] = pc[u]
    BY <1>1 DEF HistInv, EndInv, LogInv, PcOK
  <2>1. CASE i = n + 1
    <3>1. logged'[i] = [by |-> t, n |-> logs[t]]
      BY <1>0, <1>l, <2>1
    <3> QED
      BY <1>2, <2>pc, <3>1
  <2>2. CASE i # n + 1
    <3>1. i \in DOMAIN logged /\ logged'[i] = logged[i]
      BY <1>l, <2>2
    <3>0. PICK u \in Logging : \E k \in 1..logs[u] :
             logged[i] = [by |-> u, n |-> k] /\ (pc[u] = "submit" => k # logs[u])
      BY <3>1 DEF HistInv, Numbered
    <3>2. PICK k \in 1..logs[u] :
             logged[i] = [by |-> u, n |-> k] /\ (pc[u] = "submit" => k # logs[u])
      BY <3>0
    <3>3. pc'[u] = "submit" => k # logs[u]
      BY <2>pc, <3>2
    <3> QED
      BY <3>1, <3>2, <3>3
  <2> QED
    BY <2>1, <2>2
<1>his. HistoryOK'
  BY <1>1, <1>x, <1>t DEF HistoryOK
<1>in. \A y : IsLogged(y) => y # x /\ IsLogged(y)'
  BY <1>l, <1>new DEF IsLogged
<1>inx. IsLogged(x)'
  BY <1>l DEF IsLogged
<1>out. ~WasWritten(x) /\ ~IsRunning(x) /\ \A j \in 1..m : queue[j] # x
  <2>1. ~WasWritten(x)
    BY <1>in DEF HistInv, OnePlace, WrittenOnce, WasWritten
  <2>2. ~IsRunning(x)
    BY <1>x, <1>in DEF HistInv, OnePlace, RunningOnce, IsRunning
  <2>3. ASSUME NEW j \in 1..m, queue[j] = x
        PROVE  FALSE
    BY <1>x, <1>in, <1>q, <2>3 DEF HistInv, OnePlace, QueuedOnce
  <2> QED
    BY <2>1, <2>2, <2>3
<1>3. Distinct(logged)'
  <2>1. Distinct(logged)
    BY DEF HistInv, OnePlace
  <2> SUFFICES ASSUME NEW i \in 1..(n + 1), NEW j \in 1..(n + 1), i # j
               PROVE  logged'[i] # logged'[j]
    BY <1>l DEF Distinct
  <2> QED
    BY <1>l, <1>new, <2>1 DEF Distinct
<1>4. \A w \in Worker : RunningOnce(w)'
  <2> SUFFICES ASSUME NEW w \in Worker, running'[w] \in Message
               PROVE  RunningOnce(w)'
    BY DEF RunningOnce
  <2>1. RunningOnce(w) /\ running' = running /\ written' = written
    BY <1>1, <1>q DEF HistInv, OnePlace
  <2>2. /\ IsLogged(running[w]) /\ ~WasWritten(running[w])
        /\ \A v \in Worker \ {w} : running[v] # running[w]
    BY <2>1 DEF RunningOnce
  <2>3. IsLogged(running[w])'
    BY <1>in, <2>1, <2>2
  <2> QED
    BY <2>1, <2>2, <2>3 DEF RunningOnce, WasWritten
<1>5. ASSUME NEW i \in DOMAIN queue'
      PROVE  QueuedOnce(i)'
  <2>1. CASE i = m + 1
    <3>1. queue'[i] = x /\ \A j \in DOMAIN queue' \ {i} : j \in 1..m /\ queue'[j] = queue[j]
      BY <1>q, <2>1
    <3>2. ~WasWritten(x)' /\ ~IsRunning(x)'
      BY <1>1, <1>q, <1>out DEF WasWritten, IsRunning
    <3> QED
      BY <1>inx, <1>out, <3>1, <3>2 DEF QueuedOnce
  <2>2. CASE i # m + 1
    <3> SUFFICES ASSUME queue'[i] \in Message
                 PROVE  QueuedOnce(i)'
      BY DEF QueuedOnce
    <3>1. i \in 1..m /\ queue'[i] = queue[i]
      BY <1>q, <2>2
    <3>2. /\ IsLogged(queue[i]) /\ ~WasWritten(queue[i]) /\ ~IsRunning(queue[i])
          /\ \A j \in DOMAIN queue \ {i} : queue[j] # queue[i]
      BY <1>q, <3>1 DEF HistInv, OnePlace, QueuedOnce
    <3>3. \A j \in DOMAIN queue' \ {i} : queue'[j] # queue'[i]
      BY <1>q, <1>out, <3>1, <3>2
    <3>4. IsLogged(queue[i])'
      BY <1>l, <3>1, <3>2 DEF IsLogged
    <3> QED
      BY <1>1, <1>q, <3>1, <3>2, <3>3, <3>4 DEF QueuedOnce, WasWritten, IsRunning, IsLogged
  <2> QED
    BY <2>1, <2>2
<1>6. OnePlace'
  <2>1. Distinct(written)' /\ \A i \in DOMAIN written' : WrittenOnce(i)'
    BY <1>1, <1>l DEF HistInv, OnePlace, WrittenOnce, Distinct, IsLogged
  <2> QED
    BY <1>3, <1>4, <1>5, <2>1 DEF OnePlace
<1>7. InOrder'
  <2> SUFFICES ASSUME NEW w \in Worker, pool = {w}
               PROVE  WrittenFirst' /\ RunningNext(w)' /\ QueuedLast(w)'
    BY <1>q DEF InOrder
  <2>1. WrittenFirst /\ RunningNext(w) /\ QueuedLast(w)
    BY DEF HistInv, InOrder
  <2>2. WrittenFirst' /\ RunningNext(w)' /\ Taken(w)' = Taken(w)
    BY <1>1, <1>q, <1>l, <2>1 DEF WrittenFirst, RunningNext, Taken
  <2>3. ASSUME ~shutdown
        PROVE  Follows(Taken(w), queue', logged')
    BY <1>1, <1>x, <1>t, <2>1, <2>3, FollowsMessage DEF QueuedLast
  <2> QED
    BY <1>q, <2>2, <2>3 DEF QueuedLast
<1> QED
  BY <1>his, <1>num, <1>6, <1>7

\* A worker takes the first task of the queue.
LEMMA HistDequeues ==
  ASSUME HistInv, NEW w \in pool, Dequeue(w), UNCHANGED <<logged, written>>, Numbered'
  PROVE  HistoryOK' /\ Numbered' /\ OnePlace' /\ InOrder'
<1> DEFINE m == Len(queue)
           x == queue[1]
<1>1. /\ worker[w] = "looking" /\ queue # <<>> /\ ~shutdown
      /\ running' = [running EXCEPT ![w] = Head(queue)] /\ queue' = Tail(queue)
      /\ UNCHANGED <<pool, shutdown>>
  BY DEF Dequeue
<1>t. /\ queue \in Seq(Task) /\ logged \in Seq(Message) /\ written \in Seq(Message)
      /\ w \in Worker /\ running = [v \in Worker |-> running[v]] /\ running[w] = NoTask
  BY <1>1 DEF HistInv, EndInv, PoolTypeOK, HistoryOK
<1>q. /\ m \in Nat \ {0} /\ DOMAIN queue = 1..m /\ Head(queue) = x
      /\ DOMAIN queue' = 1..(m - 1) /\ \A i \in 1..(m - 1) : queue'[i] = queue[i + 1]
  BY <1>1, <1>t
<1>r. running'[w] = x /\ \A v \in Worker \ {w} : running'[v] = running[v]
  BY <1>1, <1>t, <1>q
<1>no. NoTask \notin Message
  BY WorkerAssumption DEF Message
<1> HIDE DEF m, x
<1>his. HistoryOK'
  BY DEF HistInv, HistoryOK
<1>in. \A y : IsLogged(y)' = IsLogged(y) /\ WasWritten(y)' = WasWritten(y)
  BY DEF IsLogged, WasWritten
<1>first. /\ 1 \in DOMAIN queue
          /\ x \in Message => /\ IsLogged(x) /\ ~WasWritten(x) /\ ~IsRunning(x)
                              /\ \A i \in 1..(m - 1) : queue[i + 1] # x
  <2>1. 1 \in DOMAIN queue
    BY <1>q
  <2>2. QueuedOnce(1)
    BY <2>1 DEF HistInv, OnePlace
  <2> QED
    BY <1>q, <2>1, <2>2 DEF QueuedOnce, x
<1>2. ASSUME NEW v \in Worker
      PROVE  RunningOnce(v)'
  <2>1. CASE v = w
    BY <1>r, <1>first, <2>1 DEF RunningOnce, IsLogged, WasWritten, IsRunning
  <2>2. CASE v # w
    <3>1. RunningOnce(v)
      BY DEF HistInv, OnePlace
    <3>2. running[v] \in Message => x # running[v]
      BY <1>first DEF IsRunning
    <3> QED
      BY <1>t, <1>r, <2>2, <3>1, <3>2 DEF RunningOnce, IsLogged, WasWritten
  <2> QED
    BY <2>1, <2>2
<1>3. ASSUME NEW i \in DOMAIN queue'
      PROVE  QueuedOnce(i)'
  <2> SUFFICES ASSUME queue'[i] \in Message
               PROVE  QueuedOnce(i)'
    BY DEF QueuedOnce
  <2>1. i \in 1..(m - 1) /\ i + 1 \in DOMAIN queue /\ queue'[i] = queue[i + 1]
    BY <1>q
  <2>2. /\ IsLogged(queue[i + 1]) /\ ~WasWritten(queue[i + 1]) /\ ~IsRunning(queue[i + 1])
        /\ \A j \in DOMAIN queue \ {i + 1} : queue[j] # queue[i + 1]
    BY <2>1 DEF HistInv, OnePlace, QueuedOnce
  <2>3. \A j \in DOMAIN queue' \ {i} : queue'[j] # queue'[i]
    <3> SUFFICES ASSUME NEW j \in DOMAIN queue' \ {i}
                 PROVE  queue'[j] # queue'[i]
      OBVIOUS
    <3>1. j + 1 \in DOMAIN queue \ {i + 1} /\ queue'[j] = queue[j + 1]
      BY <1>q, <2>1
    <3> QED
      BY <2>1, <2>2, <3>1
  <2>4. queue[i + 1] # x
    BY <2>1, <1>first
  <2>5. \A v \in Worker : running'[v] # queue[i + 1]
    BY <1>r, <2>2, <2>4 DEF IsRunning
  <2> QED
    BY <2>1, <2>2, <2>3, <2>5 DEF QueuedOnce, IsLogged, WasWritten, IsRunning
<1>4. OnePlace'
  BY <1>2, <1>3 DEF HistInv, OnePlace, WrittenOnce, Distinct, IsLogged
<1>5. InOrder'
  <2> SUFFICES ASSUME pool = {w}
               PROVE  WrittenFirst' /\ RunningNext(w)' /\ QueuedLast(w)'
    BY <1>1 DEF InOrder
  <2>1. WrittenFirst /\ QueuedLast(w) /\ Taken(w) = Len(written) /\ Len(written) \in Nat
    BY <1>t, <1>no DEF HistInv, InOrder, Taken
  <2>2. Follows(Len(written), queue, logged)
    BY <1>1, <2>1 DEF QueuedLast
  <2>3. IF x = Flush THEN Follows(Len(written), Tail(queue), logged)
        ELSE /\ Follows(Len(written) + 1, Tail(queue), logged)
             /\ Len(written) + 1 \in 1..Len(logged) /\ logged[Len(written) + 1] = x
    <3>1. queue \in Seq(Task) /\ logged \in Seq(Message) /\ queue # <<>>
      BY <1>1, <1>t
    <3>2. IF Head(queue) = Flush THEN Follows(Len(written), Tail(queue), logged)
          ELSE /\ Follows(Len(written) + 1, Tail(queue), logged)
               /\ Len(written) + 1 \in 1..Len(logged)
               /\ logged[Len(written) + 1] = Head(queue)
      BY <2>2, <3>1, FollowsTail
    <3> QED
      BY <1>q, <3>2
  <2>4. x \in Message <=> x # Flush
    BY <1>t, <1>q DEF Message
  <2>5. RunningNext(w)'
    BY <1>t, <1>r, <2>3, <2>4 DEF RunningNext
  <2>6. Taken(w)' = Len(written) + (IF x \in Message THEN 1 ELSE 0)
    BY <1>r DEF Taken
  <2>7. QueuedLast(w)'
    BY <1>1, <2>1, <2>3, <2>4, <2>6 DEF QueuedLast
  <2> QED
    BY <2>1, <2>5, <2>7 DEF WrittenFirst
<1> QED
  BY <1>his, <1>4, <1>5
\* BlackendDoLog, or a flush: the worker is done with its task.
LEMMA HistWrites ==
  ASSUME HistInv, NEW w \in pool, Write(w), Numbered'
  PROVE  HistoryOK' /\ Numbered' /\ OnePlace' /\ InOrder'
<1> DEFINE n == Len(written)
<1>0. PICK x : x = running[w]
  OBVIOUS
<1>1. /\ worker[w] = "busy" /\ running' = [running EXCEPT ![w] = NoTask]
      /\ UNCHANGED <<pool, queue, shutdown, logged>>
      /\ written' = IF x = Flush THEN written ELSE Append(written, x)
  BY <1>0 DEF Write, Done
<1>t. /\ logged \in Seq(Message) /\ written \in Seq(Message) /\ w \in Worker /\ x \in Task
      /\ \A v \in Worker : running'[v] = IF v = w THEN NoTask ELSE running[v]
      /\ x \in Message <=> x # Flush
  BY <1>0, <1>1 DEF HistInv, EndInv, PoolTypeOK, HistoryOK, Message
<1>no. NoTask \notin Message
  BY WorkerAssumption DEF Message
<1>w. /\ n \in Nat /\ DOMAIN written = 1..n
      /\ x = Flush => written' = written
      /\ x # Flush => /\ DOMAIN written' = 1..(n + 1) /\ written'[n + 1] = x
                      /\ Len(written') = n + 1
                      /\ \A i \in 1..n : written'[i] = written[i]
  BY <1>1, <1>t
<1> HIDE DEF n
<1>his. HistoryOK'
  BY <1>1, <1>t DEF HistoryOK
<1>in. \A y : IsLogged(y)' = IsLogged(y)
  BY <1>1 DEF IsLogged
<1>was. \A y : WasWritten(y)' => WasWritten(y) \/ (y = x /\ x \in Message)
  <2> SUFFICES ASSUME NEW y, NEW j \in DOMAIN written', written'[j] = y
               PROVE  WasWritten(y) \/ (y = x /\ x \in Message)
    BY DEF WasWritten
  <2>1. CASE x = Flush
    BY <1>w, <2>1 DEF WasWritten
  <2>2. CASE x # Flush /\ j = n + 1
    BY <1>t, <1>w, <2>2
  <2>3. CASE x # Flush /\ j # n + 1
    BY <1>w, <2>3 DEF WasWritten
  <2> QED
    BY <2>1, <2>2, <2>3
<1>x. x \in Message => /\ IsLogged(x) /\ ~WasWritten(x)
                       /\ \A v \in Worker \ {w} : running[v] # x
  BY <1>0, <1>t DEF HistInv, OnePlace, RunningOnce
<1>2. Distinct(written)'
  <2>1. Distinct(written)
    BY DEF HistInv, OnePlace
  <2>2. CASE x = Flush
    BY <1>w, <2>1, <2>2 DEF Distinct
  <2>3. CASE x # Flush
    <3> SUFFICES ASSUME NEW i \in 1..(n + 1), NEW j \in 1..(n + 1), i # j
                 PROVE  written'[i] # written'[j]
      BY <1>w, <2>3 DEF Distinct
    <3>1. \A k \in 1..n : written[k] # x
      BY <1>t, <1>w, <1>x, <2>3 DEF WasWritten
    <3> QED
      BY <1>w, <2>1, <2>3, <3>1 DEF Distinct
  <2> QED
    BY <2>2, <2>3
<1>3. ASSUME NEW i \in DOMAIN written'
      PROVE  WrittenOnce(i)'
  <2>1. \A j \in DOMAIN written : IsLogged(written[j])
    BY DEF HistInv, OnePlace, WrittenOnce
  <2>2. IsLogged(x) \/ x = Flush
    BY <1>t, <1>x
  <2>3. CASE x = Flush
    BY <1>1, <1>w, <2>1, <2>3 DEF WrittenOnce, IsLogged
  <2>4. CASE x # Flush /\ i = n + 1
    BY <1>1, <1>w, <2>2, <2>4 DEF WrittenOnce, IsLogged
  <2>5. CASE x # Flush /\ i # n + 1
    <3>1. i \in DOMAIN written /\ written'[i] = written[i]
      BY <1>w, <2>5
    <3> QED
      BY <1>1, <2>1, <3>1 DEF WrittenOnce, IsLogged
  <2> QED
    BY <2>3, <2>4, <2>5
<1>4. ASSUME NEW v \in Worker
      PROVE  RunningOnce(v)'
  <2>1. CASE v = w
    BY <1>t, <1>no, <2>1 DEF RunningOnce
  <2>2. CASE v # w
    <3> SUFFICES ASSUME running[v] \in Message
                 PROVE  RunningOnce(v)'
      BY <1>t, <2>2 DEF RunningOnce
    <3>1. /\ IsLogged(running[v]) /\ ~WasWritten(running[v])
          /\ \A u \in Worker \ {v} : running[u] # running[v]
      BY DEF HistInv, OnePlace, RunningOnce
    <3>2. IsLogged(running[v])' /\ running'[v] = running[v]
      BY <1>1, <1>t, <2>2, <3>1 DEF IsLogged
    <3>3. \A j \in DOMAIN written' : written'[j] # running[v]
      <4>1. x # running[v]
        BY <1>0, <1>t, <2>2, <3>1
      <4>2. \A j \in 1..n : written[j] # running[v]
        BY <1>w, <3>1 DEF WasWritten
      <4> QED
        BY <1>w, <4>1, <4>2
    <3>4. \A u \in Worker \ {v} : running'[u] # running[v]
      BY <1>t, <1>no, <3>1
    <3> QED
      BY <1>1, <3>1, <3>2, <3>3, <3>4 DEF RunningOnce, IsLogged, WasWritten
  <2> QED
    BY <2>1, <2>2
<1>5. ASSUME NEW i \in DOMAIN queue'
      PROVE  QueuedOnce(i)'
  <2> SUFFICES ASSUME queue[i] \in Message
               PROVE  QueuedOnce(i)'
    BY <1>1 DEF QueuedOnce
  <2>1. /\ IsLogged(queue[i]) /\ ~WasWritten(queue[i]) /\ ~IsRunning(queue[i])
        /\ \A j \in DOMAIN queue \ {i} : queue[j] # queue[i]
    BY <1>1 DEF HistInv, OnePlace, QueuedOnce
  <2>2. \A v \in Worker : running'[v] # queue[i]
    BY <1>t, <1>no, <2>1 DEF IsRunning
  <2>3. \A j \in DOMAIN written' : written'[j] # queue[i]
    <3>1. x # queue[i]
      BY <1>0, <1>t, <2>1 DEF IsRunning
    <3>2. \A j \in 1..n : written[j] # queue[i]
      BY <1>w, <2>1 DEF WasWritten
    <3> QED
      BY <1>w, <3>1, <3>2
  <2> QED
    BY <1>1, <2>1, <2>2, <2>3 DEF QueuedOnce, IsLogged, WasWritten, IsRunning
<1>6. OnePlace'
  <2>1. Distinct(logged)'
    BY <1>1 DEF HistInv, OnePlace, Distinct
  <2> QED
    BY <1>2, <1>3, <1>4, <1>5, <2>1 DEF OnePlace
<1>7. InOrder'
  <2> SUFFICES ASSUME pool = {w}
               PROVE  WrittenFirst' /\ RunningNext(w)' /\ QueuedLast(w)'
    BY <1>1 DEF InOrder
  <2>1. WrittenFirst /\ RunningNext(w) /\ QueuedLast(w)
    BY <1>t DEF HistInv, InOrder
  <2>2. RunningNext(w)'
    BY <1>t, <1>no DEF RunningNext
  <2>3. Taken(w)' = Taken(w)
    BY <1>0, <1>t, <1>no, <1>w DEF Taken, n
  <2>4. WrittenFirst'
    <3>1. CASE x = Flush
      BY <1>1, <1>w, <2>1, <3>1 DEF WrittenFirst
    <3>2. CASE x # Flush
      <4>1. n + 1 \in DOMAIN logged /\ logged[n + 1] = x
        BY <1>0, <1>t, <2>1, <3>2 DEF RunningNext, n
      <4> SUFFICES ASSUME NEW i \in 1..(n + 1)
                   PROVE  i \in DOMAIN logged /\ written'[i] = logged[i]
        BY <1>1, <1>w, <3>2 DEF WrittenFirst
      <4>2. CASE i = n + 1
        BY <1>w, <3>2, <4>1, <4>2
      <4>3. CASE i # n + 1
        BY <1>w, <2>1, <3>2, <4>3 DEF WrittenFirst
      <4> QED
        BY <4>2, <4>3
    <3> QED
      BY <3>1, <3>2
  <2> QED
    BY <1>1, <2>1, <2>2, <2>3, <2>4 DEF QueuedLast
<1> QED
  BY <1>his, <1>6, <1>7

\* Cancel drops what is queued; from then on the order is that of what was
\* taken from the queue before.
LEMMA HistCancels ==
  ASSUME HistInv, NEW t \in Thread, CancelPool(t), Numbered'
  PROVE  HistoryOK' /\ Numbered' /\ OnePlace' /\ InOrder'
<1>1. queue' = <<>> /\ shutdown' /\ UNCHANGED <<pool, running, logged, written>>
  BY DEF CancelPool, Cancel
<1>2. HistoryOK'
  BY <1>1 DEF HistInv, HistoryOK
<1>3. \A i \in DOMAIN queue' : QueuedOnce(i)'
  BY <1>1
<1>4. OnePlace'
  BY <1>1, <1>3 DEF HistInv, OnePlace, WrittenOnce, RunningOnce, Distinct, IsLogged, WasWritten
<1>5. InOrder'
  BY <1>1 DEF HistInv, InOrder, WrittenFirst, RunningNext, QueuedLast
<1> QED
  BY <1>2, <1>4, <1>5

-----------------------------------------------------------------------------
\* Log: the thread has one more number.
LEMMA LogNumbers ==
  ASSUME HistInv, NEW t \in Logging, Log(t)
  PROVE  Numbered'
<1>1. /\ pc[t] = "idle" /\ logs' = [logs EXCEPT ![t] = @ + 1] /\ logged' = logged
      /\ \A u \in Logging \ {t} : pc'[u] = pc[u]
  BY DEF Log, Goto, HistInv, EndInv, LogInv, PcOK
<1>2. logs = [u \in Logging |-> logs[u]] /\ \A u \in Logging : logs[u] \in Nat
  BY DEF HistInv, EndInv, LogInv, LogsOK
<1>3. logs'[t] = logs[t] + 1 /\ \A u \in Logging \ {t} : logs'[u] = logs[u]
  BY <1>1, <1>2
<1> SUFFICES ASSUME NEW i \in DOMAIN logged
             PROVE  \E u \in Logging : \E n \in 1..logs'[u] :
                      logged[i] = [by |-> u, n |-> n] /\ (pc'[u] = "submit" => n # logs'[u])
  BY <1>1 DEF Numbered
<1>4. PICK u \in Logging : \E n \in 1..logs[u] :
        logged[i] = [by |-> u, n |-> n] /\ (pc[u] = "submit" => n # logs[u])
  BY DEF HistInv, Numbered
<1>5. PICK n \in 1..logs[u] :
        logged[i] = [by |-> u, n |-> n] /\ (pc[u] = "submit" => n # logs[u])
  BY <1>4
<1>6. n \in 1..logs'[u] /\ (pc'[u] = "submit" => n # logs'[u])
  <2>1. CASE u = t
    BY <1>2, <1>3, <2>1
  <2>2. CASE u # t
    BY <1>1, <1>3, <1>5, <2>2
  <2> QED
    BY <2>1, <2>2
<1> QED
  BY <1>5, <1>6

LEMMA HistStep ==
  ASSUME HistInv, Next
  PROVE  HistoryOK' /\ Numbered' /\ OnePlace' /\ InOrder'
<1> DEFINE Goal == HistoryOK' /\ Numbered' /\ OnePlace' /\ InOrder'
<1>pc. pc = [t \in Thread |-> pc[t]]
  BY DEF HistInv, EndInv, LogInv, PcOK
<1>1. ASSUME NEW t \in Logging, Log(t)
      PROVE  Goal
  BY <1>1, LogNumbers, HistKept DEF Log, poolVars
<1>2. ASSUME NEW t \in Logging, LogSubmit(t)
      PROVE  Goal
  BY <1>2, HistLogs
<1>3. ASSUME NEW t \in Thread, NEW s, pc' = [pc EXCEPT ![t] = s], s # "submit",
             UNCHANGED <<logs, logged>>
      PROVE  Numbered'
  BY <1>pc, <1>3, NumbersKept
<1>4. ASSUME NEW t \in Thread, FlushSubmit(t)
      PROVE  Goal
  <2>1. /\ pc' = [pc EXCEPT ![t] = "flush_release"] /\ Enqueue(Flush)
        /\ UNCHANGED <<logs, logged, written>>
    BY <1>4 DEF FlushSubmit, Goto
  <2> QED
    BY <1>3, <2>1, HistFlushes
<1>5. ASSUME NEW t \in Thread, CancelPool(t)
      PROVE  Goal
  <2>1. pc' = [pc EXCEPT ![t] = "join"] /\ UNCHANGED <<logs, logged>>
    BY <1>5 DEF CancelPool, Goto
  <2> QED
    BY <1>3, <1>5, <2>1, HistCancels
<1>6. ASSUME NEW t \in Thread,
             LogRelease(t) \/ FlushRelease(t) \/ FlushLock(t) \/ FlushAll(t) \/ Flushed(t)
               \/ JoinPool(t) \/ (t = Flusher /\ (Tick \/ FlusherExit))
               \/ (t = Main /\ (Shutdown \/ StopFlusher \/ JoinFlusher \/ DropAll \/ ResetPool))
      PROVE  Goal
  <2>1. \E s : s # "submit" /\ pc' = [pc EXCEPT ![t] = s]
    BY <1>6 DEF LogRelease, FlushRelease, FlushLock, FlushAll, Flushed, JoinPool, Tick,
       FlusherExit, Shutdown, StopFlusher, JoinFlusher, DropAll, ResetPool, LetGo, Goto
  <2>2. UNCHANGED <<poolVars, logs, logged, written>>
    BY <1>6 DEF LogRelease, FlushRelease, FlushLock, FlushAll, Flushed, JoinPool, Tick,
       FlusherExit, Shutdown, StopFlusher, JoinFlusher, DropAll, ResetPool
  <2>3. Numbered'
    BY <1>3, <2>1, <2>2
  <2> QED
    BY <2>2, <2>3, HistKept DEF poolVars
<1>7. ASSUME NEW w \in pool, Work(w) \/ (WakeUp(w) /\ UNCHANGED logVars)
      PROVE  Goal
  <2>1. Numbered'
    BY <1>7, NumbersKept DEF Work, Write, logVars
  <2>2. CASE Write(w)
    BY <2>1, <2>2, HistWrites
  <2>3. CASE Dequeue(w) /\ UNCHANGED logVars
    BY <2>1, <2>3, HistDequeues DEF logVars
  <2>4. CASE (Sleep(w) \/ Exit(w) \/ WakeUp(w)) /\ UNCHANGED logVars
    BY <2>1, <2>4, HistKept DEF Sleep, Exit, WakeUp, logVars
  <2> QED
    BY <1>7, <2>2, <2>3, <2>4 DEF Work
<1> QED
  BY <1>1, <1>2, <1>4, <1>5, <1>6, <1>7 DEF Next, LogStep, MainStep, Flushing

LEMMA NextHist ==
  ASSUME HistInv, [Next]_vars
  PROVE  HistInv'
<1>1. EndInv'
  BY NextEndInv DEF HistInv
<1>2. HistoryOK' /\ Numbered' /\ OnePlace' /\ InOrder'
  <2>1. CASE Next
    BY <2>1, HistStep
  <2>2. CASE UNCHANGED vars
    <3>1. UNCHANGED <<pool, running, queue, shutdown, logged, written, logs, pc>>
      BY <2>2 DEF vars, poolVars, logVars
    <3>2. Numbered'
      BY <3>1 DEF HistInv, Numbered
    <3> QED
      BY <3>1, <3>2, HistKept
  <2> QED
    BY <2>1, <2>2
<1> QED
  BY <1>1, <1>2 DEF HistInv

\* However many threads log and write, a line that AsyncLogger's worker writes
\* was logged, and is written once; a pool of one thread, the default of
\* log_thread_pool_size, writes the lines in the order in which the calls of
\* Log queued them and leaves none out.
THEOREM LogIsFaithful == Spec => []WrittenAsLogged
<1>1. HistInv /\ [Next]_vars => HistInv'
  BY NextHist
<1>2. HistInv => WrittenAsLogged
  <2> SUFFICES ASSUME HistInv
               PROVE  WrittenAsLogged
    OBVIOUS
  <2>1. \A i, j \in DOMAIN written : i # j => written[i] # written[j]
    BY DEF HistInv, OnePlace, Distinct
  <2>2. \A i \in DOMAIN written : \E j \in DOMAIN logged : logged[j] = written[i]
    BY DEF HistInv, OnePlace, WrittenOnce, IsLogged
  <2>3. ASSUME Cardinality(pool) = 1
        PROVE  IsPrefix(written, logged)
    <3>1. IsFiniteSet(pool)
      <4>1. pool \subseteq Worker
        BY DEF HistInv, EndInv, PoolTypeOK
      <4> QED
        BY <4>1, WorkerAssumption, FS_Subset
    <3>2. PICK w : pool = {w}
      BY <2>3, <3>1, FS_Singleton
    <3>3. w \in Worker
      BY <3>2 DEF HistInv, EndInv, PoolTypeOK
    <3>4. WrittenFirst
      BY <3>2, <3>3 DEF HistInv, InOrder
    <3>5. logged \in Seq(Message) /\ written \in Seq(Message)
      BY DEF HistInv, HistoryOK
    <3>6. /\ Len(written) \in Nat /\ Len(logged) \in Nat
          /\ DOMAIN written = 1..Len(written) /\ DOMAIN logged = 1..Len(logged)
      BY <3>5
    <3>7. Len(written) <= Len(logged)
      <4>1. CASE Len(written) = 0
        BY <3>6, <4>1
      <4>2. CASE Len(written) # 0
        <5>1. Len(written) \in DOMAIN written
          BY <3>6, <4>2
        <5> QED
          BY <3>4, <3>6, <5>1 DEF WrittenFirst
      <4> QED
        BY <4>1, <4>2
    <3>8. \A i \in 1..Len(written) : written[i] = logged[i]
      BY <3>4, <3>6 DEF WrittenFirst
    <3>9. SubSeq(written, 1, Len(written)) = SubSeq(logged, 1, Len(written))
      BY <3>5, <3>6, <3>7, <3>8
    <3> QED
      BY <3>7, <3>9 DEF IsPrefix
  <2> QED
    BY <2>1, <2>2, <2>3 DEF WrittenAsLogged
<1> QED
  BY InitHist, <1>1, <1>2, PTL DEF Spec
=============================================================================
