------------------------------ MODULE AsyncLog ------------------------------
(***************************************************************************)
(* The asynchronous logger: threads that log through a shared_ptr of the   *)
(* default logger, the pool that writes, the PeriodicWorker that flushes,  *)
(* and the Shutdown of the hub by the main thread.  The logger holds the   *)
(* pool by a weak_ptr: whoever lets go of it last destroys it.             *)
(***************************************************************************)
EXTENDS ThreadPool, SequencesExt

CONSTANTS
  Logging,    \* the threads that log
  MaxLogs,    \* bound: the messages of each
  MaxTicks,   \* bound: how often the flusher's interval passes
  Nobody

Main    == "main"
Flusher == "flusher"
Hub     == "hub"
Thread  == Logging \cup {Main, Flusher}

Flush   == [by |-> Flusher, n |-> 0]

ASSUME LogAssumption ==
  /\ {Main, Flusher, Hub} \cap Logging = {} /\ Nobody \notin Thread
  /\ MaxLogs \in [Logging -> Nat] /\ MaxTicks \in Nat
  /\ Flush \in Task
  /\ \A t \in Logging : \A i \in 1..MaxLogs[t] : [by |-> t, n |-> i] \in Task

VARIABLES
  pc,          \* what each thread is doing
  owners,      \* who holds thread_pool_, or a shared_ptr of it
  mapLock,     \* who holds logger_map_mutex_
  registered,  \* loggers_ has the logger
  active,      \* active_ of the PeriodicWorker
  thrown,      \* an exception nobody catches
  ticks,       \* intervals that passed
  logs,        \* messages of each thread that were logged or refused
  logged,      \* history: the messages in the order they were queued
  written      \* history: the messages in the order they were written

logVars == <<pc, owners, mapLock, registered, active, thrown, ticks, logs,
             logged, written>>
vars == <<poolVars, logVars>>

\* LogHub::Init; an interval of 0 makes a PeriodicWorker without a thread.
Init ==
  /\ PoolInit
  /\ pc \in {f \in [Thread -> {"idle", "exited"}] : \A t \in Thread \ {Flusher} : f[t] = "idle"}
  /\ owners = {Hub}
  /\ mapLock = Nobody /\ registered = TRUE
  /\ active = (pc[Flusher] = "idle")
  /\ thrown = FALSE /\ ticks = 0
  /\ logs = [t \in Logging |-> 0]
  /\ logged = <<>> /\ written = <<>>

Goto(t, s) == pc' = [pc EXCEPT ![t] = s]

-----------------------------------------------------------------------------
(* Submit, through thread_pool_.lock().                                    *)

\* Mutant: the hub destroys the pool whoever else holds it.
LetGoOfAll(t, owner, next) ==
  /\ owners' = owners \ {owner}
  /\ Goto(t, IF owner = Hub THEN "cancel" ELSE next)

\* A shared_ptr of the pool goes; the last one takes the pool with it.
LetGo(t, owner, next) ==
  /\ owners' = owners \ {owner}
  /\ Goto(t, IF owners' = {} THEN "cancel" ELSE next)

\* AppenderDoLog: without a pool the exception ends in DoErrhandler.
Log(t) ==
  /\ pc[t] = "idle" /\ logs[t] < MaxLogs[t]
  /\ logs' = [logs EXCEPT ![t] = @ + 1]
  /\ IF owners # {} THEN owners' = owners \cup {t} /\ Goto(t, "submit")
     ELSE UNCHANGED <<owners, pc>>
  /\ UNCHANGED <<poolVars, mapLock, registered, active, thrown, ticks, logged, written>>

LogSubmit(t) ==
  /\ pc[t] = "submit"
  /\ LET task == [by |-> t, n |-> logs[t]]
     IN  Enqueue(task) /\ logged' = Append(logged, task)
  /\ Goto(t, "release")
  /\ UNCHANGED <<owners, mapLock, registered, active, thrown, ticks, logs, written>>

LogRelease(t) ==
  /\ pc[t] = "release"
  /\ LetGo(t, t, "idle")
  /\ UNCHANGED <<poolVars, mapLock, registered, active, thrown, ticks, logs, logged, written>>

-----------------------------------------------------------------------------
(* FlushAll, by the flusher and by Shutdown.                               *)

FlushAll(t) ==
  /\ pc[t] = "flush_all" /\ mapLock = Nobody
  /\ mapLock' = t
  /\ Goto(t, IF registered THEN "flush" ELSE "flushed")
  /\ UNCHANGED <<poolVars, owners, registered, active, thrown, ticks, logs, logged, written>>

\* AppenderDoFlush: nobody catches the exception for a pool that is gone.
FlushLock(t) ==
  /\ pc[t] = "flush"
  /\ IF owners # {}
     THEN owners' = owners \cup {t} /\ Goto(t, "flush_submit") /\ UNCHANGED thrown
     ELSE thrown' = TRUE /\ Goto(t, "flushed") /\ UNCHANGED owners
  /\ UNCHANGED <<poolVars, mapLock, registered, active, ticks, logs, logged, written>>

FlushSubmit(t) ==
  /\ pc[t] = "flush_submit"
  /\ Enqueue(Flush)
  /\ Goto(t, "flush_release")
  /\ UNCHANGED <<owners, mapLock, registered, active, thrown, ticks, logs, logged, written>>

FlushRelease(t) ==
  /\ pc[t] = "flush_release"
  /\ LetGo(t, t, "flushed")
  /\ UNCHANGED <<poolVars, mapLock, registered, active, thrown, ticks, logs, logged, written>>

\* Mutant: Shutdown flushes under the lock it takes for DropAll.
FlushedKeepsLock(t) ==
  /\ pc[t] = "flushed"
  /\ mapLock' = IF t = Main THEN mapLock ELSE Nobody
  /\ Goto(t, IF t = Main THEN "stop_flusher" ELSE "idle")
  /\ UNCHANGED <<poolVars, owners, registered, active, thrown, ticks, logs, logged, written>>

\* Mutant: Shutdown lets go of the pool while the flusher still runs.
FlushedToReset(t) ==
  /\ pc[t] = "flushed"
  /\ mapLock' = Nobody
  /\ Goto(t, IF t = Main THEN "reset" ELSE "idle")
  /\ UNCHANGED <<poolVars, owners, registered, active, thrown, ticks, logs, logged, written>>

Flushed(t) ==
  /\ pc[t] = "flushed"
  /\ mapLock' = Nobody
  /\ Goto(t, IF t = Main THEN "stop_flusher" ELSE "idle")
  /\ UNCHANGED <<poolVars, owners, registered, active, thrown, ticks, logs, logged, written>>

-----------------------------------------------------------------------------
(* PeriodicWorker: mutex_ is held during the task.                         *)

Tick ==
  /\ pc[Flusher] = "idle" /\ active /\ ticks < MaxTicks
  /\ ticks' = ticks + 1
  /\ Goto(Flusher, "flush_all")
  /\ UNCHANGED <<poolVars, owners, mapLock, registered, active, thrown, logs, logged, written>>

FlusherExit ==
  /\ pc[Flusher] = "idle" /\ ~active
  /\ Goto(Flusher, "exited")
  /\ UNCHANGED <<poolVars, owners, mapLock, registered, active, thrown, ticks, logs, logged,
                 written>>

-----------------------------------------------------------------------------
(* LogHub::Shutdown.                                                       *)

Shutdown ==
  /\ pc[Main] = "idle"
  /\ Goto(Main, "flush_all")
  /\ UNCHANGED <<poolVars, owners, mapLock, registered, active, thrown, ticks, logs, logged,
                 written>>

\* ~PeriodicWorker: active_ changes under mutex_, which a flush holds.
StopFlusher ==
  /\ pc[Main] = "stop_flusher" /\ pc[Flusher] \in {"idle", "exited"}
  /\ active' = FALSE
  /\ Goto(Main, "join_flusher")
  /\ UNCHANGED <<poolVars, owners, mapLock, registered, thrown, ticks, logs, logged, written>>

JoinFlusher ==
  /\ pc[Main] = "join_flusher" /\ pc[Flusher] = "exited"
  /\ Goto(Main, "drop_all")
  /\ UNCHANGED <<poolVars, owners, mapLock, registered, active, thrown, ticks, logs, logged,
                 written>>

DropAll ==
  /\ pc[Main] = "drop_all" /\ mapLock = Nobody
  /\ registered' = FALSE
  /\ Goto(Main, "reset")
  /\ UNCHANGED <<poolVars, owners, mapLock, active, thrown, ticks, logs, logged, written>>

ResetPool ==
  /\ pc[Main] = "reset"
  /\ LetGo(Main, Hub, "exited")
  /\ UNCHANGED <<poolVars, mapLock, registered, active, thrown, ticks, logs, logged, written>>

\* ~ThreadPool, in whichever thread held the last shared_ptr.
CancelPool(t) ==
  /\ pc[t] = "cancel"
  /\ Cancel
  /\ Goto(t, "join")
  /\ UNCHANGED <<owners, mapLock, registered, active, thrown, ticks, logs, logged, written>>

\* Mutant: the threads are detached, not joined.
JoinPoolDetached(t) ==
  /\ pc[t] = "join"
  /\ Goto(t, IF t = Main THEN "exited" ELSE "idle")
  /\ UNCHANGED <<poolVars, owners, mapLock, registered, active, thrown, ticks, logs, logged,
                 written>>

JoinPool(t) ==
  /\ pc[t] = "join" /\ Joined
  /\ Goto(t, IF t = Main THEN "exited" ELSE "idle")
  /\ UNCHANGED <<poolVars, owners, mapLock, registered, active, thrown, ticks, logs, logged,
                 written>>

-----------------------------------------------------------------------------
\* BlackendDoLog and BlackendDoFlush in a worker.
Write(w) ==
  /\ Done(w)
  /\ written' = IF running[w] = Flush THEN written ELSE Append(written, running[w])
  /\ UNCHANGED <<pc, owners, mapLock, registered, active, thrown, ticks, logs, logged>>

Work(w) ==
  \/ Write(w)
  \/ (Dequeue(w) \/ Sleep(w) \/ Exit(w)) /\ UNCHANGED logVars

Flushing(t) == FlushAll(t) \/ FlushLock(t) \/ FlushSubmit(t) \/ FlushRelease(t) \/ Flushed(t)

MainStep ==
  \/ Flushing(Main) \/ StopFlusher \/ JoinFlusher \/ DropAll \/ ResetPool
  \/ CancelPool(Main) \/ JoinPool(Main)

LogStep(t) == LogSubmit(t) \/ LogRelease(t) \/ CancelPool(t) \/ JoinPool(t)

Next ==
  \/ \E t \in Logging : Log(t) \/ LogStep(t)
  \/ Shutdown \/ MainStep
  \/ Tick \/ FlusherExit \/ Flushing(Flusher)
  \/ \E w \in pool : Work(w) \/ (WakeUp(w) /\ UNCHANGED logVars)

Spec == Init /\ [][Next]_vars

\* The threads run; nobody has to log, to call Shutdown or to wake up for no
\* reason, and the flusher's interval need not pass.
FairSpec ==
  /\ Spec
  /\ WF_vars(MainStep) /\ WF_vars(FlusherExit) /\ WF_vars(Flushing(Flusher))
  /\ \A t \in Logging : WF_vars(LogStep(t))
  /\ \A w \in Worker : WF_vars(w \in pool /\ Work(w))

-----------------------------------------------------------------------------
(* Properties.                                                             *)

\* Whatever is written was logged, and once; a pool of one thread, the
\* default of log_thread_pool_size, writes in the order of the calls and
\* leaves none out.
WrittenAsLogged ==
  /\ \A i, j \in DOMAIN written : i # j => written[i] # written[j]
  /\ \A i \in DOMAIN written : \E j \in DOMAIN logged : logged[j] = written[i]
  /\ Cardinality(pool) = 1 => IsPrefix(written, logged)

\* Shutdown stops the flusher before it lets go of the pool: the exception
\* that Flush throws without one would end the process from the flusher's
\* thread.
FlushFindsThePool == ~thrown

\* The logging module behaves like a pool that is destroyed once: no task is
\* submitted once that has begun, whichever thread does it.
UsesThePool == PoolSpec

\* Shutdown returns.
ShutdownReturns == pc[Main] # "idle" ~> pc[Main] = "exited"

\* When Shutdown has returned and no thread is in the middle of logging, the
\* pool's threads have ended, whoever it was that destroyed it.
ShutdownLeavesNoThread ==
  (pc[Main] = "exited" /\ \A t \in Logging : pc[t] = "idle") => Joined /\ queue = <<>>
=============================================================================
