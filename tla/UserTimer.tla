----------------------------- MODULE UserTimer -----------------------------
(***************************************************************************)
(* The user timers of one server: StartTimer and its variants, StopTimer   *)
(* and StopAllTimers, called from any thread, and the handlers they leave  *)
(* on the server's strand.  An interval or a delay only says when a wait   *)
(* may end, so the timers with and without a delay are the same here.      *)
(***************************************************************************)
EXTENDS Integers, Sequences, FiniteSets

CONSTANTS
  Keys,       \* UserTimerKey: group and id
  Cycles,     \* the cycle counts StartCycleTimer is called with
  MaxStarts,  \* bound: calls that start a timer
  MaxStops,   \* bound: calls that stop timers, the tasks' own included
  RunCap,     \* bound: runs of a task are counted up to here
  NoTimer     \* no entry in user_timers_

Forever == -1  \* kUserTimerCycleForever

ASSUME TimerAssumption ==
  /\ Cycles \in SUBSET Int
  /\ MaxStarts \in Nat /\ MaxStops \in Nat /\ RunCap \in Nat
  /\ NoTimer \notin Nat

VARIABLES
  ut,      \* user_timers_, the timer objects, the handlers of finished waits
  strand,  \* tasks on the strand
  calls,   \* calls made so far
  hist     \* history, per object: its cycle when made, how often it was
           \* started and stopped and ran its task

vars == <<ut, strand, calls, hist>>

\* A UserTimerObj; the n-th one made is object n.  left is its cycle, waiting
\* says that an async_wait is pending on its timer.
Object(key, cycle) ==
  [key |-> key, left |-> cycle, exited |-> FALSE, waiting |-> FALSE]

Init ==
  /\ ut = [map |-> [k \in Keys |-> NoTimer], objs |-> <<>>, ready |-> <<>>]
  /\ strand = <<>>
  /\ calls = [start |-> 0, stop |-> 0]
  /\ hist = <<>>

-----------------------------------------------------------------------------
(* Operators on the ut record.                                             *)

WaitDone(o, aborted) == [obj |-> o, aborted |-> aborted]

\* expires_after and cancel abort a wait that is still pending; one that is
\* over keeps its result.
Abort(u, o) ==
  IF u.objs[o].waiting
  THEN [u EXCEPT !.objs[o].waiting = FALSE,
                 !.ready = Append(@, WaitDone(o, TRUE))]
  ELSE u

\* Mutants: an object that has exited is armed again; none is armed.
ArmAnyway(u, o) == [Abort(u, o) EXCEPT !.objs[o].waiting = TRUE]
ArmNever(u, o) == u

\* PostUserTimers.
Arm(u, o) ==
  IF u.objs[o].exited THEN u ELSE [Abort(u, o) EXCEPT !.objs[o].waiting = TRUE]

\* Mutant: the object is erased and not told to exit.
StopKeyErases(u, key) ==
  LET o == u.map[key] IN
  IF o = NoTimer THEN u ELSE Abort([u EXCEPT !.map[key] = NoTimer], o)

\* StopTimer on the strand.
StopKey(u, key) ==
  LET o == u.map[key] IN
  IF o = NoTimer THEN u
  ELSE Abort([u EXCEPT !.objs[o].exited = TRUE, !.map[key] = NoTimer], o)

Registered(u) == {k \in Keys : u.map[k] # NoTimer}

\* The waits StopAllTimers aborts, in any order the unordered_map may have.
AbortOrders(u) ==
  LET waiting == {u.map[k] : k \in Registered(u)}
                   \cap {o \in DOMAIN u.objs : u.objs[o].waiting}
      places == 1..Cardinality(waiting)
  IN  {f \in [places -> waiting] : \A i, j \in places : f[i] = f[j] => i = j}

StopAll(u, order) ==
  [map |-> [k \in Keys |-> NoTimer],
   objs |-> [o \in DOMAIN u.objs |->
               IF \E k \in Keys : u.map[k] = o
               THEN [u.objs[o] EXCEPT !.exited = TRUE, !.waiting = FALSE]
               ELSE u.objs[o]],
   ready |-> u.ready \o [i \in DOMAIN order |-> WaitDone(order[i], TRUE)]]

-----------------------------------------------------------------------------
(* Calls from any thread: each posts its task to the strand.               *)

CallStart(key, cycle) ==
  /\ calls.start < MaxStarts
  /\ calls' = [calls EXCEPT !.start = @ + 1]
  /\ strand' = Append(strand, [t |-> "start", key |-> key, cycle |-> cycle])
  /\ UNCHANGED <<ut, hist>>

CallStop(key) ==
  /\ calls.stop < MaxStops
  /\ calls' = [calls EXCEPT !.stop = @ + 1]
  /\ strand' = Append(strand, [t |-> "stop", key |-> key])
  /\ UNCHANGED <<ut, hist>>

CallStopAll ==
  /\ calls.stop < MaxStops
  /\ calls' = [calls EXCEPT !.stop = @ + 1]
  /\ strand' = Append(strand, [t |-> "stopAll"])
  /\ UNCHANGED <<ut, hist>>

-----------------------------------------------------------------------------
(* The io thread.                                                          *)

Running == Head(strand)
OnStrand(t) == strand # <<>> /\ Running.t = t

Deliver ==
  /\ ut.ready # <<>>
  /\ strand' = Append(strand, [t |-> "timer", done |-> Head(ut.ready)])
  /\ ut' = [ut EXCEPT !.ready = Tail(@)]
  /\ UNCHANGED <<calls, hist>>

\* The body StartTimer, StartDelayTimer, StartCycleTimer and
\* StartDelayCycleTimer post: an object of that key that exists is armed
\* again and keeps its cycle.
HandleStart ==
  /\ OnStrand("start")
  /\ LET old == ut.map[Running.key]
         new == Len(ut.objs) + 1
     IN  IF old # NoTimer
         THEN /\ ut' = Arm(ut, old)
              /\ hist' = [hist EXCEPT ![old].starts = @ + 1]
         ELSE /\ ut' = Arm([ut EXCEPT !.objs = Append(@, Object(Running.key,
                                                               Running.cycle)),
                                      !.map[Running.key] = new], new)
              /\ hist' = Append(hist, [cycle |-> Running.cycle, starts |-> 1,
                                       stops |-> 0, runs |-> 0])
  /\ strand' = Tail(strand)
  /\ UNCHANGED calls

\* The history of the objects those keys stand for.
CountStops(keys) ==
  [o \in DOMAIN hist |-> IF \E k \in keys : ut.map[k] = o
                         THEN [hist[o] EXCEPT !.stops = @ + 1] ELSE hist[o]]

HandleStop ==
  /\ OnStrand("stop")
  /\ ut' = StopKey(ut, Running.key)
  /\ hist' = CountStops({Running.key})
  /\ strand' = Tail(strand)
  /\ UNCHANGED calls

HandleStopAll ==
  /\ OnStrand("stopAll")
  /\ \E order \in AbortOrders(ut) : ut' = StopAll(ut, order)
  /\ hist' = CountStops(Keys)
  /\ strand' = Tail(strand)
  /\ UNCHANGED calls

-----------------------------------------------------------------------------
(* HandleUserTimers: the end of a wait, by expiry or abortion.             *)

\* Mutants: one cycle too many; one too few.
LastCycleTooLate(left) == left # Forever /\ left < 1
LastCycleTooEarly(left) == left # Forever /\ left <= 2

LastCycle(left) == left # Forever /\ left <= 1

CountDown(left) == IF left = Forever THEN left ELSE left - 1

\* What follows the task: u is the state it left behind.
AfterTask(u, o, aborted) ==
  IF aborted \/ LastCycle(u.objs[o].left) THEN StopKey(u, u.objs[o].key)
  ELSE Arm([u EXCEPT !.objs[o].left = CountDown(@)], o)

CountRun(h, o) ==
  [h EXCEPT ![o].runs = IF @ < RunCap THEN @ + 1 ELSE @]

\* The task runs, even when the wait was aborted, and may stop timers: on the
\* strand StopTimer and StopAllTimers act at once.
HandleUserTimers ==
  /\ OnStrand("timer")
  /\ LET o == Running.done.obj
         aborted == Running.done.aborted
     IN  \/ /\ ut' = AfterTask(ut, o, aborted)
            /\ hist' = CountRun(hist, o)
            /\ UNCHANGED calls
         \/ /\ calls.stop < MaxStops
            /\ calls' = [calls EXCEPT !.stop = @ + 1]
            /\ \/ \E key \in Keys :
                    /\ ut' = AfterTask(StopKey(ut, key), o, aborted)
                    /\ hist' = CountRun(CountStops({key}), o)
               \/ \E order \in AbortOrders(ut) :
                    /\ ut' = AfterTask(StopAll(ut, order), o, aborted)
                    /\ hist' = CountRun(CountStops(Keys), o)
  /\ strand' = Tail(strand)

\* The clock: a wait ends by itself.  Not under src/.
Expire(o) ==
  /\ o \in DOMAIN ut.objs /\ ut.objs[o].waiting
  /\ ut' = [ut EXCEPT !.objs[o].waiting = FALSE,
                      !.ready = Append(@, WaitDone(o, FALSE))]
  /\ UNCHANGED <<strand, calls, hist>>

IoThreadStep ==
  Deliver \/ HandleStart \/ HandleStop \/ HandleStopAll \/ HandleUserTimers

Next ==
  \/ \E key \in Keys, cycle \in Cycles : CallStart(key, cycle)
  \/ \E key \in Keys : CallStop(key)
  \/ CallStopAll
  \/ IoThreadStep
  \/ \E o \in 1..MaxStarts : Expire(o)

Spec == Init /\ [][Next]_vars

\* The io thread runs what is queued and time passes; nobody has to call.
FairSpec ==
  Spec /\ WF_vars(IoThreadStep) /\ \A o \in 1..MaxStarts : WF_vars(Expire(o))

-----------------------------------------------------------------------------
(* Properties.                                                             *)

\* How many ends of waits of an object are still to be handled.
Chains(o) ==
  (IF ut.objs[o].waiting THEN 1 ELSE 0)
    + Cardinality({i \in DOMAIN ut.ready : ut.ready[i].obj = o})
    + Cardinality({i \in DOMAIN strand :
                    strand[i].t = "timer" /\ strand[i].done.obj = o})

\* A timer in user_timers_ is alive: it has not exited, and PostUserTimers has
\* armed it or the end of its last wait is on its way to HandleUserTimers.
RegisteredIsArmed ==
  \A k \in Registered(ut) :
    LET o == ut.map[k] IN
    ~ut.objs[o].exited /\ ut.objs[o].key = k /\ Chains(o) > 0

\* The other way round: an object that is not in user_timers_ was told to exit,
\* so no timer goes on that StopTimer cannot find any more.
UnregisteredHasExited ==
  \A o \in DOMAIN ut.objs :
    ut.map[ut.objs[o].key] # o => ut.objs[o].exited

\* A timer that was started once runs its task at most cycle times, whenever
\* and however often it is stopped (and once if cycle is 0).
AtMostCycleRuns ==
  \A o \in DOMAIN hist :
    hist[o].starts = 1 /\ hist[o].cycle # Forever =>
      hist[o].runs <= (IF hist[o].cycle < 1 THEN 1 ELSE hist[o].cycle)

Exited(o) == o \in DOMAIN ut.objs /\ ut.objs[o].exited

\* The only object its key ever had, started once and never stopped.
Undisturbed(o) ==
  /\ hist[o].starts = 1 /\ hist[o].stops = 0
  /\ \A p \in DOMAIN ut.objs \ {o} : ut.objs[p].key # ut.objs[o].key

\* HandleUserTimers gives up such a timer only when the task has run cycle
\* times, and never if it has no cycle.
LeavesAfterItsCycles ==
  [][\A o \in 1..MaxStarts :
       ~Exited(o) /\ Exited(o)' /\ Undisturbed(o)' =>
         hist[o].cycle # Forever /\ hist'[o].runs >= hist[o].cycle]_vars

\* A stopped timer comes to rest: PostUserTimers does not arm it any more.
StoppedComesToRest ==
  \A o \in 1..MaxStarts : Exited(o) ~> (Exited(o) /\ Chains(o) = 0)

\* StartTimer's promise: a timer started without a cycle and never stopped
\* stays, however often it is started.
StartedForeverStays ==
  \A o \in DOMAIN hist :
    hist[o].cycle = Forever /\ hist[o].stops = 0 => ~ut.objs[o].exited
=============================================================================
