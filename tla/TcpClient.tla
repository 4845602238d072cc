----------------------------- MODULE TcpClient -----------------------------
(***************************************************************************)
(* The life cycle of one TcpClient: the API calls Start, AsyncStart, Stop  *)
(* and Send on application threads, the one io thread of its IoPool, the   *)
(* strand every handler of the client runs on, the EventQueue that         *)
(* serialises disconnects, stops, reconnects and sends, and the two timers *)
(* (connect timeout, reconnect).                                           *)
(*                                                                         *)
(* A handler is one step of the io thread, except DoneConnect, which       *)
(* touches the atomic NetState several times and is cut where another      *)
(* thread may slip in; the API calls are cut the same way.                 *)
(***************************************************************************)
EXTENDS Naturals, Sequences

CONSTANTS
  ReconnectEnabled,  \* reconnect_enable_, as set by AutoReconnect
  NEndpoints,        \* how many endpoints the resolver returns
  MaxStarts,         \* bound: calls of Start / AsyncStart
  MaxStops,          \* bound: calls of Stop
  MaxSends,          \* bound: calls of Send
  SyncStart,         \* which flavours of Start are called: subset of BOOLEAN
  OverlappingCalls   \* TRUE: Start and Stop may run at once on two threads

ASSUME ClientAssumption ==
  /\ ReconnectEnabled \in BOOLEAN
  /\ NEndpoints \in Nat \ {0}
  /\ MaxStarts \in Nat /\ MaxStops \in Nat /\ MaxSends \in Nat
  /\ SyncStart \in SUBSET BOOLEAN
  /\ OverlappingCalls \in BOOLEAN

VARIABLES
  state,    \* state_ : std::atomic<NetState>
  io,       \* strand queue, io_context completions, events_, pending ops, socket
  run,      \* where the io thread stands inside DoneConnect
  pool,     \* IoPool: stopped_, its work guard and its thread
  timer,    \* reconnect_timer_canceled_, reconnect_is_running_, connect_timeout_flag_
  iter,     \* endpoint the outstanding async_connect was given
  promise,  \* the std::promise a blocking Start waits for has its value
  api,      \* program counters of the threads inside Start, Stop and Send
  calls,    \* API calls made so far
  up,       \* the listener was told "connected" and not yet "disconnected"
  crashed   \* a TPN_ASSERT failed: the process is gone

vars == <<state, io, run, pool, timer, iter, promise, api, calls, up, crashed>>

NetState == {"Stopped", "Stopping", "Starting", "Started"}

-----------------------------------------------------------------------------
(* Asynchronous operations, strand tasks and events.                       *)

\* wakeWait is the reconnect timer armed "for ever", retryWait the same timer
\* armed with reconnect_delay_; timeoutSync is the connect timeout timer
\* whose handler also fulfils the promise of a blocking Start.
ConnectTimer   == {"timeout", "timeoutSync"}
ReconnectTimer == {"wakeWait", "retryWait"}
OpKind == {"resolve", "connect", "recv", "send"}
            \cup ConnectTimer \cup ReconnectTimer

ErrorCode == {"ok", "error", "aborted", "timedOut"}

Event == [t : {"send", "stop", "wake", "reconnect"}]
           \cup [t : {"disconnect"}, old : {"Started", "Starting"},
                 defer : {"stop", "wake"}]

Done(k, ec) == [t |-> "Done", op |-> k, ec |-> ec]

Completion == [t : {"Done"}, op : OpKind, ec : ErrorCode]

Task == [t : {"StopReconnectTimer", "Resolve", "StartRecv"}]
          \cup [t : {"ArmTimeout"}, sync : BOOLEAN]
          \cup [t : {"Enqueue", "Event"}, ev : Event]
          \cup Completion

Simple(name) == [t |-> name]

-----------------------------------------------------------------------------
(* Operators on the io record: posting, launching, cancelling.             *)

\* PostWrap::Post : a task behind the ones already on the strand.
Post(c, task) == [c EXCEPT !.strand = Append(@, task)]

Launch(c, k) == [c EXCEPT !.ops[k] = @ + 1]

\* A finished operation queues its handler on the io_context.
Finish(c, k, ec) == [c EXCEPT !.ops[k] = @ - 1,
                              !.ready = Append(@, Done(k, ec))]

\* Cancelling completes the operations that are still pending with
\* operation_aborted; a completion already queued keeps its result.
Abort(c, k) ==
  [c EXCEPT !.ops[k] = 0,
            !.ready = @ \o [i \in 1..c.ops[k] |-> Done(k, "aborted")]]

CancelConnectTimer(c) == Abort(Abort(c, "timeout"), "timeoutSync")
CancelReconnectTimer(c) == Abort(Abort(c, "wakeWait"), "retryWait")

\* expires_after aborts a wait still pending on the timer.
ArmReconnectTimer(c, k) == Launch(CancelReconnectTimer(c), k)

\* Mutant: close forgets the receive.
CloseSocketKeepsRecv(c) ==
  [Abort(Abort(c, "connect"), "send") EXCEPT !.sock = "closed"]

CloseSocket(c) ==
  [Abort(Abort(Abort(c, "connect"), "recv"), "send") EXCEPT !.sock = "closed"]

-----------------------------------------------------------------------------
(* EventQueue.                                                             *)

\* Calls events_.front(): a send starts its async_write, every other event
\* posts its task to the strand.  Either way the guard lives on until the
\* write's or the task's handler is destroyed.
RunFront(c) ==
  LET e == Head(c.events) IN
  IF e.t # "send" THEN Post(c, [t |-> "Event", ev |-> e])
  ELSE IF c.sock = "connected" THEN Launch(c, "send")
  ELSE [c EXCEPT !.ready = Append(@, Done("send", "error"))]

\* Mutant: an event runs at once although one is being processed.
EventEnqueueRunsAtOnce(c, e) == RunFront([c EXCEPT !.events = Append(@, e)])

\* EventEnqueue on the strand.
EventEnqueue(c, e) ==
  LET d == [c EXCEPT !.events = Append(@, e)]
  IN  IF c.events = <<>> THEN RunFront(d) ELSE d

\* EventEnqueue anywhere else.
EventEnqueueFromOutside(c, e) == Post(c, [t |-> "Enqueue", ev |-> e])

\* Mutant: the finished event is popped and the next one is not started.
NextEventStalls(c) ==
  [c EXCEPT !.events = IF Len(@) <= 1 THEN <<>> ELSE Tail(@)]

\* ~EventQueueGuard on the strand: pop the finished event, run the next one.
\* That the queue is not empty is asserted there, and is OneEventAtATime here.
NextEvent(c) ==
  LET d == [c EXCEPT !.events = Tail(@)]
  IN  IF Len(c.events) <= 1 THEN [c EXCEPT !.events = <<>>] ELSE RunFront(d)

-----------------------------------------------------------------------------
Idle == [pc |-> "idle", ec |-> "ok", inEvent |-> FALSE]

Init ==
  /\ state = "Stopped"
  /\ io = [strand |-> <<>>, ready |-> <<>>, events |-> <<>>,
           ops |-> [k \in OpKind |-> 0], sock |-> "closed"]
  /\ run = Idle
  /\ pool = "down"
  /\ timer = [canceled |-> FALSE, running |-> FALSE, timedOut |-> FALSE]
  /\ iter = 1
  /\ promise = FALSE
  /\ api = [start |-> "idle", sync |-> FALSE, stop |-> "idle", send |-> "idle"]
  /\ calls = [start |-> 0, stop |-> 0, send |-> 0]
  /\ up = FALSE
  /\ crashed = FALSE

IsIoPoolStopped == pool # "up"
IsStarted(c) == state = "Started" /\ c.sock # "closed"

-----------------------------------------------------------------------------
(* Disconnect.                                                             *)

\* DoDisconnect on the strand, without a defer task: ClientCheckReconnect
\* supplies one that wakes the reconnect timer.
\* Mutant: the second compare_exchange is missing.
DisconnectingOnlyStarted == state = "Started"

Disconnecting == state \in {"Started", "Starting"}

\* Mutant: the state before the exchange is not handed on.
DoDisconnectForgetsOldState(c) ==
  IF Disconnecting
  THEN EventEnqueue(c, [t |-> "disconnect", old |-> "Started", defer |-> "wake"])
  ELSE c

DoDisconnect(c) ==
  IF Disconnecting
  THEN EventEnqueue(c, [t |-> "disconnect", old |-> state, defer |-> "wake"])
  ELSE c

StateAfterDisconnect == IF Disconnecting THEN "Stopping" ELSE state

-----------------------------------------------------------------------------
(* Start / AsyncStart on an application thread.                            *)

MayStart == OverlappingCalls \/ api.stop = "idle"

StartCall(sync) ==
  /\ api.start = "idle" /\ MayStart
  /\ calls.start < MaxStarts
  /\ state = "Stopped"
  /\ state' = "Starting"
  /\ api' = [api EXCEPT !.start = "pool", !.sync = sync]
  /\ calls' = [calls EXCEPT !.start = @ + 1]
  /\ promise' = FALSE
  /\ UNCHANGED <<io, run, pool, timer, iter, up, crashed>>

\* IoPool::Start refuses a pool that still has its worker and thread; the
\* call goes on if that pool is running and gives up if it is being stopped.
StartPool ==
  /\ api.start = "pool"
  /\ pool' = IF pool = "down" THEN "up" ELSE pool
  /\ api' = [api EXCEPT !.start = IF pool \in {"down", "up"} THEN "load"
                                                             ELSE "idle"]
  /\ UNCHANGED <<state, io, run, timer, iter, promise, calls, up, crashed>>

StartLoadReconnectTimer ==
  /\ api.start = "load"
  /\ timer' = [timer EXCEPT !.running = TRUE]
  /\ io' = IF timer.running THEN io ELSE ArmReconnectTimer(io, "wakeWait")
  /\ api' = [api EXCEPT !.start = "connect"]
  /\ UNCHANGED <<state, run, pool, iter, promise, calls, up, crashed>>

\* ClientStartConnect up to the bind.
StartConnect ==
  /\ api.start = "connect"
  /\ IF IsIoPoolStopped
     THEN /\ api' = [api EXCEPT !.start = "idle"]
          /\ UNCHANGED io
     ELSE /\ api' = [api EXCEPT !.start = "post"]
          /\ io' = [CloseSocket(io) EXCEPT !.sock = "open"]
  /\ UNCHANGED <<state, run, pool, timer, iter, promise, calls, up, crashed>>

StartPostResolve ==
  /\ api.start = "post"
  /\ io' = Post(Post(io, [t |-> "ArmTimeout", sync |-> api.sync]),
                Simple("Resolve"))
  /\ api' = [api EXCEPT !.start = IF api.sync THEN "wait" ELSE "idle"]
  /\ UNCHANGED <<state, run, pool, timer, iter, promise, calls, up, crashed>>

\* open, set_option or bind throws: HandleConnect(ec) and with it DoneConnect
\* and DoDisconnect run on the calling thread, off the strand.
StartBindFails ==
  /\ api.start = "post"
  /\ LET c == CancelConnectTimer(io)
         e == [t |-> "disconnect", old |-> state, defer |-> "wake"]
     IN  io' = IF Disconnecting THEN EventEnqueueFromOutside(c, e) ELSE c
  /\ crashed' = (state = "Started")
  /\ state' = StateAfterDisconnect
  /\ api' = [api EXCEPT !.start = "idle"]
  /\ UNCHANGED <<run, pool, timer, iter, promise, calls, up>>

\* future.get() of the blocking Start.
StartWait ==
  /\ api.start = "wait" /\ promise
  /\ api' = [api EXCEPT !.start = "idle"]
  /\ UNCHANGED <<state, io, run, pool, timer, iter, promise, calls, up, crashed>>

-----------------------------------------------------------------------------
(* Stop on an application thread.                                          *)

MayStop == OverlappingCalls \/ api.start = "idle"

StopCall ==
  /\ api.stop = "idle" /\ MayStop
  /\ calls.stop < MaxStops
  /\ io' = Post(io, Simple("StopReconnectTimer"))
  /\ api' = [api EXCEPT !.stop = "casStarted"]
  /\ calls' = [calls EXCEPT !.stop = @ + 1]
  /\ UNCHANGED <<state, run, pool, timer, iter, promise, up, crashed>>

\* The two compare_exchange of DoDisconnect, one after the other.
StopCas(expected, pc, onFailure) ==
  /\ api.stop = pc
  /\ IF state = expected
     THEN /\ state' = "Stopping"
          /\ io' = EventEnqueueFromOutside(io,
                     [t |-> "disconnect", old |-> expected, defer |-> "stop"])
          /\ api' = [api EXCEPT !.stop = "pool"]
     ELSE /\ api' = [api EXCEPT !.stop = onFailure]
          /\ UNCHANGED <<state, io>>
  /\ UNCHANGED <<run, pool, timer, iter, promise, calls, up, crashed>>

StopCasStarted == StopCas("Started", "casStarted", "casStarting")
StopCasStarting == StopCas("Starting", "casStarting", "postStop")

\* DoDisconnect did nothing: the defer task it was given dies on this thread
\* and posts the stop.
StopPostStop ==
  /\ api.stop = "postStop"
  /\ io' = EventEnqueueFromOutside(io, Simple("stop"))
  /\ api' = [api EXCEPT !.stop = "pool"]
  /\ UNCHANGED <<state, run, pool, timer, iter, promise, calls, up, crashed>>

\* IoPool::Stop sets stopped_ and drops the work guard ...
StopPool ==
  /\ api.stop = "pool"
  /\ IF pool = "up"
     THEN pool' = "draining" /\ api' = [api EXCEPT !.stop = "drain"]
     ELSE api' = [api EXCEPT !.stop = "idle"] /\ UNCHANGED pool
  /\ UNCHANGED <<state, io, run, timer, iter, promise, calls, up, crashed>>

\* Mutant: the pool is joined without waiting for run() to return.
StopJoinAtOnce ==
  /\ api.stop = "drain"
  /\ pool' = "down"
  /\ api' = [api EXCEPT !.stop = "idle"]
  /\ UNCHANGED <<state, io, run, timer, iter, promise, calls, up, crashed>>

\* ... waits until run() has returned for want of work, and joins.
StopJoin ==
  /\ api.stop = "drain" /\ pool = "exited"
  /\ pool' = "down"
  /\ api' = [api EXCEPT !.stop = "idle"]
  /\ UNCHANGED <<state, io, run, timer, iter, promise, calls, up, crashed>>

-----------------------------------------------------------------------------
(* Send on an application thread: IsStarted(), then EventEnqueue.          *)

SendCall ==
  /\ api.send = "idle" /\ calls.send < MaxSends
  /\ IsStarted(io)
  /\ api' = [api EXCEPT !.send = "post"]
  /\ calls' = [calls EXCEPT !.send = @ + 1]
  /\ UNCHANGED <<state, io, run, pool, timer, iter, promise, up, crashed>>

SendPost ==
  /\ api.send = "post"
  /\ io' = EventEnqueueFromOutside(io, Simple("send"))
  /\ api' = [api EXCEPT !.send = "idle"]
  /\ UNCHANGED <<state, run, pool, timer, iter, promise, calls, up, crashed>>

-----------------------------------------------------------------------------
(* The io thread.                                                          *)

IoThreadFree == pool \in {"up", "draining"} /\ run = Idle

\* The io_context hands the oldest completion to the strand.
Deliver ==
  /\ IoThreadFree /\ io.ready # <<>>
  /\ io' = Post([io EXCEPT !.ready = Tail(@)], Head(io.ready))
  /\ UNCHANGED <<state, run, pool, timer, iter, promise, api, calls, up, crashed>>

\* run() returns: no work guard, no handler queued, no operation pending.
RunReturns ==
  /\ pool = "draining" /\ run = Idle
  /\ io.ready = <<>> /\ io.strand = <<>>
  /\ \A k \in OpKind : io.ops[k] = 0
  /\ pool' = "exited"
  /\ UNCHANGED <<state, io, run, timer, iter, promise, api, calls, up, crashed>>

OnStrand == IoThreadFree /\ io.strand # <<>>
Running == Head(io.strand)
Rest == [io EXCEPT !.strand = Tail(@)]

RunsEvent(name) ==
  OnStrand /\ Running.t = "Event" /\ Running.ev.t = name
RunsCompletion(ks) ==
  OnStrand /\ Running.t = "Done" /\ Running.op \in ks

\* EventEnqueue's posted body.
HandleEnqueue ==
  /\ OnStrand /\ Running.t = "Enqueue"
  /\ io' = EventEnqueue(Rest, Running.ev)
  /\ UNCHANGED <<state, run, pool, timer, iter, promise, api, calls, up, crashed>>

\* PostDisconnect's task.  HandleDisconnect shuts down and closes the socket;
\* destroying the task fires the defer task, which enqueues the stop or the
\* wake-up, and then the guard.
HandleDisconnectEvent ==
  /\ RunsEvent("disconnect")
  /\ IF state = "Stopping"
     THEN /\ state' = "Stopped"
          /\ up' = (up /\ Running.ev.old # "Started")
          /\ io' = NextEvent(EventEnqueue(CloseSocket(Rest),
                                          Simple(Running.ev.defer)))
          /\ UNCHANGED crashed
     ELSE crashed' = TRUE /\ UNCHANGED <<state, up, io>>
  /\ UNCHANGED <<run, pool, timer, iter, promise, api, calls>>

\* PostStop's task: ClientBase::Stop.
HandleStopEvent ==
  /\ RunsEvent("stop")
  /\ timer' = [timer EXCEPT !.canceled = TRUE]
  /\ io' = NextEvent(CancelConnectTimer(CancelReconnectTimer(Rest)))
  /\ UNCHANGED <<state, run, pool, iter, promise, api, calls, up, crashed>>

\* Mutant: the wake-up is forgotten.
HandleWakeEventSleeps ==
  /\ RunsEvent("wake")
  /\ io' = NextEvent(Rest)
  /\ UNCHANGED <<state, run, pool, timer, iter, promise, api, calls, up, crashed>>

\* ClientCheckReconnect's task: WakeReconnectTimer.
HandleWakeEvent ==
  /\ RunsEvent("wake")
  /\ io' = NextEvent(IF ReconnectEnabled THEN CancelReconnectTimer(Rest)
                                         ELSE Rest)
  /\ UNCHANGED <<state, run, pool, timer, iter, promise, api, calls, up, crashed>>

HandleStopReconnectTimer ==
  /\ OnStrand /\ Running.t = "StopReconnectTimer"
  /\ timer' = [timer EXCEPT !.canceled = TRUE]
  /\ io' = CancelReconnectTimer(Rest)
  /\ UNCHANGED <<state, run, pool, iter, promise, api, calls, up, crashed>>

HandleArmTimeout ==
  /\ OnStrand /\ Running.t = "ArmTimeout"
  /\ timer' = [timer EXCEPT !.timedOut = FALSE]
  /\ io' = Launch(CancelConnectTimer(Rest),
                  IF Running.sync THEN "timeoutSync" ELSE "timeout")
  /\ UNCHANGED <<state, run, pool, iter, promise, api, calls, up, crashed>>

HandleResolve ==
  /\ OnStrand /\ Running.t = "Resolve"
  /\ io' = Launch(Rest, "resolve")
  /\ UNCHANGED <<state, run, pool, timer, iter, promise, api, calls, up, crashed>>

-----------------------------------------------------------------------------
(* Connecting.                                                             *)

\* Mutant: Started is stored, not exchanged for Starting.
BeginDoneStores(c, ec, inEvent) ==
  LET e == IF timer.timedOut THEN "timedOut" ELSE ec IN
  /\ io' = CancelConnectTimer(c)
  /\ state' = IF e = "ok" THEN "Started" ELSE state
  /\ run' = [pc |-> "notify", inEvent |-> inEvent, ec |-> e]

\* DoneConnect up to the compare_exchange of Starting to Started.
BeginDone(c, ec, inEvent) ==
  LET e == IF timer.timedOut THEN "timedOut" ELSE ec IN
  /\ io' = CancelConnectTimer(c)
  /\ state' = IF e = "ok" /\ state = "Starting" THEN "Started" ELSE state
  /\ run' = [pc |-> "notify", inEvent |-> inEvent,
             ec |-> IF e = "ok" /\ state # "Starting" THEN "aborted" ELSE e]

\* The listener is told of a failure while Starting and of success while
\* Started; the code asserts that the error code agrees.
DoneNotify ==
  /\ run.pc = "notify"
  /\ crashed' = \/ state = "Starting" /\ run.ec = "ok"
                \/ state = "Started" /\ run.ec # "ok"
  /\ up' = (up \/ state = "Started")
  /\ run' = [run EXCEPT !.pc = "finish"]
  /\ UNCHANGED <<state, io, pool, timer, iter, promise, api, calls>>

\* DoStart posts the first receive; an error, or a state that is no longer
\* Started, ends in DoDisconnect.
DoneFinish ==
  /\ run.pc = "finish"
  /\ LET started == run.ec = "ok" /\ state = "Started"
         c == IF started THEN Post(io, Simple("StartRecv")) ELSE DoDisconnect(io)
     IN  /\ io' = IF run.inEvent THEN NextEvent(c) ELSE c
         /\ state' = IF started THEN state ELSE StateAfterDisconnect
  /\ run' = Idle
  /\ UNCHANGED <<pool, timer, iter, promise, api, calls, up, crashed>>

\* Mutant: the end of the endpoints is missed.
PostConnectPastTheEnd(c, i) ==
  IF i > NEndpoints + 1
  THEN BeginDone(c, "error", FALSE) /\ UNCHANGED iter
  ELSE /\ iter' = i
       /\ io' = Launch([c EXCEPT !.sock = IF @ = "closed" THEN "open" ELSE @],
                       "connect")
       /\ UNCHANGED <<state, run>>

\* ClientPostConnect: async_connect opens a socket that is closed.
PostConnect(c, i) ==
  IF i > NEndpoints
  THEN BeginDone(c, "error", FALSE) /\ UNCHANGED iter
  ELSE /\ iter' = i
       /\ io' = Launch([c EXCEPT !.sock = IF @ = "closed" THEN "open" ELSE @],
                       "connect")
       /\ UNCHANGED <<state, run>>

HandleResolved ==
  /\ RunsCompletion({"resolve"})
  /\ IF Running.ec = "ok" THEN PostConnect(Rest, 1)
     ELSE BeginDone(Rest, Running.ec, FALSE) /\ UNCHANGED iter
  /\ UNCHANGED <<pool, timer, promise, api, calls, up, crashed>>

HandleConnected ==
  /\ RunsCompletion({"connect"})
  /\ IF Running.ec = "error" THEN PostConnect(Rest, iter + 1)
     ELSE BeginDone(Rest, Running.ec, FALSE) /\ UNCHANGED iter
  /\ UNCHANGED <<pool, timer, promise, api, calls, up, crashed>>

\* Mutant: only a timeout fulfils the promise.
HandleTimeoutNoPromise ==
  /\ RunsCompletion(ConnectTimer)
  /\ LET expired == Running.ec = "ok" IN
     /\ timer' = [timer EXCEPT !.timedOut = @ \/ expired]
     /\ io' = IF expired THEN CloseSocket(Rest) ELSE Rest
     /\ promise' = (promise \/ (expired /\ Running.op = "timeoutSync"))
  /\ UNCHANGED <<state, run, pool, iter, api, calls, up, crashed>>

\* The handler of the connect timeout timer: it looks at the error code only.
HandleTimeout ==
  /\ RunsCompletion(ConnectTimer)
  /\ LET expired == Running.ec = "ok" IN
     /\ timer' = [timer EXCEPT !.timedOut = @ \/ expired]
     /\ io' = IF expired THEN CloseSocket(Rest) ELSE Rest
  /\ promise' = (promise \/ Running.op = "timeoutSync")
  /\ UNCHANGED <<state, run, pool, iter, api, calls, up, crashed>>

\* The reconnect timer's callback and its event.
\* Mutant: the reconnect does not ask whether the client is Stopped.
ReconnectFiresAnyway == ReconnectEnabled

ReconnectFires == ReconnectEnabled /\ state = "Stopped"

HandleReconnectTimer ==
  /\ RunsCompletion(ReconnectTimer)
  /\ IF timer.canceled
     THEN /\ timer' = [timer EXCEPT !.running = FALSE]
          /\ io' = Rest
          /\ UNCHANGED state
     ELSE /\ UNCHANGED timer
          /\ IF Running.ec = "aborted"
             THEN io' = ArmReconnectTimer(Rest, "retryWait") /\ UNCHANGED state
             ELSE LET c == IF ReconnectFires
                           THEN EventEnqueue(Rest, Simple("reconnect")) ELSE Rest
                  IN  /\ state' = IF ReconnectFires THEN "Starting" ELSE state
                      /\ io' = ArmReconnectTimer(c, "wakeWait")
  /\ UNCHANGED <<run, pool, iter, promise, api, calls, up, crashed>>

HandleReconnectEvent ==
  /\ RunsEvent("reconnect")
  /\ LET opened == [CloseSocket(Rest) EXCEPT !.sock = "open"] IN
     \/ /\ IsIoPoolStopped
        /\ io' = NextEvent(Rest)
        /\ UNCHANGED <<state, run>>
     \/ /\ ~IsIoPoolStopped
        /\ io' = NextEvent(Post(Post(opened, [t |-> "ArmTimeout", sync |-> FALSE]),
                                Simple("Resolve")))
        /\ UNCHANGED <<state, run>>
     \/ ~IsIoPoolStopped /\ BeginDone(opened, "error", TRUE)
  /\ UNCHANGED <<pool, timer, iter, promise, api, calls, up, crashed>>

-----------------------------------------------------------------------------
(* Receiving and sending.                                                  *)

\* TcpPostRecv: nothing is read, and nothing is reported, unless IsStarted().
PostRecv(c) ==
  IF ~IsStarted(c) THEN c
  ELSE IF c.sock = "connected" THEN Launch(c, "recv")
  ELSE [c EXCEPT !.ready = Append(@, Done("recv", "error"))]

HandleStartRecv ==
  /\ OnStrand /\ Running.t = "StartRecv"
  /\ io' = PostRecv(Rest)
  /\ UNCHANGED <<state, run, pool, timer, iter, promise, api, calls, up, crashed>>

HandleRecv ==
  /\ RunsCompletion({"recv"})
  /\ IF Running.ec = "ok"
     THEN io' = PostRecv(Rest) /\ UNCHANGED state
     ELSE io' = DoDisconnect(Rest) /\ state' = StateAfterDisconnect
  /\ UNCHANGED <<run, pool, timer, iter, promise, api, calls, up, crashed>>

\* TcpSend's handler: DoDisconnect on an error, then the guard it carries dies.
HandleSent ==
  /\ RunsCompletion({"send"})
  /\ IF Running.ec = "ok"
     THEN io' = NextEvent(Rest) /\ UNCHANGED state
     ELSE io' = NextEvent(DoDisconnect(Rest)) /\ state' = StateAfterDisconnect
  /\ UNCHANGED <<run, pool, timer, iter, promise, api, calls, up, crashed>>

-----------------------------------------------------------------------------
(* The environment: resolver, network, clock.  Not under src/.             *)

\* The reactor that notices a completion runs on the io thread, between handlers.
Completes(k, ec) ==
  /\ IoThreadFree /\ io.ops[k] > 0
  /\ io' = Finish(IF k = "connect" /\ ec = "ok"
                  THEN [io EXCEPT !.sock = "connected"] ELSE io, k, ec)
  /\ UNCHANGED <<state, run, pool, timer, iter, promise, api, calls, up, crashed>>

Resolves == \E ec \in {"ok", "error"} : Completes("resolve", ec)
Connects == \E ec \in {"ok", "error"} : Completes("connect", ec)
Receives == \E ec \in {"ok", "error"} : Completes("recv", ec)
Writes   == \E ec \in {"ok", "error"} : Completes("send", ec)
Expires(k) == Completes(k, "ok")
TimerExpires == \E k \in {"timeout", "timeoutSync", "retryWait"} : Expires(k)

-----------------------------------------------------------------------------
IoThreadStep ==
  \/ Deliver \/ RunReturns \/ HandleEnqueue
  \/ HandleDisconnectEvent \/ HandleStopEvent \/ HandleWakeEvent
  \/ HandleReconnectEvent \/ HandleStopReconnectTimer \/ HandleArmTimeout
  \/ HandleResolve \/ HandleResolved \/ HandleConnected \/ HandleTimeout
  \/ HandleReconnectTimer \/ HandleStartRecv \/ HandleRecv \/ HandleSent
  \/ DoneNotify \/ DoneFinish

\* A call once begun goes on; whether one begins is the application's choice.
StartStep ==
  \/ StartPool \/ StartLoadReconnectTimer \/ StartConnect
  \/ StartPostResolve \/ StartBindFails \/ StartWait
StopStep == StopCasStarted \/ StopCasStarting \/ StopPostStop \/ StopPool \/ StopJoin
Application ==
  \/ \E sync \in SyncStart : StartCall(sync)
  \/ StopCall \/ SendCall

Network == Resolves \/ Connects \/ Receives \/ Writes \/ TimerExpires

Next ==
  /\ ~crashed
  /\ IoThreadStep \/ StartStep \/ StopStep \/ SendPost \/ Application \/ Network

Spec == Init /\ [][Next]_vars

\* The io thread and the threads inside an API call keep running; the resolver
\* answers, a connect attempt ends (the kernel gives up on it in the end) and
\* a timer expires.  Nothing is assumed of the peer: it need not send, read or
\* close.
Fairness ==
  /\ WF_vars(~crashed /\ IoThreadStep)
  /\ WF_vars(~crashed /\ StartStep)
  /\ WF_vars(~crashed /\ StopStep)
  /\ WF_vars(~crashed /\ SendPost)
  /\ WF_vars(~crashed /\ Resolves)
  /\ WF_vars(~crashed /\ Connects)
  /\ \A k \in {"timeout", "timeoutSync", "retryWait"} :
       WF_vars(~crashed /\ Expires(k))

FairSpec == Spec /\ Fairness

-----------------------------------------------------------------------------
(* Properties.                                                             *)

Io == [strand : Seq(Task), ready : Seq(Completion), events : Seq(Event),
       ops : [OpKind -> Nat], sock : {"closed", "open", "connected"}]

Run == [pc : {"idle", "notify", "finish"}, ec : ErrorCode, inEvent : BOOLEAN]

Api == [start : {"idle", "pool", "load", "connect", "post", "wait"},
        sync : BOOLEAN,
        stop : {"idle", "casStarted", "casStarting", "postStop", "pool", "drain"},
        send : {"idle", "post"}]

Calls == [start : Nat, stop : Nat, send : Nat]

\* Every variable keeps its type; that iter stays within the endpoints is
\* ClientPostConnect's check of the iterator against results.end().
TypeOK ==
  /\ state \in NetState
  /\ io \in Io
  /\ run \in Run
  /\ pool \in {"down", "up", "draining", "exited"}
  /\ timer \in [canceled : BOOLEAN, running : BOOLEAN, timedOut : BOOLEAN]
  /\ iter \in 1..NEndpoints
  /\ api \in Api /\ calls \in Calls
  /\ promise \in BOOLEAN /\ up \in BOOLEAN /\ crashed \in BOOLEAN

\* No TPN_ASSERT of the connection code fails: DoneConnect's error code agrees
\* with the state it finds, and PostDisconnect's task finds Stopping.
AssertionsHold == ~crashed

\* Never two asynchronous operations of one kind on the client at a time: the
\* attempts of Start and of the reconnect timer never overlap on the socket,
\* and no timer is waited for twice.
OneOpPerKind == \A k \in OpKind : io.ops[k] <= 1

\* Where the guard of the event in front of the queue is held.
HoldsGuard(task) ==
  task.t = "Event" \/ (task.t = "Done" /\ task.op = "send")
Holders ==
  {<<"strand", i>> : i \in {j \in DOMAIN io.strand : HoldsGuard(io.strand[j])}}
    \cup {<<"ready", i>> : i \in {j \in DOMAIN io.ready : HoldsGuard(io.ready[j])}}
    \cup {<<"op", i>> : i \in 1..io.ops["send"]}
    \cup (IF run.inEvent THEN {<<"run", 0>>} ELSE {})

\* Events run one at a time and the queue never stalls: exactly one
\* EventQueueGuard is alive while events_ is not empty, and none while it is.
OneEventAtATime ==
  IF io.events = <<>> THEN Holders = {} ELSE \E h \in Holders : Holders = {h}

DisconnectEvents ==
  {<<"events", i>> : i \in {j \in DOMAIN io.events : io.events[j].t = "disconnect"}}
    \cup {<<"posted", i>> : i \in {j \in DOMAIN io.strand :
            io.strand[j].t = "Enqueue" /\ io.strand[j].ev.t = "disconnect"}}

\* A client is Stopping exactly while one disconnect of DoDisconnect is on its
\* way to PostDisconnect's task, so it can always leave Stopping, and leaves it
\* once.
StoppingHasOneDisconnect ==
  IF state = "Stopping" THEN \E d \in DisconnectEvents : DisconnectEvents = {d}
                        ELSE DisconnectEvents = {}

\* The listener hears "connected" only while it believes itself disconnected,
\* whatever the interleaving of late connects, retries and stops.
ConnectNotifiedOnce == [][DoneNotify /\ state = "Started" => ~up]_vars

\* ... and HandleDisconnect tells it "disconnected" only after "connected".
DisconnectNotifiedAfterConnect ==
  [][HandleDisconnectEvent /\ Running.ev.old = "Started" => up]_vars

\* Once Stop has joined the io pool and no Start runs, the client is Stopped:
\* no transition of its handlers is lost or left half way.
StopLeavesStopped ==
  pool = "down" /\ api.start = "idle" => state = "Stopped"

\* ... and nothing of the client is left behind: no event in events_, no pending
\* operation, no listener still believing itself connected.
StopLeavesNoWork ==
  pool = "down" /\ api.start = "idle" =>
    io.events = <<>> /\ ~up /\ \A k \in OpKind : io.ops[k] = 0

\* Liveness, under FairSpec.  A call of Stop returns: run() of the pool it
\* drains gets to the end of its work.
StopReturns == api.stop # "idle" ~> api.stop = "idle"

\* The peer reads what it is sent, so an async_write ends.
PeerReads == WF_vars(~crashed /\ Writes)

\* A call of Stop returns when the peer reads: the disconnect waits behind the
\* write of the send in front of it, and only the disconnect closes the socket.
StopReturnsIfPeerReads == PeerReads => StopReturns

\* A blocking Start returns: each way out of ClientStartConnect ends the timeout
\* timer, whose handler fulfils the promise.
StartReturns == api.start # "idle" ~> api.start = "idle"

\* An attempt to connect succeeds, fails or is given up: every way through
\* ClientPostConnect, the timeout and DoneConnect leaves Starting.
AttemptEnds == state = "Starting" ~> state # "Starting"

\* A Started client whose socket was closed finds out, through the error of its
\* pending receive.
ClosedIsNoticed ==
  (state = "Started" /\ io.sock = "closed") ~> state # "Started"

\* The application wants a connection: its last call was a Start.
Wanted == calls.start > calls.stop /\ api.start = "idle" /\ api.stop = "idle"

\* A client that lost its connection tries again: the wake-up of
\* ClientCheckReconnect reaches the reconnect timer.
Reconnects ==
  (Wanted /\ state = "Stopped") ~> (state # "Stopped" \/ ~Wanted)
=============================================================================
