----------------------------- MODULE TcpServer -----------------------------
(***************************************************************************)
(* A TcpServer with the sessions it accepts: Start and Stop on an          *)
(* application thread, the acceptor, the session manager, the session's    *)
(* life (accept, connect, receive, send, disconnect, tear down), its       *)
(* connect-timeout and silence timers, and the pool of io threads.  Io 0   *)
(* runs the server and its strand; sessions are dealt to the ios in turn.  *)
(*                                                                         *)
(* A handler is one step of its io thread, except the acceptance of a      *)
(* connection and the walk of the stop: they run on the server's strand    *)
(* while another io thread, or an application thread, may act on the same  *)
(* sessions, and are cut wherever they can interleave.                     *)
(***************************************************************************)
EXTENDS Naturals, Sequences

CONSTANTS
  NSessions,   \* bound: connections that can be accepted
  NThreads,    \* concurrency_hint: ios, each with one thread and one strand
  MaxStarts,   \* bound: calls of Start
  MaxCalls,    \* bound: calls of Stop and Send on sessions by the application
  EarlyStop    \* TRUE: a session may be stopped, or time out, while Starting

ASSUME ServerAssumption ==
  /\ NSessions \in Nat /\ NThreads \in Nat \ {0}
  /\ MaxStarts \in Nat /\ MaxCalls \in Nat
  /\ EarlyStop \in BOOLEAN

VARIABLES
  state,    \* the server's state_ : std::atomic<NetState>
  srv,      \* acceptor, its operations, counter_sptr_, sessions made so far
  sess,     \* the sessions
  strand,   \* tasks queued on the strand of each io
  run,      \* where io 0 stands inside HandleAccept or the stop's walk
  pool,     \* IoPool: phase of its stop and the threads still running
  api,      \* program counters of the threads inside Start and Stop
  calls,    \* application calls made so far
  crashed   \* a TPN_ASSERT failed: the process is gone

vars == <<state, srv, sess, strand, run, pool, api, calls, crashed>>

NetState == {"Stopped", "Stopping", "Starting", "Started"}
Session  == 1..NSessions
Io       == 0..(NThreads - 1)

\* IoPool::GetIoHandleByIndex without an index: the next one, round robin.
IoOf(s) == s % NThreads

-----------------------------------------------------------------------------
(* Asynchronous operations and tasks.                                      *)

\* An operation is pending until it completes; a cancelled one ends in a
\* handler that is told operation_aborted, or the result it had before.
OpState == {"none", "pending", "cancelled"}
Cancel(op) == IF op = "pending" THEN "cancelled" ELSE op

SessionOp == {"conn", "silence", "recv", "write"}

Event == [t : {"send"}] \cup [t : {"disconnect"}, old : {"Started", "Starting"}]

Task == [t : {"PostAccept", "Stop", "FinalStop"}]
          \cup [t : {"ArmConn", "StartRecv", "Teardown"}, s : Session]
          \cup [t : {"Enqueue"}, s : Session, ev : Event]
          \cup [t : {"Event", "Erase"}, s : Session,
                old : {"Started", "Starting"}]

\* What a handler changes: the sessions and the strands.
Here == [sess |-> sess, strand |-> strand]
Become(c) == sess' = c.sess /\ strand' = c.strand

PostTo(c, i, task) == [c EXCEPT !.strand[i] = Append(@, task)]
Post(c, task) == PostTo(c, IoOf(task.s), task)

-----------------------------------------------------------------------------
(* The session's event queue and its disconnect.                           *)

\* async_write on a closed socket fails at once.
AsyncWrite(c, s) ==
  [c EXCEPT !.sess[s].op["write"] =
     IF c.sess[s].sock = "open" THEN "pending" ELSE "cancelled"]

RunFront(c, s) ==
  LET e == Head(c.sess[s].events)
  IN  IF e.t = "send" THEN AsyncWrite(c, s)
      ELSE Post(c, [t |-> "Event", s |-> s, old |-> e.old])

EventEnqueue(c, s, e) ==
  LET d == [c EXCEPT !.sess[s].events = Append(@, e)]
  IN  IF c.sess[s].events = <<>> THEN RunFront(d, s) ELSE d

\* ~EventQueueGuard: pop the event that is over, run the next one.
NextEvent(c, s) ==
  LET d == [c EXCEPT !.sess[s].events = Tail(@)]
  IN  IF d.sess[s].events = <<>> THEN d ELSE RunFront(d, s)

\* EventEnqueue runs at once on the session's own strand; elsewhere it is
\* posted there.
EnqueueFrom(c, i, s, e) ==
  IF i = IoOf(s) THEN EventEnqueue(c, s, e)
  ELSE Post(c, [t |-> "Enqueue", s |-> s, ev |-> e])

\* Mutant: the state the disconnect starts from is read after the exchange.
DoDisconnectLateState(c, i, s) ==
  IF c.sess[s].st \in {"Started", "Starting"}
  THEN EnqueueFrom([c EXCEPT !.sess[s].st = "Stopping"], i, s,
                   [t |-> "disconnect", old |-> "Stopping"])
  ELSE c

\* DoDisconnect called on the thread of io i, NThreads for an application's.
\* Its two exchanges are one step: only a caller off io 0, while the session
\* is still Starting (EarlyStop), could see the state move between them.
DoDisconnect(c, i, s) ==
  IF c.sess[s].st \in {"Started", "Starting"}
  THEN EnqueueFrom([c EXCEPT !.sess[s].st = "Stopping"], i, s,
                   [t |-> "disconnect", old |-> c.sess[s].st])
  ELSE c

\* Mutant: every copy posts the final stop, not the last one.
DropCounterEach(c, s) ==
  LET d == [c EXCEPT !.sess[s].counter = FALSE]
  IN  IF c.sess[s].counter THEN PostTo(d, 0, [t |-> "FinalStop"]) ELSE d

\* The last copy of counter_sptr_ posts the server's final stop.
DropCounter(c, s) ==
  LET d == [c EXCEPT !.sess[s].counter = FALSE]
  IN  IF c.sess[s].counter /\ ~srv.counter
         /\ \A o \in Session : ~d.sess[o].counter
      THEN PostTo(d, 0, [t |-> "FinalStop"])
      ELSE d

-----------------------------------------------------------------------------
NoOps == [k \in SessionOp |-> "none"]

NewSession ==
  [st |-> "Stopped", sock |-> "none", reg |-> FALSE, counter |-> FALSE,
   events |-> <<>>, op |-> NoOps, connCanceled |-> FALSE,
   timedOut |-> FALSE, silenceCanceled |-> FALSE, told |-> "nothing"]

Resting == [pc |-> "idle", s |-> 0, ec |-> FALSE, todo |-> {}]

Init ==
  /\ state = "Stopped"
  /\ srv = [acceptor |-> "closed", accept |-> "none", retry |-> "none",
            keep |-> "none", counter |-> FALSE, made |-> 0]
  /\ sess = [s \in Session |-> NewSession]
  /\ strand = [i \in Io |-> <<>>]
  /\ run = Resting
  /\ pool = [phase |-> "down", live |-> {}]
  /\ api = [start |-> "idle", stop |-> "idle"]
  /\ calls = [start |-> 0, session |-> 0]
  /\ crashed = FALSE

IsStarted == state = "Started" /\ srv.acceptor = "open"

-----------------------------------------------------------------------------
(* Stop, from the application or after a failed start.                     *)

\* DoStop changes the state and posts the handler that stops the sessions.
StateAfterStop == IF state \in {"Starting", "Started"} THEN "Stopping" ELSE state
StrandAfterStop ==
  IF state \in {"Starting", "Started"}
  THEN [strand EXCEPT ![0] = Append(@, [t |-> "Stop"])]
  ELSE strand

DoStop == state' = StateAfterStop /\ strand' = StrandAfterStop

StopCall ==
  /\ api.stop = "idle" /\ api.start = "idle"
  /\ pool.phase = "up"
  /\ DoStop
  /\ api' = [api EXCEPT !.stop = "pool"]
  /\ UNCHANGED <<srv, sess, run, pool, calls, crashed>>

\* IoPool::Stop drops the work guard of io 0 and waits until it has run dry.
StopPool ==
  /\ api.stop = "pool"
  /\ pool' = [pool EXCEPT !.phase = "first"]
  /\ api' = [api EXCEPT !.stop = "wait"]
  /\ UNCHANGED <<state, srv, sess, strand, run, calls, crashed>>

StopReturn ==
  /\ api.stop = "wait" /\ pool.live = {}
  /\ pool' = [pool EXCEPT !.phase = "down"]
  /\ api' = [api EXCEPT !.stop = "idle"]
  /\ UNCHANGED <<state, srv, sess, strand, run, calls, crashed>>

-----------------------------------------------------------------------------
(* Start.                                                                  *)

StartCall ==
  /\ api.start = "idle" /\ api.stop = "idle"
  /\ calls.start < MaxStarts
  /\ state = "Stopped"
  /\ state' = "Starting"
  /\ calls' = [calls EXCEPT !.start = @ + 1]
  /\ api' = [api EXCEPT !.start = "pool"]
  /\ UNCHANGED <<srv, sess, strand, run, pool, crashed>>

\* IoPoolStart, unless the pool survived a start that failed, then a counter
\* whose last copy will stop the server.  The pool refuses only while a call
\* of Stop drains it, and calls of Start and Stop do not overlap here.
StartPool ==
  /\ api.start = "pool"
  /\ pool' = [phase |-> "up", live |-> Io]
  /\ srv' = [srv EXCEPT !.counter = TRUE, !.acceptor = "closed"]
  /\ api' = [api EXCEPT !.start = "listen"]
  /\ UNCHANGED <<state, sess, strand, run, calls, crashed>>

\* Open, bind, listen, then HandleStart without an error.
StartListen ==
  /\ api.start = "listen"
  /\ srv' = [srv EXCEPT !.acceptor = "open"]
  /\ state' = IF state = "Starting" THEN "Started" ELSE state
  /\ api' = [api EXCEPT !.start = IF state = "Starting" THEN "accept" ELSE "idle"]
  /\ UNCHANGED <<sess, strand, run, pool, calls, crashed>>

\* Resolving, opening, binding or listening fails: HandleStart stops.
StartFails ==
  /\ api.start = "listen"
  /\ \E a \in {"open", "closed"} : srv' = [srv EXCEPT !.acceptor = a]
  /\ DoStop
  /\ api' = [api EXCEPT !.start = "idle"]
  /\ UNCHANGED <<sess, run, pool, calls, crashed>>

\* After FireStart.
StartAccept ==
  /\ api.start = "accept"
  /\ strand' = IF state = "Started"
               THEN [strand EXCEPT ![0] = Append(@, [t |-> "PostAccept"])]
               ELSE strand
  /\ api' = [api EXCEPT !.start = "idle"]
  /\ UNCHANGED <<state, srv, sess, run, pool, calls, crashed>>

-----------------------------------------------------------------------------
(* Io threads.                                                             *)

Runs(i) == i \in pool.live /\ (i = 0 => run.pc = "idle")

Next1(i, name) == Runs(i) /\ strand[i] # <<>> /\ Head(strand[i]).t = name

\* The state with the first task of strand i taken.
Taken(i) == [Here EXCEPT !.strand[i] = Tail(@)]

OpsOf(i) ==
  {sess[s].op[k] : s \in {o \in Session : IoOf(o) = i}, k \in SessionOp}
    \cup (IF i = 0 THEN {srv.accept, srv.retry, srv.keep} ELSE {})

\* run() returns when its work guard is gone and no work is left.  The stop
\* of the pool waits for io 0 before it lets the others go.
ThreadExit(i) ==
  /\ pool.phase = "rest" \/ (pool.phase = "first" /\ i = 0)
  /\ Runs(i) /\ strand[i] = <<>> /\ OpsOf(i) \subseteq {"none"}
  /\ pool' = [pool EXCEPT !.phase = IF i = 0 THEN "rest" ELSE @,
                          !.live = @ \ {i}]
  /\ UNCHANGED <<state, srv, sess, strand, run, api, calls, crashed>>

-----------------------------------------------------------------------------
(* Accepting, on the server's strand.                                      *)

\* What async_accept leaves, or the retry timer when it throws.  Beyond
\* NSessions the session made waits for a connection that never comes.
AcceptOutcome(v) ==
  IF ~IsStarted THEN {v}
  ELSE LET made == IF v.made > NSessions THEN v.made ELSE v.made + 1
       IN  {[v EXCEPT !.made = made, !.accept = "pending"]}
             \cup (IF made < NSessions
                   THEN {[v EXCEPT !.made = made, !.retry = "pending"]}
                   ELSE {})

PostAccept ==
  /\ Next1(0, "PostAccept") /\ Become(Taken(0))
  /\ srv' \in AcceptOutcome(srv)
  /\ UNCHANGED <<state, run, pool, api, calls, crashed>>

AcceptRetry ==
  /\ Runs(0) /\ srv.retry # "none"
  /\ \/ srv.retry = "cancelled" /\ UNCHANGED strand
     \/ strand' = [strand EXCEPT ![0] = Append(@, [t |-> "PostAccept"])]
  /\ srv' = [srv EXCEPT !.retry = "none"]
  /\ UNCHANGED <<state, sess, run, pool, api, calls, crashed>>

AcceptAborted ==
  /\ Runs(0) /\ srv.accept = "cancelled"
  /\ srv' = [srv EXCEPT !.accept = "none"]
  /\ DoStop
  /\ UNCHANGED <<sess, run, pool, api, calls, crashed>>

AcceptFails ==
  /\ Runs(0) /\ srv.accept # "none" /\ srv.made \in Session
  /\ srv' \in AcceptOutcome([srv EXCEPT !.accept = "none"])
  /\ UNCHANGED <<state, sess, strand, run, pool, api, calls, crashed>>

\* Mutant: the session is not given the counter.
AcceptWithoutCounter(s) ==
  [sess[s] EXCEPT !.st = "Starting", !.sock = "open"]

\* HandleAccept gives the session the counter and starts it: Starting,
\* DoInit, FireAccept.
AcceptedSession(s) ==
  [sess[s] EXCEPT !.st = "Starting", !.sock = "open", !.counter = srv.counter]

Accept ==
  /\ Runs(0) /\ srv.accept # "none" /\ srv.made \in Session
  /\ IF IsStarted
     THEN /\ sess' = [sess EXCEPT ![srv.made] = AcceptedSession(srv.made)]
          /\ run' = [Resting EXCEPT !.pc = "accepted", !.s = srv.made]
     ELSE UNCHANGED <<sess, run>>
  /\ srv' = [srv EXCEPT !.accept = "none"]
  /\ UNCHANGED <<state, strand, pool, api, calls, crashed>>

At(pc) == 0 \in pool.live /\ run.pc = pc
Goto(pc) == run' = [run EXCEPT !.pc = pc]

ArmConn(c, s) == [c EXCEPT !.sess[s].op["conn"] = "pending",
                           !.sess[s].timedOut = FALSE]

\* After FireAccept: arm the connect timeout on the session's io, unless the
\* session was stopped, which throws to a DoDisconnect that finds it Stopping.
SessionStart ==
  /\ At("accepted")
  /\ LET s == run.s IN
     IF sess[s].st = "Starting"
     THEN /\ Become(IF IoOf(s) = 0 THEN ArmConn(Here, s)
                    ELSE Post(Here, [t |-> "ArmConn", s |-> s]))
          /\ Goto("done")
     ELSE Become(DoDisconnect(Here, 0, s)) /\ Goto("next")
  /\ UNCHANGED <<state, srv, pool, api, calls, crashed>>

\* Mutant: the timer is cancelled, the flag that outlives it is not set.
StopConnWithoutFlag(v) == [v EXCEPT !.op["conn"] = Cancel(@)]

StopConnectTimeoutTimer(v) ==
  [v EXCEPT !.op["conn"] = Cancel(@), !.connCanceled = TRUE]

\* DoneConnect: read the timeout flag, cancel the timer ...
DoneConnect ==
  /\ At("done")
  /\ run' = [run EXCEPT !.pc = "state", !.ec = sess[run.s].timedOut]
  /\ sess' = [sess EXCEPT ![run.s] = StopConnectTimeoutTimer(@)]
  /\ UNCHANGED <<state, srv, strand, pool, api, calls, crashed>>

\* ... Starting to Started ...
BecomeStarted ==
  /\ At("state")
  /\ LET s == run.s IN
     IF ~run.ec /\ sess[s].st = "Starting"
     THEN sess' = [sess EXCEPT ![s].st = "Started"] /\ Goto("fire") /\ UNCHANGED strand
     ELSE Become(DoDisconnect(Here, 0, s)) /\ Goto("next")
  /\ UNCHANGED <<state, srv, pool, api, calls, crashed>>

\* ... FireConnect if still Started ...
FireConnect ==
  /\ At("fire")
  /\ sess' = IF sess[run.s].st = "Started"
             THEN [sess EXCEPT ![run.s].told = "connected"] ELSE sess
  /\ Goto("check")
  /\ UNCHANGED <<state, srv, strand, pool, api, calls, crashed>>

\* ... still Started after the notification? ...
CheckStarted ==
  /\ At("check")
  /\ Goto(IF sess[run.s].st = "Started" THEN "emplace" ELSE "next")
  /\ UNCHANGED <<state, srv, sess, strand, pool, api, calls, crashed>>

\* ... and join the session manager, which runs on this strand.
Emplace ==
  /\ At("emplace")
  /\ LET s == run.s
     IN  Become(Post([Here EXCEPT !.sess[s].reg = TRUE],
                     [t |-> "StartRecv", s |-> s]))
  /\ Goto("next")
  /\ UNCHANGED <<state, srv, pool, api, calls, crashed>>

AcceptNext ==
  /\ At("next")
  /\ srv' \in AcceptOutcome(srv)
  /\ run' = Resting
  /\ UNCHANGED <<state, sess, strand, pool, api, calls, crashed>>

-----------------------------------------------------------------------------
(* The server's stop, on its strand.                                       *)

\* Mutant: nothing keeps io 0 running until the sessions have left.
PostStopWithoutKeep ==
  /\ Next1(0, "Stop") /\ Become(Taken(0))
  /\ run' = [Resting EXCEPT !.pc = "walk", !.todo = {s \in Session : sess[s].reg}]
  /\ UNCHANGED <<state, srv, pool, api, calls, crashed>>

\* ApplyAllSession(Stop) begins; sessions join and leave the manager on this
\* strand only, so none does during the walk.
PostStop ==
  /\ Next1(0, "Stop") /\ Become(Taken(0))
  /\ srv' = [srv EXCEPT !.keep = "pending"]
  /\ run' = [Resting EXCEPT !.pc = "walk", !.todo = {s \in Session : sess[s].reg}]
  /\ UNCHANGED <<state, pool, api, calls, crashed>>

\* Mutant: the walk ends after the first session.
WalkOne ==
  /\ At("walk")
  /\ \E s \in run.todo : Become(DoDisconnect(Here, 0, s))
  /\ run' = [run EXCEPT !.todo = {}]
  /\ UNCHANGED <<state, srv, pool, api, calls, crashed>>

\* The next session; the order of the walk is that of a hash table.
WalkSession ==
  /\ At("walk")
  /\ \E s \in run.todo :
       /\ Become(DoDisconnect(Here, 0, s))
       /\ run' = [run EXCEPT !.todo = @ \ {s}]
  /\ UNCHANGED <<state, srv, pool, api, calls, crashed>>

\* The server gives up its copy of the counter.
WalkEnd ==
  /\ At("walk") /\ run.todo = {}
  /\ srv' = [srv EXCEPT !.counter = FALSE]
  /\ Become(IF srv.counter /\ \A s \in Session : ~sess[s].counter
            THEN PostTo(Here, 0, [t |-> "FinalStop"]) ELSE Here)
  /\ run' = Resting
  /\ UNCHANGED <<state, pool, api, calls, crashed>>

FinalStop ==
  /\ Next1(0, "FinalStop") /\ Become(Taken(0))
  /\ IF state = "Stopping"
     THEN state' = "Stopped" /\ Goto("handleStop") /\ UNCHANGED crashed
     ELSE crashed' = TRUE /\ UNCHANGED <<state, run>>
  /\ UNCHANGED <<srv, pool, api, calls>>

\* FireStop; cancel the timers; close the acceptor.
HandleStop ==
  /\ At("handleStop")
  /\ srv' = [srv EXCEPT !.retry = Cancel(@), !.keep = Cancel(@),
                        !.accept = Cancel(@), !.acceptor = "closed"]
  /\ run' = Resting
  /\ UNCHANGED <<state, sess, strand, pool, api, calls, crashed>>

\* The handler of the timer that kept io 0 running does nothing.
KeepTimer ==
  /\ Runs(0) /\ srv.keep = "cancelled"
  /\ srv' = [srv EXCEPT !.keep = "none"]
  /\ UNCHANGED <<state, sess, strand, run, pool, api, calls, crashed>>

-----------------------------------------------------------------------------
(* Tasks on a session's strand.                                            *)

RunEnqueue(i) ==
  /\ Next1(i, "Enqueue")
  /\ LET task == Head(strand[i])
     IN  Become(EventEnqueue(Taken(i), task.s, task.ev))
  /\ UNCHANGED <<state, srv, run, pool, api, calls, crashed>>

RunArmConn(i) ==
  /\ Next1(i, "ArmConn")
  /\ Become(ArmConn(Taken(i), Head(strand[i]).s))
  /\ UNCHANGED <<state, srv, run, pool, api, calls, crashed>>

SessionIsStarted(v) == v.st = "Started" /\ v.sock = "open"

\* PostSilenceTimer, then PostRecv, which looks at the state once more.
StartReceiving(v) ==
  [v EXCEPT !.op["silence"] = "pending",
            !.op["recv"] = IF SessionIsStarted(v) THEN "pending" ELSE @]

RunStartRecv(i) ==
  /\ Next1(i, "StartRecv")
  /\ LET s == Head(strand[i]).s
     IN  Become([Taken(i) EXCEPT !.sess[s] = StartReceiving(@)])
  /\ UNCHANGED <<state, srv, run, pool, api, calls, crashed>>

\* SessionMgr::Erase and its callback, on the server's strand.  A session
\* that never got past Starting fails the assertion of disconnect.h:273.
Erase(c, task) ==
  LET s == task.s
      d == [c EXCEPT !.sess[s].reg = FALSE, !.sess[s].st = "Stopped",
                     !.sess[s].told = "disconnected"]
  IN  IF c.sess[s].st = "Stopping" THEN Post(d, [t |-> "Teardown", s |-> s]) ELSE c

EraseFails(task) == sess[task.s].st = "Stopping" /\ task.old # "Started"

\* The disconnect's event has come up: leave the manager, at once when this
\* strand is the server's.
RunEvent(i) ==
  /\ Next1(i, "Event")
  /\ LET task == Head(strand[i]) IN
     IF i = 0 THEN Become(Erase(Taken(0), task)) /\ crashed' = EraseFails(task)
     ELSE /\ Become(PostTo(Taken(i), 0, [task EXCEPT !.t = "Erase"]))
          /\ UNCHANGED crashed
  /\ UNCHANGED <<state, srv, run, pool, api, calls>>

RunErase ==
  /\ Next1(0, "Erase")
  /\ Become(Erase(Taken(0), Head(strand[0])))
  /\ crashed' = EraseFails(Head(strand[0]))
  /\ UNCHANGED <<state, srv, run, pool, api, calls>>

\* Mutant: the silence timer is forgotten.
StoppedKeepsSilence(v) ==
  [v EXCEPT !.connCanceled = TRUE, !.sock = "closed",
            !.op = [k \in SessionOp |-> IF k = "silence" THEN @[k] ELSE Cancel(@[k])]]

\* SessionBase::Stop and the close of the socket cancel every operation.
StoppedSession(v) ==
  [v EXCEPT !.connCanceled = TRUE, !.silenceCanceled = TRUE, !.sock = "closed",
            !.op = [k \in SessionOp |-> Cancel(@[k])]]

\* HandleDisconnect: give the counter back, then let the next event run.
RunTeardown(i) ==
  /\ Next1(i, "Teardown")
  /\ LET s == Head(strand[i]).s
         c == DropCounter([Taken(i) EXCEPT !.sess[s] = StoppedSession(@)], s)
     IN  Become(NextEvent(c, s))
  /\ UNCHANGED <<state, srv, run, pool, api, calls, crashed>>

-----------------------------------------------------------------------------
(* Completions of a session's operations.                                  *)

SessionRuns(s) == Runs(IoOf(s))
Ended(s, k) == [Here EXCEPT !.sess[s].op[k] = "none"]
Disconnected(c, s) == DoDisconnect(c, IoOf(s), s)

\* Time passes for a session that is still Starting only under EarlyStop.
ConnTimer(s) ==
  /\ SessionRuns(s) /\ sess[s].op["conn"] # "none"
  /\ LET c == Ended(s, "conn")
         d == [c EXCEPT !.sess[s].timedOut = TRUE]
     IN  \/ /\ sess[s].op["conn"] = "cancelled"
            /\ Become([c EXCEPT !.sess[s].connCanceled = FALSE])
         \/ /\ EarlyStop \/ sess[s].st # "Starting"
            /\ Become(IF sess[s].connCanceled
                      THEN [d EXCEPT !.sess[s].connCanceled = FALSE]
                      ELSE Disconnected(d, s))
  /\ UNCHANGED <<state, srv, run, pool, api, calls, crashed>>

\* The peer was silent for too long, or only since the timer was armed last.
SilenceTimer(s) ==
  /\ SessionRuns(s) /\ sess[s].op["silence"] # "none"
  /\ \/ /\ sess[s].op["silence"] = "cancelled" \/ sess[s].silenceCanceled
        /\ Become(Ended(s, "silence"))
     \/ /\ ~sess[s].silenceCanceled
        /\ Become(Disconnected(Ended(s, "silence"), s))
     \/ /\ ~sess[s].silenceCanceled
        /\ Become([Here EXCEPT !.sess[s].op["silence"] = "pending"])
  /\ UNCHANGED <<state, srv, run, pool, api, calls, crashed>>

\* TcpHandleRecv: the stream is in error; or a frame is handled, perhaps by
\* sending an answer, and the next one awaited.  A session no longer Started
\* does not receive again.
Recv(s) ==
  /\ SessionRuns(s) /\ sess[s].op["recv"] # "none"
  /\ \/ /\ Become(Disconnected(Ended(s, "recv"), s))
        /\ UNCHANGED calls
     \/ /\ SessionIsStarted(sess[s]) /\ calls.session < MaxCalls
        /\ Become(EventEnqueue(Here, s, [t |-> "send"]))
        /\ calls' = [calls EXCEPT !.session = @ + 1]
  /\ UNCHANGED <<state, srv, run, pool, api, crashed>>

\* The guard captured by the write's handler starts the next event.
Write(s) ==
  /\ SessionRuns(s) /\ sess[s].op["write"] # "none"
  /\ \E c \in {Ended(s, "write"), Disconnected(Ended(s, "write"), s)} :
       Become(NextEvent(c, s))
  /\ UNCHANGED <<state, srv, run, pool, api, calls, crashed>>

-----------------------------------------------------------------------------
(* The application's call of Stop on a session.                            *)

Kill(s) ==
  /\ calls.session < MaxCalls
  /\ \/ sess[s].told = "connected"
     \/ EarlyStop /\ sess[s].st = "Starting"
  /\ sess[s].st \in {"Starting", "Started"}
  /\ Become(DoDisconnect(Here, NThreads, s))
  /\ calls' = [calls EXCEPT !.session = @ + 1]
  /\ UNCHANGED <<state, srv, run, pool, api, crashed>>

-----------------------------------------------------------------------------
ServerStep ==
  \/ PostAccept \/ AcceptRetry \/ AcceptAborted
  \/ SessionStart \/ DoneConnect \/ BecomeStarted \/ FireConnect
  \/ CheckStarted \/ Emplace \/ AcceptNext
  \/ PostStop \/ WalkSession \/ WalkEnd \/ FinalStop \/ HandleStop \/ KeepTimer \/ RunErase

SessionTask(i) ==
  RunEnqueue(i) \/ RunArmConn(i) \/ RunStartRecv(i) \/ RunEvent(i) \/ RunTeardown(i)

SessionEnd(s) == ConnTimer(s) \/ SilenceTimer(s) \/ Recv(s) \/ Write(s)

ApiStep == StopPool \/ StopReturn \/ StartPool \/ StartListen \/ StartAccept

Next ==
  /\ ~crashed
  /\ \/ StartCall \/ StopCall \/ StartFails \/ ApiStep
     \/ AcceptFails \/ Accept \/ ServerStep
     \/ \E i \in Io : SessionTask(i) \/ ThreadExit(i)
     \/ \E s \in Session : SessionEnd(s) \/ Kill(s)

\* What the thread of io i has to do: the tasks on its strand, the handlers of
\* cancelled operations and of writes, and to return when all is done.
Owed(s) ==
  \/ sess[s].op["conn"] = "cancelled" /\ ConnTimer(s)
  \/ sess[s].op["silence"] = "cancelled" /\ SilenceTimer(s)
  \/ sess[s].op["recv"] = "cancelled" /\ Recv(s)
  \/ Write(s)

IoStep(i) ==
  /\ ~crashed
  /\ \/ SessionTask(i) \/ ThreadExit(i) \/ (i = 0 /\ ServerStep)
     \/ \E s \in Session : IoOf(s) = i /\ Owed(s)

\* Each io thread goes on running what is queued, peers read what they are
\* sent.  No connection has to arrive, no timer to expire, no peer to write,
\* and the application calls what it likes.
Fairness ==
  /\ WF_vars(ApiStep /\ ~crashed)
  /\ \A i \in Io : WF_vars(IoStep(i))

Spec == Init /\ [][Next]_vars
LiveSpec == Spec /\ Fairness

-----------------------------------------------------------------------------
(* Properties.                                                             *)

SessionState ==
  [st : NetState, sock : {"none", "open", "closed"}, reg : BOOLEAN, counter : BOOLEAN,
   events : Seq(Event), op : [SessionOp -> OpState], connCanceled : BOOLEAN,
   timedOut : BOOLEAN, silenceCanceled : BOOLEAN,
   told : {"nothing", "connected", "disconnected"}]

RunPc == {"idle", "accepted", "done", "state", "fire", "check", "emplace", "next",
          "walk", "handleStop"}

\* Every variable keeps its type; in particular a task on a strand always
\* names a session and an event that exist.
TypeOK ==
  /\ state \in NetState
  /\ srv \in [acceptor : {"open", "closed"}, accept : OpState, retry : OpState,
              keep : OpState, counter : BOOLEAN, made : Nat]
  /\ sess \in [Session -> SessionState]
  /\ strand \in [Io -> Seq(Task)]
  /\ run \in [pc : RunPc, s : Session \cup {0}, ec : BOOLEAN, todo : SUBSET Session]
  /\ pool \in [phase : {"down", "up", "first", "rest"}, live : SUBSET Io]
  /\ api \in [start : {"idle", "pool", "listen", "accept"}, stop : {"idle", "pool", "wait"}]
  /\ calls \in [start : Nat, session : Nat]
  /\ crashed \in BOOLEAN

\* The assertions of the code hold: the final stop finds the server Stopping
\* (tcp_server.h:168) and no session is disconnected that never got past
\* Starting (disconnect.h:273).
AssertionsHold == ~crashed

\* Once the server's stop has walked the session manager and given up its
\* counter, every session that still holds a copy is on its way down: none
\* was accepted behind the walk's back, to keep the server Stopping for ever.
StopReachesEverySession ==
  state = "Stopping" /\ ~srv.counter =>
    \A s \in Session : sess[s].counter => sess[s].st \in {"Stopping", "Stopped"}

\* A server that has become Stopped has no session left: none registered,
\* none connected, none whose socket is open or with work still to come.
StoppedServerHasNoSession ==
  state = "Stopped" =>
    \A s \in Session :
      /\ ~sess[s].reg /\ ~sess[s].counter
      /\ sess[s].st = "Stopped" /\ sess[s].sock # "open"
      /\ sess[s].told # "connected"

\* A session that was torn down (DoStop closed its socket) has no operation
\* that waits for the outside world, and will start none: what is left of
\* its operations are cancelled ones, and no disconnect is queued again.
TornDownSessionIsDead ==
  \A s \in Session :
    sess[s].sock = "closed" =>
      /\ \A k \in SessionOp : sess[s].op[k] # "pending"
      /\ \A j \in 1..Len(sess[s].events) : sess[s].events[j].t = "send"

\* The connect timeout, which a session on another io may arm after its
\* connection is done, does not disconnect a session that is Started.
ConnectedIsNotTimedOut ==
  [][\A s \in Session :
       sess[s].op["conn"] # "none" /\ sess'[s].op["conn"] = "none"
         /\ sess[s].st = "Started" => sess'[s].st = "Started"]_vars

\* The pool is taken down only when it is done: no disconnect, tear-down or
\* stop is left on a strand, for the next Start to run against other sessions.
NothingLeftBehind == pool.phase = "down" => \A i \in Io : strand[i] = <<>>

\* A call of Stop returns.  Peers have to read what is being sent to them:
\* the disconnect of a session queues behind its writes.
StopReturns == api.stop # "idle" ~> api.stop = "idle" \/ crashed
=============================================================================
