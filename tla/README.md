# typhoon_zero in TLA+

typhoon_zero is a C++17 game server framework. Its core is an asynchronous
network library on top of asio (`tpn/src/lib/net`); beside it stand an
area-of-interest library (`lib/aoi`), ranking lists (`lib/common/rank`), a set
of containers, a thread pool and a logger (`lib/common`), and the cell server's
coordinate system (`server/cell`). The other server programs are stubs, and the
protobuf code is generated.

This directory holds TLA+ models of the parts whose correctness depends on
order: what may run between two steps, what is queued and what has become of it
when it runs, which link is changed first. All paths below are relative to
`src/tpn/src`.

## Inventory

| Part | State | Operations | Hard behaviour | What makes it correct | Module |
|---|---|---|---|---|---|
| `TcpClient` (`net/tcp/tcp_client.h`, `net/base/client.h`, `connect.h`, `disconnect.h`) | atomic `NetState`, socket, event queue, two timers, io pool | `Start`, `AsyncStart`, `Stop`, `Send`, `AutoReconnect`, handlers of resolve, connect, receive, write | application threads against the io thread; late handlers; timeouts; reconnection | one attempt at a time, one disconnect per `Stopping`, assertions hold, Stop ends and leaves nothing, a lost connection is retried | `TcpClient` |
| `EventQueue` (`event_queue.h`) | queue of events, guard of the front | `EventEnqueue`, `NextEvent` | the guard is handed through tasks and writes | exactly one event runs while the queue is not empty | `TcpClient`, `TcpServer` |
| `ReconnectTimer`, `ConnectTimeoutTimer`, silence timer (`timer/`) | steady timers, cancelled flags | make, wake, stop, expire | cancel against expiry | a wake-up is not lost, a cancelled timer has no effect | `TcpClient`, `TcpServer` |
| `IoPool` (`io_pool.cpp`) | `stopped_`, work guards, threads | `Start`, `Stop` | Stop waits until `run()` has no work, io 0 first | Stop returns and leaves nothing on a strand | `TcpClient` (one thread), `TcpServer` (several) |
| `UserTimer` (`timer/user_timer.h`) | map of timer objects | start (with delay, with cycle), stop one, stop all | handlers of aborted waits; stop from within the task | registered timers are alive, stopped ones come to rest, cycles are kept | `UserTimer` |
| `TcpServer` (`tcp_server.h`, `server.h`) | acceptor, `NetState`, `counter_sptr_` | `Start`, `Stop`, accept and its retry | stop during accept, several io threads | every session is stopped, the counter ends once, Stop returns | `TcpServer` |
| `TcpSession`, `SessionMgr` (`tcp_session.h`, `session.h`, `session_mgr.h`) | `NetState`, map under a shared mutex | start, join, send, disconnect, tear down | two strands on two threads | registered exactly while alive, dead after the tear down | `TcpServer` |
| AOI (`aoi/aoi.cpp`, `aoi_node.cpp`) | three sorted lists, nodes to delete | insert, move, remove, release, destroy | links changed pass by pass; removal by two routes | lists whole and sorted, the passes told are the passes made | `AOI` |
| Rank (`common/rank`) | skip list with spans, uid map | update, remove, rank and range queries | spans on every level | every answer is a position in the sorted order | `RankOrder`, `Ranking`, `SkipList` |
| `ThreadPool`, `MPMCQueue` (`common/thread`, `common/algorithm`) | queue, mutex and condition, workers | submit, take, cancel, join | wake-ups lost, shutdown | waiters wake, destruction ends | `ThreadPool` |
| `PeriodicWorker`, asynchronous logger, `LogHub` (`common/logger`) | weak and shared pointers of the pool, locks | log, flush, `Shutdown` | who destroys the pool; order of the shutdown | order of messages, Shutdown returns, no thread left | `AsyncLog` |
| `PostWrap` timed tasks, `ConditionWrap` (`wrapper/`) | timed tasks, match conditions | delayed post, stop all; split a stream | | | `Post` alone, in `TcpClient` |
| Coordinate system (`server/cell`), other containers, `ByteBuffer`, configuration, data, protocol, server programs | | | | | not modelled, see below |

The parts meet as follows. A `TcpClient` owns an `IoPool` of one thread; every
handler of the client runs on a *strand* of that thread. Application threads
touch `NetState` directly and everything else by posting to the strand. All
disconnects, stops, reconnects and sends go through the client's `EventQueue`.
A `TcpServer` owns a pool of many threads, accepts on the strand of the first
and gives each session the strand of one of them in turn; sessions enter and
leave the `SessionMgr` on the server's strand, and share a counter whose last
copy ends the server. The server also is a `UserTimer`. The logger's threads,
its flusher and `Shutdown` share a `ThreadPool` through shared pointers.

`PROJECT.json` lists the hazards at their lines, and for each the properties
that would catch it going wrong.

## Modules

| Module | What it is | Composes or implements |
|---|---|---|
| `TcpClient` | one client with its io thread | client, event queue, two timers, pool of one thread |
| `UserTimer` | the user timers of a server | |
| `TcpServer` | a server and its sessions | acceptor, sessions, event queues, session manager, timers, pool of several threads |
| `RankOrder` | the orders of the rank types, `CompUaks` | used by `SkipList` |
| `Ranking` | what a ranking list promises: a sorted sequence and its answers | abstract |
| `SkipList` | the skip list with spans | implements `Ranking` (`ImplementsRanking`) |
| `AOI` | the lists of the area of interest | |
| `ThreadPool` | the pool with its queue; by itself, what it promises to a user that submits until it destroys it once | abstract part: `PoolSpec` |
| `AsyncLog` | logger, flusher and shutdown around a `ThreadPool` | extends `ThreadPool`; implements `PoolSpec` (`UsesThePool`) |
| `TcpClientProofs`, `TcpClientDisconnectProofs`, `TcpClientAttemptProofs`, `UserTimerProofs`, `TcpServerProofs`, `AsyncLogProofs` (the pool's as well), `AOIProofs`, `SkipListProofs` (`RankOrder`'s as well) | theorems | |
| `MC...` | instances for TLC | |

## TcpClient

`TcpClient.tla` models one client with its io thread.

| Model | Code |
|---|---|
| `state` | `state_`, the atomic `NetState` |
| `io.strand`, `io.ready` | tasks on the strand; completions the `io_context` has not yet handed to the strand |
| `io.events` | `EventQueue::events_` |
| `io.ops`, `io.sock` | asynchronous operations in flight, by kind; the socket |
| `run` | where the io thread stands in `DoneConnect` |
| `pool` | `IoPoolImpl`: up, draining (work guard dropped), exited (`run()` returned), down |
| `timer` | `reconnect_timer_canceled_`, `reconnect_is_running_`, `connect_timeout_flag_` |
| `iter` | the endpoint `async_connect` was given |
| `promise` | the `std::promise` a blocking `Start` waits for |
| `api`, `calls` | how far the calls of `Start`, `Stop` and `Send` are, and how many there were |
| `up` | what the listener last heard |
| `crashed` | a `TPN_ASSERT` failed |

Each handler is one action, for handlers of a strand exclude each other.
`NetState` is the exception: application threads exchange it at any time. So
`DoneConnect` is cut into `BeginDone`, `DoneNotify` and `DoneFinish` at the
points where it reads the state anew, and `Start` and `Stop` are cut at every
step that another thread can tell apart, the two `compare_exchange` of
`DoDisconnect` included. The handlers that call `DoDisconnect` on the strand do
both exchanges in one action: only `DoneConnect`, on the same thread, moves
`Starting` to `Started`, so nothing can come between them that matters.

An event runs while its `EventQueueGuard` lives. The guard travels: in the task
the event posts to the strand, in the handler of an `async_write`, or, for a
reconnection whose bind fails, in `DoneConnect` (`run.inEvent`). `NextEvent` is
called where it dies. Data, buffers, keep-alive options and log output are left
out; what a peer sends only matters as a receive that succeeds or fails.

asio is modelled by what the code relies on: tasks on a strand run in order;
cancelling completes the pending operations as aborted but leaves a completion
that is queued already as it is; `run()` returns when the work guard is gone
and neither operations nor handlers are left.

### Runs

| Run | Shows |
|---|---|
| `TcpClient_reconnect` | Two endpoints, two Starts of both flavours that may overlap, automatic reconnection and every failure, no Stop: one disconnect for each `Stopping`, "disconnected" only after "connected", Start returns, attempts end, a lost connection is retried. |
| `TcpClient_stop` | Two Starts and two Stops against the io thread: the assertions hold, events run one at a time, no two operations of a kind, "connected" is told once. |
| `TcpClient_send` | A blocking client without reconnection and one Send on a second thread: once Stop has joined the pool the client is Stopped with nothing left over, and Stop returns if the peer reads. |
| `TcpClient_stop_hangs` | Finding: Stop during connecting never returns. |
| `TcpClient_late_timeout` | Finding: a late connect timeout closes the socket of a Started client that never notices. |

Bounds. Two endpoints are the least that have a next one. Two Starts are
needed for a restart, and to find a second Start while the first is active; two
Stops for a Stop on a client that is down. One Send is enough to put a write
in front of a disconnect or behind it. Reconnection has no bound: the runs with
`ReconnectEnabled` go through any number of attempts, and the state space is
finite because the queues are: each handler leaves at most a few tasks.
`OverlappingCalls = FALSE` says that Start and Stop are not called at the same
time by two threads. With `TRUE` and Stops, TLC finds further failures (an
assertion of `DoneConnect`, overlapping attempts); they are listed as hazards.

Fairness. The io thread runs whenever it can (it is a thread in `run()`), and so
do the threads inside a call. The resolver answers and a connection attempt
ends because the operating system gives up on both in the end. Timers expire.
Nothing is assumed of the peer, nor that the application calls anything. That
the peer reads is a premise of the property that needs it
(`PeerReads => ...`), and without it Stop does wait for the peer: the
disconnect is queued behind the write.

### Findings

1. **Stop hangs** (`disconnect.h:100-125`). `DoDisconnect` tries `Started` and
   then `Starting`. A client that becomes `Started` in between matches neither;
   Stop goes on to wait for an io thread that keeps its connection.
2. **Late timeout** (`connect.h:158-173`). A timeout handler queued before
   `StopConnectTimeoutTimer` cannot be cancelled and closes the socket without
   looking at the state. `TcpPostRecv` then returns silently and the client
   stays `Started` without a socket.

### Known behaviours without a run of their own

The model has these, and the runs are bounded so that they do not hide other
failures of the same property.

- No reconnection after a restart (`reconnect_timer.h:144`): nothing clears
  `reconnect_timer_canceled_` when the timer is made again. With
  `MaxStops = 1`, `Reconnects` is violated.
- A socket stays open (`connect.h:303`): the handler of `async_resolve` does
  not look at the state; `async_connect` opens the socket the Stop closed.
- A reconnection behind Stop (`tcp_client.h:303`): Stop posts the task that stops
  the reconnect timer and goes on to `DoDisconnect`, which finds the client
  Stopped. If the timer fires before the task, its callback makes the client
  Starting; the event of the reconnection may come to `ClientStartConnect` when
  the pool is being stopped, which gives up and leaves the state (`connect.h:107`).
  Stop returns, and every later Start says that the client is starting. With
  `ReconnectEnabled = TRUE`, `StopLeavesStopped` is violated.
- A late send (`tcp_send_wrap.h:71`, `disconnect.h:202`): a write that fails
  calls `DoDisconnect` for whatever attempt is under way by then, so an attempt
  of the reconnection may be ended by a send meant for the connection before.

## UserTimer

`UserTimer.tla` models the timers of one server: `ut.map` is `user_timers_`,
`ut.objs` the `UserTimerObj`s (object *n* is the *n*-th one made), `ut.ready` and
`strand` the handlers of ended waits on their way. An interval or a delay only
says when a wait may end, so all eight start functions share `CallStart` and
`HandleStart`; the ones without a count are the cycle -1. The task of a timer
may stop timers, which on the strand happens at once; a task that starts one
posts, which is `CallStart` just before or after. `StopGroupTimers` is not
modelled: nothing calls it and it would not compile. `hist` only records what
happened.

Run `UserTimer` shows, for two keys, two starts with cycle -1, 0 or 2 and two
stops from anywhere: a registered timer is alive (`RegisteredIsArmed`), an
unregistered one has exited and comes to rest (`UnregisteredHasExited`,
`StoppedComesToRest`), the task runs at most `cycle` times (`AtMostCycleRuns`)
and not less often if nobody interferes (`LeavesAfterItsCycles`). Two starts are
the least to use a key again and to restart a timer; 2 is the least cycle that
is counted down; 0 and -1 are the edges. Fairness: the io thread runs, waits end.

Finding, run `UserTimer_restart`: starting a timer that runs stops it. The
aborted wait of the first start is handled as a stop of the key
(`user_timer.h:647`). A Stop followed by a Start of the same key loses the new
timer in the same way.

## TcpServer

`TcpServer.tla` models a server with the sessions it accepts and a pool of
`NThreads` io threads. Io 0 runs the server's strand; session *s* is dealt to
io `s % NThreads`, so with two threads one session shares the server's thread
and one does not.

| Model | Code |
|---|---|
| `state`, `srv.acceptor` | `state_` of the server, the acceptor |
| `srv.accept`, `srv.retry`, `srv.keep` | the pending `async_accept`, the retry timer after one that threw, `counter_timer_` |
| `srv.counter`, `sess[s].counter` | the copies of `counter_sptr_` |
| `sess[s].st`, `.sock`, `.reg`, `.told` | `NetState` and socket of the session, its entry in `SessionMgr`, what its listener last heard |
| `sess[s].events`, `.op` | its event queue, its pending operations |
| `.connCanceled`, `.timedOut`, `.silenceCanceled` | the flags of its two timers |
| `strand[i]`, `pool` | tasks posted to io *i*; phase of the pool's stop and the threads still running |
| `run` | where io 0 stands inside `HandleAccept` or the walk of `PostStop`, or between the final stop and `HandleStop` |
| `api` | the threads inside `Start` and `Stop` |

`HandleAccept` runs on the server's strand while the session's own io thread and
the application may already act on the session. It is cut into `Accept`,
`SessionStart`, `DoneConnect`, `BecomeStarted`, `FireConnect`, `CheckStarted`,
`Emplace` and `AcceptNext`, one per read or change of something another thread
can reach. The posted body of `PostStop` is cut in the same way: `PostStop` begins the walk
of the session manager, each `WalkSession` stops one session, in any order (the
manager is a hash table), and `WalkEnd` gives up the server's counter. Sessions
join and leave the manager on this strand only, so the set that is walked does
not change, but each of its sessions may be stopped by someone else first.
Every other handler is one action. The copies of `counter_sptr_` are
counted by who holds one: `WalkEnd` gives up the server's, `RunTeardown` a
session's, and the last one posts `FinalStop`. `PostAccept` may throw instead of
waiting (`AcceptOutcome`), Start may fail in each of its ways (`StartFails`).

Run `TcpServer`, two connections on two io threads, two Starts and one Send or
Stop on a session: the assertions hold; a stop reaches every session that still
counts (`StopReachesEverySession`); a Stopped server has no session
(`StoppedServerHasNoSession`); a session that was torn down starts nothing more
(`TornDownSessionIsDead`); a connect timeout armed late on the session's thread
does not disconnect a Started session (`ConnectedIsNotTimedOut`); the pool is
taken down with empty strands (`NothingLeftBehind`); Stop returns.

Bounds. Two sessions on two threads give one session that shares the server's
strand and one whose disconnect goes back and forth between two. Two Starts give
a restart and a start that failed before it; Stop may be called whenever the pool
is up. One application call is enough to have a write in front of the disconnect,
or a disconnect that races with the server's. `EarlyStop = FALSE` keeps the
application from stopping a session inside its accept callback, and the timeout
from expiring while a session is still `Starting`: with `TRUE` both lead to the
`TPN_ASSERT(false)` of `disconnect.h:273` and end the process, which would hide
everything after. The timeout needs the accepting thread to stand still for the
whole interval.

Fairness. Each io thread runs what is queued on it and the handlers of cancelled
operations; a thread inside Start or Stop goes on; peers read what they are sent
(`Write` is among what a thread owes). No connection has to arrive, no timer has
to expire, and the application need not call.

Known behaviours without a run of their own: the assertion under
`EarlyStop = TRUE`; a Start retried right after one that failed may have its
acceptor closed by the final stop the first one left on the strand
(`tcp_server.h:347`), which the run reaches and no property forbids;
`IsStopped` of the server asks that the acceptor be open, where a stopped server
has closed it (`tcp_server.h:112`).

## Rank

`RankOrder.tla` has the rank types and `CompUaks`, the loop that compares two
entries. `Ranking.tla` is the abstract list: a sequence sorted by its keys, with
the queries as positions in it. `SkipList.tla` is the code's list: levels with
forward links and spans, `backward_`, `tail_`, `level_`, and the searches that
add spans on the way down; a node is named by its uid because `uid_umap_` holds
one node for each. The height of a new node is any of `1..MaxLevel`, whatever
the random numbers say.

Run `SkipList`, three uids, two scores, three levels, every query in every state
(a query is a step that leaves its answer, `Return` takes it away): each span is
the distance it stands for (`SpansAreDistances`), the levels and the way back
agree with the lowest level (`LevelsAndBackAgree`), no query follows a null
pointer (`NoNullFollowed`), and the list implements the ranking
(`ImplementsRanking`): each answer, in both directions, is the abstract one.
Three entries are the least with one between two others, three levels give a
level that is left empty and used again with the links it had before.
`AskEmpty = FALSE` keeps range queries away from an empty list, where
`GetRange` calls a method of a null node (`skiplist.cpp:400`); with `TRUE`,
`NoNullFollowed` fails at once. `Ranking` says what the sequence is after a step
instead of how it is sorted (`Arranged`): `CompUaks` is a strict order, so there is only one.

Finding, run `SkipList_documented`: `kRankTypeSDP1AP2A` is documented with p1
ascending (`rank_define.h:68`) and sorts it descending (`rank_common.cpp:72`).

## AOI

`AOI.tla` models the manager's three lists and the calls of its nodes, one
thread. An axis has `first` and the links of the nodes; the axes of the code
differ only in names, and in that removing lowers the x coordinate. The loops of
`Update` are steps of their own: `StepBack` and `StepOn` are one pass with all the links
it changes and the two calls of `OnNodePass`, so the invariants hold in every
state in which the application is called back. `before` is the history of a node
that believes what it is told.

Run `AOI`, three nodes, two axes with two and one coordinates, one node hidden
and one for each boundary flag: the lists are whole at every step, both ways,
and nothing is deleted twice (`ListsAreWhole`); between calls they are sorted
(`SortedAtRest`); who counts passes knows the order (`PassesTellTheOrder`); a
node removed has been seen to leave by all others (`RemovalIsTold`). Three nodes
are the least with a neighbour on both sides; equal coordinates on the second
axis exercise the boundary flags; the third axis repeats the second. `SinksOn =
{"x"}` is what the nodes of entities do: their `GetExtX` is `lowest()` while they
are being removed. A subclass that does not (`SinksOn = {}`) leaves a node in its
place with a lowered `x_`, and `SortedAtRest` is violated.

`aoi_node.h` says of the flag of `OnNodePass` that true means the node moved in
front; the code passes true to the node the other one moved in front of. The
history follows the code.

## ThreadPool and AsyncLog

`ThreadPool.tla` models `MPMCQueue` and the workers. Every operation of the queue
is one critical section, except the wait: a worker that is woken (`looking`)
takes the mutex again later, and others may come first. `PoolSpec` is the pool
with a user who submits until it destroys it, once.

`AsyncLog.tla` puts the logging module on it: threads that log through
`thread_pool_.lock()`, the flusher's `PeriodicWorker`, `FlushAll` under the map's
lock, and `LogHub::Shutdown` step by step. `owners` are those who hold a
`shared_ptr` of the pool; the last one destroys it (`CancelPool`, `JoinPool`),
whichever thread that is.

Run `AsyncLog`, two logging threads with two messages and one, one or two
workers, two intervals of the flusher: no wake-up is lost (`NoLostWakeUp`),
messages are written once, and by a pool of one thread in their order without a
gap (`WrittenAsLogged`), the flush always finds a pool (`FlushFindsThePool`),
`Shutdown` returns and leaves no thread (`ShutdownReturns`,
`ShutdownLeavesNoThread`), and the module uses the pool as `PoolSpec` says
(`UsesThePool`). Two messages of one thread show order, a second logging thread
shows a destruction by either; two workers are the least with one asleep and one
busy. Fairness: the threads run; nobody has to log, to tick, or to wake up for no
reason.

Known behaviours: messages queued when the pool is cancelled are dropped, the
flush of Shutdown is a task like the others and is not waited for
(`WrittenAsLogged` allows a prefix); `GetDefaultLoggerRaw` hands out a pointer
that `DropAll` may invalidate.

## Proofs

All theorems hold for every value of the constants that satisfies the named
assumption of the module (`ClientAssumption`, `TimerAssumption`,
`ServerAssumption`, `WorkerAssumption`, `LogAssumption`, `AOIAssumption`,
`RankAssumption`): any
number of calls, keys, sessions, threads, messages, workers, nodes and axes. Where
a theorem needs more, it says so here.

`TcpClientProofs` proves, for all values of the constants that satisfy
`ClientAssumption`,

- `TypeCorrect`: `Spec => []TypeOK`.

The invariant is inductive as it stands. One lemma per operator on the `io`
record says that the operator keeps `Io` (`PostType`, `AbortType`,
`EventEnqueueType`, ...); one lemma per action then has little left to show,
except that the endpoint iterator stays within `1..NEndpoints`, which is
`ClientPostConnect`'s comparison with the end. The proof depends on nothing but
`NEndpoints` being positive.

and, in its second part,

- `EventsRunOneAtATime`: `Spec => []OneEventAtATime`.

`OneEventAtATime` speaks of a set of places, which no step changes in a simple
way. The proof counts instead: `Held(c)` is the number of guards in the `io`
record (`Guards` counts them in a queue, the pending `async_write`s are added),
and the invariant `GuardAlone` says that `Held(io)`, plus one if `DoneConnect`
runs inside the event of a reconnection, is 1 while `events_` is not empty and 0
while it is. With `TypeOK` it is inductive. Each operator on the record has a
lemma on the count: cancelling moves guards and makes none (`AbortHeld`), a
handler that starts takes its guard off the strand (`AloneRest`),
`EventEnqueue` makes a guard only for a queue that was empty (`AloneEnqueue`),
`NextEvent` makes one only for the guard that dies (`AloneNext`). The theorem
includes overlapping calls of Start and Stop, which no run of this invariant does.
`AloneImplies` leads back from the count to the set.

`TcpClientDisconnectProofs` builds on it and proves

- `OneWayOutOfStopping`: `Spec => []StoppingHasOneDisconnect`,
- `DisconnectAssertion`: the `TPN_ASSERT` of a client's `PostDisconnect`
  (`disconnect.h:195`) never fails,
- `DisconnectFollowsConnect`: `Spec => DisconnectNotifiedAfterConnect`, an action
  property, for `MaxStops = 0`.

`Pending` counts the disconnects in `events_` and on their way to it, `Tasks`
those whose task is on the strand. `OneDisconnect` says that one is pending while
the client is Stopping, none otherwise, and that there is a task exactly while a
disconnect is in front. The second half makes it inductive: a handler
pops the event in front whatever it is, so one has to know that it is the handler's own. It
is, because the guard is alone: in a handler that took the guard off the
strand no task of a disconnect is left there (`RestCarried`), so the event in front is
a disconnect only in the handler of one (`RestKind`). Operators that cancel,
launch or close leave strand and events alone (`Same`) and need no argument.

`DisconnectFollowsConnect` is about clients that lose connections and are never
stopped, as the run is. `Told` says that a Started client was told so or is inside
`DoneConnect` before the notification, and that until it is told no disconnect
of a Started connection is in `events_` or on its way there (`FreeOf`). A step
can only break the second part if it may enqueue such an event (`Adds`,
`FreeStep`): the handlers that do find the client Started and the io thread idle, so
the listener was told. When `HandleDisconnect` takes `up` back, that no other
disconnect is left is `OneDisconnect`. With a Stop the property is false: its
`compare_exchange` may come between the one in `DoneConnect` and the
notification, so that the listener hears of the end of a connection it was never told of;
TLC finds it in any configuration with a Stop that may meet an asynchronous Start.

`TcpClientAttemptProofs` proves, for `OverlappingCalls = FALSE` and `MaxSends = 0`
(the run `TcpClient_stop` has both) and any number of calls, retries and endpoints,

- `AttemptAssertions`: `Spec => []AssertionsHold`, the assertions of `DoneConnect`
  and of `PostDisconnect`,
- `AttemptsNeverOverlap`: `Spec => []OneOpPerKind`,
- `ConnectedIsToldOnce`: `Spec => ConnectNotifiedOnce`, an action property.

All three say that attempts to connect never overlap. None is inductive; the
invariant is `Chain`, together with `ClientInv` of the module before. An attempt
is always in one place: in a call of Start, in `Resolve` or the completion of a
resolve or connect on the strand or on the way there, in one of these operations, in
the event of a reconnection, or inside `DoneConnect`; a connection that is read takes
the same place. `Count` adds them up, `Bound(c, n, m)` says that there are at most
`n` with the reading and `m` without. The parts of `Chain`:

- `Room`: while a call of Start or `DoneConnect` carries the attempt (`Busy`), there
  is none elsewhere; else there is at most one, and none but the reading while Started;
- `QuietStopped`, `QuietStopping`: a client on its way down, or down, has no attempt,
  so that the next may begin; the exception is a call of Stop, which exchanges the
  state under an attempt that goes on. It ends when the call ends, because the pool
  is drained by then (`StopEnds`, `NothingLeft`). Until then nothing may begin:
  Start does not, because calls do not overlap, and the reconnect timer does not,
  because it was stopped;
- `TimerStopsFirst` is why it was: the disconnect of a Stop is on the strand
  behind the task that stops the timer (`Clear`, `Behind`);
- `UpAgrees`: while the listener believes itself connected no other attempt is
  made, and no disconnect on its way will forget to tell it; `EndAgrees`: the
  error code inside `DoneConnect` agrees with the state;
- `OneCaller`, `PoolAgrees`, `NoSends`: what the calls and the pool are up to.

The lemmas `BoundPost`, `BoundLaunch`, `BoundAbort`, `BoundNext`, ... say how each
operator moves an attempt from one place to the next; cancelling moves it to
`ready` and never doubles it. Most steps leave the count alone (`Idling`), so each
part of `Chain` has to look at eight kinds of step (`Cases`). Both assumptions are needed:
with overlapping calls, or with one send in the constants of `TcpClient_stop`, TLC
finds `AssertionsHold` and `ConnectNotifiedOnce` violated, and with the send
`OneOpPerKind`, too. A send that waits in `events_` while its connection ends
runs in the next attempt, fails there, and its `DoDisconnect` makes the client
Stopping while the resolve or connect of that attempt goes on: a second attempt may
begin beside it (the late send of the section on `TcpClient`).

The last part of `TcpClientAttemptProofs` proves, for `OverlappingCalls = FALSE`,
`ReconnectEnabled = FALSE` and `SyncStart \subseteq {TRUE}` (the run
`TcpClient_send` has all three) and any number of calls, sends and endpoints,

- `StopIsComplete`: `Spec => []StopLeavesStopped`,
- `StopIsClean`: `Spec => []StopLeavesNoWork`.

Both speak of a pool that is down, and `run()` of the pool returns when no operation
and no handler is left. So the proof has to say of every state of the client what keeps
`run()` busy. `Places(io, k)` counts where an operation of kind `k` is: pending,
ended, or about to be launched by a task; `Keeps` and `Grows` say how a step moves it.
The invariant is `StopInv`, that is `ClientInv` and the parts of `StopChain`:

- `NoOther`, `TimerWaited`, `Turns`: only a blocking Start begins an attempt, and its
  timeout timer is somewhere only while it waits for its promise. So nothing closes
  the socket of an attempt that has succeeded (`TimeoutServesWait`);
- `StartingTries`, `StartingOpen`: while Starting an attempt is somewhere, and its
  socket is open unless the timeout gave it up;
- `StartedReads`: a client that became Started behind the first
  `compare_exchange` of a Stop has an open socket and reads from it. That is the state
  of finding 1, and the reason why it ends in a Stop that hangs and never in a
  Stop that returns with the client Started;
- `ToldStarted`: the listener believes itself connected until the disconnect of
  that connection has run;
- `PoolServes`, `PoolDown`: what the calls and the pool are up to, and the two
  properties themselves, from the moment `run()` has returned (`NothingIsLeft`).

The assumptions cannot be dropped. With an asynchronous Start, or in a reconnection,
the late timeout of finding 2 closes the socket of a Started client, and with automatic
reconnection the timer may fire behind Stop (see the known behaviours): TLC
finds both properties violated after one Start and one Stop.

`UserTimerProofs` proves

- `NoTimerIsLost`: `Spec => []UnregisteredHasExited`,
- `RegisteredStaysArmed`: `Spec => []RegisteredIsArmed`.

Both follow from `TimerInv`: the record is well typed and map and objects agree
(`Sound`: a registered object has the key it is registered under and has not
exited, one that is not registered has), the strand holds well-formed tasks
about objects that exist, and each registered object waits, has an ended wait in
`ready`, or is in transit on the strand (`Armed`). The last part is what makes
it inductive: a handler takes an object out of transit and must arm it or stop it. The
lemmas say of each operator what it keeps (`Keeps`: keys, objects and whatever
waits), so the handler that runs `AfterTask` after a task that stopped anything
is covered by composing them. That `Chains(o) > 0` follows needs the
cardinality of finite sets only at the end (`PendingIsCounted`).

and, in its second part,

- `CyclesAreKept`: `Spec => []AtMostCycleRuns`.

The property needs to know that an object started once is never in two places:
`Once` says that a wait, an ended wait and a task on the strand exclude each
other and are unique, and `Counts` that runs made plus runs left
do not exceed the cycle while one is pending. `CycleInv` says both of every object that
was started once. Operations that arm nothing are `Tame`: they move an object at most
from waiting to `ready`, and tame steps keep the invariant (`TameOrderly`), so that only
`Deliver`, a first start and `AfterTask` need an argument of their own.

The third part proves, if every cycle is at most `RunCap`,

- `TimersRunOut`: `Spec => LeavesAfterItsCycles`.

`RunCap` is where `hist` stops counting runs; with a longer cycle the property
would ask for a count that the history cannot show. The run has that
relation too, so nothing it checks is lost. The invariant is `LastInv`: for an object
started once, never stopped and alone under its key (`Alone`) that has not exited,

- no aborted end of a wait is on its way to its handler (`Aborted`). `HandleUserTimers`
  would stop the timer for it, whatever cycles are left; only a restart or a stop of
  its own key aborts its wait;
- the runs made and the cycles left reach the cycle asked for (`AddsUp`), and a timer
  without a cycle still has none;
- every cycle on the strand and in the history can be counted (`Countable`).

`Spares` and `Lasts` say that an operation on another key leaves all of this alone. A
task may itself stop timers, so the case that matters is the handler after such a
task: `TimerLasts` shows that a timer nobody stopped exits there only as the timer
whose task ran, in its last cycle.

`TcpServerProofs` proves

- `ServerTypes`: `Spec => []TypeOK`,
- `WalkFindsAll`: `Spec => []StopReachesEverySession`,
- `StoppedMeansEmpty`: `Spec => []StoppedServerHasNoSession`,
- `TornDownIsDead`: `Spec => []TornDownSessionIsDead`,
- `PoolEndsEmpty`: `Spec => []NothingLeftBehind`,
- `TimeoutSparesStarted`: `Spec => ConnectedIsNotTimedOut`, an action property,
- `ServerAssertions`: `Spec => []AssertionsHold`, for `EarlyStop = FALSE`.

They are all the safety properties of the run, for any number of sessions, io
threads, Starts and calls; all but the last also hold for `EarlyStop = TRUE`, which
the run leaves out. The last one is false there (see Bounds of `TcpServer`).

One inductive invariant, `Inv`, carries them. For each session it has four parts,
written about a record of sessions and strands (`Here`, or what a handler makes
of it) so that a lemma on an operator speaks of any intermediate state:

- `Leaving`: while the session is Stopping exactly one disconnect is queued, in
  its event queue or as a task on the way there, and one more as long as its tear-down is
  posted; a disconnect in front has exactly one task (`Event`, `Erase` or
  `Teardown`, on the session's strand or the server's), a send in front has its
  write. Nothing that arms a timer comes behind the tear-down.
- `Life`: how state, socket, entry in the manager, copy of the counter and what
  the listener heard go together; a Starting session is in the hands of
  `HandleAccept`, a Started one of `HandleAccept` or the manager.
- `Timeout`: the connect timeout is armed at most once, by the task or by its
  operation, and `connect_timeout_timer_canceled_` is set before the session is Started.
- `Undisturbed`, without early stops: nothing happens to a Starting session.

For the server, `Counted` relates the copies of the counter to the stop and
the final stop on the strand (there is one final stop exactly when the last copy is gone),
`Walked` says that the walk has still to come to every session that is not on its
way down, `Kept` that `counter_timer_` is pending until the final stop,
`Accepts` that nothing is accepted behind a stop, and `Pooled` that a thread
that has ended has left an empty strand. `NothingLeftBehind` needs them all: the pool
runs dry only when the final stop has run, which waits for the last counter,
which waits for the last tear-down.

Tasks are counted (`Count`, `On`, `Srv`): "there is one" is not inductive, "the
number is" is. The general lemmas say how a count changes when a task is
appended or taken, that what comes before what is kept (`Before`), and what each
operator of the model does to the balance of one session (`RunFrontOK`,
`EnqueueBalance`, `NextBalance`, `DisconnectOK`). An action lemma then only
has to say which session it touches: all others are unchanged (`SameFor`), and
the server sees no difference (`Unseen`), except for the steps of the server
itself and the tear-down (`DropKeeps`). The action property needs one fact more
about each step, that only the timer's own handler ends the operation
(`ConnKept`).

`AsyncLogProofs` first proves about the pool by itself

- `PoolTypeCorrect`: `PoolSpec => []PoolTypeOK`,
- `PoolWakesUp`: `PoolSpec => []NoLostWakeUp`.

`NoLostWakeUp` is inductive with the types: while someone sleeps, the queue is not
longer than the number of workers that will look at it. Each step changes both
sides by one or turns the premise off; the lemmas count with
`FS_AddElement` and `FS_RemoveElement`.

and builds on it for the log:

- `FlushIsSafe`: `Spec => []FlushFindsThePool`,
- `Refinement`: `Spec => UsesThePool`, the logging module implements `PoolSpec`,
- `LogWakesUp`: `Spec => []NoLostWakeUp`, from the two theorems before, by composition,
- `NoThreadIsLeft`: `Spec => []ShutdownLeavesNoThread`,
- `LogIsFaithful`: `Spec => []WrittenAsLogged`.

The invariant `LogInv` says who holds the pool where: the hub until Shutdown has
reset it, a thread from its lock to its release; while anyone holds it nobody
destroys it, one thread destroys it, and the flusher has ended before the hub
lets go. So a submission finds the pool alive, which is the one thing a step of
the logging module has to show to be a step of the pool. `EndInv` adds that
nobody else holds it, and that a pool nobody holds and nobody is destroying has
been cancelled and joined.

`LogIsFaithful` needs to know where a line is between `logged` and `written`.
`HistInv` says that each line logged has a number, that it is in one place at
most (`OnePlace`: the file, a worker's hands or the queue), and that with a single
worker the file, what the worker holds and, until Shutdown, the lines in the queue
together are the lines logged, in this order (`InOrder`). The lemmas on `Follows` and `Counts` say how
taking and appending moves a line from one place to the next.

`AOIProofs` proves

- `AOIListsAreWhole`: `Spec => []ListsAreWhole`,
- `AOIPassesTellTheOrder`: `Spec => []PassesTellTheOrder`,
- `AOISortedAtRest`: `Spec => []SortedAtRest`, for `"x" \in SinksOn`,
- `AOIRemovalIsTold`: `Spec => RemovalIsTold`, an action property.

They are all the properties of the run, for any nodes, axes, coordinates and calls,
and in every state of a call, so also when the application is called back. The
proof numbers the nodes of a list: `Lined(l, L, k, p)` says that `p` numbers the
nodes of `L` from 1 to `k` and that the links lead from each number to the
next and back. Inserting adds one to all numbers (`PushedNumbers`), a pass
swaps two that are neighbours (`SwappedNumbers`), removing closes a gap
(`ClosedNumbers`); a lemma on each of the operators of the model says that the
result is again lined. What the nodes were told (`Known`) is then a fact about
the numbers: exactly the two nodes of a pass change their order, and both are told. The
properties speak of `Walk`, which follows `next_` from `first_`; that it visits
the nodes by their numbers is shown by taking the least number at which it would
not (`LeastNat`, from the well-foundedness of the natural numbers).

The invariant is `AOIInv`; TLC has checked it on the instance of the run. Besides
the types it says

- `Caller`, `AtRest`: the node of a call is linked and marked as the call
  requires; all others rest at the place their coordinate names, and have one
  greater than that of a node being removed;
- `LetGo`, `ReleasedOnce`: a node that left has no links, and was deleted
  once if at all;
- `Whole`: `size_` counts the nodes, and each axis has a numbering that is
  `Lined`, `Known` and, in `Phase`, sorted as far as the call has come. All nodes but
  that of the call are always sorted; its own is in place where it need not move and
  on the axes the call is done with, and while the call goes on nothing ahead of the
  node should be behind it;
- `Leaving`: the destructor has the rest of the x axis still to delete, in order.

`SortedAtRest` needs the assumption on `SinksOn` because `OnRemove` lowers `x_`
whether or not the subclass's `GetExtX` follows; the other three theorems do not.

`SkipListProofs` proves about the order

- `RankTypesOrder`: for each rank type `CompUaks` is asymmetric and transitive, and
  total on entries of different uids, whatever the scores.

A rank type has one to three keys, so "the first key that differs" is found by
cases instead of induction. And about the list:

- `ListStaysWhole`: `Spec => []SkipInv`, the inductive invariant,
- `SpansStayDistances`: `Spec => []SpansAreDistances`,
- `LevelsStayLinked`: `Spec => []LevelsAndBackAgree`,
- `NoNullIsFollowed`: `Spec => []NoNullFollowed`, for `AskEmpty = FALSE`,
- `SkipListIsRanking`: `Spec => ImplementsRanking`, for a type that is documented as it
  sorts (`Documented[Type] = TransformRankType[Type]`: all but the one of the finding).

`SkipInv` says that the nodes can be numbered, the header as 0, such that the list
is `Whole`: its levels have the heights they should (`Shaped`), the numbers are
`0..length` and each is used once (`Numbers`), the entries are in order
(`Sorted`), each link leads to the next node of its level and spans the
difference of the numbers (`Leveled`), and `backward_` and `tail_` lead back
(`Returning`). The invariants of the run are not inductive: a search adds spans, so
where it ends depends on all of this at once. TLC has checked `SkipInv` on the
instance of the run.

The core is `SearchIs`: if the condition of a search holds of exactly the first `t`
nodes (`Cuts`), the search leaves every level at its last node with a number up to
`t`. The loop along a level is a function of the number of steps; that it has
arrived after at most as many steps as there are uids is shown by the least number
of steps that had not come far enough. Then `InsertIs` and `RemoveIs` write the
result of an operation in terms of `Last` alone, and for each part of `Whole` a lemma
says that the new numbers have it: a new node moves those behind it up by one
(`Widened`), a deletion moves them back (`Narrowed`). `WalkIs` says that the walk
of the properties meets the nodes by their numbers, `NodeByRankIs` that
`GetNodeByRank` returns the node of that number, `RankIs` the converse, and
`RangeIs` that `GetRangeWithFlag` visits the numbers of the range in either
direction, so it never leaves the list.

The refinement maps the list to the entries in the order of the walk (`Ranked`).
Since a whole list is always arranged (`RankedArranged`, for `ComesBefore` says that
the order of `Ranking` is that of `CompUaks`), an update or a deletion has only to show
which entries are on the list afterwards (`EntriesOfInsert`, `EntriesOfDeleted`). For the
answers there is one lemma each (`RankAnswers`, `UidAnswers`, `RangeAnswers`). A range of an
empty list is no answer but the crash of `NoNullFollowed` (`EmptyRange`), so the theorem
does not need `AskEmpty = FALSE`.

Every invariant and every action property of the passing runs is stated by a theorem;
some under narrower assumptions than one of the runs, which then says more on its instance
(`AssertionsHold`, `OneOpPerKind`). Only model-checked is everything under fairness:
`Reconnects`, `StartReturns`, `AttemptEnds`, `StopReturnsIfPeerReads`,
`StoppedComesToRest`, `StopReturns` of the server and `ShutdownReturns`. Liveness and
`ENABLED` are outside what the prover does.

## What is left

Not modelled, and why:

- *Coordinate system* (`server/cell`). The lists of the AOI once more; the cell
  server inserts three entities and ends, and nothing calls `Update` or
  `Remove`. Reading it showed `ResetOldRealXYZ` without effect
  (`coordinate_node.cpp:90`), an inverted test in `DelWatcherNode`
  (`entity_coordinate_node.cpp:137`), and `dels_` entries that dangle when an
  entity is destroyed after `Remove` (`coordinate_system.cpp:140`).
- *Delayed posts* of `PostWrap`: nothing calls the overloads with a delay, and an
  instance would not compile (`post_wrap.h:89` calls `expires_after` on the
  `unique_ptr`), so the `StopAllPostedTasks` of client, server and session walk a
  set that is always empty.
- *Match conditions* of `ConditionWrap`: they split a byte stream.
- *`LinkedList`, `MPSCQueue`*: nothing under `src/` uses them. The circular queue
  holds the names of the daily files.
- *File appenders, formatting, configuration, tables, server programs*: input,
  output and wording. With `log_daily_file_max` 1 a rotation later than midnight
  deletes the file it has just opened (`appender_daily_file.cpp:137`).
- *`ByteBuffer`, `MessageBuffer`*: cursors over bytes, sequential and without
  callers that interleave.
- *Generated and vendored code*: most lines of the repository are protobuf output
  (`*.pb.cc`, `*.pb.h`, three copies) and the vendored xlsx library under
  `tools/xlsx2data`. They hold no logic of the framework, so the models cover a
  small share of all lines and most of the lines that order events.
