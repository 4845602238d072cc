-------------------------- MODULE TcpClientProofs --------------------------
(***************************************************************************)
(* TLAPS proofs about TcpClient: its type invariant, and that the          *)
(* EventQueue runs one event at a time and never stalls (OneEventAtATime). *)
(*                                                                         *)
(* The guard of the event in front of the queue moves between the strand,  *)
(* the completions queued on the io_context, a pending async_write and the *)
(* io thread itself.  The proof counts it: Alone says how many guards      *)
(* there are, and every operator on the io record has a lemma that says    *)
(* what it does to the count.                                              *)
(***************************************************************************)
EXTENDS TcpClient, TLAPS

USE DEF ErrorCode, NetState

LEMMA SeqFacts ==
  ASSUME NEW S, NEW s \in Seq(S), NEW x \in S
  PROVE  /\ Append(s, x) \in Seq(S)
         /\ Append(s, x) # <<>>
         /\ s # <<>> => Head(s) \in S /\ Tail(s) \in Seq(S)
         /\ Len(s) > 1 => Tail(s) \in Seq(S) /\ Tail(s) # <<>>
<1>1. Append(s, x) \in Seq(S)
  OBVIOUS
<1>2. Append(s, x) # <<>>
  <2>1. Len(Append(s, x)) = Len(s) + 1 /\ Len(s) \in Nat
    OBVIOUS
  <2> QED
    BY <2>1
<1>3. s # <<>> => Head(s) \in S /\ Tail(s) \in Seq(S)
  OBVIOUS
<1>4. ASSUME Len(s) > 1
      PROVE  Tail(s) \in Seq(S) /\ Tail(s) # <<>>
  <2> DEFINE u == Tail(s)
  <2>1. s # <<>>
    BY <1>4
  <2>2. u \in Seq(S)
    BY <1>3, <2>1
  <2>3. Len(u) = Len(s) - 1 /\ Len(s) \in Nat
    BY <2>1
  <2> HIDE DEF u
  <2>4. Len(u) > 0
    BY <1>4, <2>3
  <2>5. u # <<>>
    BY <2>2, <2>4
  <2> QED
    BY <2>2, <2>5 DEF u
<1> QED
  BY <1>1, <1>2, <1>3, <1>4

LEMMA PostType ==
  ASSUME NEW c \in Io, NEW task \in Task
  PROVE  Post(c, task) \in Io
<1>1. Append(c.strand, task) \in Seq(Task)
  BY DEF Io
<1> QED
  BY <1>1 DEF Post, Io

LEMMA ReadyType ==
  ASSUME NEW c \in Io, NEW k \in OpKind, NEW ec \in ErrorCode
  PROVE  [c EXCEPT !.ready = Append(@, Done(k, ec))] \in Io
<1>1. Done(k, ec) \in Completion
  BY DEF Done, Completion
<1>2. Append(c.ready, Done(k, ec)) \in Seq(Completion)
  BY <1>1 DEF Io
<1> QED
  BY <1>2 DEF Io

LEMMA OpsType ==
  ASSUME NEW c \in Io, NEW k \in OpKind, NEW n \in Nat
  PROVE  [c EXCEPT !.ops[k] = n] \in Io
<1>1. [c.ops EXCEPT ![k] = n] \in [OpKind -> Nat]
  BY DEF Io
<1> QED
  BY <1>1 DEF Io

LEMMA LaunchType ==
  ASSUME NEW c \in Io, NEW k \in OpKind
  PROVE  Launch(c, k) \in Io
<1>1. c.ops[k] + 1 \in Nat
  BY DEF Io
<1> QED
  BY <1>1, OpsType DEF Launch

LEMMA FinishType ==
  ASSUME NEW c \in Io, NEW k \in OpKind, NEW ec \in ErrorCode, c.ops[k] > 0
  PROVE  Finish(c, k, ec) \in Io
<1> DEFINE d == [c EXCEPT !.ops[k] = c.ops[k] - 1]
<1>1. c.ops[k] - 1 \in Nat
  BY DEF Io
<1>2. d \in Io
  BY <1>1, OpsType
<1>3. Finish(c, k, ec) = [d EXCEPT !.ready = Append(@, Done(k, ec))]
  BY DEF Finish, Io
<1> HIDE DEF d
<1>4. [d EXCEPT !.ready = Append(@, Done(k, ec))] \in Io
  BY <1>2, ReadyType
<1> QED
  BY <1>3, <1>4

LEMMA AbortType ==
  ASSUME NEW c \in Io, NEW k \in OpKind
  PROVE  Abort(c, k) \in Io
<1> DEFINE s == [i \in 1..c.ops[k] |-> Done(k, "aborted")]
           d == [c EXCEPT !.ops[k] = 0]
<1>1. c.ops[k] \in Nat
  BY DEF Io
<1>2. Done(k, "aborted") \in Completion
  BY DEF Done, Completion
<1>3. s \in Seq(Completion)
  BY <1>1, <1>2
<1>4. c.ready \o s \in Seq(Completion)
  BY <1>3 DEF Io
<1>5. d \in Io
  BY OpsType
<1>6. Abort(c, k) = [d EXCEPT !.ready = c.ready \o s]
  BY DEF Abort, Io
<1> QED
  BY <1>4, <1>5, <1>6 DEF Io

LEMMA CloseType ==
  ASSUME NEW c \in Io
  PROVE  /\ CloseSocket(c) \in Io
         /\ CancelConnectTimer(c) \in Io
         /\ CancelReconnectTimer(c) \in Io
<1> "connect" \in OpKind /\ "recv" \in OpKind /\ "send" \in OpKind
    /\ "timeout" \in OpKind /\ "timeoutSync" \in OpKind
    /\ "wakeWait" \in OpKind /\ "retryWait" \in OpKind
  BY DEF OpKind, ConnectTimer, ReconnectTimer
<1>1. Abort(Abort(Abort(c, "connect"), "recv"), "send") \in Io
  BY AbortType
<1>2. CloseSocket(c) \in Io
  BY <1>1 DEF CloseSocket, Io
<1> QED
  BY <1>2, AbortType DEF CancelConnectTimer, CancelReconnectTimer

LEMMA RunFrontType ==
  ASSUME NEW c \in Io, c.events # <<>>
  PROVE  RunFront(c) \in Io
<1> DEFINE e == Head(c.events)
<1>1. e \in Event
  BY DEF Io
<1>2. [t |-> "Event", ev |-> e] \in Task
  BY <1>1 DEF Task
<1>3. "send" \in OpKind
  BY DEF OpKind
<1>4. [c EXCEPT !.ready = Append(@, Done("send", "error"))] \in Io
  BY <1>3, ReadyType
<1> QED
  BY <1>2, <1>3, <1>4, PostType, LaunchType DEF RunFront

LEMMA EventEnqueueType ==
  ASSUME NEW c \in Io, NEW e \in Event
  PROVE  /\ EventEnqueue(c, e) \in Io
         /\ EventEnqueueFromOutside(c, e) \in Io
<1> DEFINE d == [c EXCEPT !.events = Append(@, e)]
<1>1. d \in Io /\ d.events # <<>>
  <2>1. Append(c.events, e) \in Seq(Event) /\ Append(c.events, e) # <<>>
    BY SeqFacts DEF Io
  <2>2. d \in Io
    BY <2>1 DEF Io
  <2> QED
    BY <2>1, <2>2 DEF Io
<1>2. EventEnqueue(c, e) \in Io
  BY <1>1, RunFrontType DEF EventEnqueue
<1>3. [t |-> "Enqueue", ev |-> e] \in Task
  BY DEF Task
<1> QED
  BY <1>2, <1>3, PostType DEF EventEnqueueFromOutside

LEMMA NextEventType ==
  ASSUME NEW c \in Io
  PROVE  NextEvent(c) \in Io
<1> DEFINE d == [c EXCEPT !.events = Tail(@)]
<1>1. CASE Len(c.events) <= 1
  <2>1. <<>> \in Seq(Event)
    OBVIOUS
  <2> QED
    BY <1>1, <2>1 DEF NextEvent, Io
<1>2. CASE ~(Len(c.events) <= 1)
  <2>1. c.events \in Seq(Event)
    BY DEF Io
  <2>2. c.events # <<>> /\ Len(c.events) > 1
    BY <1>2, <2>1
  <2> Head(c.events) \in Event
    BY <2>1, <2>2
  <2>3. Tail(c.events) \in Seq(Event) /\ Tail(c.events) # <<>>
    BY <2>1, <2>2, SeqFacts
  <2>4. d \in Io
    BY <2>3 DEF Io
  <2>5. d.events # <<>>
    BY <2>3 DEF Io
  <2> QED
    BY <1>2, <2>4, <2>5, RunFrontType DEF NextEvent
<1> QED
  BY <1>1, <1>2

-----------------------------------------------------------------------------
LEMMA TaskFields ==
  ASSUME NEW task \in Task
  PROVE  /\ task.t \in {"Event", "Enqueue"} => task.ev \in Event
         /\ task.t = "Done" => task.op \in OpKind /\ task.ec \in ErrorCode
<1>1. CASE task \in [t : {"StopReconnectTimer", "Resolve", "StartRecv"}]
  BY <1>1
<1>2. CASE task \in [t : {"ArmTimeout"}, sync : BOOLEAN]
  BY <1>2
<1>3. CASE task \in [t : {"Enqueue", "Event"}, ev : Event]
  BY <1>3
<1>4. CASE task \in Completion
  BY <1>4 DEF Completion
<1> QED
  BY <1>1, <1>2, <1>3, <1>4 DEF Task

LEMMA StrandType ==
  ASSUME io \in Io, OnStrand
  PROVE  Running \in Task /\ Rest \in Io
<1>1. io.strand \in Seq(Task) /\ io.strand # <<>>
  BY DEF OnStrand, Io
<1>2. Running \in Task
  BY <1>1 DEF Running
<1>3. Tail(io.strand) \in Seq(Task)
  BY <1>1
<1> QED
  BY <1>2, <1>3 DEF Rest, Io

LEMMA EventTypes ==
  /\ \A n \in {"send", "stop", "wake", "reconnect"} : Simple(n) \in Event
  /\ \A o \in {"Started", "Starting"}, d \in {"stop", "wake"} :
       [t |-> "disconnect", old |-> o, defer |-> d] \in Event
BY DEF Event, Simple

LEMMA TaskTypes ==
  /\ \A n \in {"StopReconnectTimer", "Resolve", "StartRecv"} : Simple(n) \in Task
  /\ \A b \in BOOLEAN : [t |-> "ArmTimeout", sync |-> b] \in Task
BY DEF Task, Simple

LEMMA OpTypes ==
  /\ {"resolve", "connect", "recv", "send", "timeout", "timeoutSync",
      "wakeWait", "retryWait"} \subseteq OpKind
  /\ ConnectTimer \subseteq OpKind /\ ReconnectTimer \subseteq OpKind
BY DEF OpKind, ConnectTimer, ReconnectTimer

LEMMA DoDisconnectType ==
  ASSUME TypeOK, NEW c \in Io
  PROVE  DoDisconnect(c) \in Io /\ StateAfterDisconnect \in NetState
BY EventTypes, EventEnqueueType
   DEF DoDisconnect, StateAfterDisconnect, Disconnecting, TypeOK

LEMMA PostRecvType ==
  ASSUME NEW c \in Io
  PROVE  PostRecv(c) \in Io
<1>1. "recv" \in OpKind
  BY OpTypes
<1> QED
  BY <1>1, LaunchType, ReadyType DEF PostRecv

LEMMA BeginDoneType ==
  ASSUME TypeOK, NEW c \in Io, NEW ec \in ErrorCode, NEW inEvent \in BOOLEAN,
         BeginDone(c, ec, inEvent)
  PROVE  io' \in Io /\ state' \in NetState /\ run' \in Run
<1>1. io' \in Io
  BY CloseType DEF BeginDone
<1>2. state' \in NetState
  BY DEF BeginDone, TypeOK
<1>3. run' \in Run
  BY DEF BeginDone, Run
<1> QED
  BY <1>1, <1>2, <1>3

LEMMA PostConnectType ==
  ASSUME TypeOK, NEW c \in Io, NEW i \in Nat \ {0}, PostConnect(c, i)
  PROVE  io' \in Io /\ state' \in NetState /\ run' \in Run /\ iter' \in 1..NEndpoints
<1>1. CASE i > NEndpoints
  <2>1. BeginDone(c, "error", FALSE) /\ iter' = iter
    BY <1>1 DEF PostConnect
  <2> QED
    BY <2>1, BeginDoneType DEF TypeOK
<1>2. CASE ~(i > NEndpoints)
  <2> DEFINE d == [c EXCEPT !.sock = IF @ = "closed" THEN "open" ELSE @]
  <2>1. d \in Io
    BY DEF Io
  <2>2. iter' = i /\ io' = Launch(d, "connect") /\ state' = state /\ run' = run
    BY <1>2 DEF PostConnect
  <2>3. iter' \in 1..NEndpoints
    BY <1>2, <2>2, ClientAssumption
  <2> HIDE DEF d
  <2>4. io' \in Io
    BY <2>1, <2>2, LaunchType, OpTypes
  <2> QED
    BY <2>2, <2>3, <2>4 DEF TypeOK
<1> QED
  BY <1>1, <1>2

-----------------------------------------------------------------------------
LEMMA StartTypes ==
  ASSUME TypeOK
  PROVE  /\ \A sync \in SyncStart : StartCall(sync) => TypeOK'
         /\ StartStep => TypeOK'
<1> USE DEF TypeOK, Api
<1>1. ASSUME NEW sync \in SyncStart, StartCall(sync) PROVE TypeOK'
  <2>1. sync \in BOOLEAN
    BY ClientAssumption
  <2>2. api' \in Api
    BY <1>1, <2>1 DEF StartCall, Api
  <2>3. calls.start + 1 \in Nat
    BY DEF Calls
  <2>4. calls' \in Calls
    BY <1>1, <2>3 DEF StartCall, Calls
  <2> QED
    BY <1>1, <2>2, <2>4 DEF StartCall
<1>2. CASE StartPool
  BY <1>2 DEF StartPool
<1>3. CASE StartLoadReconnectTimer
  <2>1. ArmReconnectTimer(io, "wakeWait") \in Io
    BY CloseType, LaunchType, OpTypes DEF ArmReconnectTimer
  <2> QED
    BY <1>3, <2>1 DEF StartLoadReconnectTimer
<1>4. CASE StartConnect
  <2> DEFINE c == CloseSocket(io)
  <2>1. c \in Io
    BY CloseType
  <2> HIDE DEF c
  <2>2. [c EXCEPT !.sock = "open"] \in Io
    BY <2>1 DEF Io
  <2>3. io' \in Io
    BY <1>4, <2>2 DEF StartConnect, c
  <2> QED
    BY <1>4, <2>3 DEF StartConnect
<1>5. CASE StartPostResolve
  <2>1. io' \in Io
    BY <1>5, PostType, TaskTypes DEF StartPostResolve
  <2> QED
    BY <1>5, <2>1 DEF StartPostResolve
<1>6. CASE StartBindFails
  <2>1. CancelConnectTimer(io) \in Io
    BY CloseType
  <2>2. Disconnecting =>
          [t |-> "disconnect", old |-> state, defer |-> "wake"] \in Event
    BY EventTypes DEF Disconnecting
  <2>3. io' \in Io
    BY <1>6, <2>1, <2>2, EventEnqueueType DEF StartBindFails
  <2>4. state' \in NetState
    BY <1>6 DEF StartBindFails, StateAfterDisconnect
  <2>5. crashed' \in BOOLEAN
    BY <1>6 DEF StartBindFails
  <2> QED
    BY <1>6, <2>3, <2>4, <2>5 DEF StartBindFails
<1>7. CASE StartWait
  BY <1>7 DEF StartWait
<1> QED
  BY <1>1, <1>2, <1>3, <1>4, <1>5, <1>6, <1>7 DEF StartStep

LEMMA StopTypes ==
  ASSUME TypeOK
  PROVE  StopCall \/ StopStep => TypeOK'
<1> USE DEF TypeOK, Api, Calls
<1>1. CASE StopCall
  <2>1. io' \in Io
    BY <1>1, PostType, TaskTypes DEF StopCall
  <2> QED
    BY <1>1, <2>1 DEF StopCall
<1>2. ASSUME NEW expected \in {"Started", "Starting"}, NEW pc,
             NEW onFailure \in {"casStarting", "postStop"},
             StopCas(expected, pc, onFailure)
      PROVE  TypeOK'
  <2>1. [t |-> "disconnect", old |-> expected, defer |-> "stop"] \in Event
    BY EventTypes
  <2>2. io' \in Io
    BY <1>2, <2>1, EventEnqueueType DEF StopCas
  <2> QED
    BY <1>2, <2>2 DEF StopCas
<1>3. CASE StopPostStop
  <2>1. io' \in Io
    BY <1>3, EventTypes, EventEnqueueType DEF StopPostStop
  <2> QED
    BY <1>3, <2>1 DEF StopPostStop
<1>4. CASE StopPool
  BY <1>4 DEF StopPool
<1>5. CASE StopJoin
  BY <1>5 DEF StopJoin
<1> QED
  BY <1>1, <1>2, <1>3, <1>4, <1>5 DEF StopStep, StopCasStarted, StopCasStarting

LEMMA SendTypes ==
  ASSUME TypeOK
  PROVE  SendCall \/ SendPost => TypeOK'
<1> USE DEF TypeOK, Api, Calls
<1>1. CASE SendCall
  BY <1>1 DEF SendCall
<1>2. CASE SendPost
  <2>1. io' \in Io
    BY <1>2, EventTypes, EventEnqueueType DEF SendPost
  <2> QED
    BY <1>2, <2>1 DEF SendPost
<1> QED
  BY <1>1, <1>2

LEMMA NetworkTypes ==
  ASSUME TypeOK
  PROVE  Network => TypeOK'
<1>1. ASSUME NEW k \in OpKind, NEW ec \in ErrorCode, Completes(k, ec)
      PROVE  TypeOK'
  <2> DEFINE c == IF k = "connect" /\ ec = "ok"
                  THEN [io EXCEPT !.sock = "connected"] ELSE io
  <2>1. c \in Io /\ c.ops[k] > 0
    BY <1>1 DEF Completes, TypeOK, Io
  <2>2. io' = Finish(c, k, ec)
    BY <1>1 DEF Completes
  <2> HIDE DEF c
  <2>3. io' \in Io
    BY <2>1, <2>2, FinishType
  <2> QED
    BY <1>1, <2>3 DEF Completes, TypeOK
<1> QED
  BY <1>1, OpTypes
     DEF Network, Resolves, Connects, Receives, Writes, TimerExpires, Expires

\* The handlers that only touch the io record.
LEMMA IoHandlerTypes ==
  ASSUME TypeOK
  PROVE  Deliver \/ HandleEnqueue \/ HandleWakeEvent \/ HandleResolve
           \/ HandleStartRecv \/ RunReturns => TypeOK'
<1> USE DEF TypeOK
<1> io \in Io
  OBVIOUS
<1>1. CASE Deliver
  <2> DEFINE c == [io EXCEPT !.ready = Tail(@)]
  <2>1. io.ready \in Seq(Completion) /\ io.ready # <<>>
    BY <1>1 DEF Deliver, Io
  <2>2. Head(io.ready) \in Task /\ Tail(io.ready) \in Seq(Completion)
    BY <2>1 DEF Task
  <2>3. c \in Io
    BY <2>2 DEF Io
  <2> HIDE DEF c
  <2>4. Post(c, Head(io.ready)) \in Io
    BY <2>2, <2>3, PostType
  <2> QED
    BY <1>1, <2>4 DEF Deliver, c
<1>2. CASE HandleEnqueue
  <2>1. Rest \in Io /\ Running.ev \in Event
    BY <1>2, StrandType, TaskFields DEF HandleEnqueue
  <2>2. io' \in Io
    BY <1>2, <2>1, EventEnqueueType DEF HandleEnqueue
  <2> QED
    BY <1>2, <2>2 DEF HandleEnqueue
<1>3. CASE HandleWakeEvent
  <2>1. Rest \in Io
    BY <1>3, StrandType DEF HandleWakeEvent, RunsEvent
  <2>2. io' \in Io
    BY <1>3, <2>1, CloseType, NextEventType DEF HandleWakeEvent
  <2> QED
    BY <1>3, <2>2 DEF HandleWakeEvent
<1>4. CASE HandleResolve
  <2>1. Rest \in Io
    BY <1>4, StrandType DEF HandleResolve
  <2>2. io' \in Io
    BY <1>4, <2>1, LaunchType, OpTypes DEF HandleResolve
  <2> QED
    BY <1>4, <2>2 DEF HandleResolve
<1>5. CASE HandleStartRecv
  <2>1. Rest \in Io
    BY <1>5, StrandType DEF HandleStartRecv
  <2>2. io' \in Io
    BY <1>5, <2>1, PostRecvType DEF HandleStartRecv
  <2> QED
    BY <1>5, <2>2 DEF HandleStartRecv
<1>6. CASE RunReturns
  BY <1>6 DEF RunReturns
<1> QED
  BY <1>1, <1>2, <1>3, <1>4, <1>5, <1>6

\* The handlers of the two timers and of a stop.
LEMMA TimerHandlerTypes ==
  ASSUME TypeOK
  PROVE  HandleStopEvent \/ HandleStopReconnectTimer \/ HandleArmTimeout
           \/ HandleTimeout \/ HandleReconnectTimer => TypeOK'
<1> USE DEF TypeOK
<1> io \in Io
  OBVIOUS
<1>1. CASE HandleStopEvent
  <2>1. Rest \in Io
    BY <1>1, StrandType DEF HandleStopEvent, RunsEvent
  <2>2. io' \in Io
    BY <1>1, <2>1, CloseType, NextEventType DEF HandleStopEvent
  <2> QED
    BY <1>1, <2>2 DEF HandleStopEvent
<1>2. CASE HandleStopReconnectTimer
  <2>1. Rest \in Io
    BY <1>2, StrandType DEF HandleStopReconnectTimer
  <2>2. io' \in Io
    BY <1>2, <2>1, CloseType DEF HandleStopReconnectTimer
  <2> QED
    BY <1>2, <2>2 DEF HandleStopReconnectTimer
<1>3. CASE HandleArmTimeout
  <2>1. Rest \in Io
    BY <1>3, StrandType DEF HandleArmTimeout
  <2>2. io' \in Io
    BY <1>3, <2>1, CloseType, LaunchType, OpTypes DEF HandleArmTimeout
  <2> QED
    BY <1>3, <2>2 DEF HandleArmTimeout
<1>4. CASE HandleTimeout
  <2>1. Rest \in Io
    BY <1>4, StrandType DEF HandleTimeout, RunsCompletion
  <2>2. io' \in Io
    BY <1>4, <2>1, CloseType DEF HandleTimeout
  <2> QED
    BY <1>4, <2>2 DEF HandleTimeout
<1>5. CASE HandleReconnectTimer
  <2> DEFINE c == IF ReconnectFires
                  THEN EventEnqueue(Rest, Simple("reconnect")) ELSE Rest
  <2>1. Rest \in Io
    BY <1>5, StrandType DEF HandleReconnectTimer, RunsCompletion
  <2>2. c \in Io
    BY <2>1, EventTypes, EventEnqueueType
  <2> HIDE DEF c
  <2>3. /\ ArmReconnectTimer(c, "wakeWait") \in Io
        /\ ArmReconnectTimer(Rest, "retryWait") \in Io
    BY <2>1, <2>2, CloseType, LaunchType, OpTypes DEF ArmReconnectTimer
  <2>4. io' \in Io
    BY <1>5, <2>1, <2>3 DEF HandleReconnectTimer, c
  <2>5. state' \in NetState
    BY <1>5 DEF HandleReconnectTimer
  <2>6. timer' \in [canceled : BOOLEAN, running : BOOLEAN, timedOut : BOOLEAN]
    BY <1>5 DEF HandleReconnectTimer
  <2> QED
    BY <1>5, <2>4, <2>5, <2>6 DEF HandleReconnectTimer
<1> QED
  BY <1>1, <1>2, <1>3, <1>4, <1>5

\* The handlers of the connection and of the data.
LEMMA ConnectionHandlerTypes ==
  ASSUME TypeOK
  PROVE  HandleDisconnectEvent \/ HandleReconnectEvent \/ HandleResolved
           \/ HandleConnected \/ HandleRecv \/ HandleSent => TypeOK'
<1> USE DEF TypeOK
<1> io \in Io
  OBVIOUS
<1>1. CASE HandleDisconnectEvent
  <2>1. Rest \in Io /\ Running.ev \in Event
    BY <1>1, StrandType, TaskFields DEF HandleDisconnectEvent, RunsEvent, OnStrand
  <2>2. Running.ev.t = "disconnect"
    BY <1>1 DEF HandleDisconnectEvent, RunsEvent
  <2>3. Simple(Running.ev.defer) \in Event
    BY <2>1, <2>2, EventTypes DEF Event
  <2>4. io' \in Io
    BY <1>1, <2>1, <2>3, CloseType, EventEnqueueType, NextEventType
       DEF HandleDisconnectEvent
  <2>5. state' \in NetState /\ up' \in BOOLEAN /\ crashed' \in BOOLEAN
    BY <1>1 DEF HandleDisconnectEvent
  <2> QED
    BY <1>1, <2>4, <2>5 DEF HandleDisconnectEvent
<1>2. CASE HandleReconnectEvent
  <2> DEFINE c == CloseSocket(Rest)
             d == [c EXCEPT !.sock = "open"]
             e == Post(Post(d, [t |-> "ArmTimeout", sync |-> FALSE]),
                       Simple("Resolve"))
  <2>1. Rest \in Io
    BY <1>2, StrandType DEF HandleReconnectEvent, RunsEvent
  <2>2. c \in Io
    BY <2>1, CloseType
  <2> HIDE DEF c
  <2>3. d \in Io
    BY <2>2 DEF Io
  <2> HIDE DEF d
  <2>4. NextEvent(Rest) \in Io /\ NextEvent(e) \in Io
    BY <2>1, <2>3, PostType, TaskTypes, NextEventType
  <2>5. io' \in Io /\ state' \in NetState /\ run' \in Run
    <3>1. CASE io' = NextEvent(Rest) /\ UNCHANGED <<state, run>>
      BY <2>4, <3>1
    <3>2. CASE io' = NextEvent(e) /\ UNCHANGED <<state, run>>
      BY <2>4, <3>2
    <3>3. CASE BeginDone(d, "error", TRUE)
      BY <2>3, <3>3, BeginDoneType
    <3> QED
      BY <1>2, <3>1, <3>2, <3>3 DEF HandleReconnectEvent, c, d
  <2> QED
    BY <1>2, <2>5 DEF HandleReconnectEvent
<1>3. CASE HandleResolved
  <2>1. Rest \in Io /\ Running.ec \in ErrorCode
    BY <1>3, StrandType, TaskFields DEF HandleResolved, RunsCompletion
  <2>2. /\ io' \in Io /\ state' \in NetState /\ run' \in Run
        /\ iter' \in 1..NEndpoints
    <3>1. CASE PostConnect(Rest, 1)
      BY <2>1, <3>1, PostConnectType
    <3>2. CASE BeginDone(Rest, Running.ec, FALSE) /\ UNCHANGED iter
      BY <2>1, <3>2, BeginDoneType
    <3> QED
      BY <1>3, <3>1, <3>2 DEF HandleResolved
  <2> QED
    BY <1>3, <2>2 DEF HandleResolved
<1>4. CASE HandleConnected
  <2>1. Rest \in Io /\ Running.ec \in ErrorCode
    BY <1>4, StrandType, TaskFields DEF HandleConnected, RunsCompletion
  <2>2. iter + 1 \in Nat \ {0}
    BY ClientAssumption
  <2>3. /\ io' \in Io /\ state' \in NetState /\ run' \in Run
        /\ iter' \in 1..NEndpoints
    <3>1. CASE PostConnect(Rest, iter + 1)
      BY <2>1, <2>2, <3>1, PostConnectType
    <3>2. CASE BeginDone(Rest, Running.ec, FALSE) /\ UNCHANGED iter
      BY <2>1, <3>2, BeginDoneType
    <3> QED
      BY <1>4, <3>1, <3>2 DEF HandleConnected
  <2> QED
    BY <1>4, <2>3 DEF HandleConnected
<1>5. CASE HandleRecv
  <2>1. Rest \in Io
    BY <1>5, StrandType DEF HandleRecv, RunsCompletion
  <2>2. io' \in Io /\ state' \in NetState
    BY <1>5, <2>1, PostRecvType, DoDisconnectType DEF HandleRecv
  <2> QED
    BY <1>5, <2>2 DEF HandleRecv
<1>6. CASE HandleSent
  <2>1. Rest \in Io
    BY <1>6, StrandType DEF HandleSent, RunsCompletion
  <2>2. io' \in Io /\ state' \in NetState
    BY <1>6, <2>1, NextEventType, DoDisconnectType DEF HandleSent
  <2> QED
    BY <1>6, <2>2 DEF HandleSent
<1> QED
  BY <1>1, <1>2, <1>3, <1>4, <1>5, <1>6

LEMMA DoneTypes ==
  ASSUME TypeOK
  PROVE  DoneNotify \/ DoneFinish => TypeOK'
<1> USE DEF TypeOK
<1>1. CASE DoneNotify
  <2>1. run' \in Run
    BY <1>1 DEF DoneNotify, Run
  <2> QED
    BY <1>1, <2>1 DEF DoneNotify
<1>2. CASE DoneFinish
  <2> DEFINE started == run.ec = "ok" /\ state = "Started"
             c == IF started THEN Post(io, Simple("StartRecv"))
                             ELSE DoDisconnect(io)
  <2>1. c \in Io
    BY PostType, TaskTypes, DoDisconnectType
  <2> HIDE DEF c
  <2>2. io' \in Io
    BY <1>2, <2>1, NextEventType DEF DoneFinish, c
  <2>3. state' \in NetState
    BY <1>2, DoDisconnectType, io \in Io DEF DoneFinish
  <2>4. run' \in Run
    BY <1>2 DEF DoneFinish, Idle, Run
  <2> QED
    BY <1>2, <2>2, <2>3, <2>4 DEF DoneFinish
<1> QED
  BY <1>1, <1>2

-----------------------------------------------------------------------------
LEMMA InitTypes == Init => TypeOK
<1> SUFFICES ASSUME Init PROVE TypeOK
  OBVIOUS
<1>1. io \in Io
  BY DEF Init, Io
<1>2. run \in Run /\ api \in Api /\ calls \in Calls
  BY DEF Init, Idle, Run, Api, Calls
<1>3. iter \in 1..NEndpoints
  BY ClientAssumption DEF Init
<1>4. timer \in [canceled : BOOLEAN, running : BOOLEAN, timedOut : BOOLEAN]
  BY DEF Init
<1> QED
  BY <1>1, <1>2, <1>3, <1>4 DEF Init, TypeOK

\* Every state the client can reach is well typed: in particular an endpoint
\* iterator past the last endpoint is never dereferenced, whatever the calls,
\* their number and the number of endpoints.
THEOREM TypeCorrect == Spec => []TypeOK
<1>1. Init => TypeOK
  BY InitTypes
<1>2. TypeOK /\ [Next]_vars => TypeOK'
  <2> SUFFICES ASSUME TypeOK, [Next]_vars PROVE TypeOK'
    OBVIOUS
  <2>1. CASE UNCHANGED vars
    BY <2>1 DEF vars, TypeOK
  <2>2. CASE Next
    BY <2>2, IoHandlerTypes, TimerHandlerTypes, ConnectionHandlerTypes, DoneTypes,
       StartTypes, StopTypes, SendTypes, NetworkTypes
       DEF Next, IoThreadStep, Application
  <2> QED
    BY <2>1, <2>2
<1> QED
  BY <1>1, <1>2, PTL DEF Spec

-----------------------------------------------------------------------------
(* One event at a time.                                                    *)

\* The guards among the tasks of a sequence, counted up to two.
NoGuard(s) == \A i \in DOMAIN s : ~HoldsGuard(s[i])
OneGuard(s) == \E i \in DOMAIN s :
  /\ HoldsGuard(s[i])
  /\ \A j \in DOMAIN s : HoldsGuard(s[j]) => j = i
Guards(s) == IF NoGuard(s) THEN 0 ELSE IF OneGuard(s) THEN 1 ELSE 2

\* The guards the io record holds.
Held(c) == Guards(c.strand) + Guards(c.ready) + c.ops["send"]

One(b) == IF b THEN 1 ELSE 0

\* The io record, and the handler in progress if inEvent, hold one guard while
\* there are events and none while there are not.
Alone(c, inEvent) ==
  Held(c) + One(inEvent) = IF c.events = <<>> THEN 0 ELSE 1

-----------------------------------------------------------------------------
(* Counting the guards of a sequence.                                      *)

LEMMA GuardsNat == \A s : Guards(s) \in 0..2
BY DEF Guards

LEMMA GuardsEmpty == Guards(<<>>) = 0
BY DEF Guards, NoGuard

LEMMA GuardsConcat ==
  ASSUME NEW S, NEW s \in Seq(S), NEW t \in Seq(S), Guards(s) + Guards(t) <= 1
  PROVE  Guards(s \o t) = Guards(s) + Guards(t)
<1> DEFINE u == s \o t
<1>1. /\ Len(s) \in Nat /\ Len(t) \in Nat
      /\ DOMAIN s = 1..Len(s) /\ DOMAIN t = 1..Len(t)
      /\ DOMAIN u = 1..(Len(s) + Len(t))
      /\ \A i \in DOMAIN s : u[i] = s[i] /\ i \in DOMAIN u
      /\ \A i \in DOMAIN t : u[Len(s) + i] = t[i] /\ Len(s) + i \in DOMAIN u
      /\ \A i \in DOMAIN u : i \in DOMAIN s \/ i - Len(s) \in DOMAIN t
  OBVIOUS
<1> HIDE DEF u
<1>2. \A i \in DOMAIN u : u[i] = s[i] \/ u[i] = t[i - Len(s)]
  BY <1>1
<1>3. CASE NoGuard(s) /\ NoGuard(t)
  <2>1. NoGuard(u)
    BY <1>1, <1>3 DEF NoGuard
  <2> QED
    BY <1>3, <2>1 DEF Guards, u
<1>4. CASE ~NoGuard(s) /\ OneGuard(s) /\ NoGuard(t)
  <2>1. OneGuard(u) /\ ~NoGuard(u)
    BY <1>1, <1>4 DEF NoGuard, OneGuard
  <2> QED
    BY <1>4, <2>1 DEF Guards, u
<1>5. CASE NoGuard(s) /\ ~NoGuard(t) /\ OneGuard(t)
  <2>1. PICK i \in DOMAIN t : /\ HoldsGuard(t[i])
                              /\ \A j \in DOMAIN t : HoldsGuard(t[j]) => j = i
    BY <1>5 DEF OneGuard
  <2>2. Len(s) + i \in DOMAIN u /\ HoldsGuard(u[Len(s) + i])
    BY <1>1, <2>1
  <2>3. \A j \in DOMAIN u : HoldsGuard(u[j]) => j = Len(s) + i
    <3> SUFFICES ASSUME NEW j \in DOMAIN u, HoldsGuard(u[j])
                 PROVE  j = Len(s) + i
      OBVIOUS
    <3>1. j \notin DOMAIN s
      BY <1>1, <1>5 DEF NoGuard
    <3>2. j - Len(s) \in DOMAIN t /\ j \in Nat
      BY <1>1, <3>1
    <3>3. u[j] = t[j - Len(s)]
      BY <1>1, <3>2
    <3> QED
      BY <1>1, <2>1, <3>2, <3>3
  <2>4. OneGuard(u) /\ ~NoGuard(u)
    BY <2>2, <2>3 DEF OneGuard, NoGuard
  <2> QED
    BY <1>5, <2>4 DEF Guards, u
<1> QED
  BY <1>3, <1>4, <1>5 DEF Guards

LEMMA GuardsSingle ==
  \A x : Guards(<<x>>) = One(HoldsGuard(x))
<1> SUFFICES ASSUME NEW x PROVE Guards(<<x>>) = One(HoldsGuard(x))
  OBVIOUS
<1> DEFINE s == <<x>>
<1>1. DOMAIN s = {1} /\ s[1] = x
  OBVIOUS
<1> HIDE DEF s
<1>2. CASE HoldsGuard(x)
  <2>1. ~NoGuard(s) /\ OneGuard(s)
    BY <1>1, <1>2 DEF NoGuard, OneGuard
  <2> QED
    BY <1>2, <2>1 DEF Guards, One, s
<1>3. CASE ~HoldsGuard(x)
  <2>1. NoGuard(s)
    BY <1>1, <1>3 DEF NoGuard
  <2> QED
    BY <1>3, <2>1 DEF Guards, One, s
<1> QED
  BY <1>2, <1>3

LEMMA GuardsAppend ==
  ASSUME NEW S, NEW s \in Seq(S), NEW x \in S, Guards(s) + One(HoldsGuard(x)) <= 1
  PROVE  Guards(Append(s, x)) = Guards(s) + One(HoldsGuard(x))
<1>1. Append(s, x) = s \o <<x>> /\ <<x>> \in Seq(S)
  OBVIOUS
<1> QED
  BY <1>1, GuardsConcat, GuardsSingle

LEMMA GuardsTail ==
  ASSUME NEW S, NEW s \in Seq(S), s # <<>>, Guards(s) <= 1
  PROVE  Guards(Tail(s)) = Guards(s) - One(HoldsGuard(Head(s)))
<1> DEFINE u == Tail(s)
           h == Head(s)
<1>1. /\ Len(s) \in Nat /\ DOMAIN s = 1..Len(s) /\ 1 \in DOMAIN s /\ h = s[1]
      /\ DOMAIN u = 1..(Len(s) - 1)
      /\ \A i \in DOMAIN u : u[i] = s[i + 1] /\ i + 1 \in DOMAIN s /\ i + 1 # 1
  OBVIOUS
<1>2. \A i \in DOMAIN s : i = 1 \/ (i - 1 \in DOMAIN u /\ u[i - 1] = s[i])
  BY <1>1
<1> HIDE DEF u, h
<1>3. CASE NoGuard(s)
  <2>1. NoGuard(u) /\ ~HoldsGuard(h)
    BY <1>1, <1>3 DEF NoGuard
  <2> QED
    BY <1>3, <2>1 DEF Guards, One, u, h
<1>4. CASE ~NoGuard(s) /\ OneGuard(s)
  <2>1. PICK i \in DOMAIN s : /\ HoldsGuard(s[i])
                              /\ \A j \in DOMAIN s : HoldsGuard(s[j]) => j = i
    BY <1>4 DEF OneGuard
  <2>2. CASE HoldsGuard(h)
    <3>1. NoGuard(u)
      BY <1>1, <2>1, <2>2 DEF NoGuard
    <3> QED
      BY <1>4, <2>2, <3>1 DEF Guards, One, u, h
  <2>3. CASE ~HoldsGuard(h)
    <3>1. i # 1
      BY <1>1, <2>1, <2>3
    <3>2. i - 1 \in DOMAIN u /\ HoldsGuard(u[i - 1])
      BY <1>2, <2>1, <3>1
    <3>3. \A j \in DOMAIN u : HoldsGuard(u[j]) => j = i - 1
      BY <1>1, <2>1
    <3>4. ~NoGuard(u) /\ OneGuard(u)
      BY <3>2, <3>3 DEF NoGuard, OneGuard
    <3> QED
      BY <1>4, <2>3, <3>4 DEF Guards, One, u, h
  <2> QED
    BY <2>2, <2>3
<1> QED
  BY <1>3, <1>4 DEF Guards

-----------------------------------------------------------------------------
(* Counting the guards of the io record.                                   *)

LEMMA HeldNat ==
  ASSUME NEW c \in Io
  PROVE  /\ Held(c) \in Nat
         /\ Guards(c.strand) \in Nat /\ Guards(c.ready) \in Nat
         /\ c.ops["send"] \in Nat
         /\ \A b : One(b) \in 0..1
<1>1. c.ops["send"] \in Nat
  BY OpTypes DEF Io
<1>2. Guards(c.strand) \in Nat /\ Guards(c.ready) \in Nat
  BY GuardsNat
<1>3. \A b : One(b) \in 0..1
  BY DEF One
<1> QED
  BY <1>1, <1>2, <1>3 DEF Held

LEMMA PostHeld ==
  ASSUME NEW c \in Io, NEW task \in Task, Held(c) + One(HoldsGuard(task)) <= 1
  PROVE  /\ Held(Post(c, task)) = Held(c) + One(HoldsGuard(task))
         /\ Post(c, task).events = c.events
<1> DEFINE d == Post(c, task)
<1>1. /\ d.strand = Append(c.strand, task) /\ d.ready = c.ready
      /\ d.ops = c.ops /\ d.events = c.events
  BY DEF Post, Io
<1>2. Guards(d.strand) = Guards(c.strand) + One(HoldsGuard(task))
  <2>1. c.strand \in Seq(Task)
    BY DEF Io
  <2>2. Guards(c.strand) + One(HoldsGuard(task)) <= 1
    BY HeldNat DEF Held
  <2> QED
    BY <1>1, <2>1, <2>2, GuardsAppend
<1> HIDE DEF d
<1>3. Held(d) = Held(c) + One(HoldsGuard(task)) /\ d.events = c.events
  BY <1>1, <1>2, HeldNat DEF Held
<1> QED
  BY <1>3 DEF d

LEMMA ReadyHeld ==
  ASSUME NEW c \in Io, NEW k \in OpKind, NEW ec \in ErrorCode,
         Held(c) + One(k = "send") <= 1
  PROVE  LET d == [c EXCEPT !.ready = Append(@, Done(k, ec))]
         IN  Held(d) = Held(c) + One(k = "send") /\ d.events = c.events
<1> DEFINE d == [c EXCEPT !.ready = Append(@, Done(k, ec))]
<1>1. /\ d.strand = c.strand /\ d.ready = Append(c.ready, Done(k, ec))
      /\ d.ops = c.ops /\ d.events = c.events
  BY DEF Io
<1>2. Guards(d.ready) = Guards(c.ready) + One(k = "send")
  <2>1. c.ready \in Seq(Completion)
    BY DEF Io
  <2>2. Done(k, ec) \in Completion
    BY DEF Done, Completion
  <2>3. One(HoldsGuard(Done(k, ec))) = One(k = "send")
    BY DEF HoldsGuard, Done, One
  <2>4. Guards(c.ready) + One(k = "send") <= 1
    BY HeldNat DEF Held
  <2> QED
    BY <1>1, <2>1, <2>2, <2>3, <2>4, GuardsAppend
<1> HIDE DEF d
<1>3. Held(d) = Held(c) + One(k = "send") /\ d.events = c.events
  BY <1>1, <1>2, HeldNat DEF Held
<1> QED
  BY <1>3 DEF d

LEMMA OpsHeld ==
  ASSUME NEW c \in Io, NEW k \in OpKind, NEW n \in Nat
  PROVE  LET d == [c EXCEPT !.ops[k] = n]
         IN  /\ Held(d) = Held(c) + (IF k = "send" THEN n - c.ops[k] ELSE 0)
             /\ d.events = c.events
<1> DEFINE d == [c EXCEPT !.ops[k] = n]
<1>1. d.strand = c.strand /\ d.ready = c.ready /\ d.events = c.events
  BY DEF Io
<1>2. d.ops["send"] = IF k = "send" THEN n ELSE c.ops["send"]
  BY OpTypes DEF Io
<1> HIDE DEF d
<1>3. /\ Held(d) = Held(c) + (IF k = "send" THEN n - c.ops[k] ELSE 0)
      /\ d.events = c.events
  BY <1>1, <1>2, HeldNat DEF Held
<1> QED
  BY <1>3 DEF d

LEMMA LaunchHeld ==
  ASSUME NEW c \in Io, NEW k \in OpKind
  PROVE  /\ Held(Launch(c, k)) = Held(c) + One(k = "send")
         /\ Launch(c, k).events = c.events
<1> DEFINE n == c.ops[k] + 1
<1>1. c.ops[k] \in Nat /\ n \in Nat /\ Held(c) \in Nat
  BY HeldNat DEF Io
<1>2. n - c.ops[k] = 1 /\ Launch(c, k) = [c EXCEPT !.ops[k] = n]
  BY <1>1 DEF Launch
<1> HIDE DEF n
<1>3. LET d == [c EXCEPT !.ops[k] = n]
      IN  /\ Held(d) = Held(c) + (IF k = "send" THEN n - c.ops[k] ELSE 0)
          /\ d.events = c.events
  BY <1>1, OpsHeld
<1> QED
  BY <1>1, <1>2, <1>3 DEF One

LEMMA FinishHeld ==
  ASSUME NEW c \in Io, NEW k \in OpKind, NEW ec \in ErrorCode, c.ops[k] > 0,
         Held(c) <= 1
  PROVE  /\ Held(Finish(c, k, ec)) = Held(c)
         /\ Finish(c, k, ec).events = c.events
<1> DEFINE d == [c EXCEPT !.ops[k] = c.ops[k] - 1]
<1>1. c.ops[k] - 1 \in Nat /\ c.ops[k] \in Nat /\ Held(c) \in Nat
  BY HeldNat DEF Io
<1>2. d \in Io
  BY <1>1, OpsType
<1>3. Finish(c, k, ec) = [d EXCEPT !.ready = Append(@, Done(k, ec))]
  BY DEF Finish, Io
<1>4. Held(d) = Held(c) - One(k = "send") /\ d.events = c.events
  BY <1>1, OpsHeld DEF One
<1> HIDE DEF d
<1>5. Held(d) + One(k = "send") <= 1
  BY <1>1, <1>4, HeldNat
<1>6. LET e == [d EXCEPT !.ready = Append(@, Done(k, ec))]
      IN  Held(e) = Held(d) + One(k = "send") /\ e.events = d.events
  BY <1>2, <1>5, ReadyHeld
<1> QED
  BY <1>1, <1>3, <1>4, <1>6, HeldNat

LEMMA AbortHeld ==
  ASSUME NEW c \in Io, NEW k \in OpKind, Held(c) <= 1
  PROVE  /\ Held(Abort(c, k)) = Held(c)
         /\ Abort(c, k).events = c.events
<1> DEFINE s == [i \in 1..c.ops[k] |-> Done(k, "aborted")]
           a == Abort(c, k)
<1>1. c.ops[k] \in Nat
  BY DEF Io
<1>2. Done(k, "aborted") \in Completion
  BY DEF Done, Completion
<1>3. s \in Seq(Completion)
  BY <1>1, <1>2
<1>4. /\ a.strand = c.strand /\ a.ready = c.ready \o s /\ a.events = c.events
      /\ a.ops["send"] = IF k = "send" THEN 0 ELSE c.ops["send"]
  BY OpTypes DEF Abort, Io
<1>5. HoldsGuard(Done(k, "aborted")) <=> k = "send"
  BY DEF HoldsGuard, Done
<1>6. Guards(s) = IF k = "send" THEN c.ops["send"] ELSE 0
  <2>1. DOMAIN s = 1..c.ops[k] /\ \A i \in DOMAIN s : s[i] = Done(k, "aborted")
    OBVIOUS
  <2> HIDE DEF s
  <2>2. CASE k # "send" \/ c.ops[k] = 0
    <3>1. NoGuard(s)
      BY <1>5, <2>1, <2>2 DEF NoGuard
    <3> QED
      BY <2>2, <3>1 DEF Guards
  <2>3. CASE k = "send" /\ c.ops[k] = 1
    <3>1. DOMAIN s = {1} /\ HoldsGuard(s[1])
      BY <1>5, <2>1, <2>3
    <3>2. OneGuard(s) /\ ~NoGuard(s)
      BY <3>1 DEF OneGuard, NoGuard
    <3> QED
      BY <2>3, <3>2 DEF Guards
  <2>4. k = "send" => c.ops[k] \in 0..1
    <3> SUFFICES ASSUME k = "send" PROVE c.ops["send"] \in 0..1
      OBVIOUS
    <3> QED
      BY HeldNat DEF Held
  <2> QED
    BY <2>2, <2>3, <2>4
<1> HIDE DEF s, a
<1>7. Guards(c.ready \o s) = Guards(c.ready) + Guards(s)
  <2>1. Guards(c.ready) + Guards(s) <= 1
    BY <1>6, HeldNat DEF Held
  <2>2. c.ready \in Seq(Completion)
    BY DEF Io
  <2> QED
    BY <1>3, <2>1, <2>2, GuardsConcat
<1>8. Held(a) = Held(c) /\ a.events = c.events
  BY <1>4, <1>6, <1>7, HeldNat DEF Held
<1> QED
  BY <1>8 DEF a

LEMMA SockHeld ==
  ASSUME NEW c \in Io, NEW x \in {"closed", "open", "connected"}
  PROVE  LET d == [c EXCEPT !.sock = x]
         IN  d \in Io /\ Held(d) = Held(c) /\ d.events = c.events
BY DEF Io, Held

LEMMA CloseHeld ==
  ASSUME NEW c \in Io, Held(c) <= 1
  PROVE  /\ Held(CloseSocket(c)) = Held(c)
         /\ CloseSocket(c).events = c.events
         /\ Held(CancelConnectTimer(c)) = Held(c)
         /\ CancelConnectTimer(c).events = c.events
         /\ Held(CancelReconnectTimer(c)) = Held(c)
         /\ CancelReconnectTimer(c).events = c.events
<1>1. ASSUME NEW j \in OpKind, NEW k \in OpKind
      PROVE  /\ Abort(Abort(c, j), k) \in Io
             /\ Held(Abort(Abort(c, j), k)) = Held(c)
             /\ Abort(Abort(c, j), k).events = c.events
  BY AbortType, AbortHeld
<1> DEFINE d == Abort(Abort(c, "connect"), "recv")
           e == Abort(d, "send")
<1>2. d \in Io /\ Held(d) = Held(c) /\ d.events = c.events
  BY <1>1, OpTypes
<1> HIDE DEF d
<1>3. e \in Io /\ Held(e) = Held(c) /\ e.events = c.events
  BY <1>2, OpTypes, AbortType, AbortHeld
<1>4. CloseSocket(c) = [e EXCEPT !.sock = "closed"]
  BY DEF CloseSocket, d
<1> HIDE DEF e
<1>5. Held(CloseSocket(c)) = Held(c) /\ CloseSocket(c).events = c.events
  BY <1>3, <1>4, SockHeld
<1> QED
  BY <1>1, <1>5, OpTypes DEF CancelConnectTimer, CancelReconnectTimer

-----------------------------------------------------------------------------
(* The event queue: enqueueing keeps the guard alone, the next event takes *)
(* over the guard of the finished one.                                     *)

LEMMA AloneFacts ==
  ASSUME NEW c \in Io, NEW b \in BOOLEAN, Alone(c, b)
  PROVE  /\ Held(c) <= 1
         /\ b => c.events # <<>> /\ Held(c) = 0
         /\ c.events = <<>> => ~b /\ Held(c) = 0
<1>1. Held(c) \in Nat
  BY HeldNat
<1> QED
  BY <1>1 DEF Alone, One

LEMMA AloneKept ==
  ASSUME NEW c \in Io, NEW d \in Io, NEW b \in BOOLEAN,
         Alone(c, b), Held(d) = Held(c), d.events = c.events
  PROVE  Alone(d, b)
BY DEF Alone

LEMMA AlonePost ==
  ASSUME NEW c \in Io, NEW b \in BOOLEAN, Alone(c, b),
         NEW task \in Task, ~HoldsGuard(task)
  PROVE  Alone(Post(c, task), b)
<1>1. Held(c) \in Nat /\ Held(c) <= 1 /\ One(HoldsGuard(task)) = 0
  BY HeldNat, AloneFacts DEF One
<1>2. Held(Post(c, task)) = Held(c) /\ Post(c, task).events = c.events
  BY <1>1, PostHeld
<1> QED
  BY <1>2, PostType, AloneKept

LEMMA AloneLaunch ==
  ASSUME NEW c \in Io, NEW b \in BOOLEAN, Alone(c, b),
         NEW k \in OpKind, k # "send"
  PROVE  Alone(Launch(c, k), b)
<1>1. Held(c) \in Nat /\ One(k = "send") = 0
  BY HeldNat DEF One
<1>2. Held(Launch(c, k)) = Held(c) /\ Launch(c, k).events = c.events
  BY <1>1, LaunchHeld
<1> QED
  BY <1>2, LaunchType, AloneKept

LEMMA AloneClose ==
  ASSUME NEW c \in Io, NEW b \in BOOLEAN, Alone(c, b)
  PROVE  /\ Alone(CloseSocket(c), b)
         /\ Alone(CancelConnectTimer(c), b)
         /\ Alone(CancelReconnectTimer(c), b)
         /\ \A k \in ReconnectTimer : Alone(ArmReconnectTimer(c, k), b)
<1>1. Held(c) <= 1
  BY AloneFacts
<1>2. /\ Alone(CloseSocket(c), b)
      /\ Alone(CancelConnectTimer(c), b)
      /\ Alone(CancelReconnectTimer(c), b)
  BY <1>1, CloseType, CloseHeld, AloneKept
<1>3. ASSUME NEW k \in ReconnectTimer
      PROVE  Alone(ArmReconnectTimer(c, k), b)
  <2>1. k \in OpKind /\ k # "send"
    BY OpTypes DEF ReconnectTimer
  <2> QED
    BY <1>2, <2>1, CloseType, AloneLaunch DEF ArmReconnectTimer
<1> QED
  BY <1>2, <1>3

LEMMA AloneSock ==
  ASSUME NEW c \in Io, NEW b \in BOOLEAN, Alone(c, b),
         NEW x \in {"closed", "open", "connected"}
  PROVE  [c EXCEPT !.sock = x] \in Io /\ Alone([c EXCEPT !.sock = x], b)
<1> DEFINE d == [c EXCEPT !.sock = x]
<1>1. d \in Io /\ Held(d) = Held(c) /\ d.events = c.events
  BY SockHeld
<1> HIDE DEF d
<1>2. d \in Io /\ Alone(d, b)
  BY <1>1, AloneKept
<1> QED
  BY <1>2 DEF d

LEMMA RunFrontHeld ==
  ASSUME NEW c \in Io, c.events # <<>>, Held(c) = 0
  PROVE  Held(RunFront(c)) = 1 /\ RunFront(c).events = c.events
<1> DEFINE e == Head(c.events)
<1>1. e \in Event
  BY DEF Io
<1>2. [t |-> "Event", ev |-> e] \in Task /\ HoldsGuard([t |-> "Event", ev |-> e])
  BY <1>1 DEF Task, HoldsGuard
<1>3. CASE e.t # "send"
  BY <1>2, <1>3, PostHeld DEF RunFront, One
<1>4. CASE e.t = "send" /\ c.sock = "connected"
  BY <1>4, OpTypes, LaunchHeld DEF RunFront, One
<1>5. CASE e.t = "send" /\ c.sock # "connected"
  <2>1. "send" \in OpKind /\ Held(c) + One("send" = "send") <= 1
    BY OpTypes DEF One
  <2>2. LET d == [c EXCEPT !.ready = Append(@, Done("send", "error"))]
        IN  Held(d) = Held(c) + One("send" = "send") /\ d.events = c.events
    BY <2>1, ReadyHeld
  <2> QED
    BY <1>5, <2>2 DEF RunFront, One
<1> QED
  BY <1>3, <1>4, <1>5

LEMMA AloneEnqueue ==
  ASSUME NEW c \in Io, NEW b \in BOOLEAN, Alone(c, b), NEW e \in Event
  PROVE  Alone(EventEnqueue(c, e), b) /\ Alone(EventEnqueueFromOutside(c, e), b)
<1> DEFINE d == [c EXCEPT !.events = Append(@, e)]
<1>1. Append(c.events, e) \in Seq(Event) /\ Append(c.events, e) # <<>>
  BY SeqFacts DEF Io
<1>2. d \in Io /\ d.events # <<>> /\ Held(d) = Held(c)
  BY <1>1 DEF Io, Held
<1>3. EventEnqueue(c, e) = IF c.events = <<>> THEN RunFront(d) ELSE d
  BY DEF EventEnqueue
<1> HIDE DEF d
<1>4. ASSUME c.events = <<>> PROVE Alone(EventEnqueue(c, e), b)
  <2>1. ~b /\ Held(d) = 0
    BY <1>2, <1>4, AloneFacts
  <2>2. Held(RunFront(d)) = 1 /\ RunFront(d).events # <<>>
    BY <1>2, <2>1, RunFrontHeld
  <2>3. EventEnqueue(c, e) = RunFront(d)
    BY <1>3, <1>4
  <2> QED
    BY <2>1, <2>2, <2>3 DEF Alone, One
<1>5. ASSUME c.events # <<>> PROVE Alone(EventEnqueue(c, e), b)
  <2>1. EventEnqueue(c, e) = d
    BY <1>3, <1>5
  <2> QED
    BY <1>2, <1>5, <2>1 DEF Alone
<1>6. [t |-> "Enqueue", ev |-> e] \in Task /\ ~HoldsGuard([t |-> "Enqueue", ev |-> e])
  BY DEF Task, HoldsGuard
<1>7. Alone(EventEnqueueFromOutside(c, e), b)
  BY <1>6, AlonePost DEF EventEnqueueFromOutside
<1> QED
  BY <1>4, <1>5, <1>7

LEMMA AloneNext ==
  ASSUME NEW c \in Io, Alone(c, TRUE)
  PROVE  Alone(NextEvent(c), FALSE)
<1> DEFINE d == [c EXCEPT !.events = Tail(@)]
           f == [c EXCEPT !.events = <<>>]
<1>1. c.events # <<>> /\ Held(c) = 0 /\ c.events \in Seq(Event)
  BY AloneFacts DEF Io
<1>2. CASE Len(c.events) <= 1
  <2>1. Held(f) = 0 /\ f.events = <<>>
    BY <1>1 DEF Held, Io
  <2>2. NextEvent(c) = f
    BY <1>2 DEF NextEvent
  <2> QED
    BY <2>1, <2>2 DEF Alone, One
<1>3. CASE ~(Len(c.events) <= 1)
  <2>1. Tail(c.events) \in Seq(Event) /\ Tail(c.events) # <<>>
    <3>1. Len(c.events) > 1
      BY <1>1, <1>3
    <3> QED
      BY <1>1, <3>1, SeqFacts
  <2>2. d \in Io /\ d.events # <<>> /\ Held(d) = 0
    BY <1>1, <2>1 DEF Held, Io
  <2>3. NextEvent(c) = RunFront(d)
    BY <1>3 DEF NextEvent
  <2> HIDE DEF d
  <2>4. Held(RunFront(d)) = 1 /\ RunFront(d).events # <<>>
    BY <2>2, RunFrontHeld
  <2> QED
    BY <2>3, <2>4 DEF Alone, One
<1> QED
  BY <1>2, <1>3

\* The handler that starts to run takes the guard of its task with it.
LEMMA AloneRest ==
  ASSUME io \in Io, Alone(io, FALSE), OnStrand
  PROVE  Alone(Rest, HoldsGuard(Running))
<1>1. io.strand \in Seq(Task) /\ io.strand # <<>>
  BY DEF OnStrand, Io
<1>2. Guards(io.strand) <= 1
  <2>1. Held(io) <= 1
    BY AloneFacts
  <2> QED
    BY <2>1, HeldNat DEF Held
<1>3. Guards(Tail(io.strand)) = Guards(io.strand) - One(HoldsGuard(Running))
  BY <1>1, <1>2, GuardsTail DEF Running
<1>4. /\ Rest.strand = Tail(io.strand) /\ Rest.ready = io.ready
      /\ Rest.ops = io.ops /\ Rest.events = io.events
  BY DEF Rest, Io
<1>5. Held(Rest) = Held(io) - One(HoldsGuard(Running))
  BY <1>3, <1>4, HeldNat DEF Held
<1>6. Held(Rest) + One(HoldsGuard(Running)) = Held(io) + One(FALSE)
  BY <1>5, HeldNat DEF One
<1> QED
  BY <1>4, <1>6 DEF Alone

-----------------------------------------------------------------------------
(* Every action keeps the guard alone.                                     *)

GuardAlone == Alone(io, run.inEvent)

LEMMA RestFacts ==
  ASSUME TypeOK, GuardAlone, OnStrand
  PROVE  /\ Rest \in Io /\ Running \in Task
         /\ run.inEvent = FALSE
         /\ Alone(Rest, HoldsGuard(Running))
<1>1. run.inEvent = FALSE
  BY DEF OnStrand, IoThreadFree, Idle
<1>2. io \in Io
  BY DEF TypeOK
<1>3. Alone(io, FALSE)
  BY <1>1 DEF GuardAlone
<1> QED
  BY <1>1, <1>2, <1>3, StrandType, AloneRest

\* A handler that holds no guard leaves the guard where it is ...
LEMMA RestPlain ==
  ASSUME TypeOK, GuardAlone, OnStrand,
         Running.t # "Event", Running.t = "Done" => Running.op # "send"
  PROVE  Rest \in Io /\ run.inEvent = FALSE /\ Alone(Rest, FALSE)
<1>1. HoldsGuard(Running) = FALSE
  BY DEF HoldsGuard
<1> QED
  BY <1>1, RestFacts

\* ... and that of an event, or of a send, holds it alone.
LEMMA RestGuard ==
  ASSUME TypeOK, GuardAlone, OnStrand,
         Running.t = "Event" \/ (Running.t = "Done" /\ Running.op = "send")
  PROVE  Rest \in Io /\ run.inEvent = FALSE /\ Alone(Rest, TRUE)
<1>1. HoldsGuard(Running) = TRUE
  BY DEF HoldsGuard
<1> QED
  BY <1>1, RestFacts

LEMMA PlainTasks ==
  /\ \A n \in {"StopReconnectTimer", "Resolve", "StartRecv"} :
       Simple(n) \in Task /\ ~HoldsGuard(Simple(n))
  /\ \A b \in BOOLEAN : /\ [t |-> "ArmTimeout", sync |-> b] \in Task
                        /\ ~HoldsGuard([t |-> "ArmTimeout", sync |-> b])
BY TaskTypes DEF HoldsGuard, Simple

LEMMA AloneDisconnect ==
  ASSUME TypeOK, NEW c \in Io, NEW b \in BOOLEAN, Alone(c, b)
  PROVE  Alone(DoDisconnect(c), b)
BY EventTypes, AloneEnqueue DEF DoDisconnect, Disconnecting

LEMMA AlonePostRecv ==
  ASSUME NEW c \in Io, NEW b \in BOOLEAN, Alone(c, b)
  PROVE  Alone(PostRecv(c), b)
<1> DEFINE d == [c EXCEPT !.ready = Append(@, Done("recv", "error"))]
<1>1. "recv" \in OpKind /\ One("recv" = "send") = 0 /\ Held(c) \in Nat
  BY OpTypes, HeldNat DEF One
<1>2. d \in Io
  BY <1>1, ReadyType
<1>3. Held(c) + One("recv" = "send") <= 1
  BY <1>1, AloneFacts
<1>4. Held(d) = Held(c) + One("recv" = "send") /\ d.events = c.events
  BY <1>1, <1>3, ReadyHeld
<1> HIDE DEF d
<1>5. Alone(d, b)
  BY <1>1, <1>2, <1>4, AloneKept
<1>6. Alone(Launch(c, "recv"), b)
  BY <1>1, AloneLaunch
<1>7. PostRecv(c) \in {c, Launch(c, "recv"), d}
  BY DEF PostRecv, d
<1> QED
  BY <1>5, <1>6, <1>7

LEMMA AloneBeginDone ==
  ASSUME NEW c \in Io, NEW ec, NEW b \in BOOLEAN, Alone(c, b),
         BeginDone(c, ec, b)
  PROVE  GuardAlone'
<1>1. io' = CancelConnectTimer(c) /\ run'.inEvent = b
  BY DEF BeginDone
<1>2. Alone(CancelConnectTimer(c), b)
  BY AloneClose
<1> QED
  BY <1>1, <1>2 DEF GuardAlone, Alone, Held

LEMMA AlonePostConnect ==
  ASSUME NEW c \in Io, Alone(c, FALSE), run.inEvent = FALSE,
         NEW i \in Nat, PostConnect(c, i)
  PROVE  GuardAlone'
<1>1. CASE BeginDone(c, "error", FALSE)
  BY <1>1, AloneBeginDone
<1>2. CASE ~(i > NEndpoints)
  <2> DEFINE x == IF c.sock = "closed" THEN "open" ELSE c.sock
             d == [c EXCEPT !.sock = x]
  <2>1. x \in {"closed", "open", "connected"}
    BY DEF Io
  <2>2. io' = Launch(d, "connect") /\ run' = run
    BY <1>2 DEF PostConnect
  <2> HIDE DEF x
  <2>3. d \in Io /\ Alone(d, FALSE)
    BY <2>1, AloneSock
  <2> HIDE DEF d
  <2>4. Alone(Launch(d, "connect"), FALSE)
    BY <2>3, OpTypes, AloneLaunch
  <2> QED
    BY <2>2, <2>4 DEF GuardAlone, Alone, Held
<1> QED
  BY <1>1, <1>2 DEF PostConnect

LEMMA ApiKeeps ==
  ASSUME TypeOK, GuardAlone
  PROVE  /\ \A sync \in SyncStart : StartCall(sync) => GuardAlone'
         /\ StartStep \/ StopCall \/ StopStep \/ SendCall \/ SendPost => GuardAlone'
<1> DEFINE b == run.inEvent
<1>1. io \in Io /\ b \in BOOLEAN /\ Alone(io, b) /\ SyncStart \subseteq BOOLEAN
  BY ClientAssumption DEF TypeOK, Run, GuardAlone
<1>2. ASSUME run' = run, Alone(io', b) PROVE GuardAlone'
  BY <1>2 DEF GuardAlone, Alone, Held
<1>3. ASSUME run' = run, io' = io PROVE GuardAlone'
  BY <1>3 DEF GuardAlone, Alone, Held
<1> HIDE DEF b
<1>4. CASE StartLoadReconnectTimer
  <2>1. Alone(ArmReconnectTimer(io, "wakeWait"), b)
    BY <1>1, AloneClose DEF ReconnectTimer
  <2> QED
    BY <1>1, <1>2, <1>4, <2>1 DEF StartLoadReconnectTimer
<1>5. CASE StartConnect
  <2> DEFINE c == CloseSocket(io)
  <2>1. c \in Io /\ Alone(c, b)
    BY <1>1, CloseType, AloneClose
  <2>2. io' = [c EXCEPT !.sock = "open"] \/ io' = io
    BY <1>5 DEF StartConnect
  <2> HIDE DEF c
  <2> QED
    BY <1>1, <1>2, <1>5, <2>1, <2>2, AloneSock DEF StartConnect
<1>6. CASE StartPostResolve
  <2> DEFINE c == Post(io, [t |-> "ArmTimeout", sync |-> api.sync])
  <2>1. api.sync \in BOOLEAN
    BY DEF TypeOK, Api
  <2>2. c \in Io /\ Alone(c, b)
    BY <1>1, <2>1, PlainTasks, PostType, AlonePost
  <2>3. io' = Post(c, Simple("Resolve")) /\ run' = run
    BY <1>6 DEF StartPostResolve
  <2> HIDE DEF c
  <2> QED
    BY <1>1, <1>2, <2>2, <2>3, PlainTasks, AlonePost
<1>7. CASE StartBindFails
  <2> DEFINE c == CancelConnectTimer(io)
             e == [t |-> "disconnect", old |-> state, defer |-> "wake"]
  <2>1. c \in Io /\ Alone(c, b)
    BY <1>1, CloseType, AloneClose
  <2>2. Disconnecting => e \in Event
    BY EventTypes DEF Disconnecting
  <2>3. /\ io' = IF Disconnecting THEN EventEnqueueFromOutside(c, e) ELSE c
        /\ run' = run
    BY <1>7 DEF StartBindFails
  <2> HIDE DEF c, e
  <2> QED
    BY <1>1, <1>2, <2>1, <2>2, <2>3, AloneEnqueue
<1>8. CASE StopCall
  BY <1>1, <1>2, <1>8, PlainTasks, AlonePost DEF StopCall
<1>9. ASSUME NEW expected \in {"Started", "Starting"}, NEW pc, NEW onFailure,
             StopCas(expected, pc, onFailure)
      PROVE  GuardAlone'
  <2> DEFINE e == [t |-> "disconnect", old |-> expected, defer |-> "stop"]
  <2>1. e \in Event
    BY EventTypes
  <2>2. (io' = EventEnqueueFromOutside(io, e) \/ io' = io) /\ run' = run
    BY <1>9 DEF StopCas
  <2> HIDE DEF e
  <2> QED
    BY <1>1, <1>2, <2>1, <2>2, AloneEnqueue
<1>10. CASE StopPostStop
  BY <1>1, <1>2, <1>10, EventTypes, AloneEnqueue DEF StopPostStop
<1>11. CASE SendPost
  BY <1>1, <1>2, <1>11, EventTypes, AloneEnqueue DEF SendPost
<1>12. CASE StartPool \/ StartWait \/ StopPool \/ StopJoin \/ SendCall
  BY <1>3, <1>12 DEF StartPool, StartWait, StopPool, StopJoin, SendCall
<1>13. ASSUME NEW sync \in SyncStart, StartCall(sync) PROVE GuardAlone'
  BY <1>3, <1>13 DEF StartCall
<1> QED
  BY <1>4, <1>5, <1>6, <1>7, <1>8, <1>9, <1>10, <1>11, <1>12, <1>13
     DEF StartStep, StopStep, StopCasStarted, StopCasStarting

LEMMA NetworkKeeps ==
  ASSUME TypeOK, GuardAlone
  PROVE  Network => GuardAlone'
<1>1. ASSUME NEW k \in OpKind, NEW ec \in ErrorCode, Completes(k, ec)
      PROVE  GuardAlone'
  <2> DEFINE c == IF k = "connect" /\ ec = "ok"
                  THEN [io EXCEPT !.sock = "connected"] ELSE io
  <2>1. io \in Io /\ Alone(io, run.inEvent) /\ run.inEvent \in BOOLEAN
    BY DEF TypeOK, Run, GuardAlone
  <2>2. c \in Io /\ Alone(c, run.inEvent) /\ c.ops[k] > 0
    <3>1. c \in Io /\ Alone(c, run.inEvent)
      BY <2>1, AloneSock
    <3>2. c.ops[k] > 0
      BY <1>1, <2>1 DEF Completes, Io
    <3> QED
      BY <3>1, <3>2
  <2>3. io' = Finish(c, k, ec) /\ run' = run
    BY <1>1 DEF Completes
  <2> HIDE DEF c
  <2>4. Held(c) <= 1
    BY <2>1, <2>2, AloneFacts
  <2>5. Finish(c, k, ec) \in Io /\ Held(Finish(c, k, ec)) = Held(c)
        /\ Finish(c, k, ec).events = c.events
    BY <2>2, <2>4, FinishType, FinishHeld
  <2>6. Alone(Finish(c, k, ec), run.inEvent)
    BY <2>1, <2>2, <2>5, AloneKept
  <2> QED
    BY <2>3, <2>6 DEF GuardAlone, Alone, Held
<1> QED
  BY <1>1, OpTypes
     DEF Network, Resolves, Connects, Receives, Writes, TimerExpires, Expires

LEMMA DeliverKeeps ==
  ASSUME TypeOK, GuardAlone
  PROVE  Deliver => GuardAlone'
<1> SUFFICES ASSUME Deliver PROVE GuardAlone'
  OBVIOUS
<1> DEFINE b == run.inEvent
           c == [io EXCEPT !.ready = Tail(@)]
           h == Head(io.ready)
           d == Post(c, h)
<1>1. io \in Io /\ b \in BOOLEAN /\ Alone(io, b)
  BY DEF TypeOK, Run, GuardAlone
<1>2. Held(io) <= 1
  BY <1>1, AloneFacts
<1>3. io.ready \in Seq(Completion) /\ io.ready # <<>>
  BY <1>1 DEF Deliver, Io
<1>4. h \in Task /\ Tail(io.ready) \in Seq(Completion)
  BY <1>3 DEF Task
<1>5. Guards(Tail(io.ready)) = Guards(io.ready) - One(HoldsGuard(h))
  <2>1. Guards(io.ready) <= 1
    BY <1>1, <1>2, HeldNat DEF Held
  <2> QED
    BY <1>3, <2>1, GuardsTail
<1>6. io' = d /\ run' = run
  BY DEF Deliver
<1> HIDE DEF h, b
<1>7. c \in Io /\ c.strand = io.strand /\ c.ready = Tail(io.ready)
      /\ c.ops = io.ops /\ c.events = io.events
  BY <1>1, <1>4 DEF Io
<1> HIDE DEF c
<1>8. Held(c) = Held(io) - One(HoldsGuard(h))
  BY <1>1, <1>5, <1>7, HeldNat DEF Held
<1>9. Held(d) = Held(c) + One(HoldsGuard(h)) /\ d.events = c.events
  <2>1. Held(c) + One(HoldsGuard(h)) <= 1
    BY <1>1, <1>2, <1>8, HeldNat
  <2> QED
    BY <1>4, <1>7, <2>1, PostHeld
<1>10. d \in Io
  BY <1>4, <1>7, PostType
<1> HIDE DEF d
<1>11. Held(d) = Held(io) /\ d.events = io.events
  BY <1>1, <1>7, <1>8, <1>9, HeldNat
<1>12. Alone(d, b)
  BY <1>1, <1>10, <1>11, AloneKept
<1> QED
  BY <1>6, <1>12 DEF GuardAlone, Alone, Held, b

\* The handlers that run between the events.
LEMMA PlainHandlersKeep ==
  ASSUME TypeOK, GuardAlone
  PROVE  HandleEnqueue \/ HandleStopReconnectTimer \/ HandleArmTimeout
           \/ HandleResolve \/ HandleResolved \/ HandleConnected \/ HandleTimeout
           \/ HandleReconnectTimer \/ HandleStartRecv \/ HandleRecv
           => GuardAlone'
<1>1. ASSUME run' = run, run.inEvent = FALSE, Alone(io', FALSE) PROVE GuardAlone'
  BY <1>1 DEF GuardAlone, Alone, Held
<1>2. CASE HandleEnqueue
  <2>1. Rest \in Io /\ run.inEvent = FALSE /\ Alone(Rest, FALSE)
    BY <1>2, RestPlain DEF HandleEnqueue
  <2>2. Running.ev \in Event
    BY <1>2, RestFacts, TaskFields DEF HandleEnqueue
  <2> QED
    BY <1>1, <1>2, <2>1, <2>2, AloneEnqueue DEF HandleEnqueue
<1>3. CASE HandleStopReconnectTimer
  <2>1. Rest \in Io /\ run.inEvent = FALSE /\ Alone(Rest, FALSE)
    BY <1>3, RestPlain DEF HandleStopReconnectTimer
  <2> QED
    BY <1>1, <1>3, <2>1, AloneClose DEF HandleStopReconnectTimer
<1>4. CASE HandleArmTimeout
  <2> DEFINE c == CancelConnectTimer(Rest)
             k == IF Running.sync THEN "timeoutSync" ELSE "timeout"
  <2>1. Rest \in Io /\ run.inEvent = FALSE /\ Alone(Rest, FALSE)
    BY <1>4, RestPlain DEF HandleArmTimeout
  <2>2. c \in Io /\ Alone(c, FALSE)
    BY <2>1, CloseType, AloneClose
  <2>3. k \in OpKind /\ k # "send"
    BY OpTypes
  <2>4. io' = Launch(c, k) /\ run' = run
    BY <1>4 DEF HandleArmTimeout
  <2> HIDE DEF c, k
  <2> QED
    BY <1>1, <2>1, <2>2, <2>3, <2>4, AloneLaunch
<1>5. CASE HandleResolve
  <2>1. Rest \in Io /\ run.inEvent = FALSE /\ Alone(Rest, FALSE)
    BY <1>5, RestPlain DEF HandleResolve
  <2> QED
    BY <1>1, <1>5, <2>1, OpTypes, AloneLaunch DEF HandleResolve
<1>6. CASE HandleResolved
  <2>1. Rest \in Io /\ run.inEvent = FALSE /\ Alone(Rest, FALSE)
    BY <1>6, RestPlain DEF HandleResolved, RunsCompletion
  <2> QED
    BY <1>6, <2>1, AlonePostConnect, AloneBeginDone DEF HandleResolved
<1>7. CASE HandleConnected
  <2>1. Rest \in Io /\ run.inEvent = FALSE /\ Alone(Rest, FALSE)
    BY <1>7, RestPlain DEF HandleConnected, RunsCompletion
  <2>2. iter + 1 \in Nat
    BY ClientAssumption DEF TypeOK
  <2> QED
    BY <1>7, <2>1, <2>2, AlonePostConnect, AloneBeginDone DEF HandleConnected
<1>8. CASE HandleTimeout
  <2>1. Rest \in Io /\ run.inEvent = FALSE /\ Alone(Rest, FALSE)
    BY <1>8, RestPlain DEF HandleTimeout, RunsCompletion, ConnectTimer
  <2> QED
    BY <1>1, <1>8, <2>1, AloneClose DEF HandleTimeout
<1>9. CASE HandleReconnectTimer
  <2> DEFINE c == IF ReconnectFires
                  THEN EventEnqueue(Rest, Simple("reconnect")) ELSE Rest
  <2>1. Rest \in Io /\ run.inEvent = FALSE /\ Alone(Rest, FALSE)
    BY <1>9, RestPlain DEF HandleReconnectTimer, RunsCompletion, ReconnectTimer
  <2>2. c \in Io /\ Alone(c, FALSE)
    BY <2>1, EventTypes, EventEnqueueType, AloneEnqueue
  <2>3. /\ \/ io' = Rest
           \/ io' = ArmReconnectTimer(Rest, "retryWait")
           \/ io' = ArmReconnectTimer(c, "wakeWait")
        /\ run' = run
    BY <1>9 DEF HandleReconnectTimer
  <2> HIDE DEF c
  <2>4. /\ Alone(ArmReconnectTimer(Rest, "retryWait"), FALSE)
        /\ Alone(ArmReconnectTimer(c, "wakeWait"), FALSE)
    BY <2>1, <2>2, AloneClose DEF ReconnectTimer
  <2> QED
    BY <1>1, <2>1, <2>3, <2>4
<1>10. CASE HandleStartRecv
  <2>1. Rest \in Io /\ run.inEvent = FALSE /\ Alone(Rest, FALSE)
    BY <1>10, RestPlain DEF HandleStartRecv
  <2> QED
    BY <1>1, <1>10, <2>1, AlonePostRecv DEF HandleStartRecv
<1>11. CASE HandleRecv
  <2>1. Rest \in Io /\ run.inEvent = FALSE /\ Alone(Rest, FALSE)
    BY <1>11, RestPlain DEF HandleRecv, RunsCompletion
  <2>2. Alone(PostRecv(Rest), FALSE) /\ Alone(DoDisconnect(Rest), FALSE)
    BY <2>1, AlonePostRecv, AloneDisconnect
  <2> QED
    BY <1>1, <1>11, <2>1, <2>2 DEF HandleRecv
<1> QED
  BY <1>2, <1>3, <1>4, <1>5, <1>6, <1>7, <1>8, <1>9, <1>10, <1>11

\* The handlers of the events and of a send, which end by starting the next
\* event, and DoneConnect, which may run inside the event of a reconnect.
LEMMA EventHandlersKeep ==
  ASSUME TypeOK, GuardAlone
  PROVE  HandleDisconnectEvent \/ HandleStopEvent \/ HandleWakeEvent
           \/ HandleReconnectEvent \/ HandleSent \/ DoneNotify \/ DoneFinish
           => GuardAlone'
<1>1. ASSUME run' = run, run.inEvent = FALSE, Alone(io', FALSE) PROVE GuardAlone'
  BY <1>1 DEF GuardAlone, Alone, Held
<1>2. ASSUME run'.inEvent = run.inEvent, io' = io PROVE GuardAlone'
  BY <1>2 DEF GuardAlone, Alone, Held
<1>3. CASE HandleDisconnectEvent
  <2> DEFINE c == CloseSocket(Rest)
             d == EventEnqueue(c, Simple(Running.ev.defer))
  <2>1. Rest \in Io /\ run.inEvent = FALSE /\ Alone(Rest, TRUE)
    BY <1>3, RestGuard DEF HandleDisconnectEvent, RunsEvent
  <2>2. Simple(Running.ev.defer) \in Event
    <3>1. Running.ev \in Event /\ Running.ev.t = "disconnect"
      BY <1>3, RestFacts, TaskFields DEF HandleDisconnectEvent, RunsEvent
    <3> QED
      BY <3>1, EventTypes DEF Event
  <2>3. c \in Io /\ Alone(c, TRUE)
    BY <2>1, CloseType, AloneClose
  <2>4. d \in Io /\ Alone(d, TRUE)
    BY <2>2, <2>3, EventEnqueueType, AloneEnqueue
  <2>5. (io' = NextEvent(d) \/ io' = io) /\ run' = run
    BY <1>3 DEF HandleDisconnectEvent
  <2> HIDE DEF c, d
  <2> QED
    BY <1>1, <1>2, <2>1, <2>4, <2>5, AloneNext
<1>4. CASE HandleStopEvent
  <2>1. Rest \in Io /\ run.inEvent = FALSE /\ Alone(Rest, TRUE)
    BY <1>4, RestGuard DEF HandleStopEvent, RunsEvent
  <2>2. Alone(NextEvent(CancelConnectTimer(CancelReconnectTimer(Rest))), FALSE)
    BY <2>1, CloseType, AloneClose, AloneNext
  <2> QED
    BY <1>1, <1>4, <2>1, <2>2 DEF HandleStopEvent
<1>5. CASE HandleWakeEvent
  <2>1. Rest \in Io /\ run.inEvent = FALSE /\ Alone(Rest, TRUE)
    BY <1>5, RestGuard DEF HandleWakeEvent, RunsEvent
  <2>2. /\ Alone(NextEvent(CancelReconnectTimer(Rest)), FALSE)
        /\ Alone(NextEvent(Rest), FALSE)
    BY <2>1, CloseType, AloneClose, AloneNext
  <2> QED
    BY <1>1, <1>5, <2>1, <2>2 DEF HandleWakeEvent
<1>6. CASE HandleReconnectEvent
  <2> DEFINE c == CloseSocket(Rest)
             d == [c EXCEPT !.sock = "open"]
             e == Post(d, [t |-> "ArmTimeout", sync |-> FALSE])
             f == Post(e, Simple("Resolve"))
  <2>1. Rest \in Io /\ run.inEvent = FALSE /\ Alone(Rest, TRUE)
    BY <1>6, RestGuard DEF HandleReconnectEvent, RunsEvent
  <2>2. c \in Io /\ Alone(c, TRUE)
    BY <2>1, CloseType, AloneClose
  <2>3. \/ io' = NextEvent(Rest) /\ run' = run
        \/ io' = NextEvent(f) /\ run' = run
        \/ BeginDone(d, "error", TRUE)
    BY <1>6 DEF HandleReconnectEvent
  <2> HIDE DEF c
  <2>4. d \in Io /\ Alone(d, TRUE)
    BY <2>2, AloneSock
  <2> HIDE DEF d
  <2>5. e \in Io /\ Alone(e, TRUE)
    BY <2>4, PlainTasks, PostType, AlonePost
  <2> HIDE DEF e
  <2>6. f \in Io /\ Alone(f, TRUE)
    BY <2>5, PlainTasks, PostType, AlonePost
  <2> HIDE DEF f
  <2>7. Alone(NextEvent(Rest), FALSE) /\ Alone(NextEvent(f), FALSE)
    BY <2>1, <2>6, AloneNext
  <2> QED
    BY <1>1, <2>1, <2>3, <2>4, <2>7, AloneBeginDone
<1>7. CASE HandleSent
  <2>1. Rest \in Io /\ run.inEvent = FALSE /\ Alone(Rest, TRUE)
    BY <1>7, RestGuard DEF HandleSent, RunsCompletion
  <2>2. DoDisconnect(Rest) \in Io /\ Alone(DoDisconnect(Rest), TRUE)
    BY <2>1, DoDisconnectType, AloneDisconnect
  <2>3. Alone(NextEvent(Rest), FALSE) /\ Alone(NextEvent(DoDisconnect(Rest)), FALSE)
    BY <2>1, <2>2, AloneNext
  <2> QED
    BY <1>1, <1>7, <2>1, <2>3 DEF HandleSent
<1>8. CASE DoneNotify
  BY <1>2, <1>8 DEF DoneNotify, TypeOK, Run
<1>9. CASE DoneFinish
  <2> DEFINE started == run.ec = "ok" /\ state = "Started"
             c == IF started THEN Post(io, Simple("StartRecv"))
                             ELSE DoDisconnect(io)
  <2>1. io \in Io /\ run.inEvent \in BOOLEAN /\ Alone(io, run.inEvent)
    BY DEF TypeOK, Run, GuardAlone
  <2>2. c \in Io /\ Alone(c, run.inEvent)
    BY <2>1, PlainTasks, PostType, AlonePost, DoDisconnectType, AloneDisconnect
  <2>3. /\ io' = IF run.inEvent THEN NextEvent(c) ELSE c
        /\ run'.inEvent = FALSE
    BY <1>9 DEF DoneFinish, Idle
  <2> HIDE DEF c
  <2>4. Alone(io', FALSE)
    BY <2>1, <2>2, <2>3, AloneNext
  <2> QED
    BY <2>3, <2>4 DEF GuardAlone, Alone, Held
<1> QED
  BY <1>3, <1>4, <1>5, <1>6, <1>7, <1>8, <1>9

-----------------------------------------------------------------------------
(* The theorem.                                                            *)

LEMMA InitAlone == Init => GuardAlone
<1> SUFFICES ASSUME Init PROVE GuardAlone
  OBVIOUS
<1>1. /\ io.strand = <<>> /\ io.ready = <<>> /\ io.events = <<>>
      /\ io.ops["send"] = 0 /\ run.inEvent = FALSE
  BY OpTypes DEF Init, Idle
<1>2. Held(io) = 0
  BY <1>1, GuardsEmpty DEF Held
<1> QED
  BY <1>1, <1>2 DEF GuardAlone, Alone, One

\* What is counted is what OneEventAtATime collects.
LEMMA AloneImplies == TypeOK /\ GuardAlone => OneEventAtATime
<1> SUFFICES ASSUME TypeOK, GuardAlone PROVE OneEventAtATime
  OBVIOUS
<1> DEFINE S == {j \in DOMAIN io.strand : HoldsGuard(io.strand[j])}
           R == {j \in DOMAIN io.ready : HoldsGuard(io.ready[j])}
           O == 1..io.ops["send"]
           n == io.ops["send"]
           b == run.inEvent
<1>1. io \in Io /\ b \in BOOLEAN /\ n \in Nat
  BY OpTypes DEF TypeOK, Run, Io
<1>2. /\ Guards(io.strand) = 0 => S = {}
      /\ Guards(io.strand) = 1 => \E i : S = {i}
      /\ Guards(io.ready) = 0 => R = {}
      /\ Guards(io.ready) = 1 => \E i : R = {i}
  BY DEF Guards, NoGuard, OneGuard
<1>3. (n = 0 => O = {}) /\ (n = 1 => O = {1})
  OBVIOUS
<1>4. Holders = {<<"strand", i>> : i \in S} \cup {<<"ready", i>> : i \in R}
                  \cup {<<"op", i>> : i \in O}
                  \cup (IF b THEN {<<"run", 0>>} ELSE {})
  BY DEF Holders
<1>5. Guards(io.strand) + Guards(io.ready) + n + One(b)
        = IF io.events = <<>> THEN 0 ELSE 1
  BY DEF GuardAlone, Alone, Held
<1>6. Guards(io.strand) \in Nat /\ Guards(io.ready) \in Nat
  BY GuardsNat
<1> HIDE DEF S, R, O, n, b
<1>7. CASE io.events = <<>>
  <2>1. Guards(io.strand) = 0 /\ Guards(io.ready) = 0 /\ n = 0 /\ ~b
    BY <1>1, <1>5, <1>6, <1>7 DEF One
  <2>2. S = {} /\ R = {} /\ O = {} /\ ~b
    BY <1>2, <1>3, <2>1
  <2>3. Holders = {}
    BY <1>4, <2>2
  <2> QED
    BY <1>7, <2>3 DEF OneEventAtATime
<1>8. CASE io.events # <<>>
  <2>1. \/ Guards(io.strand) = 1 /\ Guards(io.ready) = 0 /\ n = 0 /\ ~b
        \/ Guards(io.strand) = 0 /\ Guards(io.ready) = 1 /\ n = 0 /\ ~b
        \/ Guards(io.strand) = 0 /\ Guards(io.ready) = 0 /\ n = 1 /\ ~b
        \/ Guards(io.strand) = 0 /\ Guards(io.ready) = 0 /\ n = 0 /\ b
    BY <1>1, <1>5, <1>6, <1>8 DEF One
  <2>2. \/ (\E i : S = {i}) /\ R = {} /\ O = {} /\ ~b
        \/ S = {} /\ (\E i : R = {i}) /\ O = {} /\ ~b
        \/ S = {} /\ R = {} /\ O = {1} /\ ~b
        \/ S = {} /\ R = {} /\ O = {} /\ b
    BY <1>2, <1>3, <2>1
  <2>3. \E h : Holders = {h}
    <3>1. ASSUME NEW i, S = {i}, R = {}, O = {}, ~b
          PROVE  Holders = {<<"strand", i>>}
      BY <1>4, <3>1, Zenon
    <3>2. ASSUME NEW i, S = {}, R = {i}, O = {}, ~b
          PROVE  Holders = {<<"ready", i>>}
      BY <1>4, <3>2, Zenon
    <3>3. S = {} /\ R = {} /\ O = {1} /\ ~b => Holders = {<<"op", 1>>}
      BY <1>4, Zenon
    <3>4. S = {} /\ R = {} /\ O = {} /\ b => Holders = {<<"run", 0>>}
      BY <1>4, Zenon
    <3> QED
      BY <2>2, <3>1, <3>2, <3>3, <3>4
  <2>4. \E h \in Holders : Holders = {h}
    BY <2>3
  <2> QED
    BY <1>8, <2>4 DEF OneEventAtATime
<1> QED
  BY <1>7, <1>8

LEMMA NextAlone ==
  ASSUME TypeOK, GuardAlone, [Next]_vars
  PROVE  GuardAlone'
<1>1. CASE UNCHANGED vars
  BY <1>1 DEF vars, GuardAlone, Alone, Held
<1>2. CASE RunReturns
  BY <1>2 DEF RunReturns, GuardAlone, Alone, Held
<1>3. CASE Next /\ ~RunReturns
  BY <1>3, ApiKeeps, NetworkKeeps, DeliverKeeps, PlainHandlersKeep,
     EventHandlersKeep
     DEF Next, IoThreadStep, Application
<1> QED
  BY <1>1, <1>2, <1>3

\* Events of a client run one at a time and its queue never stalls, however
\* many calls, timers and completions interleave: the guard of the event in
\* front of EventQueue::events_ exists exactly once while there is an event.
THEOREM EventsRunOneAtATime == Spec => []OneEventAtATime
<1>1. Init => GuardAlone
  BY InitAlone
<1>2. TypeOK /\ GuardAlone /\ [Next]_vars => GuardAlone'
  BY NextAlone
<1>3. TypeOK /\ GuardAlone => OneEventAtATime
  BY AloneImplies
<1>4. Spec => []TypeOK
  BY TypeCorrect
<1> QED
  BY <1>1, <1>2, <1>3, <1>4, PTL DEF Spec
=============================================================================
