---------------------- MODULE TcpClientDisconnectProofs ----------------------
(***************************************************************************)
(* TLAPS proofs that a TcpClient is Stopping exactly while one disconnect  *)
(* is on its way (StoppingHasOneDisconnect), and that the listener of one  *)
(* that is never stopped hears "disconnected" only after "connected".      *)
(*                                                                         *)
(* The proof counts disconnects: those in events_, those on the strand     *)
(* that EventEnqueue has yet to add to it, and the task of the one in      *)
(* front.  That a handler pops the event it ran, and no disconnect in its  *)
(* place, follows from the guard being alone.                              *)
(***************************************************************************)
EXTENDS TcpClientProofs

USE DEF ErrorCode, NetState

Disconnects == {e \in Event : e.t = "disconnect"}
PostedDisconnects == {x \in Task : x.t = "Enqueue" /\ x.ev \in Disconnects}
RunDisconnects == {x \in Task : x.t = "Event" /\ x.ev \in Disconnects}

\* The elements of a sequence that are in a set, counted up to two.
NoneOf(s, M) == \A i \in DOMAIN s : s[i] \notin M
OneOf(s, M) == \E i \in DOMAIN s :
  /\ s[i] \in M
  /\ \A j \in DOMAIN s : s[j] \in M => j = i
Among(s, M) == IF NoneOf(s, M) THEN 0 ELSE IF OneOf(s, M) THEN 1 ELSE 2

\* Disconnects that PostDisconnect's task has not taken yet, whether the one in
\* front is a disconnect, and the tasks of disconnects on the strand.
Pending(c) == Among(c.events, Disconnects) + Among(c.strand, PostedDisconnects)
AtFront(c) == One(c.events # <<>> /\ Head(c.events) \in Disconnects)
Tasks(c) == Among(c.strand, RunDisconnects)

\* n disconnects are pending, and the strand has a task for the one in front.
Tracked(c, n) == Pending(c) = n /\ Tasks(c) = AtFront(c)

\* The same inside the handler of the event in front.
Carried(c, n, f) ==
  Pending(c) = n /\ Tasks(c) = 0 /\ c.events # <<>> /\ AtFront(c) = f

OneDisconnect == Tracked(io, One(state = "Stopping"))

-----------------------------------------------------------------------------
(* Counting in a sequence.                                                 *)

LEMMA AmongNat == \A s, M : Among(s, M) \in 0..2
BY DEF Among

LEMMA AmongEmpty == \A M : Among(<<>>, M) = 0
BY DEF Among, NoneOf

LEMMA AmongAppend ==
  ASSUME NEW S, NEW s \in Seq(S), NEW x \in S, NEW M,
         Among(s, M) + One(x \in M) <= 1
  PROVE  Among(Append(s, x), M) = Among(s, M) + One(x \in M)
<1> DEFINE u == Append(s, x)
           n == Len(s) + 1
<1>1. /\ Len(s) \in Nat /\ n \in Nat /\ DOMAIN s = 1..Len(s)
      /\ DOMAIN u = 1..n /\ u[n] = x /\ n \in DOMAIN u /\ n \notin DOMAIN s
      /\ \A i \in DOMAIN s : u[i] = s[i] /\ i \in DOMAIN u
  OBVIOUS
<1>2. \A i \in DOMAIN u : i \in DOMAIN s \/ i = n
  BY <1>1
<1> HIDE DEF u, n
<1>3. CASE NoneOf(s, M) /\ x \notin M
  <2>1. NoneOf(u, M)
    BY <1>1, <1>2, <1>3 DEF NoneOf
  <2> QED
    BY <1>3, <2>1 DEF Among, One, u
<1>4. CASE NoneOf(s, M) /\ x \in M
  <2>1. u[n] \in M /\ \A j \in DOMAIN u : u[j] \in M => j = n
    BY <1>1, <1>2, <1>4 DEF NoneOf
  <2>2. OneOf(u, M) /\ ~NoneOf(u, M)
    BY <1>1, <2>1 DEF OneOf, NoneOf
  <2> QED
    BY <1>4, <2>2 DEF Among, One, u
<1>5. CASE ~NoneOf(s, M)
  <2>1. OneOf(s, M) /\ x \notin M
    BY <1>5 DEF Among, One
  <2>2. PICK i \in DOMAIN s : s[i] \in M /\ \A j \in DOMAIN s : s[j] \in M => j = i
    BY <2>1 DEF OneOf
  <2>3. i \in DOMAIN u /\ u[i] \in M /\ \A j \in DOMAIN u : u[j] \in M => j = i
    BY <1>1, <1>2, <2>1, <2>2
  <2>4. OneOf(u, M) /\ ~NoneOf(u, M)
    BY <2>3 DEF OneOf, NoneOf
  <2> QED
    BY <1>5, <2>1, <2>4 DEF Among, One, u
<1> QED
  BY <1>3, <1>4, <1>5

LEMMA AmongTail ==
  ASSUME NEW S, NEW s \in Seq(S), s # <<>>, NEW M, Among(s, M) <= 1
  PROVE  Among(Tail(s), M) = Among(s, M) - One(Head(s) \in M)
<1> DEFINE u == Tail(s)
           h == Head(s)
<1>1. /\ Len(s) \in Nat /\ DOMAIN s = 1..Len(s) /\ 1 \in DOMAIN s /\ h = s[1]
      /\ DOMAIN u = 1..(Len(s) - 1)
      /\ \A i \in DOMAIN u : u[i] = s[i + 1] /\ i + 1 \in DOMAIN s /\ i + 1 # 1
  OBVIOUS
<1>2. \A i \in DOMAIN s : i = 1 \/ (i - 1 \in DOMAIN u /\ u[i - 1] = s[i])
  BY <1>1
<1> HIDE DEF u, h
<1>3. CASE NoneOf(s, M)
  <2>1. NoneOf(u, M) /\ h \notin M
    BY <1>1, <1>3 DEF NoneOf
  <2> QED
    BY <1>3, <2>1 DEF Among, One, u, h
<1>4. CASE ~NoneOf(s, M) /\ OneOf(s, M)
  <2>1. PICK i \in DOMAIN s : s[i] \in M /\ \A j \in DOMAIN s : s[j] \in M => j = i
    BY <1>4 DEF OneOf
  <2>2. CASE h \in M
    <3>1. NoneOf(u, M)
      BY <1>1, <2>1, <2>2 DEF NoneOf
    <3> QED
      BY <1>4, <2>2, <3>1 DEF Among, One, u, h
  <2>3. CASE h \notin M
    <3>1. i # 1
      BY <1>1, <2>1, <2>3
    <3>2. i - 1 \in DOMAIN u /\ u[i - 1] \in M
      BY <1>2, <2>1, <3>1
    <3>3. \A j \in DOMAIN u : u[j] \in M => j = i - 1
      BY <1>1, <2>1
    <3>4. ~NoneOf(u, M) /\ OneOf(u, M)
      BY <3>2, <3>3 DEF NoneOf, OneOf
    <3> QED
      BY <1>4, <2>3, <3>4 DEF Among, One, u, h
  <2> QED
    BY <2>2, <2>3
<1> QED
  BY <1>3, <1>4 DEF Among

-----------------------------------------------------------------------------
(* Operators on the io record that leave its strand and its events alone.  *)

Same(c, d) == d.strand = c.strand /\ d.events = c.events

LEMMA SameKeeps ==
  ASSUME NEW c, NEW d, Same(c, d)
  PROVE  /\ \A n : Tracked(c, n) => Tracked(d, n)
         /\ \A n, f : Carried(c, n, f) => Carried(d, n, f)
BY DEF Same, Tracked, Carried, Pending, Tasks, AtFront

LEMMA SameOps ==
  ASSUME NEW c \in Io, NEW k \in OpKind
  PROVE  /\ Same(c, Abort(c, k)) /\ Same(c, Launch(c, k))
         /\ \A ec : Same(c, Finish(c, k, ec))
         /\ \A ec : Same(c, [c EXCEPT !.ready = Append(@, Done(k, ec))])
BY DEF Io, Abort, Launch, Finish, Same

LEMMA SameSock ==
  ASSUME NEW c \in Io, NEW x
  PROVE  Same(c, [c EXCEPT !.sock = x])
BY DEF Io, Same

LEMMA SameClose ==
  ASSUME NEW c \in Io
  PROVE  /\ Same(c, CloseSocket(c))
         /\ Same(c, CancelConnectTimer(c)) /\ Same(c, CancelReconnectTimer(c))
         /\ \A k \in ReconnectTimer : Same(c, ArmReconnectTimer(c, k))
<1>1. ASSUME NEW j \in OpKind, NEW k \in OpKind
      PROVE  Abort(Abort(c, j), k) \in Io /\ Same(c, Abort(Abort(c, j), k))
  BY AbortType, SameOps DEF Same
<1> DEFINE d == Abort(Abort(c, "connect"), "recv")
           e == Abort(d, "send")
<1>2. d \in Io /\ Same(c, d)
  BY <1>1, OpTypes
<1>3. CloseSocket(c) = [e EXCEPT !.sock = "closed"]
  BY DEF CloseSocket
<1> HIDE DEF d
<1>4. e \in Io /\ Same(d, e)
  BY <1>2, OpTypes, AbortType, SameOps
<1> HIDE DEF e
<1>5. Same(c, CloseSocket(c))
  BY <1>2, <1>3, <1>4, SameSock DEF Same
<1>6. Same(c, CancelConnectTimer(c)) /\ Same(c, CancelReconnectTimer(c))
  BY <1>1, OpTypes DEF CancelConnectTimer, CancelReconnectTimer
<1>7. ASSUME NEW k \in ReconnectTimer PROVE Same(c, ArmReconnectTimer(c, k))
  <2> DEFINE f == CancelReconnectTimer(c)
  <2>1. f \in Io /\ Same(c, f) /\ k \in OpKind
    BY <1>6, CloseType, OpTypes
  <2> HIDE DEF f
  <2>2. Same(f, Launch(f, k))
    BY <2>1, SameOps
  <2> QED
    BY <2>1, <2>2 DEF ArmReconnectTimer, Same, f
<1> QED
  BY <1>5, <1>6, <1>7

LEMMA SamePostRecv ==
  ASSUME NEW c \in Io
  PROVE  Same(c, PostRecv(c))
BY OpTypes, SameOps DEF PostRecv, Same

-----------------------------------------------------------------------------
(* Posting, enqueueing and taking the next event.                          *)

LEMMA PendingNat ==
  ASSUME NEW c
  PROVE  /\ Pending(c) \in Nat /\ Tasks(c) \in Nat /\ AtFront(c) \in 0..1
         /\ Among(c.events, Disconnects) \in Nat
         /\ Among(c.strand, PostedDisconnects) \in Nat
         /\ \A b : One(b) \in 0..1
<1>1. \A b : One(b) \in 0..1
  BY DEF One
<1> QED
  BY <1>1, AmongNat DEF Pending, Tasks, AtFront

LEMMA PostCounts ==
  ASSUME NEW c \in Io, NEW x \in Task,
         Pending(c) + One(x \in PostedDisconnects) <= 1,
         Tasks(c) + One(x \in RunDisconnects) <= 1
  PROVE  /\ Pending(Post(c, x)) = Pending(c) + One(x \in PostedDisconnects)
         /\ Tasks(Post(c, x)) = Tasks(c) + One(x \in RunDisconnects)
         /\ Post(c, x).events = c.events
<1> DEFINE d == Post(c, x)
<1>1. d.strand = Append(c.strand, x) /\ d.events = c.events /\ c.strand \in Seq(Task)
  BY DEF Post, Io
<1> HIDE DEF d
<1>2. Among(c.strand, PostedDisconnects) + One(x \in PostedDisconnects) <= 1
  BY PendingNat DEF Pending
<1>3. Among(d.strand, PostedDisconnects)
        = Among(c.strand, PostedDisconnects) + One(x \in PostedDisconnects)
  BY <1>1, <1>2, AmongAppend
<1>4. Among(d.strand, RunDisconnects)
        = Among(c.strand, RunDisconnects) + One(x \in RunDisconnects)
  BY <1>1, AmongAppend DEF Tasks
<1>5. /\ Pending(d) = Pending(c) + One(x \in PostedDisconnects)
      /\ Tasks(d) = Tasks(c) + One(x \in RunDisconnects)
  <2> DEFINE p == One(x \in PostedDisconnects)
             q == Among(c.strand, PostedDisconnects)
             r == Among(c.events, Disconnects)
  <2>1. p \in Nat /\ q \in Nat /\ r \in Nat
    BY PendingNat
  <2>2. Pending(c) = r + q /\ Pending(d) = r + (q + p)
    BY <1>1, <1>3 DEF Pending
  <2> HIDE DEF p, q, r
  <2>3. Pending(d) = Pending(c) + p
    BY <2>1, <2>2
  <2> QED
    BY <1>4, <2>3 DEF Tasks, p
<1> QED
  BY <1>1, <1>5 DEF d

\* A task that is none of a disconnect's changes no count.
LEMMA PostKeeps ==
  ASSUME NEW c \in Io, NEW x \in Task, x.t \notin {"Enqueue", "Event"},
         NEW n \in 0..1
  PROVE  /\ Tracked(c, n) => Tracked(Post(c, x), n)
         /\ \A f : Carried(c, n, f) => Carried(Post(c, x), n, f)
<1>1. One(x \in PostedDisconnects) = 0 /\ One(x \in RunDisconnects) = 0
  BY DEF PostedDisconnects, RunDisconnects, One
<1>2. Post(c, x).events = c.events
  BY DEF Post, Io
<1>3. ASSUME Pending(c) = n, Tasks(c) <= 1
      PROVE  Pending(Post(c, x)) = n /\ Tasks(Post(c, x)) = Tasks(c)
  BY <1>1, <1>3, PostCounts, PendingNat
<1> QED
  BY <1>2, <1>3, PendingNat DEF Tracked, Carried, AtFront

LEMMA OutsideTracked ==
  ASSUME NEW c \in Io, NEW e \in Event, NEW n \in Nat, Tracked(c, n),
         n + One(e \in Disconnects) <= 1
  PROVE  Tracked(EventEnqueueFromOutside(c, e), n + One(e \in Disconnects))
<1> DEFINE x == [t |-> "Enqueue", ev |-> e]
<1>1. x \in Task /\ x.t = "Enqueue" /\ x.ev = e
  BY DEF Task
<1>2. EventEnqueueFromOutside(c, e) = Post(c, x)
  BY DEF EventEnqueueFromOutside
<1> HIDE DEF x
<1>3. /\ One(x \in PostedDisconnects) = One(e \in Disconnects)
      /\ One(x \in RunDisconnects) = 0
  BY <1>1 DEF PostedDisconnects, RunDisconnects, One
<1>4. Pending(c) = n /\ Tasks(c) = AtFront(c)
  BY DEF Tracked
<1>5. /\ Pending(Post(c, x)) = n + One(e \in Disconnects)
      /\ Tasks(Post(c, x)) = Tasks(c)
      /\ Post(c, x).events = c.events
  BY <1>1, <1>3, <1>4, PostCounts, PendingNat
<1> QED
  BY <1>2, <1>4, <1>5 DEF Tracked, AtFront

\* The event that comes to the front gets its task.
LEMMA FrontTracked ==
  ASSUME NEW c \in Io, c.events # <<>>, Tasks(c) = 0, NEW n \in 0..1,
         Pending(c) = n
  PROVE  Tracked(RunFront(c), n)
<1> DEFINE e == Head(c.events)
           x == [t |-> "Event", ev |-> e]
<1>1. e \in Event
  BY DEF Io
<1>2. x \in Task /\ x.t = "Event" /\ x.ev = e
  BY <1>1 DEF Task
<1>3. AtFront(c) = One(e \in Disconnects)
  BY DEF AtFront
<1>4. CASE e.t # "send"
  <2>1. RunFront(c) = Post(c, x)
    BY <1>4 DEF RunFront
  <2> HIDE DEF x, e
  <2>2. /\ One(x \in PostedDisconnects) = 0
        /\ One(x \in RunDisconnects) = One(e \in Disconnects)
    BY <1>2 DEF PostedDisconnects, RunDisconnects, One
  <2>3. /\ Pending(Post(c, x)) = n
        /\ Tasks(Post(c, x)) = One(e \in Disconnects)
        /\ Post(c, x).events = c.events
    BY <1>2, <2>2, PostCounts, PendingNat
  <2> QED
    BY <1>3, <2>1, <2>3 DEF Tracked, AtFront
<1>5. CASE e.t = "send"
  <2>1. e \notin Disconnects
    BY <1>5 DEF Disconnects
  <2>2. AtFront(c) = 0
    BY <1>3, <2>1 DEF One
  <2>3. Same(c, RunFront(c))
    BY <1>5, OpTypes, SameOps DEF RunFront
  <2>4. Tracked(c, n)
    BY <2>2 DEF Tracked
  <2> QED
    BY <2>3, <2>4, SameKeeps
<1> QED
  BY <1>4, <1>5

LEMMA EnqueueCounts ==
  ASSUME NEW c \in Io, NEW e \in Event, Pending(c) + One(e \in Disconnects) <= 1
  PROVE  LET d == [c EXCEPT !.events = Append(@, e)]
         IN  /\ d \in Io /\ d.events # <<>> /\ d.strand = c.strand
             /\ Pending(d) = Pending(c) + One(e \in Disconnects)
             /\ Tasks(d) = Tasks(c)
             /\ c.events # <<>> => AtFront(d) = AtFront(c)
<1> DEFINE d == [c EXCEPT !.events = Append(@, e)]
<1>1. c.events \in Seq(Event)
  BY DEF Io
<1>2. Append(c.events, e) \in Seq(Event) /\ Append(c.events, e) # <<>>
  BY <1>1, SeqFacts
<1>3. d \in Io /\ d.events = Append(c.events, e) /\ d.strand = c.strand
  BY <1>2 DEF Io
<1> HIDE DEF d
<1>4. Among(c.events, Disconnects) + One(e \in Disconnects) <= 1
  BY PendingNat DEF Pending
<1>5. Among(d.events, Disconnects)
        = Among(c.events, Disconnects) + One(e \in Disconnects)
  BY <1>1, <1>3, <1>4, AmongAppend
<1>6. Pending(d) = Pending(c) + One(e \in Disconnects) /\ Tasks(d) = Tasks(c)
  BY <1>3, <1>5, PendingNat DEF Pending, Tasks
<1>7. c.events # <<>> => Head(Append(c.events, e)) = Head(c.events)
  BY <1>1
<1>8. c.events # <<>> => AtFront(d) = AtFront(c)
  BY <1>2, <1>3, <1>7 DEF AtFront
<1> QED
  BY <1>2, <1>3, <1>6, <1>8 DEF d

LEMMA EnqueueTracked ==
  ASSUME NEW c \in Io, NEW e \in Event, NEW n \in Nat,
         n + One(e \in Disconnects) <= 1
  PROVE  /\ Tracked(c, n)
              => Tracked(EventEnqueue(c, e), n + One(e \in Disconnects))
         /\ \A f : Carried(c, n, f)
              => Carried(EventEnqueue(c, e), n + One(e \in Disconnects), f)
<1> DEFINE d == [c EXCEPT !.events = Append(@, e)]
           m == n + One(e \in Disconnects)
<1>1. m \in 0..1
  BY PendingNat
<1>2. ASSUME Pending(c) = n
      PROVE  /\ d \in Io /\ d.events # <<>> /\ Pending(d) = m
             /\ Tasks(d) = Tasks(c)
             /\ c.events # <<>> => AtFront(d) = AtFront(c)
  BY <1>2, EnqueueCounts
<1>3. EventEnqueue(c, e) = IF c.events = <<>> THEN RunFront(d) ELSE d
  BY DEF EventEnqueue
<1> HIDE DEF d, m
<1>4. ASSUME Tracked(c, n), c.events = <<>> PROVE Tracked(EventEnqueue(c, e), m)
  <2>1. Tasks(c) = 0 /\ Pending(c) = n
    BY <1>4 DEF Tracked, AtFront, One
  <2>2. Tracked(RunFront(d), m)
    BY <1>1, <1>2, <2>1, FrontTracked
  <2> QED
    BY <1>3, <1>4, <2>2
<1>5. ASSUME Tracked(c, n), c.events # <<>> PROVE Tracked(EventEnqueue(c, e), m)
  BY <1>2, <1>3, <1>5 DEF Tracked
<1>6. ASSUME NEW f, Carried(c, n, f) PROVE Carried(EventEnqueue(c, e), m, f)
  BY <1>2, <1>3, <1>6 DEF Carried
<1> QED
  BY <1>4, <1>5, <1>6 DEF m

\* ~EventQueueGuard pops the event whose guard it was: the next one takes over.
LEMMA NextTracked ==
  ASSUME NEW c \in Io, NEW n \in 0..1, NEW f, Carried(c, n, f)
  PROVE  Tracked(NextEvent(c), n - f)
<1> DEFINE d == [c EXCEPT !.events = Tail(@)]
           g == [c EXCEPT !.events = <<>>]
<1>1. /\ c.events \in Seq(Event) /\ c.events # <<>>
      /\ Pending(c) = n /\ Tasks(c) = 0 /\ f = One(Head(c.events) \in Disconnects)
  BY DEF Carried, AtFront, Io
<1>2. Among(Tail(c.events), Disconnects) = Among(c.events, Disconnects) - f
  <2>1. Among(c.events, Disconnects) <= 1
    BY <1>1, PendingNat DEF Pending
  <2> QED
    BY <1>1, <2>1, AmongTail
<1>3. ASSUME NEW e \in Io, e.events = Tail(c.events), e.strand = c.strand
      PROVE  Pending(e) = n - f /\ Tasks(e) = 0
  BY <1>1, <1>2, <1>3, PendingNat DEF Pending, Tasks
<1>4. CASE Len(c.events) <= 1
  <2>1. Tail(c.events) = <<>>
    BY <1>1, <1>4
  <2>2. g \in Io /\ g.events = <<>> /\ g.strand = c.strand
    <3>1. <<>> \in Seq(Event)
      OBVIOUS
    <3> QED
      BY <3>1 DEF Io
  <2>3. NextEvent(c) = g
    BY <1>4 DEF NextEvent
  <2> HIDE DEF g
  <2>4. Pending(g) = n - f /\ Tasks(g) = 0 /\ AtFront(g) = 0
    BY <1>3, <2>1, <2>2 DEF AtFront, One
  <2> QED
    BY <2>3, <2>4 DEF Tracked
<1>5. CASE ~(Len(c.events) <= 1)
  <2>1. Tail(c.events) \in Seq(Event) /\ Tail(c.events) # <<>>
    <3>1. Len(c.events) > 1
      BY <1>1, <1>5
    <3> QED
      BY <1>1, <3>1, SeqFacts
  <2>2. d \in Io /\ d.events = Tail(c.events) /\ d.strand = c.strand
    BY <2>1 DEF Io
  <2>3. NextEvent(c) = RunFront(d)
    BY <1>5 DEF NextEvent
  <2> HIDE DEF d
  <2>4. Pending(d) = n - f /\ Tasks(d) = 0
    BY <1>3, <2>2
  <2>5. n - f \in 0..1
    <3>1. Pending(d) \in Nat
      BY <2>2, PendingNat
    <3>2. f \in 0..1
      BY <1>1 DEF One
    <3> QED
      BY <2>4, <3>1, <3>2
  <2> QED
    BY <2>1, <2>2, <2>3, <2>4, <2>5, FrontTracked
<1> QED
  BY <1>4, <1>5

-----------------------------------------------------------------------------
(* The handler in progress.                                                *)

\* How many disconnects there should be.
Due == One(state = "Stopping")

LEMMA RestCounts ==
  ASSUME TypeOK, OneDisconnect, OnStrand
  PROVE  /\ Pending(Rest) = Due - One(Running \in PostedDisconnects)
         /\ Tasks(Rest) = AtFront(Rest) - One(Running \in RunDisconnects)
         /\ Rest.events = io.events
<1>1. io \in Io /\ io.strand \in Seq(Task) /\ io.strand # <<>>
  BY DEF TypeOK, OnStrand, Io
<1>2. Rest.strand = Tail(io.strand) /\ Rest.events = io.events
  BY <1>1 DEF Rest, Io
<1>3. Pending(io) = Due /\ Tasks(io) = AtFront(io) /\ Due \in 0..1
  BY PendingNat DEF OneDisconnect, Tracked, Due
<1>4. Tasks(Rest) = Tasks(io) - One(Running \in RunDisconnects)
  <2>1. Among(io.strand, RunDisconnects) <= 1
    BY <1>3, PendingNat DEF Tasks
  <2> QED
    BY <1>1, <1>2, <2>1, AmongTail DEF Tasks, Running
<1>5. Pending(Rest) = Due - One(Running \in PostedDisconnects)
  <2> DEFINE p == One(Running \in PostedDisconnects)
             q == Among(io.strand, PostedDisconnects)
             r == Among(io.events, Disconnects)
  <2>1. p \in Nat /\ q \in Nat /\ r \in Nat
    BY PendingNat
  <2>2. r + q = Due
    BY <1>3 DEF Pending
  <2>3. q <= 1
    <3> HIDE DEF q, r
    <3> QED
      BY <1>3, <2>1, <2>2
  <2>4. Among(Rest.strand, PostedDisconnects) = q - p
    BY <1>1, <1>2, <2>3, AmongTail DEF Running
  <2>5. Pending(Rest) = r + (q - p)
    BY <1>2, <2>4 DEF Pending
  <2> HIDE DEF p, q, r
  <2>6. Pending(Rest) = Due - p
    BY <2>1, <2>2, <2>5
  <2> QED
    BY <2>6 DEF p
<1>6. AtFront(Rest) = AtFront(io)
  BY <1>2 DEF AtFront
<1> QED
  BY <1>2, <1>3, <1>4, <1>5, <1>6

\* A task that is not an event leaves the counts, less itself ...
LEMMA RestTracked ==
  ASSUME TypeOK, GuardAlone, OneDisconnect, OnStrand, Running.t # "Event"
  PROVE  /\ Rest \in Io /\ Due \in 0..1 /\ run.inEvent = FALSE
         /\ Running.t # "Enqueue" => Tracked(Rest, Due)
         /\ Running.t = "Enqueue"
              => /\ Running.ev \in Event
                 /\ Tracked(Rest, Due - One(Running.ev \in Disconnects))
<1>1. Rest \in Io /\ Running \in Task /\ run.inEvent = FALSE /\ Due \in 0..1
  BY RestFacts, PendingNat DEF Due
<1>2. One(Running \in RunDisconnects) = 0
  BY DEF RunDisconnects, One
<1>3. Running.t # "Enqueue" => One(Running \in PostedDisconnects) = 0
  BY DEF PostedDisconnects, One
<1>4. Running.t = "Enqueue" => Running.ev \in Event
  BY <1>1, TaskFields
<1>5. Running.t = "Enqueue"
        => One(Running \in PostedDisconnects) = One(Running.ev \in Disconnects)
  BY <1>1 DEF PostedDisconnects, One
<1> QED
  BY <1>1, <1>2, <1>3, <1>4, <1>5, RestCounts, PendingNat DEF Tracked

\* ... and one that holds the guard of the event in front is of its kind.
LEMMA RestCarried ==
  ASSUME TypeOK, GuardAlone, OneDisconnect, OnStrand,
         Running.t = "Event" \/ (Running.t = "Done" /\ Running.op = "send")
  PROVE  /\ Rest \in Io /\ Due \in 0..1 /\ run.inEvent = FALSE
         /\ Carried(Rest, Due, One(Running \in RunDisconnects))
<1>1. Rest \in Io /\ Running \in Task /\ run.inEvent = FALSE /\ Alone(Rest, TRUE)
  BY RestFacts, RestGuard
<1>2. Due \in 0..1
  BY PendingNat DEF Due
<1>3. Rest.events # <<>> /\ Held(Rest) = 0
  BY <1>1, AloneFacts
<1>4. Guards(Rest.strand) = 0
  BY <1>1, <1>3, HeldNat DEF Held
<1>5. Tasks(Rest) = 0
  <2>1. NoGuard(Rest.strand)
    BY <1>4 DEF Guards
  <2>2. NoneOf(Rest.strand, RunDisconnects)
    BY <2>1 DEF NoGuard, NoneOf, RunDisconnects, HoldsGuard
  <2> QED
    BY <2>2 DEF Tasks, Among
<1>6. One(Running \in PostedDisconnects) = 0
  BY DEF PostedDisconnects, One
<1>7. Pending(Rest) = Due /\ AtFront(Rest) = One(Running \in RunDisconnects)
  <2> DEFINE r == One(Running \in RunDisconnects)
             f == AtFront(Rest)
  <2>1. r \in 0..1 /\ f \in 0..1
    BY PendingNat
  <2>2. 0 = f - r
    BY <1>5, RestCounts
  <2>3. Pending(Rest) = Due - 0
    BY <1>6, RestCounts
  <2> HIDE DEF r, f
  <2>4. f = r /\ Pending(Rest) = Due
    BY <1>2, <2>1, <2>2, <2>3
  <2> QED
    BY <2>4 DEF f, r
<1> QED
  BY <1>1, <1>2, <1>3, <1>5, <1>7 DEF Carried

\* The event in front is a disconnect exactly in the handler of one.
LEMMA RestKind ==
  ASSUME TypeOK, GuardAlone, OneDisconnect, OnStrand,
         Running.t = "Event" \/ (Running.t = "Done" /\ Running.op = "send")
  PROVE  /\ RunsEvent("disconnect") => Carried(Rest, Due, 1)
         /\ ~RunsEvent("disconnect") => Carried(Rest, Due, 0)
<1>1. Running \in Task /\ (Running.t = "Event" => Running.ev \in Event)
  BY RestFacts, TaskFields
<1>2. Running \in RunDisconnects <=> RunsEvent("disconnect")
  BY <1>1 DEF RunDisconnects, Disconnects, RunsEvent
<1> QED
  BY <1>2, RestCarried DEF One

LEMMA EventKinds ==
  /\ \A n \in {"send", "stop", "wake", "reconnect"} : Simple(n) \notin Disconnects
  /\ \A o \in {"Started", "Starting"}, d \in {"stop", "wake"} :
       [t |-> "disconnect", old |-> o, defer |-> d] \in Disconnects
BY EventTypes DEF Disconnects, Simple

\* DoDisconnect leaves for Stopping and enqueues the disconnect together.
LEMMA DisconnectTracked ==
  ASSUME TypeOK, NEW c \in Io
  PROVE  LET n == One(StateAfterDisconnect = "Stopping")
         IN  /\ Tracked(c, Due) => Tracked(DoDisconnect(c), n)
             /\ \A f : Carried(c, Due, f) => Carried(DoDisconnect(c), n, f)
<1> DEFINE e == [t |-> "disconnect", old |-> state, defer |-> "wake"]
           n == One(StateAfterDisconnect = "Stopping")
<1>1. CASE Disconnecting
  <2>1. state \in {"Started", "Starting"}
    BY <1>1 DEF Disconnecting
  <2>2. e \in Event /\ e \in Disconnects
    BY <2>1, EventTypes, EventKinds
  <2>3. Due = 0 /\ One(e \in Disconnects) = 1 /\ n = 1
    BY <1>1, <2>1, <2>2 DEF Due, One, StateAfterDisconnect
  <2>4. DoDisconnect(c) = EventEnqueue(c, e)
    BY <1>1 DEF DoDisconnect
  <2> HIDE DEF e, n
  <2>5. /\ Tracked(c, 0) => Tracked(EventEnqueue(c, e), 0 + 1)
        /\ \A f : Carried(c, 0, f) => Carried(EventEnqueue(c, e), 0 + 1, f)
    BY <2>2, <2>3, EnqueueTracked
  <2>6. /\ Tracked(c, Due) => Tracked(DoDisconnect(c), n)
        /\ \A f : Carried(c, Due, f) => Carried(DoDisconnect(c), n, f)
    BY <2>3, <2>4, <2>5
  <2> QED
    BY <2>6 DEF n
<1>2. CASE ~Disconnecting
  BY <1>2 DEF DoDisconnect, StateAfterDisconnect, Due
<1> QED
  BY <1>1, <1>2

-----------------------------------------------------------------------------
(* Every action keeps the count.                                           *)

\* What a step leaves behind, said of the next state.
LEMMA Counted ==
  ASSUME Tracked(io', One(state' = "Stopping"))
  PROVE  OneDisconnect'
BY DEF OneDisconnect, Tracked, Pending, Tasks, AtFront, One

LEMMA DueFacts ==
  ASSUME TypeOK, OneDisconnect
  PROVE  io \in Io /\ Due \in 0..1 /\ Tracked(io, Due)
BY PendingNat DEF TypeOK, OneDisconnect, Due

\* A step that leaves strand, events and state alone.
LEMMA SameCounted ==
  ASSUME OneDisconnect, Same(io, io'), state' = state
  PROVE  OneDisconnect'
<1>1. Tracked(io', Due)
  BY SameKeeps DEF OneDisconnect, Due
<1> QED
  BY <1>1, Counted DEF Due

LEMMA PlainPosts ==
  /\ \A n \in {"StopReconnectTimer", "Resolve", "StartRecv"} :
       Simple(n) \in Task /\ Simple(n).t \notin {"Enqueue", "Event"}
  /\ \A b \in BOOLEAN :
       /\ [t |-> "ArmTimeout", sync |-> b] \in Task
       /\ [t |-> "ArmTimeout", sync |-> b].t \notin {"Enqueue", "Event"}
BY TaskTypes DEF Simple

\* The compare_exchange of DoDisconnect and the disconnect it posts.
LEMMA LeavesForStopping ==
  ASSUME NEW c \in Io, NEW e \in Event, e \in Disconnects, Tracked(c, 0),
         io' = EventEnqueueFromOutside(c, e), state' = "Stopping"
  PROVE  OneDisconnect'
<1>1. One(e \in Disconnects) = 1 /\ One(state' = "Stopping") = 1
  BY DEF One
<1>2. Tracked(io', 0 + 1)
  BY <1>1, OutsideTracked
<1> QED
  BY <1>1, <1>2, Counted

LEMMA ApiCounted ==
  ASSUME TypeOK, OneDisconnect
  PROVE  /\ \A sync \in SyncStart : StartCall(sync) => OneDisconnect'
         /\ StartStep \/ StopCall \/ StopStep \/ SendCall \/ SendPost
              => OneDisconnect'
<1>1. io \in Io /\ Due \in 0..1 /\ Tracked(io, Due)
  BY DueFacts
<1>2. ASSUME state' = state, Tracked(io', Due) PROVE OneDisconnect'
  BY <1>2, Counted DEF Due
<1>3. CASE StartLoadReconnectTimer
  BY <1>3, <1>1, SameCounted, SameClose
     DEF StartLoadReconnectTimer, ReconnectTimer, Same
<1>4. CASE StartConnect
  <2> DEFINE c == CloseSocket(io)
  <2>1. c \in Io /\ Same(io, c)
    BY <1>1, CloseType, SameClose
  <2>2. io' = [c EXCEPT !.sock = "open"] \/ io' = io
    BY <1>4 DEF StartConnect
  <2> HIDE DEF c
  <2> DEFINE d == [c EXCEPT !.sock = "open"]
  <2>3. Same(c, d)
    BY <2>1, SameSock
  <2> HIDE DEF d
  <2>4. Same(io, io')
    BY <2>1, <2>2, <2>3 DEF Same, d
  <2> QED
    BY <1>4, <2>4, SameCounted DEF StartConnect
<1>5. CASE StartPostResolve
  <2> DEFINE c == Post(io, [t |-> "ArmTimeout", sync |-> api.sync])
  <2>1. api.sync \in BOOLEAN
    BY DEF TypeOK, Api
  <2>2. c \in Io /\ Tracked(c, Due)
    BY <1>1, <2>1, PlainPosts, PostType, PostKeeps
  <2>3. io' = Post(c, Simple("Resolve")) /\ state' = state
    BY <1>5 DEF StartPostResolve
  <2> HIDE DEF c
  <2>4. Tracked(io', Due)
    BY <1>1, <2>2, <2>3, PlainPosts, PostKeeps
  <2> QED
    BY <1>2, <2>3, <2>4
<1>6. CASE StartBindFails
  <2> DEFINE c == CancelConnectTimer(io)
             e == [t |-> "disconnect", old |-> state, defer |-> "wake"]
  <2>1. c \in Io /\ Same(io, c)
    BY <1>1, CloseType, SameClose
  <2>2. /\ io' = IF Disconnecting THEN EventEnqueueFromOutside(c, e) ELSE c
        /\ state' = StateAfterDisconnect
    BY <1>6 DEF StartBindFails
  <2>3. CASE Disconnecting
    <3>1. state \in {"Started", "Starting"}
      BY <2>3 DEF Disconnecting
    <3>2. e \in Event /\ e \in Disconnects /\ Due = 0
      BY <3>1, EventTypes, EventKinds DEF Due, One
    <3>3. io' = EventEnqueueFromOutside(c, e) /\ state' = "Stopping"
      BY <2>2, <2>3 DEF StateAfterDisconnect
    <3> HIDE DEF c, e
    <3>4. Tracked(c, 0)
      BY <1>1, <2>1, <3>2, SameKeeps
    <3> QED
      BY <2>1, <3>2, <3>3, <3>4, LeavesForStopping
  <2>4. CASE ~Disconnecting
    BY <2>1, <2>2, <2>4, SameCounted DEF StateAfterDisconnect
  <2> QED
    BY <2>3, <2>4
<1>7. CASE StopCall
  <2>1. Tracked(Post(io, Simple("StopReconnectTimer")), Due)
    BY <1>1, PlainPosts, PostKeeps
  <2> QED
    BY <1>2, <1>7, <2>1 DEF StopCall
<1>8. ASSUME NEW expected \in {"Started", "Starting"}, NEW pc, NEW onFailure,
             StopCas(expected, pc, onFailure)
      PROVE  OneDisconnect'
  <2> DEFINE e == [t |-> "disconnect", old |-> expected, defer |-> "stop"]
  <2>1. e \in Event /\ e \in Disconnects
    BY EventTypes, EventKinds
  <2>2. \/ /\ state = expected /\ state' = "Stopping"
           /\ io' = EventEnqueueFromOutside(io, e)
        \/ state' = state /\ io' = io
    BY <1>8 DEF StopCas
  <2> HIDE DEF e
  <2>3. state = expected => Due = 0
    BY DEF Due, One
  <2> QED
    BY <1>1, <2>1, <2>2, <2>3, LeavesForStopping, SameCounted DEF Same
<1>9. ASSUME NEW name \in {"stop", "send"}, state' = state,
             io' = EventEnqueueFromOutside(io, Simple(name))
      PROVE  OneDisconnect'
  <2>1. Simple(name) \in Event /\ One(Simple(name) \in Disconnects) = 0
    BY EventTypes, EventKinds DEF One
  <2>2. Tracked(io', Due + 0) /\ Due + 0 = Due
    BY <1>1, <1>9, <2>1, OutsideTracked
  <2> QED
    BY <1>2, <1>9, <2>2
<1>10. CASE StopPostStop
  BY <1>9, <1>10 DEF StopPostStop
<1>11. CASE SendPost
  BY <1>9, <1>11 DEF SendPost
<1>12. CASE StartPool \/ StartWait \/ StopPool \/ StopJoin \/ SendCall
  BY <1>12, SameCounted DEF StartPool, StartWait, StopPool, StopJoin, SendCall, Same
<1>13. ASSUME NEW sync \in SyncStart, StartCall(sync) PROVE OneDisconnect'
  <2>1. io' = io /\ Due = 0 /\ One(state' = "Stopping") = 0
    BY <1>13 DEF StartCall, Due, One
  <2> QED
    BY <1>1, <2>1, Counted
<1> QED
  BY <1>3, <1>4, <1>5, <1>6, <1>7, <1>8, <1>10, <1>11, <1>12, <1>13
     DEF StartStep, StopStep, StopCasStarted, StopCasStarting

LEMMA NetworkCounted ==
  ASSUME TypeOK, OneDisconnect
  PROVE  Network => OneDisconnect'
<1>1. ASSUME NEW k \in OpKind, NEW ec \in ErrorCode, Completes(k, ec)
      PROVE  OneDisconnect'
  <2> DEFINE c == IF k = "connect" /\ ec = "ok"
                  THEN [io EXCEPT !.sock = "connected"] ELSE io
  <2>1. io \in Io
    BY DueFacts
  <2>2. c \in Io /\ Same(io, c)
    BY <2>1, SockHeld, SameSock DEF Same
  <2>3. io' = Finish(c, k, ec) /\ state' = state
    BY <1>1 DEF Completes
  <2> HIDE DEF c
  <2>4. Same(io, io')
    BY <2>2, <2>3, SameOps DEF Same
  <2> QED
    BY <2>3, <2>4, SameCounted
<1> QED
  BY <1>1, OpTypes
     DEF Network, Resolves, Connects, Receives, Writes, TimerExpires, Expires

LEMMA DeliverCounted ==
  ASSUME TypeOK, OneDisconnect
  PROVE  Deliver => OneDisconnect'
<1> SUFFICES ASSUME Deliver PROVE OneDisconnect'
  OBVIOUS
<1> DEFINE c == [io EXCEPT !.ready = Tail(@)]
           h == Head(io.ready)
<1>1. io \in Io /\ Due \in 0..1 /\ Tracked(io, Due)
  BY DueFacts
<1>2. io.ready \in Seq(Completion) /\ io.ready # <<>>
  BY <1>1 DEF Deliver, Io
<1>3. h \in Completion /\ Tail(io.ready) \in Seq(Completion)
  BY <1>2
<1>4. h \in Task /\ h.t \notin {"Enqueue", "Event"}
  BY <1>3 DEF Task, Completion
<1>5. c \in Io /\ Same(io, c)
  BY <1>1, <1>3 DEF Io, Same
<1>6. io' = Post(c, h) /\ state' = state
  BY DEF Deliver
<1> HIDE DEF c, h
<1>7. Tracked(c, Due)
  BY <1>1, <1>5, SameKeeps
<1>8. Tracked(Post(c, h), Due)
  BY <1>1, <1>4, <1>5, <1>7, PostKeeps
<1> QED
  BY <1>6, <1>8, Counted DEF Due

LEMMA BeginDoneCounted ==
  ASSUME NEW c \in Io, NEW ec, NEW b, Tracked(c, Due), BeginDone(c, ec, b)
  PROVE  OneDisconnect'
<1>1. io' = CancelConnectTimer(c)
  BY DEF BeginDone
<1>2. Due = One(state' = "Stopping")
  BY DEF BeginDone, Due, One
<1>3. Tracked(CancelConnectTimer(c), Due)
  BY SameClose, SameKeeps
<1> QED
  BY <1>1, <1>2, <1>3, Counted

LEMMA PostConnectCounted ==
  ASSUME NEW c \in Io, NEW i \in Nat, Tracked(c, Due), PostConnect(c, i)
  PROVE  OneDisconnect'
<1>1. CASE i > NEndpoints
  BY <1>1, BeginDoneCounted DEF PostConnect
<1>2. CASE ~(i > NEndpoints)
  <2> DEFINE x == IF c.sock = "closed" THEN "open" ELSE c.sock
             d == [c EXCEPT !.sock = x]
  <2>1. x \in {"closed", "open", "connected"}
    BY DEF Io
  <2>2. io' = Launch(d, "connect") /\ state' = state
    BY <1>2 DEF PostConnect
  <2> HIDE DEF x
  <2>3. d \in Io /\ Same(c, d)
    BY <2>1, SockHeld, SameSock
  <2> HIDE DEF d
  <2>4. Same(d, Launch(d, "connect"))
    BY <2>3, OpTypes, SameOps
  <2>5. Tracked(io', Due)
    BY <2>2, <2>3, <2>4, SameKeeps
  <2> QED
    BY <2>2, <2>5, Counted DEF Due
<1> QED
  BY <1>1, <1>2

\* The handlers that run between the events.
LEMMA PlainHandlersCounted ==
  ASSUME TypeOK, GuardAlone, OneDisconnect
  PROVE  HandleEnqueue \/ HandleStopReconnectTimer \/ HandleArmTimeout
           \/ HandleResolve \/ HandleResolved \/ HandleConnected \/ HandleTimeout
           \/ HandleReconnectTimer \/ HandleStartRecv \/ HandleRecv
           => OneDisconnect'
<1>1. ASSUME state' = state, Rest \in Io, Tracked(Rest, Due), Same(Rest, io')
      PROVE  OneDisconnect'
  <2>1. Tracked(io', Due)
    BY <1>1, SameKeeps
  <2> QED
    BY <1>1, <2>1, Counted DEF Due
<1>2. CASE HandleEnqueue
  <2> DEFINE e == Running.ev
             m == Due - One(e \in Disconnects)
  <2>1. Rest \in Io /\ Due \in 0..1 /\ e \in Event /\ Tracked(Rest, m)
    BY <1>2, RestTracked DEF HandleEnqueue
  <2>2. m \in Nat /\ One(e \in Disconnects) \in 0..1
    BY <2>1, PendingNat DEF Tracked
  <2>3. io' = EventEnqueue(Rest, e) /\ state' = state
    BY <1>2 DEF HandleEnqueue
  <2>4. m + One(e \in Disconnects) = Due
    BY <2>1, <2>2
  <2> HIDE DEF e, m
  <2>5. Tracked(EventEnqueue(Rest, e), m + One(e \in Disconnects))
    BY <2>1, <2>2, <2>4, EnqueueTracked
  <2> QED
    BY <2>3, <2>4, <2>5, Counted DEF Due
<1>3. CASE HandleStopReconnectTimer
  <2>1. Rest \in Io /\ Tracked(Rest, Due)
    BY <1>3, RestTracked DEF HandleStopReconnectTimer
  <2> QED
    BY <1>1, <1>3, <2>1, SameClose DEF HandleStopReconnectTimer
<1>4. CASE HandleArmTimeout
  <2> DEFINE c == CancelConnectTimer(Rest)
             k == IF Running.sync THEN "timeoutSync" ELSE "timeout"
  <2>1. Rest \in Io /\ Tracked(Rest, Due)
    BY <1>4, RestTracked DEF HandleArmTimeout
  <2>2. c \in Io /\ Same(Rest, c) /\ k \in OpKind
    BY <2>1, CloseType, SameClose, OpTypes
  <2>3. io' = Launch(c, k) /\ state' = state
    BY <1>4 DEF HandleArmTimeout
  <2> HIDE DEF c, k
  <2>4. Same(Rest, io')
    BY <2>2, <2>3, SameOps DEF Same
  <2> QED
    BY <1>1, <2>1, <2>3, <2>4
<1>5. CASE HandleResolve
  <2>1. Rest \in Io /\ Tracked(Rest, Due)
    BY <1>5, RestTracked DEF HandleResolve
  <2> QED
    BY <1>1, <1>5, <2>1, OpTypes, SameOps DEF HandleResolve
<1>6. CASE HandleResolved
  <2>1. Rest \in Io /\ Tracked(Rest, Due)
    BY <1>6, RestTracked DEF HandleResolved, RunsCompletion
  <2> QED
    BY <1>6, <2>1, PostConnectCounted, BeginDoneCounted DEF HandleResolved
<1>7. CASE HandleConnected
  <2>1. Rest \in Io /\ Tracked(Rest, Due)
    BY <1>7, RestTracked DEF HandleConnected, RunsCompletion
  <2>2. iter + 1 \in Nat
    BY ClientAssumption DEF TypeOK
  <2> QED
    BY <1>7, <2>1, <2>2, PostConnectCounted, BeginDoneCounted DEF HandleConnected
<1>8. CASE HandleTimeout
  <2>1. Rest \in Io /\ Tracked(Rest, Due)
    BY <1>8, RestTracked DEF HandleTimeout, RunsCompletion
  <2>2. Same(Rest, io') /\ state' = state
    BY <1>8, <2>1, SameClose DEF HandleTimeout, Same
  <2> QED
    BY <1>1, <2>1, <2>2
<1>9. CASE HandleReconnectTimer
  <2> DEFINE c == IF ReconnectFires
                  THEN EventEnqueue(Rest, Simple("reconnect")) ELSE Rest
  <2>1. Rest \in Io /\ Tracked(Rest, Due) /\ Due \in 0..1
    BY <1>9, RestTracked DEF HandleReconnectTimer, RunsCompletion
  <2>2. c \in Io /\ Tracked(c, Due)
    <3> DEFINE e == Simple("reconnect")
    <3>1. e \in Event /\ One(e \in Disconnects) = 0
      BY EventTypes, EventKinds DEF One
    <3> HIDE DEF e
    <3>2. EventEnqueue(Rest, e) \in Io
      BY <2>1, <3>1, EventEnqueueType
    <3>3. Tracked(EventEnqueue(Rest, e), Due + 0) /\ Due + 0 = Due
      BY <2>1, <3>1, EnqueueTracked
    <3> QED
      BY <2>1, <3>2, <3>3 DEF e
  <2>3. \/ io' = Rest /\ state' = state
        \/ io' = ArmReconnectTimer(Rest, "retryWait") /\ state' = state
        \/ /\ io' = ArmReconnectTimer(c, "wakeWait")
           /\ state' = state \/ (state = "Stopped" /\ state' = "Starting")
    BY <1>9 DEF HandleReconnectTimer, ReconnectFires
  <2> HIDE DEF c
  <2>4. /\ Same(Rest, ArmReconnectTimer(Rest, "retryWait"))
        /\ Same(c, ArmReconnectTimer(c, "wakeWait"))
    BY <2>1, <2>2, SameClose DEF ReconnectTimer
  <2>5. Tracked(io', Due)
    BY <2>1, <2>2, <2>3, <2>4, SameKeeps
  <2>6. Due = One(state' = "Stopping")
    BY <2>3 DEF Due, One
  <2> QED
    BY <2>5, <2>6, Counted
<1>10. CASE HandleStartRecv
  <2>1. Rest \in Io /\ Tracked(Rest, Due)
    BY <1>10, RestTracked DEF HandleStartRecv
  <2> QED
    BY <1>1, <1>10, <2>1, SamePostRecv DEF HandleStartRecv
<1>11. CASE HandleRecv
  <2>1. Rest \in Io /\ Tracked(Rest, Due)
    BY <1>11, RestTracked DEF HandleRecv, RunsCompletion
  <2>2. Tracked(DoDisconnect(Rest), One(StateAfterDisconnect = "Stopping"))
    BY <2>1, DisconnectTracked
  <2>3. \/ io' = PostRecv(Rest) /\ state' = state
        \/ io' = DoDisconnect(Rest) /\ state' = StateAfterDisconnect
    BY <1>11 DEF HandleRecv
  <2> QED
    BY <1>1, <2>1, <2>2, <2>3, SamePostRecv, Counted
<1> QED
  BY <1>2, <1>3, <1>4, <1>5, <1>6, <1>7, <1>8, <1>9, <1>10, <1>11

\* No guard on the strand, no task of a disconnect there.
LEMMA NoTask ==
  ASSUME NEW c \in Io, Held(c) = 0
  PROVE  Tasks(c) = 0
<1>1. Guards(c.strand) = 0
  BY HeldNat DEF Held
<1>2. NoGuard(c.strand)
  BY <1>1 DEF Guards
<1>3. NoneOf(c.strand, RunDisconnects)
  BY <1>2 DEF NoGuard, NoneOf, RunDisconnects, HoldsGuard
<1> QED
  BY <1>3 DEF Tasks, Among

\* PostDisconnect's task finds the state its TPN_ASSERT asks for: the event in
\* front is one of the disconnects that are counted.
LEMMA DisconnectFindsStopping ==
  ASSUME TypeOK, GuardAlone, OneDisconnect, RunsEvent("disconnect")
  PROVE  state = "Stopping"
<1>1. Rest \in Io /\ Carried(Rest, Due, 1)
  BY RestCarried, RestKind DEF RunsEvent
<1>2. Rest.events \in Seq(Event) /\ Rest.events # <<>>
  BY <1>1 DEF Carried, Io
<1>3. Head(Rest.events) \in Disconnects
  BY <1>1 DEF Carried, AtFront, One
<1>4. 1 \in DOMAIN Rest.events /\ Rest.events[1] = Head(Rest.events)
  BY <1>2
<1>5. ~NoneOf(Rest.events, Disconnects)
  BY <1>3, <1>4 DEF NoneOf
<1>6. Among(Rest.events, Disconnects) # 0
  BY <1>5 DEF Among
<1>7. Pending(Rest) # 0
  BY <1>6, PendingNat DEF Pending
<1> QED
  BY <1>1, <1>7 DEF Carried, Due, One

\* The handlers of the events and of a send, and DoneConnect.
LEMMA EventHandlersCounted ==
  ASSUME TypeOK, GuardAlone, OneDisconnect
  PROVE  HandleDisconnectEvent \/ HandleStopEvent \/ HandleWakeEvent
           \/ HandleReconnectEvent \/ HandleSent \/ DoneNotify \/ DoneFinish
           => OneDisconnect'
<1>1. Due \in 0..1
  BY DueFacts
\* A handler that leaves state alone and ends with the next event.
<1>2. ASSUME NEW c \in Io, Carried(c, Due, 0), io' = NextEvent(c), state' = state
      PROVE  OneDisconnect'
  <2>1. Tracked(NextEvent(c), Due - 0) /\ Due - 0 = Due
    BY <1>1, <1>2, NextTracked
  <2> QED
    BY <1>2, <2>1, Counted DEF Due
<1>3. CASE HandleDisconnectEvent
  <2> DEFINE c == CloseSocket(Rest)
             e == Simple(Running.ev.defer)
             d == EventEnqueue(c, e)
  <2>1. state = "Stopping" /\ Due = 1
    BY <1>3, DisconnectFindsStopping DEF HandleDisconnectEvent, Due, One
  <2>2. Rest \in Io /\ Carried(Rest, 1, 1)
    BY <1>3, <2>1, RestCarried, RestKind DEF HandleDisconnectEvent, RunsEvent
  <2>3. e \in Event /\ One(e \in Disconnects) = 0
    <3>1. Running.ev \in Event /\ Running.ev.t = "disconnect"
      BY <1>3, RestFacts, TaskFields DEF HandleDisconnectEvent, RunsEvent
    <3>2. Running.ev.defer \in {"stop", "wake"}
      BY <3>1 DEF Event
    <3> QED
      BY <3>2, EventTypes, EventKinds DEF One
  <2>4. io' = NextEvent(d) /\ state' = "Stopped"
    BY <1>3, <2>1 DEF HandleDisconnectEvent
  <2>5. c \in Io /\ Same(Rest, c)
    BY <2>2, CloseType, SameClose
  <2> HIDE DEF c, e
  <2>6. Carried(c, 1, 1)
    BY <2>2, <2>5, SameKeeps
  <2>7. d \in Io /\ Carried(d, 1, 1)
    <3>1. Carried(d, 1 + 0, 1)
      BY <2>3, <2>5, <2>6, EnqueueTracked
    <3> QED
      BY <2>3, <2>5, <3>1, EventEnqueueType
  <2> HIDE DEF d
  <2>8. Tracked(NextEvent(d), 1 - 1)
    BY <2>7, NextTracked
  <2>9. One(state' = "Stopping") = 1 - 1
    BY <2>4 DEF One
  <2> QED
    BY <2>4, <2>8, <2>9, Counted
<1>4. CASE HandleStopEvent
  <2> DEFINE c == CancelReconnectTimer(Rest)
             d == CancelConnectTimer(c)
  <2>1. Rest \in Io /\ Carried(Rest, Due, 0)
    BY <1>4, RestCarried, RestKind DEF HandleStopEvent, RunsEvent
  <2>2. c \in Io /\ Same(Rest, c)
    BY <2>1, CloseType, SameClose
  <2>3. io' = NextEvent(d) /\ state' = state
    BY <1>4 DEF HandleStopEvent
  <2> HIDE DEF c
  <2>4. d \in Io /\ Same(c, d)
    BY <2>2, CloseType, SameClose
  <2> HIDE DEF d
  <2>5. Carried(d, Due, 0)
    BY <2>1, <2>2, <2>4, SameKeeps
  <2> QED
    BY <1>2, <2>3, <2>4, <2>5
<1>5. CASE HandleWakeEvent
  <2>1. Rest \in Io /\ Carried(Rest, Due, 0)
    BY <1>5, RestCarried, RestKind DEF HandleWakeEvent, RunsEvent
  <2> DEFINE c == CancelReconnectTimer(Rest)
  <2>2. c \in Io /\ Same(Rest, c)
    BY <2>1, CloseType, SameClose
  <2>3. (io' = NextEvent(c) \/ io' = NextEvent(Rest)) /\ state' = state
    BY <1>5 DEF HandleWakeEvent
  <2> HIDE DEF c
  <2>4. Carried(c, Due, 0)
    BY <2>1, <2>2, SameKeeps
  <2> QED
    BY <1>2, <2>1, <2>2, <2>3, <2>4
<1>6. CASE HandleReconnectEvent
  <2> DEFINE c == CloseSocket(Rest)
             d == [c EXCEPT !.sock = "open"]
             e == Post(d, [t |-> "ArmTimeout", sync |-> FALSE])
             f == Post(e, Simple("Resolve"))
  <2>1. Rest \in Io /\ Carried(Rest, Due, 0)
    BY <1>6, RestCarried, RestKind DEF HandleReconnectEvent, RunsEvent
  <2>2. c \in Io /\ Same(Rest, c)
    BY <2>1, CloseType, SameClose
  <2>3. \/ io' = NextEvent(Rest) /\ state' = state
        \/ io' = NextEvent(f) /\ state' = state
        \/ BeginDone(d, "error", TRUE)
    BY <1>6 DEF HandleReconnectEvent
  <2> HIDE DEF c
  <2>4. d \in Io /\ Same(c, d)
    BY <2>2, SockHeld, SameSock
  <2> HIDE DEF d
  <2>5. Carried(d, Due, 0)
    BY <2>1, <2>2, <2>4, SameKeeps
  <2>6. e \in Io /\ Carried(e, Due, 0)
    BY <1>1, <2>4, <2>5, PlainPosts, PostType, PostKeeps
  <2> HIDE DEF e
  <2>7. f \in Io /\ Carried(f, Due, 0)
    BY <1>1, <2>6, PlainPosts, PostType, PostKeeps
  <2> HIDE DEF f
  <2>8. Tracked(d, Due)
    BY <2>5 DEF Carried, Tracked
  <2> QED
    BY <1>2, <2>1, <2>3, <2>4, <2>7, <2>8, BeginDoneCounted
<1>7. CASE HandleSent
  <2> DEFINE n == One(StateAfterDisconnect = "Stopping")
             c == DoDisconnect(Rest)
  <2>1. ~RunsEvent("disconnect")
    BY <1>7 DEF HandleSent, RunsCompletion, RunsEvent
  <2>2. Rest \in Io /\ Carried(Rest, Due, 0)
    BY <1>7, <2>1, RestCarried, RestKind DEF HandleSent, RunsCompletion
  <2>3. c \in Io /\ n \in 0..1 /\ Carried(c, n, 0)
    BY <2>2, DoDisconnectType, DisconnectTracked, PendingNat
  <2>4. \/ io' = NextEvent(Rest) /\ state' = state
        \/ io' = NextEvent(c) /\ state' = StateAfterDisconnect
    BY <1>7 DEF HandleSent
  <2> HIDE DEF c, n
  <2>5. Tracked(NextEvent(c), n - 0) /\ n - 0 = n
    BY <2>3, NextTracked
  <2> QED
    BY <1>2, <2>2, <2>4, <2>5, Counted DEF n
<1>8. CASE DoneNotify
  BY <1>8, SameCounted DEF DoneNotify, Same
<1>9. CASE DoneFinish
  <2> DEFINE started == run.ec = "ok" /\ state = "Started"
             c == IF started THEN Post(io, Simple("StartRecv"))
                             ELSE DoDisconnect(io)
             n == IF started THEN Due ELSE One(StateAfterDisconnect = "Stopping")
  <2>1. io \in Io /\ Tracked(io, Due)
    BY DueFacts
  <2>2. run.inEvent => Carried(io, Due, 0)
    <3> SUFFICES ASSUME run.inEvent PROVE Carried(io, Due, 0)
      OBVIOUS
    <3>1. io.events # <<>> /\ Held(io) = 0
      BY <2>1, AloneFacts DEF GuardAlone, TypeOK, Run
    <3>2. Tasks(io) = 0
      BY <2>1, <3>1, NoTask
    <3> QED
      BY <2>1, <3>1, <3>2 DEF Tracked, Carried
  <2>3. c \in Io
    BY <2>1, PlainPosts, PostType, DoDisconnectType
  <2>4. n \in 0..1 /\ n = One(state' = "Stopping")
    BY <1>1, <1>9, PendingNat DEF DoneFinish, Due
  <2>5. Tracked(c, n) /\ (run.inEvent => Carried(c, n, 0))
    <3>1. CASE started
      <4>1. c = Post(io, Simple("StartRecv")) /\ n = Due
        BY <3>1
      <4>2. /\ Tracked(Post(io, Simple("StartRecv")), Due)
            /\ run.inEvent => Carried(Post(io, Simple("StartRecv")), Due, 0)
        BY <1>1, <2>1, <2>2, PlainPosts, PostKeeps
      <4> QED
        BY <4>1, <4>2
    <3>2. CASE ~started
      BY <2>1, <2>2, <3>2, DisconnectTracked
    <3> QED
      BY <3>1, <3>2
  <2>6. io' = IF run.inEvent THEN NextEvent(c) ELSE c
    BY <1>9 DEF DoneFinish
  <2> HIDE DEF c, n
  <2>7. run.inEvent => Tracked(NextEvent(c), n - 0) /\ n - 0 = n
    BY <2>3, <2>4, <2>5, NextTracked
  <2>8. Tracked(io', n)
    BY <2>5, <2>6, <2>7
  <2> QED
    BY <2>4, <2>8, Counted
<1> QED
  BY <1>3, <1>4, <1>5, <1>6, <1>7, <1>8, <1>9

-----------------------------------------------------------------------------
(* The theorem.                                                            *)

\* What is counted is what StoppingHasOneDisconnect collects.
LEMMA CountImplies == TypeOK /\ OneDisconnect => StoppingHasOneDisconnect
<1> SUFFICES ASSUME TypeOK, OneDisconnect PROVE StoppingHasOneDisconnect
  OBVIOUS
<1> DEFINE E == {j \in DOMAIN io.events : io.events[j] \in Disconnects}
           P == {j \in DOMAIN io.strand : io.strand[j] \in PostedDisconnects}
<1>1. io.events \in Seq(Event) /\ io.strand \in Seq(Task)
  BY DEF TypeOK, Io
<1>2. E = {j \in DOMAIN io.events : io.events[j].t = "disconnect"}
  <2>1. \A j \in DOMAIN io.events : io.events[j] \in Event
    BY <1>1
  <2> QED
    BY <2>1 DEF Disconnects
<1>3. P = {j \in DOMAIN io.strand : io.strand[j].t = "Enqueue"
                                     /\ io.strand[j].ev.t = "disconnect"}
  <2>1. ASSUME NEW j \in DOMAIN io.strand
        PROVE  io.strand[j] \in PostedDisconnects
                 <=> io.strand[j].t = "Enqueue" /\ io.strand[j].ev.t = "disconnect"
    <3> DEFINE x == io.strand[j]
    <3>1. x \in Task
      BY <1>1
    <3> HIDE DEF x
    <3>2. x.t = "Enqueue" => x.ev \in Event
      BY <3>1, TaskFields
    <3>3. x \in PostedDisconnects <=> x.t = "Enqueue" /\ x.ev.t = "disconnect"
      BY <3>1, <3>2 DEF PostedDisconnects, Disconnects
    <3> QED
      BY <3>3 DEF x
  <2> QED
    BY <2>1
<1>4. DisconnectEvents = {<<"events", i>> : i \in E} \cup {<<"posted", i>> : i \in P}
  BY <1>2, <1>3 DEF DisconnectEvents
<1>5. /\ Among(io.events, Disconnects) = 0 => E = {}
      /\ Among(io.events, Disconnects) = 1 => \E i : E = {i}
      /\ Among(io.strand, PostedDisconnects) = 0 => P = {}
      /\ Among(io.strand, PostedDisconnects) = 1 => \E i : P = {i}
  BY DEF Among, NoneOf, OneOf
<1>6. Among(io.events, Disconnects) + Among(io.strand, PostedDisconnects)
        = One(state = "Stopping")
  BY DEF OneDisconnect, Tracked, Pending
<1>7. /\ Among(io.events, Disconnects) \in Nat
      /\ Among(io.strand, PostedDisconnects) \in Nat
  BY AmongNat
<1> HIDE DEF E, P
<1>8. CASE state # "Stopping"
  <2>1. E = {} /\ P = {}
    BY <1>5, <1>6, <1>7, <1>8 DEF One
  <2>2. DisconnectEvents = {}
    BY <1>4, <2>1
  <2> QED
    BY <1>8, <2>2 DEF StoppingHasOneDisconnect
<1>9. CASE state = "Stopping"
  <2>1. \/ (\E i : E = {i}) /\ P = {}
        \/ E = {} /\ (\E i : P = {i})
    <3>1. \/ /\ Among(io.events, Disconnects) = 1
             /\ Among(io.strand, PostedDisconnects) = 0
          \/ /\ Among(io.events, Disconnects) = 0
             /\ Among(io.strand, PostedDisconnects) = 1
      BY <1>6, <1>7, <1>9 DEF One
    <3> QED
      BY <1>5, <3>1
  <2>2. ASSUME NEW i, E = {i}, P = {} PROVE DisconnectEvents = {<<"events", i>>}
    BY <1>4, <2>2, Zenon
  <2>3. ASSUME NEW i, E = {}, P = {i} PROVE DisconnectEvents = {<<"posted", i>>}
    BY <1>4, <2>3, Zenon
  <2>4. \E d \in DisconnectEvents : DisconnectEvents = {d}
    BY <2>1, <2>2, <2>3
  <2> QED
    BY <1>9, <2>4 DEF StoppingHasOneDisconnect
<1> QED
  BY <1>8, <1>9

LEMMA InitCounted == Init => OneDisconnect
<1> SUFFICES ASSUME Init PROVE OneDisconnect
  OBVIOUS
<1>1. io.strand = <<>> /\ io.events = <<>> /\ state = "Stopped"
  BY DEF Init
<1> QED
  BY <1>1, AmongEmpty
     DEF OneDisconnect, Tracked, Pending, Tasks, AtFront, One

\* The client is sound inside: typed, one guard, one disconnect while Stopping.
ClientInv == TypeOK /\ GuardAlone /\ OneDisconnect

LEMMA NextCounted ==
  ASSUME TypeOK, GuardAlone, OneDisconnect, [Next]_vars
  PROVE  OneDisconnect'
<1>1. CASE UNCHANGED vars
  BY <1>1, SameCounted DEF vars, Same
<1>2. CASE RunReturns
  BY <1>2, SameCounted DEF RunReturns, Same
<1>3. CASE Next /\ ~RunReturns
  BY <1>3, ApiCounted, NetworkCounted, DeliverCounted, PlainHandlersCounted,
     EventHandlersCounted
     DEF Next, IoThreadStep, Application
<1> QED
  BY <1>1, <1>2, <1>3

LEMMA ClientInvariant == Spec => []ClientInv
<1>1. Init => ClientInv
  BY InitTypes, InitAlone, InitCounted DEF ClientInv
<1>2. TypeOK' /\ ClientInv /\ [Next]_vars => ClientInv'
  BY NextAlone, NextCounted DEF ClientInv
<1> QED
  BY <1>1, <1>2, TypeCorrect, PTL DEF Spec

\* A client is Stopping exactly while one disconnect of DoDisconnect is on its
\* way to PostDisconnect's task, for any number of calls on any threads: it can
\* always leave Stopping, and leaves it once.
THEOREM OneWayOutOfStopping == Spec => []StoppingHasOneDisconnect
<1>1. ClientInv => StoppingHasOneDisconnect
  BY CountImplies DEF ClientInv
<1> QED
  BY <1>1, ClientInvariant, PTL

\* Whenever PostDisconnect's task of a client runs, its compare_exchange finds
\* Stopping and the TPN_ASSERT of its other branch is never reached, calls of
\* Start and Stop that overlap included.
THEOREM DisconnectAssertion ==
  Spec => [](RunsEvent("disconnect") => state = "Stopping")
<1>1. ClientInv => (RunsEvent("disconnect") => state = "Stopping")
  BY DisconnectFindsStopping DEF ClientInv
<1> QED
  BY <1>1, ClientInvariant, PTL
-----------------------------------------------------------------------------
(* Events of a set: none of them is in events_, or on its way there other  *)
(* than behind a task of another set.                                      *)

TasksOf(E) == {x \in Task : x.t \in {"Enqueue", "Event"} /\ x.ev \in E}

\* Elements of M come behind one of D; if d, there is one of D.
Behind(s, M, D, d) ==
  /\ \A i \in DOMAIN s : s[i] \in M => \E j \in DOMAIN s : j < i /\ s[j] \in D
  /\ d => \E j \in DOMAIN s : s[j] \in D

Clear(c, E, D, d) == NoneOf(c.events, E) /\ Behind(c.strand, TasksOf(E), D, d)

\* None is on its way at all.
FreeOf(c, E) == Clear(c, E, {}, FALSE)

LEMMA NoneAppend ==
  ASSUME NEW S, NEW s \in Seq(S), NEW x \in S, NEW M, NoneOf(s, M), x \notin M
  PROVE  NoneOf(Append(s, x), M)
<1>1. \A i \in DOMAIN Append(s, x) : (i \in DOMAIN s /\ Append(s, x)[i] = s[i]) \/ Append(s, x)[i] = x
  OBVIOUS
<1> QED
  BY <1>1 DEF NoneOf

LEMMA NoneTail ==
  ASSUME NEW S, NEW s \in Seq(S), s # <<>>, NEW M, NoneOf(s, M)
  PROVE  NoneOf(Tail(s), M) /\ Head(s) \notin M
<1>1. 1 \in DOMAIN s /\ Head(s) = s[1]
  OBVIOUS
<1>2. \A i \in DOMAIN Tail(s) : i + 1 \in DOMAIN s /\ Tail(s)[i] = s[i + 1]
  OBVIOUS
<1> QED
  BY <1>1, <1>2 DEF NoneOf

LEMMA BehindAppend ==
  ASSUME NEW S, NEW s \in Seq(S), NEW x \in S, NEW M, NEW D, NEW g, NEW h,
         Behind(s, M, D, g), x \in M => g, h => g \/ x \in D
  PROVE  Behind(Append(s, x), M, D, h)
<1> DEFINE u == Append(s, x)
           n == Len(s) + 1
<1>1. /\ DOMAIN s = 1..Len(s) /\ DOMAIN u = 1..n /\ Len(s) \in Nat /\ u[n] = x
      /\ \A i \in DOMAIN s : u[i] = s[i]
  OBVIOUS
<1> HIDE DEF u
<1>2. h => \E j \in DOMAIN u : u[j] \in D
  BY <1>1 DEF Behind
<1>3. ASSUME NEW i \in DOMAIN u, u[i] \in M
      PROVE  \E j \in DOMAIN u : j < i /\ u[j] \in D
  <2>1. CASE i \in DOMAIN s
    BY <1>1, <1>3, <2>1 DEF Behind
  <2>2. CASE i = n
    <3>1. PICK j \in DOMAIN s : s[j] \in D
      BY <1>1, <1>3, <2>2 DEF Behind
    <3> QED
      BY <1>1, <2>2, <3>1
  <2> QED
    BY <1>1, <2>1, <2>2
<1> QED
  BY <1>2, <1>3 DEF Behind, u

LEMMA BehindTail ==
  ASSUME NEW S, NEW s \in Seq(S), s # <<>>, NEW M, NEW D, NEW g, Behind(s, M, D, g)
  PROVE  /\ Head(s) \notin M
         /\ Head(s) \notin D => Behind(Tail(s), M, D, g)
<1> DEFINE u == Tail(s)
           h == Head(s)
<1>1. /\ Len(s) \in Nat /\ DOMAIN s = 1..Len(s) /\ 1 \in DOMAIN s /\ h = s[1]
      /\ DOMAIN u = 1..(Len(s) - 1)
      /\ \A i \in DOMAIN u : u[i] = s[i + 1] /\ i + 1 \in DOMAIN s /\ i + 1 # 1
  OBVIOUS
<1>2. \A i \in DOMAIN s : i = 1 \/ (i - 1 \in DOMAIN u /\ u[i - 1] = s[i])
  BY <1>1
<1> HIDE DEF u, h
<1>3. h \notin M
  BY <1>1 DEF Behind
<1>4. ASSUME h \notin D PROVE Behind(u, M, D, g)
  <2>1. ASSUME NEW j \in DOMAIN s, s[j] \in D
        PROVE  j - 1 \in DOMAIN u /\ u[j - 1] \in D
    BY <1>1, <1>2, <1>4, <2>1
  <2>2. g => \E j \in DOMAIN u : u[j] \in D
    BY <2>1 DEF Behind
  <2>3. ASSUME NEW i \in DOMAIN u, u[i] \in M
        PROVE  \E j \in DOMAIN u : j < i /\ u[j] \in D
    <3>1. i + 1 \in DOMAIN s /\ s[i + 1] \in M
      BY <1>1, <2>3
    <3>2. PICK j \in DOMAIN s : j < i + 1 /\ s[j] \in D
      BY <3>1 DEF Behind
    <3> QED
      BY <1>1, <2>1, <3>2
  <2> QED
    BY <2>2, <2>3 DEF Behind
<1> QED
  BY <1>3, <1>4 DEF u, h

LEMMA FreeSame ==
  ASSUME NEW c, NEW d, NEW E, NEW D, NEW g, Clear(c, E, D, g), Same(c, d)
  PROVE  Clear(d, E, D, g)
BY DEF Clear, Same

LEMMA FreePost ==
  ASSUME NEW c \in Io, NEW E, NEW D, NEW g,
         Clear(c, E, D, g), NEW x \in Task, x \notin TasksOf(E)
  PROVE  Clear(Post(c, x), E, D, g)
<1>1. Post(c, x).strand = Append(c.strand, x) /\ Post(c, x).events = c.events
      /\ c.strand \in Seq(Task)
  BY DEF Post, Io
<1> QED
  BY <1>1, BehindAppend DEF Clear

LEMMA FreeFront ==
  ASSUME NEW c \in Io, NEW E, NEW D, NEW g, Clear(c, E, D, g), c.events # <<>>
  PROVE  Clear(RunFront(c), E, D, g)
<1> DEFINE e == Head(c.events)
           x == [t |-> "Event", ev |-> e]
<1>1. e \in Event /\ e \notin E
  BY NoneTail DEF Io, Clear
<1>2. x \in Task /\ x \notin TasksOf(E)
  BY <1>1 DEF Task, TasksOf
<1>3. Clear(Post(c, x), E, D, g)
  BY <1>2, FreePost
<1>4. /\ Same(c, Launch(c, "send"))
      /\ Same(c, [c EXCEPT !.ready = Append(@, Done("send", "error"))])
  BY OpTypes, SameOps
<1> QED
  BY <1>3, <1>4, FreeSame DEF RunFront

LEMMA FreeEnqueue ==
  ASSUME NEW c \in Io, NEW E, NEW D, NEW g, Clear(c, E, D, g), NEW e \in Event, e \notin E
  PROVE  Clear(EventEnqueue(c, e), E, D, g) /\ Clear(EventEnqueueFromOutside(c, e), E, D, g)
<1> DEFINE d == [c EXCEPT !.events = Append(@, e)]
           x == [t |-> "Enqueue", ev |-> e]
<1>1. c.events \in Seq(Event) /\ Append(c.events, e) \in Seq(Event) /\ Append(c.events, e) # <<>>
  BY SeqFacts DEF Io
<1>2. d \in Io /\ d.events = Append(c.events, e) /\ d.strand = c.strand
  BY <1>1 DEF Io
<1>3. NoneOf(Append(c.events, e), E)
  BY <1>1, NoneAppend DEF Clear
<1>4. EventEnqueue(c, e) = IF c.events = <<>> THEN RunFront(d) ELSE d
  BY DEF EventEnqueue
<1> HIDE DEF d
<1>5. Clear(d, E, D, g)
  BY <1>2, <1>3 DEF Clear
<1>6. Clear(EventEnqueue(c, e), E, D, g)
  BY <1>1, <1>2, <1>4, <1>5, FreeFront
<1>7. x \in Task /\ x \notin TasksOf(E)
  BY DEF Task, TasksOf
<1> QED
  BY <1>6, <1>7, FreePost DEF EventEnqueueFromOutside

LEMMA FreeNext ==
  ASSUME NEW c \in Io, NEW E, NEW D, NEW g, Clear(c, E, D, g)
  PROVE  Clear(NextEvent(c), E, D, g)
<1> DEFINE d == [c EXCEPT !.events = Tail(@)]
           e == [c EXCEPT !.events = <<>>]
<1>1. CASE Len(c.events) <= 1
  <2>1. NextEvent(c) = e /\ e.events = <<>> /\ e.strand = c.strand
    BY <1>1 DEF NextEvent, Io
  <2> QED
    BY <2>1 DEF Clear, NoneOf
<1>2. CASE ~(Len(c.events) <= 1)
  <2>1. c.events \in Seq(Event) /\ c.events # <<>>
    BY <1>2 DEF Io
  <2>2. Tail(c.events) \in Seq(Event) /\ Tail(c.events) # <<>>
    <3>1. Len(c.events) > 1
      BY <1>2, <2>1
    <3>2. Head(c.events) \in Event
      BY <2>1
    <3> QED
      BY <2>1, <3>1, <3>2, SeqFacts
  <2>3. d \in Io /\ d.events = Tail(c.events) /\ d.strand = c.strand
    BY <2>2 DEF Io
  <2>4. NextEvent(c) = RunFront(d)
    BY <1>2 DEF NextEvent
  <2>5. NoneOf(Tail(c.events), E)
    BY <2>1, NoneTail DEF Clear
  <2> HIDE DEF d
  <2>6. Clear(d, E, D, g)
    BY <2>3, <2>5 DEF Clear
  <2> QED
    BY <2>2, <2>3, <2>4, <2>6, FreeFront
<1> QED
  BY <1>1, <1>2

LEMMA FreeRest ==
  ASSUME io \in Io, OnStrand, NEW E, NEW D, NEW g, Clear(io, E, D, g)
  PROVE  /\ Rest \in Io /\ Running \in Task /\ Running \notin TasksOf(E)
         /\ Running \notin D => Clear(Rest, E, D, g)
<1>1. io.strand \in Seq(Task) /\ io.strand # <<>>
  BY DEF OnStrand, Io
<1>2. Rest.strand = Tail(io.strand) /\ Rest.events = io.events
  BY DEF Rest, Io
<1> QED
  BY <1>1, <1>2, StrandType, BehindTail DEF Clear, Running

DisconnectOf(old, defer) == [t |-> "disconnect", old |-> old, defer |-> defer]

LEMMA FreeDisconnect ==
  ASSUME TypeOK, NEW c \in Io, NEW E, NEW D, NEW g,
         Clear(c, E, D, g), DisconnectOf(state, "wake") \notin E
  PROVE  Clear(DoDisconnect(c), E, D, g)
BY EventTypes, FreeEnqueue DEF DoDisconnect, Disconnecting, DisconnectOf

LEMMA FreePlain ==
  /\ \A E : \A n \in {"StopReconnectTimer", "Resolve", "StartRecv"} : Simple(n) \notin TasksOf(E)
  /\ \A E : \A b \in BOOLEAN : [t |-> "ArmTimeout", sync |-> b] \notin TasksOf(E)
BY DEF TasksOf, Simple

LEMMA FreeBeginDone ==
  ASSUME NEW c \in Io, NEW E, NEW D, NEW g,
         Clear(c, E, D, g), NEW ec, NEW b, BeginDone(c, ec, b)
  PROVE  Clear(io', E, D, g)
BY SameClose, FreeSame DEF BeginDone

LEMMA FreePostConnect ==
  ASSUME NEW c \in Io, NEW E, NEW D, NEW g,
         Clear(c, E, D, g), NEW i \in Nat, PostConnect(c, i)
  PROVE  Clear(io', E, D, g)
<1>1. CASE i > NEndpoints
  BY <1>1, FreeBeginDone DEF PostConnect
<1>2. CASE ~(i > NEndpoints)
  <2> DEFINE x == IF c.sock = "closed" THEN "open" ELSE c.sock
             d == [c EXCEPT !.sock = x]
  <2>1. x \in {"closed", "open", "connected"}
    BY DEF Io
  <2>2. io' = Launch(d, "connect")
    BY <1>2 DEF PostConnect
  <2> HIDE DEF x
  <2>3. d \in Io /\ Same(c, d)
    BY <2>1, SockHeld, SameSock
  <2> HIDE DEF d
  <2>4. Same(d, Launch(d, "connect"))
    BY <2>3, OpTypes, SameOps
  <2> QED
    BY <2>2, <2>3, <2>4, FreeSame
<1> QED
  BY <1>1, <1>2

\* A step adds an event of the set only if it is one of those it may enqueue.
Adds(E) ==
  \/ \E n \in {"stop", "wake"} : Simple(n) \in E
  \/ ReconnectFires /\ Simple("reconnect") \in E
  \/ SendPost /\ Simple("send") \in E
  \/ (StartBindFails \/ DoneFinish \/ OnStrand) /\ DisconnectOf(state, "wake") \in E
  \/ StopStep /\ DisconnectOf(state, "stop") \in E

LEMMA FreeApi ==
  ASSUME TypeOK, NEW E, NEW D, NEW g, Clear(io, E, D, g), ~Adds(E),
         StartStep \/ StopCall \/ StopStep \/ SendCall \/ SendPost
           \/ \E sync \in SyncStart : StartCall(sync)
  PROVE  Clear(io', E, D, g)
<1>1. io \in Io
  BY DEF TypeOK
<1>2. CASE StartLoadReconnectTimer
  BY <1>1, <1>2, SameClose, FreeSame DEF StartLoadReconnectTimer, ReconnectTimer
<1>3. CASE StartConnect
  <2> DEFINE c == CloseSocket(io)
             d == [c EXCEPT !.sock = "open"]
  <2>1. c \in Io /\ Same(io, c)
    BY <1>1, CloseType, SameClose
  <2>2. io' = d \/ io' = io
    BY <1>3 DEF StartConnect
  <2> HIDE DEF c
  <2>3. Same(c, d)
    BY <2>1, SameSock
  <2> HIDE DEF d
  <2> QED
    BY <2>1, <2>2, <2>3, FreeSame
<1>4. CASE StartPostResolve
  <2> DEFINE c == Post(io, [t |-> "ArmTimeout", sync |-> api.sync])
  <2>1. api.sync \in BOOLEAN
    BY DEF TypeOK, Api
  <2>2. c \in Io /\ Clear(c, E, D, g)
    BY <1>1, <2>1, PlainPosts, PostType, FreePlain, FreePost
  <2>3. io' = Post(c, Simple("Resolve"))
    BY <1>4 DEF StartPostResolve
  <2> HIDE DEF c
  <2> QED
    BY <2>2, <2>3, PlainPosts, FreePlain, FreePost
<1>5. CASE StartBindFails
  <2> DEFINE c == CancelConnectTimer(io)
             e == DisconnectOf(state, "wake")
  <2>1. c \in Io /\ Same(io, c)
    BY <1>1, CloseType, SameClose
  <2>2. io' = IF Disconnecting THEN EventEnqueueFromOutside(c, e) ELSE c
    BY <1>5 DEF StartBindFails, DisconnectOf
  <2>3. e \notin E
    BY <1>5 DEF Adds
  <2>4. Disconnecting => e \in Event
    BY EventTypes DEF Disconnecting, DisconnectOf
  <2> HIDE DEF c, e
  <2>5. Clear(c, E, D, g)
    BY <2>1, FreeSame
  <2> QED
    BY <2>1, <2>2, <2>3, <2>4, <2>5, FreeEnqueue
<1>6. CASE StopCall
  BY <1>1, <1>6, PlainPosts, FreePlain, FreePost DEF StopCall
<1>7. ASSUME NEW expected \in {"Started", "Starting"}, NEW pc, NEW onFailure,
             StopCas(expected, pc, onFailure), StopStep
      PROVE  Clear(io', E, D, g)
  <2> DEFINE e == DisconnectOf(expected, "stop")
  <2>1. e \in Event /\ (state = expected => e \notin E)
    BY <1>7, EventTypes DEF DisconnectOf, Adds
  <2>2. (state = expected /\ io' = EventEnqueueFromOutside(io, e)) \/ io' = io
    BY <1>7 DEF StopCas, DisconnectOf
  <2> HIDE DEF e
  <2> QED
    BY <1>1, <2>1, <2>2, FreeEnqueue
<1>8. CASE StopPostStop
  BY <1>1, <1>8, EventTypes, FreeEnqueue DEF StopPostStop, Adds
<1>9. CASE SendPost
  BY <1>1, <1>9, EventTypes, FreeEnqueue DEF SendPost, Adds
<1>10. CASE StartPool \/ StartWait \/ StopPool \/ StopJoin \/ SendCall
            \/ \E sync \in SyncStart : StartCall(sync)
  BY <1>10 DEF StartPool, StartWait, StopPool, StopJoin, SendCall, StartCall
<1> QED
  BY <1>2, <1>3, <1>4, <1>5, <1>6, <1>7, <1>8, <1>9, <1>10
     DEF StartStep, StopStep, StopCasStarted, StopCasStarting

LEMMA FreeNetwork ==
  ASSUME TypeOK, NEW E, NEW D, NEW g,
         Clear(io, E, D, g), Network \/ Deliver \/ RunReturns \/ DoneNotify
  PROVE  Clear(io', E, D, g)
<1>io. io \in Io
  BY DEF TypeOK
<1>1. ASSUME NEW k \in OpKind, NEW ec \in ErrorCode, Completes(k, ec)
      PROVE  Clear(io', E, D, g)
  <2> DEFINE c == IF k = "connect" /\ ec = "ok"
                  THEN [io EXCEPT !.sock = "connected"] ELSE io
  <2>1. c \in Io /\ Same(io, c)
    BY <1>io, SockHeld, SameSock DEF Same
  <2>2. io' = Finish(c, k, ec)
    BY <1>1 DEF Completes
  <2> HIDE DEF c
  <2> QED
    BY <2>1, <2>2, SameOps, FreeSame
<1>2. CASE Network
  BY <1>1, <1>2, OpTypes
     DEF Network, Resolves, Connects, Receives, Writes, TimerExpires, Expires
<1>3. CASE Deliver
  <2> DEFINE c == [io EXCEPT !.ready = Tail(@)]
             h == Head(io.ready)
  <2>1. h \in Completion /\ Tail(io.ready) \in Seq(Completion)
    BY <1>io, <1>3 DEF Deliver, Io
  <2>2. h \in Task /\ h \notin TasksOf(E)
    BY <2>1 DEF Task, Completion, TasksOf
  <2>3. c \in Io /\ Same(io, c)
    BY <1>io, <2>1 DEF Io, Same
  <2>4. io' = Post(c, h)
    BY <1>3 DEF Deliver
  <2> HIDE DEF c, h
  <2> QED
    BY <2>2, <2>3, <2>4, FreeSame, FreePost
<1>4. CASE RunReturns \/ DoneNotify
  BY <1>4 DEF RunReturns, DoneNotify
<1> QED
  BY <1>2, <1>3, <1>4

LEMMA FreeHandlers ==
  ASSUME TypeOK, NEW E, NEW D, NEW g, Clear(io, E, D, g), ~Adds(E),
         OnStrand => Running \notin D,
         HandleEnqueue \/ HandleStopReconnectTimer \/ HandleArmTimeout
           \/ HandleResolve \/ HandleResolved \/ HandleConnected \/ HandleTimeout
           \/ HandleReconnectTimer \/ HandleStartRecv \/ HandleRecv
  PROVE  Clear(io', E, D, g)
<1>1. OnStrand
  BY DEF HandleEnqueue, HandleStopReconnectTimer, HandleArmTimeout, HandleResolve,
     HandleResolved, HandleConnected, HandleTimeout, HandleReconnectTimer, HandleStartRecv,
     HandleRecv, RunsCompletion
<1>2. Rest \in Io /\ Clear(Rest, E, D, g) /\ Running \in Task /\ Running \notin TasksOf(E)
  BY <1>1, FreeRest DEF TypeOK, Adds
<1>3. CASE HandleEnqueue
  <2>1. Running.ev \in Event /\ Running.ev \notin E
    BY <1>2, <1>3, TaskFields DEF HandleEnqueue, TasksOf
  <2> QED
    BY <1>2, <1>3, <2>1, FreeEnqueue DEF HandleEnqueue
<1>4. CASE HandleStopReconnectTimer
  BY <1>2, <1>4, SameClose, FreeSame DEF HandleStopReconnectTimer
<1>5. CASE HandleArmTimeout
  <2> DEFINE c == CancelConnectTimer(Rest)
             k == IF Running.sync THEN "timeoutSync" ELSE "timeout"
  <2>1. c \in Io /\ Same(Rest, c) /\ k \in OpKind
    BY <1>2, CloseType, SameClose, OpTypes
  <2>2. io' = Launch(c, k)
    BY <1>5 DEF HandleArmTimeout
  <2> HIDE DEF c, k
  <2> QED
    BY <1>2, <2>1, <2>2, SameOps, FreeSame
<1>6. CASE HandleResolve
  BY <1>2, <1>6, OpTypes, SameOps, FreeSame DEF HandleResolve
<1>7. CASE HandleResolved
  BY <1>2, <1>7, FreePostConnect, FreeBeginDone DEF HandleResolved
<1>8. CASE HandleConnected
  <2>1. iter + 1 \in Nat
    BY ClientAssumption DEF TypeOK
  <2> QED
    BY <1>2, <1>8, <2>1, FreePostConnect, FreeBeginDone DEF HandleConnected
<1>9. CASE HandleTimeout
  BY <1>2, <1>9, SameClose, FreeSame DEF HandleTimeout
<1>10. CASE HandleReconnectTimer
  <2> DEFINE c == IF ReconnectFires
                  THEN EventEnqueue(Rest, Simple("reconnect")) ELSE Rest
  <2>1. c \in Io /\ Clear(c, E, D, g)
    BY <1>2, EventTypes, EventEnqueueType, FreeEnqueue DEF Adds
  <2>2. \/ io' = Rest
        \/ io' = ArmReconnectTimer(Rest, "retryWait")
        \/ io' = ArmReconnectTimer(c, "wakeWait")
    BY <1>10 DEF HandleReconnectTimer
  <2> HIDE DEF c
  <2>3. /\ Same(Rest, ArmReconnectTimer(Rest, "retryWait"))
        /\ Same(c, ArmReconnectTimer(c, "wakeWait"))
    BY <1>2, <2>1, SameClose DEF ReconnectTimer
  <2> QED
    BY <1>2, <2>1, <2>2, <2>3, FreeSame
<1>11. CASE HandleStartRecv
  BY <1>2, <1>11, SamePostRecv, FreeSame DEF HandleStartRecv
<1>12. CASE HandleRecv
  <2>1. Clear(DoDisconnect(Rest), E, D, g) /\ Clear(PostRecv(Rest), E, D, g)
    BY <1>1, <1>2, SamePostRecv, FreeSame, FreeDisconnect DEF Adds
  <2> QED
    BY <1>12, <2>1 DEF HandleRecv
<1> QED
  BY <1>3, <1>4, <1>5, <1>6, <1>7, <1>8, <1>9, <1>10, <1>11, <1>12

LEMMA FreeEventHandlers ==
  ASSUME TypeOK, NEW E, NEW D, NEW g, Clear(io, E, D, g), ~Adds(E),
         OnStrand => Running \notin D,
         HandleDisconnectEvent \/ HandleStopEvent \/ HandleWakeEvent
           \/ HandleReconnectEvent \/ HandleSent \/ DoneFinish
  PROVE  Clear(io', E, D, g)
<1>io. io \in Io
  BY DEF TypeOK
<1>1. ASSUME OnStrand
      PROVE  Rest \in Io /\ Clear(Rest, E, D, g) /\ Running \in Task
             /\ DisconnectOf(state, "wake") \notin E
  BY <1>io, <1>1, FreeRest DEF Adds
<1>2. CASE HandleDisconnectEvent
  <2> DEFINE c == CloseSocket(Rest)
             e == Simple(Running.ev.defer)
             d == EventEnqueue(c, e)
  <2>1. Rest \in Io /\ Clear(Rest, E, D, g) /\ Running \in Task /\ Running.t = "Event"
        /\ Running.ev.t = "disconnect"
    BY <1>1, <1>2 DEF HandleDisconnectEvent, RunsEvent
  <2>2. e \in Event /\ e \notin E
    <3>1. Running.ev \in Event
      BY <2>1, TaskFields
    <3>2. Running.ev.defer \in {"stop", "wake"}
      BY <2>1, <3>1 DEF Event
    <3> QED
      BY <3>2, EventTypes DEF Adds
  <2>3. c \in Io /\ Clear(c, E, D, g)
    BY <2>1, CloseType, SameClose, FreeSame
  <2>4. io' = NextEvent(d) \/ io' = io
    BY <1>2 DEF HandleDisconnectEvent
  <2> HIDE DEF c, e
  <2>5. d \in Io /\ Clear(d, E, D, g)
    BY <2>2, <2>3, EventEnqueueType, FreeEnqueue
  <2> HIDE DEF d
  <2> QED
    BY <2>4, <2>5, FreeNext
<1>3. CASE HandleStopEvent
  <2> DEFINE c == CancelReconnectTimer(Rest)
             d == CancelConnectTimer(c)
  <2>1. Rest \in Io /\ Clear(Rest, E, D, g)
    BY <1>1, <1>3 DEF HandleStopEvent, RunsEvent
  <2>2. c \in Io /\ Clear(c, E, D, g)
    BY <2>1, CloseType, SameClose, FreeSame
  <2>3. io' = NextEvent(d)
    BY <1>3 DEF HandleStopEvent
  <2> HIDE DEF c
  <2>4. d \in Io /\ Clear(d, E, D, g)
    BY <2>2, CloseType, SameClose, FreeSame
  <2> HIDE DEF d
  <2> QED
    BY <2>3, <2>4, FreeNext
<1>4. CASE HandleWakeEvent
  <2> DEFINE c == CancelReconnectTimer(Rest)
  <2>1. Rest \in Io /\ Clear(Rest, E, D, g)
    BY <1>1, <1>4 DEF HandleWakeEvent, RunsEvent
  <2>2. c \in Io /\ Clear(c, E, D, g)
    BY <2>1, CloseType, SameClose, FreeSame
  <2>3. io' = NextEvent(c) \/ io' = NextEvent(Rest)
    BY <1>4 DEF HandleWakeEvent
  <2> HIDE DEF c
  <2> QED
    BY <2>1, <2>2, <2>3, FreeNext
<1>5. CASE HandleReconnectEvent
  <2> DEFINE c == CloseSocket(Rest)
             d == [c EXCEPT !.sock = "open"]
             e == Post(d, [t |-> "ArmTimeout", sync |-> FALSE])
             f == Post(e, Simple("Resolve"))
  <2>1. Rest \in Io /\ Clear(Rest, E, D, g)
    BY <1>1, <1>5 DEF HandleReconnectEvent, RunsEvent
  <2>2. c \in Io /\ Clear(c, E, D, g)
    BY <2>1, CloseType, SameClose, FreeSame
  <2>3. io' = NextEvent(Rest) \/ io' = NextEvent(f) \/ BeginDone(d, "error", TRUE)
    BY <1>5 DEF HandleReconnectEvent
  <2> HIDE DEF c
  <2>4. d \in Io /\ Clear(d, E, D, g)
    BY <2>2, SockHeld, SameSock, FreeSame
  <2> HIDE DEF d
  <2>5. e \in Io /\ Clear(e, E, D, g)
    BY <2>4, PlainPosts, FreePlain, PostType, FreePost
  <2> HIDE DEF e
  <2>6. f \in Io /\ Clear(f, E, D, g)
    BY <2>5, PlainPosts, FreePlain, PostType, FreePost
  <2> HIDE DEF f
  <2>7. CASE io' = NextEvent(Rest)
    BY <2>1, <2>7, FreeNext
  <2>8. CASE io' = NextEvent(f)
    BY <2>6, <2>8, FreeNext
  <2>9. CASE BeginDone(d, "error", TRUE)
    BY <2>4, <2>9, FreeBeginDone
  <2> QED
    BY <2>3, <2>7, <2>8, <2>9
<1>6. CASE HandleSent
  <2> DEFINE c == DoDisconnect(Rest)
  <2>1. Rest \in Io /\ Clear(Rest, E, D, g) /\ DisconnectOf(state, "wake") \notin E
    BY <1>1, <1>6 DEF HandleSent, RunsCompletion
  <2>2. c \in Io /\ Clear(c, E, D, g)
    BY <2>1, DoDisconnectType, FreeDisconnect
  <2>3. io' = NextEvent(Rest) \/ io' = NextEvent(c)
    BY <1>6 DEF HandleSent
  <2> HIDE DEF c
  <2> QED
    BY <2>1, <2>2, <2>3, FreeNext
<1>7. CASE DoneFinish
  <2> DEFINE started == run.ec = "ok" /\ state = "Started"
             c == IF started THEN Post(io, Simple("StartRecv"))
                             ELSE DoDisconnect(io)
  <2>1. Post(io, Simple("StartRecv")) \in Io /\ Clear(Post(io, Simple("StartRecv")), E, D, g)
    BY <1>io, PlainPosts, FreePlain, PostType, FreePost
  <2>2. DoDisconnect(io) \in Io /\ Clear(DoDisconnect(io), E, D, g)
    BY <1>io, <1>7, DoDisconnectType, FreeDisconnect DEF Adds
  <2>3. c \in Io /\ Clear(c, E, D, g)
    BY <2>1, <2>2
  <2>4. io' = IF run.inEvent THEN NextEvent(c) ELSE c
    BY <1>7 DEF DoneFinish
  <2> HIDE DEF c
  <2> QED
    BY <2>3, <2>4, FreeNext
<1> QED
  BY <1>2, <1>3, <1>4, <1>5, <1>6, <1>7

LEMMA FreeStep ==
  ASSUME TypeOK, NEW E, FreeOf(io, E), ~Adds(E), Next
  PROVE  FreeOf(io', E)
<1>1. Clear(io, E, {}, FALSE) /\ (OnStrand => Running \notin {})
  BY DEF FreeOf
<1>2. Clear(io', E, {}, FALSE)
  BY <1>1, FreeApi, FreeNetwork, FreeHandlers, FreeEventHandlers DEF Next, IoThreadStep, Application
<1> QED
  BY <1>2 DEF FreeOf

-----------------------------------------------------------------------------
(* The listener of a client that is never stopped.                         *)

\* Disconnects of a connection that was Started.
OldStarted == {e \in Disconnects : e.old = "Started"}

\* The listener was told of the connection, or is about to be; and a disconnect
\* of a Started connection is on its way only once it was told.
StartedIsTold == state = "Started" => up \/ run.pc = "notify"
NoneUntold == up \/ FreeOf(io, OldStarted)
Told == api.stop = "idle" /\ (~crashed => StartedIsTold /\ NoneUntold)

LEMMA OldStartedEvents ==
  /\ \A n \in {"stop", "wake", "reconnect", "send"} : Simple(n) \notin OldStarted
  /\ \A o, f : DisconnectOf(o, f) \in OldStarted => o = "Started"
BY DEF OldStarted, Disconnects, Simple, DisconnectOf

LEMMA InitTold == Init => Told
<1> SUFFICES ASSUME Init PROVE Told
  OBVIOUS
<1>1. io.strand = <<>> /\ io.events = <<>> /\ state = "Stopped" /\ api.stop = "idle"
  BY DEF Init
<1>2. FreeOf(io, OldStarted)
  BY <1>1 DEF FreeOf, Clear, Behind, NoneOf
<1> QED
  BY <1>1, <1>2 DEF Told, StartedIsTold, NoneUntold

LEMMA NeverStops ==
  ASSUME MaxStops = 0, TypeOK, api.stop = "idle", Next
  PROVE  ~StopCall /\ ~StopStep /\ api'.stop = "idle"
<1>1. ~StopCall
  BY DEF StopCall, TypeOK, Calls
<1>2. ~StopStep
  BY DEF StopStep, StopCasStarted, StopCasStarting, StopCas, StopPostStop, StopPool, StopJoin
<1>3. ASSUME NEW sync \in SyncStart, StartCall(sync)
      PROVE  api'.stop = "idle"
  BY <1>3 DEF StartCall, TypeOK, Api
<1>4. CASE StartStep
  BY <1>1, <1>2, <1>4 DEF StartStep, StartPool, StartLoadReconnectTimer, StartConnect,
     StartPostResolve, StartBindFails, StartWait, TypeOK, Api
<1>5. CASE SendCall \/ SendPost
  BY <1>1, <1>2, <1>5 DEF SendCall, SendPost, TypeOK, Api
<1>6. CASE IoThreadStep
  BY <1>1, <1>2, <1>6 DEF IoThreadStep, Deliver, RunReturns, HandleEnqueue, HandleDisconnectEvent,
     HandleStopEvent, HandleWakeEvent, HandleReconnectEvent, HandleStopReconnectTimer,
     HandleArmTimeout, HandleResolve, HandleResolved, HandleConnected, HandleTimeout,
     HandleReconnectTimer, HandleStartRecv, HandleRecv, HandleSent, DoneNotify, DoneFinish
<1>7. CASE Network
  BY <1>1, <1>2, <1>7 DEF Network, Resolves, Connects, Receives, Writes, TimerExpires, Expires, Completes
<1> QED
  BY <1>1, <1>2, <1>3, <1>4, <1>5, <1>6, <1>7 DEF Next, Application

\* A step that leaves the client Started leaves it Started, or is the exchange in
\* DoneConnect.
LEMMA BecomesStarted ==
  ASSUME Next, ~StopStep, ~crashed', state' = "Started"
  PROVE  \/ run'.pc = "notify"
         \/ state = "Started" /\ up' = up /\ run' = run
         \/ state = "Started" /\ up' = up /\ run.pc = "finish"
         \/ up'
<1>1. ASSUME NEW c, NEW ec, NEW b, BeginDone(c, ec, b)
      PROVE  run'.pc = "notify"
  BY <1>1 DEF BeginDone
<1>2. CASE StartStep
  BY <1>2 DEF StartStep, StartPool, StartLoadReconnectTimer, StartConnect,
     StartPostResolve, StartBindFails, StartWait, StateAfterDisconnect, Disconnecting
<1>3. CASE Application \/ SendPost
  BY <1>3 DEF Application, StartCall, StopCall, SendCall, SendPost
<1>4. CASE Network
  BY <1>4 DEF Network, Resolves, Connects, Receives, Writes, TimerExpires, Expires, Completes
<1>5. CASE Deliver \/ RunReturns \/ HandleEnqueue \/ HandleStopEvent \/ HandleWakeEvent
            \/ HandleStopReconnectTimer \/ HandleArmTimeout \/ HandleResolve
            \/ HandleTimeout \/ HandleStartRecv
  BY <1>5 DEF Deliver, RunReturns, HandleEnqueue, HandleStopEvent, HandleWakeEvent,
     HandleStopReconnectTimer, HandleArmTimeout, HandleResolve, HandleTimeout, HandleStartRecv
<1>6. CASE HandleDisconnectEvent
  BY <1>6 DEF HandleDisconnectEvent
<1>7. CASE HandleReconnectEvent
  <2>1. (UNCHANGED <<state, run>>) \/ run'.pc = "notify"
    BY <1>1, <1>7, Zenon DEF HandleReconnectEvent
  <2> QED
    BY <1>7, <2>1 DEF HandleReconnectEvent
<1>8. ASSUME NEW c, NEW i, PostConnect(c, i)
      PROVE  UNCHANGED <<state, run>> \/ run'.pc = "notify"
  BY <1>1, <1>8 DEF PostConnect
<1>9. CASE HandleResolved
  <2>1. (UNCHANGED <<state, run>>) \/ run'.pc = "notify"
    BY <1>1, <1>8, <1>9, Zenon DEF HandleResolved
  <2> QED
    BY <1>9, <2>1 DEF HandleResolved
<1>10. CASE HandleConnected
  <2>1. (UNCHANGED <<state, run>>) \/ run'.pc = "notify"
    BY <1>1, <1>8, <1>10, Zenon DEF HandleConnected
  <2> QED
    BY <1>10, <2>1 DEF HandleConnected
<1>11. CASE HandleReconnectTimer
  BY <1>11 DEF HandleReconnectTimer
<1>12. CASE HandleRecv \/ HandleSent
  BY <1>12 DEF HandleRecv, HandleSent, StateAfterDisconnect, Disconnecting
<1>13. CASE DoneNotify
  BY <1>13 DEF DoneNotify
<1>14. CASE DoneFinish
  BY <1>14 DEF DoneFinish, StateAfterDisconnect, Disconnecting
<1> QED
  BY <1>2, <1>3, <1>4, <1>5, <1>6, <1>7, <1>9, <1>10, <1>11, <1>12, <1>13, <1>14
     DEF Next, IoThreadStep

LEMMA NothingUntoldAdded ==
  ASSUME TypeOK, StartedIsTold, ~up, ~StopStep, Next, ~crashed'
  PROVE  ~Adds(OldStarted)
<1>1. CASE state # "Started"
  BY <1>1, OldStartedEvents DEF Adds
<1>2. CASE state = "Started"
  <2>1. run.pc = "notify"
    BY <1>2 DEF StartedIsTold
  <2>2. ~DoneFinish /\ ~OnStrand
    BY <2>1 DEF DoneFinish, OnStrand, IoThreadFree, Idle
  <2>3. ~StartBindFails
    BY <1>2 DEF StartBindFails
  <2> QED
    BY <2>2, <2>3, OldStartedEvents DEF Adds
<1> QED
  BY <1>1, <1>2

\* up is cleared by HandleDisconnect alone.
LEMMA Untold ==
  ASSUME Next, up, ~up'
  PROVE  HandleDisconnectEvent
<1>1. CASE StartStep \/ StopStep
  BY <1>1 DEF StartStep, StartPool, StartLoadReconnectTimer, StartConnect,
     StartPostResolve, StartBindFails, StartWait, StopStep, StopCasStarted, StopCasStarting,
     StopCas, StopPostStop, StopPool, StopJoin
<1>2. CASE Application \/ SendPost
  BY <1>2 DEF Application, StartCall, StopCall, SendCall, SendPost
<1>3. CASE Network
  BY <1>3 DEF Network, Resolves, Connects, Receives, Writes, TimerExpires, Expires, Completes
<1>4. CASE IoThreadStep
  BY <1>4 DEF IoThreadStep, Deliver, RunReturns, HandleEnqueue,
     HandleStopEvent, HandleWakeEvent, HandleReconnectEvent, HandleStopReconnectTimer,
     HandleArmTimeout, HandleResolve, HandleResolved, HandleConnected, HandleTimeout,
     HandleReconnectTimer, HandleStartRecv, HandleRecv, HandleSent, DoneNotify, DoneFinish
<1> QED
  BY <1>1, <1>2, <1>3, <1>4 DEF Next

\* With no disconnect on its way, none of some kind is.
LEMMA NoneOnItsWay ==
  ASSUME NEW c \in Io, Tracked(c, 0), NEW E, E \subseteq Disconnects
  PROVE  FreeOf(c, E)
<1>1. Among(c.events, Disconnects) = 0 /\ Among(c.strand, PostedDisconnects) = 0
  BY AmongNat DEF Tracked, Pending
<1>2. NoneOf(c.events, Disconnects) /\ NoneOf(c.strand, PostedDisconnects)
  BY <1>1 DEF Among
<1>3. ~(c.events # <<>> /\ Head(c.events) \in Disconnects)
  BY <1>2 DEF NoneOf, Io
<1>4. Among(c.strand, RunDisconnects) = 0
  BY <1>3 DEF Tracked, Tasks, AtFront, One
<1>5. NoneOf(c.strand, RunDisconnects)
  BY <1>4 DEF Among
<1>6. TasksOf(E) \subseteq PostedDisconnects \cup RunDisconnects
  BY DEF TasksOf, PostedDisconnects, RunDisconnects
<1> QED
  BY <1>2, <1>5, <1>6 DEF FreeOf, Clear, Behind, NoneOf

LEMMA NextTold ==
  ASSUME MaxStops = 0, ClientInv, ClientInv', Told, [Next]_vars
  PROVE  Told'
<1>1. CASE UNCHANGED vars
  BY <1>1 DEF vars, Told, StartedIsTold, NoneUntold
<1>2. CASE Next
  <2>1. ~StopStep /\ api'.stop = "idle" /\ ~crashed /\ TypeOK /\ TypeOK'
    BY <1>2, NeverStops DEF Told, ClientInv, Next
  <2>2. StartedIsTold /\ NoneUntold
    BY <2>1 DEF Told
  <2>3. ASSUME ~crashed' PROVE StartedIsTold'
    <3> SUFFICES ASSUME state' = "Started" PROVE up' \/ run'.pc = "notify"
      BY DEF StartedIsTold
    <3>1. CASE run.pc = "finish" /\ state = "Started"
      BY <1>2, <2>1, <2>2, <2>3, <3>1, BecomesStarted DEF StartedIsTold
    <3>2. CASE ~(run.pc = "finish" /\ state = "Started")
      BY <1>2, <2>1, <2>2, <2>3, <3>2, BecomesStarted DEF StartedIsTold
    <3> QED
      BY <3>1, <3>2
  <2>4. ASSUME ~crashed' PROVE NoneUntold'
    <3> SUFFICES ASSUME ~up' PROVE FreeOf(io', OldStarted)
      BY DEF NoneUntold
    <3>1. CASE ~up
      BY <1>2, <2>1, <2>2, <2>4, <3>1, NothingUntoldAdded, FreeStep DEF NoneUntold, FreeOf
    <3>2. CASE up
      <4>1. HandleDisconnectEvent
        BY <1>2, <3>2, Untold
      <4>2. state' = "Stopped"
        BY <2>1, <2>4, <4>1 DEF HandleDisconnectEvent
      <4>3. Tracked(io', One(FALSE))
        BY <4>2 DEF ClientInv, OneDisconnect
      <4>4. One(FALSE) = 0
        BY DEF One
      <4>5. io' \in Io /\ Tracked(io', 0)
        BY <2>1, <4>3, <4>4 DEF TypeOK
      <4>6. OldStarted \subseteq Disconnects
        BY DEF OldStarted
      <4> QED
        BY <4>5, <4>6, NoneOnItsWay
    <3> QED
      BY <3>1, <3>2
  <2> QED
    BY <2>1, <2>3, <2>4 DEF Told
<1> QED
  BY <1>1, <1>2

\* A disconnect of a Started connection runs only once the listener was told.
LEMMA DisconnectOfTold ==
  ASSUME TypeOK, Told, ~crashed, HandleDisconnectEvent, Running.ev.old = "Started"
  PROVE  up
<1> SUFFICES ASSUME ~up PROVE FALSE
  OBVIOUS
<1>1. OnStrand /\ Running.t = "Event" /\ Running.ev.t = "disconnect"
  BY DEF HandleDisconnectEvent, RunsEvent
<1>2. FreeOf(io, OldStarted)
  BY DEF Told, NoneUntold
<1>3. Running \in Task /\ Running \notin TasksOf(OldStarted)
  BY <1>1, <1>2, FreeRest DEF TypeOK, FreeOf
<1>4. Running.ev \in Event
  BY <1>1, <1>3, TaskFields
<1> QED
  BY <1>1, <1>3, <1>4 DEF TasksOf, OldStarted, Disconnects

\* The listener of a client that is never stopped, one that only loses its
\* connection and reconnects, hears "disconnected" only after "connected", for
\* any number of starts, sends and endpoints.  Stop breaks this: its
\* compare_exchange may come between DoneConnect's and the notification.
THEOREM DisconnectFollowsConnect ==
  ASSUME MaxStops = 0
  PROVE  Spec => DisconnectNotifiedAfterConnect
<1>1. Init => Told
  BY InitTold
<1>2. ClientInv /\ ClientInv' /\ Told /\ [Next]_vars => Told'
  BY NextTold
<1>3. ClientInv /\ Told /\ [Next]_vars
        => [HandleDisconnectEvent /\ Running.ev.old = "Started" => up]_vars
  BY DisconnectOfTold DEF ClientInv, Next
<1> QED
  BY <1>1, <1>2, <1>3, ClientInvariant, PTL DEF Spec, DisconnectNotifiedAfterConnect
=============================================================================
