--------------------------- MODULE TcpServerProofs ---------------------------
(***************************************************************************)
(* TLAPS proofs about TcpServer: types, the session's disconnect, and what *)
(* a stop of the server leaves behind.                                     *)
(***************************************************************************)
EXTENDS TcpServer, FiniteSetTheorems, TLAPS

\* How often elements of a set occur in a sequence.
Count(q, M) == Cardinality({k \in DOMAIN q : q[k] \in M})

One(b) == IF b THEN 1 ELSE 0

\* No element of B comes before one of A.
Before(q, A, B) == \A j, k \in DOMAIN q : j < k /\ q[k] \in A => q[j] \notin B

-----------------------------------------------------------------------------
(* Counting in a sequence.                                                 *)

LEMMA PlacesFinite ==
  ASSUME NEW S, NEW q \in Seq(S), NEW M
  PROVE  /\ IsFiniteSet({k \in DOMAIN q : q[k] \in M})
         /\ Count(q, M) \in Nat
<1>1. Len(q) \in Nat /\ DOMAIN q = 1..Len(q)
  OBVIOUS
<1>2. IsFiniteSet(1..Len(q))
  BY <1>1, FS_Interval
<1>3. IsFiniteSet({k \in DOMAIN q : q[k] \in M})
  BY <1>1, <1>2, FS_Subset
<1> QED
  BY <1>3, FS_CardinalityType DEF Count

LEMMA CountEmpty == \A M : Count(<<>>, M) = 0
<1> TAKE M
<1>1. {k \in DOMAIN <<>> : <<>>[k] \in M} = {}
  OBVIOUS
<1> QED
  BY <1>1, FS_EmptySet DEF Count

LEMMA CountZero ==
  ASSUME NEW S, NEW q \in Seq(S), NEW M
  PROVE  Count(q, M) = 0 <=> \A k \in DOMAIN q : q[k] \notin M
<1> DEFINE A == {k \in DOMAIN q : q[k] \in M}
<1>1. IsFiniteSet(A)
  BY PlacesFinite
<1>2. Cardinality(A) = 0 <=> A = {}
  BY <1>1, FS_EmptySet
<1> QED
  BY <1>2 DEF Count

LEMMA CountAppend ==
  ASSUME NEW S, NEW q \in Seq(S), NEW x \in S, NEW M
  PROVE  Count(Append(q, x), M) = Count(q, M) + One(x \in M)
<1> DEFINE u == Append(q, x)
           n == Len(q) + 1
           A == {k \in DOMAIN q : q[k] \in M}
           B == {k \in DOMAIN u : u[k] \in M}
<1>1. /\ Len(q) \in Nat /\ DOMAIN q = 1..Len(q) /\ DOMAIN u = 1..n
      /\ u[n] = x /\ n \notin DOMAIN q /\ \A k \in DOMAIN q : u[k] = q[k]
      /\ DOMAIN u = DOMAIN q \cup {n}
  OBVIOUS
<1>2. IsFiniteSet(A) /\ Cardinality(A) \in Nat
  BY PlacesFinite DEF Count
<1>3. CASE x \in M
  <2>1. B = A \cup {n} /\ n \notin A
    BY <1>1, <1>3
  <2>2. Cardinality(A \cup {n}) = Cardinality(A) + 1
    BY <1>2, <2>1, FS_AddElement
  <2> QED
    BY <1>3, <2>1, <2>2 DEF Count, One
<1>4. CASE x \notin M
  <2>1. B = A
    BY <1>1, <1>4
  <2>2. Count(u, M) = Count(q, M)
    BY <2>1 DEF Count
  <2> HIDE DEF u
  <2>3. Count(q, M) \in Nat
    BY PlacesFinite
  <2> QED
    BY <1>4, <2>2, <2>3 DEF One, u
<1> QED
  BY <1>3, <1>4

LEMMA CountTail ==
  ASSUME NEW S, NEW q \in Seq(S), q # <<>>, NEW M
  PROVE  Count(Tail(q), M) = Count(q, M) - One(Head(q) \in M)
<1> DEFINE u == Tail(q)
           A == {k \in DOMAIN q : q[k] \in M}
           B == {k \in DOMAIN u : u[k] \in M}
           f == [k \in B |-> k + 1]
<1>1. /\ Len(q) \in Nat /\ DOMAIN q = 1..Len(q) /\ 1 \in DOMAIN q /\ Head(q) = q[1]
      /\ u \in Seq(S) /\ DOMAIN u = 1..(Len(q) - 1)
      /\ \A k \in DOMAIN u : u[k] = q[k + 1] /\ k + 1 \in DOMAIN q /\ k + 1 # 1
  OBVIOUS
<1>2. /\ IsFiniteSet(A) /\ Cardinality(A) \in Nat
      /\ IsFiniteSet(B) /\ Cardinality(B) \in Nat
  BY <1>1, PlacesFinite DEF Count
<1>3. f \in Bijection(B, A \ {1})
  <2>1. f \in [B -> A \ {1}]
    BY <1>1
  <2>2. \A j, k \in B : f[j] = f[k] => j = k
    BY <1>1
  <2>3. ASSUME NEW k \in A \ {1}
        PROVE  \E j \in B : f[j] = k
    <3>1. k \in Nat /\ k > 1 /\ k - 1 \in DOMAIN u /\ u[k - 1] = q[k]
      BY <1>1
    <3>2. k - 1 \in B /\ f[k - 1] = k
      BY <3>1
    <3> QED
      BY <3>2
  <2> QED
    BY <2>1, <2>2, <2>3 DEF Bijection, Injection, Surjection, IsInjective
<1>4. Cardinality(A \ {1}) = Cardinality(B)
  <2>1. ExistsBijection(B, A \ {1})
    BY <1>3 DEF ExistsBijection
  <2> HIDE DEF A, B
  <2> QED
    BY <1>2, <2>1, FS_Bijection
<1>5. Cardinality(A \ {1}) = Cardinality(A) - One(Head(q) \in M)
  <2>1. 1 \in A <=> Head(q) \in M
    BY <1>1
  <2> HIDE DEF A
  <2>2. Cardinality(A \ {1}) = IF 1 \in A THEN Cardinality(A) - 1 ELSE Cardinality(A)
    BY <1>2, FS_RemoveElement
  <2> QED
    BY <1>2, <2>1, <2>2 DEF One
<1> QED
  BY <1>4, <1>5 DEF Count

LEMMA BeforeAppend ==
  ASSUME NEW S, NEW q \in Seq(S), NEW x \in S, NEW A, NEW B,
         Before(q, A, B), x \in A => Count(q, B) = 0
  PROVE  Before(Append(q, x), A, B)
<1> DEFINE u == Append(q, x)
           n == Len(q) + 1
<1>1. /\ Len(q) \in Nat /\ DOMAIN q = 1..Len(q) /\ DOMAIN u = 1..n
      /\ u[n] = x /\ \A k \in DOMAIN q : u[k] = q[k]
      /\ \A j, k \in DOMAIN u : j < k => j \in DOMAIN q /\ (k \in DOMAIN q \/ k = n)
  OBVIOUS
<1>2. x \in A => \A k \in DOMAIN q : q[k] \notin B
  BY CountZero
<1> HIDE DEF u, n
<1>3. Before(u, A, B)
  BY <1>1, <1>2 DEF Before
<1> QED
  BY <1>3 DEF u

LEMMA BeforeTail ==
  ASSUME NEW S, NEW q \in Seq(S), q # <<>>, NEW A, NEW B, Before(q, A, B)
  PROVE  /\ Before(Tail(q), A, B)
         /\ Head(q) \in B => Count(Tail(q), A) = 0
<1> DEFINE u == Tail(q)
<1>1. /\ Len(q) \in Nat /\ DOMAIN q = 1..Len(q) /\ 1 \in DOMAIN q /\ Head(q) = q[1]
      /\ u \in Seq(S)
      /\ \A k \in DOMAIN u : u[k] = q[k + 1] /\ k + 1 \in DOMAIN q /\ 1 < k + 1
      /\ \A j, k \in DOMAIN u : j < k => j + 1 < k + 1
  OBVIOUS
<1> HIDE DEF u
<1>2. Before(u, A, B)
  BY <1>1 DEF Before
<1>3. Head(q) \in B => \A k \in DOMAIN u : u[k] \notin A
  BY <1>1 DEF Before
<1>4. Head(q) \in B => Count(u, A) = 0
  BY <1>1, <1>3, CountZero
<1> QED
  BY <1>2, <1>4 DEF u

-----------------------------------------------------------------------------
(* Tasks and events, and the tasks about one session.                      *)

ServerKind  == {"PostAccept", "Stop", "FinalStop"}
SessionKind == {"ArmConn", "StartRecv", "Enqueue", "Event", "Erase", "Teardown"}

\* Before a session is Started, nothing but an early stop disconnects it.
LegalOld == IF EarlyStop THEN {"Started", "Starting"} ELSE {"Started"}

LegalEvent == {e \in Event : e.t = "disconnect" => e.old \in LegalOld}
Disconnect == {e \in LegalEvent : e.t = "disconnect"}

\* The strand of io 0 has the tasks of the server and the manager, a session's
\* strand its own; only disconnects are queued from another strand.
TasksOf(i) == {x \in Task :
  /\ x.t \in ServerKind \cup {"Erase"} => i = 0
  /\ x.t \in SessionKind \ {"Erase"} => i = IoOf(x.s)
  /\ x.t = "Enqueue" => x.ev \in Disconnect
  /\ x.t \in {"Event", "Erase"} => x.old \in LegalOld}

BooksOK(c) ==
  /\ c \in [sess : [Session -> SessionState], strand : [Io -> Seq(Task)]]
  /\ \A i \in Io : c.strand[i] \in Seq(TasksOf(i))
  /\ \A s \in Session : c.sess[s].events \in Seq(LegalEvent)

Of(s, k)   == {x \in Task : x.t = k /\ x.s = s}
Arming(s)  == Of(s, "ArmConn") \cup Of(s, "StartRecv")
Home(s, k) == IF k = "Erase" THEN 0 ELSE IoOf(s)

\* How many tasks of a kind there are about a session, and of the server.
On(c, s, k) == Count(c.strand[Home(s, k)], Of(s, k))
Srv(c, k)   == Count(c.strand[0], {x \in Task : x.t = k})

\* What arms a timer or receives comes before the tear-down.
Ordered(c, s) == Before(c.strand[IoOf(s)], Arming(s), Of(s, "Teardown"))

\* Nothing changes for session t.
SameFor(c, d, t) ==
  /\ d.sess[t] = c.sess[t]
  /\ \A k \in SessionKind : On(d, t, k) = On(c, t, k)
  /\ Ordered(c, t) => Ordered(d, t)

LEMMA IoOfIo == \A s \in Session : IoOf(s) \in Io
BY ServerAssumption DEF IoOf, Io, Session

LEMMA HomeIo == 0 \in Io /\ \A s \in Session, k \in SessionKind : Home(s, k) \in Io
BY ServerAssumption, IoOfIo DEF Io, Home

LEMMA TaskShape ==
  ASSUME NEW x \in Task
  PROVE  /\ x.t \in ServerKind \cup SessionKind
         /\ x.t \in SessionKind => x.s \in Session
         /\ x.t = "Enqueue" => x.ev \in Event
BY DEF Task, ServerKind, SessionKind

LEMMA OnNat ==
  ASSUME NEW c, BooksOK(c)
  PROVE  /\ \A s \in Session, k \in SessionKind : On(c, s, k) \in Nat
         /\ \A k \in ServerKind : Srv(c, k) \in Nat
<1>1. \A i \in Io : c.strand[i] \in Seq(Task)
  BY DEF BooksOK
<1> QED
  BY <1>1, HomeIo, PlacesFinite DEF On, Srv

LEMMA PostBooks ==
  ASSUME NEW c, BooksOK(c), NEW i \in Io, NEW x \in TasksOf(i)
  PROVE  /\ BooksOK(PostTo(c, i, x))
         /\ PostTo(c, i, x).sess = c.sess
         /\ PostTo(c, i, x).strand = [c.strand EXCEPT ![i] = Append(@, x)]
<1> DEFINE d == PostTo(c, i, x)
<1>1. d.sess = c.sess /\ d.strand = [c.strand EXCEPT ![i] = Append(@, x)]
  BY DEF PostTo, BooksOK
<1>2. x \in Task
  BY DEF TasksOf
<1>3. \A j \in Io : c.strand[j] \in Seq(Task) /\ c.strand[j] \in Seq(TasksOf(j))
  BY DEF BooksOK
<1>4. Append(c.strand[i], x) \in Seq(Task) /\ Append(c.strand[i], x) \in Seq(TasksOf(i))
  BY <1>2, <1>3
<1>5. d \in [sess : [Session -> SessionState], strand : [Io -> Seq(Task)]]
  BY <1>4 DEF PostTo, BooksOK
<1>6. \A j \in Io : d.strand[j] \in Seq(TasksOf(j))
  BY <1>1, <1>3, <1>4 DEF BooksOK
<1> QED
  BY <1>1, <1>5, <1>6 DEF BooksOK

\* A task is posted where its kind says.
LEMMA PostOn ==
  ASSUME NEW c, BooksOK(c), NEW i \in Io, NEW x \in TasksOf(i),
         NEW d, d = PostTo(c, i, x)
  PROVE  /\ \A s \in Session, k \in SessionKind :
              On(d, s, k) = On(c, s, k) + One(x.t = k /\ x.s = s)
         /\ \A k \in ServerKind : Srv(d, k) = Srv(c, k) + One(x.t = k)
         /\ \A s \in Session :
              Ordered(c, s) /\ (x \in Arming(s) => On(c, s, "Teardown") = 0)
                => Ordered(d, s)
<1>1. d.strand = [c.strand EXCEPT ![i] = Append(@, x)]
  BY PostBooks
<1>2. \A j \in Io : /\ c.strand[j] \in Seq(Task)
                    /\ d.strand[j] = IF j = i THEN Append(c.strand[j], x) ELSE c.strand[j]
  BY <1>1 DEF BooksOK
<1>3. x \in Task /\ 0 \in Io
  BY HomeIo DEF TasksOf
<1>4. ASSUME NEW s \in Session, NEW k \in SessionKind
      PROVE  On(d, s, k) = On(c, s, k) + One(x.t = k /\ x.s = s)
  <2> DEFINE h == Home(s, k)
  <2>1. h \in Io /\ On(c, s, k) \in Nat
    BY HomeIo, OnNat
  <2>2. x \in Of(s, k) <=> x.t = k /\ x.s = s
    BY <1>3 DEF Of
  <2>3. CASE h = i
    <3>1. On(d, s, k) = On(c, s, k) + One(x \in Of(s, k))
      BY <1>2, <1>3, <2>1, <2>3, CountAppend DEF On
    <3> QED
      BY <2>2, <3>1
  <2>4. CASE h # i
    <3>1. ~(x.t = k /\ x.s = s)
      BY <2>4, <1>3 DEF TasksOf, Home, SessionKind
    <3>2. On(d, s, k) = On(c, s, k)
      BY <1>2, <2>1, <2>4 DEF On
    <3> QED
      BY <2>1, <3>1, <3>2 DEF One
  <2> QED
    BY <2>3, <2>4
<1>5. ASSUME NEW k \in ServerKind
      PROVE  Srv(d, k) = Srv(c, k) + One(x.t = k)
  <2>1. Srv(c, k) \in Nat
    BY OnNat
  <2>2. x \in {y \in Task : y.t = k} <=> x.t = k
    BY <1>3
  <2>3. CASE i = 0
    <3>1. Srv(d, k) = Srv(c, k) + One(x \in {y \in Task : y.t = k})
      BY <1>2, <1>3, <2>3, CountAppend DEF Srv
    <3> QED
      BY <2>2, <3>1
  <2>4. CASE i # 0
    <3>1. x.t # k
      BY <2>4 DEF TasksOf, ServerKind
    <3>2. Srv(d, k) = Srv(c, k)
      BY <1>2, <1>3, <2>4 DEF Srv
    <3> QED
      BY <2>1, <3>1, <3>2 DEF One
  <2> QED
    BY <2>3, <2>4
<1>6. ASSUME NEW s \in Session, Ordered(c, s), x \in Arming(s) => On(c, s, "Teardown") = 0
      PROVE  Ordered(d, s)
  <2>1. IoOf(s) \in Io
    BY IoOfIo
  <2>2. CASE i = IoOf(s)
    <3>1. x \in Arming(s) => Count(c.strand[i], Of(s, "Teardown")) = 0
      BY <1>6, <2>2 DEF On, Home
    <3>2. Before(c.strand[i], Arming(s), Of(s, "Teardown"))
      BY <1>6, <2>2 DEF Ordered
    <3>3. Before(Append(c.strand[i], x), Arming(s), Of(s, "Teardown"))
      BY <1>2, <1>3, <3>1, <3>2, BeforeAppend
    <3> QED
      BY <1>2, <2>2, <3>3 DEF Ordered
  <2>3. CASE i # IoOf(s)
    BY <1>2, <1>6, <2>1, <2>3 DEF Ordered
  <2> QED
    BY <2>2, <2>3
<1> QED
  BY <1>4, <1>5, <1>6

\* The books after the task x in front of strand i is taken.
TakenOut(i, x, d) ==
  /\ x \in TasksOf(i) /\ BooksOK(d) /\ d.sess = sess
  /\ d.strand = [strand EXCEPT ![i] = Tail(@)]
  /\ \A s \in Session, k \in SessionKind :
       On(d, s, k) = On(Here, s, k) - One(x.t = k /\ x.s = s)
  /\ \A k \in ServerKind : Srv(d, k) = Srv(Here, k) - One(x.t = k)
  /\ \A s \in Session : Ordered(Here, s) =>
       /\ Ordered(d, s)
       /\ x \in Of(s, "Teardown") => On(d, s, "ArmConn") = 0 /\ On(d, s, "StartRecv") = 0

\* Taking the front task off strand i leaves books that are in order.
LEMMA TakenOn ==
  ASSUME BooksOK(Here), NEW i \in Io, strand[i] # <<>>,
         NEW x, x = Head(strand[i]), NEW d, d = Taken(i)
  PROVE  TakenOut(i, x, d)
<1> DEFINE c == Here
<1>0. c.sess = sess /\ c.strand = strand
  BY DEF Here
<1>1. d.sess = sess /\ d.strand = [strand EXCEPT ![i] = Tail(@)]
  BY DEF Taken, Here
<1>2. \A j \in Io : /\ strand[j] \in Seq(Task) /\ strand[j] \in Seq(TasksOf(j))
                    /\ d.strand[j] = IF j = i THEN Tail(strand[j]) ELSE strand[j]
  BY <1>0, <1>1 DEF BooksOK
<1>3. x \in TasksOf(i) /\ x \in Task /\ 0 \in Io
  <2>1. x \in TasksOf(i)
    BY <1>2
  <2> QED
    BY <2>1, HomeIo DEF TasksOf
<1>4. BooksOK(d)
  <2>1. Tail(strand[i]) \in Seq(Task) /\ Tail(strand[i]) \in Seq(TasksOf(i))
    BY <1>2
  <2>2. d \in [sess : [Session -> SessionState], strand : [Io -> Seq(Task)]]
    BY <2>1 DEF Taken, Here, BooksOK
  <2>3. \A j \in Io : d.strand[j] \in Seq(TasksOf(j))
    BY <1>2, <2>1
  <2> QED
    BY <1>0, <1>1, <2>2, <2>3 DEF BooksOK
<1>5. ASSUME NEW s \in Session, NEW k \in SessionKind
      PROVE  On(d, s, k) = On(c, s, k) - One(x.t = k /\ x.s = s)
  <2> DEFINE h == Home(s, k)
  <2>1. h \in Io /\ On(c, s, k) \in Nat
    BY HomeIo, OnNat
  <2>2. x \in Of(s, k) <=> x.t = k /\ x.s = s
    BY <1>3 DEF Of
  <2>3. CASE h = i
    <3>1. On(d, s, k) = On(c, s, k) - One(x \in Of(s, k))
      BY <1>0, <1>2, <1>3, <2>1, <2>3, CountTail DEF On
    <3> QED
      BY <2>2, <3>1
  <2>4. CASE h # i
    <3>1. ~(x.t = k /\ x.s = s)
      BY <2>4, <1>3 DEF TasksOf, Home, SessionKind
    <3>2. On(d, s, k) = On(c, s, k)
      BY <1>0, <1>2, <2>1, <2>4 DEF On
    <3> QED
      BY <2>1, <3>1, <3>2 DEF One
  <2> QED
    BY <2>3, <2>4
<1>6. ASSUME NEW k \in ServerKind
      PROVE  Srv(d, k) = Srv(c, k) - One(x.t = k)
  <2>1. Srv(c, k) \in Nat
    BY OnNat
  <2>2. x \in {y \in Task : y.t = k} <=> x.t = k
    BY <1>3
  <2>3. CASE i = 0
    <3>1. Srv(d, k) = Srv(c, k) - One(x \in {y \in Task : y.t = k})
      BY <1>0, <1>2, <1>3, <2>3, CountTail DEF Srv
    <3> QED
      BY <2>2, <3>1
  <2>4. CASE i # 0
    <3>1. x.t # k
      BY <1>3, <2>4 DEF TasksOf, ServerKind
    <3>2. Srv(d, k) = Srv(c, k)
      BY <1>0, <1>2, <1>3, <2>4 DEF Srv
    <3> QED
      BY <2>1, <3>1, <3>2 DEF One
  <2> QED
    BY <2>3, <2>4
<1>7. ASSUME NEW s \in Session, Ordered(c, s)
      PROVE  Ordered(d, s) /\
             (x \in Of(s, "Teardown") => On(d, s, "ArmConn") = 0 /\ On(d, s, "StartRecv") = 0)
  <2>1. IoOf(s) \in Io
    BY IoOfIo
  <2>2. Before(strand[IoOf(s)], Arming(s), Of(s, "Teardown"))
    BY <1>0, <1>7 DEF Ordered
  <2>3. CASE i = IoOf(s)
    <3>1. /\ Before(Tail(strand[i]), Arming(s), Of(s, "Teardown"))
          /\ x \in Of(s, "Teardown") => Count(Tail(strand[i]), Arming(s)) = 0
      BY <1>2, <2>2, <2>3, BeforeTail
    <3>2. Tail(strand[i]) \in Seq(Task)
      BY <1>2
    <3>3. Count(Tail(strand[i]), Arming(s)) = 0 =>
            /\ Count(Tail(strand[i]), Of(s, "ArmConn")) = 0
            /\ Count(Tail(strand[i]), Of(s, "StartRecv")) = 0
      <4> DEFINE u == Tail(strand[i])
      <4>1. /\ Count(u, Arming(s)) = 0 <=> \A k \in DOMAIN u : u[k] \notin Arming(s)
            /\ Count(u, Of(s, "ArmConn")) = 0 <=> \A k \in DOMAIN u : u[k] \notin Of(s, "ArmConn")
            /\ Count(u, Of(s, "StartRecv")) = 0 <=> \A k \in DOMAIN u : u[k] \notin Of(s, "StartRecv")
        BY <3>2, CountZero
      <4> HIDE DEF u
      <4>2. Count(u, Arming(s)) = 0 =>
              Count(u, Of(s, "ArmConn")) = 0 /\ Count(u, Of(s, "StartRecv")) = 0
        BY <4>1 DEF Arming
      <4> QED
        BY <4>2 DEF u
    <3> QED
      BY <1>2, <2>3, <3>1, <3>3 DEF Ordered, On, Home
  <2>4. CASE i # IoOf(s)
    <3>1. x \notin Of(s, "Teardown")
      BY <1>3, <2>4 DEF TasksOf, Of, SessionKind
    <3> QED
      BY <1>2, <2>1, <2>2, <2>4, <3>1 DEF Ordered
  <2> QED
    BY <2>3, <2>4
<1> QED
  BY <1>1, <1>3, <1>4, <1>5, <1>6, <1>7 DEF TakenOut

-----------------------------------------------------------------------------
(* What an operator does to the session it is about, and to nothing else.  *)

Put(c, s, w) == [c EXCEPT !.sess[s] = w]

Queued(v)   == Count(v.events, Disconnect)
Front(v, t) == v.events # <<>> /\ Head(v.events).t = t
TasksAtFront(c, s) == On(c, s, "Event") + On(c, s, "Erase") + On(c, s, "Teardown")

\* v becomes w: only its state, its events and its write change.
SameBut(v, w) ==
  /\ w.sock = v.sock /\ w.reg = v.reg /\ w.counter = v.counter /\ w.told = v.told
  /\ w.connCanceled = v.connCanceled /\ w.timedOut = v.timedOut
  /\ w.silenceCanceled = v.silenceCanceled
  /\ \A k \in SessionOp \ {"write"} : w.op[k] = v.op[k]
  /\ w.op["write"] = "pending" => v.op["write"] = "pending" \/ v.sock = "open"

Touches(c, d, s) ==
  /\ BooksOK(d)
  /\ SameBut(c.sess[s], d.sess[s])
  /\ \A k \in SessionKind \ {"Enqueue", "Event"} : On(d, s, k) = On(c, s, k)
  /\ Ordered(c, s) => Ordered(d, s)
  /\ \A t \in Session \ {s} : SameFor(c, d, t)
  /\ \A k \in ServerKind : Srv(d, k) = Srv(c, k)
  /\ \A j \in Io \ {IoOf(s)} : d.strand[j] = c.strand[j]

LEMMA PutBooks ==
  ASSUME NEW c, BooksOK(c), NEW s \in Session, NEW w \in SessionState,
         w.events \in Seq(LegalEvent), NEW d, d = Put(c, s, w)
  PROVE  /\ BooksOK(d) /\ d.sess[s] = w /\ d.strand = c.strand
         /\ \A k \in SessionKind : On(d, s, k) = On(c, s, k)
         /\ Ordered(c, s) => Ordered(d, s)
         /\ \A t \in Session \ {s} : SameFor(c, d, t)
         /\ \A k \in ServerKind : Srv(d, k) = Srv(c, k)
<1>1. d.strand = c.strand /\ d.sess = [c.sess EXCEPT ![s] = w]
  BY DEF Put, BooksOK
<1>2. d \in [sess : [Session -> SessionState], strand : [Io -> Seq(Task)]]
  BY DEF Put, BooksOK
<1>3. \A t \in Session : d.sess[t] = IF t = s THEN w ELSE c.sess[t]
  BY <1>1 DEF BooksOK
<1>4. BooksOK(d)
  BY <1>1, <1>2, <1>3 DEF BooksOK
<1>5. /\ \A t, k : On(d, t, k) = On(c, t, k)
      /\ \A t : Ordered(d, t) <=> Ordered(c, t)
      /\ \A k : Srv(d, k) = Srv(c, k)
  BY <1>1 DEF On, Ordered, Srv
<1> QED
  BY <1>1, <1>3, <1>4, <1>5 DEF SameFor

LEMMA PutTouches ==
  ASSUME NEW c, BooksOK(c), NEW s \in Session, NEW w \in SessionState,
         w.events \in Seq(LegalEvent), SameBut(c.sess[s], w), NEW d, d = Put(c, s, w)
  PROVE  Touches(c, d, s) /\ d.sess[s] = w
         /\ \A k \in SessionKind : On(d, s, k) = On(c, s, k)
<1>1. /\ BooksOK(d) /\ d.sess[s] = w /\ d.strand = c.strand
      /\ \A k \in SessionKind : On(d, s, k) = On(c, s, k)
      /\ Ordered(c, s) => Ordered(d, s)
      /\ \A t \in Session \ {s} : SameFor(c, d, t)
      /\ \A k \in ServerKind : Srv(d, k) = Srv(c, k)
  BY PutBooks
<1> QED
  BY <1>1 DEF Touches

LEMMA PostTouches ==
  ASSUME NEW c, BooksOK(c), NEW s \in Session, NEW x \in TasksOf(IoOf(s)),
         x.t \in {"Enqueue", "Event"}, x.s = s, NEW d, d = Post(c, x)
  PROVE  /\ Touches(c, d, s) /\ d.sess = c.sess
         /\ On(d, s, "Enqueue") = On(c, s, "Enqueue") + One(x.t = "Enqueue")
         /\ On(d, s, "Event") = On(c, s, "Event") + One(x.t = "Event")
<1>1. IoOf(s) \in Io /\ d = PostTo(c, IoOf(s), x)
  BY IoOfIo DEF Post
<1>2. BooksOK(d) /\ d.sess = c.sess /\ d.strand = [c.strand EXCEPT ![IoOf(s)] = Append(@, x)]
  BY <1>1, PostBooks
<1>3. \A j \in Io \ {IoOf(s)} : d.strand[j] = c.strand[j]
  BY <1>2 DEF BooksOK
<1>4. x \notin Arming(s) /\ \A t \in Session : x \notin Arming(t)
  BY DEF Arming, Of
<1>5. /\ \A t \in Session, k \in SessionKind :
           On(d, t, k) = On(c, t, k) + One(x.t = k /\ t = s)
      /\ \A k \in ServerKind : Srv(d, k) = Srv(c, k) + One(x.t = k)
      /\ \A t \in Session : Ordered(c, t) => Ordered(d, t)
  BY <1>1, <1>4, PostOn
<1>6. /\ \A t \in Session, k \in SessionKind : On(c, t, k) \in Nat
      /\ \A k \in ServerKind : Srv(c, k) \in Nat
  BY OnNat
<1>7. /\ \A k \in SessionKind \ {"Enqueue", "Event"} : On(d, s, k) = On(c, s, k)
      /\ \A t \in Session \ {s}, k \in SessionKind : On(d, t, k) = On(c, t, k)
      /\ \A k \in ServerKind : Srv(d, k) = Srv(c, k)
  BY <1>5, <1>6 DEF One, ServerKind, SessionKind
<1>8. SameBut(c.sess[s], d.sess[s])
  BY <1>2 DEF SameBut
<1> QED
  BY <1>2, <1>3, <1>5, <1>7, <1>8 DEF Touches, SameFor, SessionKind

LEMMA TouchesTwice ==
  ASSUME NEW c, NEW d, NEW e, NEW s \in Session, Touches(c, d, s), Touches(d, e, s)
  PROVE  Touches(c, e, s)
BY DEF Touches, SameBut, SameFor

-----------------------------------------------------------------------------
(* The session's events: the one in front has its task or its write.       *)

\* n disconnects are queued or about to be, and the event in front is run.
Balance(c, s, n) ==
  /\ Queued(c.sess[s]) + On(c, s, "Enqueue") = n
  /\ TasksAtFront(c, s) = One(Front(c.sess[s], "disconnect"))
  /\ c.sess[s].op["write"] # "none" <=> Front(c.sess[s], "send")

\* The same where the event in front is not run, or its handler is at work.
Carried(c, s, n) ==
  /\ Queued(c.sess[s]) + On(c, s, "Enqueue") = n
  /\ TasksAtFront(c, s) = 0
  /\ c.sess[s].op["write"] = "none"
  /\ c.sess[s].events # <<>>

LEMMA EventShape ==
  \A e \in LegalEvent : e.t \in {"send", "disconnect"} /\ (e \in Disconnect <=> e.t = "disconnect")
BY DEF LegalEvent, Event, Disconnect

LEMMA QueuedNat ==
  ASSUME NEW c, BooksOK(c), NEW s \in Session
  PROVE  /\ Queued(c.sess[s]) \in Nat
         /\ c.sess[s] \in SessionState /\ c.sess[s].events \in Seq(LegalEvent)
<1>1. c.sess[s] \in SessionState /\ c.sess[s].events \in Seq(LegalEvent)
  BY DEF BooksOK
<1> QED
  BY <1>1, PlacesFinite DEF Queued

\* The session with events or a write of its own.
LEMMA SetEvents ==
  ASSUME NEW v \in SessionState, NEW q \in Seq(LegalEvent),
         NEW w, w = [v EXCEPT !.events = q]
  PROVE  /\ w \in SessionState /\ SameBut(v, w) /\ w.events = q
         /\ w.st = v.st /\ w.op = v.op
<1>1. q \in Seq(Event)
  BY DEF LegalEvent
<1> QED
  BY <1>1 DEF SessionState, SameBut

LEMMA SetWrite ==
  ASSUME NEW v \in SessionState, NEW o \in OpState,
         o = "pending" => v.op["write"] = "pending" \/ v.sock = "open",
         NEW w, w = [v EXCEPT !.op["write"] = o]
  PROVE  /\ w \in SessionState /\ SameBut(v, w) /\ w.events = v.events
         /\ w.st = v.st /\ w.op["write"] = o
<1>1. v.op \in [SessionOp -> OpState] /\ "write" \in SessionOp
  BY DEF SessionState, SessionOp
<1>2. w = [v EXCEPT !.op = [v.op EXCEPT !["write"] = o]]
  OBVIOUS
<1>3. [v.op EXCEPT !["write"] = o] \in [SessionOp -> OpState]
  BY <1>1
<1>4. /\ [v.op EXCEPT !["write"] = o]["write"] = o
      /\ \A k \in SessionOp \ {"write"} : [v.op EXCEPT !["write"] = o][k] = v.op[k]
  BY <1>1
<1> QED
  BY <1>2, <1>3, <1>4 DEF SessionState, SameBut

LEMMA AppendFront ==
  ASSUME NEW S, NEW q \in Seq(S), q # <<>>, NEW e \in S
  PROVE  Append(q, e) # <<>> /\ Head(Append(q, e)) = Head(q)
OBVIOUS

LEMMA RunFrontOK ==
  ASSUME NEW c, BooksOK(c), NEW s \in Session, NEW n \in Nat, Carried(c, s, n),
         NEW d, d = RunFront(c, s)
  PROVE  /\ Touches(c, d, s) /\ Balance(d, s, n)
         /\ d.sess[s].st = c.sess[s].st
<1> DEFINE v == c.sess[s]
           e == Head(v.events)
<1>1. v \in SessionState /\ v.events \in Seq(LegalEvent) /\ Queued(v) \in Nat
  BY QueuedNat
<1>2. e \in LegalEvent /\ v.events # <<>>
  BY <1>1 DEF Carried
<1>3. /\ On(c, s, "Enqueue") \in Nat /\ On(c, s, "Event") = 0
      /\ On(c, s, "Erase") = 0 /\ On(c, s, "Teardown") = 0
  BY OnNat DEF SessionKind, Carried, TasksAtFront
<1>4. CASE e.t = "send"
  <2> DEFINE o == IF v.sock = "open" THEN "pending" ELSE "cancelled"
             w == [v EXCEPT !.op["write"] = o]
  <2>1. d = Put(c, s, w)
    BY <1>4 DEF RunFront, AsyncWrite, Put
  <2>2. /\ w \in SessionState /\ SameBut(v, w) /\ w.events = v.events
        /\ w.st = v.st /\ w.op["write"] = o
    BY <1>1, SetWrite DEF OpState
  <2> HIDE DEF w
  <2>3. Touches(c, d, s) /\ d.sess[s] = w /\ \A k \in SessionKind : On(d, s, k) = On(c, s, k)
    BY <1>1, <2>1, <2>2, PutTouches
  <2>4. On(d, s, "Enqueue") = On(c, s, "Enqueue") /\ TasksAtFront(d, s) = 0
    BY <1>3, <2>3 DEF SessionKind, TasksAtFront
  <2>5. Front(w, "send") /\ ~Front(w, "disconnect") /\ Queued(w) = Queued(v)
    BY <1>2, <1>4, <2>2 DEF Front, Queued
  <2> QED
    BY <2>2, <2>3, <2>4, <2>5 DEF Balance, Carried, One
<1>5. CASE e.t # "send"
  <2> DEFINE x == [t |-> "Event", s |-> s, old |-> e.old]
  <2>1. d = Post(c, x)
    BY <1>5 DEF RunFront
  <2>2. x \in TasksOf(IoOf(s))
    <3>1. e.old \in LegalOld
      BY <1>2, <1>5, EventShape DEF LegalEvent
    <3>2. x \in Task
      BY <3>1 DEF Task, LegalOld
    <3> QED
      BY <3>1, <3>2 DEF TasksOf, ServerKind
  <2>3. x.t = "Event" /\ x.s = s
    OBVIOUS
  <2> HIDE DEF x
  <2>4. /\ Touches(c, d, s) /\ d.sess = c.sess
        /\ On(d, s, "Enqueue") = On(c, s, "Enqueue") + One(x.t = "Enqueue")
        /\ On(d, s, "Event") = On(c, s, "Event") + One(x.t = "Event")
    BY <2>1, <2>2, <2>3, PostTouches
  <2>5. On(d, s, "Erase") = 0 /\ On(d, s, "Teardown") = 0
    BY <1>3, <2>4 DEF Touches, SessionKind
  <2>6. On(d, s, "Enqueue") = On(c, s, "Enqueue") /\ TasksAtFront(d, s) = 1
    BY <1>3, <2>3, <2>4, <2>5 DEF TasksAtFront, One
  <2>7. ~Front(v, "send") /\ Front(v, "disconnect")
    BY <1>2, <1>5, EventShape DEF Front
  <2> QED
    BY <2>4, <2>6, <2>7 DEF Balance, Carried, One
<1> QED
  BY <1>4, <1>5

LEMMA EnqueueBalance ==
  ASSUME NEW c, BooksOK(c), NEW s \in Session, NEW e \in LegalEvent, NEW n \in Nat,
         NEW d, d = EventEnqueue(c, s, e)
  PROVE  /\ Balance(c, s, n) => /\ Touches(c, d, s) /\ d.sess[s].st = c.sess[s].st
                                /\ Balance(d, s, n + One(e.t = "disconnect"))
         /\ Carried(c, s, n) => /\ Touches(c, d, s) /\ d.sess[s].st = c.sess[s].st
                                /\ Carried(d, s, n + One(e.t = "disconnect"))
                                /\ Head(d.sess[s].events) = Head(c.sess[s].events)
<1> DEFINE v == c.sess[s]
           q == Append(v.events, e)
           w == [v EXCEPT !.events = q]
           f == [c EXCEPT !.sess[s].events = Append(@, e)]
           m == n + One(e.t = "disconnect")
<1>1. v \in SessionState /\ v.events \in Seq(LegalEvent) /\ Queued(v) \in Nat
  BY QueuedNat
<1>2. q \in Seq(LegalEvent) /\ q # <<>>
  BY <1>1
<1>3. w \in SessionState /\ SameBut(v, w) /\ w.events = q /\ w.st = v.st /\ w.op = v.op
  <2>1. w = [v EXCEPT !.events = q]
    OBVIOUS
  <2> HIDE DEF v, w, q
  <2> QED
    BY <1>1, <1>2, <2>1, SetEvents
<1>4. f = Put(c, s, w)
  BY DEF Put
<1>5. d = IF v.events = <<>> THEN RunFront(f, s) ELSE f
  BY DEF EventEnqueue
<1>6. Queued(w) = Queued(v) + One(e.t = "disconnect")
  <2>1. Count(q, Disconnect) = Count(v.events, Disconnect) + One(e \in Disconnect)
    BY <1>1, CountAppend
  <2> QED
    BY <1>3, <2>1, EventShape DEF Queued
<1>7. m \in Nat
  BY DEF One
<1> HIDE DEF w, f, q
<1>8. Touches(c, f, s) /\ f.sess[s] = w /\ \A k \in SessionKind : On(f, s, k) = On(c, s, k)
  BY <1>1, <1>2, <1>3, <1>4, PutTouches
<1>9. /\ On(f, s, "Enqueue") = On(c, s, "Enqueue") /\ On(c, s, "Enqueue") \in Nat
      /\ TasksAtFront(f, s) = TasksAtFront(c, s)
  BY <1>8, OnNat DEF SessionKind, TasksAtFront
<1>10. Queued(v) + On(c, s, "Enqueue") = n => Queued(w) + On(f, s, "Enqueue") = m
  BY <1>1, <1>6, <1>9 DEF One
<1>11. v.events # <<>> => Head(q) = Head(v.events)
  BY <1>1, AppendFront DEF q
<1>12. ASSUME Carried(c, s, n)
       PROVE  /\ Touches(c, d, s) /\ d.sess[s].st = v.st
              /\ Carried(d, s, m) /\ Head(d.sess[s].events) = Head(v.events)
  <2>1. v.events # <<>> /\ d = f
    BY <1>5, <1>12 DEF Carried
  <2>2. Carried(f, s, m)
    BY <1>2, <1>3, <1>8, <1>9, <1>10, <1>12 DEF Carried
  <2> QED
    BY <1>3, <1>8, <1>11, <2>1, <2>2
<1>13. ASSUME Balance(c, s, n), v.events # <<>>
       PROVE  Touches(c, d, s) /\ d.sess[s].st = v.st /\ Balance(d, s, m)
  <2>1. \A t : Front(w, t) <=> Front(v, t)
    BY <1>2, <1>3, <1>11, <1>13 DEF Front
  <2>2. One(Front(w, "disconnect")) = One(Front(v, "disconnect"))
    BY <2>1 DEF One
  <2>3. Balance(f, s, m)
    <3>1. Queued(w) + On(f, s, "Enqueue") = m
      BY <1>10, <1>13 DEF Balance
    <3>2. TasksAtFront(f, s) = One(Front(w, "disconnect"))
      BY <1>9, <1>13, <2>2 DEF Balance
    <3>3. w.op["write"] # "none" <=> Front(w, "send")
      BY <1>3, <1>13, <2>1 DEF Balance
    <3> QED
      BY <1>8, <3>1, <3>2, <3>3 DEF Balance
  <2> QED
    BY <1>3, <1>5, <1>8, <1>13, <2>3
<1>14. ASSUME Balance(c, s, n), v.events = <<>>
       PROVE  Touches(c, d, s) /\ d.sess[s].st = v.st /\ Balance(d, s, m)
  <2>1. Carried(f, s, m)
    BY <1>2, <1>3, <1>8, <1>9, <1>10, <1>14 DEF Balance, Carried, Front, One
  <2>2. d = RunFront(f, s) /\ BooksOK(f)
    BY <1>5, <1>8, <1>14 DEF Touches
  <2>3. Touches(f, d, s) /\ Balance(d, s, m) /\ d.sess[s].st = f.sess[s].st
    BY <1>7, <2>1, <2>2, RunFrontOK
  <2> QED
    BY <1>3, <1>8, <2>3, TouchesTwice
<1> QED
  BY <1>12, <1>13, <1>14

\* The handler of the event in front ends.
LEMMA NextBalance ==
  ASSUME NEW c, BooksOK(c), NEW s \in Session, NEW n \in Nat, Carried(c, s, n),
         NEW d, d = NextEvent(c, s)
  PROVE  /\ Touches(c, d, s) /\ d.sess[s].st = c.sess[s].st
         /\ Balance(d, s, n - One(Front(c.sess[s], "disconnect")))
<1> DEFINE v == c.sess[s]
           q == Tail(v.events)
           w == [v EXCEPT !.events = q]
           f == [c EXCEPT !.sess[s].events = Tail(@)]
           m == n - One(Front(v, "disconnect"))
<1>1. v \in SessionState /\ v.events \in Seq(LegalEvent) /\ Queued(v) \in Nat
  BY QueuedNat
<1>2. q \in Seq(LegalEvent) /\ v.events # <<>> /\ Head(v.events) \in LegalEvent
  BY <1>1 DEF Carried
<1>3. w \in SessionState /\ SameBut(v, w) /\ w.events = q /\ w.st = v.st /\ w.op = v.op
  <2>1. w = [v EXCEPT !.events = q]
    OBVIOUS
  <2> HIDE DEF v, w, q
  <2> QED
    BY <1>1, <1>2, <2>1, SetEvents
<1>4. f = Put(c, s, w)
  BY DEF Put
<1>5. d = IF f.sess[s].events = <<>> THEN f ELSE RunFront(f, s)
  BY DEF NextEvent
<1>6. Queued(w) = Queued(v) - One(Front(v, "disconnect"))
  <2>1. Count(q, Disconnect) = Count(v.events, Disconnect) - One(Head(v.events) \in Disconnect)
    BY <1>1, <1>2, CountTail
  <2>2. Head(v.events) \in Disconnect <=> Front(v, "disconnect")
    BY <1>2, EventShape DEF Front
  <2> HIDE DEF v, w, q
  <2> QED
    BY <1>3, <2>1, <2>2 DEF Queued, One
<1> HIDE DEF w, f, q
<1>7. Queued(w) \in Nat
  BY <1>2, <1>3, PlacesFinite DEF Queued
<1>8. Touches(c, f, s) /\ f.sess[s] = w /\ \A k \in SessionKind : On(f, s, k) = On(c, s, k)
  BY <1>1, <1>2, <1>3, <1>4, PutTouches
<1>9. /\ On(f, s, "Enqueue") = On(c, s, "Enqueue") /\ On(c, s, "Enqueue") \in Nat
      /\ TasksAtFront(f, s) = 0
  BY <1>8, OnNat DEF SessionKind, TasksAtFront, Carried
<1>10. Queued(w) + On(f, s, "Enqueue") = m /\ m \in Nat
  BY <1>1, <1>6, <1>7, <1>9 DEF Carried, One
<1>11. w.op["write"] = "none"
  BY <1>3 DEF Carried
<1>12. CASE q = <<>>
  <2>1. d = f
    BY <1>3, <1>5, <1>8, <1>12
  <2>2. Balance(f, s, m)
    BY <1>3, <1>8, <1>9, <1>10, <1>11, <1>12 DEF Balance, Front, One
  <2> QED
    BY <1>3, <1>8, <2>1, <2>2
<1>13. CASE q # <<>>
  <2>1. d = RunFront(f, s) /\ BooksOK(f)
    BY <1>3, <1>5, <1>8, <1>13 DEF Touches
  <2>2. Carried(f, s, m)
    BY <1>3, <1>8, <1>9, <1>10, <1>11, <1>13 DEF Carried
  <2>3. Touches(f, d, s) /\ Balance(d, s, m) /\ d.sess[s].st = f.sess[s].st
    BY <1>10, <2>1, <2>2, RunFrontOK
  <2> QED
    BY <1>3, <1>8, <2>3, TouchesTwice
<1> QED
  BY <1>12, <1>13

-----------------------------------------------------------------------------
(* What holds of a session.                                                *)

\* HandleAccept is at work on session s; before it is Started.
Accepting(r, s) ==
  r.s = s /\ r.pc \in {"accepted", "done", "state", "fire", "check", "emplace"}
Entering(r, s) == r.s = s /\ r.pc \in {"accepted", "done", "state"}

\* A session Stopping has one disconnect on its way, which ends in a tear-down.
Leaving(c, s) ==
  LET v == c.sess[s] IN
  /\ Balance(c, s, One(v.st = "Stopping") + On(c, s, "Teardown"))
  /\ On(c, s, "Teardown") > 0 => v.st = "Stopped" /\ v.sock = "open"
  /\ Ordered(c, s)

\* From its acceptance to its tear-down the session holds the counter, and from
\* its start to its disconnect HandleAccept or the manager has it.
Life(c, s, r) ==
  LET v == c.sess[s] IN
  /\ v.st = "Starting" => Entering(r, s)
  /\ v.st = "Started" => v.reg \/ (Accepting(r, s) /\ ~Entering(r, s))
  /\ Accepting(r, s) => v.st # "Stopped" /\ ~v.reg
  /\ v.sock = "none" => v = NewSession /\ \A k \in SessionKind : On(c, s, k) = 0
  /\ v.counter <=> v.sock = "open"
  /\ v.st # "Stopped" => v.sock = "open"
  /\ v.sock = "open" => v.st # "Stopped" \/ On(c, s, "Teardown") > 0
  /\ v.reg => v.st # "Stopped"
  /\ v.told = "connected" => v.st \notin {"Stopped", "Starting"}
  /\ v.sock = "closed" => /\ v.silenceCanceled /\ \A k \in SessionOp : v.op[k] # "pending"
                          /\ On(c, s, "ArmConn") = 0 /\ On(c, s, "StartRecv") = 0

\* The connect timeout is armed once, and cancelled before the session is Started.
Timeout(c, s, r) ==
  LET v == c.sess[s] IN
  /\ v.op["conn"] # "none" => On(c, s, "ArmConn") = 0
  /\ On(c, s, "ArmConn") <= 1
  /\ r.s = s /\ r.pc = "accepted" => v.op["conn"] = "none" /\ On(c, s, "ArmConn") = 0
  /\ v.st = "Started" \/ (r.s = s /\ r.pc = "state") =>
       (v.op["conn"] # "none" \/ On(c, s, "ArmConn") > 0 => v.connCanceled)

\* Unless it is stopped early, nothing happens to a session that is Starting.
Undisturbed(c, s, r) ==
  LET v == c.sess[s] IN
  /\ v.st = "Starting" =>
       /\ v.op["silence"] = "none" /\ v.op["recv"] = "none" /\ v.op["write"] = "none"
       /\ ~v.timedOut /\ On(c, s, "StartRecv") = 0
  /\ Entering(r, s) => v.st = "Starting"
  /\ r.pc = "state" => ~r.ec

SessionInv(c, s, r) ==
  /\ Leaving(c, s) /\ Life(c, s, r) /\ Timeout(c, s, r)
  /\ ~EarlyStop => Undisturbed(c, s, r)

LEMMA SameKeeps ==
  ASSUME NEW c, NEW d, NEW s, SameFor(c, d, s), NEW r, SessionInv(c, s, r)
  PROVE  SessionInv(d, s, r)
<1>1. d.sess[s] = c.sess[s] /\ \A k \in SessionKind : On(d, s, k) = On(c, s, k)
  BY DEF SameFor
<1>2. /\ On(d, s, "ArmConn") = On(c, s, "ArmConn")
      /\ On(d, s, "StartRecv") = On(c, s, "StartRecv")
      /\ On(d, s, "Enqueue") = On(c, s, "Enqueue")
      /\ On(d, s, "Event") = On(c, s, "Event")
      /\ On(d, s, "Erase") = On(c, s, "Erase")
      /\ On(d, s, "Teardown") = On(c, s, "Teardown")
  BY <1>1 DEF SessionKind
<1>3. Leaving(d, s)
  BY <1>1, <1>2 DEF SessionInv, Leaving, Balance, TasksAtFront, SameFor
<1>4. Life(d, s, r) /\ Timeout(d, s, r) /\ (~EarlyStop => Undisturbed(d, s, r))
  BY <1>1, <1>2 DEF SessionInv, Life, Timeout, Undisturbed
<1> QED
  BY <1>3, <1>4 DEF SessionInv

LEMMA TouchKeeps ==
  ASSUME NEW c, NEW d, NEW s \in Session, NEW r,
         Touches(c, d, s), SessionInv(c, s, r), c.sess[s].sock # "none",
         \/ d.sess[s].st = c.sess[s].st
         \/ c.sess[s].st \in {"Started", "Starting"} /\ d.sess[s].st = "Stopping",
         ~EarlyStop /\ c.sess[s].st = "Starting" =>
           d.sess[s].st = "Starting" /\ d.sess[s].op["write"] = "none",
         Balance(d, s, One(d.sess[s].st = "Stopping") + On(d, s, "Teardown"))
  PROVE  SessionInv(d, s, r)
<1>1. /\ On(d, s, "ArmConn") = On(c, s, "ArmConn")
      /\ On(d, s, "StartRecv") = On(c, s, "StartRecv")
      /\ On(d, s, "Erase") = On(c, s, "Erase")
      /\ On(d, s, "Teardown") = On(c, s, "Teardown")
      /\ Ordered(d, s)
  BY DEF Touches, SessionKind, SessionInv, Leaving
<1>2. SameBut(c.sess[s], d.sess[s])
  BY DEF Touches
<1>3. /\ \A k \in SessionOp : d.sess[s].op[k] = "pending" =>
           c.sess[s].op[k] = "pending" \/ c.sess[s].sock = "open"
      /\ d.sess[s].op["conn"] = c.sess[s].op["conn"]
      /\ d.sess[s].op["silence"] = c.sess[s].op["silence"]
      /\ d.sess[s].op["recv"] = c.sess[s].op["recv"]
  BY <1>2 DEF SameBut, SessionOp
<1>4. Leaving(d, s)
  BY <1>1, <1>2 DEF Leaving, SessionInv, SameBut
<1>5. Life(d, s, r)
  BY <1>1, <1>2, <1>3 DEF SessionInv, Life, SameBut
<1>6. Timeout(d, s, r)
  BY <1>1, <1>2, <1>3 DEF SessionInv, Timeout, SameBut
<1>7. ~EarlyStop => Undisturbed(d, s, r)
  BY <1>1, <1>2, <1>3 DEF SessionInv, Undisturbed, SameBut
<1> QED
  BY <1>4, <1>5, <1>6, <1>7 DEF SessionInv

StateStopping(c, s) == [c EXCEPT !.sess[s].st = "Stopping"]

LEMMA SetState ==
  ASSUME NEW c, BooksOK(c), NEW s \in Session, NEW d, d = StateStopping(c, s)
  PROVE  /\ Touches(c, d, s) /\ d.sess[s].st = "Stopping"
         /\ \A n : Balance(c, s, n) => Balance(d, s, n)
         /\ \A n : Carried(c, s, n) => Carried(d, s, n)
         /\ d.sess[s].events = c.sess[s].events
<1> DEFINE v == c.sess[s]
           w == [v EXCEPT !.st = "Stopping"]
<1>1. v \in SessionState /\ v.events \in Seq(LegalEvent)
  BY QueuedNat
<1>2. /\ w \in SessionState /\ SameBut(v, w) /\ w.st = "Stopping"
      /\ w.events = v.events /\ w.op = v.op
  BY <1>1 DEF SessionState, SameBut, NetState
<1>3. d = Put(c, s, w)
  BY DEF Put, StateStopping
<1> HIDE DEF w
<1>4. Touches(c, d, s) /\ d.sess[s] = w /\ \A k \in SessionKind : On(d, s, k) = On(c, s, k)
  BY <1>1, <1>2, <1>3, PutTouches
<1>5. On(d, s, "Enqueue") = On(c, s, "Enqueue") /\ TasksAtFront(d, s) = TasksAtFront(c, s)
  BY <1>4 DEF SessionKind, TasksAtFront
<1>6. Queued(w) = Queued(v) /\ \A t : Front(w, t) = Front(v, t)
  BY <1>2 DEF Queued, Front
<1> QED
  BY <1>2, <1>4, <1>5, <1>6 DEF Balance, Carried

LEMMA DisconnectOK ==
  ASSUME NEW c, BooksOK(c), NEW s \in Session, NEW i,
         c.sess[s].st = "Starting" => EarlyStop,
         NEW n \in Nat, NEW d, d = DoDisconnect(c, i, s)
  PROVE  /\ c.sess[s].st \notin {"Started", "Starting"} => d = c
         /\ c.sess[s].st \in {"Started", "Starting"} =>
              /\ Balance(c, s, n) =>
                   /\ Touches(c, d, s) /\ d.sess[s].st = "Stopping"
                   /\ Balance(d, s, n + 1)
              /\ i = IoOf(s) /\ Carried(c, s, n) =>
                   /\ Touches(c, d, s) /\ d.sess[s].st = "Stopping"
                   /\ Carried(d, s, n + 1) /\ Head(d.sess[s].events) = Head(c.sess[s].events)
<1>1. CASE c.sess[s].st \notin {"Started", "Starting"}
  BY <1>1 DEF DoDisconnect
<1>2. CASE c.sess[s].st \in {"Started", "Starting"}
  <2> DEFINE e == [t |-> "disconnect", old |-> c.sess[s].st]
             f == StateStopping(c, s)
             x == [t |-> "Enqueue", s |-> s, ev |-> e]
  <2>1. e \in LegalEvent /\ e \in Disconnect /\ e.t = "disconnect"
    BY <1>2 DEF LegalEvent, Disconnect, Event, LegalOld
  <2>2. d = IF i = IoOf(s) THEN EventEnqueue(f, s, e) ELSE Post(f, x)
    BY <1>2 DEF DoDisconnect, EnqueueFrom, StateStopping
  <2>3. x \in TasksOf(IoOf(s)) /\ x.t = "Enqueue" /\ x.s = s
    <3>1. x \in Task
      BY <2>1 DEF Task, LegalEvent
    <3> HIDE DEF e
    <3> QED
      BY <2>1, <3>1 DEF TasksOf, ServerKind
  <2>4. f = StateStopping(c, s)
    OBVIOUS
  <2> HIDE DEF e, f, x
  <2>5. /\ Touches(c, f, s) /\ f.sess[s].st = "Stopping" /\ BooksOK(f)
        /\ Balance(c, s, n) => Balance(f, s, n)
        /\ Carried(c, s, n) => Carried(f, s, n)
        /\ f.sess[s].events = c.sess[s].events
    BY <2>4, SetState DEF Touches
  <2>6. CASE i = IoOf(s)
    <3>1. n + One(e.t = "disconnect") = n + 1
      BY <2>1 DEF One
    <3>2. d = EventEnqueue(f, s, e)
      BY <2>2, <2>6
    <3>3. /\ Balance(f, s, n) => /\ Touches(f, d, s) /\ d.sess[s].st = f.sess[s].st
                                 /\ Balance(d, s, n + One(e.t = "disconnect"))
          /\ Carried(f, s, n) => /\ Touches(f, d, s) /\ d.sess[s].st = f.sess[s].st
                                 /\ Carried(d, s, n + One(e.t = "disconnect"))
                                 /\ Head(d.sess[s].events) = Head(f.sess[s].events)
      BY <2>1, <2>5, <3>2, EnqueueBalance
    <3> QED
      BY <1>2, <2>5, <3>1, <3>3, TouchesTwice
  <2>7. CASE i # IoOf(s)
    <3>1. d = Post(f, x)
      BY <2>2, <2>7
    <3>2. /\ Touches(f, d, s) /\ d.sess = f.sess
          /\ On(d, s, "Enqueue") = On(f, s, "Enqueue") + One(x.t = "Enqueue")
          /\ On(d, s, "Event") = On(f, s, "Event") + One(x.t = "Event")
      BY <2>3, <2>5, <3>1, PostTouches
    <3>3. /\ On(f, s, "Enqueue") \in Nat /\ On(f, s, "Event") \in Nat
          /\ Queued(f.sess[s]) \in Nat
      BY <2>5, OnNat, QueuedNat DEF SessionKind
    <3>4. /\ On(d, s, "Enqueue") = On(f, s, "Enqueue") + 1
          /\ TasksAtFront(d, s) = TasksAtFront(f, s)
      BY <2>3, <3>2, <3>3 DEF One, TasksAtFront, Touches, SessionKind
    <3>5. Balance(f, s, n) => Balance(d, s, n + 1)
      BY <3>2, <3>3, <3>4 DEF Balance
    <3> QED
      BY <1>2, <2>5, <2>7, <3>2, <3>5, TouchesTwice
  <2> QED
    BY <2>6, <2>7
<1> QED
  BY <1>1, <1>2

\* What a disconnect of session s makes of c.
DisconnectKept(c, d, s, r) ==
  /\ d = c \/ Touches(c, d, s)
  /\ BooksOK(d) /\ SessionInv(d, s, r)
  /\ \A t \in Session \ {s} : SameFor(c, d, t)
  /\ d.sess[s].st = IF c.sess[s].st \in {"Started", "Starting"} THEN "Stopping"
                    ELSE c.sess[s].st

\* DoDisconnect keeps what holds of its session and of the others.
LEMMA DisconnectKeeps ==
  ASSUME NEW c, BooksOK(c), NEW s \in Session, NEW i, NEW r, SessionInv(c, s, r),
         c.sess[s].st = "Starting" => EarlyStop,
         NEW d, d = DoDisconnect(c, i, s)
  PROVE  DisconnectKept(c, d, s, r)
<1>1. CASE c.sess[s].st \notin {"Started", "Starting"}
  <2>1. d = c
    BY <1>1 DEF DoDisconnect
  <2> QED
    BY <1>1, <2>1 DEF SameFor, DisconnectKept
<1>2. CASE c.sess[s].st \in {"Started", "Starting"}
  <2> DEFINE n == On(c, s, "Teardown")
  <2>1. n \in Nat
    BY OnNat DEF SessionKind
  <2>2. Balance(c, s, n)
    <3>1. Balance(c, s, One(c.sess[s].st = "Stopping") + n)
      BY DEF SessionInv, Leaving
    <3>2. One(c.sess[s].st = "Stopping") + n = n
      BY <1>2, <2>1 DEF One
    <3> QED
      BY <3>1, <3>2
  <2> HIDE DEF n
  <2>3. Touches(c, d, s) /\ d.sess[s].st = "Stopping" /\ Balance(d, s, n + 1)
    BY <1>2, <2>1, <2>2, DisconnectOK
  <2>4. Balance(d, s, One(d.sess[s].st = "Stopping") + On(d, s, "Teardown"))
    <3>1. On(d, s, "Teardown") = n
      BY <2>3 DEF Touches, SessionKind, n
    <3>2. One(d.sess[s].st = "Stopping") + n = n + 1
      BY <2>1, <2>3 DEF One
    <3> QED
      BY <2>3, <3>1, <3>2
  <2>5. c.sess[s].sock # "none"
    BY <1>2 DEF SessionInv, Life
  <2>6. SessionInv(d, s, r)
    BY <1>2, <2>3, <2>4, <2>5, TouchKeeps
  <2> QED
    BY <1>2, <2>3, <2>6 DEF Touches, DisconnectKept
<1> QED
  BY <1>1, <1>2

\* A session that HandleAccept is not at work on.
LEMMA RunAway ==
  ASSUME NEW c, NEW s, NEW r, NEW q, SessionInv(c, s, r),
         ~Accepting(r, s), ~Accepting(q, s), ~EarlyStop /\ q.pc = "state" => ~q.ec
  PROVE  SessionInv(c, s, q)
<1>1. /\ ~Entering(r, s) /\ ~Entering(q, s)
      /\ ~(q.s = s /\ q.pc = "accepted") /\ ~(q.s = s /\ q.pc = "state")
  BY DEF Entering, Accepting
<1> QED
  BY <1>1 DEF SessionInv, Leaving, Life, Timeout, Undisturbed

LEMMA PutLeaving ==
  ASSUME NEW c, BooksOK(c), NEW s \in Session, NEW w \in SessionState,
         w.events = c.sess[s].events,
         w.op["write"] = "none" <=> c.sess[s].op["write"] = "none",
         w.st = "Stopping" <=> c.sess[s].st = "Stopping",
         On(c, s, "Teardown") > 0 => w.st = "Stopped" /\ w.sock = "open",
         NEW d, d = Put(c, s, w), Leaving(c, s)
  PROVE  /\ Leaving(d, s) /\ BooksOK(d) /\ d.sess[s] = w /\ d.strand = c.strand
         /\ \A k \in SessionKind : On(d, s, k) = On(c, s, k)
         /\ \A t \in Session \ {s} : SameFor(c, d, t)
         /\ \A k \in ServerKind : Srv(d, k) = Srv(c, k)
<1> DEFINE v == c.sess[s]
<1>1. w.events \in Seq(LegalEvent)
  BY QueuedNat
<1>2. /\ BooksOK(d) /\ d.sess[s] = w /\ d.strand = c.strand
      /\ \A k \in SessionKind : On(d, s, k) = On(c, s, k)
      /\ Ordered(c, s) => Ordered(d, s)
      /\ \A t \in Session \ {s} : SameFor(c, d, t)
      /\ \A k \in ServerKind : Srv(d, k) = Srv(c, k)
  BY <1>1, PutBooks
<1>3. /\ On(d, s, "Enqueue") = On(c, s, "Enqueue") /\ TasksAtFront(d, s) = TasksAtFront(c, s)
      /\ On(d, s, "Teardown") = On(c, s, "Teardown")
  BY <1>2 DEF SessionKind, TasksAtFront
<1>4. Queued(w) = Queued(v) /\ \A t : Front(w, t) = Front(v, t)
  BY DEF Queued, Front
<1>5. One(w.st = "Stopping") = One(v.st = "Stopping")
  BY DEF One
<1>6. Balance(d, s, One(w.st = "Stopping") + On(d, s, "Teardown"))
  BY <1>2, <1>3, <1>4, <1>5 DEF Leaving, Balance
<1> QED
  BY <1>2, <1>3, <1>6 DEF Leaving

LEMMA HereIs ==
  ASSUME NEW d, BooksOK(d), Become(d)
  PROVE  Here' = d
BY DEF Become, Here, BooksOK

-----------------------------------------------------------------------------
(* The server.                                                             *)

\* counter_sptr_ and its copies.
Holder(c) == srv.counter \/ \E s \in Session : c.sess[s].counter

\* The final stop is on the strand when the last copy is gone, and the stop
\* while the server still holds its own.
Counted(c) ==
  /\ Srv(c, "FinalStop") = IF Holder(c) \/ state = "Stopped" \/ api.start = "pool"
                           THEN 0 ELSE 1
  /\ Srv(c, "Stop") = IF state = "Stopping" /\ srv.counter /\ run.pc # "walk"
                      THEN 1 ELSE 0
  /\ state = "Stopped" \/ api.start = "pool" => ~Holder(c)
  /\ state = "Starting" <=> api.start \in {"pool", "listen"}
  /\ state \in {"Starting", "Started"} /\ api.start # "pool" => srv.counter
  /\ run.pc = "walk" => state = "Stopping" /\ srv.counter

\* The walk has yet to come to every session that is not on its way down.
Walked(c) ==
  /\ run.pc = "walk" =>
       \A s \in Session : c.sess[s].st \in {"Started", "Starting"} => s \in run.todo
  /\ state = "Stopping" /\ ~srv.counter =>
       \A s \in Session : c.sess[s].st \in {"Stopping", "Stopped"}

\* The timer that keeps io 0 running until the final stop.
Kept ==
  /\ state = "Stopping" /\ (~srv.counter \/ run.pc = "walk") => srv.keep = "pending"
  /\ run.pc = "handleStop" /\ state = "Stopping" => srv.counter

InHandleAccept ==
  run.pc \in {"accepted", "done", "state", "fire", "check", "emplace", "next"}

Accepts(c) ==
  /\ srv.accept # "none" => state = "Started" \/ api.stop # "idle"
  /\ srv.accept = "cancelled" => api.stop # "idle"
  /\ run.pc = "handleStop" /\ srv.accept # "none" => api.stop # "idle"
  /\ api.start # "idle" => api.stop = "idle"
  /\ api.stop # "idle" => state \in {"Stopping", "Stopped"}
  /\ \A s \in Session :
       s > srv.made \/ (s = srv.made /\ srv.accept # "none") => c.sess[s].sock = "none"
  /\ InHandleAccept => run.s \in Session /\ run.s <= srv.made /\ srv.accept = "none"

Pooled(c) ==
  /\ pool.phase \in {"up", "first"} => pool.live = Io
  /\ pool.phase \in {"down", "rest"} => 0 \notin pool.live
  /\ pool.phase = "down" => pool.live = {}
  /\ api.stop = "pool" => pool.phase = "up"
  /\ api.stop = "wait" <=> pool.phase \in {"first", "rest"}
  /\ api.start \in {"listen", "accept"} => pool.phase = "up"
  /\ 0 \notin pool.live =>
       /\ run.pc = "idle" /\ srv.accept = "none"
       /\ state = "Stopped" \/ api.start = "pool"
  /\ \A i \in Io : i \notin pool.live => c.strand[i] = <<>>

ServerInv(c) ==
  Counted(c) /\ Walked(c) /\ Kept /\ Accepts(c) /\ Pooled(c)

\* What the server sees of its sessions and of its strand.
Unseen(c, d) ==
  /\ \A s \in Session :
       /\ d.sess[s].counter = c.sess[s].counter
       /\ d.sess[s].st \in {"Started", "Starting"} => c.sess[s].st \in {"Started", "Starting"}
       /\ d.sess[s].st \in NetState
       /\ c.sess[s].sock = "none" => d.sess[s].sock = "none"
  /\ Srv(d, "Stop") = Srv(c, "Stop") /\ Srv(d, "FinalStop") = Srv(c, "FinalStop")
  /\ \A i \in Io : i \notin pool.live => d.strand[i] = c.strand[i]

LEMMA UnseenKeeps ==
  ASSUME NEW c, NEW d, ServerInv(c), Unseen(c, d)
  PROVE  ServerInv(d)
<1>1. Holder(d) <=> Holder(c)
  BY DEF Unseen, Holder
<1>2. Counted(d)
  BY <1>1 DEF ServerInv, Counted, Unseen
<1>3. Walked(d)
  BY DEF ServerInv, Walked, Unseen, NetState
<1>4. Accepts(d) /\ Pooled(d)
  BY DEF ServerInv, Accepts, Pooled, Unseen
<1> QED
  BY <1>2, <1>3, <1>4 DEF ServerInv

\* While a session is alive every thread of the pool runs.
LEMMA HolderRuns ==
  ASSUME NEW c, ServerInv(c), Holder(c),
         pool.phase \in {"down", "up", "first", "rest"}
  PROVE  pool.live = Io
BY DEF ServerInv, Counted, Pooled

LEMMA ServerIs ==
  ASSUME NEW d, ServerInv(d), Here' = d, UNCHANGED <<state, srv, run, pool, api>>
  PROVE  ServerInv(Here)'
BY DEF ServerInv, Counted, Walked, Kept, Accepts, InHandleAccept, Pooled, Holder

LEMMA ServerSame ==
  ASSUME NEW d, ServerInv(Here), Unseen(Here, d), Here' = d,
         UNCHANGED <<state, srv, run, pool, api>>
  PROVE  ServerInv(Here)'
<1>1. ServerInv(d)
  BY UnseenKeeps
<1> QED
  BY <1>1, ServerIs

ControlOK ==
  /\ state \in NetState
  /\ srv \in [acceptor : {"open", "closed"}, accept : OpState, retry : OpState,
              keep : OpState, counter : BOOLEAN, made : Nat]
  /\ run \in [pc : RunPc, s : Session \cup {0}, ec : BOOLEAN, todo : SUBSET Session]
  /\ pool \in [phase : {"down", "up", "first", "rest"}, live : SUBSET Io]
  /\ api \in [start : {"idle", "pool", "listen", "accept"}, stop : {"idle", "pool", "wait"}]
  /\ calls \in [start : Nat, session : Nat]
  /\ crashed \in BOOLEAN

SessionsInv(c, r) == \A s \in Session : SessionInv(c, s, r)

Inv ==
  /\ ControlOK /\ BooksOK(Here) /\ SessionsInv(Here, run) /\ ServerInv(Here)
  /\ ~EarlyStop => ~crashed

\* A step is described by the sessions and strands it leaves.
LEMMA StepBy ==
  ASSUME NEW d, BooksOK(d), Here' = d, ControlOK', SessionsInv(d, run'), ServerInv(Here)',
         ~EarlyStop => ~crashed'
  PROVE  Inv'
<1>1. BooksOK(Here)' /\ SessionsInv(Here, run)'
  BY DEF BooksOK, SessionsInv, SessionInv, Leaving, Life, Timeout, Undisturbed,
         Accepting, Entering, Balance, TasksAtFront, Ordered, On, Queued, Front
<1> QED
  BY <1>1 DEF Inv

-----------------------------------------------------------------------------
(* Steps that leave the sessions and the strands alone.                    *)

LEMMA HereSame ==
  ASSUME UNCHANGED <<sess, strand>>
  PROVE  Here' = Here
BY DEF Here

\* Only what io 0 is at work on changes.
LEMMA RunMoves ==
  ASSUME NEW c, NEW r, NEW q, SessionsInv(c, r),
         \A s \in Session : ~Accepting(r, s) /\ ~Accepting(q, s),
         ~EarlyStop /\ q.pc = "state" => ~q.ec
  PROVE  SessionsInv(c, q)
BY RunAway DEF SessionsInv

LEMMA StartCallInv == Inv /\ StartCall => Inv'
<1> SUFFICES ASSUME Inv, StartCall PROVE Inv'
  OBVIOUS
<1>1. Here' = Here /\ BooksOK(Here) /\ SessionsInv(Here, run')
  BY HereSame DEF Inv, StartCall
<1>2. ControlOK'
  BY DEF Inv, ControlOK, StartCall, NetState
<1>3. ServerInv(Here)'
  BY <1>1 DEF Inv, StartCall, ServerInv, Counted, Walked, Kept, Accepts, InHandleAccept,
              Pooled, Holder
<1>4. ~EarlyStop => ~crashed'
  BY DEF Inv, StartCall
<1> QED
  BY <1>1, <1>2, <1>3, <1>4, StepBy

LEMMA StartPoolInv == Inv /\ StartPool => Inv'
<1> SUFFICES ASSUME Inv, StartPool PROVE Inv'
  OBVIOUS
<1>1. Here' = Here /\ BooksOK(Here) /\ SessionsInv(Here, run')
  BY HereSame DEF Inv, StartPool
<1>2. ControlOK'
  BY DEF Inv, ControlOK, StartPool
<1>3. ServerInv(Here)'
  <2>1. /\ api.start = "pool" /\ api'.start = "listen" /\ api'.stop = api.stop /\ api.stop = "idle"
        /\ state = "Starting" /\ state' = "Starting" /\ run' = run
        /\ srv'.counter = TRUE /\ srv'.accept = srv.accept /\ srv'.made = srv.made
        /\ srv'.keep = srv.keep
        /\ pool'.phase = "up" /\ pool'.live = Io
    BY DEF Inv, ControlOK, StartPool, ServerInv, Counted, Accepts
  <2>2. Counted(Here)'
    <3>1. Srv(Here, "FinalStop") = 0 /\ Srv(Here, "Stop") = 0 /\ run.pc # "walk"
      BY <2>1 DEF Inv, ServerInv, Counted
    <3> QED
      BY <1>1, <2>1, <3>1 DEF Counted, Holder
  <2>3. Walked(Here)' /\ Kept'
    BY <2>1, <2>2 DEF Walked, Kept, Counted
  <2>4. Accepts(Here)'
    BY <1>1, <2>1 DEF Inv, ServerInv, Accepts, InHandleAccept
  <2>5. Pooled(Here)'
    BY <2>1, HomeIo DEF Pooled
  <2> QED
    BY <2>2, <2>3, <2>4, <2>5 DEF ServerInv
<1>4. ~EarlyStop => ~crashed'
  BY DEF Inv, StartPool
<1> QED
  BY <1>1, <1>2, <1>3, <1>4, StepBy

LEMMA StartListenInv == Inv /\ StartListen => Inv'
<1> SUFFICES ASSUME Inv, StartListen PROVE Inv'
  OBVIOUS
<1>1. Here' = Here /\ BooksOK(Here) /\ SessionsInv(Here, run')
  BY HereSame DEF Inv, StartListen
<1>2. ControlOK'
  BY DEF Inv, ControlOK, StartListen, NetState
<1>3. ServerInv(Here)'
  BY <1>1 DEF Inv, ControlOK, StartListen, ServerInv, Counted, Walked, Kept, Accepts,
              InHandleAccept, Pooled, Holder
<1>4. ~EarlyStop => ~crashed'
  BY DEF Inv, StartListen
<1> QED
  BY <1>1, <1>2, <1>3, <1>4, StepBy

LEMMA StopPoolInv == Inv /\ StopPool => Inv'
<1> SUFFICES ASSUME Inv, StopPool PROVE Inv'
  OBVIOUS
<1>1. Here' = Here /\ BooksOK(Here) /\ SessionsInv(Here, run')
  BY HereSame DEF Inv, StopPool
<1>2. ControlOK'
  BY DEF Inv, ControlOK, StopPool
<1>3. ServerInv(Here)'
  BY <1>1 DEF Inv, ControlOK, StopPool, ServerInv, Counted, Walked, Kept, Accepts,
              InHandleAccept, Pooled, Holder
<1>4. ~EarlyStop => ~crashed'
  BY DEF Inv, StopPool
<1> QED
  BY <1>1, <1>2, <1>3, <1>4, StepBy

LEMMA StopReturnInv == Inv /\ StopReturn => Inv'
<1> SUFFICES ASSUME Inv, StopReturn PROVE Inv'
  OBVIOUS
<1>1. Here' = Here /\ BooksOK(Here) /\ SessionsInv(Here, run')
  BY HereSame DEF Inv, StopReturn
<1>2. ControlOK'
  BY DEF Inv, ControlOK, StopReturn
<1>3. ServerInv(Here)'
  BY <1>1, HomeIo DEF Inv, ControlOK, StopReturn, ServerInv, Counted, Walked, Kept, Accepts,
              InHandleAccept, Pooled, Holder
<1>4. ~EarlyStop => ~crashed'
  BY DEF Inv, StopReturn
<1> QED
  BY <1>1, <1>2, <1>3, <1>4, StepBy

\* The thread of io 0 leaves when the final stop has been made.
LEMMA ThreadExitInv == \A i \in Io : Inv /\ ThreadExit(i) => Inv'
<1> SUFFICES ASSUME NEW i \in Io, Inv, ThreadExit(i) PROVE Inv'
  OBVIOUS
<1>1. Here' = Here /\ BooksOK(Here) /\ SessionsInv(Here, run')
  BY HereSame DEF Inv, ThreadExit
<1>2. ControlOK'
  BY DEF Inv, ControlOK, ThreadExit
<1>3. i = 0 => run.pc = "idle" /\ srv.accept = "none" /\ srv.keep = "none" /\ strand[0] = <<>>
  <2>1. i = 0 => {srv.accept, srv.retry, srv.keep} \subseteq OpsOf(i)
    BY DEF OpsOf
  <2>2. OpsOf(i) \subseteq {"none"}
    BY DEF ThreadExit
  <2> QED
    BY <2>1, <2>2 DEF ThreadExit, Runs
<1>4. i = 0 => Srv(Here, "Stop") = 0
  BY <1>3, CountEmpty DEF Srv, Here
<1>5. i = 0 => state = "Stopped" \/ api.start = "pool"
  BY <1>3, <1>4 DEF Inv, ControlOK, ServerInv, Counted, Kept, Accepts, Pooled, ThreadExit
<1>6. pool.live \subseteq Io /\ pool'.live = pool.live \ {i} /\ strand[i] = <<>>
  BY DEF ThreadExit, Inv, ControlOK
<1>7. Counted(Here)' /\ Walked(Here)' /\ Kept' /\ Accepts(Here)'
  BY <1>1 DEF Inv, ThreadExit, ServerInv, Counted, Walked, Kept, Accepts,
              InHandleAccept, Holder
<1>8. Pooled(Here)'
  BY <1>1, <1>3, <1>5, <1>6, HomeIo DEF Inv, ControlOK, ThreadExit, ServerInv, Pooled, Here
<1>9. ~EarlyStop => ~crashed'
  BY DEF Inv, ThreadExit
<1> QED
  BY <1>1, <1>2, <1>7, <1>8, <1>9, StepBy DEF ServerInv

LEMMA KeepTimerInv == Inv /\ KeepTimer => Inv'
<1> SUFFICES ASSUME Inv, KeepTimer PROVE Inv'
  OBVIOUS
<1>1. Here' = Here /\ BooksOK(Here) /\ SessionsInv(Here, run')
  BY HereSame DEF Inv, KeepTimer
<1>2. ControlOK'
  BY DEF Inv, ControlOK, KeepTimer, OpState
<1>3. ServerInv(Here)'
  BY <1>1 DEF Inv, ControlOK, KeepTimer, ServerInv, Counted, Walked, Kept, Accepts,
              InHandleAccept, Pooled, Holder
<1>4. ~EarlyStop => ~crashed'
  BY DEF Inv, KeepTimer
<1> QED
  BY <1>1, <1>2, <1>3, <1>4, StepBy

\* The next session to wait for is a new one.
LEMMA OutcomeNew ==
  ASSUME ControlOK, NEW v, v = srv \/ v = [srv EXCEPT !.accept = "none"],
         srv' \in AcceptOutcome(v)
  PROVE  /\ srv' \in [acceptor : {"open", "closed"}, accept : OpState, retry : OpState,
                      keep : OpState, counter : BOOLEAN, made : Nat]
         /\ srv'.acceptor = srv.acceptor /\ srv'.keep = srv.keep /\ srv'.counter = srv.counter
         /\ srv'.made >= srv.made
         /\ srv'.accept \in {v.accept, "pending"}
         /\ srv'.accept = "pending" => srv' = v \/ state = "Started"
         /\ srv' # v => \A s \in Session : s >= srv'.made => s > srv.made
<1>1. v \in [acceptor : {"open", "closed"}, accept : OpState, retry : OpState,
             keep : OpState, counter : BOOLEAN, made : Nat]
  BY DEF ControlOK, OpState
<1>2. v.made = srv.made /\ v.acceptor = srv.acceptor /\ v.keep = srv.keep /\ v.counter = srv.counter
  BY DEF ControlOK
<1>3. CASE ~IsStarted
  <2>1. srv' = v
    BY <1>3 DEF AcceptOutcome
  <2> QED
    BY <1>1, <1>2, <2>1
<1>4. CASE IsStarted
  <2> DEFINE made == IF v.made > NSessions THEN v.made ELSE v.made + 1
  <2>1. made \in Nat /\ made >= v.made /\ \A s \in Session : s >= made => s > v.made
    BY <1>1, ServerAssumption DEF Session
  <2>2. \/ srv' = [v EXCEPT !.made = made, !.accept = "pending"]
        \/ srv' = [v EXCEPT !.made = made, !.retry = "pending"]
    BY <1>4 DEF AcceptOutcome
  <2> HIDE DEF made
  <2>3. state = "Started"
    BY <1>4 DEF IsStarted
  <2> QED
    BY <1>1, <1>2, <2>1, <2>2, <2>3 DEF OpState
<1> QED
  BY <1>3, <1>4

LEMMA AcceptNextInv == Inv /\ AcceptNext => Inv'
<1> SUFFICES ASSUME Inv, AcceptNext PROVE Inv'
  OBVIOUS
<1>1. Here' = Here /\ BooksOK(Here)
  BY HereSame DEF Inv, AcceptNext
<1>2. run.pc = "next" /\ run' = Resting
  BY DEF AcceptNext, At
<1>3. SessionsInv(Here, run')
  BY <1>2, RunMoves DEF Inv, Accepting, Resting
<1>4. /\ srv' \in [acceptor : {"open", "closed"}, accept : OpState, retry : OpState,
                   keep : OpState, counter : BOOLEAN, made : Nat]
      /\ srv'.acceptor = srv.acceptor /\ srv'.keep = srv.keep /\ srv'.counter = srv.counter
      /\ srv'.made >= srv.made
      /\ srv'.accept \in {srv.accept, "pending"}
      /\ srv'.accept = "pending" => srv' = srv \/ state = "Started"
      /\ srv' # srv => \A s \in Session : s >= srv'.made => s > srv.made
  BY OutcomeNew DEF Inv, AcceptNext
<1>5. srv.accept = "none" /\ srv.made \in Nat
  BY <1>2 DEF Inv, ControlOK, ServerInv, Accepts, InHandleAccept
<1>6. \A s \in Session :
        s > srv'.made \/ (s = srv'.made /\ srv'.accept # "none") => Here.sess[s].sock = "none"
  BY <1>4, <1>5 DEF Inv, ServerInv, Accepts, Session
<1>7. ControlOK'
  BY <1>2, <1>4 DEF Inv, ControlOK, AcceptNext, Resting, RunPc
<1>8. Counted(Here)' /\ Walked(Here)' /\ Kept'
  BY <1>1, <1>2, <1>4 DEF Inv, AcceptNext, ServerInv, Counted, Walked, Kept, Holder, Resting
<1>9. Accepts(Here)'
  BY <1>1, <1>2, <1>4, <1>5, <1>6
     DEF Inv, AcceptNext, ServerInv, Accepts, InHandleAccept, Resting
<1>10. Pooled(Here)'
  BY <1>1, <1>2 DEF Inv, AcceptNext, ServerInv, Pooled
<1>11. ~EarlyStop => ~crashed'
  BY DEF Inv, AcceptNext
<1> QED
  BY <1>1, <1>3, <1>7, <1>8, <1>9, <1>10, <1>11, StepBy DEF ServerInv

LEMMA AcceptFailsInv == Inv /\ AcceptFails => Inv'
<1> SUFFICES ASSUME Inv, AcceptFails PROVE Inv'
  OBVIOUS
<1>1. Here' = Here /\ BooksOK(Here) /\ SessionsInv(Here, run')
  BY HereSame DEF Inv, AcceptFails
<1>2. run.pc = "idle" /\ srv.accept # "none" /\ srv.made \in Nat /\ 0 \in pool.live
  BY DEF Inv, ControlOK, AcceptFails, Runs
<1> DEFINE v == [srv EXCEPT !.accept = "none"]
<1>3. v.accept = "none" /\ v = [srv EXCEPT !.accept = "none"] /\ srv' \in AcceptOutcome(v)
  BY DEF Inv, ControlOK, AcceptFails
<1> HIDE DEF v
<1>4. /\ srv' \in [acceptor : {"open", "closed"}, accept : OpState, retry : OpState,
                   keep : OpState, counter : BOOLEAN, made : Nat]
      /\ srv'.acceptor = srv.acceptor /\ srv'.keep = srv.keep /\ srv'.counter = srv.counter
      /\ srv'.made >= srv.made
      /\ srv'.accept \in {v.accept, "pending"}
      /\ srv'.accept = "pending" => srv' = v \/ state = "Started"
      /\ srv' # v => \A s \in Session : s >= srv'.made => s > srv.made
  BY <1>3, OutcomeNew DEF Inv
<1>5. \A s \in Session :
        s > srv'.made \/ (s = srv'.made /\ srv'.accept # "none") => Here.sess[s].sock = "none"
  BY <1>2, <1>3, <1>4 DEF Inv, ServerInv, Accepts, Session
<1>6. ControlOK'
  BY <1>4 DEF Inv, ControlOK, AcceptFails
<1>7. Counted(Here)' /\ Walked(Here)' /\ Kept'
  BY <1>1, <1>2, <1>4 DEF Inv, AcceptFails, ServerInv, Counted, Walked, Kept, Holder
<1>8. Accepts(Here)'
  BY <1>1, <1>2, <1>3, <1>4, <1>5
     DEF Inv, AcceptFails, ServerInv, Accepts, InHandleAccept
<1>9. Pooled(Here)'
  BY <1>1, <1>2 DEF Inv, AcceptFails, ServerInv, Pooled
<1>10. ~EarlyStop => ~crashed'
  BY DEF Inv, AcceptFails
<1> QED
  BY <1>1, <1>6, <1>7, <1>8, <1>9, <1>10, StepBy DEF ServerInv

LEMMA HandleStopInv == Inv /\ HandleStop => Inv'
<1> SUFFICES ASSUME Inv, HandleStop PROVE Inv'
  OBVIOUS
<1>1. Here' = Here /\ BooksOK(Here)
  BY HereSame DEF Inv, HandleStop
<1>2. run.pc = "handleStop" /\ run' = Resting
  BY DEF HandleStop, At
<1>3. SessionsInv(Here, run')
  BY <1>2, RunMoves DEF Inv, Accepting, Resting
<1>4. /\ srv'.accept = Cancel(srv.accept) /\ srv'.keep = Cancel(srv.keep)
      /\ srv'.counter = srv.counter /\ srv'.made = srv.made
  BY DEF Inv, ControlOK, HandleStop
<1>5. ControlOK'
  <2>1. \A o \in OpState : Cancel(o) \in OpState
    BY DEF OpState, Cancel
  <2>2. Resting \in [pc : RunPc, s : Session \cup {0}, ec : BOOLEAN, todo : SUBSET Session]
    BY DEF Resting, RunPc
  <2> QED
    BY <1>2, <2>1, <2>2 DEF Inv, ControlOK, HandleStop
<1>6. Counted(Here)' /\ Walked(Here)' /\ Kept'
  BY <1>1, <1>2, <1>4 DEF Inv, HandleStop, ServerInv, Counted, Walked, Kept, Holder, Resting
<1>7. Accepts(Here)'
  BY <1>1, <1>2, <1>4
     DEF Inv, HandleStop, ServerInv, Accepts, InHandleAccept, Resting, Cancel
<1>8. Pooled(Here)'
  BY <1>1, <1>2 DEF Inv, HandleStop, ServerInv, Pooled
<1>9. ~EarlyStop => ~crashed'
  BY DEF Inv, HandleStop
<1> QED
  BY <1>1, <1>3, <1>5, <1>6, <1>7, <1>8, <1>9, StepBy DEF ServerInv

\* io 0 goes on inside HandleAccept; the server does not change.
LEMMA GotoRun ==
  ASSUME ControlOK, NEW p \in RunPc, Goto(p)
  PROVE  /\ run' \in [pc : RunPc, s : Session \cup {0}, ec : BOOLEAN, todo : SUBSET Session]
         /\ run'.pc = p /\ run'.s = run.s /\ run'.ec = run.ec
BY DEF ControlOK, Goto

LEMMA RunServer ==
  ASSUME Inv, NEW d, Unseen(Here, d), Here' = d, InHandleAccept,
         run'.pc \in {"done", "state", "fire", "check", "emplace", "next"}, run'.s = run.s,
         UNCHANGED <<state, srv, pool, api>>
  PROVE  ServerInv(Here)'
<1>1. ServerInv(d)
  BY UnseenKeeps DEF Inv
<1>2. Counted(Here)' /\ Walked(Here)' /\ Kept'
  BY <1>1 DEF ServerInv, Counted, Walked, Kept, Holder, InHandleAccept
<1>3. Accepts(Here)'
  BY <1>1 DEF ServerInv, Accepts, InHandleAccept
<1>4. Pooled(Here)'
  BY <1>1 DEF ServerInv, Pooled, InHandleAccept
<1> QED
  BY <1>2, <1>3, <1>4 DEF ServerInv

LEMMA UnseenSame == BooksOK(Here) => Unseen(Here, Here)
BY DEF Unseen, BooksOK, SessionState

LEMMA CheckStartedInv == Inv /\ CheckStarted => Inv'
<1> SUFFICES ASSUME Inv, CheckStarted PROVE Inv'
  OBVIOUS
<1>1. Here' = Here /\ BooksOK(Here) /\ Unseen(Here, Here)
  BY HereSame, UnseenSame DEF Inv, CheckStarted
<1>2. run.pc = "check" /\ InHandleAccept
  BY DEF CheckStarted, At, InHandleAccept
<1> DEFINE p == IF sess[run.s].st = "Started" THEN "emplace" ELSE "next"
<1>3. p \in RunPc /\ Goto(p)
  BY DEF CheckStarted, RunPc
<1>4. p = "next" => sess[run.s].st # "Started"
  OBVIOUS
<1>5. p \in {"emplace", "next"}
  OBVIOUS
<1> HIDE DEF p
<1>6. /\ ServerInv(Here)'
      /\ run' \in [pc : RunPc, s : Session \cup {0}, ec : BOOLEAN, todo : SUBSET Session]
      /\ run'.pc = p /\ run'.s = run.s /\ run'.ec = run.ec
  <2>1. /\ run' \in [pc : RunPc, s : Session \cup {0}, ec : BOOLEAN, todo : SUBSET Session]
        /\ run'.pc = p /\ run'.s = run.s /\ run'.ec = run.ec
    BY <1>3, GotoRun DEF Inv
  <2> QED
    BY <1>1, <1>2, <1>5, <2>1, RunServer DEF CheckStarted
<1>7. ASSUME NEW s \in Session
      PROVE  SessionInv(Here, s, run')
  <2>1. SessionInv(Here, s, run) /\ Here.sess = sess
    BY DEF Inv, SessionsInv, Here
  <2> QED
    BY <1>2, <1>4, <1>5, <1>6, <2>1 DEF SessionInv, Life, Timeout, Undisturbed, Accepting, Entering
<1>8. ControlOK' /\ (~EarlyStop => ~crashed')
  BY <1>6 DEF Inv, ControlOK, CheckStarted
<1> QED
  BY <1>1, <1>6, <1>7, <1>8, StepBy DEF SessionsInv

-----------------------------------------------------------------------------
(* Steps that post a task of the server.                                   *)

LEMMA SameAll ==
  ASSUME NEW c, NEW d, NEW r, SessionsInv(c, r), \A s \in Session : SameFor(c, d, s)
  PROVE  SessionsInv(d, r)
BY SameKeeps DEF SessionsInv

LEMMA ServerPost ==
  ASSUME NEW c, BooksOK(c), NEW k \in ServerKind, NEW d, d = PostTo(c, 0, [t |-> k])
  PROVE  /\ BooksOK(d) /\ d.sess = c.sess
         /\ \A s \in Session : SameFor(c, d, s)
         /\ Srv(d, k) = Srv(c, k) + 1
         /\ \A l \in ServerKind \ {k} : Srv(d, l) = Srv(c, l)
         /\ \A j \in Io \ {0} : d.strand[j] = c.strand[j]
<1> DEFINE x == [t |-> k]
<1>1. x \in TasksOf(0) /\ x.t = k /\ 0 \in Io /\ k \notin SessionKind
  BY HomeIo DEF TasksOf, ServerKind, SessionKind, Task
<1>2. d = PostTo(c, 0, x)
  OBVIOUS
<1>3. \A s \in Session : x \notin Arming(s)
  BY DEF Arming, Of, ServerKind
<1> HIDE DEF x
<1>4. BooksOK(d) /\ d.sess = c.sess /\ d.strand = [c.strand EXCEPT ![0] = Append(@, x)]
  BY <1>1, <1>2, PostBooks
<1>5. /\ \A s \in Session, l \in SessionKind : On(d, s, l) = On(c, s, l) + One(x.t = l /\ x.s = s)
      /\ \A l \in ServerKind : Srv(d, l) = Srv(c, l) + One(x.t = l)
      /\ \A s \in Session : Ordered(c, s) => Ordered(d, s)
  BY <1>1, <1>2, <1>3, PostOn
<1>6. /\ \A s \in Session, l \in SessionKind : On(c, s, l) \in Nat
      /\ \A l \in ServerKind : Srv(c, l) \in Nat
  BY OnNat
<1>7. /\ \A l \in SessionKind, s \in Session : One(x.t = l /\ x.s = s) = 0
      /\ \A l \in ServerKind : One(x.t = l) = IF l = k THEN 1 ELSE 0
  BY <1>1 DEF One
<1>8. \A s \in Session, l \in SessionKind : On(d, s, l) = On(c, s, l)
  BY <1>5, <1>6, <1>7
<1>9. Srv(d, k) = Srv(c, k) + 1 /\ \A l \in ServerKind \ {k} : Srv(d, l) = Srv(c, l)
  BY <1>5, <1>6, <1>7
<1>10. \A j \in Io \ {0} : d.strand[j] = c.strand[j]
  BY <1>4 DEF BooksOK
<1>11. \A s \in Session : SameFor(c, d, s)
  BY <1>4, <1>5, <1>8 DEF SameFor
<1> QED
  BY <1>4, <1>9, <1>10, <1>11 DEF x

LEMMA ServerPosted ==
  ASSUME Inv, NEW k \in ServerKind, UNCHANGED sess,
         strand' = [strand EXCEPT ![0] = Append(@, [t |-> k])]
  PROVE  /\ Here' = PostTo(Here, 0, [t |-> k])
         /\ BooksOK(Here) /\ SessionsInv(PostTo(Here, 0, [t |-> k]), run)
<1>1. Here' = PostTo(Here, 0, [t |-> k])
  <2> DEFINE x == [t |-> k]
  <2>1. strand' = [strand EXCEPT ![0] = Append(@, x)]
    OBVIOUS
  <2> HIDE DEF x
  <2>2. Here.sess = sess /\ Here.strand = strand
    BY DEF Here
  <2>3. PostTo(Here, 0, x) = [Here EXCEPT !.strand = [strand EXCEPT ![0] = Append(@, x)]]
    BY <2>2 DEF PostTo
  <2>4. PostTo(Here, 0, x) = [sess |-> sess, strand |-> [strand EXCEPT ![0] = Append(@, x)]]
    BY <2>3 DEF Here
  <2>5. Here' = PostTo(Here, 0, x)
    BY <2>1, <2>4 DEF Here
  <2> QED
    BY <2>5 DEF x
<1>2. \A s \in Session : SameFor(Here, PostTo(Here, 0, [t |-> k]), s)
  BY ServerPost DEF Inv
<1> QED
  BY <1>1, <1>2, SameAll DEF Inv

\* A server that is Started becomes Stopping, with its stop on the strand.
LEMMA DoStopBooks ==
  ASSUME Inv, UNCHANGED sess, DoStop
  PROVE  /\ state \notin {"Started", "Starting"} => state' = state /\ Here' = Here
         /\ state \in {"Started", "Starting"} =>
              /\ state' = "Stopping" /\ Here' = PostTo(Here, 0, [t |-> "Stop"])
              /\ Srv(Here', "Stop") = Srv(Here, "Stop") + 1
              /\ Srv(Here', "FinalStop") = Srv(Here, "FinalStop")
         /\ BooksOK(Here') /\ SessionsInv(Here', run) /\ Here'.sess = Here.sess
         /\ \A j \in Io \ {0} : Here'.strand[j] = Here.strand[j]
<1>1. CASE state \notin {"Started", "Starting"}
  BY <1>1, HereSame DEF Inv, DoStop, StateAfterStop, StrandAfterStop
<1>2. CASE state \in {"Started", "Starting"}
  <2> DEFINE d == PostTo(Here, 0, [t |-> "Stop"])
  <2>1. strand' = [strand EXCEPT ![0] = Append(@, [t |-> "Stop"])] /\ state' = "Stopping"
    BY <1>2 DEF DoStop, StateAfterStop, StrandAfterStop
  <2>2. "Stop" \in ServerKind /\ "FinalStop" \in ServerKind \ {"Stop"}
    BY DEF ServerKind
  <2>3. /\ Here' = d /\ BooksOK(Here) /\ SessionsInv(d, run)
        /\ d = PostTo(Here, 0, [t |-> "Stop"])
    BY <2>1, <2>2, ServerPosted
  <2> HIDE DEF d
  <2>4. /\ BooksOK(d) /\ d.sess = Here.sess
        /\ Srv(d, "Stop") = Srv(Here, "Stop") + 1
        /\ \A l \in ServerKind \ {"Stop"} : Srv(d, l) = Srv(Here, l)
        /\ \A j \in Io \ {0} : d.strand[j] = Here.strand[j]
    BY <2>2, <2>3, ServerPost
  <2> QED
    BY <1>2, <2>1, <2>2, <2>3, <2>4
<1> QED
  BY <1>1, <1>2

LEMMA StopCallInv == Inv /\ StopCall => Inv'
<1> SUFFICES ASSUME Inv, StopCall PROVE Inv'
  OBVIOUS
<1> DEFINE d == Here'
<1>1. /\ state \notin {"Started", "Starting"} => state' = state /\ d = Here
      /\ state \in {"Started", "Starting"} =>
           /\ state' = "Stopping"
           /\ Srv(d, "Stop") = Srv(Here, "Stop") + 1
           /\ Srv(d, "FinalStop") = Srv(Here, "FinalStop")
      /\ BooksOK(d) /\ SessionsInv(d, run) /\ d.sess = Here.sess
      /\ \A j \in Io \ {0} : d.strand[j] = Here.strand[j]
  BY DoStopBooks DEF StopCall
<1>2. Here' = d
  OBVIOUS
<1> HIDE DEF d
<1>3. /\ api.stop = "idle" /\ api.start = "idle" /\ pool.phase = "up"
      /\ api'.stop = "pool" /\ api'.start = "idle" /\ pool' = pool /\ srv' = srv /\ run' = run
      /\ state # "Starting" /\ state \in NetState
  BY DEF StopCall, Inv, ControlOK, ServerInv, Counted
<1>4. ControlOK'
  BY <1>1 DEF Inv, ControlOK, StopCall, NetState
<1>6. Counted(Here)'
  BY <1>1, <1>2, <1>3 DEF Inv, ServerInv, Counted, Holder, NetState
<1>7. Walked(Here)' /\ Kept'
  BY <1>1, <1>2, <1>3 DEF Inv, ServerInv, Counted, Walked, Kept, NetState
<1>8. Accepts(Here)'
  BY <1>1, <1>2, <1>3 DEF Inv, ServerInv, Accepts, InHandleAccept, NetState
<1>9. Pooled(Here)'
  BY <1>1, <1>2, <1>3, HomeIo DEF Inv, ServerInv, Pooled
<1>10. ~EarlyStop => ~crashed'
  BY DEF Inv, StopCall
<1> QED
  BY <1>1, <1>2, <1>3, <1>4, <1>6, <1>7, <1>8, <1>9, <1>10, StepBy DEF ServerInv

LEMMA StartFailsInv == Inv /\ StartFails => Inv'
<1> SUFFICES ASSUME Inv, StartFails PROVE Inv'
  OBVIOUS
<1> DEFINE d == Here'
<1>1. /\ state \in {"Started", "Starting"} =>
           /\ state' = "Stopping"
           /\ Srv(d, "Stop") = Srv(Here, "Stop") + 1
           /\ Srv(d, "FinalStop") = Srv(Here, "FinalStop")
      /\ BooksOK(d) /\ SessionsInv(d, run) /\ d.sess = Here.sess
      /\ \A j \in Io \ {0} : d.strand[j] = Here.strand[j]
  BY DoStopBooks DEF StartFails
<1>2. Here' = d
  OBVIOUS
<1> HIDE DEF d
<1>3. /\ api.start = "listen" /\ api'.start = "idle" /\ api'.stop = api.stop
      /\ api.stop = "idle" /\ pool.phase = "up" /\ pool' = pool /\ run' = run
      /\ state = "Starting" /\ state' = "Stopping" /\ srv.counter /\ srv.accept = "none"
      /\ srv'.counter = srv.counter /\ srv'.accept = srv.accept
      /\ srv'.keep = srv.keep /\ srv'.made = srv.made
  BY <1>1 DEF StartFails, Inv, ControlOK, ServerInv, Counted, Accepts, Pooled
<1>4. ControlOK'
  <2>1. srv' \in [acceptor : {"open", "closed"}, accept : OpState, retry : OpState,
                  keep : OpState, counter : BOOLEAN, made : Nat]
    BY DEF Inv, ControlOK, StartFails
  <2> QED
    BY <1>3, <2>1 DEF Inv, ControlOK, StartFails, NetState
<1>5. Counted(Here)'
  BY <1>1, <1>2, <1>3 DEF Inv, ServerInv, Counted, Holder
<1>6. Walked(Here)' /\ Kept'
  BY <1>3 DEF Inv, ServerInv, Counted, Walked, Kept
<1>7. Accepts(Here)'
  BY <1>1, <1>2, <1>3 DEF Inv, ServerInv, Accepts, InHandleAccept
<1>8. Pooled(Here)'
  BY <1>1, <1>2, <1>3, HomeIo DEF Inv, ServerInv, Pooled
<1>9. ~EarlyStop => ~crashed'
  BY DEF Inv, StartFails
<1> QED
  BY <1>1, <1>2, <1>3, <1>4, <1>5, <1>6, <1>7, <1>8, <1>9, StepBy DEF ServerInv

\* An accept is cancelled when the server is Stopped: its DoStop does nothing.
LEMMA AcceptAbortedInv == Inv /\ AcceptAborted => Inv'
<1> SUFFICES ASSUME Inv, AcceptAborted PROVE Inv'
  OBVIOUS
<1>1. state \in {"Stopping", "Stopped"}
  BY DEF Inv, ServerInv, Accepts, AcceptAborted
<1>2. /\ state' = state /\ Here' = Here /\ run' = run /\ api' = api /\ pool' = pool
      /\ srv'.accept = "none" /\ srv'.keep = srv.keep /\ srv'.counter = srv.counter
      /\ srv'.made = srv.made
  BY <1>1, DoStopBooks DEF AcceptAborted, Inv, ControlOK
<1>3. ControlOK'
  BY <1>2 DEF Inv, ControlOK, AcceptAborted, OpState
<1>4. Counted(Here)' /\ Walked(Here)' /\ Kept'
  BY <1>2 DEF Inv, ServerInv, Counted, Walked, Kept, Holder
<1>5. Accepts(Here)'
  BY <1>2 DEF Inv, ServerInv, Accepts, InHandleAccept
<1>6. Pooled(Here)'
  BY <1>2 DEF Inv, ServerInv, Pooled
<1>7. ~EarlyStop => ~crashed'
  BY DEF Inv, AcceptAborted
<1> QED
  BY <1>2, <1>3, <1>4, <1>5, <1>6, <1>7, StepBy DEF ServerInv, Inv

\* The next acceptance is posted, which changes no count of the invariant.
LEMMA PostAcceptPosted ==
  ASSUME Inv, UNCHANGED sess, 0 \in pool.live,
         \/ UNCHANGED strand
         \/ strand' = [strand EXCEPT ![0] = Append(@, [t |-> "PostAccept"])]
  PROVE  BooksOK(Here') /\ SessionsInv(Here', run) /\ Unseen(Here, Here')
<1>1. CASE UNCHANGED strand
  BY <1>1, HereSame, UnseenSame DEF Inv
<1>2. CASE strand' = [strand EXCEPT ![0] = Append(@, [t |-> "PostAccept"])]
  <2> DEFINE d == PostTo(Here, 0, [t |-> "PostAccept"])
  <2>1. "PostAccept" \in ServerKind /\ {"Stop", "FinalStop"} \subseteq ServerKind \ {"PostAccept"}
    BY DEF ServerKind
  <2>2. /\ Here' = d /\ BooksOK(Here) /\ SessionsInv(d, run)
        /\ d = PostTo(Here, 0, [t |-> "PostAccept"])
    BY <1>2, <2>1, ServerPosted
  <2> HIDE DEF d
  <2>3. /\ BooksOK(d) /\ d.sess = Here.sess
        /\ \A l \in ServerKind \ {"PostAccept"} : Srv(d, l) = Srv(Here, l)
        /\ \A j \in Io \ {0} : d.strand[j] = Here.strand[j]
    BY <2>1, <2>2, ServerPost
  <2>4. Unseen(Here, d)
    BY <2>1, <2>2, <2>3, UnseenSame DEF Unseen
  <2> QED
    BY <2>2, <2>3, <2>4
<1> QED
  BY <1>1, <1>2

LEMMA StartAcceptInv == Inv /\ StartAccept => Inv'
<1> SUFFICES ASSUME Inv, StartAccept PROVE Inv'
  OBVIOUS
<1> DEFINE d == Here'
<1>1. /\ api.start = "accept" /\ api'.start = "idle" /\ api'.stop = api.stop
      /\ pool.phase = "up" /\ pool.live = Io /\ 0 \in Io
      /\ state # "Starting"
  BY HomeIo DEF StartAccept, Inv, ControlOK, ServerInv, Counted, Pooled
<1>2. BooksOK(d) /\ SessionsInv(d, run) /\ Unseen(Here, d)
  BY <1>1, PostAcceptPosted DEF StartAccept
<1>3. Here' = d
  OBVIOUS
<1> HIDE DEF d
<1>4. ServerInv(d) /\ run' = run
  BY <1>2, UnseenKeeps DEF Inv, StartAccept
<1>5. ControlOK'
  BY DEF Inv, ControlOK, StartAccept
<1>6. ServerInv(Here)'
  BY <1>1, <1>3, <1>4 DEF StartAccept, ServerInv, Counted, Walked, Kept, Accepts,
                          InHandleAccept, Pooled, Holder
<1>7. ~EarlyStop => ~crashed'
  BY DEF Inv, StartAccept
<1> QED
  BY <1>2, <1>3, <1>4, <1>5, <1>6, <1>7, StepBy

LEMMA AcceptRetryInv == Inv /\ AcceptRetry => Inv'
<1> SUFFICES ASSUME Inv, AcceptRetry PROVE Inv'
  OBVIOUS
<1> DEFINE d == Here'
<1>1. /\ 0 \in pool.live /\ run' = run /\ srv'.accept = srv.accept /\ srv'.keep = srv.keep
      /\ srv'.counter = srv.counter /\ srv'.made = srv.made
  BY DEF AcceptRetry, Runs, Inv, ControlOK
<1>2. BooksOK(d) /\ SessionsInv(d, run) /\ Unseen(Here, d)
  BY <1>1, PostAcceptPosted DEF AcceptRetry
<1>3. Here' = d
  OBVIOUS
<1> HIDE DEF d
<1>4. ServerInv(d)
  BY <1>2, UnseenKeeps DEF Inv
<1>5. ControlOK'
  BY DEF Inv, ControlOK, AcceptRetry, OpState
<1>6. Counted(Here)' /\ Walked(Here)' /\ Kept'
  BY <1>1, <1>3, <1>4 DEF AcceptRetry, ServerInv, Counted, Walked, Kept, Holder
<1>7. Accepts(Here)' /\ Pooled(Here)'
  BY <1>1, <1>3, <1>4 DEF AcceptRetry, ServerInv, Accepts, InHandleAccept, Pooled
<1>8. ~EarlyStop => ~crashed'
  BY DEF Inv, AcceptRetry
<1> QED
  BY <1>1, <1>2, <1>3, <1>4, <1>5, <1>6, <1>7, <1>8, StepBy DEF ServerInv

-----------------------------------------------------------------------------
(* Tasks of the server.                                                    *)

LEMMA TakenServer ==
  ASSUME Inv, NEW k \in ServerKind, Next1(0, k), NEW d, d = Taken(0), Become(d)
  PROVE  /\ Here' = d /\ BooksOK(d) /\ d.sess = Here.sess /\ SessionsInv(d, run)
         /\ Srv(Here, k) = Srv(d, k) + 1 /\ Srv(d, k) \in Nat
         /\ \A l \in ServerKind \ {k} : Srv(d, l) = Srv(Here, l)
         /\ \A j \in Io \ {0} : d.strand[j] = Here.strand[j]
         /\ run.pc = "idle" /\ 0 \in pool.live
<1> DEFINE x == Head(strand[0])
<1>1. 0 \in Io /\ strand[0] # <<>> /\ x.t = k /\ x = Head(strand[0])
  BY HomeIo DEF Next1
<1>2. k \notin SessionKind /\ Here.sess = sess /\ Here.strand = strand
  BY DEF ServerKind, SessionKind, Here
<1> HIDE DEF x
<1>3. /\ BooksOK(d) /\ d.sess = sess
      /\ d.strand = [strand EXCEPT ![0] = Tail(@)]
      /\ \A s \in Session, l \in SessionKind : On(d, s, l) = On(Here, s, l) - One(x.t = l /\ x.s = s)
      /\ \A l \in ServerKind : Srv(d, l) = Srv(Here, l) - One(x.t = l)
      /\ \A s \in Session : Ordered(Here, s) => Ordered(d, s)
  <2>1. TakenOut(0, x, d)
    BY <1>1, TakenOn DEF Inv
  <2> QED
    BY <2>1 DEF TakenOut
<1>4. /\ \A s \in Session, l \in SessionKind : On(Here, s, l) \in Nat
      /\ \A l \in ServerKind : Srv(Here, l) \in Nat /\ Srv(d, l) \in Nat
  BY <1>3, OnNat DEF Inv
<1>5. /\ \A l \in SessionKind, s \in Session : One(x.t = l /\ x.s = s) = 0
      /\ \A l \in ServerKind : One(x.t = l) = IF l = k THEN 1 ELSE 0
  BY <1>1, <1>2 DEF One
<1>6. \A s \in Session, l \in SessionKind : On(d, s, l) = On(Here, s, l)
  BY <1>3, <1>4, <1>5
<1>7. Srv(Here, k) = Srv(d, k) + 1 /\ \A l \in ServerKind \ {k} : Srv(d, l) = Srv(Here, l)
  BY <1>3, <1>4, <1>5
<1>8. \A j \in Io \ {0} : d.strand[j] = Here.strand[j]
  BY <1>2, <1>3 DEF Inv, BooksOK
<1>9. SessionsInv(d, run)
  BY <1>2, <1>3, <1>6, SameAll DEF Inv, SameFor
<1>10. Here' = d
  BY <1>3, HereIs
<1>11. run.pc = "idle" /\ 0 \in pool.live
  BY DEF Next1, Runs
<1> QED
  BY <1>2, <1>3, <1>4, <1>7, <1>8, <1>9, <1>10, <1>11

LEMMA PostAcceptInv == Inv /\ PostAccept => Inv'
<1> SUFFICES ASSUME Inv, PostAccept PROVE Inv'
  OBVIOUS
<1> DEFINE d == Taken(0)
<1>0. /\ d = Taken(0) /\ Next1(0, "PostAccept") /\ Become(d)
      /\ "PostAccept" \in ServerKind /\ {"Stop", "FinalStop"} \subseteq ServerKind \ {"PostAccept"}
  BY DEF PostAccept, ServerKind
<1> HIDE DEF d
<1>1. /\ Here' = d /\ BooksOK(d) /\ d.sess = Here.sess /\ SessionsInv(d, run)
      /\ \A l \in ServerKind \ {"PostAccept"} : Srv(d, l) = Srv(Here, l)
      /\ \A j \in Io \ {0} : d.strand[j] = Here.strand[j]
      /\ run.pc = "idle" /\ 0 \in pool.live
  BY <1>0, TakenServer
<1>2. Unseen(Here, d)
  BY <1>0, <1>1, UnseenSame DEF Unseen, Inv
<1>3. ServerInv(d)
  BY <1>2, UnseenKeeps DEF Inv
<1>4. /\ srv' \in [acceptor : {"open", "closed"}, accept : OpState, retry : OpState,
                   keep : OpState, counter : BOOLEAN, made : Nat]
      /\ srv'.acceptor = srv.acceptor /\ srv'.keep = srv.keep /\ srv'.counter = srv.counter
      /\ srv'.made >= srv.made
      /\ srv'.accept \in {srv.accept, "pending"}
      /\ srv'.accept = "pending" => srv' = srv \/ state = "Started"
      /\ srv' # srv => \A s \in Session : s >= srv'.made => s > srv.made
  BY OutcomeNew DEF Inv, PostAccept
<1>5. \A s \in Session :
        s > srv'.made \/ (s = srv'.made /\ srv'.accept # "none") => d.sess[s].sock = "none"
  BY <1>3, <1>4 DEF Inv, ControlOK, ServerInv, Accepts, Session
<1>6. ControlOK'
  BY <1>4 DEF Inv, ControlOK, PostAccept
<1>7. Counted(Here)' /\ Walked(Here)' /\ Kept'
  BY <1>1, <1>3, <1>4 DEF PostAccept, ServerInv, Counted, Walked, Kept, Holder
<1>8. Accepts(Here)'
  BY <1>1, <1>3, <1>4, <1>5 DEF PostAccept, ServerInv, Accepts, InHandleAccept
<1>9. Pooled(Here)'
  BY <1>1, <1>3 DEF PostAccept, ServerInv, Pooled
<1>10. ~EarlyStop => ~crashed'
  BY DEF Inv, PostAccept
<1> QED
  BY <1>1, <1>5, <1>6, <1>7, <1>8, <1>9, <1>10, StepBy DEF ServerInv, PostAccept

\* The walk begins: a session that is not registered is on its way down, or gone.
LEMMA PostStopInv == Inv /\ PostStop => Inv'
<1> SUFFICES ASSUME Inv, PostStop PROVE Inv'
  OBVIOUS
<1> DEFINE d == Taken(0)
<1>0. /\ d = Taken(0) /\ Next1(0, "Stop") /\ Become(d)
      /\ "Stop" \in ServerKind /\ "FinalStop" \in ServerKind \ {"Stop"}
  BY DEF PostStop, ServerKind
<1> HIDE DEF d
<1>1. /\ Here' = d /\ BooksOK(d) /\ d.sess = Here.sess /\ SessionsInv(d, run)
      /\ Srv(Here, "Stop") = Srv(d, "Stop") + 1 /\ Srv(d, "Stop") \in Nat
      /\ \A l \in ServerKind \ {"Stop"} : Srv(d, l) = Srv(Here, l)
      /\ \A j \in Io \ {0} : d.strand[j] = Here.strand[j]
      /\ run.pc = "idle" /\ 0 \in pool.live
  BY <1>0, TakenServer
<1>2. state = "Stopping" /\ srv.counter /\ Srv(d, "Stop") = 0
  BY <1>1 DEF Inv, ServerInv, Counted
<1>3. /\ srv'.accept = srv.accept /\ srv'.keep = "pending" /\ srv'.counter = srv.counter
      /\ srv'.made = srv.made
      /\ run' = [pc |-> "walk", s |-> 0, ec |-> FALSE, todo |-> {s \in Session : sess[s].reg}]
  BY DEF Inv, ControlOK, PostStop, Resting
<1>4. SessionsInv(d, run')
  BY <1>1, <1>3, RunMoves DEF Accepting
<1>5. \A s \in Session : d.sess[s].st \in {"Started", "Starting"} => s \in run'.todo
  <2>1. Here.sess = sess
    BY DEF Here
  <2> QED
    BY <1>1, <1>3, <2>1 DEF SessionsInv, SessionInv, Life, Entering, Accepting
<1>6. ControlOK'
  <2>1. srv' \in [acceptor : {"open", "closed"}, accept : OpState, retry : OpState,
                  keep : OpState, counter : BOOLEAN, made : Nat]
    BY DEF Inv, ControlOK, PostStop, OpState
  <2>2. run' \in [pc : RunPc, s : Session \cup {0}, ec : BOOLEAN, todo : SUBSET Session]
    BY <1>3 DEF RunPc
  <2> QED
    BY <2>1, <2>2 DEF Inv, ControlOK, PostStop
<1>7. Counted(Here)'
  BY <1>0, <1>1, <1>2, <1>3 DEF Inv, PostStop, ServerInv, Counted, Holder
<1>8. Walked(Here)' /\ Kept'
  BY <1>1, <1>2, <1>3, <1>5 DEF PostStop, Walked, Kept
<1>9. Accepts(Here)'
  <2>1. /\ Accepts(Here) /\ ~InHandleAccept' /\ run'.pc # "handleStop"
        /\ UNCHANGED <<state, api>>
    BY <1>3 DEF Inv, PostStop, ServerInv, InHandleAccept
  <2>2. Here'.sess = Here.sess
    BY <1>1
  <2> QED
    BY <1>3, <2>1, <2>2 DEF Accepts
<1>10. Pooled(Here)'
  BY <1>1, <1>3 DEF Inv, PostStop, ServerInv, Pooled
<1>11. ~EarlyStop => ~crashed'
  BY DEF Inv, PostStop
<1> QED
  BY <1>1, <1>4, <1>6, <1>7, <1>8, <1>9, <1>10, <1>11, StepBy DEF ServerInv

\* The final stop finds the server Stopping: tcp_server.h:168 does not fail.
LEMMA FinalStopInv == Inv /\ FinalStop => Inv'
<1> SUFFICES ASSUME Inv, FinalStop PROVE Inv'
  OBVIOUS
<1> DEFINE d == Taken(0)
<1>0. /\ d = Taken(0) /\ Next1(0, "FinalStop") /\ Become(d)
      /\ "FinalStop" \in ServerKind /\ "Stop" \in ServerKind \ {"FinalStop"}
  BY DEF FinalStop, ServerKind
<1> HIDE DEF d
<1>1. /\ Here' = d /\ BooksOK(d) /\ d.sess = Here.sess /\ SessionsInv(d, run)
      /\ Srv(Here, "FinalStop") = Srv(d, "FinalStop") + 1 /\ Srv(d, "FinalStop") \in Nat
      /\ \A l \in ServerKind \ {"FinalStop"} : Srv(d, l) = Srv(Here, l)
      /\ \A j \in Io \ {0} : d.strand[j] = Here.strand[j]
      /\ run.pc = "idle" /\ 0 \in pool.live
  BY <1>0, TakenServer
<1>2. state = "Stopping" /\ ~Holder(Here) /\ Srv(d, "FinalStop") = 0 /\ api.start # "pool"
  BY <1>1 DEF Inv, ControlOK, NetState, ServerInv, Counted, Holder
<1>3. /\ state' = "Stopped" /\ crashed' = crashed /\ run'.pc = "handleStop"
      /\ run' \in [pc : RunPc, s : Session \cup {0}, ec : BOOLEAN, todo : SUBSET Session]
  BY <1>2 DEF Inv, ControlOK, FinalStop, Goto, RunPc
<1>4. SessionsInv(d, run')
  BY <1>1, <1>3, RunMoves DEF Accepting
<1>5. ControlOK'
  BY <1>3 DEF Inv, ControlOK, FinalStop, NetState
<1>6. Counted(Here)'
  BY <1>0, <1>1, <1>2, <1>3 DEF Inv, FinalStop, ServerInv, Counted, Holder
<1>7. Walked(Here)' /\ Kept'
  BY <1>3 DEF FinalStop, Walked, Kept
<1>8. Accepts(Here)'
  BY <1>1, <1>2, <1>3 DEF Inv, FinalStop, ServerInv, Accepts, InHandleAccept
<1>9. Pooled(Here)'
  BY <1>1, <1>3 DEF Inv, FinalStop, ServerInv, Pooled
<1>10. ~EarlyStop => ~crashed'
  BY <1>3 DEF Inv
<1> QED
  BY <1>1, <1>4, <1>5, <1>6, <1>7, <1>8, <1>9, <1>10, StepBy DEF ServerInv

-----------------------------------------------------------------------------
(* Accepting a session.                                                    *)

\* The session at work and the others.
LEMMA OneAndOthers ==
  ASSUME NEW c, NEW d, NEW r, NEW q, NEW s \in Session, SessionsInv(c, r),
         \A t \in Session \ {s} : SameFor(c, d, t) /\ ~Accepting(r, t) /\ ~Accepting(q, t),
         ~EarlyStop /\ q.pc = "state" => ~q.ec,
         SessionInv(d, s, q)
  PROVE  SessionsInv(d, q)
<1>1. ASSUME NEW t \in Session, t # s
      PROVE  SessionInv(d, t, q)
  <2>1. SessionInv(c, t, r) /\ SameFor(c, d, t) /\ ~Accepting(r, t) /\ ~Accepting(q, t)
    BY <1>1 DEF SessionsInv
  <2>2. SessionInv(c, t, q)
    BY <2>1, RunAway
  <2> QED
    BY <2>1, <2>2, SameKeeps
<1> QED
  BY <1>1 DEF SessionsInv

\* While a session's socket is open every thread of the pool runs.
LEMMA AliveRuns ==
  ASSUME Inv, NEW s \in Session, Here.sess[s].sock = "open"
  PROVE  pool.live = Io
<1>1. Holder(Here)
  BY DEF Inv, SessionsInv, SessionInv, Life, Holder
<1> QED
  BY <1>1, HolderRuns DEF Inv, ControlOK

LEMMA TouchesUnseen ==
  ASSUME NEW c, NEW s \in Session, NEW d, Touches(c, d, s), IoOf(s) \in pool.live,
         d.sess[s].st \in {"Started", "Starting"} =>
           c.sess[s].st \in {"Started", "Starting"}
  PROVE  Unseen(c, d)
<1>1. \A t \in Session \ {s} : d.sess[t] = c.sess[t]
  BY DEF Touches, SameFor
<1>2. /\ d.sess[s].counter = c.sess[s].counter
      /\ d.sess[s].sock = c.sess[s].sock
  BY DEF Touches, SameBut
<1>3. \A t \in Session : d.sess[t].st \in NetState
  BY DEF Touches, BooksOK, SessionState
<1>4. Srv(d, "Stop") = Srv(c, "Stop") /\ Srv(d, "FinalStop") = Srv(c, "FinalStop")
  BY DEF Touches, ServerKind
<1>5. \A i \in Io : i \notin pool.live => d.strand[i] = c.strand[i]
  BY DEF Touches
<1> QED
  BY <1>1, <1>2, <1>3, <1>4, <1>5 DEF Unseen

\* A task that arms a timer or starts to receive.
LEMMA ArmingLeaves ==
  ASSUME NEW c, BooksOK(c), NEW s \in Session, NEW x \in TasksOf(IoOf(s)),
         x.t \in {"ArmConn", "StartRecv"}, x.s = s,
         Leaving(c, s), On(c, s, "Teardown") = 0, NEW d, d = Post(c, x)
  PROVE  /\ BooksOK(d) /\ d.sess = c.sess /\ Leaving(d, s)
         /\ On(d, s, x.t) = On(c, s, x.t) + 1
         /\ \A l \in SessionKind \ {x.t} : On(d, s, l) = On(c, s, l)
         /\ \A t \in Session \ {s} : SameFor(c, d, t)
         /\ \A l \in ServerKind : Srv(d, l) = Srv(c, l)
         /\ \A j \in Io \ {IoOf(s)} : d.strand[j] = c.strand[j]
<1> DEFINE k == x.t
<1>1. x.t = k /\ IoOf(s) \in Io /\ d = PostTo(c, IoOf(s), x)
  BY IoOfIo DEF Post
<1>0. k \in {"ArmConn", "StartRecv"}
  OBVIOUS
<1> HIDE DEF k
<1>2. BooksOK(d) /\ d.sess = c.sess /\ d.strand = [c.strand EXCEPT ![IoOf(s)] = Append(@, x)]
  BY <1>1, PostBooks
<1>3. \A t \in Session : x \in Arming(t) => t = s
  BY <1>1 DEF Arming, Of
<1>4. /\ \A t \in Session, l \in SessionKind : On(d, t, l) = On(c, t, l) + One(x.t = l /\ x.s = t)
      /\ \A l \in ServerKind : Srv(d, l) = Srv(c, l) + One(x.t = l)
      /\ \A t \in Session : Ordered(c, t) => Ordered(d, t)
  <2>1. /\ \A t \in Session, l \in SessionKind : On(d, t, l) = On(c, t, l) + One(x.t = l /\ x.s = t)
        /\ \A l \in ServerKind : Srv(d, l) = Srv(c, l) + One(x.t = l)
        /\ \A t \in Session :
             Ordered(c, t) /\ (x \in Arming(t) => On(c, t, "Teardown") = 0) => Ordered(d, t)
    BY <1>1, PostOn
  <2> QED
    BY <1>3, <2>1
<1>5. /\ \A t \in Session, l \in SessionKind : On(c, t, l) \in Nat
      /\ \A l \in ServerKind : Srv(c, l) \in Nat
  BY OnNat
<1>6. k \in SessionKind /\ k \notin ServerKind
  BY <1>0 DEF SessionKind, ServerKind
<1>7. /\ On(d, s, k) = On(c, s, k) + 1
      /\ \A l \in SessionKind \ {k} : On(d, s, l) = On(c, s, l)
      /\ \A t \in Session \ {s}, l \in SessionKind : On(d, t, l) = On(c, t, l)
      /\ \A l \in ServerKind : Srv(d, l) = Srv(c, l)
  <2>1. /\ One(x.t = k /\ x.s = s) = 1
        /\ \A l \in SessionKind \ {k} : One(x.t = l /\ x.s = s) = 0
        /\ \A t \in Session \ {s}, l \in SessionKind : One(x.t = l /\ x.s = t) = 0
        /\ \A l \in ServerKind : One(x.t = l) = 0
    BY <1>1, <1>6 DEF One
  <2> QED
    BY <1>4, <1>5, <1>6, <2>1
<1>8. /\ On(d, s, "Enqueue") = On(c, s, "Enqueue") /\ TasksAtFront(d, s) = TasksAtFront(c, s)
      /\ On(d, s, "Teardown") = On(c, s, "Teardown")
  BY <1>0, <1>7 DEF SessionKind, TasksAtFront
<1>9. Leaving(d, s)
  BY <1>2, <1>4, <1>8 DEF Leaving, Balance
<1>10. \A t \in Session \ {s} : SameFor(c, d, t)
  BY <1>2, <1>4, <1>7 DEF SameFor
<1>11. \A j \in Io \ {IoOf(s)} : d.strand[j] = c.strand[j]
  BY <1>2 DEF BooksOK
<1> QED
  BY <1>1, <1>2, <1>7, <1>9, <1>10, <1>11

LEMMA ArmingTask ==
  ASSUME NEW s \in Session, NEW k \in {"ArmConn", "StartRecv"}, NEW x, x = [t |-> k, s |-> s]
  PROVE  x \in TasksOf(IoOf(s)) /\ x.t = k /\ x.s = s
BY DEF TasksOf, Task, ServerKind

\* A session that is on its way down may be left by HandleAccept.
LEMMA LeftDown ==
  ASSUME NEW c, NEW s, NEW r, NEW q, SessionInv(c, s, r), c.sess[s].st = "Stopping",
         ~Accepting(q, s), q.pc # "state"
  PROVE  SessionInv(c, s, q)
<1>1. ~Entering(q, s) /\ ~(q.s = s /\ q.pc = "accepted") /\ ~(q.s = s /\ q.pc = "state")
  BY DEF Entering, Accepting
<1> QED
  BY <1>1 DEF SessionInv, Leaving, Life, Timeout, Undisturbed

\* The new session is the one the accept was waiting for.
LEMMA AcceptInv == Inv /\ Accept => Inv'
<1> SUFFICES ASSUME Inv, Accept PROVE Inv'
  OBVIOUS
<1>1. /\ run.pc = "idle" /\ 0 \in pool.live /\ srv.accept # "none" /\ srv.made \in Session
      /\ srv'.accept = "none" /\ srv'.keep = srv.keep /\ srv'.counter = srv.counter
      /\ srv'.made = srv.made /\ Here.sess = sess /\ Here.strand = strand
  BY DEF Accept, Runs, Inv, ControlOK, Here
<1>2. /\ srv' \in [acceptor : {"open", "closed"}, accept : OpState, retry : OpState,
                   keep : OpState, counter : BOOLEAN, made : Nat]
      /\ ~EarlyStop => ~crashed'
  BY DEF Inv, ControlOK, Accept, OpState
<1>3. CASE ~IsStarted
  <2>1. Here' = Here /\ run' = run
    BY <1>3, HereSame DEF Accept
  <2>2. ControlOK'
    BY <1>2, <2>1 DEF Inv, ControlOK, Accept
  <2>3. Counted(Here)' /\ Walked(Here)' /\ Kept'
    BY <1>1, <2>1 DEF Inv, Accept, ServerInv, Counted, Walked, Kept, Holder
  <2>4. Accepts(Here)' /\ Pooled(Here)'
    BY <1>1, <2>1 DEF Inv, Accept, ServerInv, Accepts, InHandleAccept, Pooled
  <2> QED
    BY <1>2, <2>1, <2>2, <2>3, <2>4, StepBy DEF ServerInv, Inv
<1>4. CASE IsStarted
  <2> DEFINE s == srv.made
             v == Here.sess[s]
             w == AcceptedSession(s)
             d == Put(Here, s, w)
  <2>1. s \in Session /\ v \in SessionState /\ v.events \in Seq(LegalEvent) /\ SessionInv(Here, s, run)
    BY <1>1, QueuedNat DEF Inv, SessionsInv
  <2>2. v.sock = "none"
    BY <1>1 DEF Inv, ServerInv, Accepts
  <2>3. v = NewSession /\ \A k \in SessionKind : On(Here, s, k) = 0
    BY <2>1, <2>2 DEF SessionInv, Life
  <2>4. state = "Started" /\ srv.counter /\ api.start # "pool"
    BY <1>4 DEF IsStarted, Inv, ServerInv, Counted
  <2>5. w = [NewSession EXCEPT !.st = "Starting", !.sock = "open", !.counter = TRUE]
    BY <1>1, <2>3, <2>4 DEF AcceptedSession, Inv, ControlOK
  <2>6. /\ w \in SessionState /\ w.st = "Starting" /\ w.sock = "open" /\ w.counter = TRUE
        /\ w.events = v.events /\ w.op = NoOps /\ v.op = NoOps /\ w.told = "nothing" /\ ~w.reg
        /\ ~w.timedOut /\ v.st = "Stopped"
    <3> HIDE DEF v, w
    <3>1. NewSession \in SessionState
      BY <2>1, <2>3
    <3>2. w \in SessionState
      BY <2>5, <3>1 DEF SessionState, NetState
    <3> QED
      BY <2>3, <2>5, <3>2 DEF NewSession
  <2>7. /\ Here' = d /\ run'.pc = "accepted" /\ run'.s = s /\ run'.todo = {}
        /\ run' \in [pc : RunPc, s : Session \cup {0}, ec : BOOLEAN, todo : SUBSET Session]
    <3>1. sess' = [sess EXCEPT ![s] = w] /\ strand' = strand
      BY <1>4 DEF Accept
    <3>2. Here' = d
      BY <1>1, <3>1 DEF Here, Put
    <3>3. run' = [pc |-> "accepted", s |-> s, ec |-> FALSE, todo |-> {}]
      BY <1>4 DEF Accept, Resting
    <3> QED
      BY <2>1, <3>2, <3>3 DEF RunPc
  <2>8. d = Put(Here, s, w) /\ v = Here.sess[s] /\ s = srv.made
    OBVIOUS
  <2> HIDE DEF s, v, w, d
  <2>9. /\ Leaving(d, s) /\ BooksOK(d) /\ d.sess[s] = w /\ d.strand = Here.strand
        /\ \A k \in SessionKind : On(d, s, k) = On(Here, s, k)
        /\ \A t \in Session \ {s} : SameFor(Here, d, t)
        /\ \A k \in ServerKind : Srv(d, k) = Srv(Here, k)
    <3>1. Leaving(Here, s) /\ BooksOK(Here) /\ On(Here, s, "Teardown") = 0
      BY <2>1, <2>3 DEF SessionInv, SessionKind, Inv
    <3> QED
      BY <2>1, <2>6, <2>8, <3>1, PutLeaving
  <2>10. /\ On(d, s, "ArmConn") = 0 /\ On(d, s, "StartRecv") = 0
         /\ \A k \in SessionOp : w.op[k] = "none"
    BY <2>3, <2>6, <2>9 DEF SessionKind, NoOps
  <2>11. SessionInv(d, s, run')
    BY <2>6, <2>7, <2>9, <2>10
       DEF SessionInv, Life, Timeout, Undisturbed, Accepting, Entering, SessionOp
  <2>12. SessionsInv(d, run')
    <3>1. \A t \in Session \ {s} : SameFor(Here, d, t) /\ ~Accepting(run, t) /\ ~Accepting(run', t)
      BY <1>1, <2>7, <2>9 DEF Accepting
    <3> QED
      BY <2>1, <2>7, <2>11, <3>1, OneAndOthers DEF Inv
  <2>13. ControlOK'
    BY <1>2, <2>7 DEF Inv, ControlOK, Accept
  <2>14. \A t \in Session \ {s} : d.sess[t] = Here.sess[t]
    BY <2>9 DEF SameFor
  <2>15. Srv(d, "Stop") = Srv(Here, "Stop") /\ Srv(d, "FinalStop") = Srv(Here, "FinalStop")
    BY <2>9 DEF ServerKind
  <2>16. Counted(Here)' /\ Walked(Here)' /\ Kept'
    BY <1>1, <2>4, <2>7, <2>15 DEF Inv, Accept, ServerInv, Counted, Walked, Kept, Holder
  <2>17. \A t \in Session : t > srv.made => d.sess[t].sock = "none"
    BY <2>1, <2>8, <2>14 DEF Inv, ServerInv, Accepts, Session
  <2>18. Accepts(Here)'
    BY <1>1, <2>1, <2>4, <2>7, <2>8, <2>17
       DEF Inv, Accept, ServerInv, Accepts, InHandleAccept, Session
  <2>19. Pooled(Here)'
    BY <1>1, <2>7, <2>9 DEF Inv, Accept, ServerInv, Pooled
  <2> QED
    BY <1>2, <2>7, <2>9, <2>12, <2>13, <2>16, <2>18, <2>19, StepBy DEF ServerInv
<1> QED
  BY <1>3, <1>4

\* HandleAccept has done a step for its session.
LEMMA AcceptStep ==
  ASSUME Inv, InHandleAccept, NEW s, s = run.s, NEW d, BooksOK(d), Here' = d,
         \A t \in Session \ {s} : SameFor(Here, d, t),
         SessionInv(d, s, run'), Unseen(Here, d),
         run' \in [pc : RunPc, s : Session \cup {0}, ec : BOOLEAN, todo : SUBSET Session],
         run'.pc \in {"done", "state", "fire", "check", "emplace", "next"}, run'.s = s,
         ~EarlyStop /\ run'.pc = "state" => ~run'.ec,
         UNCHANGED <<state, srv, pool, api, calls, crashed>>
  PROVE  Inv'
<1>1. s \in Session
  BY DEF Inv, ServerInv, Accepts
<1>2. \A t \in Session \ {s} : ~Accepting(run, t) /\ ~Accepting(run', t)
  BY DEF Accepting
<1>3. SessionsInv(d, run')
  BY <1>1, <1>2, OneAndOthers DEF Inv
<1>4. ServerInv(Here)'
  BY RunServer
<1>5. ControlOK' /\ (~EarlyStop => ~crashed')
  BY DEF Inv, ControlOK
<1> QED
  BY <1>3, <1>4, <1>5, StepBy

\* The session HandleAccept is at work on.
LEMMA AtWork ==
  ASSUME Inv, NEW s, s = run.s,
         run.pc \in {"accepted", "done", "state", "fire", "check", "emplace"}
  PROVE  /\ s \in Session /\ InHandleAccept /\ Accepting(run, s) /\ SessionInv(Here, s, run)
         /\ Here.sess = sess /\ Here.strand = strand
         /\ sess[s] \in SessionState /\ Here.sess[s].st # "Stopped" /\ ~Here.sess[s].reg
         /\ Here.sess[s].sock = "open" /\ Here.sess[s].counter
         /\ On(Here, s, "Teardown") = 0 /\ pool.live = Io
<1>1. s \in Session /\ InHandleAccept /\ Accepting(run, s) /\ Here.sess = sess /\ Here.strand = strand
  BY DEF InHandleAccept, Inv, ServerInv, Accepts, Accepting, Here
<1>2. SessionInv(Here, s, run) /\ sess[s] \in SessionState
  BY <1>1, QueuedNat DEF Inv, SessionsInv
<1>3. Here.sess[s].st # "Stopped" /\ ~Here.sess[s].reg /\ Here.sess[s].sock = "open" /\ Here.sess[s].counter
  BY <1>1, <1>2 DEF SessionInv, Life
<1>4. On(Here, s, "Teardown") = 0
  <2>1. On(Here, s, "Teardown") \in Nat
    BY <1>1, OnNat DEF Inv, SessionKind
  <2> QED
    BY <1>2, <1>3, <2>1 DEF SessionInv, Leaving
<1>5. pool.live = Io
  BY <1>1, <1>3, AliveRuns
<1> QED
  BY <1>1, <1>2, <1>3, <1>4, <1>5

\* A session is put back with another flag or timer, and nothing is posted.
LEMMA PutUnseen ==
  ASSUME Inv, NEW s \in Session, NEW w \in SessionState, NEW d, BooksOK(d), d.sess[s] = w,
         d.strand = Here.strand, \A t \in Session \ {s} : SameFor(Here, d, t),
         \A k \in ServerKind : Srv(d, k) = Srv(Here, k),
         w.counter = Here.sess[s].counter, w.sock = Here.sess[s].sock,
         w.st \in {"Started", "Starting"} => Here.sess[s].st \in {"Started", "Starting"}
  PROVE  Unseen(Here, d)
<1>1. \A t \in Session \ {s} : d.sess[t] = Here.sess[t]
  BY DEF SameFor
<1>2. \A t \in Session : d.sess[t].st \in NetState
  BY DEF BooksOK, SessionState
<1>3. Srv(d, "Stop") = Srv(Here, "Stop") /\ Srv(d, "FinalStop") = Srv(Here, "FinalStop")
  BY DEF ServerKind
<1> QED
  BY <1>1, <1>2, <1>3 DEF Unseen

SetOp(v, k, o) == [v EXCEPT !.op[k] = o]

LEMMA OpTyped ==
  ASSUME NEW v \in SessionState, NEW k \in SessionOp, NEW o \in OpState,
         NEW w, w = SetOp(v, k, o)
  PROVE  /\ w \in SessionState /\ w.op[k] = o /\ \A l \in SessionOp \ {k} : w.op[l] = v.op[l]
         /\ w.st = v.st /\ w.sock = v.sock /\ w.reg = v.reg /\ w.counter = v.counter
         /\ w.events = v.events /\ w.connCanceled = v.connCanceled /\ w.timedOut = v.timedOut
         /\ w.silenceCanceled = v.silenceCanceled /\ w.told = v.told
<1>1. v.op \in [SessionOp -> OpState]
  BY DEF SessionState
<1>2. w = [v EXCEPT !.op = [v.op EXCEPT ![k] = o]]
  BY DEF SetOp
<1>3. [v.op EXCEPT ![k] = o] \in [SessionOp -> OpState]
  BY <1>1
<1>4. [v.op EXCEPT ![k] = o][k] = o /\ \A l \in SessionOp \ {k} : [v.op EXCEPT ![k] = o][l] = v.op[l]
  BY <1>1
<1> QED
  BY <1>2, <1>3, <1>4 DEF SessionState

\* The connect timeout is armed.
Armed(v, w) ==
  /\ w.op["conn"] = "pending" /\ ~w.timedOut
  /\ \A l \in SessionOp \ {"conn"} : w.op[l] = v.op[l]
  /\ w.st = v.st /\ w.sock = v.sock /\ w.reg = v.reg /\ w.counter = v.counter
  /\ w.events = v.events /\ w.connCanceled = v.connCanceled /\ w.told = v.told
  /\ w.silenceCanceled = v.silenceCanceled

LEMMA ArmIs ==
  ASSUME NEW c, BooksOK(c), NEW s \in Session, NEW d, d = ArmConn(c, s)
  PROVE  \E w \in SessionState : d = Put(c, s, w) /\ Armed(c.sess[s], w)
<1> DEFINE v == c.sess[s]
           u == SetOp(v, "conn", "pending")
           w == [u EXCEPT !.timedOut = FALSE]
<1>1. v \in SessionState /\ "conn" \in SessionOp /\ "pending" \in OpState
  BY QueuedNat DEF SessionOp, OpState
<1>2. u = SetOp(v, "conn", "pending")
  OBVIOUS
<1>5. d = Put(c, s, w)
  BY DEF Put, ArmConn, BooksOK, SetOp
<1> HIDE DEF u, v
<1>3. /\ u \in SessionState /\ u.op["conn"] = "pending"
      /\ \A l \in SessionOp \ {"conn"} : u.op[l] = v.op[l]
      /\ u.st = v.st /\ u.sock = v.sock /\ u.reg = v.reg /\ u.counter = v.counter
      /\ u.events = v.events /\ u.connCanceled = v.connCanceled /\ u.timedOut = v.timedOut
      /\ u.silenceCanceled = v.silenceCanceled /\ u.told = v.told
  BY <1>1, <1>2, OpTyped
<1>4. w \in SessionState
  BY <1>3 DEF SessionState
<1>6. /\ w.op = u.op /\ w.timedOut = FALSE /\ w.st = u.st /\ w.sock = u.sock /\ w.reg = u.reg
      /\ w.counter = u.counter /\ w.events = u.events /\ w.connCanceled = u.connCanceled
      /\ w.silenceCanceled = u.silenceCanceled /\ w.told = u.told
  BY <1>3 DEF SessionState
<1> HIDE DEF w
<1>7. Armed(v, w)
  BY <1>3, <1>6 DEF Armed
<1> QED
  BY <1>4, <1>5, <1>7 DEF v

LEMMA SessionStartInv == Inv /\ SessionStart => Inv'
<1> SUFFICES ASSUME Inv, SessionStart PROVE Inv'
  OBVIOUS
<1> DEFINE s == run.s
           v == Here.sess[s]
<1>0. run.pc = "accepted" /\ s = run.s /\ UNCHANGED <<state, srv, pool, api, calls, crashed>>
  BY DEF SessionStart, At
<1>1. /\ s \in Session /\ InHandleAccept /\ SessionInv(Here, s, run)
      /\ Here.sess = sess /\ BooksOK(Here)
      /\ v \in SessionState /\ v.st # "Stopped" /\ ~v.reg /\ v.sock = "open" /\ v.counter
      /\ On(Here, s, "Teardown") = 0 /\ pool.live = Io
  <2>1. run.pc \in {"accepted", "done", "state", "fire", "check", "emplace"}
    BY <1>0
  <2> QED
    BY <1>0, <2>1, AtWork DEF Inv
<1>2. v.op["conn"] = "none" /\ On(Here, s, "ArmConn") = 0 /\ Entering(run, s) /\ Accepting(run, s)
  BY <1>0, <1>1 DEF SessionInv, Timeout, Entering, Accepting
<1>3. CASE v.st = "Starting"
  <2> HIDE DEF s
  <2>1. /\ run' \in [pc : RunPc, s : Session \cup {0}, ec : BOOLEAN, todo : SUBSET Session]
        /\ run'.pc = "done" /\ run'.s = s
    <3>1. Goto("done") /\ "done" \in RunPc
      BY <1>1, <1>3 DEF SessionStart, RunPc, s
    <3> QED
      BY <3>1, GotoRun DEF Inv, s
  <2>2. Entering(run', s) /\ Accepting(run', s)
    BY <2>1 DEF Entering, Accepting
  <2>3. CASE IoOf(s) = 0
    <3> DEFINE d == ArmConn(Here, s)
    <3>1. Become(d)
      BY <1>1, <1>3, <2>3 DEF SessionStart, s
    <3>p. PICK w \in SessionState : d = Put(Here, s, w) /\ Armed(v, w)
      BY <1>1, ArmIs
    <3> HIDE DEF d, v
    <3>2. /\ d = Put(Here, s, w) /\ w.op["conn"] = "pending" /\ ~w.timedOut
          /\ \A l \in SessionOp \ {"conn"} : w.op[l] = v.op[l]
          /\ w.st = v.st /\ w.sock = v.sock /\ w.reg = v.reg
          /\ w.counter = v.counter /\ w.events = v.events
          /\ w.connCanceled = v.connCanceled /\ w.told = v.told
          /\ w.silenceCanceled = v.silenceCanceled
      BY <3>p DEF Armed
    <3>3. /\ Leaving(d, s) /\ BooksOK(d) /\ d.sess[s] = w /\ d.strand = Here.strand
          /\ \A k \in SessionKind : On(d, s, k) = On(Here, s, k)
          /\ \A t \in Session \ {s} : SameFor(Here, d, t)
          /\ \A k \in ServerKind : Srv(d, k) = Srv(Here, k)
      <4>1. Leaving(Here, s) /\ w.op["write"] = v.op["write"]
        BY <1>1, <3>2 DEF SessionInv, SessionOp
      <4> QED
        BY <1>1, <1>3, <3>2, <4>1, PutLeaving DEF v
    <3>4. /\ On(d, s, "ArmConn") = 0 /\ On(d, s, "Teardown") = 0
          /\ On(d, s, "StartRecv") = On(Here, s, "StartRecv")
      BY <1>1, <1>2, <3>3 DEF SessionKind
    <3>5. /\ w.op["silence"] = v.op["silence"] /\ w.op["recv"] = v.op["recv"]
          /\ w.op["write"] = v.op["write"]
      BY <3>2 DEF SessionOp
    <3>6. Life(d, s, run')
      BY <1>1, <1>3, <2>2, <3>2, <3>3, <3>4 DEF SessionInv, Life, v
    <3>7. Timeout(d, s, run') /\ (~EarlyStop => Undisturbed(d, s, run'))
      BY <1>1, <1>3, <2>1, <2>2, <3>2, <3>3, <3>4, <3>5 DEF SessionInv, Timeout, Undisturbed, v
    <3>8. Unseen(Here, d)
      BY <1>1, <3>2, <3>3, PutUnseen DEF v
    <3>9. Here' = d /\ SessionInv(d, s, run')
      BY <3>1, <3>3, <3>6, <3>7, HereIs DEF SessionInv
    <3> QED
      BY <1>0, <1>1, <2>1, <3>3, <3>8, <3>9, AcceptStep
  <2>4. CASE IoOf(s) # 0
    <3> DEFINE x == [t |-> "ArmConn", s |-> s]
               d == Post(Here, x)
    <3>1. Become(d) /\ d = Post(Here, x)
      BY <1>1, <1>3, <2>4 DEF SessionStart, s
    <3>2. x \in TasksOf(IoOf(s)) /\ x.t = "ArmConn" /\ x.s = s
      BY <1>1, ArmingTask
    <3> HIDE DEF d, x, v
    <3>3. /\ BooksOK(d) /\ d.sess = Here.sess /\ Leaving(d, s)
          /\ On(d, s, x.t) = On(Here, s, x.t) + 1
          /\ \A l \in SessionKind \ {x.t} : On(d, s, l) = On(Here, s, l)
          /\ \A t \in Session \ {s} : SameFor(Here, d, t)
          /\ \A l \in ServerKind : Srv(d, l) = Srv(Here, l)
          /\ \A j \in Io \ {IoOf(s)} : d.strand[j] = Here.strand[j]
      <4>1. Leaving(Here, s) /\ x.t \in {"ArmConn", "StartRecv"}
        BY <1>1, <3>2 DEF SessionInv
      <4> QED
        BY <1>1, <3>1, <3>2, <4>1, ArmingLeaves
    <3>4. /\ On(d, s, "ArmConn") = 1 /\ On(d, s, "Teardown") = 0
          /\ On(d, s, "StartRecv") = On(Here, s, "StartRecv")
      BY <1>1, <1>2, <3>2, <3>3 DEF SessionKind
    <3>5. Life(d, s, run')
      BY <1>1, <1>3, <2>2, <3>3, <3>4 DEF SessionInv, Life, v
    <3>6. Timeout(d, s, run') /\ (~EarlyStop => Undisturbed(d, s, run'))
      BY <1>1, <1>2, <1>3, <2>1, <2>2, <3>3, <3>4 DEF SessionInv, Timeout, Undisturbed, v
    <3>7. Unseen(Here, d)
      BY <1>1, <3>3, UnseenSame DEF Unseen, ServerKind
    <3>8. Here' = d /\ SessionInv(d, s, run')
      BY <3>1, <3>3, <3>5, <3>6, HereIs DEF SessionInv
    <3> QED
      BY <1>0, <1>1, <2>1, <3>3, <3>7, <3>8, AcceptStep
  <2> QED
    BY <2>3, <2>4
<1>4. CASE v.st # "Starting"
  <2> DEFINE d == DoDisconnect(Here, 0, s)
  <2>1. v.st = "Stopping"
    BY <1>1, <1>2, <1>4 DEF SessionInv, Life, SessionState, NetState
  <2>2. d = Here
    BY <2>1 DEF DoDisconnect
  <2>3. Here' = d /\ Goto("next") /\ "next" \in RunPc
    BY <1>1, <1>4, <2>2, HereIs DEF SessionStart, RunPc
  <2> HIDE DEF d, s, v
  <2>4. /\ run' \in [pc : RunPc, s : Session \cup {0}, ec : BOOLEAN, todo : SUBSET Session]
        /\ run'.pc = "next" /\ run'.s = s
    BY <2>3, GotoRun DEF Inv, s
  <2>5. SessionInv(d, s, run')
    BY <1>1, <2>1, <2>2, <2>4, LeftDown DEF Accepting, v
  <2>6. Unseen(Here, d) /\ \A t \in Session \ {s} : SameFor(Here, d, t)
    BY <1>1, <2>2, UnseenSame DEF SameFor
  <2> QED
    BY <1>0, <1>1, <2>2, <2>3, <2>4, <2>5, <2>6, AcceptStep
<1> QED
  BY <1>3, <1>4

LEMMA DoneConnectInv == Inv /\ DoneConnect => Inv'
<1> SUFFICES ASSUME Inv, DoneConnect PROVE Inv'
  OBVIOUS
<1> DEFINE s == run.s
           v == Here.sess[s]
           o == Cancel(v.op["conn"])
           u == SetOp(v, "conn", o)
           w == [u EXCEPT !.connCanceled = TRUE]
           d == Put(Here, s, w)
<1>0. run.pc = "done" /\ s = run.s /\ UNCHANGED <<state, srv, pool, api, calls, crashed>>
  BY DEF DoneConnect, At
<1>1. /\ s \in Session /\ InHandleAccept /\ SessionInv(Here, s, run)
      /\ Here.sess = sess /\ Here.strand = strand /\ BooksOK(Here)
      /\ v \in SessionState /\ v.st # "Stopped" /\ ~v.reg /\ v.sock = "open" /\ v.counter
      /\ On(Here, s, "Teardown") = 0 /\ pool.live = Io
  <2>1. run.pc \in {"accepted", "done", "state", "fire", "check", "emplace"}
    BY <1>0
  <2> QED
    BY <1>0, <2>1, AtWork DEF Inv
<1>2. "conn" \in SessionOp /\ v.op["conn"] \in OpState /\ Cancel(v.op["conn"]) \in OpState
  BY <1>1 DEF SessionState, SessionOp, OpState, Cancel
<1>3. d = [sess |-> [sess EXCEPT ![s] = w], strand |-> strand]
  BY <1>1 DEF Put, Here
<1>4. sess' = [sess EXCEPT ![s] = w] /\ strand' = strand
  BY <1>1 DEF DoneConnect, StopConnectTimeoutTimer, SetOp
<1>5. Here' = d
  BY <1>3, <1>4 DEF Here
<1>6. /\ run' \in [pc : RunPc, s : Session \cup {0}, ec : BOOLEAN, todo : SUBSET Session]
      /\ run'.pc = "state" /\ run'.s = s /\ run'.ec = v.timedOut
  BY <1>1 DEF DoneConnect, Inv, ControlOK, RunPc, SessionState
<1>7. u = SetOp(v, "conn", o) /\ o \in OpState /\ d = Put(Here, s, w)
  BY <1>2
<1>8. v = Here.sess[s] /\ o = Cancel(v.op["conn"])
  OBVIOUS
<1> HIDE DEF s, v, u, d, o
<1>9. /\ u \in SessionState /\ u.op["conn"] = o
      /\ \A l \in SessionOp \ {"conn"} : u.op[l] = v.op[l]
      /\ u.st = v.st /\ u.sock = v.sock /\ u.reg = v.reg /\ u.counter = v.counter
      /\ u.events = v.events /\ u.connCanceled = v.connCanceled /\ u.timedOut = v.timedOut
      /\ u.silenceCanceled = v.silenceCanceled /\ u.told = v.told
  <2>1. v \in SessionState /\ "conn" \in SessionOp /\ o \in OpState /\ u = SetOp(v, "conn", o)
    BY <1>1, <1>2, <1>7
  <2> QED
    BY <2>1, OpTyped
<1>10. /\ w \in SessionState /\ w.connCanceled = TRUE
       /\ w.op = u.op /\ w.timedOut = u.timedOut /\ w.st = u.st /\ w.sock = u.sock
       /\ w.reg = u.reg /\ w.counter = u.counter /\ w.events = u.events /\ w.told = u.told
  BY <1>9 DEF SessionState
<1> HIDE DEF w
<1>11. /\ w.op["write"] = v.op["write"] /\ w.op["silence"] = v.op["silence"]
       /\ w.op["recv"] = v.op["recv"] /\ (w.op["conn"] = "none" <=> v.op["conn"] = "none")
  BY <1>8, <1>9, <1>10 DEF SessionOp, Cancel
<1>12. /\ Leaving(d, s) /\ BooksOK(d) /\ d.sess[s] = w /\ d.strand = Here.strand
       /\ \A k \in SessionKind : On(d, s, k) = On(Here, s, k)
       /\ \A t \in Session \ {s} : SameFor(Here, d, t)
       /\ \A k \in ServerKind : Srv(d, k) = Srv(Here, k)
  <2>1. Leaving(Here, s)
    BY <1>1 DEF SessionInv
  <2>2. /\ w.events = Here.sess[s].events /\ w.op["write"] = Here.sess[s].op["write"]
        /\ w.st = Here.sess[s].st
    BY <1>8, <1>9, <1>10, <1>11
  <2>3. BooksOK(Here) /\ s \in Session /\ On(Here, s, "Teardown") = 0 /\ d = Put(Here, s, w)
        /\ w \in SessionState
    BY <1>1, <1>7, <1>10
  <2> QED
    BY <2>1, <2>2, <2>3, PutLeaving
<1>13. /\ On(d, s, "ArmConn") = On(Here, s, "ArmConn") /\ On(d, s, "Teardown") = 0
       /\ On(d, s, "StartRecv") = On(Here, s, "StartRecv")
  BY <1>1, <1>12 DEF SessionKind
<1>14. Entering(run, s) /\ Entering(run', s) /\ Accepting(run, s) /\ Accepting(run', s)
  BY <1>0, <1>6 DEF Entering, Accepting
<1>15. Life(d, s, run')
  BY <1>1, <1>8, <1>9, <1>10, <1>12, <1>13, <1>14 DEF SessionInv, Life
<1>16. Timeout(d, s, run')
  BY <1>1, <1>6, <1>8, <1>10, <1>11, <1>12, <1>13 DEF SessionInv, Timeout
<1>17. ~EarlyStop => Undisturbed(d, s, run')
  BY <1>1, <1>6, <1>8, <1>9, <1>10, <1>11, <1>12, <1>13, <1>14 DEF SessionInv, Undisturbed
<1>18. Unseen(Here, d)
  BY <1>1, <1>8, <1>9, <1>10, <1>12, PutUnseen
<1>19. SessionInv(d, s, run') /\ (~EarlyStop /\ run'.pc = "state" => ~run'.ec)
  BY <1>12, <1>15, <1>16, <1>17 DEF SessionInv, Undisturbed
<1> QED
  BY <1>0, <1>1, <1>5, <1>6, <1>12, <1>18, <1>19, AcceptStep

\* A session is put back with its events and operations as they were.
FlagsOf(v, w) ==
  /\ w.events = v.events /\ w.op = v.op /\ w.sock = v.sock /\ w.counter = v.counter
  /\ w.st = "Stopping" <=> v.st = "Stopping"
  /\ w.st \in {"Started", "Starting"} => v.st \in {"Started", "Starting"}

LEMMA FlagPut ==
  ASSUME Inv, NEW s \in Session, NEW w \in SessionState, FlagsOf(Here.sess[s], w),
         On(Here, s, "Teardown") = 0,
         NEW d, d = Put(Here, s, w)
  PROVE  /\ Leaving(d, s) /\ BooksOK(d) /\ d.sess[s] = w /\ d.strand = Here.strand
         /\ On(d, s, "ArmConn") = On(Here, s, "ArmConn")
         /\ On(d, s, "StartRecv") = On(Here, s, "StartRecv")
         /\ On(d, s, "Teardown") = 0
         /\ \A t \in Session \ {s} : SameFor(Here, d, t)
         /\ Unseen(Here, d)
<1>1. Leaving(Here, s) /\ BooksOK(Here)
  BY DEF Inv, SessionsInv, SessionInv
<1>2. /\ Leaving(d, s) /\ BooksOK(d) /\ d.sess[s] = w /\ d.strand = Here.strand
      /\ \A k \in SessionKind : On(d, s, k) = On(Here, s, k)
      /\ \A t \in Session \ {s} : SameFor(Here, d, t)
      /\ \A k \in ServerKind : Srv(d, k) = Srv(Here, k)
  BY <1>1, PutLeaving DEF FlagsOf
<1>3. Unseen(Here, d)
  BY <1>2, PutUnseen DEF FlagsOf
<1> QED
  BY <1>2, <1>3 DEF SessionKind

LEMMA BecomeStartedInv == Inv /\ BecomeStarted => Inv'
<1> SUFFICES ASSUME Inv, BecomeStarted PROVE Inv'
  OBVIOUS
<1> DEFINE s == run.s
           v == Here.sess[s]
<1>0. run.pc = "state" /\ s = run.s /\ UNCHANGED <<state, srv, pool, api, calls, crashed>>
  BY DEF BecomeStarted, At
<1>1. /\ s \in Session /\ InHandleAccept /\ SessionInv(Here, s, run)
      /\ Here.sess = sess /\ Here.strand = strand /\ BooksOK(Here)
      /\ v \in SessionState /\ v.st # "Stopped" /\ ~v.reg /\ v.sock = "open" /\ v.counter
      /\ On(Here, s, "Teardown") = 0 /\ pool.live = Io
  <2>1. run.pc \in {"accepted", "done", "state", "fire", "check", "emplace"}
    BY <1>0
  <2> QED
    BY <1>0, <2>1, AtWork DEF Inv
<1>2. /\ Entering(run, s) /\ Accepting(run, s)
      /\ v.st \in {"Starting", "Stopping"}
      /\ v.op["conn"] # "none" \/ On(Here, s, "ArmConn") > 0 => v.connCanceled
      /\ ~EarlyStop => ~run.ec /\ v.st = "Starting"
  <2>1. Entering(run, s) /\ Accepting(run, s)
    BY <1>0 DEF Entering, Accepting
  <2>2. v.st \in {"Starting", "Stopping"}
    BY <1>1, <2>1 DEF SessionInv, Life, SessionState, NetState
  <2> QED
    BY <1>0, <1>1, <2>1, <2>2 DEF SessionInv, Timeout, Undisturbed
<1>3. CASE ~run.ec /\ v.st = "Starting"
  <2> DEFINE w == [v EXCEPT !.st = "Started"]
             d == Put(Here, s, w)
  <2>1. sess' = [sess EXCEPT ![s] = w] /\ strand' = strand /\ Goto("fire") /\ "fire" \in RunPc
    BY <1>1, <1>3 DEF BecomeStarted, RunPc
  <2>2. Here' = d
    <3>1. d = [sess |-> [sess EXCEPT ![s] = w], strand |-> strand]
      BY <1>1 DEF Put, Here
    <3> QED
      BY <2>1, <3>1 DEF Here
  <2>3. d = Put(Here, s, w) /\ v = Here.sess[s] /\ s = run.s
    OBVIOUS
  <2> HIDE DEF s, v, d
  <2>4. /\ run' \in [pc : RunPc, s : Session \cup {0}, ec : BOOLEAN, todo : SUBSET Session]
        /\ run'.pc = "fire" /\ run'.s = s
    BY <2>1, <2>3, GotoRun DEF Inv
  <2>5. /\ w \in SessionState /\ w.st = "Started" /\ w.events = v.events /\ w.op = v.op
        /\ w.sock = v.sock /\ w.counter = v.counter /\ w.reg = v.reg /\ w.told = v.told
        /\ w.connCanceled = v.connCanceled
    BY <1>1 DEF SessionState, NetState
  <2> HIDE DEF w
  <2>6. /\ Leaving(d, s) /\ BooksOK(d) /\ d.sess[s] = w /\ d.strand = Here.strand
        /\ On(d, s, "ArmConn") = On(Here, s, "ArmConn")
        /\ On(d, s, "StartRecv") = On(Here, s, "StartRecv")
        /\ On(d, s, "Teardown") = 0
        /\ \A t \in Session \ {s} : SameFor(Here, d, t)
        /\ Unseen(Here, d)
    <3>1. FlagsOf(v, w)
      BY <1>3, <2>5 DEF FlagsOf
    <3>2. FlagsOf(Here.sess[s], w) /\ s \in Session /\ w \in SessionState /\ On(Here, s, "Teardown") = 0
      BY <1>1, <2>3, <2>5, <3>1
    <3> QED
      BY <2>3, <3>2, FlagPut
  <2>7. ~Entering(run', s) /\ Accepting(run', s)
    BY <2>4 DEF Entering, Accepting
  <2>8. SessionInv(d, s, run')
    <3>1. Life(d, s, run')
      BY <1>1, <2>5, <2>6, <2>7 DEF Life
    <3>2. Timeout(d, s, run')
      BY <1>1, <1>2, <2>3, <2>4, <2>5, <2>6 DEF SessionInv, Timeout
    <3>3. Undisturbed(d, s, run')
      BY <2>4, <2>5, <2>6, <2>7 DEF Undisturbed
    <3> QED
      BY <2>6, <3>1, <3>2, <3>3 DEF SessionInv
  <2> QED
    BY <1>0, <1>1, <2>2, <2>4, <2>6, <2>8, AcceptStep
<1>4. CASE ~(~run.ec /\ v.st = "Starting")
  <2> DEFINE d == DoDisconnect(Here, 0, s)
  <2>1. EarlyStop /\ Become(d) /\ Goto("next") /\ "next" \in RunPc /\ d = DoDisconnect(Here, 0, s)
    BY <1>1, <1>2, <1>4 DEF BecomeStarted, RunPc
  <2> HIDE DEF d
  <2>2. /\ d = Here \/ Touches(Here, d, s)
        /\ BooksOK(d) /\ SessionInv(d, s, run)
        /\ \A t \in Session \ {s} : SameFor(Here, d, t)
        /\ d.sess[s].st = IF v.st \in {"Started", "Starting"} THEN "Stopping" ELSE v.st
    <3>1. /\ BooksOK(Here) /\ s \in Session /\ SessionInv(Here, s, run)
          /\ Here.sess[s].st = "Starting" => EarlyStop
      BY <1>1, <2>1
    <3> HIDE DEF s, v
    <3>2. v = Here.sess[s]
      BY DEF v
    <3>3. DisconnectKept(Here, d, s, run)
      BY <2>1, <3>1, DisconnectKeeps
    <3> QED
      BY <3>2, <3>3 DEF DisconnectKept
  <2>3. d.sess[s].st = "Stopping"
    BY <1>2, <2>2
  <2>4. Here' = d
    BY <2>1, <2>2, HereIs
  <2> HIDE DEF s, v
  <2>5. /\ run' \in [pc : RunPc, s : Session \cup {0}, ec : BOOLEAN, todo : SUBSET Session]
        /\ run'.pc = "next" /\ run'.s = s
    BY <2>1, GotoRun DEF Inv, s
  <2>6. SessionInv(d, s, run')
    BY <2>2, <2>3, <2>5, LeftDown DEF Accepting
  <2>7. Unseen(Here, d)
    <3>1. IoOf(s) \in pool.live
      BY <1>1, IoOfIo
    <3> QED
      BY <1>1, <2>2, <2>3, <3>1, TouchesUnseen, UnseenSame
  <2> QED
    BY <1>0, <1>1, <2>2, <2>4, <2>5, <2>6, <2>7, AcceptStep
<1> QED
  BY <1>3, <1>4

LEMMA FireConnectInv == Inv /\ FireConnect => Inv'
<1> SUFFICES ASSUME Inv, FireConnect PROVE Inv'
  OBVIOUS
<1> DEFINE s == run.s
           v == Here.sess[s]
           w == IF v.st = "Started" THEN [v EXCEPT !.told = "connected"] ELSE v
           d == Put(Here, s, w)
<1>0. run.pc = "fire" /\ s = run.s /\ UNCHANGED <<state, srv, pool, api, calls, crashed>>
  BY DEF FireConnect, At
<1>1. /\ s \in Session /\ InHandleAccept /\ SessionInv(Here, s, run)
      /\ Here.sess = sess /\ Here.strand = strand /\ BooksOK(Here)
      /\ v \in SessionState /\ v.st # "Stopped" /\ ~v.reg /\ v.sock = "open" /\ v.counter
      /\ On(Here, s, "Teardown") = 0 /\ pool.live = Io
  <2>1. run.pc \in {"accepted", "done", "state", "fire", "check", "emplace"}
    BY <1>0
  <2> QED
    BY <1>0, <2>1, AtWork DEF Inv
<1>2. sess' = [sess EXCEPT ![s] = w] /\ strand' = strand /\ Goto("check") /\ "check" \in RunPc
  BY <1>1 DEF FireConnect, RunPc, Inv, BooksOK
<1>3. Here' = d
  <2>1. d = [sess |-> [sess EXCEPT ![s] = w], strand |-> strand]
    BY <1>1 DEF Put, Here
  <2> QED
    BY <1>2, <2>1 DEF Here
<1>4. d = Put(Here, s, w) /\ v = Here.sess[s] /\ s = run.s
  OBVIOUS
<1> HIDE DEF s, v, d
<1>5. /\ run' \in [pc : RunPc, s : Session \cup {0}, ec : BOOLEAN, todo : SUBSET Session]
      /\ run'.pc = "check" /\ run'.s = s
  BY <1>2, <1>4, GotoRun DEF Inv
<1>6. /\ w \in SessionState /\ w.st = v.st /\ w.events = v.events /\ w.op = v.op
      /\ w.sock = v.sock /\ w.counter = v.counter /\ w.reg = v.reg
      /\ w.connCanceled = v.connCanceled /\ w.timedOut = v.timedOut
      /\ w.told = "connected" => v.told = "connected" \/ v.st = "Started"
  BY <1>1 DEF SessionState
<1> HIDE DEF w
<1>7. /\ Leaving(d, s) /\ BooksOK(d) /\ d.sess[s] = w /\ d.strand = Here.strand
      /\ On(d, s, "ArmConn") = On(Here, s, "ArmConn")
      /\ On(d, s, "StartRecv") = On(Here, s, "StartRecv")
      /\ On(d, s, "Teardown") = 0
      /\ \A t \in Session \ {s} : SameFor(Here, d, t)
      /\ Unseen(Here, d)
  <2>1. FlagsOf(v, w)
    BY <1>6 DEF FlagsOf
  <2>2. FlagsOf(Here.sess[s], w) /\ s \in Session /\ w \in SessionState /\ On(Here, s, "Teardown") = 0
    BY <1>1, <1>4, <1>6, <2>1
  <2> QED
    BY <1>4, <2>2, FlagPut
<1>8. /\ ~Entering(run, s) /\ Accepting(run, s) /\ ~Entering(run', s) /\ Accepting(run', s)
      /\ ~(run'.s = s /\ run'.pc \in {"accepted", "state"}) /\ run'.pc # "state"
  BY <1>0, <1>5 DEF Entering, Accepting
<1>9. SessionInv(d, s, run')
  <2>1. Life(d, s, run')
    <3>1. v.st \in {"Started", "Stopping"}
      <4>1. Life(Here, s, run)
        BY <1>1 DEF SessionInv
      <4>2. v.st \in NetState
        BY <1>1 DEF SessionState
      <4> QED
        BY <1>1, <1>4, <1>8, <4>1, <4>2 DEF Life, NetState
    <3>2. /\ w.st \in {"Started", "Stopping"} /\ w.sock = "open" /\ w.counter /\ ~w.reg
      BY <1>1, <1>6, <3>1
    <3> QED
      BY <1>7, <1>8, <3>2 DEF Life
  <2>2. Timeout(d, s, run') /\ (~EarlyStop => Undisturbed(d, s, run'))
    BY <1>1, <1>4, <1>6, <1>7, <1>8 DEF SessionInv, Timeout, Undisturbed
  <2> QED
    BY <1>7, <2>1, <2>2 DEF SessionInv
<1> QED
  BY <1>0, <1>1, <1>3, <1>5, <1>7, <1>8, <1>9, AcceptStep

LEMMA EmplaceInv == Inv /\ Emplace => Inv'
<1> SUFFICES ASSUME Inv, Emplace PROVE Inv'
  OBVIOUS
<1> DEFINE s == run.s
           v == Here.sess[s]
           w == [v EXCEPT !.reg = TRUE]
           c == Put(Here, s, w)
           x == [t |-> "StartRecv", s |-> s]
           d == Post(c, x)
<1>0. run.pc = "emplace" /\ s = run.s /\ UNCHANGED <<state, srv, pool, api, calls, crashed>>
  BY DEF Emplace, At
<1>1. /\ s \in Session /\ InHandleAccept /\ SessionInv(Here, s, run)
      /\ Here.sess = sess /\ BooksOK(Here)
      /\ v \in SessionState /\ v.st # "Stopped" /\ ~v.reg /\ v.sock = "open" /\ v.counter
      /\ On(Here, s, "Teardown") = 0 /\ pool.live = Io
  <2>1. run.pc \in {"accepted", "done", "state", "fire", "check", "emplace"}
    BY <1>0
  <2> QED
    BY <1>0, <2>1, AtWork DEF Inv
<1>2. Become(d) /\ Goto("next") /\ "next" \in RunPc
  BY DEF Emplace, RunPc, Put
<1>3. x \in TasksOf(IoOf(s)) /\ x.t = "StartRecv" /\ x.s = s
  BY <1>1, ArmingTask
<1>4. d = Post(c, x) /\ c = Put(Here, s, w) /\ v = Here.sess[s] /\ s = run.s
  OBVIOUS
<1> HIDE DEF s, v, c, x, d
<1>5. /\ run' \in [pc : RunPc, s : Session \cup {0}, ec : BOOLEAN, todo : SUBSET Session]
      /\ run'.pc = "next" /\ run'.s = s
  BY <1>2, <1>4, GotoRun DEF Inv
<1>6. /\ w \in SessionState /\ w.st = v.st /\ w.events = v.events /\ w.op = v.op
      /\ w.sock = v.sock /\ w.counter = v.counter /\ w.reg = TRUE
      /\ w.connCanceled = v.connCanceled /\ w.timedOut = v.timedOut /\ w.told = v.told
  BY <1>1 DEF SessionState
<1> HIDE DEF w
<1>7. /\ Leaving(c, s) /\ BooksOK(c) /\ c.sess[s] = w /\ c.strand = Here.strand
      /\ On(c, s, "ArmConn") = On(Here, s, "ArmConn")
      /\ On(c, s, "StartRecv") = On(Here, s, "StartRecv")
      /\ On(c, s, "Teardown") = 0
      /\ \A t \in Session \ {s} : SameFor(Here, c, t)
      /\ Unseen(Here, c)
  <2>1. FlagsOf(v, w)
    BY <1>6 DEF FlagsOf
  <2>2. FlagsOf(Here.sess[s], w) /\ s \in Session /\ w \in SessionState /\ On(Here, s, "Teardown") = 0
    BY <1>1, <1>4, <1>6, <2>1
  <2> QED
    BY <1>4, <2>2, FlagPut
<1>8. /\ BooksOK(d) /\ d.sess = c.sess /\ Leaving(d, s)
      /\ \A l \in SessionKind \ {"StartRecv"} : On(d, s, l) = On(c, s, l)
      /\ \A t \in Session \ {s} : SameFor(c, d, t)
      /\ \A l \in ServerKind : Srv(d, l) = Srv(c, l)
      /\ \A j \in Io \ {IoOf(s)} : d.strand[j] = c.strand[j]
  BY <1>1, <1>3, <1>4, <1>7, ArmingLeaves
<1>9. /\ On(d, s, "ArmConn") = On(Here, s, "ArmConn") /\ On(d, s, "Teardown") = 0
  BY <1>7, <1>8 DEF SessionKind
<1>10. /\ ~Entering(run, s) /\ Accepting(run, s) /\ ~Entering(run', s) /\ ~Accepting(run', s)
       /\ ~(run'.s = s /\ run'.pc \in {"accepted", "state"}) /\ run'.pc # "state"
  BY <1>0, <1>5 DEF Entering, Accepting
<1>11. SessionInv(d, s, run')
  <2>1. Life(d, s, run')
    <3>1. d.sess[s] = w /\ w.st # "Starting" /\ (w.told = "connected" => w.st # "Starting")
      BY <1>1, <1>4, <1>6, <1>7, <1>8, <1>10 DEF SessionInv, Life
    <3> QED
      BY <1>1, <1>6, <1>10, <3>1 DEF Life
  <2>2. Timeout(d, s, run')
    BY <1>1, <1>4, <1>6, <1>7, <1>8, <1>9, <1>10 DEF SessionInv, Timeout
  <2>3. Undisturbed(d, s, run')
    BY <1>1, <1>4, <1>6, <1>7, <1>8, <1>10 DEF SessionInv, Life, Undisturbed
  <2> QED
    BY <1>8, <2>1, <2>2, <2>3 DEF SessionInv
<1>12. \A t \in Session \ {s} : SameFor(Here, d, t)
  BY <1>7, <1>8 DEF SameFor
<1>13. Unseen(Here, d)
  BY <1>1, <1>7, <1>8 DEF Unseen, ServerKind
<1>14. Here' = d
  BY <1>2, <1>8, HereIs
<1> QED
  BY <1>0, <1>1, <1>5, <1>8, <1>10, <1>11, <1>12, <1>13, <1>14, AcceptStep

-----------------------------------------------------------------------------
(* The walk of the stop.                                                   *)

LEMMA WalkSessionInv == Inv /\ WalkSession => Inv'
<1> SUFFICES ASSUME Inv, WalkSession PROVE Inv'
  OBVIOUS
<1>0. run.pc = "walk" /\ 0 \in pool.live /\ UNCHANGED <<state, srv, pool, api, calls, crashed>>
  BY DEF WalkSession, At
<1>1. PICK s \in run.todo : /\ Become(DoDisconnect(Here, 0, s))
                            /\ run' = [run EXCEPT !.todo = @ \ {s}]
  BY DEF WalkSession
<1> DEFINE d == DoDisconnect(Here, 0, s)
<1>2. d = DoDisconnect(Here, 0, s) /\ Become(d)
  BY <1>1
<1> HIDE DEF d
<1>3. /\ run' \in [pc : RunPc, s : Session \cup {0}, ec : BOOLEAN, todo : SUBSET Session]
      /\ run'.pc = "walk" /\ run'.todo = run.todo \ {s} /\ s \in Session
  BY <1>0, <1>1 DEF Inv, ControlOK
<1>4. \A t \in Session : ~Accepting(run, t) /\ ~Accepting(run', t) /\ ~Entering(run, t)
  BY <1>0, <1>3 DEF Accepting, Entering
<1>5. SessionInv(Here, s, run) /\ BooksOK(Here) /\ Here.sess[s].st # "Starting"
  BY <1>3, <1>4 DEF Inv, SessionsInv, SessionInv, Life
<1>6. /\ d = Here \/ Touches(Here, d, s)
      /\ BooksOK(d) /\ SessionInv(d, s, run)
      /\ \A t \in Session \ {s} : SameFor(Here, d, t)
      /\ d.sess[s].st = IF Here.sess[s].st \in {"Started", "Starting"} THEN "Stopping"
                        ELSE Here.sess[s].st
  <2>1. /\ s \in Session /\ BooksOK(Here) /\ SessionInv(Here, s, run)
        /\ (Here.sess[s].st = "Starting" => EarlyStop) /\ d = DoDisconnect(Here, 0, s)
    BY <1>2, <1>3, <1>5
  <2>2. DisconnectKept(Here, d, s, run)
    BY <2>1, DisconnectKeeps
  <2> QED
    BY <2>2 DEF DisconnectKept
<1>7. Unseen(Here, d)
  <2>1. CASE d = Here
    BY <1>5, <2>1, UnseenSame
  <2>2. CASE Here.sess[s].st \in {"Started", "Starting"} /\ Touches(Here, d, s)
    <3>1. Here.sess[s].sock = "open"
      BY <1>5, <2>2 DEF SessionInv, Life
    <3>2. IoOf(s) \in pool.live
      BY <1>3, <3>1, AliveRuns, IoOfIo
    <3> QED
      BY <1>3, <1>6, <2>2, <3>2, TouchesUnseen
  <2>3. CASE Here.sess[s].st \notin {"Started", "Starting"}
    <3>1. d = Here
      BY <1>2, <2>3 DEF DoDisconnect
    <3> QED
      BY <2>1, <3>1
  <2> QED
    BY <1>6, <2>1, <2>2, <2>3
<1>8. SessionsInv(d, run')
  <2>1. SessionsInv(d, run)
    BY <1>6, SameKeeps DEF Inv, SessionsInv
  <2> QED
    BY <1>3, <1>4, <2>1, RunMoves
<1>9. ServerInv(d) /\ Here' = d
  BY <1>2, <1>6, <1>7, UnseenKeeps, HereIs DEF Inv
<1>10. d.sess[s].st \notin {"Started", "Starting"}
  BY <1>6
<1>11. Counted(Here)' /\ Kept'
  BY <1>0, <1>3, <1>9 DEF ServerInv, Counted, Kept, Holder
<1>12. Walked(Here)'
  BY <1>0, <1>3, <1>9, <1>10 DEF ServerInv, Walked
<1>13. Accepts(Here)' /\ Pooled(Here)'
  BY <1>0, <1>3, <1>9 DEF ServerInv, Accepts, InHandleAccept, Pooled
<1>14. ControlOK' /\ (~EarlyStop => ~crashed')
  BY <1>0, <1>3 DEF Inv, ControlOK
<1> QED
  BY <1>6, <1>8, <1>9, <1>11, <1>12, <1>13, <1>14, StepBy DEF ServerInv

LEMMA WalkEndInv == Inv /\ WalkEnd => Inv'
<1> SUFFICES ASSUME Inv, WalkEnd PROVE Inv'
  OBVIOUS
<1>1. /\ run.pc = "walk" /\ run.todo = {} /\ 0 \in pool.live /\ run' = Resting
      /\ state = "Stopping" /\ srv.counter /\ Here.sess = sess
      /\ Srv(Here, "FinalStop") = 0 /\ Srv(Here, "Stop") = 0 /\ BooksOK(Here)
      /\ srv'.counter = FALSE /\ srv'.accept = srv.accept /\ srv'.keep = srv.keep
      /\ srv'.made = srv.made
  BY DEF WalkEnd, At, Inv, ControlOK, ServerInv, Counted, Holder, Here
<1> DEFINE last == \A s \in Session : ~sess[s].counter
           d == IF last THEN PostTo(Here, 0, [t |-> "FinalStop"]) ELSE Here
<1>2. Become(d)
  BY <1>1 DEF WalkEnd
<1>3. /\ BooksOK(d) /\ d.sess = Here.sess /\ SessionsInv(d, run)
      /\ Srv(d, "Stop") = 0 /\ Srv(d, "FinalStop") = IF last THEN 1 ELSE 0
      /\ \A j \in Io \ {0} : d.strand[j] = Here.strand[j]
  <2>1. CASE ~last
    BY <1>1, <2>1 DEF Inv
  <2>2. CASE last
    <3>1. "FinalStop" \in ServerKind /\ "Stop" \in ServerKind \ {"FinalStop"}
      BY DEF ServerKind
    <3>2. d = PostTo(Here, 0, [t |-> "FinalStop"])
      BY <2>2
    <3> HIDE DEF d, last
    <3>3. /\ BooksOK(d) /\ d.sess = Here.sess
          /\ \A s \in Session : SameFor(Here, d, s)
          /\ Srv(d, "FinalStop") = Srv(Here, "FinalStop") + 1
          /\ \A l \in ServerKind \ {"FinalStop"} : Srv(d, l) = Srv(Here, l)
          /\ \A j \in Io \ {0} : d.strand[j] = Here.strand[j]
      BY <1>1, <3>1, <3>2, ServerPost
    <3>4. SessionsInv(d, run)
      BY <3>3, SameAll DEF Inv
    <3> QED
      BY <1>1, <2>2, <3>1, <3>3, <3>4
  <2> QED
    BY <2>1, <2>2
<1> HIDE DEF d
<1>4. Here' = d
  BY <1>2, <1>3, HereIs
<1>5. SessionsInv(d, run')
  BY <1>1, <1>3, RunMoves DEF Accepting, Resting
<1>6. ControlOK'
  <2>1. Resting \in [pc : RunPc, s : Session \cup {0}, ec : BOOLEAN, todo : SUBSET Session]
    BY DEF Resting, RunPc
  <2> QED
    BY <1>1, <2>1 DEF Inv, ControlOK, WalkEnd
<1>7. /\ state' = state /\ api' = api /\ pool' = pool /\ crashed' = crashed
      /\ run'.pc = "idle"
  BY <1>1 DEF WalkEnd, Resting
<1>8. api.start # "pool" /\ (state = "Starting" <=> api.start \in {"pool", "listen"})
  BY <1>1 DEF Inv, ServerInv, Counted, Holder
<1>9. Counted(Here)'
  BY <1>1, <1>3, <1>4, <1>7, <1>8 DEF Counted, Holder
<1>10. Walked(Here)' /\ Kept'
  <2>1. \A s \in Session : d.sess[s].st \in {"Stopping", "Stopped"}
    <3>1. \A s \in Session : Here.sess[s].st \in NetState
      BY <1>1 DEF BooksOK, SessionState
    <3> QED
      BY <1>1, <1>3, <3>1 DEF Inv, ServerInv, Walked, NetState
  <2> QED
    BY <1>1, <1>4, <1>7, <2>1 DEF Walked, Kept, Inv, ServerInv
<1>11. Accepts(Here)'
  BY <1>1, <1>3, <1>4, <1>7 DEF Inv, ServerInv, Accepts, InHandleAccept
<1>12. Pooled(Here)'
  BY <1>1, <1>3, <1>4, <1>7 DEF Inv, ServerInv, Pooled
<1>13. ~EarlyStop => ~crashed'
  BY <1>7 DEF Inv
<1> QED
  BY <1>3, <1>4, <1>5, <1>6, <1>9, <1>10, <1>11, <1>12, <1>13, StepBy DEF ServerInv

-----------------------------------------------------------------------------
(* Tasks on a session's strand.                                            *)

\* A step of one session, of which the server sees nothing.
LEMMA SessionStep ==
  ASSUME Inv, NEW s \in Session, NEW d, BooksOK(d), Here' = d,
         \A t \in Session \ {s} : SameFor(Here, d, t), SessionInv(d, s, run),
         Unseen(Here, d), UNCHANGED <<state, srv, run, pool, api>>,
         ControlOK', ~EarlyStop => ~crashed'
  PROVE  Inv'
<1>1. \A t \in Session : SessionInv(d, t, run)
  BY SameKeeps DEF Inv, SessionsInv
<1>2. ServerInv(Here)'
  BY ServerSame DEF Inv
<1> QED
  BY <1>1, <1>2, StepBy DEF SessionsInv

LEMMA UnseenTwice ==
  ASSUME NEW c, NEW d, NEW e, Unseen(c, d), Unseen(d, e)
  PROVE  Unseen(c, e)
BY DEF Unseen

LEMMA SameTwice ==
  ASSUME NEW c, NEW d, NEW e, NEW s, SameFor(c, d, s), SameFor(d, e, s)
  PROVE  SameFor(c, e, s)
BY DEF SameFor

\* The first task of strand i, about session s.
TakenFrom(i, k, x, s, d) ==
  /\ s \in Session /\ x.t = k /\ x.s = s /\ x \in TasksOf(i) /\ x \in Task
  /\ BooksOK(d) /\ d.sess = Here.sess
  /\ On(Here, s, k) = On(d, s, k) + 1 /\ On(d, s, k) \in Nat
  /\ \A l \in SessionKind \ {k} : On(d, s, l) = On(Here, s, l)
  /\ Ordered(d, s)
  /\ k = "Teardown" => On(d, s, "ArmConn") = 0 /\ On(d, s, "StartRecv") = 0
  /\ \A t \in Session \ {s} : SameFor(Here, d, t)
  /\ \A l \in ServerKind : Srv(d, l) = Srv(Here, l)
  /\ \A j \in Io \ {i} : d.strand[j] = Here.strand[j]
  /\ i \in pool.live /\ (i = 0 => run.pc = "idle")
  /\ Here.sess[s].sock # "none"
  /\ Unseen(Here, d)

LEMMA TakenSession ==
  ASSUME Inv, NEW i \in Io, NEW k \in SessionKind, Next1(i, k),
         NEW x, x = Head(strand[i]), NEW s, s = x.s, NEW d, d = Taken(i)
  PROVE  TakenFrom(i, k, x, s, d)
<1>1. /\ strand[i] # <<>> /\ x.t = k /\ Here.sess = sess /\ Here.strand = strand
      /\ i \in pool.live /\ (i = 0 => run.pc = "idle")
  BY DEF Next1, Runs, Here
<1>2. /\ x \in TasksOf(i) /\ BooksOK(d) /\ d.sess = sess
      /\ d.strand = [strand EXCEPT ![i] = Tail(@)]
      /\ \A t \in Session, l \in SessionKind :
           On(d, t, l) = On(Here, t, l) - One(x.t = l /\ x.s = t)
      /\ \A l \in ServerKind : Srv(d, l) = Srv(Here, l) - One(x.t = l)
      /\ \A t \in Session : Ordered(Here, t) =>
           /\ Ordered(d, t)
           /\ x \in Of(t, "Teardown") => On(d, t, "ArmConn") = 0 /\ On(d, t, "StartRecv") = 0
  <2>1. TakenOut(i, x, d)
    BY <1>1, TakenOn DEF Inv
  <2> QED
    BY <2>1 DEF TakenOut
<1>3. x \in Task /\ s \in Session
  <2>1. x \in Task
    BY <1>2 DEF TasksOf
  <2> QED
    BY <1>1, <2>1, TaskShape
<1>4. /\ \A t \in Session, l \in SessionKind : On(Here, t, l) \in Nat /\ On(d, t, l) \in Nat
      /\ \A l \in ServerKind : Srv(Here, l) \in Nat
  BY <1>2, OnNat DEF Inv
<1>5. /\ One(x.t = k /\ x.s = s) = 1
      /\ \A l \in SessionKind \ {k} : One(x.t = l /\ x.s = s) = 0
      /\ \A t \in Session \ {s}, l \in SessionKind : One(x.t = l /\ x.s = t) = 0
      /\ \A l \in ServerKind : One(x.t = l) = 0
  BY <1>1 DEF One, SessionKind, ServerKind
<1>6. /\ On(Here, s, k) = On(d, s, k) + 1 /\ On(d, s, k) \in Nat
      /\ \A l \in SessionKind \ {k} : On(d, s, l) = On(Here, s, l)
      /\ \A t \in Session \ {s}, l \in SessionKind : On(d, t, l) = On(Here, t, l)
      /\ \A l \in ServerKind : Srv(d, l) = Srv(Here, l)
  BY <1>2, <1>3, <1>4, <1>5
<1>7. \A t \in Session : SessionInv(Here, t, run) /\ Ordered(Here, t)
  BY DEF Inv, SessionsInv, SessionInv, Leaving
<1>8. Ordered(d, s) /\ \A t \in Session \ {s} : SameFor(Here, d, t)
  BY <1>1, <1>2, <1>3, <1>6, <1>7 DEF SameFor
<1>9. k = "Teardown" => On(d, s, "ArmConn") = 0 /\ On(d, s, "StartRecv") = 0
  BY <1>1, <1>2, <1>3, <1>7 DEF Of
<1>10. \A j \in Io \ {i} : d.strand[j] = Here.strand[j]
  BY <1>1, <1>2 DEF Inv, BooksOK
<1>11. Here.sess[s].sock # "none"
  BY <1>3, <1>4, <1>6, <1>7 DEF SessionInv, Life
<1>12. Unseen(Here, d)
  <2>1. Unseen(Here, Here)
    BY UnseenSame DEF Inv
  <2> QED
    BY <1>1, <1>2, <1>6, <1>10, <2>1 DEF Unseen, ServerKind
<1> QED
  BY <1>1, <1>2, <1>3, <1>6, <1>8, <1>9, <1>10, <1>11, <1>12 DEF TakenFrom

\* A session is put back with other operations or flags of its timers.
Changed(v, w) ==
  /\ w.events = v.events /\ w.op["write"] = v.op["write"]
  /\ w.st = v.st /\ w.sock = v.sock /\ w.counter = v.counter /\ w.reg = v.reg /\ w.told = v.told
  /\ v.sock = "closed" => w.silenceCanceled /\ \A k \in SessionOp : w.op[k] # "pending"

LEMMA OpPutKeeps ==
  ASSUME NEW c, BooksOK(c), NEW s \in Session, NEW r, SessionInv(c, s, r),
         NEW w \in SessionState, Changed(c.sess[s], w), c.sess[s].sock # "none",
         NEW d, d = Put(c, s, w)
  PROVE  /\ BooksOK(d) /\ d.sess[s] = w /\ Leaving(d, s) /\ Life(d, s, r)
         /\ On(d, s, "ArmConn") = On(c, s, "ArmConn")
         /\ On(d, s, "StartRecv") = On(c, s, "StartRecv")
         /\ \A t \in Session \ {s} : SameFor(c, d, t)
         /\ Unseen(c, d)
<1>1. Leaving(c, s) /\ (On(c, s, "Teardown") > 0 => w.st = "Stopped" /\ w.sock = "open")
  BY DEF SessionInv, Leaving, Changed
<1>2. /\ Leaving(d, s) /\ BooksOK(d) /\ d.sess[s] = w /\ d.strand = c.strand
      /\ \A k \in SessionKind : On(d, s, k) = On(c, s, k)
      /\ \A t \in Session \ {s} : SameFor(c, d, t)
      /\ \A k \in ServerKind : Srv(d, k) = Srv(c, k)
  BY <1>1, PutLeaving DEF Changed
<1>3. /\ On(d, s, "ArmConn") = On(c, s, "ArmConn")
      /\ On(d, s, "StartRecv") = On(c, s, "StartRecv")
      /\ On(d, s, "Teardown") = On(c, s, "Teardown")
  BY <1>2 DEF SessionKind
<1>4. Life(d, s, r)
  BY <1>2, <1>3 DEF SessionInv, Life, Changed
<1>5. Unseen(c, d)
  <2>1. \A t \in Session \ {s} : d.sess[t] = c.sess[t]
    BY <1>2 DEF SameFor
  <2>2. \A t \in Session : d.sess[t].st \in NetState
    BY <1>2 DEF BooksOK, SessionState
  <2> QED
    BY <1>2, <2>1, <2>2 DEF Unseen, Changed, ServerKind
<1> QED
  BY <1>2, <1>3, <1>4, <1>5

\* A disconnect that comes from another strand joins the queue.
LEMMA RunEnqueueInv == \A i \in Io : Inv /\ RunEnqueue(i) => Inv'
<1> SUFFICES ASSUME NEW i \in Io, Inv, RunEnqueue(i) PROVE Inv'
  OBVIOUS
<1> DEFINE x == Head(strand[i])
           s == x.s
           c == Taken(i)
           d == EventEnqueue(c, s, x.ev)
<1>0. /\ Next1(i, "Enqueue") /\ Become(d) /\ "Enqueue" \in SessionKind
      /\ x = Head(strand[i]) /\ s = x.s /\ c = Taken(i) /\ d = EventEnqueue(c, s, x.ev)
      /\ UNCHANGED <<state, srv, run, pool, api, calls, crashed>>
  BY DEF RunEnqueue, SessionKind
<1> HIDE DEF x, s, c, d
<1>1. TakenFrom(i, "Enqueue", x, s, c)
  BY <1>0, TakenSession
<1>2. s \in Session /\ i = IoOf(s) /\ x.ev \in Disconnect /\ BooksOK(c)
  BY <1>1 DEF TakenFrom, TasksOf, SessionKind
<1>3. x.ev \in LegalEvent /\ x.ev.t = "disconnect"
  BY <1>2 DEF Disconnect
<1>4. SessionInv(Here, s, run) /\ BooksOK(Here)
  BY <1>2 DEF Inv, SessionsInv
<1>5. Touches(Here, c, s)
  BY <1>1, <1>2 DEF TakenFrom, Touches, SameBut
<1> DEFINE v == Here.sess[s]
           m == Queued(v) + On(c, s, "Enqueue")
<1>6. /\ Queued(v) \in Nat /\ On(c, s, "Enqueue") \in Nat
      /\ On(Here, s, "Enqueue") = On(c, s, "Enqueue") + 1 /\ c.sess = Here.sess
      /\ On(c, s, "Teardown") = On(Here, s, "Teardown") /\ On(Here, s, "Teardown") \in Nat
      /\ TasksAtFront(c, s) = TasksAtFront(Here, s)
  BY <1>1, <1>2, <1>4, QueuedNat, OnNat DEF TakenFrom, SessionKind, TasksAtFront
<1>7. Balance(c, s, m) /\ m \in Nat
  BY <1>4, <1>6 DEF SessionInv, Leaving, Balance
<1>8. m + 1 = One(v.st = "Stopping") + On(Here, s, "Teardown")
  BY <1>4, <1>6 DEF SessionInv, Leaving, Balance
<1> HIDE DEF m, v
<1>9. Touches(c, d, s) /\ d.sess[s].st = v.st /\ Balance(d, s, m + One(x.ev.t = "disconnect"))
  <2>1. /\ BooksOK(c) /\ s \in Session /\ x.ev \in LegalEvent /\ m \in Nat
        /\ d = EventEnqueue(c, s, x.ev) /\ Balance(c, s, m)
    BY <1>0, <1>2, <1>3, <1>7
  <2>2. /\ Touches(c, d, s) /\ d.sess[s].st = c.sess[s].st
        /\ Balance(d, s, m + One(x.ev.t = "disconnect"))
    BY <2>1, EnqueueBalance
  <2> QED
    BY <1>6, <2>2 DEF v
<1>10. Touches(Here, d, s) /\ BooksOK(d)
  BY <1>2, <1>5, <1>9, TouchesTwice DEF Touches
<1>11. Balance(d, s, One(d.sess[s].st = "Stopping") + On(d, s, "Teardown"))
  <2>1. On(d, s, "Teardown") = On(Here, s, "Teardown")
    BY <1>10 DEF Touches, SessionKind
  <2>2. One(x.ev.t = "disconnect") = 1
    BY <1>3 DEF One
  <2> QED
    BY <1>8, <1>9, <2>1, <2>2
<1>12. v.st # "Starting"
  <2>1. v.st = "Starting" => On(Here, s, "Teardown") = 0
    BY <1>4, <1>6 DEF SessionInv, Leaving, v
  <2> QED
    BY <1>7, <1>8, <2>1 DEF One
<1>13. SessionInv(d, s, run)
  <2>1. Here.sess[s].sock # "none" /\ d.sess[s].st = Here.sess[s].st /\ Here.sess[s].st # "Starting"
    BY <1>1, <1>9, <1>12 DEF TakenFrom, v
  <2> QED
    BY <1>2, <1>4, <1>10, <1>11, <2>1, TouchKeeps
<1>14. Unseen(Here, d)
  <2>1. IoOf(s) \in pool.live /\ d.sess[s].st = Here.sess[s].st
    BY <1>1, <1>2, <1>9 DEF TakenFrom, v
  <2> QED
    BY <1>2, <1>10, <2>1, TouchesUnseen
<1>15. Here' = d
  BY <1>0, <1>10, HereIs
<1>16. ControlOK' /\ (~EarlyStop => ~crashed')
  BY <1>0 DEF Inv, ControlOK
<1>17. \A t \in Session \ {s} : SameFor(Here, d, t)
  BY <1>10 DEF Touches
<1> QED
  BY <1>0, <1>2, <1>10, <1>13, <1>14, <1>15, <1>16, <1>17, SessionStep

\* Without its task that arms or receives, a session is as it was.
LEMMA TakenArming ==
  ASSUME Inv, NEW i \in Io, NEW k \in {"ArmConn", "StartRecv"}, NEW x, NEW s, NEW c,
         TakenFrom(i, k, x, s, c)
  PROVE  /\ SessionInv(c, s, run) /\ s \in Session /\ i = IoOf(s) /\ BooksOK(c)
         /\ c.sess[s] = Here.sess[s] /\ c.sess[s].sock = "open"
         /\ On(Here, s, k) = On(c, s, k) + 1 /\ On(c, s, k) \in Nat
         /\ \A l \in SessionKind \ {k} : On(c, s, l) = On(Here, s, l)
         /\ \A t \in Session \ {s} : SameFor(Here, c, t)
         /\ SessionInv(Here, s, run) /\ Unseen(Here, c)
<1>1. /\ s \in Session /\ i = IoOf(s) /\ BooksOK(c) /\ c.sess = Here.sess
      /\ On(Here, s, k) = On(c, s, k) + 1 /\ On(c, s, k) \in Nat
      /\ \A l \in SessionKind \ {k} : On(c, s, l) = On(Here, s, l)
      /\ \A t \in Session \ {s} : SameFor(Here, c, t)
      /\ Ordered(c, s) /\ Here.sess[s].sock # "none" /\ Unseen(Here, c)
  BY DEF TakenFrom, TasksOf, SessionKind
<1>2. SessionInv(Here, s, run) /\ Here.sess[s] \in SessionState
  BY <1>1, QueuedNat DEF Inv, SessionsInv
<1>3. /\ On(c, s, "Enqueue") = On(Here, s, "Enqueue") /\ TasksAtFront(c, s) = TasksAtFront(Here, s)
      /\ On(c, s, "Teardown") = On(Here, s, "Teardown")
  BY <1>1 DEF SessionKind, TasksAtFront
<1>4. /\ On(c, s, "ArmConn") <= On(Here, s, "ArmConn") /\ On(c, s, "ArmConn") \in Nat
      /\ On(c, s, "StartRecv") <= On(Here, s, "StartRecv") /\ On(c, s, "StartRecv") \in Nat
      /\ On(Here, s, "ArmConn") \in Nat /\ On(Here, s, "StartRecv") \in Nat
  <2>1. /\ On(c, s, "ArmConn") \in Nat /\ On(c, s, "StartRecv") \in Nat
        /\ On(Here, s, "ArmConn") \in Nat /\ On(Here, s, "StartRecv") \in Nat
    BY <1>1, OnNat DEF SessionKind, Inv
  <2>2. CASE k = "ArmConn"
    BY <1>1, <2>1, <2>2 DEF SessionKind
  <2>3. CASE k = "StartRecv"
    BY <1>1, <2>1, <2>3 DEF SessionKind
  <2> QED
    BY <2>1, <2>2, <2>3
<1>5. Here.sess[s].sock = "open"
  BY <1>1, <1>2 DEF SessionInv, Life, SessionState
<1>6. Leaving(c, s)
  BY <1>1, <1>2, <1>3 DEF SessionInv, Leaving, Balance
<1>7. Life(c, s, run)
  BY <1>1, <1>2, <1>3, <1>5 DEF SessionInv, Life
<1>8. Timeout(c, s, run) /\ (~EarlyStop => Undisturbed(c, s, run))
  BY <1>1, <1>2, <1>4 DEF SessionInv, Timeout, Undisturbed
<1> QED
  BY <1>1, <1>2, <1>5, <1>6, <1>7, <1>8 DEF SessionInv

LEMMA RunArmConnInv == \A i \in Io : Inv /\ RunArmConn(i) => Inv'
<1> SUFFICES ASSUME NEW i \in Io, Inv, RunArmConn(i) PROVE Inv'
  OBVIOUS
<1> DEFINE x == Head(strand[i])
           s == x.s
           c == Taken(i)
           d == ArmConn(c, s)
<1>0. /\ Next1(i, "ArmConn") /\ Become(d) /\ "ArmConn" \in SessionKind
      /\ x = Head(strand[i]) /\ s = x.s /\ c = Taken(i) /\ d = ArmConn(c, s)
      /\ UNCHANGED <<state, srv, run, pool, api, calls, crashed>>
  BY DEF RunArmConn, SessionKind
<1> HIDE DEF x, s, c, d
<1>1. TakenFrom(i, "ArmConn", x, s, c)
  BY <1>0, TakenSession
<1> DEFINE v == c.sess[s]
<1>2. /\ SessionInv(c, s, run) /\ s \in Session /\ BooksOK(c)
      /\ v = Here.sess[s] /\ v.sock = "open"
      /\ On(Here, s, "ArmConn") = On(c, s, "ArmConn") + 1 /\ On(c, s, "ArmConn") \in Nat
      /\ \A t \in Session \ {s} : SameFor(Here, c, t)
      /\ SessionInv(Here, s, run) /\ Unseen(Here, c)
  BY <1>1, TakenArming
<1>p. PICK w \in SessionState : d = Put(c, s, w) /\ Armed(v, w)
  BY <1>0, <1>2, ArmIs
<1> HIDE DEF v
<1>3. Changed(v, w)
  BY <1>2, <1>p DEF Armed, Changed, SessionOp
<1>4. /\ BooksOK(d) /\ d.sess[s] = w /\ Leaving(d, s) /\ Life(d, s, run)
      /\ On(d, s, "ArmConn") = On(c, s, "ArmConn")
      /\ On(d, s, "StartRecv") = On(c, s, "StartRecv")
      /\ \A t \in Session \ {s} : SameFor(c, d, t)
      /\ Unseen(c, d)
  BY <1>2, <1>3, <1>p, OpPutKeeps DEF v
<1>5. On(d, s, "ArmConn") = 0 /\ On(Here, s, "ArmConn") = 1
  BY <1>2, <1>4 DEF SessionInv, Timeout
<1>6. Timeout(d, s, run)
  BY <1>2, <1>4, <1>5, <1>p DEF SessionInv, Timeout, Armed
<1>7. ~EarlyStop => Undisturbed(d, s, run)
  BY <1>2, <1>4, <1>p DEF SessionInv, Undisturbed, Armed, SessionOp, v
<1>8. /\ SessionInv(d, s, run) /\ Unseen(Here, d) /\ Here' = d
      /\ \A t \in Session \ {s} : SameFor(Here, d, t)
  BY <1>0, <1>2, <1>4, <1>6, <1>7, UnseenTwice, SameTwice, HereIs DEF SessionInv
<1>9. ControlOK' /\ (~EarlyStop => ~crashed')
  BY <1>0 DEF Inv, ControlOK
<1> QED
  BY <1>0, <1>2, <1>4, <1>8, <1>9, SessionStep

LEMMA RunStartRecvInv == \A i \in Io : Inv /\ RunStartRecv(i) => Inv'
<1> SUFFICES ASSUME NEW i \in Io, Inv, RunStartRecv(i) PROVE Inv'
  OBVIOUS
<1> DEFINE x == Head(strand[i])
           s == x.s
           c == Taken(i)
           v == c.sess[s]
           w == StartReceiving(v)
           d == [c EXCEPT !.sess[s] = StartReceiving(@)]
<1>0. /\ Next1(i, "StartRecv") /\ "StartRecv" \in SessionKind
      /\ x = Head(strand[i]) /\ s = x.s /\ c = Taken(i)
      /\ v = c.sess[s] /\ w = StartReceiving(v) /\ Become(d)
      /\ UNCHANGED <<state, srv, run, pool, api, calls, crashed>>
  BY DEF RunStartRecv, SessionKind
<1> HIDE DEF x, s, c, w
<1>1. TakenFrom(i, "StartRecv", x, s, c)
  BY <1>0, TakenSession
<1>2. /\ SessionInv(c, s, run) /\ s \in Session /\ BooksOK(c)
      /\ c.sess[s] = Here.sess[s] /\ c.sess[s].sock = "open"
      /\ On(Here, s, "StartRecv") = On(c, s, "StartRecv") + 1 /\ On(c, s, "StartRecv") \in Nat
      /\ \A t \in Session \ {s} : SameFor(Here, c, t)
      /\ SessionInv(Here, s, run) /\ Unseen(Here, c)
  BY <1>1, TakenArming
<1>3. d = Put(c, s, w)
  BY <1>0, <1>2 DEF Put, BooksOK
<1>4. v \in SessionState
  BY <1>2 DEF BooksOK
<1> HIDE DEF v, d
<1>5. w \in SessionState
  <2> DEFINE o == [v.op EXCEPT !["silence"] = "pending",
                               !["recv"] = IF SessionIsStarted(v) THEN "pending" ELSE @]
  <2>1. v.op \in [SessionOp -> OpState] /\ "pending" \in OpState
    BY <1>4 DEF SessionState, OpState
  <2>2. o \in [SessionOp -> OpState]
    BY <2>1 DEF SessionOp
  <2>3. w = [v EXCEPT !.op = o]
    BY <1>0, <1>4 DEF StartReceiving, SessionState
  <2> HIDE DEF o
  <2> QED
    BY <1>4, <2>2, <2>3 DEF SessionState
<1>6. /\ w.op["conn"] = v.op["conn"] /\ w.op["write"] = v.op["write"]
      /\ w.st = v.st /\ w.sock = v.sock /\ w.reg = v.reg /\ w.counter = v.counter
      /\ w.events = v.events /\ w.connCanceled = v.connCanceled /\ w.timedOut = v.timedOut
      /\ w.silenceCanceled = v.silenceCanceled /\ w.told = v.told
  BY <1>0, <1>4 DEF StartReceiving, SessionState, SessionOp
<1>7. Changed(v, w)
  BY <1>0, <1>2, <1>6 DEF Changed
<1>8. /\ BooksOK(d) /\ d.sess[s] = w /\ Leaving(d, s) /\ Life(d, s, run)
      /\ On(d, s, "ArmConn") = On(c, s, "ArmConn")
      /\ On(d, s, "StartRecv") = On(c, s, "StartRecv")
      /\ \A t \in Session \ {s} : SameFor(c, d, t)
      /\ Unseen(c, d)
  <2>1. Changed(c.sess[s], w) /\ c.sess[s].sock # "none"
    BY <1>0, <1>2, <1>7
  <2> QED
    BY <1>2, <1>3, <1>5, <2>1, OpPutKeeps
<1>9. Timeout(d, s, run)
  <2>1. Timeout(c, s, run) /\ c.sess[s] = v
    BY <1>0, <1>2 DEF SessionInv
  <2> QED
    BY <1>6, <1>8, <2>1 DEF Timeout
<1>10. ~EarlyStop => Undisturbed(d, s, run)
  <2>1. /\ ~EarlyStop => Undisturbed(Here, s, run) /\ Undisturbed(c, s, run)
        /\ Here.sess[s] = v
    BY <1>0, <1>2 DEF SessionInv
  <2>2. ~EarlyStop => v.st # "Starting"
    BY <1>2, <2>1 DEF Undisturbed
  <2> QED
    BY <1>6, <1>8, <2>1, <2>2 DEF Undisturbed
<1>11. /\ SessionInv(d, s, run) /\ Unseen(Here, d) /\ Here' = d
       /\ \A t \in Session \ {s} : SameFor(Here, d, t)
  BY <1>0, <1>2, <1>8, <1>9, <1>10, UnseenTwice, SameTwice, HereIs DEF SessionInv
<1>12. ControlOK' /\ (~EarlyStop => ~crashed')
  BY <1>0 DEF Inv, ControlOK
<1> QED
  BY <1>0, <1>2, <1>8, <1>11, <1>12, SessionStep

\* A disconnect that has come up, on the session's strand or the manager's: it
\* is the only one, in front, and the session is Stopping.
LEMMA TakenAtFront ==
  ASSUME Inv, NEW i \in Io, NEW k \in {"Event", "Erase"}, NEW x, NEW s, NEW c,
         TakenFrom(i, k, x, s, c)
  PROVE  /\ s \in Session /\ SessionInv(Here, s, run) /\ BooksOK(c) /\ c.sess = Here.sess
         /\ Here.sess[s] \in SessionState
         /\ Here.sess[s].st = "Stopping" /\ Here.sess[s].sock = "open"
         /\ Queued(Here.sess[s]) = 1 /\ Front(Here.sess[s], "disconnect")
         /\ Here.sess[s].op["write"] = "none"
         /\ On(c, s, "Enqueue") = 0 /\ On(c, s, "Event") = 0 /\ On(c, s, "Erase") = 0
         /\ On(c, s, "Teardown") = 0 /\ Ordered(c, s)
         /\ On(c, s, "ArmConn") = On(Here, s, "ArmConn")
         /\ On(c, s, "StartRecv") = On(Here, s, "StartRecv")
         /\ pool.live = Io /\ x.old \in LegalOld
<1>1. /\ s \in Session /\ x.t = k /\ x \in TasksOf(i) /\ BooksOK(c) /\ c.sess = Here.sess
      /\ On(Here, s, k) = On(c, s, k) + 1 /\ On(c, s, k) \in Nat
      /\ \A l \in SessionKind \ {k} : On(c, s, l) = On(Here, s, l)
      /\ Ordered(c, s) /\ Here.sess[s].sock # "none"
  BY DEF TakenFrom
<1>2. SessionInv(Here, s, run) /\ BooksOK(Here)
  BY <1>1 DEF Inv, SessionsInv
<1> DEFINE v == Here.sess[s]
<1>3. v \in SessionState /\ v.events \in Seq(LegalEvent) /\ Queued(v) \in Nat
  BY <1>1, <1>2, QueuedNat
<1>4. /\ On(Here, s, "Event") \in Nat /\ On(Here, s, "Erase") \in Nat
      /\ On(Here, s, "Teardown") \in Nat /\ On(Here, s, "Enqueue") \in Nat
  BY <1>1, <1>2, OnNat DEF SessionKind
<1>5. /\ Queued(v) + On(Here, s, "Enqueue") = One(v.st = "Stopping") + On(Here, s, "Teardown")
      /\ On(Here, s, "Event") + On(Here, s, "Erase") + On(Here, s, "Teardown")
           = One(Front(v, "disconnect"))
      /\ v.op["write"] # "none" <=> Front(v, "send")
  BY <1>2 DEF SessionInv, Leaving, Balance, TasksAtFront
<1> HIDE DEF v
<1>6. One(Front(v, "disconnect")) \in {0, 1} /\ One(v.st = "Stopping") \in {0, 1}
  BY DEF One
<1>7. On(Here, s, "Event") + On(Here, s, "Erase") >= 1
  <2>1. k = "Event" \/ k = "Erase"
    OBVIOUS
  <2> QED
    BY <1>1, <1>4, <2>1
<1>8. /\ On(Here, s, "Teardown") = 0 /\ One(Front(v, "disconnect")) = 1
      /\ On(Here, s, "Event") + On(Here, s, "Erase") = 1
  BY <1>4, <1>5, <1>6, <1>7
<1>9. Front(v, "disconnect")
  BY <1>8 DEF One
<1>10. Queued(v) >= 1
  <2>1. v.events # <<>> /\ Head(v.events) \in LegalEvent /\ Head(v.events).t = "disconnect"
    BY <1>3, <1>9 DEF Front
  <2>2. Head(v.events) \in Disconnect
    BY <2>1 DEF Disconnect
  <2>3. Tail(v.events) \in Seq(LegalEvent)
    BY <1>3, <2>1
  <2>4. Count(Tail(v.events), Disconnect) \in Nat
    BY <2>3, PlacesFinite
  <2>5. Count(Tail(v.events), Disconnect) = Count(v.events, Disconnect) - One(Head(v.events) \in Disconnect)
    BY <1>3, <2>1, CountTail
  <2>6. One(Head(v.events) \in Disconnect) = 1
    BY <2>2 DEF One
  <2>7. Count(v.events, Disconnect) \in Nat
    BY <1>3 DEF Queued
  <2> QED
    BY <2>4, <2>5, <2>6, <2>7 DEF Queued
<1>11. Queued(v) = 1 /\ On(Here, s, "Enqueue") = 0 /\ One(v.st = "Stopping") = 1
  BY <1>3, <1>4, <1>5, <1>6, <1>8, <1>10
<1>12. v.st = "Stopping"
  BY <1>11 DEF One
<1>13. v.sock = "open"
  BY <1>2, <1>12 DEF SessionInv, Life, v
<1>14. v.op["write"] = "none"
  BY <1>5, <1>9 DEF Front
<1>15. On(c, s, "Event") = 0 /\ On(c, s, "Erase") = 0
  <2>1. CASE k = "Event"
    BY <1>1, <1>4, <1>8, <2>1 DEF SessionKind
  <2>2. CASE k = "Erase"
    BY <1>1, <1>4, <1>8, <2>2 DEF SessionKind
  <2> QED
    BY <2>1, <2>2
<1>16. /\ On(c, s, "Enqueue") = 0 /\ On(c, s, "Teardown") = 0
       /\ On(c, s, "ArmConn") = On(Here, s, "ArmConn")
       /\ On(c, s, "StartRecv") = On(Here, s, "StartRecv")
  BY <1>1, <1>8, <1>11 DEF SessionKind
<1>17. pool.live = Io
  BY <1>1, <1>13, AliveRuns DEF v
<1>18. x.old \in LegalOld
  BY <1>1 DEF TasksOf
<1> QED
  BY <1>1, <1>2, <1>3, <1>9, <1>11, <1>12, <1>13, <1>14, <1>15, <1>16, <1>17, <1>18 DEF v

\* Off io 0 the manager's strand is asked to let the session go.
LEMMA EventMovesInv ==
  ASSUME Inv, NEW i \in Io, i # 0, RunEvent(i)
  PROVE  Inv'
<1> DEFINE x == Head(strand[i])
           s == x.s
           c == Taken(i)
           y == [x EXCEPT !.t = "Erase"]
           d == PostTo(c, 0, y)
<1>0. /\ Next1(i, "Event") /\ "Event" \in SessionKind
      /\ x = Head(strand[i]) /\ s = x.s /\ c = Taken(i)
      /\ y = [x EXCEPT !.t = "Erase"] /\ d = PostTo(c, 0, y) /\ Become(d)
      /\ UNCHANGED <<state, srv, run, pool, api, calls, crashed>>
  BY DEF RunEvent, SessionKind
<1> HIDE DEF x, s, c, y, d
<1>1. TakenFrom(i, "Event", x, s, c)
  BY <1>0, TakenSession
<1>2. /\ s \in Session /\ SessionInv(Here, s, run) /\ BooksOK(c) /\ c.sess = Here.sess
      /\ Here.sess[s].st = "Stopping" /\ Here.sess[s].sock = "open"
      /\ Queued(Here.sess[s]) = 1 /\ Front(Here.sess[s], "disconnect")
      /\ Here.sess[s].op["write"] = "none"
      /\ On(c, s, "Enqueue") = 0 /\ On(c, s, "Event") = 0 /\ On(c, s, "Erase") = 0
      /\ On(c, s, "Teardown") = 0 /\ Ordered(c, s)
      /\ On(c, s, "ArmConn") = On(Here, s, "ArmConn")
      /\ On(c, s, "StartRecv") = On(Here, s, "StartRecv")
      /\ pool.live = Io /\ x.old \in LegalOld
  BY <1>1, TakenAtFront
<1>3. /\ x \in Task /\ x.t = "Event" /\ x.s = s /\ Unseen(Here, c)
      /\ \A t \in Session \ {s} : SameFor(Here, c, t)
  BY <1>1 DEF TakenFrom
<1>4. y \in TasksOf(0) /\ y.t = "Erase" /\ y.s = s
  <2>1. y \in Task /\ y.t = "Erase" /\ y.s = s /\ y.old = x.old
    BY <1>0, <1>3 DEF Task
  <2> QED
    BY <1>2, <2>1 DEF TasksOf, ServerKind, SessionKind
<1>5. /\ BooksOK(d) /\ d.sess = c.sess /\ d.strand = [c.strand EXCEPT ![0] = Append(@, y)]
      /\ \A t \in Session, k \in SessionKind : On(d, t, k) = On(c, t, k) + One(y.t = k /\ y.s = t)
      /\ \A k \in ServerKind : Srv(d, k) = Srv(c, k) + One(y.t = k)
      /\ \A t \in Session : Ordered(c, t) => Ordered(d, t)
  <2>1. y \notin Arming(s) /\ \A t \in Session : y \notin Arming(t)
    BY <1>4 DEF Arming, Of
  <2>2. BooksOK(c) /\ 0 \in Io /\ y \in TasksOf(0) /\ d = PostTo(c, 0, y)
    BY <1>0, <1>2, <1>4, HomeIo
  <2>3. BooksOK(d) /\ d.sess = c.sess /\ d.strand = [c.strand EXCEPT ![0] = Append(@, y)]
    BY <2>2, PostBooks
  <2>4. /\ \A t \in Session, k \in SessionKind : On(d, t, k) = On(c, t, k) + One(y.t = k /\ y.s = t)
        /\ \A k \in ServerKind : Srv(d, k) = Srv(c, k) + One(y.t = k)
        /\ \A t \in Session :
             Ordered(c, t) /\ (y \in Arming(t) => On(c, t, "Teardown") = 0) => Ordered(d, t)
    BY <2>2, PostOn
  <2> QED
    BY <2>1, <2>3, <2>4
<1>6. \A k \in SessionKind : On(c, s, k) \in Nat
  BY <1>2, OnNat
<1>7. /\ On(d, s, "Erase") = 1 /\ On(d, s, "Event") = 0 /\ On(d, s, "Teardown") = 0
      /\ On(d, s, "Enqueue") = 0 /\ On(d, s, "ArmConn") = On(c, s, "ArmConn")
      /\ On(d, s, "StartRecv") = On(c, s, "StartRecv")
  <2>1. \A k \in SessionKind : One(y.t = k /\ y.s = s) = IF k = "Erase" THEN 1 ELSE 0
    BY <1>4 DEF One
  <2>2. \A k \in SessionKind : On(d, s, k) = On(c, s, k) + IF k = "Erase" THEN 1 ELSE 0
    BY <1>2, <1>5, <2>1
  <2>3. \A k \in SessionKind \ {"Erase"} : On(d, s, k) = On(c, s, k)
    BY <1>6, <2>2
  <2>4. On(d, s, "Erase") = On(c, s, "Erase") + 1
    BY <2>2 DEF SessionKind
  <2> QED
    BY <1>2, <2>3, <2>4 DEF SessionKind
<1>8. \A t \in Session \ {s} : SameFor(c, d, t)
  <2>1. \A t \in Session \ {s}, k \in SessionKind : On(c, t, k) \in Nat
    BY <1>2, OnNat
  <2>2. \A t \in Session \ {s}, k \in SessionKind : On(d, t, k) = On(c, t, k)
    BY <1>4, <1>5, <2>1 DEF One
  <2> QED
    BY <1>5, <2>2 DEF SameFor
<1>9. Unseen(c, d)
  <2>1. Srv(d, "Stop") = Srv(c, "Stop") /\ Srv(d, "FinalStop") = Srv(c, "FinalStop")
    BY <1>2, <1>4, <1>5, OnNat DEF ServerKind, One
  <2>2. \A t \in Session : d.sess[t].st \in NetState
    BY <1>5 DEF BooksOK, SessionState
  <2> QED
    BY <1>2, <1>5, <2>1, <2>2 DEF Unseen
<1>10. Leaving(d, s)
  <2>1. TasksAtFront(d, s) = 1
    BY <1>7 DEF TasksAtFront
  <2>2. One(Front(Here.sess[s], "disconnect")) = 1 /\ One(Here.sess[s].st = "Stopping") = 1
    BY <1>2 DEF One
  <2>3. ~Front(Here.sess[s], "send")
    BY <1>2 DEF Front
  <2> QED
    BY <1>2, <1>5, <1>7, <2>1, <2>2, <2>3 DEF Leaving, Balance
<1>11. Life(d, s, run) /\ Timeout(d, s, run) /\ (~EarlyStop => Undisturbed(d, s, run))
  BY <1>2, <1>5, <1>7 DEF SessionInv, Life, Timeout, Undisturbed
<1>12. SessionInv(d, s, run)
  BY <1>10, <1>11 DEF SessionInv
<1>13. /\ Unseen(Here, d) /\ Here' = d
       /\ \A t \in Session \ {s} : SameFor(Here, d, t)
  BY <1>0, <1>3, <1>5, <1>8, <1>9, UnseenTwice, SameTwice, HereIs
<1>14. ControlOK' /\ (~EarlyStop => ~crashed')
  BY <1>0 DEF Inv, ControlOK
<1> QED
  BY <1>0, <1>2, <1>5, <1>12, <1>13, <1>14, SessionStep

\* The session leaves the manager: it is Stopped, and has still to be torn down.
ErasedSession(v) == [v EXCEPT !.reg = FALSE, !.st = "Stopped", !.told = "disconnected"]

LEMMA EraseIs ==
  ASSUME NEW c, BooksOK(c), NEW x, x.s \in Session, c.sess[x.s].st = "Stopping"
  PROVE  Erase(c, x) = Post(Put(c, x.s, ErasedSession(c.sess[x.s])),
                            [t |-> "Teardown", s |-> x.s])
<1>1. c.sess[x.s] \in SessionState
  BY DEF BooksOK
<1>2. [c EXCEPT !.sess[x.s].reg = FALSE, !.sess[x.s].st = "Stopped",
                !.sess[x.s].told = "disconnected"]
        = Put(c, x.s, ErasedSession(c.sess[x.s]))
  BY <1>1 DEF Put, ErasedSession, BooksOK
<1> QED
  BY <1>2 DEF Erase

LEMMA TeardownTask ==
  ASSUME NEW s \in Session, NEW x, x = [t |-> "Teardown", s |-> s]
  PROVE  x \in TasksOf(IoOf(s)) /\ x.t = "Teardown" /\ x.s = s
BY IoOfIo DEF TasksOf, Task, ServerKind, SessionKind

LEMMA EraseKeeps ==
  ASSUME Inv, NEW k \in {"Event", "Erase"}, Next1(0, k), NEW x, x = Head(strand[0]),
         Become(Erase(Taken(0), x)), crashed' = EraseFails(x),
         UNCHANGED <<state, srv, run, pool, api, calls>>
  PROVE  Inv'
<1> DEFINE s == x.s
           c == Taken(0)
           v == c.sess[s]
           w == ErasedSession(v)
           u == Put(c, s, w)
           y == [t |-> "Teardown", s |-> s]
           d == Post(u, y)
<1>0. /\ s = x.s /\ c = Taken(0) /\ v = c.sess[s] /\ w = ErasedSession(v) /\ u = Put(c, s, w)
      /\ y = [t |-> "Teardown", s |-> s] /\ d = Post(u, y) /\ 0 \in Io
      /\ k \in SessionKind
  BY HomeIo DEF SessionKind
<1> HIDE DEF s, c, v, w, u, y, d
<1>1. TakenFrom(0, k, x, s, c)
  BY <1>0, TakenSession
<1>2. /\ s \in Session /\ SessionInv(Here, s, run) /\ BooksOK(c) /\ c.sess = Here.sess
      /\ Here.sess[s] \in SessionState
      /\ Here.sess[s].st = "Stopping" /\ Here.sess[s].sock = "open"
      /\ Queued(Here.sess[s]) = 1 /\ Front(Here.sess[s], "disconnect")
      /\ Here.sess[s].op["write"] = "none"
      /\ On(c, s, "Enqueue") = 0 /\ On(c, s, "Event") = 0 /\ On(c, s, "Erase") = 0
      /\ On(c, s, "Teardown") = 0 /\ Ordered(c, s)
      /\ On(c, s, "ArmConn") = On(Here, s, "ArmConn")
      /\ On(c, s, "StartRecv") = On(Here, s, "StartRecv")
      /\ pool.live = Io /\ x.old \in LegalOld
  <2>1. 0 \in Io
    BY <1>0
  <2> QED
    BY <1>1, <2>1, TakenAtFront
<1>3. /\ Unseen(Here, c) /\ run.pc = "idle" /\ c.sess[s] = v /\ Here.sess[s] = v
      /\ \A t \in Session \ {s} : SameFor(Here, c, t)
  BY <1>0, <1>1, <1>2 DEF TakenFrom
<1>4. Become(d)
  <2>1. Erase(c, x) = Post(Put(c, x.s, ErasedSession(c.sess[x.s])), [t |-> "Teardown", s |-> x.s])
    BY <1>0, <1>2, EraseIs
  <2> QED
    BY <1>0, <2>1
<1>5. v \in SessionState /\ v.events \in Seq(LegalEvent)
  BY <1>2, <1>3, QueuedNat
<1>6. /\ w \in SessionState /\ w.st = "Stopped" /\ ~w.reg /\ w.told = "disconnected"
      /\ w.sock = v.sock /\ w.counter = v.counter /\ w.events = v.events /\ w.op = v.op
      /\ w.connCanceled = v.connCanceled /\ w.timedOut = v.timedOut
  <2>1. w = [v EXCEPT !.reg = FALSE, !.st = "Stopped", !.told = "disconnected"]
    BY <1>0 DEF ErasedSession
  <2>2. "Stopped" \in NetState /\ v \in SessionState
    BY <1>5 DEF NetState
  <2> QED
    BY <2>1, <2>2 DEF SessionState
<1>7. /\ BooksOK(u) /\ u.sess[s] = w /\ u.strand = c.strand
      /\ \A l \in SessionKind : On(u, s, l) = On(c, s, l)
      /\ Ordered(c, s) => Ordered(u, s)
      /\ \A t \in Session \ {s} : SameFor(c, u, t)
      /\ \A l \in ServerKind : Srv(u, l) = Srv(c, l)
  <2>1. /\ w.events \in Seq(LegalEvent) /\ BooksOK(c) /\ s \in Session
        /\ w \in SessionState /\ u = Put(c, s, w)
    BY <1>0, <1>2, <1>5, <1>6
  <2> QED
    BY <2>1, PutBooks
<1>8. y \in TasksOf(IoOf(s)) /\ y.t = "Teardown" /\ y.s = s
  BY <1>0, <1>2, TeardownTask
<1>9. /\ BooksOK(d) /\ d.sess = u.sess /\ d.strand = [u.strand EXCEPT ![IoOf(s)] = Append(@, y)]
      /\ \A t \in Session, l \in SessionKind : On(d, t, l) = On(u, t, l) + One(y.t = l /\ y.s = t)
      /\ \A l \in ServerKind : Srv(d, l) = Srv(u, l) + One(y.t = l)
      /\ \A t \in Session : Ordered(u, t) => Ordered(d, t)
  <2>1. \A t \in Session : y \notin Arming(t)
    BY <1>8 DEF Arming, Of
  <2>2. BooksOK(u) /\ IoOf(s) \in Io /\ y \in TasksOf(IoOf(s)) /\ d = PostTo(u, IoOf(s), y)
    BY <1>0, <1>2, <1>7, <1>8, IoOfIo DEF Post
  <2>3. BooksOK(d) /\ d.sess = u.sess /\ d.strand = [u.strand EXCEPT ![IoOf(s)] = Append(@, y)]
    BY <2>2, PostBooks
  <2>4. /\ \A t \in Session, l \in SessionKind : On(d, t, l) = On(u, t, l) + One(y.t = l /\ y.s = t)
        /\ \A l \in ServerKind : Srv(d, l) = Srv(u, l) + One(y.t = l)
        /\ \A t \in Session :
             Ordered(u, t) /\ (y \in Arming(t) => On(u, t, "Teardown") = 0) => Ordered(d, t)
    BY <2>2, PostOn
  <2> QED
    BY <2>1, <2>3, <2>4
<1>10. /\ On(d, s, "Teardown") = 1 /\ On(d, s, "Event") = 0 /\ On(d, s, "Erase") = 0
       /\ On(d, s, "Enqueue") = 0 /\ On(d, s, "ArmConn") = On(Here, s, "ArmConn")
       /\ On(d, s, "StartRecv") = On(Here, s, "StartRecv")
  <2>1. \A l \in SessionKind : One(y.t = l /\ y.s = s) = IF l = "Teardown" THEN 1 ELSE 0
    BY <1>8 DEF One
  <2>2. \A l \in SessionKind : On(c, s, l) \in Nat
    BY <1>2, OnNat
  <2>3. \A l \in SessionKind : On(d, s, l) = On(c, s, l) + IF l = "Teardown" THEN 1 ELSE 0
    BY <1>2, <1>7, <1>9, <2>1
  <2>4. \A l \in SessionKind \ {"Teardown"} : On(d, s, l) = On(c, s, l)
    BY <2>2, <2>3
  <2>5. On(d, s, "Teardown") = On(c, s, "Teardown") + 1
    BY <2>3 DEF SessionKind
  <2> QED
    BY <1>2, <2>4, <2>5 DEF SessionKind
<1>11. \A t \in Session \ {s} : SameFor(u, d, t)
  <2>1. \A t \in Session \ {s}, l \in SessionKind : On(u, t, l) \in Nat
    BY <1>7, OnNat
  <2>2. \A t \in Session \ {s}, l \in SessionKind : On(d, t, l) = On(u, t, l)
    BY <1>8, <1>9, <2>1 DEF One
  <2> QED
    BY <1>9, <2>2 DEF SameFor
<1>12. Unseen(c, d)
  <2>1. Srv(d, "Stop") = Srv(c, "Stop") /\ Srv(d, "FinalStop") = Srv(c, "FinalStop")
    BY <1>7, <1>8, <1>9, OnNat DEF ServerKind, One
  <2>2. \A t \in Session : d.sess[t].st \in NetState
    BY <1>9 DEF BooksOK, SessionState
  <2>3. \A t \in Session \ {s} : d.sess[t] = c.sess[t]
    BY <1>7, <1>9 DEF SameFor
  <2> QED
    BY <1>2, <1>3, <1>6, <1>7, <1>9, <2>1, <2>2, <2>3 DEF Unseen
<1>13. Leaving(d, s)
  <2>1. TasksAtFront(d, s) = 1
    BY <1>10 DEF TasksAtFront
  <2>2. Queued(w) = 1 /\ Front(w, "disconnect") /\ ~Front(w, "send") /\ w.op["write"] = "none"
    BY <1>2, <1>3, <1>6 DEF Queued, Front
  <2>3. One(Front(w, "disconnect")) = 1 /\ One(w.st = "Stopping") = 0
    BY <1>6, <2>2 DEF One
  <2> QED
    BY <1>2, <1>3, <1>6, <1>7, <1>9, <1>10, <2>1, <2>2, <2>3 DEF Leaving, Balance
<1>14. Life(d, s, run)
  <2>1. ~Accepting(run, s)
    BY <1>3 DEF Accepting
  <2>2. Life(Here, s, run)
    BY <1>2 DEF SessionInv
  <2> QED
    BY <1>2, <1>3, <1>6, <1>7, <1>9, <1>10, <2>1, <2>2 DEF Life
<1>15. Timeout(d, s, run) /\ (~EarlyStop => Undisturbed(d, s, run))
  <2>1. Timeout(Here, s, run)
    BY <1>2 DEF SessionInv
  <2> QED
    BY <1>3, <1>6, <1>7, <1>9, <1>10, <2>1 DEF Timeout, Undisturbed, Entering
<1>16. SessionInv(d, s, run)
  BY <1>13, <1>14, <1>15 DEF SessionInv
<1>17. /\ Unseen(Here, d) /\ Here' = d
       /\ \A t \in Session \ {s} : SameFor(Here, d, t)
  <2>1. \A t \in Session \ {s} : SameFor(c, d, t)
    BY <1>7, <1>11, SameTwice
  <2> QED
    BY <1>3, <1>4, <1>9, <1>12, <2>1, UnseenTwice, SameTwice, HereIs
<1>18. ControlOK' /\ (~EarlyStop => ~crashed')
  <2>1. crashed' \in BOOLEAN
    BY DEF EraseFails
  <2>2. ~EarlyStop => ~EraseFails(x)
    BY <1>2 DEF EraseFails, LegalOld
  <2> QED
    BY <2>1, <2>2 DEF Inv, ControlOK
<1> QED
  BY <1>2, <1>9, <1>16, <1>17, <1>18, SessionStep

LEMMA RunEventInv == \A i \in Io : Inv /\ RunEvent(i) => Inv'
<1> SUFFICES ASSUME NEW i \in Io, Inv, RunEvent(i) PROVE Inv'
  OBVIOUS
<1>1. CASE i # 0
  BY <1>1, EventMovesInv
<1>2. CASE i = 0
  <2>1. /\ Next1(0, "Event") /\ Become(Erase(Taken(0), Head(strand[0])))
        /\ crashed' = EraseFails(Head(strand[0]))
        /\ UNCHANGED <<state, srv, run, pool, api, calls>>
    BY <1>2 DEF RunEvent
  <2> QED
    BY <2>1, EraseKeeps
<1> QED
  BY <1>1, <1>2

LEMMA RunEraseInv == Inv /\ RunErase => Inv'
BY EraseKeeps DEF RunErase

-----------------------------------------------------------------------------
(* The tear-down.                                                          *)

LEMMA TakenTeardown ==
  ASSUME Inv, NEW i \in Io, NEW x, NEW s, NEW c, TakenFrom(i, "Teardown", x, s, c)
  PROVE  /\ s \in Session /\ SessionInv(Here, s, run) /\ BooksOK(c) /\ c.sess = Here.sess
         /\ Here.sess[s] \in SessionState
         /\ Here.sess[s].st = "Stopped" /\ Here.sess[s].sock = "open" /\ Here.sess[s].counter
         /\ ~Here.sess[s].reg /\ Here.sess[s].told # "connected" /\ ~Accepting(run, s)
         /\ Queued(Here.sess[s]) = 1 /\ Front(Here.sess[s], "disconnect")
         /\ Here.sess[s].op["write"] = "none"
         /\ On(c, s, "Enqueue") = 0 /\ TasksAtFront(c, s) = 0
         /\ On(c, s, "Teardown") = 0 /\ Ordered(c, s)
         /\ On(c, s, "ArmConn") = 0 /\ On(c, s, "StartRecv") = 0
         /\ pool.live = Io
<1>1. /\ s \in Session /\ BooksOK(c) /\ c.sess = Here.sess
      /\ On(Here, s, "Teardown") = On(c, s, "Teardown") + 1 /\ On(c, s, "Teardown") \in Nat
      /\ \A l \in SessionKind \ {"Teardown"} : On(c, s, l) = On(Here, s, l)
      /\ Ordered(c, s) /\ On(c, s, "ArmConn") = 0 /\ On(c, s, "StartRecv") = 0
  BY DEF TakenFrom
<1>2. SessionInv(Here, s, run) /\ BooksOK(Here)
  BY <1>1 DEF Inv, SessionsInv
<1> DEFINE v == Here.sess[s]
<1>3. v \in SessionState /\ v.events \in Seq(LegalEvent) /\ Queued(v) \in Nat
  BY <1>1, <1>2, QueuedNat
<1>4. /\ On(Here, s, "Event") \in Nat /\ On(Here, s, "Erase") \in Nat
      /\ On(Here, s, "Enqueue") \in Nat
  BY <1>1, <1>2, OnNat DEF SessionKind
<1>5. /\ Queued(v) + On(Here, s, "Enqueue") = One(v.st = "Stopping") + On(Here, s, "Teardown")
      /\ On(Here, s, "Event") + On(Here, s, "Erase") + On(Here, s, "Teardown")
           = One(Front(v, "disconnect"))
      /\ v.op["write"] # "none" <=> Front(v, "send")
      /\ v.st = "Stopped" /\ v.sock = "open"
  <2>1. Leaving(Here, s)
    BY <1>2 DEF SessionInv
  <2>2. On(Here, s, "Teardown") > 0
    BY <1>1
  <2> QED
    BY <2>1, <2>2 DEF Leaving, Balance, TasksAtFront
<1>6. /\ v.counter /\ ~v.reg /\ v.told # "connected" /\ ~Accepting(run, s)
  <2>1. Life(Here, s, run)
    BY <1>2 DEF SessionInv
  <2> QED
    BY <1>5, <2>1 DEF Life
<1> HIDE DEF v
<1>7. One(Front(v, "disconnect")) \in {0, 1} /\ One(v.st = "Stopping") = 0
  BY <1>5 DEF One
<1>8. /\ On(Here, s, "Teardown") = 1 /\ On(Here, s, "Event") = 0 /\ On(Here, s, "Erase") = 0
      /\ On(c, s, "Teardown") = 0 /\ One(Front(v, "disconnect")) = 1
  BY <1>1, <1>4, <1>5, <1>7
<1>9. Front(v, "disconnect")
  BY <1>8 DEF One
<1>10. Queued(v) >= 1
  <2>1. v.events # <<>> /\ Head(v.events) \in LegalEvent /\ Head(v.events).t = "disconnect"
    BY <1>3, <1>9 DEF Front
  <2>2. Head(v.events) \in Disconnect
    BY <2>1 DEF Disconnect
  <2>3. Tail(v.events) \in Seq(LegalEvent)
    BY <1>3, <2>1
  <2>4. Count(Tail(v.events), Disconnect) \in Nat
    BY <2>3, PlacesFinite
  <2>5. Count(Tail(v.events), Disconnect) = Count(v.events, Disconnect) - One(Head(v.events) \in Disconnect)
    BY <1>3, <2>1, CountTail
  <2>6. One(Head(v.events) \in Disconnect) = 1
    BY <2>2 DEF One
  <2>7. Count(v.events, Disconnect) \in Nat
    BY <1>3 DEF Queued
  <2> QED
    BY <2>4, <2>5, <2>6, <2>7 DEF Queued
<1>11. Queued(v) = 1 /\ On(Here, s, "Enqueue") = 0
  BY <1>3, <1>4, <1>5, <1>7, <1>8, <1>10
<1>12. v.op["write"] = "none"
  BY <1>5, <1>9 DEF Front
<1>13. On(c, s, "Enqueue") = 0 /\ TasksAtFront(c, s) = 0
  BY <1>1, <1>8, <1>11 DEF SessionKind, TasksAtFront
<1>14. pool.live = Io
  BY <1>1, <1>5, AliveRuns DEF v
<1> QED
  BY <1>1, <1>2, <1>3, <1>5, <1>6, <1>8, <1>9, <1>11, <1>12, <1>13, <1>14 DEF v

\* The session without its copy of the counter; the last one posts the final stop.
WithoutCounter(v) == [v EXCEPT !.counter = FALSE]

LEMMA DropIs ==
  ASSUME NEW b, BooksOK(b), NEW s \in Session, NEW w \in SessionState, w.counter,
         NEW u, u = Put(b, s, WithoutCounter(w))
  PROVE  DropCounter(Put(b, s, w), s) =
           IF Holder(u) THEN u ELSE PostTo(u, 0, [t |-> "FinalStop"])
<1>1. [Put(b, s, w) EXCEPT !.sess[s].counter = FALSE] = u
  BY DEF Put, WithoutCounter, BooksOK
<1>2. Put(b, s, w).sess[s].counter
  BY DEF Put, BooksOK
<1> QED
  BY <1>1, <1>2 DEF DropCounter, Holder

\* The server, one copy of its counter less.
LEMMA DropKeeps ==
  ASSUME ServerInv(Here), NEW s \in Session, Here.sess[s].counter, pool.live = Io, NEW d,
         \A t \in Session :
           /\ d.sess[t].counter = (t # s /\ Here.sess[t].counter)
           /\ d.sess[t].st = Here.sess[t].st
           /\ Here.sess[t].sock = "none" => d.sess[t].sock = "none",
         Srv(d, "Stop") = Srv(Here, "Stop"),
         Srv(d, "FinalStop") = Srv(Here, "FinalStop") + IF Holder(d) THEN 0 ELSE 1
  PROVE  ServerInv(d)
<1>1. Holder(Here)
  BY DEF Holder
<1>2. state # "Stopped" /\ api.start # "pool" /\ Srv(Here, "FinalStop") = 0
  BY <1>1 DEF ServerInv, Counted
<1>3. Counted(d)
  BY <1>2 DEF ServerInv, Counted
<1>4. Walked(d) /\ Accepts(d) /\ Pooled(d) /\ Kept
  BY DEF ServerInv, Walked, Accepts, Pooled
<1> QED
  BY <1>3, <1>4 DEF ServerInv

\* What the tear-down makes of a session, its event still in front.
Torn(v, z) ==
  /\ z.st = "Stopped" /\ z.sock = "closed" /\ ~z.counter /\ z.silenceCanceled
  /\ z.events = v.events /\ z.reg = v.reg /\ z.told = v.told
  /\ \A k \in SessionOp : z.op[k] # "pending" /\ (z.op[k] = "none" <=> v.op[k] = "none")

LEMMA TornIs ==
  ASSUME NEW v \in SessionState, v.st = "Stopped", v.counter,
         NEW w, w = StoppedSession(v), NEW z, z = WithoutCounter(w)
  PROVE  w \in SessionState /\ w.counter /\ z \in SessionState /\ Torn(v, z)
<1>1. \A o \in OpState : /\ Cancel(o) \in OpState /\ Cancel(o) # "pending"
                         /\ Cancel(o) = "none" <=> o = "none"
  BY DEF Cancel, OpState
<1>2. \A k \in SessionOp : v.op[k] \in OpState
  BY DEF SessionState
<1>3. /\ w \in SessionState /\ w.counter /\ w.st = "Stopped" /\ w.sock = "closed"
      /\ w.silenceCanceled /\ w.events = v.events /\ w.reg = v.reg /\ w.told = v.told
      /\ \A k \in SessionOp : w.op[k] = Cancel(v.op[k])
  <2>1. [k \in SessionOp |-> Cancel(v.op[k])] \in [SessionOp -> OpState]
    BY <1>1, <1>2
  <2> QED
    BY <2>1 DEF StoppedSession, SessionState
<1>4. /\ z \in SessionState /\ z.st = w.st /\ z.sock = w.sock /\ ~z.counter
      /\ z.silenceCanceled = w.silenceCanceled /\ z.events = w.events /\ z.reg = w.reg
      /\ z.told = w.told /\ z.op = w.op
  BY <1>3 DEF WithoutCounter, SessionState
<1>5. Torn(v, z)
  BY <1>1, <1>2, <1>3, <1>4 DEF Torn
<1> QED
  BY <1>3, <1>4, <1>5

\* A session that was torn down keeps the invariant.
LEMMA TornKeeps ==
  ASSUME NEW v, NEW z, Torn(v, z), v.told # "connected", ~v.reg,
         v.op["write"] = "none",
         NEW c, NEW d, NEW s \in Session, NEW r, c.sess[s] = z, Touches(c, d, s),
         d.sess[s].st = z.st, Balance(d, s, 0), Ordered(c, s),
         On(c, s, "Teardown") = 0, On(c, s, "ArmConn") = 0, On(c, s, "StartRecv") = 0,
         ~Accepting(r, s), ~EarlyStop /\ r.pc = "state" => ~r.ec
  PROVE  SessionInv(d, s, r)
<1>1. /\ On(d, s, "Teardown") = 0 /\ On(d, s, "ArmConn") = 0 /\ On(d, s, "StartRecv") = 0
      /\ Ordered(d, s) /\ SameBut(z, d.sess[s]) /\ d.sess[s].st = "Stopped"
  BY DEF Touches, SessionKind, Torn
<1>2. /\ d.sess[s].sock = "closed" /\ ~d.sess[s].counter /\ d.sess[s].silenceCanceled
      /\ ~d.sess[s].reg /\ d.sess[s].told # "connected"
      /\ \A k \in SessionOp : d.sess[s].op[k] # "pending"
  <2>1. \A k \in SessionOp \ {"write"} : d.sess[s].op[k] = z.op[k]
    BY <1>1 DEF SameBut
  <2>2. d.sess[s].op["write"] # "pending"
    BY <1>1 DEF SameBut, Torn, SessionOp
  <2> QED
    BY <1>1, <2>1, <2>2 DEF SameBut, Torn
<1>3. Leaving(d, s)
  BY <1>1 DEF Leaving, One
<1>4. Life(d, s, r)
  BY <1>1, <1>2 DEF Life
<1>5. Timeout(d, s, r)
  BY <1>1 DEF Timeout, Accepting
<1>6. ~EarlyStop => Undisturbed(d, s, r)
  BY <1>1 DEF Undisturbed, Entering, Accepting
<1> QED
  BY <1>3, <1>4, <1>5, <1>6 DEF SessionInv

LEMMA RunTeardownInv == \A i \in Io : Inv /\ RunTeardown(i) => Inv'
<1> SUFFICES ASSUME NEW i \in Io, Inv, RunTeardown(i) PROVE Inv'
  OBVIOUS
<1> DEFINE x == Head(strand[i])
           s == x.s
           b == Taken(i)
           v == b.sess[s]
           w == StoppedSession(v)
           z == WithoutCounter(w)
           u == Put(b, s, z)
           c == DropCounter(Put(b, s, w), s)
           d == NextEvent(c, s)
<1>0. /\ Next1(i, "Teardown") /\ Become(d) /\ "Teardown" \in SessionKind
      /\ x = Head(strand[i]) /\ s = x.s /\ b = Taken(i) /\ v = b.sess[s]
      /\ w = StoppedSession(v) /\ z = WithoutCounter(w) /\ u = Put(b, s, z)
      /\ c = DropCounter(Put(b, s, w), s) /\ d = NextEvent(c, s)
      /\ UNCHANGED <<state, srv, run, pool, api, calls, crashed>>
  BY DEF RunTeardown, SessionKind, Put
<1> HIDE DEF x, s, b, v, w, z, u, c, d
<1>1. TakenFrom(i, "Teardown", x, s, b)
  BY <1>0, TakenSession
<1>2. /\ s \in Session /\ BooksOK(b) /\ b.sess = Here.sess /\ v = Here.sess[s]
      /\ v \in SessionState /\ v.st = "Stopped" /\ v.counter /\ ~v.reg /\ v.told # "connected"
      /\ ~Accepting(run, s) /\ Queued(v) = 1 /\ Front(v, "disconnect") /\ v.op["write"] = "none"
      /\ On(b, s, "Enqueue") = 0 /\ TasksAtFront(b, s) = 0 /\ On(b, s, "Teardown") = 0
      /\ Ordered(b, s) /\ On(b, s, "ArmConn") = 0 /\ On(b, s, "StartRecv") = 0
      /\ pool.live = Io
  <2>1. /\ s \in Session /\ BooksOK(b) /\ b.sess = Here.sess
        /\ Here.sess[s] \in SessionState
        /\ Here.sess[s].st = "Stopped" /\ Here.sess[s].counter
        /\ ~Here.sess[s].reg /\ Here.sess[s].told # "connected" /\ ~Accepting(run, s)
        /\ Queued(Here.sess[s]) = 1 /\ Front(Here.sess[s], "disconnect")
        /\ Here.sess[s].op["write"] = "none"
        /\ On(b, s, "Enqueue") = 0 /\ TasksAtFront(b, s) = 0
        /\ On(b, s, "Teardown") = 0 /\ Ordered(b, s)
        /\ On(b, s, "ArmConn") = 0 /\ On(b, s, "StartRecv") = 0
        /\ pool.live = Io
    BY <1>1, TakenTeardown
  <2>2. v = Here.sess[s]
    BY <1>0, <2>1
  <2> QED
    BY <2>1, <2>2
<1>3. /\ Unseen(Here, b) /\ \A t \in Session \ {s} : SameFor(Here, b, t)
      /\ \A l \in ServerKind : Srv(b, l) = Srv(Here, l)
  BY <1>1 DEF TakenFrom
<1>4. w \in SessionState /\ w.counter /\ z \in SessionState /\ Torn(v, z)
  BY <1>0, <1>2, TornIs
<1>5. z.events = v.events /\ v.events \in Seq(LegalEvent) /\ z.op["write"] = "none"
  BY <1>2, <1>4 DEF Torn, SessionOp, BooksOK
<1>6. /\ BooksOK(u) /\ u.sess[s] = z
      /\ \A k \in SessionKind : On(u, s, k) = On(b, s, k)
      /\ Ordered(u, s)
      /\ \A t \in Session \ {s} : SameFor(b, u, t)
      /\ \A k \in ServerKind : Srv(u, k) = Srv(b, k)
  <2>1. /\ BooksOK(b) /\ s \in Session /\ z \in SessionState /\ z.events \in Seq(LegalEvent)
        /\ u = Put(b, s, z)
    BY <1>0, <1>2, <1>4, <1>5
  <2> QED
    BY <1>2, <2>1, PutBooks
<1>7. c = IF Holder(u) THEN u ELSE PostTo(u, 0, [t |-> "FinalStop"])
  <2>1. BooksOK(b) /\ s \in Session /\ w \in SessionState /\ w.counter
        /\ u = Put(b, s, WithoutCounter(w)) /\ c = DropCounter(Put(b, s, w), s)
    BY <1>0, <1>2, <1>4
  <2> QED
    BY <2>1, DropIs
<1>8. /\ BooksOK(c) /\ c.sess = u.sess /\ \A t \in Session : SameFor(u, c, t)
      /\ Srv(c, "FinalStop") = Srv(u, "FinalStop") + IF Holder(u) THEN 0 ELSE 1
      /\ Srv(c, "Stop") = Srv(u, "Stop")
  <2>1. Srv(u, "FinalStop") \in Nat
    BY <1>6, OnNat DEF ServerKind
  <2>2. CASE Holder(u)
    BY <1>6, <1>7, <2>1, <2>2 DEF SameFor
  <2>3. CASE ~Holder(u)
    <3>1. c = PostTo(u, 0, [t |-> "FinalStop"]) /\ "FinalStop" \in ServerKind
      BY <1>7, <2>3 DEF ServerKind
    <3>2. /\ BooksOK(c) /\ c.sess = u.sess /\ \A t \in Session : SameFor(u, c, t)
          /\ Srv(c, "FinalStop") = Srv(u, "FinalStop") + 1
          /\ \A l \in ServerKind \ {"FinalStop"} : Srv(c, l) = Srv(u, l)
      BY <1>6, <3>1, ServerPost
    <3> QED
      BY <2>3, <3>2 DEF ServerKind
  <2> QED
    BY <2>2, <2>3
<1>9. /\ c.sess[s] = z /\ On(c, s, "Enqueue") = 0 /\ TasksAtFront(c, s) = 0
      /\ On(c, s, "Teardown") = 0 /\ On(c, s, "ArmConn") = 0 /\ On(c, s, "StartRecv") = 0
      /\ Ordered(c, s)
  <2>1. \A k \in SessionKind : On(c, s, k) = On(b, s, k)
    BY <1>2, <1>6, <1>8 DEF SameFor
  <2>2. Ordered(c, s)
    BY <1>2, <1>6, <1>8 DEF SameFor
  <2> QED
    BY <1>2, <1>6, <1>8, <2>1, <2>2 DEF SessionKind, TasksAtFront
<1>10. Carried(c, s, 1) /\ Front(c.sess[s], "disconnect")
  <2>1. Queued(z) = 1 /\ Front(z, "disconnect")
    BY <1>2, <1>5 DEF Queued, Front
  <2> QED
    BY <1>5, <1>9, <2>1 DEF Carried, Front
<1>11. Touches(c, d, s) /\ d.sess[s].st = z.st /\ Balance(d, s, 0)
  <2>1. One(Front(c.sess[s], "disconnect")) = 1
    BY <1>10 DEF One
  <2>2. Touches(c, d, s) /\ d.sess[s].st = c.sess[s].st
        /\ Balance(d, s, 1 - One(Front(c.sess[s], "disconnect")))
    <3>1. BooksOK(c) /\ s \in Session /\ 1 \in Nat /\ Carried(c, s, 1) /\ d = NextEvent(c, s)
      BY <1>0, <1>2, <1>8, <1>10
    <3> QED
      BY <3>1, NextBalance
  <2> QED
    BY <1>9, <2>1, <2>2
<1>12. SessionInv(d, s, run)
  <2>1. ~EarlyStop /\ run.pc = "state" => ~run.ec
    BY <1>2 DEF Inv, SessionsInv, SessionInv, Undisturbed
  <2> QED
    BY <1>2, <1>4, <1>9, <1>11, <2>1, TornKeeps
<1>13. \A t \in Session \ {s} : SameFor(Here, d, t)
  <2>1. \A t \in Session \ {s} : SameFor(c, d, t)
    BY <1>11 DEF Touches
  <2> QED
    BY <1>3, <1>6, <1>8, <2>1, SameTwice
<1>14. Here' = d /\ BooksOK(d)
  BY <1>0, <1>11, HereIs DEF Touches
<1>15. SessionsInv(d, run)
  <2>1. \A t \in Session : SessionInv(Here, t, run)
    BY DEF Inv, SessionsInv
  <2>2. \A t \in Session \ {s} : SessionInv(d, t, run)
    BY <1>13, <2>1, SameKeeps
  <2> QED
    BY <1>12, <2>2 DEF SessionsInv
<1>16. ServerInv(d)
  <2>1. \A t \in Session :
           /\ d.sess[t].counter = (t # s /\ Here.sess[t].counter)
           /\ d.sess[t].st = Here.sess[t].st
           /\ Here.sess[t].sock = "none" => d.sess[t].sock = "none"
    <3>1. \A t \in Session \ {s} : d.sess[t] = Here.sess[t]
      BY <1>13 DEF SameFor
    <3>2. \A t \in Session : d.sess[t] \in SessionState /\ Here.sess[t] \in SessionState
      BY <1>14 DEF BooksOK, Inv
    <3>3. d.sess[s].counter = FALSE /\ d.sess[s].st = Here.sess[s].st /\ Here.sess[s].sock # "none"
      BY <1>1, <1>2, <1>4, <1>9, <1>11, <3>2 DEF TakenFrom, Touches, SameBut, Torn
    <3>4. \A t \in Session : Here.sess[t].counter \in BOOLEAN
      BY <3>2 DEF SessionState
    <3> QED
      BY <3>1, <3>3, <3>4
  <2>2. Srv(d, "Stop") = Srv(c, "Stop") /\ Srv(d, "FinalStop") = Srv(c, "FinalStop")
    BY <1>11 DEF Touches, ServerKind
  <2>3. Holder(d) <=> Holder(u)
    <3>1. \A t \in Session : d.sess[t].counter = u.sess[t].counter
      <4>1. \A t \in Session \ {s} : d.sess[t] = Here.sess[t] /\ u.sess[t] = Here.sess[t]
        BY <1>3, <1>6, <1>13 DEF SameFor
      <4>2. d.sess[s].counter = u.sess[s].counter
        BY <1>6, <1>9, <1>11 DEF Touches, SameBut
      <4> QED
        BY <4>1, <4>2
    <3> QED
      BY <3>1 DEF Holder
  <2>4. Srv(d, "FinalStop") = Srv(Here, "FinalStop") + IF Holder(d) THEN 0 ELSE 1
    BY <1>3, <1>6, <1>8, <2>2, <2>3 DEF ServerKind
  <2>5. Srv(d, "Stop") = Srv(Here, "Stop")
    BY <1>3, <1>6, <1>8, <2>2 DEF ServerKind
  <2>6. ServerInv(Here) /\ Here.sess[s].counter /\ pool.live = Io /\ s \in Session
    BY <1>2 DEF Inv
  <2> QED
    BY <2>1, <2>4, <2>5, <2>6, DropKeeps
<1>17. ControlOK' /\ SessionsInv(d, run') /\ (~EarlyStop => ~crashed')
  <2>1. UNCHANGED <<state, srv, run, pool, api, calls, crashed>>
    BY <1>0
  <2> QED
    BY <1>15, <2>1 DEF Inv, ControlOK
<1>18. ServerInv(Here)'
  BY <1>0, <1>14, <1>16, ServerIs
<1> QED
  BY <1>14, <1>17, <1>18, StepBy

-----------------------------------------------------------------------------
(* Completions of a session's operations, and the application's Stop.      *)

LEMMA EndedIs ==
  ASSUME Inv, NEW s \in Session, NEW k \in SessionOp, NEW o
  PROVE  /\ Ended(s, k) = Put(Here, s, SetOp(Here.sess[s], k, "none"))
         /\ [Here EXCEPT !.sess[s].op[k] = o] = Put(Here, s, SetOp(Here.sess[s], k, o))
BY DEF Ended, Put, SetOp, Inv, BooksOK

\* A session with an operation, on an io thread that runs.
LEMMA AtCompletion ==
  ASSUME Inv, NEW s \in Session, SessionRuns(s), NEW k \in SessionOp,
         Here.sess[s].op[k] # "none"
  PROVE  /\ BooksOK(Here) /\ SessionInv(Here, s, run)
         /\ Here.sess[s] \in SessionState /\ Here.sess[s].events \in Seq(LegalEvent)
         /\ Here.sess[s].sock # "none" /\ IoOf(s) \in pool.live
         /\ k # "conn" => (Here.sess[s].st = "Starting" => EarlyStop)
<1>1. BooksOK(Here) /\ SessionInv(Here, s, run)
  BY DEF Inv, SessionsInv
<1>2. Here.sess[s].sock # "none"
  BY <1>1 DEF SessionInv, Life, NewSession, NoOps
<1>3. k # "conn" => (Here.sess[s].st = "Starting" => EarlyStop)
  BY <1>1 DEF SessionInv, Undisturbed, SessionOp
<1>4. IoOf(s) \in pool.live
  BY DEF SessionRuns, Runs
<1> QED
  BY <1>1, <1>2, <1>3, <1>4, QueuedNat

\* What putting w for session s makes of the books.
OpPlaced(d, s, w) ==
  /\ BooksOK(d) /\ d.sess[s] = w /\ SessionInv(d, s, run) /\ Unseen(Here, d)
  /\ \A t \in Session \ {s} : SameFor(Here, d, t)

\* Ending or starting an operation of a session that has its socket keeps what holds of the sessions.
LEMMA OpPutInv ==
  ASSUME Inv, NEW s \in Session, NEW v, v = Here.sess[s], NEW w \in SessionState,
         Changed(v, w), v.sock # "none",
         \/ w.op["conn"] = v.op["conn"] /\ w.connCanceled = v.connCanceled
         \/ w.op["conn"] = "none" /\ v.op["conn"] # "none",
         ~EarlyStop /\ v.st = "Starting" =>
           w.op["silence"] = "none" /\ w.op["recv"] = "none" /\ ~w.timedOut,
         NEW d, d = Put(Here, s, w)
  PROVE  OpPlaced(d, s, w)
<1>1. BooksOK(Here) /\ SessionInv(Here, s, run)
  BY DEF Inv, SessionsInv
<1>2. /\ BooksOK(d) /\ d.sess[s] = w /\ Leaving(d, s) /\ Life(d, s, run)
      /\ On(d, s, "ArmConn") = On(Here, s, "ArmConn")
      /\ On(d, s, "StartRecv") = On(Here, s, "StartRecv")
      /\ \A t \in Session \ {s} : SameFor(Here, d, t)
      /\ Unseen(Here, d)
  <2>1. Changed(Here.sess[s], w) /\ Here.sess[s].sock # "none"
    OBVIOUS
  <2> QED
    BY <1>1, <2>1, OpPutKeeps
<1>3. w.st = v.st /\ w.op["write"] = v.op["write"]
  BY DEF Changed
<1>4. On(Here, s, "ArmConn") \in Nat
  BY <1>1, OnNat DEF SessionKind
<1>5. Timeout(d, s, run)
  <2>1. Timeout(Here, s, run)
    BY <1>1 DEF SessionInv
  <2> QED
    BY <1>2, <1>3, <1>4, <2>1 DEF Timeout
<1>6. ~EarlyStop => Undisturbed(d, s, run)
  <2>1. ~EarlyStop => Undisturbed(Here, s, run)
    BY <1>1 DEF SessionInv
  <2> QED
    BY <1>2, <1>3, <2>1 DEF Undisturbed
<1> QED
  BY <1>2, <1>5, <1>6 DEF SessionInv, OpPlaced

\* A change of one session, and the disconnect that follows it.
LEMMA ThenDisconnect ==
  ASSUME Inv, NEW s \in Session, NEW d, BooksOK(d), SessionInv(d, s, run), Unseen(Here, d),
         \A t \in Session \ {s} : SameFor(Here, d, t),
         d.sess[s].st = "Starting" => EarlyStop, IoOf(s) \in pool.live,
         NEW i, Become(DoDisconnect(d, i, s)),
         UNCHANGED <<state, srv, run, pool, api, crashed>>, ControlOK'
  PROVE  Inv'
<1> DEFINE e == DoDisconnect(d, i, s)
<1>0. e = DoDisconnect(d, i, s) /\ Become(e)
  OBVIOUS
<1> HIDE DEF e
<1>1. /\ e = d \/ Touches(d, e, s)
      /\ BooksOK(e) /\ SessionInv(e, s, run)
      /\ \A t \in Session \ {s} : SameFor(d, e, t)
      /\ e.sess[s].st = IF d.sess[s].st \in {"Started", "Starting"} THEN "Stopping"
                        ELSE d.sess[s].st
  <2>1. DisconnectKept(d, e, s, run)
    BY <1>0, DisconnectKeeps
  <2> QED
    BY <2>1 DEF DisconnectKept
<1>2. Unseen(Here, e)
  <2>1. CASE e = d
    BY <2>1
  <2>2. CASE Touches(d, e, s)
    <3>1. Unseen(d, e)
      BY <1>1, <2>2, TouchesUnseen
    <3> QED
      BY <3>1, UnseenTwice
  <2> QED
    BY <1>1, <2>1, <2>2
<1>3. \A t \in Session \ {s} : SameFor(Here, e, t)
  BY <1>1, SameTwice
<1>4. Here' = e
  BY <1>0, <1>1, HereIs
<1>5. ~EarlyStop => ~crashed'
  BY DEF Inv
<1> QED
  BY <1>1, <1>2, <1>3, <1>4, <1>5, SessionStep

LEMMA KillInv == \A s \in Session : Inv /\ Kill(s) => Inv'
<1> SUFFICES ASSUME NEW s \in Session, Inv, Kill(s) PROVE Inv'
  OBVIOUS
<1>1. /\ sess[s].told = "connected" \/ (EarlyStop /\ sess[s].st = "Starting")
      /\ sess[s].st \in {"Starting", "Started"} /\ Become(DoDisconnect(Here, NThreads, s))
      /\ calls' = [calls EXCEPT !.session = @ + 1]
      /\ UNCHANGED <<state, srv, run, pool, api, crashed>>
  BY DEF Kill
<1>2. BooksOK(Here) /\ SessionInv(Here, s, run)
  BY DEF Inv, SessionsInv
<1>3. Here.sess[s].sock = "open" /\ (Here.sess[s].st = "Starting" => EarlyStop)
  BY <1>1, <1>2 DEF SessionInv, Life, Here
<1>4. IoOf(s) \in pool.live
  BY <1>3, AliveRuns, IoOfIo
<1>5. Unseen(Here, Here) /\ \A t \in Session \ {s} : SameFor(Here, Here, t)
  BY <1>2, UnseenSame DEF SameFor
<1>6. ControlOK'
  BY <1>1 DEF Inv, ControlOK
<1> QED
  BY <1>1, <1>2, <1>3, <1>4, <1>5, <1>6, ThenDisconnect

\* What the connect timer makes of its session before a disconnect.
ConnEnds(v, w) ==
  /\ w.op["conn"] = "none" /\ \A k \in SessionOp \ {"conn"} : w.op[k] = v.op[k]
  /\ w.st = v.st /\ w.sock = v.sock /\ w.reg = v.reg /\ w.counter = v.counter
  /\ w.events = v.events /\ w.told = v.told /\ w.silenceCanceled = v.silenceCanceled

Uncanceled(c, s) == [c EXCEPT !.sess[s].connCanceled = FALSE]
TimesOut(c, s)   == [c EXCEPT !.sess[s].timedOut = TRUE]

LEMMA ConnIs ==
  ASSUME Inv, NEW s \in Session,
         NEW v, v = Here.sess[s], NEW c, c = Ended(s, "conn"),
         NEW d, d = TimesOut(c, s)
  PROVE  \E a, b, e \in SessionState :
           /\ ConnEnds(v, a) /\ ConnEnds(v, b) /\ ConnEnds(v, e)
           /\ a.timedOut = v.timedOut
           /\ Uncanceled(c, s) = Put(Here, s, a)
           /\ d = Put(Here, s, b)
           /\ Uncanceled(d, s) = Put(Here, s, e)
<1> DEFINE w == SetOp(v, "conn", "none")
<1>1. v \in SessionState /\ "conn" \in SessionOp /\ "none" \in OpState
  BY DEF Inv, BooksOK, SessionOp, OpState
<1>2. c = Put(Here, s, w)
  BY <1>1, EndedIs
<1>3. /\ w \in SessionState /\ w.op["conn"] = "none"
      /\ \A l \in SessionOp \ {"conn"} : w.op[l] = v.op[l]
      /\ w.st = v.st /\ w.sock = v.sock /\ w.reg = v.reg /\ w.counter = v.counter
      /\ w.events = v.events /\ w.connCanceled = v.connCanceled /\ w.timedOut = v.timedOut
      /\ w.silenceCanceled = v.silenceCanceled /\ w.told = v.told
  BY <1>1, OpTyped
<1> HIDE DEF w
<1> DEFINE a == [w EXCEPT !.connCanceled = FALSE]
           b == [w EXCEPT !.timedOut = TRUE]
           e == [b EXCEPT !.connCanceled = FALSE]
<1>4. a \in SessionState /\ ConnEnds(v, a) /\ a.timedOut = v.timedOut
  BY <1>3 DEF SessionState, ConnEnds
<1>5. b \in SessionState /\ ConnEnds(v, b)
  BY <1>3 DEF SessionState, ConnEnds
<1>6. e \in SessionState /\ ConnEnds(v, e)
  BY <1>5 DEF SessionState, ConnEnds
<1>7. /\ Uncanceled(c, s) = Put(Here, s, a)
      /\ d = Put(Here, s, b)
  BY <1>2 DEF Put, Uncanceled, TimesOut, Inv, BooksOK
<1>8. Uncanceled(d, s) = Put(Here, s, e)
  <2>1. Uncanceled(Put(Here, s, b), s) = Put(Here, s, e)
    BY DEF Put, Uncanceled, Inv, BooksOK
  <2> QED
    BY <1>7, <2>1
<1> HIDE DEF a, b, e
<1> QED
  BY <1>4, <1>5, <1>6, <1>7, <1>8

LEMMA ConnTimerInv == \A s \in Session : Inv /\ ConnTimer(s) => Inv'
<1> SUFFICES ASSUME NEW s \in Session, Inv, ConnTimer(s) PROVE Inv'
  OBVIOUS
<1> DEFINE v == Here.sess[s]
           c == Ended(s, "conn")
           d == TimesOut(c, s)
<1>0. /\ SessionRuns(s) /\ v.op["conn"] # "none" /\ "conn" \in SessionOp
      /\ \/ Become(Uncanceled(c, s))
         \/ /\ EarlyStop \/ v.st # "Starting"
            /\ Become(Uncanceled(d, s))
         \/ /\ EarlyStop \/ v.st # "Starting"
            /\ Become(Disconnected(d, s))
      /\ UNCHANGED <<state, srv, run, pool, api, calls, crashed>>
  BY DEF ConnTimer, Here, SessionOp, Uncanceled, TimesOut
<1>1. /\ BooksOK(Here) /\ SessionInv(Here, s, run)
      /\ v \in SessionState /\ v.sock # "none" /\ IoOf(s) \in pool.live
  BY <1>0, AtCompletion
<1>i. v = Here.sess[s] /\ c = Ended(s, "conn") /\ d = TimesOut(c, s)
  OBVIOUS
<1> HIDE DEF v, c, d
<1>2. PICK a, b, e \in SessionState :
           /\ ConnEnds(v, a) /\ ConnEnds(v, b) /\ ConnEnds(v, e)
           /\ a.timedOut = v.timedOut
           /\ Uncanceled(c, s) = Put(Here, s, a)
           /\ d = Put(Here, s, b)
           /\ Uncanceled(d, s) = Put(Here, s, e)
  BY <1>i, ConnIs
<1> USE DEF v
<1>3. ~EarlyStop /\ v.st = "Starting" =>
        v.op["silence"] = "none" /\ v.op["recv"] = "none" /\ ~v.timedOut
  BY <1>1 DEF SessionInv, Undisturbed
<1>4. ASSUME NEW w \in SessionState, ConnEnds(v, w), NEW u, u = Put(Here, s, w),
             EarlyStop \/ v.st # "Starting" \/ w.timedOut = v.timedOut
      PROVE  /\ BooksOK(u) /\ u.sess[s] = w /\ SessionInv(u, s, run) /\ Unseen(Here, u)
             /\ \A t \in Session \ {s} : SameFor(Here, u, t)
  <2>1. Changed(v, w)
    <3>1. Life(Here, s, run)
      BY <1>1 DEF SessionInv
    <3>2. v.sock = "closed" => v.silenceCanceled /\ \A k \in SessionOp : v.op[k] # "pending"
      BY <3>1 DEF Life
    <3> QED
      BY <1>4, <3>2 DEF Changed, ConnEnds, SessionOp
  <2>2. w.op["conn"] = "none" /\ w.op["silence"] = v.op["silence"] /\ w.op["recv"] = v.op["recv"]
    BY <1>4 DEF ConnEnds, SessionOp
  <2>3. ~EarlyStop /\ v.st = "Starting" =>
           w.op["silence"] = "none" /\ w.op["recv"] = "none" /\ ~w.timedOut
    BY <1>3, <1>4, <2>2
  <2> HIDE DEF v
  <2>4. v = Here.sess[s]
    BY DEF v
  <2>5. OpPlaced(u, s, w)
    BY <1>0, <1>1, <1>4, <2>1, <2>2, <2>3, <2>4, OpPutInv
  <2> QED
    BY <2>5 DEF OpPlaced
<1>5. ControlOK' /\ (~EarlyStop => ~crashed')
  BY <1>0 DEF Inv, ControlOK
<1>6. ASSUME NEW w \in SessionState, ConnEnds(v, w),
             EarlyStop \/ v.st # "Starting" \/ w.timedOut = v.timedOut,
             Become(Put(Here, s, w))
      PROVE  Inv'
  <2> DEFINE u == Put(Here, s, w)
  <2>0. u = Put(Here, s, w) /\ Become(u)
    BY <1>6
  <2> HIDE DEF u
  <2>1. /\ BooksOK(u) /\ SessionInv(u, s, run) /\ Unseen(Here, u)
        /\ \A t \in Session \ {s} : SameFor(Here, u, t)
    BY <1>4, <1>6, <2>0
  <2>2. Here' = u
    BY <2>0, <2>1, HereIs
  <2> QED
    BY <1>0, <1>5, <2>1, <2>2, SessionStep
<1>7. CASE Become(Uncanceled(c, s))
  BY <1>2, <1>6, <1>7
<1>8. CASE /\ EarlyStop \/ v.st # "Starting"
           /\ Become(Uncanceled(d, s))
  BY <1>2, <1>6, <1>8
<1>9. CASE /\ EarlyStop \/ v.st # "Starting"
           /\ Become(Disconnected(d, s))
  <2>1. /\ BooksOK(d) /\ d.sess[s] = b /\ SessionInv(d, s, run) /\ Unseen(Here, d)
        /\ \A t \in Session \ {s} : SameFor(Here, d, t)
    BY <1>2, <1>4, <1>9
  <2>2. d.sess[s].st = "Starting" => EarlyStop
    BY <1>2, <1>9, <2>1 DEF ConnEnds
  <2>3. Become(DoDisconnect(d, IoOf(s), s))
    BY <1>9 DEF Disconnected
  <2> QED
    BY <1>0, <1>1, <1>5, <2>1, <2>2, <2>3, ThenDisconnect
<1> QED
  BY <1>0, <1>7, <1>8, <1>9

\* An operation of a Started session ends, or is awaited again.
LEMMA OpEnds ==
  ASSUME Inv, NEW s \in Session, SessionRuns(s), NEW k \in {"silence", "recv"},
         Here.sess[s].op[k] # "none",
         NEW o \in OpState, o = "pending" => Here.sess[s].sock # "closed",
         NEW d, d = [Here EXCEPT !.sess[s].op[k] = o]
  PROVE  /\ BooksOK(d) /\ SessionInv(d, s, run) /\ Unseen(Here, d)
         /\ \A t \in Session \ {s} : SameFor(Here, d, t)
         /\ d.sess[s].st = Here.sess[s].st /\ (d.sess[s].st = "Starting" => EarlyStop)
         /\ IoOf(s) \in pool.live
<1> DEFINE v == Here.sess[s]
           w == SetOp(v, k, o)
<1>1. k \in SessionOp /\ k # "conn"
  BY DEF SessionOp
<1>2. /\ BooksOK(Here) /\ SessionInv(Here, s, run) /\ v \in SessionState
      /\ v.sock # "none" /\ IoOf(s) \in pool.live /\ (v.st = "Starting" => EarlyStop)
  BY <1>1, AtCompletion
<1>3. d = Put(Here, s, w)
  BY <1>1, EndedIs
<1>4. v = Here.sess[s] /\ w = SetOp(v, k, o)
  OBVIOUS
<1> HIDE DEF v, w
<1>5. /\ w \in SessionState /\ w.op[k] = o /\ \A l \in SessionOp \ {k} : w.op[l] = v.op[l]
      /\ w.st = v.st /\ w.sock = v.sock /\ w.reg = v.reg /\ w.counter = v.counter
      /\ w.events = v.events /\ w.connCanceled = v.connCanceled /\ w.timedOut = v.timedOut
      /\ w.silenceCanceled = v.silenceCanceled /\ w.told = v.told
  BY <1>1, <1>2, <1>4, OpTyped
<1>6. v.sock = "closed" => v.silenceCanceled /\ \A l \in SessionOp : v.op[l] # "pending"
  BY <1>2, <1>4 DEF SessionInv, Life
<1>7. Changed(v, w)
  <2>1. w.op["write"] = v.op["write"]
    BY <1>5 DEF SessionOp
  <2> QED
    BY <1>4, <1>5, <1>6, <2>1 DEF Changed
<1>8. w.op["conn"] = v.op["conn"]
  BY <1>5 DEF SessionOp
<1>9. /\ BooksOK(d) /\ d.sess[s] = w /\ SessionInv(d, s, run) /\ Unseen(Here, d)
      /\ \A t \in Session \ {s} : SameFor(Here, d, t)
  <2>1. /\ v = Here.sess[s] /\ w \in SessionState /\ Changed(v, w) /\ v.sock # "none"
        /\ w.op["conn"] = v.op["conn"] /\ w.connCanceled = v.connCanceled
        /\ EarlyStop \/ v.st # "Starting"
        /\ d = Put(Here, s, w)
    BY <1>2, <1>3, <1>4, <1>5, <1>7, <1>8
  <2>2. OpPlaced(d, s, w)
    BY <2>1, OpPutInv
  <2> QED
    BY <2>2 DEF OpPlaced
<1> QED
  BY <1>2, <1>4, <1>5, <1>9

LEMMA SilenceTimerInv == \A s \in Session : Inv /\ SilenceTimer(s) => Inv'
<1> SUFFICES ASSUME NEW s \in Session, Inv, SilenceTimer(s) PROVE Inv'
  OBVIOUS
<1> DEFINE c == Ended(s, "silence")
           d == [Here EXCEPT !.sess[s].op["silence"] = "pending"]
<1>0. /\ SessionRuns(s) /\ Here.sess[s].op["silence"] # "none" /\ "silence" \in SessionOp
      /\ \/ Become(c)
         \/ Become(Disconnected(c, s))
         \/ ~Here.sess[s].silenceCanceled /\ Become(d)
      /\ UNCHANGED <<state, srv, run, pool, api, calls, crashed>>
  BY DEF SilenceTimer, Here, SessionOp
<1>1. Here.sess[s].sock = "closed" => Here.sess[s].silenceCanceled
  BY DEF Inv, SessionsInv, SessionInv, Life
<1>2. c = [Here EXCEPT !.sess[s].op["silence"] = "none"]
  BY DEF Ended
<1>3. ControlOK' /\ (~EarlyStop => ~crashed')
  BY <1>0 DEF Inv, ControlOK
<1>4. d = [Here EXCEPT !.sess[s].op["silence"] = "pending"]
  OBVIOUS
<1> HIDE DEF c, d
<1>5. /\ BooksOK(c) /\ SessionInv(c, s, run) /\ Unseen(Here, c)
      /\ \A t \in Session \ {s} : SameFor(Here, c, t)
      /\ (c.sess[s].st = "Starting" => EarlyStop) /\ IoOf(s) \in pool.live
  BY <1>0, <1>2, OpEnds DEF OpState
<1>6. CASE Become(c)
  <2>1. Here' = c
    BY <1>5, <1>6, HereIs
  <2> QED
    BY <1>0, <1>3, <1>5, <2>1, SessionStep
<1>7. CASE Become(Disconnected(c, s))
  <2>1. Become(DoDisconnect(c, IoOf(s), s))
    BY <1>7 DEF Disconnected
  <2> QED
    BY <1>0, <1>3, <1>5, <2>1, ThenDisconnect
<1>8. CASE ~Here.sess[s].silenceCanceled /\ Become(d)
  <2>1. /\ BooksOK(d) /\ SessionInv(d, s, run) /\ Unseen(Here, d)
        /\ \A t \in Session \ {s} : SameFor(Here, d, t)
    BY <1>0, <1>1, <1>4, <1>8, OpEnds DEF OpState
  <2>2. Here' = d
    BY <1>8, <2>1, HereIs
  <2> QED
    BY <1>0, <1>3, <2>1, <2>2, SessionStep
<1> QED
  BY <1>0, <1>6, <1>7, <1>8

LEMMA RecvInv == \A s \in Session : Inv /\ Recv(s) => Inv'
<1> SUFFICES ASSUME NEW s \in Session, Inv, Recv(s) PROVE Inv'
  OBVIOUS
<1> DEFINE c == Ended(s, "recv")
           e == [t |-> "send"]
           d == EventEnqueue(Here, s, e)
           v == Here.sess[s]
<1>0. /\ SessionRuns(s) /\ Here.sess[s].op["recv"] # "none" /\ "recv" \in SessionOp
      /\ \/ Become(Disconnected(c, s))
         \/ v.st = "Started" /\ Become(d)
      /\ UNCHANGED <<state, srv, run, pool, api, crashed>>
  BY DEF Recv, Here, SessionOp, SessionIsStarted
<1>1. ControlOK' /\ (~EarlyStop => ~crashed')
  <2>1. calls' \in [start : Nat, session : Nat]
    BY DEF Recv, Inv, ControlOK
  <2> QED
    BY <1>0, <2>1 DEF Inv, ControlOK
<1>2. c = [Here EXCEPT !.sess[s].op["recv"] = "none"]
  BY DEF Ended
<1>3. CASE Become(Disconnected(c, s))
  <2> HIDE DEF c
  <2>1. /\ BooksOK(c) /\ SessionInv(c, s, run) /\ Unseen(Here, c)
        /\ \A t \in Session \ {s} : SameFor(Here, c, t)
        /\ (c.sess[s].st = "Starting" => EarlyStop) /\ IoOf(s) \in pool.live
    BY <1>0, <1>2, OpEnds DEF OpState
  <2>2. Become(DoDisconnect(c, IoOf(s), s))
    BY <1>3 DEF Disconnected
  <2> QED
    BY <1>0, <1>1, <2>1, <2>2, ThenDisconnect
<1>4. CASE v.st = "Started" /\ Become(d)
  <2>1. /\ BooksOK(Here) /\ SessionInv(Here, s, run) /\ v.sock # "none" /\ IoOf(s) \in pool.live
    BY <1>0, AtCompletion
  <2> DEFINE n == On(Here, s, "Teardown")
  <2>2. n \in Nat /\ Balance(Here, s, n)
    <3>1. One(v.st = "Stopping") = 0 /\ n \in Nat
      BY <1>4, <2>1, OnNat DEF One, SessionKind
    <3>2. Balance(Here, s, One(v.st = "Stopping") + n)
      BY <2>1 DEF SessionInv, Leaving
    <3> QED
      BY <3>1, <3>2
  <2>3. e \in LegalEvent /\ e.t = "send"
    BY DEF LegalEvent, Event
  <2>4. d = EventEnqueue(Here, s, e)
    OBVIOUS
  <2>4a. v = Here.sess[s] /\ n = On(Here, s, "Teardown")
    OBVIOUS
  <2> HIDE DEF d, e, n, v
  <2>5. Touches(Here, d, s) /\ d.sess[s].st = v.st /\ Balance(d, s, n)
    <3>1. One(e.t = "disconnect") = 0
      BY <2>3 DEF One
    <3>2. /\ Touches(Here, d, s) /\ d.sess[s].st = Here.sess[s].st
          /\ Balance(d, s, n + One(e.t = "disconnect"))
      BY <2>1, <2>2, <2>3, <2>4, EnqueueBalance
    <3> QED
      BY <2>2, <2>4a, <3>1, <3>2
  <2>6. Balance(d, s, One(d.sess[s].st = "Stopping") + On(d, s, "Teardown"))
    <3>1. On(d, s, "Teardown") = n /\ One(d.sess[s].st = "Stopping") = 0
      BY <1>4, <2>4a, <2>5 DEF Touches, SessionKind, One
    <3> QED
      BY <2>2, <2>5, <3>1
  <2>7. SessionInv(d, s, run)
    <3>1. /\ d.sess[s].st = Here.sess[s].st /\ Here.sess[s].st = "Started"
          /\ Here.sess[s].sock # "none"
      BY <1>4, <2>1, <2>4a, <2>5
    <3> QED
      BY <2>1, <2>5, <2>6, <3>1, TouchKeeps
  <2>8. Unseen(Here, d)
    BY <2>1, <2>4a, <2>5, TouchesUnseen
  <2>9. BooksOK(d) /\ \A t \in Session \ {s} : SameFor(Here, d, t)
    BY <2>5 DEF Touches
  <2>10. Here' = d
    BY <1>4, <2>9, HereIs
  <2> QED
    BY <1>0, <1>1, <2>7, <2>8, <2>9, <2>10, SessionStep
<1> QED
  BY <1>0, <1>3, <1>4

LEMMA WriteInv == \A s \in Session : Inv /\ Write(s) => Inv'
<1> SUFFICES ASSUME NEW s \in Session, Inv, Write(s) PROVE Inv'
  OBVIOUS
<1> DEFINE v == Here.sess[s]
           w == SetOp(v, "write", "none")
           b == Ended(s, "write")
           n == One(v.st = "Stopping") + On(Here, s, "Teardown")
<1>0. /\ SessionRuns(s) /\ Here.sess[s].op["write"] # "none" /\ "write" \in SessionOp
      /\ \E c \in {b, Disconnected(b, s)} : Become(NextEvent(c, s))
      /\ UNCHANGED <<state, srv, run, pool, api, calls, crashed>>
      /\ v = Here.sess[s] /\ w = SetOp(v, "write", "none")
      /\ n = One(v.st = "Stopping") + On(Here, s, "Teardown")
  BY DEF Write, Here, SessionOp
<1>1. b = Put(Here, s, w)
  BY <1>0, EndedIs
<1> HIDE DEF v, w, b, n
<1>2. /\ BooksOK(Here) /\ SessionInv(Here, s, run)
      /\ v \in SessionState /\ v.events \in Seq(LegalEvent)
      /\ v.sock # "none" /\ IoOf(s) \in pool.live /\ (v.st = "Starting" => EarlyStop)
  BY <1>0, AtCompletion
<1>3. /\ w \in SessionState /\ w.op["write"] = "none"
      /\ \A l \in SessionOp \ {"write"} : w.op[l] = v.op[l]
      /\ w.st = v.st /\ w.sock = v.sock /\ w.reg = v.reg /\ w.counter = v.counter
      /\ w.events = v.events /\ w.connCanceled = v.connCanceled /\ w.timedOut = v.timedOut
      /\ w.silenceCanceled = v.silenceCanceled /\ w.told = v.told
  <2>1. "none" \in OpState /\ "write" \in SessionOp
    BY <1>0 DEF OpState
  <2> QED
    BY <1>0, <1>2, <2>1, OpTyped
<1>4. /\ Touches(Here, b, s) /\ b.sess[s] = w
      /\ \A k \in SessionKind : On(b, s, k) = On(Here, s, k)
  <2>1. SameBut(Here.sess[s], w) /\ w.events \in Seq(LegalEvent)
    BY <1>0, <1>2, <1>3 DEF SameBut
  <2> QED
    BY <1>1, <1>2, <1>3, <2>1, PutTouches
<1>5. /\ n \in Nat /\ Balance(Here, s, n) /\ Front(v, "send")
      /\ On(Here, s, "Teardown") = 0
  <2>1. Balance(Here, s, n)
    BY <1>0, <1>2 DEF SessionInv, Leaving
  <2>2. Front(v, "send")
    BY <1>0, <2>1 DEF Balance
  <2>3. One(Front(v, "disconnect")) = 0
    BY <2>2 DEF Front, One
  <2>4. /\ On(Here, s, "Event") \in Nat /\ On(Here, s, "Erase") \in Nat
        /\ On(Here, s, "Teardown") \in Nat
    BY <1>2, OnNat DEF SessionKind
  <2>5. On(Here, s, "Event") + On(Here, s, "Erase") + On(Here, s, "Teardown") = 0
    BY <1>0, <2>1, <2>3 DEF Balance, TasksAtFront
  <2>6. One(v.st = "Stopping") \in Nat
    BY DEF One
  <2> QED
    BY <1>0, <2>1, <2>2, <2>4, <2>5, <2>6
<1>6. BooksOK(b) /\ Carried(b, s, n)
  <2>1. TasksAtFront(Here, s) = 0
    <3>1. One(Front(v, "disconnect")) = 0
      BY <1>5 DEF Front, One
    <3> QED
      BY <1>0, <1>5, <3>1 DEF Balance
  <2>2. TasksAtFront(b, s) = 0 /\ On(b, s, "Enqueue") = On(Here, s, "Enqueue")
    BY <1>4, <2>1 DEF TasksAtFront, SessionKind
  <2>3. Queued(w) = Queued(v) /\ w.events # <<>>
    BY <1>3, <1>5 DEF Queued, Front
  <2>4. Queued(v) + On(Here, s, "Enqueue") = n
    BY <1>0, <1>5 DEF Balance
  <2> QED
    BY <1>3, <1>4, <2>2, <2>3, <2>4 DEF Carried, Touches
<1>7. PICK c \in {b, Disconnected(b, s)} : Become(NextEvent(c, s))
  BY <1>0
<1>8. PICK m \in Nat : /\ BooksOK(c) /\ Carried(c, s, m) /\ Touches(Here, c, s)
                       /\ Head(c.sess[s].events) = Head(v.events)
                       /\ m = One(c.sess[s].st = "Stopping")
                       /\ \/ c.sess[s].st = v.st
                          \/ v.st \in {"Started", "Starting"} /\ c.sess[s].st = "Stopping"
  <2>1. /\ Head(b.sess[s].events) = Head(v.events) /\ b.sess[s].st = v.st
        /\ n = One(b.sess[s].st = "Stopping")
    <3>1. One(v.st = "Stopping") \in Nat
      BY DEF One
    <3> QED
      BY <1>0, <1>3, <1>4, <1>5, <3>1
  <2>2. CASE c = b
    BY <1>4, <1>5, <1>6, <2>1, <2>2
  <2>3. CASE c # b
    <3>1. c = DoDisconnect(b, IoOf(s), s) /\ (b.sess[s].st = "Starting" => EarlyStop)
      BY <1>2, <1>7, <2>1, <2>3 DEF Disconnected
    <3>2. /\ b.sess[s].st \in {"Started", "Starting"}
          /\ Touches(b, c, s) /\ c.sess[s].st = "Stopping" /\ Carried(c, s, n + 1)
          /\ Head(c.sess[s].events) = Head(b.sess[s].events)
      BY <1>5, <1>6, <2>3, <3>1, DisconnectOK
    <3>3. n = 0 /\ One(c.sess[s].st = "Stopping") = 1
      BY <2>1, <3>2 DEF One
    <3>4. Touches(Here, c, s) /\ BooksOK(c)
      BY <1>4, <3>2, TouchesTwice DEF Touches
    <3> QED
      BY <1>5, <2>1, <3>2, <3>3, <3>4
  <2> QED
    BY <2>2, <2>3
<1> DEFINE d == NextEvent(c, s)
<1>9. d = NextEvent(c, s) /\ Become(d)
  BY <1>7
<1> HIDE DEF d
<1>10. Touches(c, d, s) /\ d.sess[s].st = c.sess[s].st /\ Balance(d, s, m)
  <2>1. One(Front(c.sess[s], "disconnect")) = 0
    BY <1>5, <1>8 DEF Front, One
  <2>2. /\ Touches(c, d, s) /\ d.sess[s].st = c.sess[s].st
        /\ Balance(d, s, m - One(Front(c.sess[s], "disconnect")))
    BY <1>8, <1>9, NextBalance
  <2> QED
    BY <2>1, <2>2
<1>11. Touches(Here, d, s)
  BY <1>8, <1>10, TouchesTwice
<1>12. Balance(d, s, One(d.sess[s].st = "Stopping") + On(d, s, "Teardown"))
  <2>1. On(d, s, "Teardown") = 0
    BY <1>5, <1>11 DEF Touches, SessionKind
  <2>2. One(d.sess[s].st = "Stopping") = m
    BY <1>8, <1>10
  <2> QED
    BY <1>10, <2>1, <2>2
<1>13. /\ \/ d.sess[s].st = Here.sess[s].st
          \/ Here.sess[s].st \in {"Started", "Starting"} /\ d.sess[s].st = "Stopping"
       /\ Here.sess[s].sock # "none"
       /\ ~EarlyStop => Here.sess[s].st # "Starting"
  BY <1>0, <1>2, <1>8, <1>10
<1>14. SessionInv(d, s, run)
  BY <1>2, <1>11, <1>12, <1>13, TouchKeeps
<1>15. Unseen(Here, d)
  BY <1>2, <1>11, <1>13, TouchesUnseen
<1>16. BooksOK(d) /\ \A t \in Session \ {s} : SameFor(Here, d, t)
  BY <1>11 DEF Touches
<1>17. Here' = d
  BY <1>9, <1>16, HereIs
<1>18. ControlOK' /\ (~EarlyStop => ~crashed')
  BY <1>0 DEF Inv, ControlOK
<1> QED
  BY <1>0, <1>14, <1>15, <1>16, <1>17, <1>18, SessionStep

-----------------------------------------------------------------------------
(* The invariant.                                                          *)

LEMMA InitInv == Init => Inv
<1> SUFFICES ASSUME Init PROVE Inv
  OBVIOUS
<1>1. ControlOK /\ ~crashed
  BY DEF Init, ControlOK, NetState, OpState, RunPc, Resting
<1>2. NewSession \in SessionState
  <2>1. NoOps \in [SessionOp -> OpState] /\ <<>> \in Seq(Event)
    BY DEF NoOps, OpState
  <2> QED
    BY <2>1 DEF NewSession, SessionState, NetState
<1>3. /\ Here.sess = sess /\ Here.strand = strand
      /\ \A s \in Session : sess[s] = NewSession
      /\ \A i \in Io : strand[i] = <<>>
  BY DEF Here, Init
<1>n. /\ NewSession.events = <<>> /\ \A k \in SessionOp : NewSession.op[k] = "none"
      /\ NewSession.st = "Stopped" /\ NewSession.sock = "none" /\ ~NewSession.reg
      /\ ~NewSession.counter /\ NewSession.told = "nothing"
  BY DEF NewSession, NoOps
<1>4. BooksOK(Here)
  <2>1. sess \in [Session -> SessionState] /\ strand \in [Io -> Seq(Task)]
    <3>1. <<>> \in Seq(Task)
      OBVIOUS
    <3> QED
      BY <1>2, <3>1 DEF Init
  <2>2. Here \in [sess : [Session -> SessionState], strand : [Io -> Seq(Task)]]
    BY <2>1 DEF Here
  <2>3. \A i \in Io : Here.strand[i] \in Seq(TasksOf(i))
    <3>1. \A i \in Io : <<>> \in Seq(TasksOf(i))
      OBVIOUS
    <3> QED
      BY <1>3, <3>1
  <2>4. \A s \in Session : Here.sess[s].events \in Seq(LegalEvent)
    <3>1. <<>> \in Seq(LegalEvent)
      OBVIOUS
    <3> QED
      BY <1>3, <1>n, <3>1
  <2> QED
    BY <2>2, <2>3, <2>4 DEF BooksOK
<1>5. /\ \A s \in Session, k \in SessionKind : On(Here, s, k) = 0
      /\ \A k \in ServerKind : Srv(Here, k) = 0
  BY <1>3, CountEmpty, HomeIo DEF On, Srv
<1>6. \A s \in Session : Ordered(Here, s)
  <2>1. \A A, B : Before(<<>>, A, B)
    BY DEF Before
  <2> QED
    BY <1>3, <2>1, IoOfIo DEF Ordered
<1>7. run.pc = "idle"
  BY DEF Init, Resting
<1>8. ASSUME NEW s \in Session PROVE SessionInv(Here, s, run)
  <2> DEFINE v == Here.sess[s]
  <2>1. /\ v = NewSession /\ v.events = <<>> /\ \A k \in SessionOp : v.op[k] = "none"
        /\ v.st = "Stopped" /\ v.sock = "none" /\ ~v.reg /\ ~v.counter /\ v.told = "nothing"
    BY <1>3, <1>n
  <2>2. /\ On(Here, s, "Enqueue") = 0 /\ On(Here, s, "Event") = 0 /\ On(Here, s, "Erase") = 0
        /\ On(Here, s, "Teardown") = 0 /\ On(Here, s, "ArmConn") = 0 /\ On(Here, s, "StartRecv") = 0
    BY <1>5 DEF SessionKind
  <2> HIDE DEF v
  <2>3. Queued(v) = 0 /\ ~Front(v, "disconnect") /\ ~Front(v, "send")
    BY <2>1, CountEmpty DEF Queued, Front
  <2>4. One(v.st = "Stopping") = 0 /\ One(Front(v, "disconnect")) = 0
    BY <2>1, <2>3 DEF One
  <2>5. v = Here.sess[s]
    BY DEF v
  <2>6. Leaving(Here, s)
    BY <1>6, <2>1, <2>2, <2>3, <2>4, <2>5 DEF Leaving, Balance, TasksAtFront, SessionOp
  <2>7. ~Accepting(run, s) /\ ~Entering(run, s)
    BY <1>7 DEF Accepting, Entering
  <2>8. Life(Here, s, run)
    BY <1>5, <2>1, <2>5, <2>7 DEF Life
  <2>9. Timeout(Here, s, run) /\ Undisturbed(Here, s, run)
    BY <1>7, <2>1, <2>2, <2>5, <2>7 DEF Timeout, Undisturbed, SessionOp
  <2> QED
    BY <2>6, <2>8, <2>9 DEF SessionInv
<1>9. ServerInv(Here)
  <2>1. \A s \in Session : ~Here.sess[s].counter /\ Here.sess[s].st = "Stopped" /\ Here.sess[s].sock = "none"
    BY <1>3 DEF NewSession
  <2>2. Srv(Here, "FinalStop") = 0 /\ Srv(Here, "Stop") = 0
    BY <1>5 DEF ServerKind
  <2>3. ~Holder(Here)
    BY <2>1 DEF Holder, Init
  <2>4. Counted(Here)
    BY <1>7, <2>2, <2>3 DEF Counted, Init
  <2>5. Walked(Here) /\ Kept /\ Accepts(Here) /\ Pooled(Here)
    BY <1>3, <1>7, <2>1 DEF Walked, Kept, Accepts, InHandleAccept, Pooled, Init
  <2> QED
    BY <2>4, <2>5 DEF ServerInv
<1> QED
  BY <1>1, <1>4, <1>8, <1>9 DEF Inv, SessionsInv

LEMMA StutterInv == Inv /\ UNCHANGED vars => Inv'
<1> SUFFICES ASSUME Inv, UNCHANGED vars PROVE Inv'
  OBVIOUS
<1>1. /\ UNCHANGED <<sess, strand>> /\ UNCHANGED <<state, srv, run, pool, api>>
      /\ UNCHANGED <<calls, crashed>>
  BY DEF vars
<1>2. Here' = Here
  BY <1>1, HereSame
<1>3. ServerInv(Here)'
  BY <1>1, <1>2, ServerIs DEF Inv
<1>4. ControlOK'
  BY <1>1 DEF Inv, ControlOK
<1> QED
  BY <1>1, <1>2, <1>3, <1>4, StepBy DEF Inv

LEMMA StepInv == Inv /\ Next => Inv'
<1> SUFFICES ASSUME Inv, Next PROVE Inv'
  OBVIOUS
<1>1. CASE StartCall \/ StopCall \/ StartFails \/ ApiStep
  BY <1>1, StartCallInv, StopCallInv, StartFailsInv, StopPoolInv, StopReturnInv,
     StartPoolInv, StartListenInv, StartAcceptInv DEF ApiStep
<1>2. CASE AcceptFails \/ Accept
  BY <1>2, AcceptFailsInv, AcceptInv
<1>3. CASE ServerStep
  <2>1. CASE PostAccept \/ AcceptRetry \/ AcceptAborted
    BY <2>1, PostAcceptInv, AcceptRetryInv, AcceptAbortedInv
  <2>2. CASE SessionStart \/ DoneConnect \/ BecomeStarted \/ FireConnect
    BY <2>2, SessionStartInv, DoneConnectInv, BecomeStartedInv, FireConnectInv
  <2>3. CASE CheckStarted \/ Emplace \/ AcceptNext
    BY <2>3, CheckStartedInv, EmplaceInv, AcceptNextInv
  <2>4. CASE PostStop \/ WalkSession \/ WalkEnd
    BY <2>4, PostStopInv, WalkSessionInv, WalkEndInv
  <2>5. CASE FinalStop \/ HandleStop \/ KeepTimer \/ RunErase
    BY <2>5, FinalStopInv, HandleStopInv, KeepTimerInv, RunEraseInv
  <2> QED
    BY <1>3, <2>1, <2>2, <2>3, <2>4, <2>5 DEF ServerStep
<1>4. ASSUME NEW i \in Io, SessionTask(i) \/ ThreadExit(i) PROVE Inv'
  BY <1>4, RunEnqueueInv, RunArmConnInv, RunStartRecvInv, RunEventInv, RunTeardownInv,
     ThreadExitInv DEF SessionTask
<1>5. ASSUME NEW s \in Session, SessionEnd(s) \/ Kill(s) PROVE Inv'
  BY <1>5, ConnTimerInv, SilenceTimerInv, RecvInv, WriteInv, KillInv DEF SessionEnd
<1> QED
  BY <1>1, <1>2, <1>3, <1>4, <1>5 DEF Next

LEMMA Invariance == Spec => []Inv
<1>1. Inv /\ [Next]_vars => Inv'
  BY StepInv, StutterInv
<1> QED
  BY InitInv, <1>1, PTL DEF Spec

-----------------------------------------------------------------------------
(* What the invariant says of the server.                                  *)

\* Every variable keeps its type, whatever the numbers of sessions, threads and
\* calls: a task on a strand always names a session and an event of the code.
THEOREM ServerTypes == Spec => []TypeOK
<1>1. Inv => TypeOK
  <2> SUFFICES ASSUME Inv PROVE TypeOK
    OBVIOUS
  <2>1. Here \in [sess : [Session -> SessionState], strand : [Io -> Seq(Task)]]
    BY DEF Inv, BooksOK
  <2>2. sess \in [Session -> SessionState] /\ strand \in [Io -> Seq(Task)]
    BY <2>1 DEF Here
  <2> QED
    BY <2>2 DEF Inv, ControlOK, TypeOK
<1> QED
  BY Invariance, <1>1, PTL

\* The two assertions on the way down never fail while sessions are only stopped
\* once they are Started: the final stop, posted by the deleter of counter_sptr_,
\* finds the server Stopping (tcp_server.h:168), and the manager only lets go
\* sessions that were Started (disconnect.h:273).
THEOREM ServerAssertions ==
  ASSUME EarlyStop = FALSE
  PROVE  Spec => []AssertionsHold
<1>1. Inv => AssertionsHold
  BY DEF Inv, AssertionsHold
<1> QED
  BY Invariance, <1>1, PTL

\* PostStop walks the manager and gives up the server's counter; no session that
\* still holds a copy has escaped that walk, though HandleAccept, applications
\* and other io threads act on sessions in the middle of it.
THEOREM WalkFindsAll == Spec => []StopReachesEverySession
<1>1. Inv => StopReachesEverySession
  BY DEF Inv, ServerInv, Walked, StopReachesEverySession, Here
<1> QED
  BY Invariance, <1>1, PTL

\* HandleStop tells the application that the server is Stopped when the last
\* session has been told, taken out of the manager, and closed.
THEOREM StoppedMeansEmpty == Spec => []StoppedServerHasNoSession
<1>1. Inv => StoppedServerHasNoSession
  <2> SUFFICES ASSUME Inv, state = "Stopped", NEW s \in Session
               PROVE  /\ ~sess[s].reg /\ ~sess[s].counter
                      /\ sess[s].st = "Stopped" /\ sess[s].sock # "open"
                      /\ sess[s].told # "connected"
    BY DEF StoppedServerHasNoSession
  <2>1. Here.sess = sess
    BY DEF Here
  <2>2. ~sess[s].counter
    BY <2>1 DEF Inv, ServerInv, Counted, Holder
  <2>3. Life(Here, s, run)
    BY DEF Inv, SessionsInv, SessionInv
  <2> QED
    BY <2>1, <2>2, <2>3 DEF Life
<1> QED
  BY Invariance, <1>1, PTL

\* After DoStop of a session has cancelled its timers and closed its socket none
\* of its operations waits for the peer or the clock, and no second disconnect is
\* queued behind the first.
THEOREM TornDownIsDead == Spec => []TornDownSessionIsDead
<1>1. Inv => TornDownSessionIsDead
  <2> SUFFICES ASSUME Inv, NEW s \in Session, sess[s].sock = "closed"
               PROVE  /\ \A k \in SessionOp : sess[s].op[k] # "pending"
                      /\ \A j \in 1..Len(sess[s].events) : sess[s].events[j].t = "send"
    BY DEF TornDownSessionIsDead
  <2> DEFINE v == Here.sess[s]
  <2>1. Here.sess = sess /\ v.sock = "closed"
    BY DEF Here
  <2>2. BooksOK(Here) /\ Leaving(Here, s) /\ Life(Here, s, run)
    BY DEF Inv, SessionsInv, SessionInv
  <2>3. v.st = "Stopped" /\ \A k \in SessionOp : v.op[k] # "pending"
    <3>1. v.st # "Stopped" => v.sock = "open"
      BY <2>2 DEF Life
    <3> QED
      BY <2>1, <2>2, <3>1 DEF Life
  <2>4. On(Here, s, "Teardown") = 0
    <3>1. ~(On(Here, s, "Teardown") > 0)
      BY <2>1, <2>2 DEF Leaving
    <3>2. On(Here, s, "Teardown") \in Nat
      BY <2>2, OnNat DEF SessionKind
    <3> QED
      BY <3>1, <3>2
  <2>5. /\ Queued(v) \in Nat /\ On(Here, s, "Enqueue") \in Nat
        /\ v.events \in Seq(LegalEvent)
    BY <2>2, QueuedNat, OnNat DEF SessionKind
  <2>6. Queued(v) + On(Here, s, "Enqueue") = One(v.st = "Stopping") + On(Here, s, "Teardown")
    BY <2>2 DEF Leaving, Balance
  <2>7. One(v.st = "Stopping") = 0
    BY <2>3 DEF One
  <2>8. Queued(v) = 0
    BY <2>4, <2>5, <2>6, <2>7
  <2> HIDE DEF v
  <2>9. \A j \in DOMAIN v.events : v.events[j] \notin Disconnect
    BY <2>5, <2>8, CountZero DEF Queued
  <2>10. \A j \in DOMAIN v.events : v.events[j].t = "send"
    BY <2>5, <2>9, EventShape
  <2>11. DOMAIN v.events = 1..Len(v.events)
    BY <2>5
  <2> QED
    BY <2>1, <2>3, <2>10, <2>11 DEF v
<1> QED
  BY Invariance, <1>1, PTL

\* IoPool's Stop returns with every strand empty: counter_timer_ keeps io 0, and
\* io 0 keeps the others, running until the last tear-down is over.
THEOREM PoolEndsEmpty == Spec => []NothingLeftBehind
<1>1. Inv => NothingLeftBehind
  BY DEF Inv, ServerInv, Pooled, NothingLeftBehind, Here
<1> QED
  BY Invariance, <1>1, PTL

-----------------------------------------------------------------------------
(* The connect timeout: which step ends it.                                *)

Shaped(c) ==
  /\ "sess" \in DOMAIN c /\ "strand" \in DOMAIN c /\ DOMAIN c.sess = Session
  /\ \A t \in Session : "op" \in DOMAIN c.sess[t] /\ DOMAIN c.sess[t].op = SessionOp

SameConn(c, d) ==
  Shaped(d) /\ \A t \in Session : d.sess[t].op["conn"] = c.sess[t].op["conn"]

LEMMA ShapedHere == ASSUME BooksOK(Here) PROVE Shaped(Here)
<1>1. Here.sess \in [Session -> SessionState] /\ "sess" \in DOMAIN Here /\ "strand" \in DOMAIN Here
  BY DEF BooksOK
<1> QED
  BY <1>1 DEF Shaped, SessionState

LEMMA SameConnTwice ==
  ASSUME NEW c, NEW d, NEW e, SameConn(c, d), SameConn(d, e)
  PROVE  SameConn(c, e)
BY DEF SameConn

LEMMA PostSameConn ==
  ASSUME NEW c, Shaped(c), NEW i, NEW x
  PROVE  SameConn(c, PostTo(c, i, x)) /\ SameConn(c, Post(c, x))
BY DEF PostTo, Post, SameConn, Shaped

LEMMA EventsSameConn ==
  ASSUME NEW c, Shaped(c), NEW s \in Session, NEW q
  PROVE  SameConn(c, [c EXCEPT !.sess[s].events = q])
BY DEF SameConn, Shaped

LEMMA StateSameConn ==
  ASSUME NEW c, Shaped(c), NEW s \in Session, NEW a
  PROVE  /\ SameConn(c, [c EXCEPT !.sess[s].st = a])
         /\ SameConn(c, [c EXCEPT !.sess[s].counter = a])
         /\ SameConn(c, [c EXCEPT !.sess[s].reg = a])
         /\ SameConn(c, [c EXCEPT !.sess[s].told = a])
BY DEF SameConn, Shaped

LEMMA OpSameConn ==
  ASSUME NEW c, Shaped(c), NEW s \in Session, NEW k \in SessionOp \ {"conn"}, NEW o
  PROVE  SameConn(c, [c EXCEPT !.sess[s].op[k] = o])
BY DEF SameConn, Shaped, SessionOp

LEMMA FrontSameConn ==
  ASSUME NEW c, Shaped(c), NEW s \in Session
  PROVE  SameConn(c, RunFront(c, s))
<1>1. "write" \in SessionOp \ {"conn"}
  BY DEF SessionOp
<1> QED
  BY <1>1, PostSameConn, OpSameConn DEF RunFront, AsyncWrite

LEMMA EnqueueSameConn ==
  ASSUME NEW c, Shaped(c), NEW s \in Session, NEW e
  PROVE  SameConn(c, EventEnqueue(c, s, e))
<1> DEFINE d == [c EXCEPT !.sess[s].events = Append(@, e)]
<1>1. SameConn(c, d)
  BY DEF SameConn, Shaped
<1>2. Shaped(d)
  BY <1>1 DEF SameConn
<1>3. EventEnqueue(c, s, e) = IF c.sess[s].events = <<>> THEN RunFront(d, s) ELSE d
  BY DEF EventEnqueue
<1> HIDE DEF d
<1>4. SameConn(c, RunFront(d, s))
  BY <1>1, <1>2, FrontSameConn, SameConnTwice
<1> QED
  BY <1>1, <1>3, <1>4

LEMMA NextSameConn ==
  ASSUME NEW c, Shaped(c), NEW s \in Session
  PROVE  SameConn(c, NextEvent(c, s))
<1> DEFINE d == [c EXCEPT !.sess[s].events = Tail(@)]
<1>1. SameConn(c, d)
  BY DEF SameConn, Shaped
<1>2. Shaped(d)
  BY <1>1 DEF SameConn
<1>3. NextEvent(c, s) = IF d.sess[s].events = <<>> THEN d ELSE RunFront(d, s)
  BY DEF NextEvent
<1> HIDE DEF d
<1>4. SameConn(c, RunFront(d, s))
  BY <1>1, <1>2, FrontSameConn, SameConnTwice
<1> QED
  BY <1>1, <1>3, <1>4

LEMMA DisconnectSameConn ==
  ASSUME NEW c, Shaped(c), NEW s \in Session, NEW i
  PROVE  SameConn(c, DoDisconnect(c, i, s))
<1> DEFINE d == StateStopping(c, s)
           e == [t |-> "disconnect", old |-> c.sess[s].st]
           x == [t |-> "Enqueue", s |-> s, ev |-> e]
<1>1. SameConn(c, d)
  BY StateSameConn DEF StateStopping
<1>2. Shaped(d)
  BY <1>1 DEF SameConn
<1>3. DoDisconnect(c, i, s) =
        IF c.sess[s].st \in {"Started", "Starting"}
        THEN IF i = IoOf(s) THEN EventEnqueue(d, s, e) ELSE Post(d, x)
        ELSE c
  BY DEF DoDisconnect, EnqueueFrom, StateStopping
<1> HIDE DEF d, e, x
<1>4. SameConn(c, EventEnqueue(d, s, e)) /\ SameConn(c, Post(d, x))
  BY <1>1, <1>2, EnqueueSameConn, PostSameConn, SameConnTwice
<1>5. SameConn(c, c)
  BY DEF SameConn
<1> QED
  BY <1>3, <1>4, <1>5

LEMMA DropSameConn ==
  ASSUME NEW c, Shaped(c), NEW s \in Session
  PROVE  SameConn(c, DropCounter(c, s))
<1> DEFINE d == [c EXCEPT !.sess[s].counter = FALSE]
<1>1. SameConn(c, d)
  BY StateSameConn
<1>2. Shaped(d)
  BY <1>1 DEF SameConn
<1>3. DropCounter(c, s) \in {d, PostTo(d, 0, [t |-> "FinalStop"])}
  BY DEF DropCounter
<1> HIDE DEF d
<1>4. SameConn(c, PostTo(d, 0, [t |-> "FinalStop"]))
  BY <1>1, <1>2, PostSameConn, SameConnTwice
<1> QED
  BY <1>1, <1>3, <1>4

LEMMA EraseSameConn ==
  ASSUME NEW c, Shaped(c), NEW x, x.s \in Session
  PROVE  SameConn(c, Erase(c, x))
<1> DEFINE d == [c EXCEPT !.sess[x.s].reg = FALSE, !.sess[x.s].st = "Stopped",
                          !.sess[x.s].told = "disconnected"]
           y == [t |-> "Teardown", s |-> x.s]
<1>1. SameConn(c, d)
  BY DEF SameConn, Shaped
<1>2. Shaped(d)
  BY <1>1 DEF SameConn
<1>3. Erase(c, x) = IF c.sess[x.s].st = "Stopping" THEN Post(d, y) ELSE c
  BY DEF Erase
<1> HIDE DEF d, y
<1>4. SameConn(c, Post(d, y))
  BY <1>1, <1>2, PostSameConn, SameConnTwice
<1>5. SameConn(c, c)
  BY DEF SameConn
<1> QED
  BY <1>3, <1>4, <1>5

ConnKept ==
  \A t \in Session : sess[t].op["conn"] # "none" => sess'[t].op["conn"] # "none"

LEMMA BecomeSame ==
  ASSUME NEW d, SameConn(Here, d), Become(d)
  PROVE  ConnKept
BY DEF SameConn, ConnKept, Become, Here

LEMMA TakenShaped ==
  ASSUME Inv, NEW i
  PROVE  Shaped(Here) /\ Shaped(Taken(i)) /\ SameConn(Here, Taken(i))
<1>1. Shaped(Here)
  BY ShapedHere DEF Inv
<1>2. SameConn(Here, Taken(i))
  BY <1>1 DEF Taken, SameConn, Shaped
<1> QED
  BY <1>1, <1>2 DEF SameConn

LEMMA FirstOf ==
  ASSUME Inv, NEW i \in Io, NEW k \in SessionKind, Next1(i, k)
  PROVE  Head(strand[i]).s \in Session
<1>1. TakenFrom(i, k, Head(strand[i]), Head(strand[i]).s, Taken(i))
  BY TakenSession
<1> QED
  BY <1>1 DEF TakenFrom

LEMMA ServerStepKeeps == Inv /\ ServerStep => ConnKept
<1> SUFFICES ASSUME Inv, ServerStep PROVE ConnKept
  OBVIOUS
<1>0. /\ Shaped(Here) /\ 0 \in Io
      /\ sess \in [Session -> SessionState]
  <2>1. Here.sess \in [Session -> SessionState]
    BY DEF Inv, BooksOK
  <2> QED
    BY <2>1, TakenShaped, HomeIo DEF Here
<1>1. CASE UNCHANGED sess
  BY <1>1 DEF ConnKept
<1>2. CASE PostAccept \/ PostStop \/ FinalStop
  <2>1. Become(Taken(0))
    BY <1>2 DEF PostAccept, PostStop, FinalStop
  <2> QED
    BY <2>1, TakenShaped, BecomeSame
<1>3. CASE SessionStart
  <2>1. run.s \in Session
    BY <1>3, AtWork DEF SessionStart, At
  <2>2. \/ Become(ArmConn(Here, run.s))
        \/ Become(Post(Here, [t |-> "ArmConn", s |-> run.s]))
        \/ Become(DoDisconnect(Here, 0, run.s))
    BY <1>3 DEF SessionStart
  <2>3. CASE Become(ArmConn(Here, run.s))
    <3>1. sess' = ArmConn(Here, run.s).sess
      BY <2>3 DEF Become
    <3>2. sess'[run.s].op["conn"] = "pending" /\ \A t \in Session \ {run.s} : sess'[t] = sess[t]
      BY <1>0, <2>1, <3>1 DEF ArmConn, Here, SessionState, SessionOp
    <3> QED
      BY <3>2 DEF ConnKept
  <2> QED
    BY <1>0, <2>1, <2>2, <2>3, PostSameConn, DisconnectSameConn, BecomeSame
<1>4. CASE DoneConnect
  <2>1. run.s \in Session
    BY <1>4, AtWork DEF DoneConnect, At
  <2>2. sess' = [sess EXCEPT ![run.s] = StopConnectTimeoutTimer(@)]
    BY <1>4 DEF DoneConnect
  <2>3. StopConnectTimeoutTimer(sess[run.s]).op["conn"] = Cancel(sess[run.s].op["conn"])
    BY <1>0, <2>1 DEF StopConnectTimeoutTimer, SessionState, SessionOp
  <2> QED
    BY <1>0, <2>1, <2>2, <2>3 DEF ConnKept, Cancel
<1>5. CASE BecomeStarted
  <2>1. run.s \in Session
    BY <1>5, AtWork DEF BecomeStarted, At
  <2>2. \/ sess' = [sess EXCEPT ![run.s].st = "Started"]
        \/ Become(DoDisconnect(Here, 0, run.s))
    BY <1>5 DEF BecomeStarted
  <2>3. CASE sess' = [sess EXCEPT ![run.s].st = "Started"]
    BY <1>0, <2>1, <2>3 DEF ConnKept, SessionState
  <2> QED
    BY <1>0, <2>1, <2>2, <2>3, DisconnectSameConn, BecomeSame
<1>6. CASE FireConnect
  <2>1. run.s \in Session
    BY <1>6, AtWork DEF FireConnect, At
  <2>2. sess' = sess \/ sess' = [sess EXCEPT ![run.s].told = "connected"]
    BY <1>6 DEF FireConnect
  <2>3. CASE sess' = [sess EXCEPT ![run.s].told = "connected"]
    <3>1. \A t \in Session : sess'[t].op = sess[t].op
      BY <1>0, <2>1, <2>3 DEF SessionState
    <3> QED
      BY <3>1 DEF ConnKept
  <2> QED
    BY <1>1, <2>2, <2>3
<1>7. CASE Emplace
  <2> DEFINE c == [Here EXCEPT !.sess[run.s].reg = TRUE]
             d == Post(c, [t |-> "StartRecv", s |-> run.s])
  <2>1. run.s \in Session
    BY <1>7, AtWork DEF Emplace, At
  <2>2. Become(d)
    BY <1>7 DEF Emplace
  <2>3. SameConn(Here, c)
    BY <1>0, <2>1, StateSameConn
  <2>4. Shaped(c)
    BY <2>3 DEF SameConn
  <2> HIDE DEF c
  <2>5. SameConn(Here, d)
    BY <2>3, <2>4, PostSameConn, SameConnTwice
  <2> QED
    BY <2>2, <2>5, BecomeSame
<1>8. CASE WalkSession
  <2>1. PICK s \in Session : Become(DoDisconnect(Here, 0, s))
    BY <1>8 DEF WalkSession, Inv, ControlOK
  <2> QED
    BY <1>0, <2>1, DisconnectSameConn, BecomeSame
<1>9. CASE WalkEnd
  <2>1. Become(PostTo(Here, 0, [t |-> "FinalStop"])) \/ Become(Here)
    BY <1>9 DEF WalkEnd
  <2>2. Become(Here) => UNCHANGED sess
    BY DEF Become, Here
  <2> QED
    BY <1>0, <1>1, <2>1, <2>2, PostSameConn, BecomeSame
<1>10. CASE RunErase
  <2>1. Become(Erase(Taken(0), Head(strand[0]))) /\ Next1(0, "Erase")
    BY <1>10 DEF RunErase
  <2>2. Head(strand[0]).s \in Session
    BY <1>0, <2>1, FirstOf DEF SessionKind
  <2>3. SameConn(Here, Taken(0)) /\ Shaped(Taken(0))
    BY TakenShaped
  <2>4. SameConn(Here, Erase(Taken(0), Head(strand[0])))
    BY <2>2, <2>3, EraseSameConn, SameConnTwice
  <2> QED
    BY <2>1, <2>4, BecomeSame
<1>11. CASE AcceptRetry \/ AcceptAborted \/ CheckStarted \/ AcceptNext \/ HandleStop \/ KeepTimer
  <2>1. UNCHANGED sess
    BY <1>11 DEF AcceptRetry, AcceptAborted, CheckStarted, AcceptNext, HandleStop, KeepTimer
  <2> QED
    BY <1>1, <2>1
<1> QED
  BY <1>2, <1>3, <1>4, <1>5, <1>6, <1>7, <1>8, <1>9, <1>10, <1>11 DEF ServerStep

LEMMA SessionTaskKeeps == \A i \in Io : Inv /\ SessionTask(i) => ConnKept
<1> SUFFICES ASSUME NEW i \in Io, Inv, SessionTask(i) PROVE ConnKept
  OBVIOUS
<1> DEFINE x == Head(strand[i])
           c == Taken(i)
<1>0. Shaped(Here) /\ Shaped(c) /\ SameConn(Here, c)
  BY TakenShaped
<1>1. x.s \in Session
  <2>1. PICK k \in SessionKind : Next1(i, k)
    BY DEF SessionTask, RunEnqueue, RunArmConn, RunStartRecv, RunEvent, RunTeardown, SessionKind
  <2> QED
    BY <2>1, FirstOf
<1>2. CASE RunEnqueue(i)
  <2>1. Become(EventEnqueue(c, x.s, x.ev))
    BY <1>2 DEF RunEnqueue
  <2> HIDE DEF c, x
  <2> QED
    BY <1>0, <1>1, <2>1, EnqueueSameConn, SameConnTwice, BecomeSame
<1>3. CASE RunArmConn(i)
  <2>1. Become(ArmConn(c, x.s))
    BY <1>3 DEF RunArmConn
  <2> HIDE DEF c, x
  <2>2. sess' = ArmConn(c, x.s).sess
    BY <2>1 DEF Become
  <2>3. /\ sess'[x.s].op["conn"] = "pending"
        /\ \A t \in Session \ {x.s} : sess'[t].op["conn"] = c.sess[t].op["conn"]
    BY <1>0, <1>1, <2>2 DEF ArmConn, Shaped, SessionOp
  <2> QED
    BY <1>0, <1>1, <2>3 DEF ConnKept, SameConn, Here
<1>4. CASE RunStartRecv(i)
  <2> DEFINE d == [c EXCEPT !.sess[x.s] = StartReceiving(@)]
  <2>1. Become(d)
    BY <1>4 DEF RunStartRecv
  <2> HIDE DEF c, x
  <2>2. SameConn(c, d)
    BY <1>0, <1>1 DEF StartReceiving, SameConn, Shaped, SessionOp
  <2> HIDE DEF d
  <2> QED
    BY <1>0, <2>1, <2>2, SameConnTwice, BecomeSame
<1>5. CASE RunEvent(i)
  <2>1. \/ Become(Erase(c, x))
        \/ Become(PostTo(c, 0, [x EXCEPT !.t = "Erase"]))
    BY <1>5 DEF RunEvent
  <2> HIDE DEF c, x
  <2> QED
    BY <1>0, <1>1, <2>1, EraseSameConn, PostSameConn, SameConnTwice, BecomeSame
<1>6. CASE RunTeardown(i)
  <2> DEFINE b == [c EXCEPT !.sess[x.s] = StoppedSession(@)]
             u == DropCounter(b, x.s)
             d == NextEvent(u, x.s)
  <2>1. Become(d)
    BY <1>6 DEF RunTeardown
  <2> HIDE DEF c, x
  <2>2. /\ Shaped(b) /\ b.sess[x.s].op["conn"] = Cancel(c.sess[x.s].op["conn"])
        /\ \A t \in Session \ {x.s} : b.sess[t] = c.sess[t]
    BY <1>0, <1>1 DEF StoppedSession, Shaped, SessionOp
  <2> HIDE DEF b
  <2>3. SameConn(b, u)
    BY <1>1, <2>2, DropSameConn
  <2>4. Shaped(u)
    BY <2>3 DEF SameConn
  <2> HIDE DEF u
  <2>5. SameConn(u, d)
    BY <1>1, <2>4, NextSameConn
  <2> HIDE DEF d
  <2>6. \A t \in Session : sess'[t].op["conn"] = b.sess[t].op["conn"]
    BY <2>1, <2>3, <2>5 DEF Become, SameConn
  <2> QED
    <3> SUFFICES ASSUME NEW t \in Session, sess[t].op["conn"] # "none"
                 PROVE  sess'[t].op["conn"] # "none"
      BY DEF ConnKept
    <3>1. c.sess[t].op["conn"] = sess[t].op["conn"]
      BY <1>0, <1>1 DEF SameConn, Here
    <3>2. CASE t = x.s
      BY <2>2, <2>6, <3>1, <3>2 DEF Cancel
    <3>3. CASE t # x.s
      BY <2>2, <2>6, <3>1, <3>3
    <3> QED
      BY <3>2, <3>3
<1> QED
  BY <1>2, <1>3, <1>4, <1>5, <1>6 DEF SessionTask

LEMMA SessionEndKeeps ==
  \A s \in Session : Inv /\ (SilenceTimer(s) \/ Recv(s) \/ Write(s) \/ Kill(s)) => ConnKept
<1> SUFFICES ASSUME NEW s \in Session, Inv,
                    SilenceTimer(s) \/ Recv(s) \/ Write(s) \/ Kill(s)
             PROVE  ConnKept
  OBVIOUS
<1>0. Shaped(Here)
  BY TakenShaped
<1>1. \A k \in SessionOp \ {"conn"} : SameConn(Here, Ended(s, k)) /\ Shaped(Ended(s, k))
  BY <1>0, OpSameConn DEF Ended, SameConn
<1>2. \A k \in SessionOp \ {"conn"} : SameConn(Here, Disconnected(Ended(s, k), s))
  BY <1>1, DisconnectSameConn, SameConnTwice DEF Disconnected
<1>3. {"silence", "recv", "write"} \subseteq SessionOp \ {"conn"}
  BY DEF SessionOp
<1>4. CASE SilenceTimer(s)
  <2>1. \/ Become(Ended(s, "silence")) \/ Become(Disconnected(Ended(s, "silence"), s))
        \/ Become([Here EXCEPT !.sess[s].op["silence"] = "pending"])
    BY <1>4 DEF SilenceTimer
  <2>2. SameConn(Here, [Here EXCEPT !.sess[s].op["silence"] = "pending"])
    BY <1>0, <1>3, OpSameConn
  <2> QED
    BY <1>1, <1>2, <1>3, <2>1, <2>2, BecomeSame
<1>5. CASE Recv(s)
  <2>1. \/ Become(Disconnected(Ended(s, "recv"), s))
        \/ Become(EventEnqueue(Here, s, [t |-> "send"]))
    BY <1>5 DEF Recv
  <2> QED
    BY <1>0, <1>2, <1>3, <2>1, EnqueueSameConn, BecomeSame
<1>6. CASE Write(s)
  <2>1. PICK c \in {Ended(s, "write"), Disconnected(Ended(s, "write"), s)} :
          Become(NextEvent(c, s))
    BY <1>6 DEF Write
  <2>2. SameConn(Here, c) /\ Shaped(c)
    BY <1>1, <1>2, <1>3 DEF SameConn
  <2> QED
    BY <2>1, <2>2, NextSameConn, SameConnTwice, BecomeSame
<1>7. CASE Kill(s)
  BY <1>0, <1>7, DisconnectSameConn, BecomeSame DEF Kill
<1> QED
  BY <1>4, <1>5, <1>6, <1>7

\* The handler of the timer itself.
LEMMA ConnTimerKeeps ==
  ASSUME Inv, NEW s \in Session, ConnTimer(s), NEW t \in Session,
         sess[t].op["conn"] # "none", sess'[t].op["conn"] = "none", sess[t].st = "Started"
  PROVE  sess'[t].st = "Started"
<1> DEFINE c == Ended(s, "conn")
           d == TimesOut(c, s)
           e == Uncanceled(c, s)
           u == Uncanceled(d, s)
<1>0. Shaped(Here) /\ SessionInv(Here, t, run)
  BY TakenShaped DEF Inv, SessionsInv
<1>1. /\ Shaped(c) /\ Shaped(d)
      /\ \A o \in Session \ {s} : c.sess[o] = Here.sess[o] /\ d.sess[o] = Here.sess[o]
      /\ \A o \in Session \ {s} : e.sess[o] = Here.sess[o] /\ u.sess[o] = Here.sess[o]
      /\ e.sess[s].st = Here.sess[s].st /\ u.sess[s].st = Here.sess[s].st
  BY <1>0 DEF Ended, TimesOut, Uncanceled, Shaped, SessionOp
<1>2. Become(e) \/ Become(u) \/ (~sess[s].connCanceled /\ Become(Disconnected(d, s)))
  BY DEF ConnTimer, TimesOut, Uncanceled
<1> HIDE DEF c, d, e, u
<1>3. CASE t # s
  <2>1. SameConn(d, Disconnected(d, s))
    BY <1>1, DisconnectSameConn DEF Disconnected
  <2>2. sess'[t].op["conn"] = sess[t].op["conn"]
    BY <1>1, <1>2, <1>3, <2>1 DEF Become, SameConn, Here
  <2> QED
    BY <2>2
<1>4. CASE t = s
  <2>1. sess[s].connCanceled
    BY <1>0, <1>4 DEF SessionInv, Timeout, Here
  <2> QED
    BY <1>1, <1>2, <1>4, <2>1 DEF Become, Here
<1> QED
  BY <1>3, <1>4

\* HandleConnectTimeoutTimer, queued when DoneConnect cancels the timer or armed
\* behind its back on another io, does not disconnect a session that is Started:
\* whenever there is such a timer, connect_timeout_timer_canceled_ is set.
THEOREM TimeoutSparesStarted == Spec => ConnectedIsNotTimedOut
<1> DEFINE Spared == \A s \in Session :
             sess[s].op["conn"] # "none" /\ sess'[s].op["conn"] = "none"
               /\ sess[s].st = "Started" => sess'[s].st = "Started"
<1>1. ConnKept => Spared
  BY DEF ConnKept
<1>2. UNCHANGED sess => Spared
  OBVIOUS
<1>3. Inv /\ Next => Spared
  <2> SUFFICES ASSUME Inv, Next PROVE Spared
    OBVIOUS
  <2>1. CASE StartCall \/ StopCall \/ StartFails \/ ApiStep \/ AcceptFails
    <3>1. UNCHANGED sess
      BY <2>1 DEF StartCall, StopCall, StartFails, ApiStep, AcceptFails, StopPool, StopReturn,
           StartPool, StartListen, StartAccept
    <3> QED
      BY <3>1, <1>2
  <2>2. CASE Accept
    <3>1. /\ srv.made \in Session
          /\ \/ UNCHANGED sess
             \/ sess' = [sess EXCEPT ![srv.made] = AcceptedSession(srv.made)]
      BY <2>2 DEF Accept
    <3>2. sess \in [Session -> SessionState]
      <4>1. Here.sess \in [Session -> SessionState]
        BY DEF Inv, BooksOK
      <4> QED
        BY <4>1 DEF Here
    <3>3. CASE sess' = [sess EXCEPT ![srv.made] = AcceptedSession(srv.made)]
      <4>1. AcceptedSession(srv.made).op = sess[srv.made].op
        BY <3>1, <3>2 DEF AcceptedSession, SessionState
      <4>2. \A t \in Session : sess'[t].op = sess[t].op
        BY <3>1, <3>2, <3>3, <4>1
      <4> QED
        BY <1>1, <4>2 DEF ConnKept
    <3> QED
      BY <1>2, <3>1, <3>3
  <2>3. CASE ServerStep
    BY <2>3, <1>1, ServerStepKeeps
  <2>4. ASSUME NEW i \in Io, SessionTask(i) PROVE Spared
    BY <2>4, <1>1, SessionTaskKeeps
  <2>5. ASSUME NEW i \in Io, ThreadExit(i) PROVE Spared
    BY <2>5, <1>2 DEF ThreadExit
  <2>6. ASSUME NEW s \in Session, SilenceTimer(s) \/ Recv(s) \/ Write(s) \/ Kill(s)
        PROVE  Spared
    BY <2>6, <1>1, SessionEndKeeps
  <2>7. ASSUME NEW s \in Session, ConnTimer(s) PROVE Spared
    BY <2>7, ConnTimerKeeps
  <2> QED
    BY <2>1, <2>2, <2>3, <2>4, <2>5, <2>6, <2>7 DEF Next, SessionEnd
<1>4. UNCHANGED vars => Spared
  BY <1>2 DEF vars
<1>5. Inv /\ [Next]_vars => [Spared]_vars
  BY <1>3, <1>4
<1> HIDE DEF Spared
<1>6. Spec => [][Spared]_vars
  BY Invariance, <1>5, PTL DEF Spec
<1> QED
  BY <1>6 DEF ConnectedIsNotTimedOut, Spared
=============================================================================
