----------------------- MODULE TcpClientAttemptProofs -----------------------
(***************************************************************************)
(* TLAPS proofs that the attempts of a TcpClient to connect never overlap, *)
(* as long as calls of Start and Stop do not, and nothing is sent: no      *)
(* assertion fails, no two operations of a kind are pending, and the       *)
(* listener hears "connected" once.                                        *)
(*                                                                         *)
(* An attempt, and the reading that follows a successful one, is always in *)
(* one place: in a call of Start, in a task, an operation or its end, in   *)
(* the event of a reconnection, or inside DoneConnect.  The proof counts   *)
(* the places.                                                             *)
(*                                                                         *)
(* The last part counts them kind by kind for a client that does not       *)
(* reconnect, sends or not, and proves that run() of the io pool returns   *)
(* only when the client is Stopped and nothing of it is left.              *)
(***************************************************************************)
EXTENDS TcpClientDisconnectProofs

Reconnecting == Simple("reconnect")
Sending == Simple("send")

\* Tasks that an attempt to connect goes on with, and those of a connection
\* that is read.
Trying ==
  {Simple("Resolve"), [t |-> "Event", ev |-> Reconnecting]}
    \cup {x \in Completion : x.op \in {"resolve", "connect"}}
Reading == {Simple("StartRecv")} \cup {x \in Completion : x.op = "recv"}

\* What is counted: the trying only, or the reading as well.
Counts(r) == r \in {"trying", "any"}
Tokens(r) == IF r = "any" THEN Trying \cup Reading ELSE Trying
Reads(c, r) == IF r = "any" THEN c.ops["recv"] ELSE 0
Waiting(c) ==
  IF c.events = <<>> THEN 0 ELSE Among(Tail(c.events), {Reconnecting})
Count(c, r) ==
  Among(c.strand, Tokens(r)) + Among(c.ready, Tokens(r))
    + c.ops["resolve"] + c.ops["connect"] + Reads(c, r) + Waiting(c)

Timers == ConnectTimer \cup ReconnectTimer

\* Tasks that never occur: nothing is sent, and the event of a reconnection is
\* enqueued on the strand.
Absent ==
  {x \in Completion : x.op = "send"}
    \cup {x \in Task : x.t = "Enqueue" /\ x.ev \in {Sending, Reconnecting}}

Silent(c) ==
  /\ NoneOf(c.events, {Sending}) /\ c.ops["send"] = 0
  /\ NoneOf(c.strand, Absent) /\ NoneOf(c.ready, Absent)

\* At most n places of an attempt or a reading, m of an attempt.
Bound(c, n, m) ==
  /\ c \in Io /\ Silent(c)
  /\ \A k \in Timers : c.ops[k] <= 1
  /\ Count(c, "any") <= n /\ Count(c, "trying") <= m

-----------------------------------------------------------------------------
(* Counting.                                                               *)

LEMMA AmongConcat ==
  ASSUME NEW S, NEW s \in Seq(S), NEW u \in Seq(S), NEW M, NoneOf(u, M)
  PROVE  Among(s \o u, M) = Among(s, M)
<1> DEFINE v == s \o u
<1>1. /\ Len(s) \in Nat /\ Len(u) \in Nat /\ DOMAIN s = 1..Len(s)
      /\ DOMAIN v = 1..(Len(s) + Len(u))
      /\ \A i \in DOMAIN s : v[i] = s[i]
      /\ \A i \in DOMAIN v : i \notin DOMAIN s => i - Len(s) \in DOMAIN u /\ v[i] = u[i - Len(s)]
  OBVIOUS
<1> HIDE DEF v
<1>2. \A i \in DOMAIN v : v[i] \in M => i \in DOMAIN s /\ s[i] \in M
  BY <1>1 DEF NoneOf
<1>3. \A i \in DOMAIN s : i \in DOMAIN v
  BY <1>1
<1>4. NoneOf(v, M) <=> NoneOf(s, M)
  BY <1>1, <1>2, <1>3 DEF NoneOf
<1>5. OneOf(v, M) <=> OneOf(s, M)
  BY <1>1, <1>2, <1>3 DEF OneOf
<1> QED
  BY <1>4, <1>5 DEF Among, v

LEMMA AmongSubset ==
  ASSUME NEW s, NEW M, NEW N, M \subseteq N
  PROVE  Among(s, M) <= Among(s, N)
<1>1. NoneOf(s, N) => NoneOf(s, M)
  BY DEF NoneOf
<1>2. OneOf(s, N) => NoneOf(s, M) \/ OneOf(s, M)
  BY DEF OneOf, NoneOf
<1> QED
  BY <1>1, <1>2 DEF Among

LEMMA CountNat ==
  ASSUME NEW c \in Io, NEW r, Counts(r)
  PROVE  /\ Count(c, r) \in Nat /\ Reads(c, r) \in Nat /\ Waiting(c) \in Nat
         /\ Among(c.strand, Tokens(r)) \in Nat /\ Among(c.ready, Tokens(r)) \in Nat
         /\ \A k \in OpKind : c.ops[k] \in Nat
         /\ "resolve" \in OpKind /\ "connect" \in OpKind /\ "recv" \in OpKind
         /\ \A b : One(b) \in 0..1
<1>1. \A k \in OpKind : c.ops[k] \in Nat
  BY DEF Io
<1>2. /\ Among(c.strand, Tokens(r)) \in Nat /\ Among(c.ready, Tokens(r)) \in Nat
      /\ Waiting(c) \in Nat
  BY AmongNat DEF Waiting
<1>3. Reads(c, r) \in Nat
  BY <1>1, OpTypes DEF Reads
<1> QED
  BY <1>1, <1>2, <1>3, OpTypes DEF Count, One

LEMMA FewerTry ==
  ASSUME NEW c \in Io
  PROVE  Count(c, "trying") <= Count(c, "any")
<1>1. Tokens("trying") \subseteq Tokens("any")
  BY DEF Tokens
<1>2. /\ Among(c.strand, Tokens("trying")) <= Among(c.strand, Tokens("any"))
      /\ Among(c.ready, Tokens("trying")) <= Among(c.ready, Tokens("any"))
  BY <1>1, AmongSubset
<1>3. Reads(c, "trying") <= Reads(c, "any")
  BY CountNat, OpTypes DEF Reads, Counts
<1>4. ASSUME NEW r, Counts(r)
      PROVE  /\ Among(c.strand, Tokens(r)) \in Nat /\ Among(c.ready, Tokens(r)) \in Nat
             /\ c.ops["resolve"] \in Nat /\ c.ops["connect"] \in Nat /\ Reads(c, r) \in Nat
             /\ Waiting(c) \in Nat
  BY <1>4, CountNat, OpTypes
<1>5. Counts("any") /\ Counts("trying")
  BY DEF Counts
<1>6. Waiting(c) \in Nat /\ c.ops["resolve"] \in Nat /\ c.ops["connect"] \in Nat
  BY <1>4, <1>5
<1> DEFINE a(r) == Among(c.strand, Tokens(r))
           b(r) == Among(c.ready, Tokens(r))
           d(r) == Reads(c, r)
<1>7. ASSUME NEW r, Counts(r) PROVE a(r) \in Nat /\ b(r) \in Nat /\ d(r) \in Nat
  BY <1>4, <1>7
<1>8. a("trying") <= a("any") /\ b("trying") <= b("any") /\ d("trying") <= d("any")
  BY <1>2, <1>3
<1>9. \A r : Count(c, r) = a(r) + b(r) + c.ops["resolve"] + c.ops["connect"] + d(r) + Waiting(c)
  BY DEF Count
<1> HIDE DEF a, b, d
<1> QED
  BY <1>5, <1>6, <1>7, <1>8, <1>9

\* A count may be given with room to spare; nothing tries where nothing is.
LEMMA BoundLess ==
  ASSUME NEW c, NEW n \in Nat, NEW m \in Nat, Bound(c, n, m)
  PROVE  /\ \A k \in Nat, l \in Nat : n <= k /\ m <= l => Bound(c, k, l)
         /\ n = 0 => Bound(c, 0, 0)
         /\ Bound(c, n, n)
<1>1. Count(c, "any") \in Nat /\ Count(c, "trying") \in Nat /\ Count(c, "trying") <= Count(c, "any")
  BY CountNat, FewerTry DEF Bound, Counts
<1>2. Count(c, "trying") <= n /\ (n = 0 => Count(c, "any") <= 0 /\ Count(c, "trying") <= 0)
  BY <1>1 DEF Bound
<1>3. \A k \in Nat, l \in Nat : n <= k /\ m <= l =>
        Count(c, "any") <= k /\ Count(c, "trying") <= l
  BY <1>1 DEF Bound
<1> QED
  BY <1>2, <1>3 DEF Bound

Kinds(r) == {"resolve", "connect"} \cup (IF r = "any" THEN {"recv"} ELSE {})

\* The six summands of a count, as numbers.
LEMMA Summands ==
  ASSUME NEW c \in Io, NEW r, Counts(r)
  PROVE  /\ Among(c.strand, Tokens(r)) \in Nat /\ Among(c.ready, Tokens(r)) \in Nat
         /\ c.ops["resolve"] \in Nat /\ c.ops["connect"] \in Nat /\ c.ops["recv"] \in Nat
         /\ Reads(c, r) \in Nat /\ Waiting(c) \in Nat
         /\ Count(c, r) = Among(c.strand, Tokens(r)) + Among(c.ready, Tokens(r))
              + c.ops["resolve"] + c.ops["connect"] + Reads(c, r) + Waiting(c)
BY CountNat, OpTypes DEF Count

LEMMA PostCount ==
  ASSUME NEW c \in Io, NEW x \in Task, NEW r, Counts(r), Count(c, r) + One(x \in Tokens(r)) <= 1
  PROVE  Count(Post(c, x), r) = Count(c, r) + One(x \in Tokens(r))
<1> DEFINE d == Post(c, x)
           p == One(x \in Tokens(r))
<1>1. /\ d.strand = Append(c.strand, x) /\ d.ready = c.ready /\ d.ops = c.ops
      /\ d.events = c.events /\ c.strand \in Seq(Task) /\ d \in Io
  BY PostType DEF Post, Io
<1>2. p \in Nat
  BY DEF One
<1> HIDE DEF d
<1>3. Among(c.strand, Tokens(r)) + p <= 1
  BY <1>2, Summands
<1>4. Among(d.strand, Tokens(r)) = Among(c.strand, Tokens(r)) + p
  BY <1>1, <1>3, AmongAppend
<1>5. Reads(d, r) = Reads(c, r) /\ Waiting(d) = Waiting(c)
  BY <1>1 DEF Reads, Waiting
<1> HIDE DEF p
<1>6. Count(d, r) = Count(c, r) + p
  <2> DEFINE a == Among(c.strand, Tokens(r))
  <2>1. a \in Nat /\ Count(c, r) = a + Among(c.ready, Tokens(r))
              + c.ops["resolve"] + c.ops["connect"] + Reads(c, r) + Waiting(c)
    BY Summands
  <2>2. Count(d, r) = (a + p) + Among(c.ready, Tokens(r))
              + c.ops["resolve"] + c.ops["connect"] + Reads(c, r) + Waiting(c)
    BY <1>1, <1>4, <1>5, Summands
  <2> HIDE DEF a
  <2> QED
    BY <1>2, <2>1, <2>2, Summands
<1> QED
  BY <1>6 DEF d, p

LEMMA ReadyCount ==
  ASSUME NEW c \in Io, NEW x \in Completion, NEW r, Counts(r),
         Count(c, r) + One(x \in Tokens(r)) <= 1
  PROVE  Count([c EXCEPT !.ready = Append(@, x)], r) = Count(c, r) + One(x \in Tokens(r))
<1> DEFINE d == [c EXCEPT !.ready = Append(@, x)]
           p == One(x \in Tokens(r))
<1>1. Append(c.ready, x) \in Seq(Completion) /\ c.ready \in Seq(Completion)
  BY SeqFacts DEF Io
<1>2. /\ d.strand = c.strand /\ d.ready = Append(c.ready, x) /\ d.ops = c.ops
      /\ d.events = c.events /\ d \in Io
  BY <1>1 DEF Io
<1>3. p \in Nat
  BY DEF One
<1> HIDE DEF d
<1>4. Among(c.ready, Tokens(r)) + p <= 1
  BY <1>3, Summands
<1>5. Among(d.ready, Tokens(r)) = Among(c.ready, Tokens(r)) + p
  BY <1>1, <1>2, <1>4, AmongAppend
<1>6. Reads(d, r) = Reads(c, r) /\ Waiting(d) = Waiting(c)
  BY <1>2 DEF Reads, Waiting
<1> HIDE DEF p
<1>7. Count(d, r) = Count(c, r) + p
  <2> DEFINE a == Among(c.ready, Tokens(r))
  <2>1. a \in Nat /\ Count(c, r) = Among(c.strand, Tokens(r)) + a
              + c.ops["resolve"] + c.ops["connect"] + Reads(c, r) + Waiting(c)
    BY Summands
  <2>2. Count(d, r) = Among(c.strand, Tokens(r)) + (a + p)
              + c.ops["resolve"] + c.ops["connect"] + Reads(c, r) + Waiting(c)
    BY <1>2, <1>5, <1>6, Summands
  <2> HIDE DEF a
  <2> QED
    BY <1>3, <2>1, <2>2, Summands
<1> QED
  BY <1>7 DEF d, p

LEMMA OpsCount ==
  ASSUME NEW c \in Io, NEW k \in OpKind, NEW q \in Nat, NEW r, Counts(r)
  PROVE  LET d == [c EXCEPT !.ops[k] = q]
         IN  /\ d \in Io /\ d.ops[k] = q /\ \A j \in OpKind : j # k => d.ops[j] = c.ops[j]
             /\ d.strand = c.strand /\ d.ready = c.ready /\ d.events = c.events
             /\ Count(d, r) = IF k \in Kinds(r) THEN Count(c, r) - c.ops[k] + q ELSE Count(c, r)
<1> DEFINE d == [c EXCEPT !.ops[k] = q]
<1>1. /\ d \in Io /\ d.ops[k] = q /\ \A j \in OpKind : j # k => d.ops[j] = c.ops[j]
      /\ d.strand = c.strand /\ d.ready = c.ready /\ d.events = c.events
  BY OpsType DEF Io
<1> HIDE DEF d
<1>2. Waiting(d) = Waiting(c)
  BY <1>1 DEF Waiting
<1>3. Count(d, r) = IF k \in Kinds(r) THEN Count(c, r) - c.ops[k] + q ELSE Count(c, r)
  <2>1. CASE k = "resolve"
    BY <1>1, <1>2, <2>1, Summands, OpTypes DEF Kinds, Reads
  <2>2. CASE k = "connect"
    BY <1>1, <1>2, <2>2, Summands, OpTypes DEF Kinds, Reads
  <2>3. CASE k = "recv"
    BY <1>1, <1>2, <2>3, Summands, OpTypes DEF Kinds, Reads, Counts
  <2>4. CASE k \notin {"resolve", "connect", "recv"}
    BY <1>1, <1>2, <2>4, Summands, OpTypes DEF Kinds, Reads
  <2> QED
    BY <2>1, <2>2, <2>3, <2>4
<1> QED
  BY <1>1, <1>3 DEF d

\* The end of an operation is counted like the operation.
LEMMA DoneTokens ==
  ASSUME NEW k \in OpKind, NEW ec \in ErrorCode, NEW r, Counts(r)
  PROVE  /\ Done(k, ec) \in Completion /\ Done(k, ec) \in Task
         /\ Done(k, ec) \in Tokens(r) <=> k \in Kinds(r)
         /\ k # "send" => Done(k, ec) \notin Absent
<1>1. Done(k, ec) \in Completion /\ Done(k, ec).op = k /\ Done(k, ec).t = "Done"
  BY DEF Done, Completion
<1> QED
  BY <1>1 DEF Tokens, Trying, Reading, Kinds, Absent, Task, Simple

-----------------------------------------------------------------------------
(* What the operators of the model do to a bound.                          *)

LEMMA OneFacts ==
  /\ \A b : One(b) \in 0..1
  /\ One(TRUE) = 1 /\ One(FALSE) = 0
  /\ Tokens("trying") = Trying /\ Trying \subseteq Tokens("any")
  /\ Counts("any") /\ Counts("trying")
  /\ \A x : One(x \in Trying) <= One(x \in Tokens("any"))
BY DEF One, Tokens, Counts

LEMMA BoundSame ==
  ASSUME NEW c, NEW n, NEW m, Bound(c, n, m), NEW d \in Io,
         d.strand = c.strand, d.ready = c.ready, d.events = c.events, d.ops = c.ops
  PROVE  Bound(d, n, m)
<1>1. \A r : Count(d, r) = Count(c, r)
  BY DEF Count, Reads, Waiting
<1> QED
  BY <1>1 DEF Bound, Silent

LEMMA BoundSock ==
  ASSUME NEW c, NEW n, NEW m, Bound(c, n, m), NEW x \in {"closed", "open", "connected"}
  PROVE  Bound([c EXCEPT !.sock = x], n, m)
<1> DEFINE d == [c EXCEPT !.sock = x]
<1>1. /\ d \in Io /\ d.strand = c.strand /\ d.ready = c.ready
      /\ d.events = c.events /\ d.ops = c.ops
  BY DEF Bound, Io
<1> HIDE DEF d
<1>2. Bound(d, n, m)
  BY <1>1, BoundSame
<1> QED
  BY <1>2 DEF d

LEMMA BoundPost ==
  ASSUME NEW c, NEW n \in 0..1, NEW m \in 0..1, m <= n, Bound(c, n, m),
         NEW x \in Task, x \notin Absent, n + One(x \in Tokens("any")) <= 1
  PROVE  Bound(Post(c, x), n + One(x \in Tokens("any")), m + One(x \in Trying))
<1> DEFINE d == Post(c, x)
           p == One(x \in Tokens("any"))
           q == One(x \in Trying)
<1>1. /\ d \in Io /\ d.strand = Append(c.strand, x) /\ d.ready = c.ready
      /\ d.events = c.events /\ d.ops = c.ops /\ c.strand \in Seq(Task)
  BY PostType DEF Bound, Post, Io
<1>2. p \in 0..1 /\ q \in 0..1 /\ q <= p /\ n + p <= 1
  BY OneFacts
<1>3. /\ c \in Io /\ Count(c, "any") \in Nat /\ Count(c, "trying") \in Nat
      /\ Count(c, "any") <= n /\ Count(c, "trying") <= m
  BY CountNat, OneFacts DEF Bound
<1>4. Count(c, "any") + p <= 1 /\ Count(c, "trying") + q <= 1
  BY <1>2, <1>3
<1>5. Count(d, "any") = Count(c, "any") + p
  BY <1>3, <1>4, PostCount, OneFacts
<1>6. Count(d, "trying") = Count(c, "trying") + q
  BY <1>3, <1>4, PostCount, OneFacts
<1>7. Silent(d)
  BY <1>1, NoneAppend DEF Bound, Silent
<1> HIDE DEF d, p, q
<1>8. Bound(d, n + p, m + q)
  BY <1>1, <1>2, <1>3, <1>5, <1>6, <1>7 DEF Bound
<1> QED
  BY <1>8 DEF d, p, q

\* Tasks that are not counted.
Plain(x) == x \in Task /\ x \notin Absent /\ x \notin Tokens("any")

LEMMA BoundPlain ==
  ASSUME NEW c, NEW n \in 0..1, NEW m \in 0..1, m <= n, Bound(c, n, m), NEW x, Plain(x)
  PROVE  Bound(Post(c, x), n, m)
<1>1. One(x \in Tokens("any")) = 0 /\ One(x \in Trying) = 0
  BY OneFacts DEF Plain, One
<1> QED
  BY <1>1, BoundPost DEF Plain

LEMMA BoundToken ==
  ASSUME NEW c, Bound(c, 0, 0), NEW x \in Task, x \notin Absent
  PROVE  Bound(Post(c, x), 1, 1) /\ (x \notin Trying => Bound(Post(c, x), 1, 0))
<1> DEFINE p == One(x \in Tokens("any"))
           q == One(x \in Trying)
<1>1. p \in 0..1 /\ q \in 0..1 /\ (x \notin Trying => q = 0)
  BY OneFacts DEF One
<1>2. Bound(Post(c, x), 0 + p, 0 + q)
  BY <1>1, BoundPost
<1> HIDE DEF p, q
<1>3. Bound(Post(c, x), p, q)
  BY <1>1, <1>2
<1> QED
  BY <1>1, <1>3, BoundLess

LEMMA BoundReady ==
  ASSUME NEW c, NEW n \in 0..1, NEW m \in 0..1, m <= n, Bound(c, n, m),
         NEW x \in Completion, x \notin Absent, n + One(x \in Tokens("any")) <= 1
  PROVE  Bound([c EXCEPT !.ready = Append(@, x)],
               n + One(x \in Tokens("any")), m + One(x \in Trying))
<1> DEFINE d == [c EXCEPT !.ready = Append(@, x)]
           p == One(x \in Tokens("any"))
           q == One(x \in Trying)
<1>0. Append(c.ready, x) \in Seq(Completion) /\ c.ready \in Seq(Completion)
  BY SeqFacts DEF Bound, Io
<1>1. /\ d \in Io /\ d.ready = Append(c.ready, x) /\ d.strand = c.strand
      /\ d.events = c.events /\ d.ops = c.ops
  BY <1>0 DEF Bound, Io
<1>2. p \in 0..1 /\ q \in 0..1 /\ q <= p /\ n + p <= 1
  BY OneFacts
<1>3. /\ c \in Io /\ Count(c, "any") \in Nat /\ Count(c, "trying") \in Nat
      /\ Count(c, "any") <= n /\ Count(c, "trying") <= m
  BY CountNat, OneFacts DEF Bound
<1>4. Count(c, "any") + p <= 1 /\ Count(c, "trying") + q <= 1
  BY <1>2, <1>3
<1>5. Count(d, "any") = Count(c, "any") + p
  BY <1>3, <1>4, ReadyCount, OneFacts
<1>6. Count(d, "trying") = Count(c, "trying") + q
  BY <1>3, <1>4, ReadyCount, OneFacts
<1>7. Silent(d)
  BY <1>0, <1>1, NoneAppend DEF Bound, Silent
<1> HIDE DEF d, p, q
<1>8. Bound(d, n + p, m + q)
  BY <1>1, <1>2, <1>3, <1>5, <1>6, <1>7 DEF Bound
<1> QED
  BY <1>8 DEF d, p, q

LEMMA KindFacts ==
  /\ "any" # "trying"
  /\ \A k \in OpKind : One(k \in Kinds("trying")) <= One(k \in Kinds("any"))
  /\ Kinds("any") = {"resolve", "connect", "recv"} /\ Kinds("trying") = {"resolve", "connect"}
  /\ Kinds("any") \cap Timers = {} /\ "send" \notin Timers /\ "send" \notin Kinds("any")
  /\ Timers \subseteq OpKind /\ Kinds("any") \subseteq OpKind
BY DEF One, Kinds, Timers, ConnectTimer, ReconnectTimer, OpKind

LEMMA BoundOps ==
  ASSUME NEW c, NEW n \in 0..1, NEW m \in 0..1, m <= n, Bound(c, n, m), NEW k \in OpKind,
         NEW q \in Nat, k = "send" => q = 0, k \in Timers => q <= 1,
         NEW i \in 0..1, NEW j \in 0..1,
         k \in Kinds("any") => n - c.ops[k] + q <= i, k \notin Kinds("any") => n <= i,
         k \in Kinds("trying") => m - c.ops[k] + q <= j, k \notin Kinds("trying") => m <= j
  PROVE  Bound([c EXCEPT !.ops[k] = q], i, j)
<1> DEFINE d == [c EXCEPT !.ops[k] = q]
<1>1. /\ d \in Io /\ d.ops[k] = q /\ \A h \in OpKind : h # k => d.ops[h] = c.ops[h]
      /\ d.strand = c.strand /\ d.ready = c.ready /\ d.events = c.events
      /\ \A r : Counts(r) => Count(d, r) = IF k \in Kinds(r) THEN Count(c, r) - c.ops[k] + q
                                          ELSE Count(c, r)
  <2>1. c \in Io /\ Counts("any")
    BY OneFacts DEF Bound
  <2>2. ASSUME NEW r, Counts(r)
        PROVE  Count(d, r) = IF k \in Kinds(r) THEN Count(c, r) - c.ops[k] + q
                                               ELSE Count(c, r)
    BY <2>1, <2>2, OpsCount
  <2>3. /\ d \in Io /\ d.ops[k] = q /\ \A h \in OpKind : h # k => d.ops[h] = c.ops[h]
        /\ d.strand = c.strand /\ d.ready = c.ready /\ d.events = c.events
    BY <2>1, OpsCount
  <2> QED
    BY <2>2, <2>3
<1>2. /\ c \in Io /\ Count(c, "any") \in Nat /\ Count(c, "trying") \in Nat
      /\ Count(c, "any") <= n /\ Count(c, "trying") <= m /\ c.ops[k] \in Nat
  BY CountNat, OneFacts DEF Bound
<1> HIDE DEF d
<1>3. Count(d, "any") <= i
  <2>1. Count(d, "any") = IF k \in Kinds("any") THEN Count(c, "any") - c.ops[k] + q
                                                ELSE Count(c, "any")
    BY <1>1, OneFacts
  <2> QED
    BY <1>2, <2>1
<1>4. Count(d, "trying") <= j
  <2>1. Count(d, "trying") = IF k \in Kinds("trying") THEN Count(c, "trying") - c.ops[k] + q
                                                      ELSE Count(c, "trying")
    BY <1>1, OneFacts
  <2> QED
    BY <1>2, <2>1
<1>5. \A h \in Timers : d.ops[h] <= 1
  BY <1>1, KindFacts DEF Bound
<1>6. Silent(d)
  BY <1>1, OpTypes DEF Bound, Silent
<1>7. Bound(d, i, j)
  BY <1>1, <1>3, <1>4, <1>5, <1>6 DEF Bound
<1> QED
  BY <1>7 DEF d

\* An operation that continues an attempt, or the reading, is launched.
LEMMA BoundLaunch ==
  ASSUME NEW c, Bound(c, 0, 0), NEW k \in Kinds("any")
  PROVE  Bound(Launch(c, k), 1, 1) /\ (k = "recv" => Bound(Launch(c, k), 1, 0))
<1>1. k \in OpKind /\ k \notin Timers /\ k # "send"
  BY KindFacts
<1>2. c.ops[k] \in Nat /\ c.ops[k] + 1 \in Nat
  BY <1>1 DEF Bound, Io
<1> DEFINE q == c.ops[k] + 1
<1>3. q \in Nat /\ 0 - c.ops[k] + q = 1
  BY <1>2
<1> HIDE DEF q
<1>4. Bound([c EXCEPT !.ops[k] = q], 1, 1)
  BY <1>1, <1>3, BoundOps
<1>5. ASSUME k = "recv" PROVE Bound([c EXCEPT !.ops[k] = q], 1, 0)
  <2>1. k \notin Kinds("trying")
    BY <1>5, KindFacts
  <2>2. /\ k \in Kinds("any") => 0 - c.ops[k] + q <= 1
        /\ k \notin Kinds("any") => 0 <= 1
        /\ k \in Kinds("trying") => 0 - c.ops[k] + q <= 0
        /\ k \notin Kinds("trying") => 0 <= 0
        /\ 0 \in 0..1 /\ 1 \in 0..1 /\ 0 <= 0
    BY <1>3, <2>1
  <2>3. (k = "send" => q = 0) /\ (k \in Timers => q <= 1)
    BY <1>1
  <2> QED
    BY <1>1, <1>3, <2>2, <2>3, BoundOps
<1> QED
  BY <1>4, <1>5 DEF Launch, Bound, Io, q

\* A timer is waited for that was cancelled before.
LEMMA BoundTimer ==
  ASSUME NEW c, NEW n \in 0..1, NEW m \in 0..1, m <= n, Bound(c, n, m),
         NEW k \in Timers, c.ops[k] = 0
  PROVE  Bound(Launch(c, k), n, m)
<1>1. k \in OpKind /\ k \notin Kinds("any") /\ k \notin Kinds("trying") /\ k # "send"
  BY KindFacts
<1>2. Bound([c EXCEPT !.ops[k] = 1], n, m)
  BY <1>1, BoundOps
<1>3. Launch(c, k) = [c EXCEPT !.ops[k] = 1]
  BY <1>1 DEF Launch, Bound, Io
<1> QED
  BY <1>2, <1>3

LEMMA BoundFinish ==
  ASSUME NEW c, NEW n \in 0..1, NEW m \in 0..1, m <= n, Bound(c, n, m),
         NEW k \in OpKind, NEW ec \in ErrorCode, c.ops[k] > 0
  PROVE  Bound(Finish(c, k, ec), n, m)
<1> DEFINE d == [c EXCEPT !.ops[k] = c.ops[k] - 1]
           x == Done(k, ec)
           p == One(k \in Kinds("any"))
           q == One(k \in Kinds("trying"))
<1>1. k # "send" /\ c \in Io /\ c.ops[k] \in Nat /\ c.ops[k] - 1 \in Nat
  BY DEF Bound, Silent, Io
<1>2. /\ Count(c, "any") \in Nat /\ Count(c, "trying") \in Nat
      /\ Count(c, "any") <= n /\ Count(c, "trying") <= m
  BY CountNat, OneFacts DEF Bound
<1>3. p \in 0..1 /\ q \in 0..1 /\ q <= p /\ (p = 1 <=> k \in Kinds("any"))
      /\ (q = 1 <=> k \in Kinds("trying"))
  BY KindFacts DEF One
<1>4. p <= Count(c, "any") /\ q <= Count(c, "trying")
  <2>1. ASSUME NEW r, Counts(r), k \in Kinds(r)
        PROVE  Count(c, r) >= 1
    <3>1. Count([c EXCEPT !.ops[k] = 0], r) = Count(c, r) - c.ops[k] + 0
          /\ [c EXCEPT !.ops[k] = 0] \in Io
      BY <1>1, <2>1, OpsCount
    <3>2. Count([c EXCEPT !.ops[k] = 0], r) \in Nat /\ Count(c, r) \in Nat
      BY <1>1, <2>1, <3>1, CountNat
    <3> QED
      BY <1>1, <3>1, <3>2
  <2> QED
    BY <1>2, <1>3, <2>1, OneFacts
<1>5. n - p \in 0..1 /\ m - q \in 0..1
  BY <1>2, <1>3, <1>4
<1>6. /\ k \in Kinds("any") => n - c.ops[k] + (c.ops[k] - 1) <= n - p
      /\ k \notin Kinds("any") => n <= n - p
      /\ k \in Kinds("trying") => m - c.ops[k] + (c.ops[k] - 1) <= m - q
      /\ k \notin Kinds("trying") => m <= m - q
  BY <1>1, <1>3
<1>7. k \in Timers => c.ops[k] - 1 <= 1
  BY <1>1 DEF Bound
<1> HIDE DEF p, q
<1>8. Bound(d, n - p, m - q)
  BY <1>1, <1>5, <1>6, <1>7, BoundOps
<1>9. /\ x \in Completion /\ x \notin Absent
      /\ One(x \in Tokens("any")) = p /\ One(x \in Trying) = q
  <2>1. x \in Tokens("any") <=> k \in Kinds("any")
    BY DoneTokens, OneFacts
  <2>2. x \in Trying <=> k \in Kinds("trying")
    BY DoneTokens, OneFacts
  <2>3. x \in Completion /\ x \notin Absent
    BY <1>1, DoneTokens, OneFacts
  <2> QED
    BY <2>1, <2>2, <2>3 DEF p, q, One
<1>10. Finish(c, k, ec) = [d EXCEPT !.ready = Append(@, x)]
  BY <1>1 DEF Finish, Io
<1> HIDE DEF d, x
<1> DEFINE e == [d EXCEPT !.ready = Append(@, x)]
<1>11. PICK i \in 0..1, j \in 0..1 : i = n - p /\ j = m - q
  BY <1>5
<1>12. Bound(d, i, j)
  BY <1>8, <1>11
<1>13. i + p = n /\ j + q = m /\ i + p <= 1
  BY <1>2, <1>3, <1>11
<1>14. CASE j <= i
  <2>1. Bound(e, i + One(x \in Tokens("any")), j + One(x \in Trying))
    BY <1>9, <1>12, <1>13, <1>14, BoundReady
  <2>2. Bound(e, i + p, j + q)
    BY <1>9, <2>1
  <2> QED
    BY <1>10, <1>13, <2>2
<1>15. CASE ~(j <= i)
  <2>1. i = 0 /\ j = 1
    BY <1>15
  <2>2. Bound(d, 0, 0)
    BY <1>12, <2>1, BoundLess
  <2>3. 0 + p <= 1 /\ p <= n /\ q <= m
    BY <1>2, <1>3, <1>4
  <2>4. Bound(e, 0 + One(x \in Tokens("any")), 0 + One(x \in Trying))
    BY <1>9, <2>2, <2>3, BoundReady
  <2>5. Bound(e, 0 + p, 0 + q)
    BY <1>9, <2>4
  <2> HIDE DEF e
  <2>6. Bound(e, n, m)
    BY <1>3, <2>3, <2>5, BoundLess
  <2> QED
    BY <1>10, <2>6 DEF e
<1> QED
  BY <1>14, <1>15

\* Adding a sequence of one element is appending it.
LEMMA AppendOne ==
  ASSUME NEW S, NEW q \in Seq(S), NEW x \in S
  PROVE  q \o <<x>> = Append(q, x)
OBVIOUS

LEMMA BoundAbort ==
  ASSUME NEW c, NEW n \in 0..1, NEW m \in 0..1, m <= n, Bound(c, n, m), NEW k \in OpKind
  PROVE  Bound(Abort(c, k), n, m)
<1> DEFINE s == [i \in 1..c.ops[k] |-> Done(k, "aborted")]
           d == [c EXCEPT !.ops[k] = 0]
           e == Abort(c, k)
<1>0. "aborted" \in ErrorCode /\ Counts("any") /\ Counts("trying") /\ 0 \in Nat
  BY DEF ErrorCode, Counts
<1>1. c \in Io /\ c.ops[k] \in Nat /\ c.ready \in Seq(Completion)
  BY DEF Bound, Io
<1>2. Done(k, "aborted") \in Completion /\ (k # "send" => Done(k, "aborted") \notin Absent)
  BY <1>0, DoneTokens
<1>3. s \in Seq(Completion) /\ (k = "send" => s = <<>>) /\ c.ready \o s \in Seq(Completion)
  BY <1>1, <1>2 DEF Bound, Silent
<1>4. /\ d \in Io /\ d.strand = c.strand /\ d.ready = c.ready /\ d.events = c.events
      /\ Count(d, "any") = IF k \in Kinds("any") THEN Count(c, "any") - c.ops[k] + 0
                                                 ELSE Count(c, "any")
  BY <1>0, <1>1, OpsCount
<1>5. e = [d EXCEPT !.ready = c.ready \o s]
  BY <1>1 DEF Abort, Io
<1>6. /\ e \in Io /\ e.strand = c.strand /\ e.events = c.events /\ e.ops = d.ops
      /\ e.ready = c.ready \o s
  BY <1>3, <1>4, <1>5 DEF Io
<1>7. \A i \in DOMAIN s : s[i] = Done(k, "aborted") /\ c.ops[k] > 0
  BY <1>1
<1>8. CASE k \in Kinds("any") /\ c.ops[k] > 0
  <2>1. c.ops[k] = 1
    <3>2. Count(d, "any") \in Nat /\ Count(c, "any") \in Nat /\ Count(c, "any") <= 1
      <4>1. Count(d, "any") \in Nat /\ Count(c, "any") \in Nat
        BY <1>0, <1>1, <1>4, CountNat
      <4>2. Count(c, "any") <= n
        BY DEF Bound
      <4> QED
        BY <4>1, <4>2
    <3> HIDE DEF d
    <3> QED
      BY <1>1, <1>4, <1>8, <3>2
  <2>2. s = <<Done(k, "aborted")>>
    BY <2>1
  <2>3. c.ready \o s = Append(c.ready, Done(k, "aborted"))
    BY <1>1, <1>2, <2>2, AppendOne
  <2>4. d = [c EXCEPT !.ops[k] = c.ops[k] - 1]
    BY <2>1
  <2>5. e = Finish(c, k, "aborted")
    BY <1>1, <1>5, <2>3, <2>4 DEF Finish, Io
  <2>6. Bound(Finish(c, k, "aborted"), n, m)
    BY <1>0, <1>8, BoundFinish
  <2> QED
    BY <2>5, <2>6
<1>9. CASE ~(k \in Kinds("any") /\ c.ops[k] > 0)
  <2>1. Bound(d, n, m)
    <3>1. /\ k \in Kinds("any") => n - c.ops[k] + 0 <= n
          /\ k \in Kinds("trying") => m - c.ops[k] + 0 <= m
          /\ n <= n /\ m <= m /\ (k \in Timers => 0 <= 1) /\ 0 \in Nat
      BY <1>1
    <3> QED
      BY <3>1, BoundOps
  <2>2. ASSUME NEW r, Counts(r) PROVE NoneOf(s, Tokens(r))
    <3>1. CASE c.ops[k] > 0
      <4>1. k \notin Kinds(r)
        BY <1>9, <2>2, <3>1, KindFacts DEF Counts
      <4>2. Done(k, "aborted") \notin Tokens(r)
        BY <1>0, <2>2, <4>1, DoneTokens
      <4> QED
        BY <1>7, <4>2 DEF NoneOf
    <3>2. CASE ~(c.ops[k] > 0)
      BY <1>7, <3>2 DEF NoneOf
    <3> QED
      BY <3>1, <3>2
  <2> HIDE DEF d, e, s
  <2>3. ASSUME NEW r, Counts(r) PROVE Count(e, r) = Count(d, r)
    <3>1. Among(c.ready \o s, Tokens(r)) = Among(c.ready, Tokens(r))
      BY <1>1, <1>3, <2>2, <2>3, AmongConcat
    <3> QED
      BY <1>4, <1>6, <3>1 DEF Count, Reads, Waiting
  <2>4. NoneOf(s, Absent)
    <3>1. CASE k = "send"
      BY <1>3, <3>1 DEF NoneOf
    <3>2. CASE k # "send"
      BY <1>2, <1>7, <3>2 DEF NoneOf
    <3> QED
      BY <3>1, <3>2
  <2>5. NoneOf(c.ready \o s, Absent)
    <3>1. Among(c.ready \o s, Absent) = Among(c.ready, Absent)
      BY <1>1, <1>3, <2>4, AmongConcat
    <3>2. NoneOf(c.ready, Absent)
      BY DEF Bound, Silent
    <3> QED
      BY <3>1, <3>2 DEF Among
  <2>6. Silent(e)
    BY <1>4, <1>6, <2>1, <2>5 DEF Bound, Silent
  <2>7. Count(e, "any") = Count(d, "any") /\ Count(e, "trying") = Count(d, "trying")
    BY <1>0, <2>3
  <2>8. Bound(e, n, m)
    BY <1>6, <2>1, <2>6, <2>7 DEF Bound
  <2> QED
    BY <2>8 DEF e
<1> QED
  BY <1>8, <1>9

LEMMA AbortEnds ==
  ASSUME NEW c \in Io, NEW k \in OpKind
  PROVE  Abort(c, k).ops[k] = 0 /\ \A j \in OpKind : c.ops[j] = 0 => Abort(c, k).ops[j] = 0
BY DEF Abort, Io

LEMMA BoundClose ==
  ASSUME NEW c, NEW n \in 0..1, NEW m \in 0..1, m <= n, Bound(c, n, m)
  PROVE  /\ Bound(CloseSocket(c), n, m)
         /\ Bound(CancelConnectTimer(c), n, m) /\ Bound(CancelReconnectTimer(c), n, m)
         /\ \A k \in ReconnectTimer : Bound(ArmReconnectTimer(c, k), n, m)
         /\ \A k \in ConnectTimer : Bound(Launch(CancelConnectTimer(c), k), n, m)
<1>1. ASSUME NEW j \in OpKind, NEW k \in OpKind
      PROVE  /\ Bound(Abort(Abort(c, j), k), n, m)
             /\ Abort(Abort(c, j), k).ops[j] = 0 /\ Abort(Abort(c, j), k).ops[k] = 0
  <2>1. Bound(Abort(c, j), n, m)
    BY BoundAbort
  <2>2. c \in Io /\ Abort(c, j) \in Io
    BY <2>1 DEF Bound
  <2> QED
    BY <2>1, <2>2, BoundAbort, AbortEnds
<1> DEFINE d == Abort(Abort(c, "connect"), "recv")
           e == Abort(d, "send")
<1>2. Bound(d, n, m)
  BY <1>1, OpTypes
<1>3. CloseSocket(c) = [e EXCEPT !.sock = "closed"]
  BY DEF CloseSocket
<1> HIDE DEF d
<1>4. Bound(e, n, m)
  BY <1>2, OpTypes, BoundAbort
<1> HIDE DEF e
<1>5. Bound(CloseSocket(c), n, m)
  <2>1. "closed" \in {"closed", "open", "connected"}
    OBVIOUS
  <2>2. Bound([e EXCEPT !.sock = "closed"], n, m)
    BY <1>4, <2>1, BoundSock
  <2> QED
    BY <1>3, <2>2
<1>6. /\ Bound(CancelConnectTimer(c), n, m) /\ Bound(CancelReconnectTimer(c), n, m)
      /\ \A k \in ConnectTimer : CancelConnectTimer(c).ops[k] = 0
      /\ \A k \in ReconnectTimer : CancelReconnectTimer(c).ops[k] = 0
  BY <1>1, OpTypes DEF CancelConnectTimer, CancelReconnectTimer, ConnectTimer, ReconnectTimer
<1>7. \A k \in ReconnectTimer : Bound(ArmReconnectTimer(c, k), n, m)
  BY <1>6, BoundTimer DEF ArmReconnectTimer, Timers
<1>8. \A k \in ConnectTimer : Bound(Launch(CancelConnectTimer(c), k), n, m)
  BY <1>6, BoundTimer DEF Timers
<1> QED
  BY <1>5, <1>6, <1>7, <1>8

LEMMA CountWaiting ==
  ASSUME NEW c \in Io, NEW d \in Io, NEW r, Counts(r), d.strand = c.strand,
         d.ready = c.ready, d.ops = c.ops, Reads(d, r) = Reads(c, r)
  PROVE  Count(d, r) = Count(c, r) - Waiting(c) + Waiting(d)
<1>1. PICK a \in Nat, b \in Nat, x \in Nat, y \in Nat, z \in Nat, v \in Nat, w \in Nat :
        /\ a = Among(c.strand, Tokens(r)) /\ b = Among(c.ready, Tokens(r))
        /\ x = c.ops["resolve"] /\ y = c.ops["connect"] /\ z = Reads(c, r)
        /\ v = Waiting(c) /\ w = Waiting(d)
  BY Summands
<1>2. Count(c, r) = a + b + x + y + z + v /\ Count(d, r) = a + b + x + y + z + w
  BY <1>1 DEF Count
<1>3. a + b + x + y + z + w = (a + b + x + y + z + v) - v + w
  OBVIOUS
<1> QED
  BY <1>1, <1>2, <1>3

LEMMA WaitingLess ==
  ASSUME NEW c \in Io, NEW r, Counts(r)
  PROVE  Waiting(c) \in Nat /\ Waiting(c) <= Count(c, r) /\ Count(c, r) \in Nat
<1>1. PICK a \in Nat, b \in Nat, d \in Nat, e \in Nat, f \in Nat, w \in Nat :
        /\ a = Among(c.strand, Tokens(r)) /\ b = Among(c.ready, Tokens(r))
        /\ d = c.ops["resolve"] /\ e = c.ops["connect"] /\ f = Reads(c, r)
        /\ w = Waiting(c)
  BY Summands
<1>2. Count(c, r) = a + b + d + e + f + w
  BY <1>1 DEF Count
<1> QED
  BY <1>1, <1>2

\* The events behind the one in front are exchanged for others.
LEMMA BoundEvents ==
  ASSUME NEW c, NEW n \in 0..1, NEW m \in 0..1, Bound(c, n, m),
         NEW s \in Seq(Event), NoneOf(s, {Sending}), NEW w \in Nat,
         w = IF s = <<>> THEN 0 ELSE Among(Tail(s), {Reconnecting}),
         NEW i \in 0..1, NEW j \in 0..1, n - Waiting(c) + w <= i, m - Waiting(c) + w <= j
  PROVE  Bound([c EXCEPT !.events = s], i, j)
<1> DEFINE d == [c EXCEPT !.events = s]
<1>1. /\ d \in Io /\ d.strand = c.strand /\ d.ready = c.ready /\ d.events = s
      /\ d.ops = c.ops /\ c \in Io
  BY DEF Bound, Io
<1> HIDE DEF d
<1>2. Waiting(d) = w
  BY <1>1 DEF Waiting
<1>3. ASSUME NEW r, Counts(r)
      PROVE  Count(d, r) = Count(c, r) - Waiting(c) + w
  <2>1. Reads(d, r) = Reads(c, r)
    BY <1>1 DEF Reads
  <2> QED
    BY <1>1, <1>2, <1>3, <2>1, CountWaiting
<1>4. /\ Count(c, "any") \in Nat /\ Count(c, "trying") \in Nat /\ Waiting(c) \in Nat
      /\ Count(c, "any") <= n /\ Count(c, "trying") <= m
  BY <1>1, CountNat, OneFacts DEF Bound
<1>5. Count(d, "any") <= i
  <2>1. Count(d, "any") = Count(c, "any") - Waiting(c) + w
    BY <1>3, OneFacts
  <2> QED
    BY <1>4, <2>1
<1>6. Count(d, "trying") <= j
  <2>1. Count(d, "trying") = Count(c, "trying") - Waiting(c) + w
    BY <1>3, OneFacts
  <2> QED
    BY <1>4, <2>1
<1>7. Silent(d) /\ \A k \in Timers : d.ops[k] <= 1
  BY <1>1 DEF Bound, Silent
<1> QED
  BY <1>1, <1>5, <1>6, <1>7 DEF Bound, d

\* Its task takes the place of an event that was waiting.
LEMMA BoundRun ==
  ASSUME NEW c, NEW n \in 0..1, NEW m \in 0..1, m <= n, Bound(c, n, m), c.events # <<>>,
         n + One(Head(c.events) = Reconnecting) <= 1
  PROVE  Bound(RunFront(c), n + One(Head(c.events) = Reconnecting),
                            m + One(Head(c.events) = Reconnecting))
<1> DEFINE e == Head(c.events)
           x == [t |-> "Event", ev |-> e]
<1>1. e \in Event /\ e # Sending
  <2>1. c.events \in Seq(Event) /\ NoneOf(c.events, {Sending})
    BY DEF Bound, Silent, Io
  <2> QED
    BY <2>1, NoneTail
<1>2. e.t # "send"
  BY <1>1 DEF Event, Sending, Simple
<1>3. RunFront(c) = Post(c, x)
  BY <1>2 DEF RunFront
<1>4. x \in Task /\ x \notin Absent
  BY <1>1 DEF Task, Absent, Completion
<1>5. (x \in Trying <=> e = Reconnecting) /\ (x \in Tokens("any") <=> e = Reconnecting)
  BY DEF Trying, Reading, Tokens, Completion, Simple
<1>6. One(x \in Tokens("any")) = One(e = Reconnecting)
      /\ One(x \in Trying) = One(e = Reconnecting)
  BY <1>5 DEF One
<1> HIDE DEF e, x
<1>7. n + One(x \in Tokens("any")) <= 1
  BY <1>6 DEF e
<1>8. Bound(Post(c, x), n + One(x \in Tokens("any")), m + One(x \in Trying))
  BY <1>4, <1>7, BoundPost
<1> QED
  BY <1>3, <1>6, <1>8 DEF e

LEMMA BoundEnqueue ==
  ASSUME NEW c, NEW n \in 0..1, NEW m \in 0..1, m <= n, Bound(c, n, m),
         NEW e \in Event, e # Sending, n + One(e = Reconnecting) <= 1
  PROVE  Bound(EventEnqueue(c, e), n + One(e = Reconnecting), m + One(e = Reconnecting))
<1> DEFINE s == Append(c.events, e)
           d == [c EXCEPT !.events = s]
           p == One(e = Reconnecting)
<1>1. c \in Io /\ c.events \in Seq(Event) /\ s \in Seq(Event) /\ s # <<>>
  BY SeqFacts DEF Bound, Io
<1>2. NoneOf(s, {Sending})
  <2>1. NoneOf(c.events, {Sending}) /\ e \notin {Sending}
    BY DEF Bound, Silent
  <2> QED
    BY <1>1, <2>1, NoneAppend
<1>3. EventEnqueue(c, e) = IF c.events = <<>> THEN RunFront(d) ELSE d
  BY DEF EventEnqueue
<1>4. p \in 0..1
  BY OneFacts
<1>5. d.events = s
  BY <1>1 DEF Io
<1>6. CASE c.events = <<>>
  <2>1. Head(s) = e /\ Tail(s) = <<>>
    BY <1>1, <1>6
  <2>2. Among(Tail(s), {Reconnecting}) = 0 /\ Waiting(c) = 0
    BY <1>6, <2>1, AmongEmpty DEF Waiting
  <2> HIDE DEF s
  <2>3. Bound(d, n, m)
    <3>1. n - Waiting(c) + 0 <= n /\ m - Waiting(c) + 0 <= m /\ 0 \in Nat
      BY <2>2
    <3>2. 0 = IF s = <<>> THEN 0 ELSE Among(Tail(s), {Reconnecting})
      BY <2>2
    <3> QED
      BY <1>1, <1>2, <3>1, <3>2, BoundEvents
  <2> HIDE DEF d
  <2>4. n + One(Head(d.events) = Reconnecting) <= 1 /\ d.events # <<>>
    BY <1>1, <1>5, <2>1
  <2>5. Bound(RunFront(d), n + One(Head(d.events) = Reconnecting),
                           m + One(Head(d.events) = Reconnecting))
    BY <2>3, <2>4, BoundRun
  <2> QED
    BY <1>3, <1>5, <1>6, <2>1, <2>5
<1>7. CASE c.events # <<>>
  <2> DEFINE w == Among(Tail(s), {Reconnecting})
  <2>1. Tail(s) = Append(Tail(c.events), e) /\ Tail(c.events) \in Seq(Event)
    BY <1>1, <1>7
  <2>2. Waiting(c) = Among(Tail(c.events), {Reconnecting}) /\ Waiting(c) \in 0..2
    BY <1>7, AmongNat DEF Waiting
  <2>3. Waiting(c) <= n
    <3>1. Waiting(c) <= Count(c, "any") /\ Count(c, "any") \in Nat
      BY <1>1, WaitingLess, OneFacts
    <3>2. Count(c, "any") <= n
      BY DEF Bound
    <3> QED
      BY <2>2, <3>1, <3>2
  <2>4. e \in {Reconnecting} <=> e = Reconnecting
    OBVIOUS
  <2>5. One(e \in {Reconnecting}) = p
    BY <2>4 DEF One
  <2> HIDE DEF p
  <2>6. Among(Tail(c.events), {Reconnecting}) + One(e \in {Reconnecting}) <= 1
    BY <1>4, <2>2, <2>3, <2>5 DEF p
  <2>7. w = Waiting(c) + p
    <3>1. Among(Append(Tail(c.events), e), {Reconnecting})
            = Among(Tail(c.events), {Reconnecting}) + One(e \in {Reconnecting})
      BY <2>1, <2>6, AmongAppend
    <3> QED
      BY <2>1, <2>2, <2>5, <3>1
  <2> HIDE DEF w
  <2>8. /\ w \in Nat /\ n + p \in 0..1 /\ m + p \in 0..1
        /\ n - Waiting(c) + w <= n + p /\ m - Waiting(c) + w <= m + p
    BY <1>4, <2>2, <2>7 DEF p
  <2>9. w = IF s = <<>> THEN 0 ELSE Among(Tail(s), {Reconnecting})
    BY <1>1 DEF w
  <2>10. PICK i \in 0..1, j \in 0..1 : i = n + p /\ j = m + p
    BY <2>8
  <2> HIDE DEF s
  <2>11. n - Waiting(c) + w <= i /\ m - Waiting(c) + w <= j
    BY <2>8, <2>10
  <2>12. Bound(d, i, j)
    BY <1>1, <1>2, <2>8, <2>9, <2>11, BoundEvents
  <2> HIDE DEF d
  <2> QED
    BY <1>3, <1>7, <2>10, <2>12 DEF p
<1> QED
  BY <1>6, <1>7

LEMMA BoundNext ==
  ASSUME NEW c, NEW n \in 0..1, NEW m \in 0..1, m <= n, Bound(c, n, m)
  PROVE  Bound(NextEvent(c), n, m)
<1> DEFINE s == Tail(c.events)
           d == [c EXCEPT !.events = s]
<1>1. /\ c \in Io /\ c.events \in Seq(Event) /\ Waiting(c) \in Nat
      /\ Waiting(c) <= Count(c, "any") /\ Waiting(c) <= Count(c, "trying")
      /\ Count(c, "any") \in Nat /\ Count(c, "trying") \in Nat
      /\ Count(c, "any") <= n /\ Count(c, "trying") <= m
  <2>1. c \in Io /\ c.events \in Seq(Event) /\ Count(c, "any") <= n /\ Count(c, "trying") <= m
    BY DEF Bound, Io
  <2>2. ASSUME NEW r, Counts(r) PROVE Waiting(c) <= Count(c, r) /\ Count(c, r) \in Nat
    BY <2>1, <2>2, WaitingLess
  <2>3. Waiting(c) \in Nat
    BY <2>1, CountNat, OneFacts
  <2> QED
    BY <2>1, <2>2, <2>3, OneFacts
<1>2. CASE Len(c.events) <= 1
  <2>1. NextEvent(c) = [c EXCEPT !.events = <<>>]
    BY <1>2 DEF NextEvent
  <2>2. <<>> \in Seq(Event) /\ NoneOf(<<>>, {Sending})
    BY DEF NoneOf
  <2>3. n - Waiting(c) + 0 <= n /\ m - Waiting(c) + 0 <= m /\ 0 \in Nat
    BY <1>1
  <2>4. PICK u \in Seq(Event) : u = <<>>
    BY <2>2
  <2>5. 0 = IF u = <<>> THEN 0 ELSE Among(Tail(u), {Reconnecting})
    BY <2>4
  <2>6. Bound([c EXCEPT !.events = u], n, m)
    BY <2>2, <2>3, <2>4, <2>5, BoundEvents
  <2> QED
    BY <2>1, <2>4, <2>6
<1>3. CASE ~(Len(c.events) <= 1)
  <2>1. c.events # <<>> /\ Len(c.events) > 1 /\ Head(c.events) \in Event
    BY <1>1, <1>3
  <2>2. s \in Seq(Event) /\ s # <<>>
    BY <1>1, <2>1, SeqFacts
  <2>3. NoneOf(s, {Sending})
    <3>1. NoneOf(c.events, {Sending})
      BY DEF Bound, Silent
    <3> QED
      BY <1>1, <2>1, <3>1, NoneTail
  <2>4. NextEvent(c) = RunFront(d)
    BY <1>3 DEF NextEvent
  <2>5. d.events = s
    BY <1>1 DEF Io
  <2> DEFINE w == Among(Tail(s), {Reconnecting})
             p == One(Head(s) = Reconnecting)
  <2>6. Waiting(c) = Among(s, {Reconnecting})
    BY <2>1 DEF Waiting
  <2>7. Waiting(c) <= 1
    BY <1>1
  <2> HIDE DEF s
  <2>8. w = Waiting(c) - p
    <3>1. Head(s) \in {Reconnecting} <=> Head(s) = Reconnecting
      OBVIOUS
    <3>2. One(Head(s) \in {Reconnecting}) = p
      BY <3>1 DEF One
    <3>3. Among(Tail(s), {Reconnecting}) = Among(s, {Reconnecting}) - One(Head(s) \in {Reconnecting})
      BY <2>2, <2>6, <2>7, AmongTail
    <3> QED
      BY <2>6, <3>2, <3>3
  <2>9. w \in Nat /\ p \in 0..1
    BY AmongNat, OneFacts
  <2>10. w = IF s = <<>> THEN 0 ELSE Among(Tail(s), {Reconnecting})
    BY <2>2
  <2> HIDE DEF w, p
  <2>11. PICK i \in 0..1, j \in 0..1 : i = n - p /\ j = m - p
    BY <1>1, <2>8, <2>9
  <2>12. n - Waiting(c) + w <= i /\ m - Waiting(c) + w <= j /\ j <= i
    BY <1>1, <2>8, <2>9, <2>11
  <2>13. Bound(d, i, j)
    BY <2>2, <2>3, <2>9, <2>10, <2>12, BoundEvents DEF w
  <2> HIDE DEF d
  <2>14. i + p = n /\ j + p = m /\ i + p <= 1
    BY <2>9, <2>11
  <2>15. One(Head(d.events) = Reconnecting) = p /\ d.events # <<>>
    BY <2>2, <2>5 DEF p
  <2>16. Bound(RunFront(d), i + One(Head(d.events) = Reconnecting),
                            j + One(Head(d.events) = Reconnecting))
    BY <2>12, <2>13, <2>14, <2>15, BoundRun
  <2> QED
    BY <2>4, <2>14, <2>15, <2>16
<1> QED
  BY <1>2, <1>3

-----------------------------------------------------------------------------
(* What a handler takes from the strand or the io_context.                 *)

LEMMA CountTaken ==
  ASSUME NEW c \in Io, NEW d \in Io, NEW r, Counts(r), d.events = c.events, d.ops = c.ops,
         NEW p \in Nat, Among(d.strand, Tokens(r)) + Among(d.ready, Tokens(r)) + p
                          = Among(c.strand, Tokens(r)) + Among(c.ready, Tokens(r))
  PROVE  Count(d, r) + p = Count(c, r)
<1>1. PICK a \in Nat, b \in Nat, x \in Nat, y \in Nat, z \in Nat, v \in Nat, f \in Nat, g \in Nat :
        /\ a = Among(c.strand, Tokens(r)) /\ b = Among(c.ready, Tokens(r))
        /\ x = c.ops["resolve"] /\ y = c.ops["connect"] /\ z = Reads(c, r)
        /\ v = Waiting(c)
        /\ f = Among(d.strand, Tokens(r)) /\ g = Among(d.ready, Tokens(r))
  BY Summands
<1>2. Reads(d, r) = Reads(c, r) /\ Waiting(d) = Waiting(c)
  BY DEF Reads, Waiting
<1>3. Count(c, r) = a + b + x + y + z + v /\ Count(d, r) = f + g + x + y + z + v
  BY <1>1, <1>2 DEF Count
<1>4. f + g + p = a + b
  BY <1>1
<1>5. (f + g + x + y + z + v) + p = a + b + x + y + z + v
  BY <1>4
<1> QED
  BY <1>3, <1>5

LEMMA BoundTaken ==
  ASSUME NEW c, NEW n \in 0..1, NEW m \in 0..1, m <= n, Bound(c, n, m),
         NEW d \in Io, Silent(d), d.ops = c.ops,
         NEW p \in 0..1, NEW q \in 0..1, q <= p,
         Count(d, "any") + p = Count(c, "any"), Count(d, "trying") + q = Count(c, "trying")
  PROVE  /\ Bound(d, n, m)
         /\ p = 1 => n = 1 /\ Bound(d, 0, 0)
         /\ q = 1 => m = 1
<1>1. /\ Count(d, "any") \in Nat /\ Count(d, "trying") \in Nat
      /\ Count(c, "any") <= n /\ Count(c, "trying") <= m
      /\ Count(d, "trying") <= Count(d, "any")
      /\ \A k \in Timers : d.ops[k] <= 1
  BY CountNat, FewerTry, OneFacts DEF Bound
<1>2. Count(d, "any") <= n /\ Count(d, "trying") <= m
  BY <1>1
<1>3. p = 1 => n = 1 /\ Count(d, "any") <= 0 /\ Count(d, "trying") <= 0
  BY <1>1
<1>4. q = 1 => m = 1
  BY <1>1
<1> QED
  BY <1>1, <1>2, <1>3, <1>4 DEF Bound

LEMMA TokenFacts ==
  ASSUME NEW x
  PROVE  /\ One(x \in Tokens("any")) \in 0..1 /\ One(x \in Tokens("trying")) \in 0..1
         /\ One(x \in Tokens("trying")) <= One(x \in Tokens("any"))
         /\ x \in Tokens("any") => One(x \in Tokens("any")) = 1
         /\ x \in Trying => One(x \in Tokens("trying")) = 1
         /\ x \notin Tokens("any") => One(x \in Tokens("any")) = 0
         /\ One(x \in Tokens("trying")) = One(x \in Trying)
BY DEF One, Tokens

LEMMA BoundRest ==
  ASSUME NEW n \in 0..1, NEW m \in 0..1, m <= n, Bound(io, n, m), OnStrand
  PROVE  /\ Bound(Rest, n, m) /\ Running \in Task /\ Running \notin Absent
         /\ Running \in Tokens("any") => n = 1 /\ Bound(Rest, 0, 0)
         /\ Running \in Trying => m = 1
<1> DEFINE d == Rest
           x == Running
<1>1. /\ io \in Io /\ io.strand \in Seq(Task) /\ io.strand # <<>>
      /\ d \in Io /\ x \in Task
      /\ d.strand = Tail(io.strand) /\ d.ready = io.ready /\ d.events = io.events
      /\ d.ops = io.ops /\ x = Head(io.strand)
  BY StrandType DEF Bound, Io, OnStrand, Rest, Running
<1>2. Silent(d) /\ x \notin Absent
  <2>1. NoneOf(io.strand, Absent)
    BY DEF Bound, Silent
  <2>2. NoneOf(d.strand, Absent) /\ x \notin Absent
    BY <1>1, <2>1, NoneTail
  <2> QED
    BY <1>1, <2>2 DEF Bound, Silent
<1> HIDE DEF d, x
<1>3. ASSUME NEW r, Counts(r)
      PROVE  Count(d, r) + One(x \in Tokens(r)) = Count(io, r)
  <2>1. Among(io.strand, Tokens(r)) <= 1
    <3>1. Among(io.strand, Tokens(r)) <= Count(io, r)
      <4>1. PICK a \in Nat, b \in Nat, y \in Nat, z \in Nat, u \in Nat, v \in Nat :
              /\ a = Among(io.strand, Tokens(r)) /\ b = Among(io.ready, Tokens(r))
              /\ y = io.ops["resolve"] /\ z = io.ops["connect"] /\ u = Reads(io, r)
              /\ v = Waiting(io)
        BY <1>1, <1>3, Summands
      <4>2. Count(io, r) = a + b + y + z + u + v
        BY <4>1 DEF Count
      <4> QED
        BY <4>1, <4>2
    <3>2. Count(io, r) <= 1 /\ Count(io, r) \in Nat
      <4>1. Count(io, "any") <= 1 /\ Count(io, "trying") <= 1
        <5>1. Count(io, "any") \in Nat /\ Count(io, "trying") \in Nat
          BY <1>1, CountNat DEF Counts
        <5>2. Count(io, "any") <= n /\ Count(io, "trying") <= m
          BY DEF Bound
        <5> QED
          BY <5>1, <5>2
      <4> QED
        BY <1>1, <1>3, <4>1, CountNat DEF Counts
    <3> QED
      BY <3>1, <3>2, AmongNat
  <2>2. Among(d.strand, Tokens(r)) = Among(io.strand, Tokens(r)) - One(x \in Tokens(r))
    BY <1>1, <2>1, AmongTail
  <2>3. One(x \in Tokens(r)) \in Nat
    BY DEF One
  <2>4. Among(d.strand, Tokens(r)) + Among(d.ready, Tokens(r)) + One(x \in Tokens(r))
          = Among(io.strand, Tokens(r)) + Among(io.ready, Tokens(r))
    <3>1. PICK a \in Nat, b \in Nat, e \in Nat, p \in Nat :
            /\ a = Among(io.strand, Tokens(r)) /\ b = Among(io.ready, Tokens(r))
            /\ e = Among(d.strand, Tokens(r)) /\ p = One(x \in Tokens(r))
      BY <2>3, AmongNat
    <3> QED
      BY <1>1, <2>2, <3>1
  <2> QED
    BY <1>1, <1>3, <2>3, <2>4, CountTaken
<1>4. PICK p \in 0..1, q \in 0..1 : p = One(x \in Tokens("any")) /\ q = One(x \in Tokens("trying"))
  BY TokenFacts
<1>5. q <= p /\ Count(d, "any") + p = Count(io, "any")
      /\ Count(d, "trying") + q = Count(io, "trying")
  BY <1>3, <1>4, TokenFacts, OneFacts
<1>6. Bound(d, n, m) /\ (p = 1 => n = 1 /\ Bound(d, 0, 0)) /\ (q = 1 => m = 1)
  BY <1>1, <1>2, <1>5, BoundTaken
<1>7. (x \in Tokens("any") => p = 1) /\ (x \in Trying => q = 1)
  BY <1>4, TokenFacts
<1> QED
  BY <1>1, <1>2, <1>6, <1>7 DEF d, x

LEMMA BoundDeliver ==
  ASSUME NEW n \in 0..1, NEW m \in 0..1, m <= n, Bound(io, n, m), Deliver
  PROVE  Bound(io', n, m)
<1> DEFINE d == [io EXCEPT !.ready = Tail(@)]
           x == Head(io.ready)
<1>1. /\ io \in Io /\ io.ready \in Seq(Completion) /\ io.ready # <<>>
  BY DEF Bound, Io, Deliver
<1>2. x \in Completion /\ Tail(io.ready) \in Seq(Completion)
  BY <1>1
<1>3. /\ d \in Io /\ d.ready = Tail(io.ready) /\ d.strand = io.strand
      /\ d.events = io.events /\ d.ops = io.ops
  BY <1>1, <1>2 DEF Io
<1>4. Silent(d) /\ x \notin Absent
  <2>1. NoneOf(io.ready, Absent)
    BY DEF Bound, Silent
  <2>2. NoneOf(d.ready, Absent) /\ x \notin Absent
    BY <1>1, <1>3, <2>1, NoneTail
  <2> QED
    BY <1>3, <2>2 DEF Bound, Silent
<1>5. io' = Post(d, x) /\ x \in Task
  BY <1>2 DEF Deliver, Task
<1>6. x = Head(io.ready)
  OBVIOUS
<1> HIDE DEF d, x
<1>7. ASSUME NEW r, Counts(r)
      PROVE  Count(d, r) + One(x \in Tokens(r)) = Count(io, r)
  <2>1. Among(io.ready, Tokens(r)) <= 1
    <3>1. Among(io.ready, Tokens(r)) <= Count(io, r)
      <4>1. PICK a \in Nat, b \in Nat, y \in Nat, z \in Nat, u \in Nat, v \in Nat :
              /\ a = Among(io.strand, Tokens(r)) /\ b = Among(io.ready, Tokens(r))
              /\ y = io.ops["resolve"] /\ z = io.ops["connect"] /\ u = Reads(io, r)
              /\ v = Waiting(io)
        BY <1>1, <1>7, Summands
      <4>2. Count(io, r) = a + b + y + z + u + v
        BY <4>1 DEF Count
      <4> QED
        BY <4>1, <4>2
    <3>2. Count(io, r) <= 1 /\ Count(io, r) \in Nat
      <4>1. Count(io, "any") <= 1 /\ Count(io, "trying") <= 1
        <5>1. Count(io, "any") \in Nat /\ Count(io, "trying") \in Nat
          BY <1>1, CountNat DEF Counts
        <5>2. Count(io, "any") <= n /\ Count(io, "trying") <= m
          BY DEF Bound
        <5> QED
          BY <5>1, <5>2
      <4> QED
        BY <1>1, <1>7, <4>1, CountNat DEF Counts
    <3> QED
      BY <3>1, <3>2, AmongNat
  <2>2. Among(d.ready, Tokens(r)) = Among(io.ready, Tokens(r)) - One(x \in Tokens(r))
    BY <1>1, <1>3, <1>6, <2>1, AmongTail
  <2>3. One(x \in Tokens(r)) \in Nat
    BY DEF One
  <2>4. Among(d.strand, Tokens(r)) + Among(d.ready, Tokens(r)) + One(x \in Tokens(r))
          = Among(io.strand, Tokens(r)) + Among(io.ready, Tokens(r))
    <3>1. PICK a \in Nat, b \in Nat, e \in Nat, p \in Nat :
            /\ a = Among(io.strand, Tokens(r)) /\ b = Among(io.ready, Tokens(r))
            /\ e = Among(d.ready, Tokens(r)) /\ p = One(x \in Tokens(r))
      BY <2>3, AmongNat
    <3> QED
      BY <1>3, <2>2, <3>1
  <2> QED
    BY <1>1, <1>3, <1>7, <2>3, <2>4, CountTaken
<1>8. PICK p \in 0..1, q \in 0..1 : p = One(x \in Tokens("any")) /\ q = One(x \in Tokens("trying"))
  BY TokenFacts
<1>9. q <= p /\ Count(d, "any") + p = Count(io, "any")
      /\ Count(d, "trying") + q = Count(io, "trying") /\ q = One(x \in Trying)
  BY <1>7, <1>8, TokenFacts, OneFacts
<1>10. Bound(d, n, m) /\ (p = 1 => n = 1 /\ Bound(d, 0, 0)) /\ (q = 1 => m = 1)
  BY <1>3, <1>4, <1>9, BoundTaken
<1>11. CASE p = 1
  <2>1. Bound(d, 0, 0) /\ n = 1 /\ q <= m /\ 0 + p = 1 /\ 0 + q = q
    BY <1>10, <1>11
  <2>2. Bound(Post(d, x), 0 + p, 0 + q)
    BY <1>4, <1>5, <1>8, <1>9, <2>1, BoundPost
  <2>3. Bound(Post(d, x), 1, q)
    BY <2>1, <2>2
  <2> QED
    BY <1>5, <2>1, <2>3, BoundLess
<1>12. CASE p = 0
  <2>1. q = 0 /\ n + p = n /\ m + q = m
    BY <1>9, <1>12
  <2>2. Bound(Post(d, x), n + p, m + q)
    BY <1>4, <1>5, <1>8, <1>9, <1>10, <2>1, BoundPost
  <2> QED
    BY <1>5, <2>1, <2>2
<1> QED
  BY <1>11, <1>12

-----------------------------------------------------------------------------
(* What the operations of the client do to a bound.                        *)

LEMMA BoundEvent ==
  ASSUME NEW c, NEW n \in 0..1, NEW m \in 0..1, m <= n, Bound(c, n, m),
         NEW e \in Event, e \notin {Sending, Reconnecting}
  PROVE  Bound(EventEnqueue(c, e), n, m) /\ Bound(EventEnqueueFromOutside(c, e), n, m)
<1> DEFINE x == [t |-> "Enqueue", ev |-> e]
<1>1. One(e = Reconnecting) = 0 /\ e # Sending
  BY DEF One
<1>2. n + 0 = n /\ m + 0 = m /\ n + One(e = Reconnecting) <= 1
  BY <1>1
<1>3. Bound(EventEnqueue(c, e), n + One(e = Reconnecting), m + One(e = Reconnecting))
  BY <1>1, <1>2, BoundEnqueue
<1>4. Plain(x)
  BY DEF Plain, Task, Absent, Tokens, Trying, Reading, Completion, Simple
<1>5. Bound(Post(c, x), n, m)
  BY <1>4, BoundPlain
<1> QED
  BY <1>1, <1>2, <1>3, <1>5 DEF EventEnqueueFromOutside

LEMMA OtherEvents ==
  /\ \A e \in {"stop", "wake"} : Simple(e) \in Event /\ Simple(e) \notin {Sending, Reconnecting}
  /\ \A o \in {"Started", "Starting"}, f \in {"stop", "wake"} :
       DisconnectOf(o, f) \in Event /\ DisconnectOf(o, f) \notin {Sending, Reconnecting}
  /\ Reconnecting \in Event /\ Reconnecting # Sending
BY EventTypes DEF Simple, Sending, Reconnecting, DisconnectOf

LEMMA PlainFacts ==
  /\ Plain(Simple("StopReconnectTimer"))
  /\ \A b \in BOOLEAN : Plain([t |-> "ArmTimeout", sync |-> b])
  /\ Simple("Resolve") \in Task /\ Simple("Resolve") \notin Absent
  /\ Simple("StartRecv") \in Task /\ Simple("StartRecv") \notin Absent \cup Trying
BY TaskTypes DEF Plain, Absent, Tokens, Trying, Reading, Completion, Simple

LEMMA BoundDisconnect ==
  ASSUME NEW c, NEW n \in 0..1, NEW m \in 0..1, m <= n, Bound(c, n, m)
  PROVE  Bound(DoDisconnect(c), n, m)
<1>1. CASE Disconnecting
  <2>1. DoDisconnect(c) = EventEnqueue(c, DisconnectOf(state, "wake"))
    BY <1>1 DEF DoDisconnect, DisconnectOf
  <2>2. state \in {"Started", "Starting"}
    BY <1>1 DEF Disconnecting
  <2>3. DisconnectOf(state, "wake") \in Event
        /\ DisconnectOf(state, "wake") \notin {Sending, Reconnecting}
    BY <2>2, OtherEvents
  <2> QED
    BY <2>1, <2>3, BoundEvent
<1>2. CASE ~Disconnecting
  BY <1>2 DEF DoDisconnect
<1> QED
  BY <1>1, <1>2

LEMMA BoundPostRecv ==
  ASSUME NEW c, Bound(c, 0, 0)
  PROVE  /\ Bound(PostRecv(c), 1, 0)
         /\ state # "Started" => Bound(PostRecv(c), 0, 0)
<1> DEFINE x == Done("recv", "error")
<1>1. "recv" \in Kinds("any") /\ "recv" \in OpKind /\ "error" \in ErrorCode
      /\ 0 \in Nat /\ 1 \in Nat /\ 0 <= 1 /\ 0 \in 0..1
  BY KindFacts, OpTypes DEF ErrorCode
<1>2. Bound(c, 1, 0)
  BY <1>1, BoundLess
<1>3. Bound(Launch(c, "recv"), 1, 0)
  BY <1>1, BoundLaunch
<1>4. Bound([c EXCEPT !.ready = Append(@, x)], 1, 0)
  <2>1. x \in Completion /\ x \notin Absent
    BY <1>1, DoneTokens, OneFacts
  <2>2. x \in Tokens("any") /\ x \notin Tokens("trying")
    BY <1>1, DoneTokens, KindFacts, OneFacts
  <2>3. One(x \in Tokens("any")) = 1 /\ One(x \in Trying) = 0
    BY <2>2 DEF One, Tokens
  <2> HIDE DEF x
  <2>4. Bound([c EXCEPT !.ready = Append(@, x)],
              0 + One(x \in Tokens("any")), 0 + One(x \in Trying))
    BY <1>1, <2>1, <2>3, BoundReady
  <2>5. 0 + One(x \in Tokens("any")) = 1 /\ 0 + One(x \in Trying) = 0
    BY <2>3
  <2> QED
    BY <2>4, <2>5
<1> HIDE DEF x
<1>5. state # "Started" => PostRecv(c) = c
  BY DEF PostRecv, IsStarted
<1>6. PostRecv(c) \in {c, Launch(c, "recv"), [c EXCEPT !.ready = Append(@, x)]}
  BY DEF PostRecv, x
<1> QED
  BY <1>2, <1>3, <1>4, <1>5, <1>6

LEMMA BoundBeginDone ==
  ASSUME NEW c, NEW n \in 0..1, NEW m \in 0..1, m <= n, Bound(c, n, m),
         NEW ec, NEW b, BeginDone(c, ec, b)
  PROVE  Bound(io', n, m)
BY BoundClose DEF BeginDone

LEMMA BoundPostConnect ==
  ASSUME NEW c, Bound(c, 0, 0), NEW i \in Nat, PostConnect(c, i)
  PROVE  \/ Bound(io', 1, 1) /\ UNCHANGED <<state, run>>
         \/ Bound(io', 0, 0) /\ BeginDone(c, "error", FALSE)
<1>1. CASE i > NEndpoints
  <2>1. BeginDone(c, "error", FALSE)
    BY <1>1 DEF PostConnect
  <2>2. 0 \in 0..1 /\ 0 <= 0
    OBVIOUS
  <2>3. Bound(io', 0, 0)
    BY <2>1, <2>2, BoundBeginDone
  <2> QED
    BY <2>1, <2>3
<1>2. CASE ~(i > NEndpoints)
  <2> DEFINE y == IF c.sock = "closed" THEN "open" ELSE c.sock
             d == [c EXCEPT !.sock = y]
  <2>1. y \in {"closed", "open", "connected"}
    BY DEF Bound, Io
  <2>2. io' = Launch(d, "connect") /\ UNCHANGED <<state, run>>
    BY <1>2 DEF PostConnect
  <2> HIDE DEF y
  <2>3. Bound(d, 0, 0)
    BY <2>1, BoundSock
  <2> HIDE DEF d
  <2>4. Bound(Launch(d, "connect"), 1, 1)
    BY <2>3, BoundLaunch, KindFacts
  <2> QED
    BY <2>2, <2>4
<1> QED
  BY <1>1, <1>2

LEMMA BoundCompletes ==
  ASSUME NEW n \in 0..1, NEW m \in 0..1, m <= n, Bound(io, n, m),
         NEW k \in OpKind, NEW ec \in ErrorCode, Completes(k, ec)
  PROVE  Bound(io', n, m)
<1> DEFINE c == IF k = "connect" /\ ec = "ok" THEN [io EXCEPT !.sock = "connected"] ELSE io
<1>1. Bound(c, n, m)
  BY BoundSock
<1>2. io' = Finish(c, k, ec) /\ c.ops[k] > 0
  BY DEF Completes, Bound, Io
<1> HIDE DEF c
<1> QED
  BY <1>1, <1>2, BoundFinish

LEMMA RunningKind ==
  ASSUME NEW x \in Task
  PROVE  /\ x.t = "Resolve" => x \in Trying
         /\ x.t = "StartRecv" => x \in Tokens("any")
         /\ x.t = "Done" => x \in Completion
         /\ x.t = "Done" /\ x.op \in {"resolve", "connect"} => x \in Trying
         /\ x.t = "Done" /\ x.op = "recv" => x \in Tokens("any")
         /\ x.t = "Done" /\ x.op = "send" => x \in Absent
         /\ x.t = "Event" /\ x.ev.t = "reconnect" => x \in Trying
         /\ x.t = "Enqueue" /\ x \notin Absent => x.ev \in Event /\ x.ev \notin {Sending, Reconnecting}
<1>1. CASE x \in [t : {"StopReconnectTimer", "Resolve", "StartRecv"}]
  BY <1>1 DEF Trying, Tokens, Reading, Simple
<1>2. CASE x \in [t : {"ArmTimeout"}, sync : BOOLEAN]
  BY <1>2
<1>3. CASE x \in [t : {"Enqueue", "Event"}, ev : Event]
  <2>1. x.ev.t = "reconnect" => x.ev = Reconnecting
    BY <1>3 DEF Event, Reconnecting, Simple
  <2>2. x.t = "Event" => x = [t |-> "Event", ev |-> x.ev]
    BY <1>3
  <2>3. x.t \in {"Enqueue", "Event"} /\ x.ev \in Event
    BY <1>3
  <2> QED
    BY <2>1, <2>2, <2>3 DEF Trying, Absent
<1>4. CASE x \in Completion
  <2>1. x.t = "Done"
    BY <1>4 DEF Completion
  <2> QED
    BY <1>4, <2>1 DEF Trying, Reading, Tokens, Absent
<1> QED
  BY <1>1, <1>2, <1>3, <1>4 DEF Task

\* The steps of an application thread, but for those that begin an attempt.
LEMMA BoundApi ==
  ASSUME TypeOK, NEW n \in 0..1, NEW m \in 0..1, m <= n, Bound(io, n, m),
         (StartStep /\ ~StartPostResolve) \/ StopStep \/ Application
  PROVE  Bound(io', n, m)
<1>1. CASE StartLoadReconnectTimer
  <2>1. "wakeWait" \in ReconnectTimer
    BY DEF ReconnectTimer
  <2> QED
    BY <1>1, <2>1, BoundClose DEF StartLoadReconnectTimer
<1>2. CASE StartConnect
  <2> DEFINE d == CloseSocket(io)
  <2>1. Bound(d, n, m)
    BY BoundClose
  <2>2. "open" \in {"closed", "open", "connected"}
    OBVIOUS
  <2> HIDE DEF d
  <2>3. Bound([d EXCEPT !.sock = "open"], n, m)
    BY <2>1, <2>2, BoundSock
  <2> QED
    BY <1>2, <2>3 DEF StartConnect, d
<1>3. CASE StartBindFails
  <2> DEFINE d == CancelConnectTimer(io)
             e == DisconnectOf(state, "wake")
  <2>1. Bound(d, n, m)
    BY BoundClose
  <2>2. io' = IF Disconnecting THEN EventEnqueueFromOutside(d, e) ELSE d
    BY <1>3 DEF StartBindFails, DisconnectOf
  <2>3. Disconnecting => e \in Event /\ e \notin {Sending, Reconnecting}
    BY OtherEvents DEF Disconnecting
  <2> HIDE DEF d, e
  <2> QED
    BY <2>1, <2>2, <2>3, BoundEvent
<1>4. CASE StopCall
  BY <1>4, PlainFacts, BoundPlain DEF StopCall
<1>5. ASSUME NEW old \in {"Started", "Starting"}, NEW pc, NEW f, StopCas(old, pc, f)
      PROVE  Bound(io', n, m)
  <2> DEFINE e == DisconnectOf(old, "stop")
  <2>1. io' = EventEnqueueFromOutside(io, e) \/ io' = io
    BY <1>5 DEF StopCas, DisconnectOf
  <2>2. e \in Event /\ e \notin {Sending, Reconnecting}
    BY OtherEvents
  <2> HIDE DEF e
  <2> QED
    BY <2>1, <2>2, BoundEvent
<1>6. CASE StopPostStop
  BY <1>6, OtherEvents, BoundEvent DEF StopPostStop
<1>7. CASE StartPool \/ StartWait \/ StopPool \/ StopJoin \/ SendCall
            \/ \E sync \in SyncStart : StartCall(sync)
  BY <1>7 DEF StartPool, StartWait, StopPool, StopJoin, SendCall, StartCall
<1> QED
  BY <1>1, <1>2, <1>3, <1>4, <1>5, <1>6, <1>7
     DEF StartStep, StopStep, StopCasStarted, StopCasStarting, Application

LEMMA BoundNetwork ==
  ASSUME NEW n \in 0..1, NEW m \in 0..1, m <= n, Bound(io, n, m),
         Network \/ Deliver \/ RunReturns \/ DoneNotify
  PROVE  Bound(io', n, m)
<1>1. {"ok", "error"} \subseteq ErrorCode
  BY DEF ErrorCode
<1>2. CASE Network
  BY <1>1, <1>2, OpTypes, BoundCompletes
     DEF Network, Resolves, Connects, Receives, Writes, TimerExpires, Expires
<1>3. CASE Deliver
  BY <1>3, BoundDeliver
<1>4. CASE RunReturns \/ DoneNotify
  BY <1>4 DEF RunReturns, DoneNotify
<1> QED
  BY <1>2, <1>3, <1>4

\* The handlers that neither end an attempt nor begin one.
Firing == HandleReconnectTimer /\ ~timer.canceled /\ ReconnectFires

LEMMA BoundHandlers ==
  ASSUME TypeOK, NEW n \in 0..1, NEW m \in 0..1, m <= n, Bound(io, n, m), ~Firing,
         HandleEnqueue \/ HandleDisconnectEvent \/ HandleStopEvent \/ HandleWakeEvent
           \/ HandleStopReconnectTimer \/ HandleArmTimeout \/ HandleResolve \/ HandleTimeout
           \/ HandleReconnectTimer
  PROVE  Bound(io', n, m)
<1>1. OnStrand
  BY DEF HandleEnqueue, HandleDisconnectEvent, HandleStopEvent, HandleWakeEvent,
     HandleStopReconnectTimer, HandleArmTimeout, HandleResolve, HandleTimeout,
     HandleReconnectTimer, RunsEvent, RunsCompletion
<1>2. /\ Bound(Rest, n, m) /\ Running \in Task /\ Running \notin Absent
      /\ Running \in Trying => m = 1 /\ n = 1 /\ Bound(Rest, 0, 0)
  BY <1>1, BoundRest, OneFacts
<1>3. CASE HandleEnqueue
  BY <1>2, <1>3, RunningKind, BoundEvent DEF HandleEnqueue
<1>4. CASE HandleDisconnectEvent
  <2> DEFINE c == CloseSocket(Rest)
             e == Simple(Running.ev.defer)
             d == EventEnqueue(c, e)
  <2>1. Running.t = "Event" /\ Running.ev.t = "disconnect"
    BY <1>4 DEF HandleDisconnectEvent, RunsEvent
  <2>2. Running.ev.defer \in {"stop", "wake"}
    <3>1. Running.ev \in Event
      BY <1>2, <2>1, TaskFields
    <3> QED
      BY <2>1, <3>1 DEF Event
  <2>3. e \in Event /\ e \notin {Sending, Reconnecting}
    BY <2>2, OtherEvents
  <2>4. io' = NextEvent(d) \/ io' = io
    BY <1>4 DEF HandleDisconnectEvent
  <2>5. Bound(c, n, m)
    BY <1>2, BoundClose
  <2> HIDE DEF c, e
  <2>6. Bound(d, n, m)
    BY <2>3, <2>5, BoundEvent
  <2> HIDE DEF d
  <2> QED
    BY <2>4, <2>6, BoundNext
<1>5. CASE HandleStopEvent
  <2> DEFINE c == CancelReconnectTimer(Rest)
             d == CancelConnectTimer(c)
  <2>1. Bound(c, n, m)
    BY <1>2, BoundClose
  <2>2. io' = NextEvent(d)
    BY <1>5 DEF HandleStopEvent
  <2> HIDE DEF c
  <2>3. Bound(d, n, m)
    BY <2>1, BoundClose
  <2> HIDE DEF d
  <2> QED
    BY <2>2, <2>3, BoundNext
<1>6. CASE HandleWakeEvent
  <2> DEFINE c == IF ReconnectEnabled THEN CancelReconnectTimer(Rest) ELSE Rest
  <2>1. Bound(c, n, m)
    BY <1>2, BoundClose
  <2>2. io' = NextEvent(c)
    BY <1>6 DEF HandleWakeEvent
  <2> HIDE DEF c
  <2> QED
    BY <2>1, <2>2, BoundNext
<1>7. CASE HandleStopReconnectTimer
  BY <1>2, <1>7, BoundClose DEF HandleStopReconnectTimer
<1>8. CASE HandleArmTimeout
  <2> DEFINE k == IF Running.sync THEN "timeoutSync" ELSE "timeout"
  <2>1. k \in ConnectTimer /\ io' = Launch(CancelConnectTimer(Rest), k)
    BY <1>8 DEF HandleArmTimeout, ConnectTimer
  <2> QED
    BY <1>2, <2>1, BoundClose
<1>9. CASE HandleResolve
  <2>1. Running \in Trying /\ io' = Launch(Rest, "resolve")
    BY <1>2, <1>9, RunningKind DEF HandleResolve
  <2>2. n = 1 /\ m = 1 /\ Bound(Rest, 0, 0)
    BY <1>2, <2>1
  <2> QED
    BY <2>1, <2>2, BoundLaunch, KindFacts
<1>10. CASE HandleTimeout
  BY <1>2, <1>10, BoundClose DEF HandleTimeout
<1>11. CASE HandleReconnectTimer
  <2>1. io' \in {Rest, ArmReconnectTimer(Rest, "retryWait"), ArmReconnectTimer(Rest, "wakeWait")}
    BY <1>11 DEF HandleReconnectTimer, Firing
  <2>2. "retryWait" \in ReconnectTimer /\ "wakeWait" \in ReconnectTimer
    BY DEF ReconnectTimer
  <2> QED
    BY <1>2, <2>1, <2>2, BoundClose
<1> QED
  BY <1>3, <1>4, <1>5, <1>6, <1>7, <1>8, <1>9, <1>10, <1>11

\* The reconnect timer begins an attempt where there is none.
LEMMA BoundFiring ==
  ASSUME Bound(io, 0, 0), Firing
  PROVE  Bound(io', 1, 1) \/ (Bound(io', 0, 0) /\ state' = state)
<1>1. OnStrand /\ 0 \in 0..1 /\ 0 <= 0
  BY DEF Firing, HandleReconnectTimer, RunsCompletion
<1>2. Bound(Rest, 0, 0)
  BY <1>1, BoundRest
<1> DEFINE c == EventEnqueue(Rest, Reconnecting)
<1>3. Bound(c, 1, 1)
  <2>1. One(Reconnecting = Reconnecting) = 1
    BY DEF One
  <2>2. PICK e \in Event : e = Reconnecting /\ e # Sending
    BY OtherEvents
  <2>3. One(e = Reconnecting) = 1 /\ 0 + 1 = 1
    BY <2>1, <2>2
  <2>4. Bound(EventEnqueue(Rest, e), 0 + One(e = Reconnecting), 0 + One(e = Reconnecting))
    BY <1>1, <1>2, <2>2, <2>3, BoundEnqueue
  <2> QED
    BY <2>2, <2>3, <2>4
<1>4. \/ io' = ArmReconnectTimer(Rest, "retryWait") /\ state' = state
      \/ io' = ArmReconnectTimer(c, "wakeWait")
  BY DEF Firing, HandleReconnectTimer, Reconnecting
<1> HIDE DEF c
<1>5. "retryWait" \in ReconnectTimer /\ "wakeWait" \in ReconnectTimer
      /\ 1 \in 0..1 /\ 1 <= 1
  BY DEF ReconnectTimer
<1>6. Bound(ArmReconnectTimer(c, "wakeWait"), 1, 1)
  BY <1>3, <1>5, BoundClose
<1>7. Bound(ArmReconnectTimer(Rest, "retryWait"), 0, 0)
  BY <1>1, <1>2, <1>5, BoundClose
<1> QED
  BY <1>4, <1>6, <1>7

\* DoneConnect has begun, with an error code that agrees with the state.
Ended ==
  /\ run'.pc = "notify"
  /\ state' = state \/ (state = "Starting" /\ state' = "Started")
  /\ state # "Started" => /\ state' = "Started" => run'.ec = "ok"
                          /\ state' = "Starting" => run'.ec # "ok"

LEMMA BeginDoneEnds ==
  ASSUME NEW c, NEW ec, NEW b, BeginDone(c, ec, b)
  PROVE  Ended
BY DEF BeginDone, Ended

\* The handlers that go on with an attempt, or end it.
LEMMA BoundTries ==
  ASSUME TypeOK, NEW n \in 0..1, NEW m \in 0..1, m <= n, Bound(io, n, m),
         HandleResolved \/ HandleConnected \/ HandleReconnectEvent
  PROVE  /\ n = 1 /\ m = 1
         /\ \/ Bound(io', 1, 1) /\ UNCHANGED <<state, run>>
            \/ Bound(io', 0, 0) /\ Ended
<1>1. OnStrand
  BY DEF HandleResolved, HandleConnected, HandleReconnectEvent, RunsEvent, RunsCompletion
<1>2. Running \in Task
  BY <1>1, BoundRest
<1>3. Running \in Trying
  BY <1>2, RunningKind
     DEF HandleResolved, HandleConnected, HandleReconnectEvent, RunsEvent, RunsCompletion
<1>4. Running \in Tokens("any")
  BY <1>3, OneFacts
<1>5. n = 1 /\ m = 1 /\ Bound(Rest, 0, 0)
  BY <1>1, <1>3, <1>4, BoundRest
<1>6. 0 \in 0..1 /\ 0 <= 0 /\ 1 \in 0..1 /\ 1 <= 1 /\ 0 <= 1
  OBVIOUS
<1>7. ASSUME NEW c, Bound(c, 0, 0), NEW ec, NEW b, BeginDone(c, ec, b)
      PROVE  Bound(io', 0, 0) /\ Ended
  BY <1>6, <1>7, BoundBeginDone, BeginDoneEnds
<1>8. ASSUME NEW i \in Nat, PostConnect(Rest, i)
      PROVE  \/ Bound(io', 1, 1) /\ UNCHANGED <<state, run>>
             \/ Bound(io', 0, 0) /\ Ended
  BY <1>5, <1>7, <1>8, BoundPostConnect
<1>9. CASE HandleResolved
  <2>1. PostConnect(Rest, 1) \/ BeginDone(Rest, Running.ec, FALSE)
    BY <1>9 DEF HandleResolved
  <2>2. 1 \in Nat
    OBVIOUS
  <2> QED
    BY <1>5, <1>7, <1>8, <2>1, <2>2
<1>10. CASE HandleConnected
  <2>1. PostConnect(Rest, iter + 1) \/ BeginDone(Rest, Running.ec, FALSE)
    BY <1>10 DEF HandleConnected
  <2>2. iter + 1 \in Nat
    BY ClientAssumption DEF TypeOK
  <2> QED
    BY <1>5, <1>7, <1>8, <2>1, <2>2
<1>11. CASE HandleReconnectEvent
  <2> DEFINE opened == [CloseSocket(Rest) EXCEPT !.sock = "open"]
             x == [t |-> "ArmTimeout", sync |-> FALSE]
             y == Simple("Resolve")
             c == Post(opened, x)
  <2>1. \/ io' = NextEvent(Rest) /\ UNCHANGED <<state, run>>
        \/ io' = NextEvent(Post(c, y)) /\ UNCHANGED <<state, run>>
        \/ BeginDone(opened, "error", TRUE)
    BY <1>11, Zenon DEF HandleReconnectEvent
  <2>2. Bound(opened, 0, 0)
    <3>1. Bound(CloseSocket(Rest), 0, 0)
      BY <1>5, <1>6, BoundClose
    <3>2. "open" \in {"closed", "open", "connected"}
      OBVIOUS
    <3> QED
      BY <3>1, <3>2, BoundSock
  <2> HIDE DEF opened
  <2>3. Bound(c, 0, 0)
    BY <1>6, <2>2, PlainFacts, BoundPlain
  <2> HIDE DEF c
  <2>4. Bound(Post(c, y), 1, 1)
    BY <2>3, PlainFacts, BoundToken
  <2> DEFINE d == Post(c, y)
  <2> HIDE DEF d
  <2>5. Bound(NextEvent(d), 1, 1)
    BY <1>6, <2>4, BoundNext DEF d
  <2>6. Bound(NextEvent(Rest), 0, 0)
    BY <1>5, <1>6, BoundNext
  <2>7. 0 \in Nat /\ 1 \in Nat
    OBVIOUS
  <2>8. Bound(NextEvent(Rest), 1, 1)
    BY <1>6, <2>6, <2>7, BoundLess
  <2>9. CASE io' = NextEvent(Rest) /\ UNCHANGED <<state, run>>
    BY <1>5, <2>8, <2>9
  <2>10. CASE io' = NextEvent(Post(c, y)) /\ UNCHANGED <<state, run>>
    BY <1>5, <2>5, <2>10 DEF d
  <2>11. CASE BeginDone(opened, "error", TRUE)
    BY <1>5, <1>7, <2>2, <2>11
  <2> QED
    BY <2>1, <2>9, <2>10, <2>11
<1> QED
  BY <1>5, <1>9, <1>10, <1>11

\* The handlers of a connection that is read; nothing is sent.
LEMMA BoundReads ==
  ASSUME TypeOK, NEW n \in 0..1, NEW m \in 0..1, m <= n, Bound(io, n, m),
         HandleStartRecv \/ HandleRecv
  PROVE  /\ n = 1 /\ run' = run
         /\ \/ Bound(io', 1, 0) /\ state' = state
            \/ Bound(io', 0, 0) /\ state' = StateAfterDisconnect
         /\ state # "Started" => Bound(io', 0, 0)
<1>1. OnStrand
  BY DEF HandleStartRecv, HandleRecv, RunsCompletion
<1>2. Running \in Task
  BY <1>1, BoundRest
<1>3. Running \in Tokens("any")
  BY <1>2, RunningKind DEF HandleStartRecv, HandleRecv, RunsCompletion
<1>4. n = 1 /\ Bound(Rest, 0, 0)
  BY <1>1, <1>3, BoundRest
<1>5. Bound(PostRecv(Rest), 1, 0) /\ (state # "Started" => Bound(PostRecv(Rest), 0, 0))
  BY <1>4, BoundPostRecv
<1>6. Bound(DoDisconnect(Rest), 0, 0)
  <2>1. 0 \in 0..1 /\ 0 <= 0
    OBVIOUS
  <2> QED
    BY <1>4, <2>1, BoundDisconnect
<1>7. \/ io' = PostRecv(Rest) /\ state' = state
      \/ io' = DoDisconnect(Rest) /\ state' = StateAfterDisconnect
  BY DEF HandleStartRecv, HandleRecv
<1>8. run' = run
  BY DEF HandleStartRecv, HandleRecv
<1> QED
  BY <1>4, <1>5, <1>6, <1>7, <1>8

LEMMA NothingSent ==
  ASSUME NEW n \in 0..1, NEW m \in 0..1, m <= n, Bound(io, n, m)
  PROVE  ~HandleSent
<1> SUFFICES ASSUME HandleSent PROVE FALSE
  OBVIOUS
<1>1. OnStrand /\ Running.t = "Done" /\ Running.op = "send"
  BY DEF HandleSent, RunsCompletion
<1>2. Running \in Task /\ Running \notin Absent
  BY <1>1, BoundRest
<1> QED
  BY <1>1, <1>2, RunningKind

\* DoneConnect ends: the connection is read, or there is nothing left of it.
LEMMA BoundFinished ==
  ASSUME Bound(io, 0, 0), DoneFinish
  PROVE  /\ run' = Idle
         /\ \/ Bound(io', 1, 0) /\ state = "Started" /\ state' = "Started"
            \/ Bound(io', 0, 0) /\ state' = StateAfterDisconnect
<1> DEFINE started == run.ec = "ok" /\ state = "Started"
           c == IF started THEN Post(io, Simple("StartRecv")) ELSE DoDisconnect(io)
<1>1. 0 \in 0..1 /\ 0 <= 0 /\ 1 \in 0..1 /\ 0 <= 1
  OBVIOUS
<1>2. (started => Bound(c, 1, 0)) /\ (~started => Bound(c, 0, 0))
  BY <1>1, PlainFacts, BoundToken, BoundDisconnect
<1>3. /\ io' = (IF run.inEvent THEN NextEvent(c) ELSE c)
      /\ state' = (IF started THEN state ELSE StateAfterDisconnect) /\ run' = Idle
  BY DEF DoneFinish
<1> HIDE DEF c
<1>4. (started => Bound(io', 1, 0)) /\ (~started => Bound(io', 0, 0))
  BY <1>1, <1>2, <1>3, BoundNext
<1> QED
  BY <1>3, <1>4

LEMMA BoundPosted ==
  ASSUME TypeOK, Bound(io, 0, 0), StartPostResolve
  PROVE  Bound(io', 1, 1)
<1> DEFINE x == [t |-> "ArmTimeout", sync |-> api.sync]
           c == Post(io, x)
<1>1. 0 \in 0..1 /\ 0 <= 0
  OBVIOUS
<1>2. Plain(x)
  <2>1. api.sync \in BOOLEAN
    BY DEF TypeOK, Api
  <2> QED
    BY <2>1, PlainFacts
<1>3. Bound(c, 0, 0)
  BY <1>1, <1>2, BoundPlain
<1>4. io' = Post(c, Simple("Resolve"))
  BY DEF StartPostResolve
<1> HIDE DEF c
<1> QED
  BY <1>3, <1>4, PlainFacts, BoundToken

-----------------------------------------------------------------------------
(* The invariant: where an attempt may be while the calls do what they do. *)

\* A call of Start, or DoneConnect, carries the attempt.
Calling == api.start \in {"pool", "load", "connect", "post"}
Busy == Calling \/ run # Idle
Most == IF Busy THEN 0 ELSE 1
MostTrying == IF Busy \/ state = "Started" THEN 0 ELSE 1

Room == Bound(io, Most, MostTrying)
OneCaller == ~(Calling /\ run # Idle) /\ (Calling => state = "Starting")
EndAgrees ==
  run # Idle => /\ state = "Started" => run.ec = "ok"
                /\ state = "Starting" => run.ec # "ok"

\* A client that is Stopped or Stopping has no attempt, except while the call of
\* Stop that made it so is not over.
Quiet == ~Busy /\ Bound(io, 0, 0)
Wakes == {e \in Disconnects : e.defer = "wake"}
QuietStopped == state = "Stopped" => Quiet \/ (api.stop # "idle" /\ timer.canceled)
QuietStopping == state = "Stopping" => Quiet \/ (api.stop # "idle" /\ FreeOf(io, Wakes))

\* Calls do not overlap, and the pool is what they made it.
PoolAgrees ==
  /\ pool \in {"down", "exited"} => run = Idle /\ Bound(io, 0, 0)
  /\ api.start \in {"load", "connect", "post", "wait"} => pool = "up"
  /\ api.start # "idle" => api.stop = "idle"
  /\ pool \in {"draining", "exited"} <=> api.stop = "drain"

\* The reconnect timer is stopped before the disconnect of a Stop runs.
Stops == {e \in Disconnects : e.defer = "stop"}
Stopping == api.stop \in {"casStarted", "casStarting"}
TimerStopsFirst ==
  timer.canceled \/ Clear(io, Stops, {Simple("StopReconnectTimer")}, Stopping)

\* While the listener believes itself connected no other attempt is made.
OldStarting == {e \in Disconnects : e.old = "Starting"}
UpAgrees ==
  up => /\ state \in {"Started", "Stopping"} /\ FreeOf(io, OldStarting)
        /\ run.pc # "notify" /\ Bound(io, 1, 0)

NoSends == api.send = "idle" /\ calls.send = 0

Chain ==
  /\ Room /\ OneCaller /\ EndAgrees /\ QuietStopped /\ QuietStopping /\ PoolAgrees
  /\ TimerStopsFirst /\ UpAgrees /\ NoSends /\ ~crashed

AttemptInv == ClientInv /\ Chain

-----------------------------------------------------------------------------
(* What the steps leave alone.                                             *)

LEMMA IoLeaves ==
  ASSUME IoThreadStep \/ Network
  PROVE  api' = api /\ calls' = calls
<1>1. CASE IoThreadStep
  BY <1>1 DEF IoThreadStep, Deliver, RunReturns, HandleEnqueue, HandleDisconnectEvent,
     HandleStopEvent, HandleWakeEvent, HandleReconnectEvent, HandleStopReconnectTimer,
     HandleArmTimeout, HandleResolve, HandleResolved, HandleConnected, HandleTimeout,
     HandleReconnectTimer, HandleStartRecv, HandleRecv, HandleSent, DoneNotify, DoneFinish
<1>2. CASE Network
  BY <1>2 DEF Network, Resolves, Connects, Receives, Writes, TimerExpires, Expires, Completes
<1> QED
  BY <1>1, <1>2

LEMMA NetworkLeaves ==
  ASSUME Network \/ Deliver \/ RunReturns
  PROVE  /\ run' = run /\ state' = state /\ timer' = timer /\ up' = up /\ crashed' = crashed
         /\ ~RunReturns => pool' = pool
         /\ RunReturns => pool = "draining" /\ pool' = "exited"
         /\ IoThreadFree \/ pool \notin {"down", "exited"}
BY DEF Network, Resolves, Connects, Receives, Writes, TimerExpires, Expires, Completes,
   Deliver, RunReturns, IoThreadFree

PlainHandler ==
  \/ HandleEnqueue \/ HandleDisconnectEvent \/ HandleStopEvent \/ HandleWakeEvent
  \/ HandleStopReconnectTimer \/ HandleArmTimeout \/ HandleResolve \/ HandleTimeout
  \/ HandleReconnectTimer

LEMMA HandlersLeave ==
  ASSUME TypeOK, PlainHandler \/ HandleStartRecv \/ HandleRecv
  PROVE  /\ run' = run /\ pool' = pool /\ OnStrand
         /\ timer.canceled => timer'.canceled
         /\ ~HandleDisconnectEvent => up' = up /\ crashed' = crashed
         /\ HandleDisconnectEvent => timer' = timer
         /\ PlainHandler /\ ~HandleDisconnectEvent /\ ~Firing => state' = state
<1>0. HandleDisconnectEvent => timer' = timer
  BY DEF HandleDisconnectEvent
<1>1. CASE HandleEnqueue \/ HandleStopEvent \/ HandleWakeEvent \/ HandleStopReconnectTimer
            \/ HandleArmTimeout \/ HandleResolve \/ HandleTimeout
  BY <1>0, <1>1 DEF HandleEnqueue, HandleStopEvent, HandleWakeEvent, HandleStopReconnectTimer,
     HandleArmTimeout, HandleResolve, HandleTimeout, RunsEvent, RunsCompletion, TypeOK
<1>2. CASE HandleDisconnectEvent
  BY <1>2 DEF HandleDisconnectEvent, RunsEvent
<1>3. CASE HandleReconnectTimer
  BY <1>0, <1>3 DEF HandleReconnectTimer, RunsCompletion, Firing, TypeOK
<1>4. CASE HandleStartRecv \/ HandleRecv
  BY <1>4 DEF HandleStartRecv, HandleRecv, RunsCompletion, PlainHandler, HandleEnqueue,
     HandleDisconnectEvent, HandleStopEvent, HandleWakeEvent, HandleStopReconnectTimer,
     HandleArmTimeout, HandleResolve, HandleTimeout, HandleReconnectTimer, RunsEvent,
     ConnectTimer, ReconnectTimer
<1> QED
  BY <1>1, <1>2, <1>3, <1>4 DEF PlainHandler

LEMMA TriesLeave ==
  ASSUME HandleResolved \/ HandleConnected \/ HandleReconnectEvent
  PROVE  OnStrand /\ pool' = pool /\ timer' = timer /\ up' = up /\ crashed' = crashed
BY DEF HandleResolved, HandleConnected, HandleReconnectEvent, RunsEvent, RunsCompletion

LEMMA ApiLeaves ==
  ASSUME StartStep \/ StopStep \/ Application
  PROVE  /\ run' = run /\ up' = up
         /\ timer' = timer \/ (StartLoadReconnectTimer /\ timer' = [timer EXCEPT !.running = TRUE])
<1>1. CASE StartStep
  BY <1>1 DEF StartStep, StartPool, StartLoadReconnectTimer, StartConnect,
     StartPostResolve, StartBindFails, StartWait
<1>2. CASE StopStep
  BY <1>2 DEF StopStep, StopCasStarted, StopCasStarting, StopCas, StopPostStop, StopPool, StopJoin
<1>3. CASE Application
  BY <1>3 DEF Application, StartCall, StopCall, SendCall
<1> QED
  BY <1>1, <1>2, <1>3

\* Nobody sends, and calls do not overlap.
LEMMA ApiSteps ==
  ASSUME OverlappingCalls = FALSE, MaxSends = 0, TypeOK, NoSends, PoolAgrees
  PROVE  /\ ~SendCall /\ ~SendPost
         /\ StopCall \/ StopStep => api.start = "idle" /\ ~Calling
         /\ StartStep => api.start # "idle" /\ api.stop = "idle"
         /\ \A sync : StartCall(sync) => api.start = "idle" /\ api.stop = "idle"
<1>1. ~SendCall /\ ~SendPost
  BY DEF SendCall, SendPost, NoSends, TypeOK, Calls
<1>2. StopCall => api.start = "idle"
  BY DEF StopCall, MayStop
<1>3. StopStep => api.stop # "idle"
  BY DEF StopStep, StopCasStarted, StopCasStarting, StopCas, StopPostStop, StopPool, StopJoin
<1>4. StopStep => api.start = "idle"
  BY <1>3 DEF PoolAgrees
<1>5. StartStep => api.start # "idle"
  BY DEF StartStep, StartPool, StartLoadReconnectTimer, StartConnect,
     StartPostResolve, StartBindFails, StartWait
<1>6. \A sync : StartCall(sync) => api.start = "idle" /\ api.stop = "idle"
  BY DEF StartCall, MayStart
<1> QED
  BY <1>1, <1>2, <1>4, <1>5, <1>6 DEF PoolAgrees, Calling

\* How the calls move.
LEMMA ApiMoves ==
  ASSUME TypeOK, StartStep \/ StopStep \/ Application
  PROVE  /\ Calling' => Calling \/ \E sync \in SyncStart : StartCall(sync)
         /\ StartPostResolve \/ StartBindFails => ~Calling'
         /\ state' = "Started" => state = "Started"
         /\ state' # state => \/ \E sync \in SyncStart : StartCall(sync)
                              \/ StartBindFails
                              \/ StopCasStarted \/ StopCasStarting
<1>1. CASE StartStep
  BY <1>1 DEF StartStep, StartPool, StartLoadReconnectTimer, StartConnect,
     StartPostResolve, StartBindFails, StartWait, StateAfterDisconnect, Disconnecting,
     Calling, TypeOK, Api
<1>2. CASE StopStep
  BY <1>2 DEF StopStep, StopCasStarted, StopCasStarting, StopCas, StopPostStop, StopPool,
     StopJoin, StartPostResolve, StartBindFails, Calling, TypeOK, Api
<1>3. CASE Application
  BY <1>3 DEF Application, StartCall, StopCall, SendCall, StartPostResolve, StartBindFails,
     Calling, TypeOK, Api
<1> QED
  BY <1>1, <1>2, <1>3

-----------------------------------------------------------------------------
(* The parts of the invariant are kept.                                    *)

LEMMA RoomNumbers == Most \in 0..1 /\ MostTrying \in 0..1 /\ MostTrying <= Most
BY DEF Most, MostTrying

LEMMA RoomFrom ==
  /\ Bound(io', 0, 0) => Room'
  /\ Bound(io', 1, 1) /\ ~Busy' /\ state' # "Started" => Room'
  /\ Bound(io', 1, 0) /\ ~Busy' => Room'
  /\ Bound(io', Most, MostTrying) /\ (Busy' => Busy) /\ (state' = "Started" => state = "Started")
       => Room'
<1>1. Most' \in 0..1 /\ MostTrying' \in 0..1
  BY DEF Most, MostTrying
<1>2. Room' <=> Bound(io', Most', MostTrying')
  BY DEF Room
<1>3. ASSUME NEW n \in 0..1, NEW m \in 0..1, n <= Most', m <= MostTrying', Bound(io', n, m)
      PROVE  Room'
  <2>1. Most' \in Nat /\ MostTrying' \in Nat /\ n \in Nat /\ m \in Nat
    BY <1>1
  <2> QED
    BY <1>2, <1>3, <2>1, BoundLess
<1>4. Bound(io', 0, 0) => Room'
  BY <1>1, <1>3
<1>5. Bound(io', 1, 1) /\ ~Busy' /\ state' # "Started" => Room'
  BY <1>3 DEF Most, MostTrying
<1>6. Bound(io', 1, 0) /\ ~Busy' => Room'
  <2>1. ~Busy' => Most' = 1 /\ 0 <= MostTrying'
    BY <1>1 DEF Most
  <2> QED
    BY <1>3, <2>1
<1>7. (Busy' => Busy) /\ (state' = "Started" => state = "Started")
        => Most <= Most' /\ MostTrying <= MostTrying'
  BY DEF Most, MostTrying
<1> QED
  BY <1>3, <1>4, <1>5, <1>6, <1>7, RoomNumbers

\* A bound with nothing in it, for a client that is busy.
LEMMA BusyRoom ==
  ASSUME Room, Busy
  PROVE  Bound(io, 0, 0)
BY DEF Room, Most, MostTrying

\* The steps that change neither the number of attempts nor who carries one.
Idling ==
  \/ StartStep /\ ~StartPostResolve
  \/ StopStep \/ StopCall
  \/ Network \/ Deliver \/ RunReturns
  \/ PlainHandler /\ ~Firing

LEMMA IdlingKeeps ==
  ASSUME OverlappingCalls = FALSE, MaxSends = 0, TypeOK, NoSends, PoolAgrees, Idling
  PROVE  /\ \A n \in 0..1, m \in 0..1 : m <= n /\ Bound(io, n, m) => Bound(io', n, m)
         /\ run' = run /\ (Calling' => Calling) /\ (state' = "Started" => state = "Started")
<1>1. CASE (StartStep /\ ~StartPostResolve) \/ StopStep \/ StopCall
  <2>1. \A sync : ~StartCall(sync)
    <3>1. ASSUME NEW sync, StartCall(sync) PROVE FALSE
      <4>1. api.start = "idle" /\ api.stop = "idle" /\ state' = "Starting"
            /\ api'.start = "pool"
        BY <3>1, ApiSteps DEF StartCall, TypeOK, Api
      <4>2. ~StartStep
        BY <4>1, ApiSteps
      <4>3. ~StopStep
        BY <4>1 DEF StopStep, StopCasStarted, StopCasStarting, StopCas, StopPostStop, StopPool,
           StopJoin
      <4>4. ~StopCall
        BY <4>1 DEF StopCall, TypeOK, Api
      <4> QED
        BY <1>1, <4>2, <4>3, <4>4
    <3> QED
      BY <3>1
  <2>2. (StartStep /\ ~StartPostResolve) \/ StopStep \/ Application
    BY <1>1 DEF Application
  <2> QED
    BY <2>1, <2>2, BoundApi, ApiLeaves, ApiMoves
<1>2. CASE Network \/ Deliver \/ RunReturns
  <2>1. api' = api
    BY <1>2, IoLeaves DEF IoThreadStep
  <2> QED
    BY <1>2, <2>1, BoundNetwork, NetworkLeaves DEF Calling
<1>3. CASE PlainHandler /\ ~Firing
  <2>1. api' = api
    BY <1>3, IoLeaves DEF IoThreadStep, PlainHandler
  <2>2. state' = "Started" => state = "Started"
    <3>1. CASE HandleDisconnectEvent
      BY <3>1 DEF HandleDisconnectEvent
    <3>2. CASE ~HandleDisconnectEvent
      BY <1>3, <3>2, HandlersLeave
    <3> QED
      BY <3>1, <3>2
  <2>3. run' = run
    BY <1>3, HandlersLeave
  <2> QED
    BY <1>3, <2>1, <2>2, <2>3, BoundHandlers DEF PlainHandler, Calling
<1> QED
  BY <1>1, <1>2, <1>3 DEF Idling

\* Every step idles, or is one of these.
LEMMA Cases ==
  ASSUME OverlappingCalls = FALSE, MaxSends = 0, TypeOK, NoSends, PoolAgrees, Room, Next
  PROVE  \/ Idling
         \/ \E sync \in SyncStart : StartCall(sync)
         \/ StartPostResolve
         \/ Firing
         \/ HandleResolved \/ HandleConnected \/ HandleReconnectEvent
         \/ HandleStartRecv \/ HandleRecv
         \/ DoneNotify \/ DoneFinish
<1>1. ~HandleSent
  BY RoomNumbers, NothingSent DEF Room
<1>2. ~SendCall /\ ~SendPost
  BY ApiSteps
<1> QED
  BY <1>1, <1>2 DEF Next, IoThreadStep, Application, Idling, PlainHandler

\* A call of Start begins on a client where nothing is left of the last attempt.
LEMMA StartsQuiet ==
  ASSUME OverlappingCalls = FALSE, MaxSends = 0, TypeOK, NoSends, PoolAgrees, QuietStopped,
         NEW sync \in SyncStart, StartCall(sync)
  PROVE  Bound(io', 0, 0) /\ run = Idle /\ run' = run /\ state' = "Starting" /\ up' = up
<1>1. api.stop = "idle" /\ state = "Stopped"
  BY ApiSteps DEF StartCall
<1>2. Quiet
  BY <1>1 DEF QuietStopped
<1> QED
  BY <1>2 DEF Quiet, Busy, StartCall

\* The reconnect timer starts an attempt on such a client, too.
LEMMA FiresQuiet ==
  ASSUME QuietStopped, Firing
  PROVE  /\ Bound(io, 0, 0) /\ ~Busy /\ ~Busy' /\ run' = run /\ api' = api /\ up' = up
         /\ state = "Stopped" /\ timer' = timer /\ crashed' = crashed /\ pool' = pool
         /\ OnStrand
         /\ (Bound(io', 1, 1) /\ state' \in {"Starting", "Stopped"})
              \/ (Bound(io', 0, 0) /\ state' = "Stopped")
         /\ state' = "Stopped" => Bound(io', 0, 0)
<1>1. state = "Stopped" /\ ~timer.canceled
  BY DEF Firing, ReconnectFires
<1>2. Quiet
  BY <1>1 DEF QuietStopped
<1>3. /\ run' = run /\ api' = api /\ up' = up /\ timer' = timer /\ crashed' = crashed
      /\ pool' = pool /\ OnStrand
      /\ state' = "Starting" \/ (state' = "Stopped" /\ io' = ArmReconnectTimer(Rest, "retryWait"))
  BY <1>1 DEF Firing, HandleReconnectTimer, RunsCompletion
<1>4. Bound(io, 0, 0) /\ ~Busy /\ ~Busy'
  BY <1>2, <1>3 DEF Quiet, Busy, Calling
<1>5. Bound(io', 1, 1) \/ (Bound(io', 0, 0) /\ state' = state)
  BY <1>4, BoundFiring
<1>6. state' = "Stopped" => Bound(io', 0, 0)
  <2>1. 0 \in 0..1 /\ 0 <= 0 /\ "retryWait" \in ReconnectTimer
    BY DEF ReconnectTimer
  <2>2. Bound(ArmReconnectTimer(Rest, "retryWait"), 0, 0)
    BY <1>3, <1>4, <2>1, BoundRest, BoundClose
  <2> QED
    BY <1>3, <2>2
<1> QED
  BY <1>1, <1>3, <1>4, <1>5, <1>6

LEMMA RoomNext ==
  ASSUME OverlappingCalls = FALSE, MaxSends = 0, AttemptInv, Next
  PROVE  Room'
<1>1. TypeOK /\ NoSends /\ PoolAgrees /\ Room /\ OneCaller /\ QuietStopped
  BY DEF AttemptInv, ClientInv, Chain
<1>2. CASE Idling
  <2>1. Bound(io', Most, MostTrying)
    BY <1>1, <1>2, IdlingKeeps, RoomNumbers DEF Room
  <2>2. (Busy' => Busy) /\ (state' = "Started" => state = "Started")
    BY <1>1, <1>2, IdlingKeeps DEF Busy
  <2> QED
    BY <2>1, <2>2, RoomFrom
<1>3. CASE \E sync \in SyncStart : StartCall(sync)
  BY <1>1, <1>3, StartsQuiet, RoomFrom
<1>4. CASE StartPostResolve
  <2>1. Calling /\ state' = state /\ run' = run
    BY <1>4 DEF StartPostResolve, Calling
  <2>2. Bound(io, 0, 0)
    BY <1>1, <2>1, BusyRoom DEF Busy
  <2>3. run = Idle /\ state = "Starting"
    BY <1>1, <2>1 DEF OneCaller
  <2>4. ~Calling'
    BY <1>1, <1>4, ApiMoves DEF StartStep
  <2> QED
    BY <1>1, <1>4, <2>1, <2>2, <2>3, <2>4, BoundPosted, RoomFrom DEF Busy
<1>5. CASE Firing
  BY <1>1, <1>5, FiresQuiet, RoomFrom
<1>6. CASE HandleResolved \/ HandleConnected \/ HandleReconnectEvent
  <2>1. /\ Most = 1 /\ MostTrying = 1
        /\ \/ Bound(io', 1, 1) /\ UNCHANGED <<state, run>>
           \/ Bound(io', 0, 0) /\ Ended
    BY <1>1, <1>6, BoundTries, RoomNumbers DEF Room
  <2>2. ~Busy /\ state # "Started"
    BY <2>1 DEF Most, MostTrying
  <2>3. api' = api
    BY <1>6, IoLeaves DEF IoThreadStep
  <2>4. CASE Bound(io', 0, 0)
    BY <2>4, RoomFrom
  <2>5. CASE Bound(io', 1, 1) /\ UNCHANGED <<state, run>>
    BY <2>2, <2>3, <2>5, RoomFrom DEF Busy, Calling
  <2> QED
    BY <2>1, <2>4, <2>5
<1>7. CASE HandleStartRecv \/ HandleRecv
  <2>1. Most = 1 /\ run' = run /\ (Bound(io', 1, 0) \/ Bound(io', 0, 0))
    BY <1>1, <1>7, BoundReads, RoomNumbers DEF Room
  <2>2. ~Busy
    BY <2>1 DEF Most
  <2>3. api' = api
    BY <1>7, IoLeaves DEF IoThreadStep
  <2>4. ~Busy'
    BY <2>1, <2>2, <2>3 DEF Busy, Calling
  <2> QED
    BY <2>1, <2>4, RoomFrom
<1>8. CASE DoneNotify
  <2>1. run # Idle /\ io' = io
    BY <1>8 DEF DoneNotify, Idle
  <2>2. Bound(io, 0, 0)
    BY <1>1, <2>1, BusyRoom DEF Busy
  <2> QED
    BY <2>1, <2>2, RoomFrom
<1>9. CASE DoneFinish
  <2>1. run # Idle
    BY <1>9 DEF DoneFinish, Idle
  <2>2. Bound(io, 0, 0) /\ ~Calling
    BY <1>1, <2>1, BusyRoom DEF Busy, OneCaller
  <2>3. api' = api
    BY <1>9, IoLeaves DEF IoThreadStep
  <2>4. run' = Idle /\ (Bound(io', 1, 0) \/ Bound(io', 0, 0))
    BY <1>9, <2>2, BoundFinished
  <2>5. ~Busy'
    BY <2>2, <2>3, <2>4 DEF Busy, Calling
  <2> QED
    BY <2>4, <2>5, RoomFrom
<1> QED
  BY <1>1, <1>2, <1>3, <1>4, <1>5, <1>6, <1>7, <1>8, <1>9, Cases

LEMMA CallerNext ==
  ASSUME OverlappingCalls = FALSE, MaxSends = 0, AttemptInv, Next
  PROVE  OneCaller' /\ EndAgrees'
<1>1. /\ TypeOK /\ NoSends /\ PoolAgrees /\ Room /\ OneCaller /\ EndAgrees /\ QuietStopped
      /\ GuardAlone /\ OneDisconnect
  BY DEF AttemptInv, ClientInv, Chain
<1>2. CASE Idling
  <2>1. run' = run /\ (Calling' => Calling)
    BY <1>1, <1>2, IdlingKeeps
  <2>2. ASSUME Calling' PROVE state' = "Starting"
    <3>1. Calling /\ state = "Starting" /\ run = Idle
      BY <1>1, <2>1, <2>2 DEF OneCaller
    <3>2. CASE StartStep \/ StopStep \/ StopCall
      <4>1. StartStep
        BY <1>1, <3>1, <3>2, ApiSteps
      <4>2. ~StartBindFails
        BY <1>1, <2>2, <4>1, ApiMoves
      <4> QED
        BY <1>1, <3>1, <4>1, <4>2 DEF StartStep, StartPool, StartLoadReconnectTimer,
           StartConnect, StartPostResolve, StartWait
    <3>3. CASE Network \/ Deliver \/ RunReturns
      BY <3>1, <3>3, NetworkLeaves
    <3>4. CASE PlainHandler /\ ~Firing
      <4>1. ~HandleDisconnectEvent
        BY <1>1, <3>1, DisconnectFindsStopping DEF HandleDisconnectEvent
      <4> QED
        BY <1>1, <3>1, <3>4, <4>1, HandlersLeave
    <3> QED
      BY <1>2, <3>2, <3>3, <3>4 DEF Idling
  <2>3. OneCaller'
    BY <1>1, <2>1, <2>2 DEF OneCaller
  <2>4. ASSUME run' # Idle
        PROVE  (state' = "Started" => run'.ec = "ok") /\ (state' = "Starting" => run'.ec # "ok")
    <3>1. run # Idle /\ ~Calling
      BY <1>1, <2>1, <2>4 DEF OneCaller
    <3>2. state' = state \/ state' = "Stopping"
      <4>1. ~OnStrand
        BY <3>1 DEF OnStrand, IoThreadFree
      <4>2. ~PlainHandler
        BY <1>1, <4>1, HandlersLeave
      <4>3. CASE Network \/ Deliver \/ RunReturns
        BY <4>3, NetworkLeaves
      <4>4. CASE StartStep
        BY <3>1, <4>4 DEF StartStep, StartPool, StartLoadReconnectTimer, StartConnect,
           StartPostResolve, StartBindFails, StartWait, Calling
      <4>5. CASE StopStep \/ StopCall
        BY <4>5 DEF StopStep, StopCasStarted, StopCasStarting, StopCas, StopPostStop,
           StopPool, StopJoin, StopCall
      <4> QED
        BY <1>2, <4>2, <4>3, <4>4, <4>5 DEF Idling
    <3> QED
      BY <1>1, <2>1, <3>1, <3>2 DEF EndAgrees
  <2> QED
    BY <2>3, <2>4 DEF EndAgrees
<1>3. CASE \E sync \in SyncStart : StartCall(sync)
  BY <1>1, <1>3, StartsQuiet DEF OneCaller, EndAgrees
<1>4. CASE StartPostResolve
  <2>1. ~Calling' /\ state' = state /\ run' = run
    BY <1>1, <1>4, ApiMoves DEF StartStep, StartPostResolve
  <2> QED
    BY <1>1, <2>1 DEF OneCaller, EndAgrees
<1>5. CASE Firing
  BY <1>1, <1>5, FiresQuiet DEF OneCaller, EndAgrees, Busy
<1>6. CASE HandleResolved \/ HandleConnected \/ HandleReconnectEvent
  <2>1. /\ Most = 1 /\ MostTrying = 1
        /\ (UNCHANGED <<state, run>>) \/ Ended
    BY <1>1, <1>6, BoundTries, RoomNumbers DEF Room
  <2>2. ~Busy /\ state # "Started"
    BY <2>1 DEF Most, MostTrying
  <2>3. api' = api
    BY <1>6, IoLeaves DEF IoThreadStep
  <2>4. ~Calling'
    BY <2>2, <2>3 DEF Busy, Calling
  <2>5. (run' = Idle) \/ Ended
    BY <2>1, <2>2 DEF Busy
  <2> QED
    BY <2>2, <2>4, <2>5 DEF OneCaller, EndAgrees, Ended
<1>7. CASE HandleStartRecv \/ HandleRecv
  <2>1. Most = 1 /\ run' = run
    BY <1>1, <1>7, BoundReads, RoomNumbers DEF Room
  <2>2. ~Busy
    BY <2>1 DEF Most
  <2>3. api' = api
    BY <1>7, IoLeaves DEF IoThreadStep
  <2> QED
    BY <2>1, <2>2, <2>3 DEF OneCaller, EndAgrees, Busy, Calling
<1>8. CASE DoneNotify
  <2>1. run # Idle /\ state' = state /\ api' = api /\ run'.ec = run.ec
    BY <1>1, <1>8 DEF DoneNotify, Idle, TypeOK, Run
  <2> QED
    BY <1>1, <2>1 DEF OneCaller, EndAgrees, Calling
<1>9. CASE DoneFinish
  <2>1. run # Idle /\ run' = Idle /\ api' = api
    BY <1>9 DEF DoneFinish, Idle
  <2> QED
    BY <1>1, <2>1 DEF OneCaller, EndAgrees, Calling
<1> QED
  BY <1>1, <1>2, <1>3, <1>4, <1>5, <1>6, <1>7, <1>8, <1>9, Cases

LEMMA NoCrashNext ==
  ASSUME OverlappingCalls = FALSE, MaxSends = 0, AttemptInv, Next
  PROVE  ~crashed'
<1>1. /\ TypeOK /\ NoSends /\ PoolAgrees /\ Room /\ OneCaller /\ EndAgrees /\ QuietStopped
      /\ GuardAlone /\ OneDisconnect /\ ~crashed
  BY DEF AttemptInv, ClientInv, Chain
<1>2. CASE HandleDisconnectEvent
  <2>1. state = "Stopping"
    BY <1>1, <1>2, DisconnectFindsStopping DEF HandleDisconnectEvent
  <2> QED
    BY <1>1, <1>2, <2>1 DEF HandleDisconnectEvent
<1>3. CASE StartBindFails
  <2>1. Calling
    BY <1>3 DEF StartBindFails, Calling
  <2> QED
    BY <1>1, <1>3, <2>1 DEF StartBindFails, OneCaller
<1>4. CASE DoneNotify
  <2>1. run # Idle
    BY <1>4 DEF DoneNotify, Idle
  <2> QED
    BY <1>1, <1>4, <2>1 DEF DoneNotify, EndAgrees
<1>5. CASE StartStep /\ ~StartBindFails
  BY <1>1, <1>5 DEF StartStep, StartPool, StartLoadReconnectTimer, StartConnect,
     StartPostResolve, StartWait
<1>6. CASE StopStep \/ Application
  BY <1>1, <1>6 DEF StopStep, StopCasStarted, StopCasStarting, StopCas, StopPostStop,
     StopPool, StopJoin, Application, StartCall, StopCall, SendCall
<1>7. CASE Network \/ Deliver \/ RunReturns
  BY <1>1, <1>7, NetworkLeaves
<1>8. CASE (PlainHandler \/ HandleStartRecv \/ HandleRecv) /\ ~HandleDisconnectEvent
  BY <1>1, <1>8, HandlersLeave
<1>9. CASE HandleResolved \/ HandleConnected \/ HandleReconnectEvent
  BY <1>1, <1>9, TriesLeave
<1>10. CASE DoneFinish \/ HandleSent \/ SendPost
  BY <1>1, <1>10 DEF DoneFinish, HandleSent, SendPost
<1> QED
  BY <1>2, <1>3, <1>4, <1>5, <1>6, <1>7, <1>8, <1>9, <1>10
     DEF Next, IoThreadStep, PlainHandler

LEMMA NoSendsNext ==
  ASSUME OverlappingCalls = FALSE, MaxSends = 0, AttemptInv, Next
  PROVE  NoSends'
<1>1. TypeOK /\ NoSends /\ PoolAgrees
  BY DEF AttemptInv, ClientInv, Chain
<1>2. ~SendCall /\ ~SendPost
  BY <1>1, ApiSteps
<1>3. CASE IoThreadStep \/ Network
  BY <1>1, <1>3, IoLeaves DEF NoSends
<1>4. CASE StartStep
  BY <1>1, <1>4 DEF StartStep, StartPool, StartLoadReconnectTimer, StartConnect,
     StartPostResolve, StartBindFails, StartWait, NoSends, TypeOK, Api
<1>5. CASE StopStep
  BY <1>1, <1>5 DEF StopStep, StopCasStarted, StopCasStarting, StopCas, StopPostStop,
     StopPool, StopJoin, NoSends, TypeOK, Api
<1>6. CASE Application
  BY <1>1, <1>2, <1>6 DEF Application, StartCall, StopCall, NoSends, TypeOK, Api, Calls
<1> QED
  BY <1>2, <1>3, <1>4, <1>5, <1>6 DEF Next

LEMMA QuietKept ==
  ASSUME OverlappingCalls = FALSE, MaxSends = 0, AttemptInv, Next, Quiet,
         ~Firing, \A sync \in SyncStart : ~StartCall(sync)
  PROVE  Quiet'
<1>1. /\ TypeOK /\ NoSends /\ PoolAgrees /\ Room
      /\ Bound(io, 0, 0) /\ ~Busy /\ ~Calling /\ run = Idle
  BY DEF AttemptInv, ClientInv, Chain, Quiet, Busy
<1>2. 0 \in 0..1 /\ 0 <= 0 /\ 0 # 1
  OBVIOUS
<1>3. CASE Idling
  BY <1>1, <1>2, <1>3, IdlingKeeps DEF Quiet, Busy
<1>4. ~StartPostResolve
  BY <1>1 DEF StartPostResolve, Calling
<1>5. ~(HandleResolved \/ HandleConnected \/ HandleReconnectEvent)
  BY <1>1, <1>2, BoundTries
<1>6. ~(HandleStartRecv \/ HandleRecv)
  BY <1>1, <1>2, BoundReads
<1>7. ~DoneNotify /\ ~DoneFinish
  BY <1>1 DEF DoneNotify, DoneFinish, Idle
<1> QED
  BY <1>1, <1>3, <1>4, <1>5, <1>6, <1>7, Cases

\* A call of Stop is over only when the pool is down, or was drained.
LEMMA StopEnds ==
  ASSUME OverlappingCalls = FALSE, MaxSends = 0, AttemptInv, Next,
         api.stop # "idle", api'.stop = "idle"
  PROVE  Quiet'
<1>1. TypeOK /\ NoSends /\ PoolAgrees
  BY DEF AttemptInv, ClientInv, Chain
<1>2. ~(IoThreadStep \/ Network)
  BY IoLeaves
<1>3. ~StartStep /\ ~SendPost /\ ~SendCall /\ \A sync : ~StartCall(sync)
  BY <1>1, ApiSteps
<1>4. ~StopCall
  BY DEF StopCall
<1>5. StopPool \/ StopJoin
  BY <1>1, <1>2, <1>3, <1>4 DEF Next, Application, StopStep, StopCasStarted, StopCasStarting,
     StopCas, StopPostStop, TypeOK, Api
<1>6. pool \in {"down", "exited"}
  BY <1>1, <1>5 DEF StopPool, StopJoin, PoolAgrees, TypeOK, Api
<1>7. run = Idle /\ Bound(io, 0, 0) /\ api.start = "idle"
  BY <1>1, <1>6 DEF PoolAgrees
<1>8. run' = run /\ io' = io /\ api'.start = api.start
  BY <1>1, <1>5 DEF StopPool, StopJoin, TypeOK, Api
<1> QED
  BY <1>7, <1>8 DEF Quiet, Busy, Calling

\* reconnect_timer_canceled_ is never reset.
LEMMA CanceledStays ==
  ASSUME TypeOK, Next, timer.canceled
  PROVE  timer'.canceled
<1>1. CASE StartStep \/ StopStep \/ Application
  BY <1>1, ApiLeaves DEF TypeOK
<1>2. CASE Network \/ Deliver \/ RunReturns
  BY <1>2, NetworkLeaves
<1>3. CASE PlainHandler \/ HandleStartRecv \/ HandleRecv
  BY <1>3, HandlersLeave
<1>4. CASE HandleResolved \/ HandleConnected \/ HandleReconnectEvent
  BY <1>4, TriesLeave
<1>5. CASE DoneNotify \/ DoneFinish \/ HandleSent \/ SendPost
  BY <1>5 DEF DoneNotify, DoneFinish, HandleSent, SendPost
<1> QED
  BY <1>1, <1>2, <1>3, <1>4, <1>5 DEF Next, IoThreadStep, PlainHandler

LEMMA StateMoves ==
  ASSUME OverlappingCalls = FALSE, MaxSends = 0, TypeOK, NoSends, PoolAgrees, Room, Next
  PROVE  /\ state' = "Stopped" /\ state # "Stopped" => HandleDisconnectEvent
         /\ state' = "Stopping" /\ state # "Stopping"
              => StopCasStarted \/ StopCasStarting \/ StartBindFails \/ HandleRecv \/ DoneFinish
<1>1. CASE StartStep \/ StopStep \/ Application
  <2>1. CASE state' = state
    BY <2>1
  <2>2. CASE \E sync \in SyncStart : StartCall(sync)
    BY <2>2 DEF StartCall
  <2>3. CASE StartBindFails
    BY <2>3 DEF StartBindFails, StateAfterDisconnect
  <2>4. CASE StopCasStarted \/ StopCasStarting
    BY <2>4 DEF StopCasStarted, StopCasStarting, StopCas
  <2> QED
    BY <1>1, <2>1, <2>2, <2>3, <2>4, ApiMoves
<1>2. CASE Network \/ Deliver \/ RunReturns
  BY <1>2, NetworkLeaves
<1>3. CASE HandleDisconnectEvent
  BY <1>3 DEF HandleDisconnectEvent
<1>4. CASE PlainHandler /\ ~HandleDisconnectEvent
  <2>1. CASE Firing
    BY <2>1 DEF Firing, HandleReconnectTimer, ReconnectFires
  <2>2. CASE ~Firing
    BY <1>4, <2>2, HandlersLeave
  <2> QED
    BY <2>1, <2>2
<1>5. CASE HandleResolved \/ HandleConnected \/ HandleReconnectEvent
  BY <1>5, BoundTries, RoomNumbers DEF Room, Ended
<1>6. CASE HandleStartRecv \/ HandleRecv \/ DoneFinish
  BY <1>6 DEF HandleStartRecv, HandleRecv, DoneFinish, StateAfterDisconnect
<1>7. CASE DoneNotify
  BY <1>7 DEF DoneNotify
<1>8. ~HandleSent /\ ~SendPost
  BY RoomNumbers, NothingSent, ApiSteps DEF Room
<1> QED
  BY <1>1, <1>2, <1>3, <1>4, <1>5, <1>6, <1>7, <1>8 DEF Next, IoThreadStep, PlainHandler

\* A client becomes Stopped through the disconnect of a Stop only behind the task
\* that stops its reconnect timer.
LEMMA StopCanceled ==
  ASSUME TypeOK, TimerStopsFirst, FreeOf(io, Wakes), HandleDisconnectEvent
  PROVE  timer.canceled
<1> SUFFICES ASSUME ~timer.canceled PROVE FALSE
  OBVIOUS
<1>1. OnStrand /\ Running.t = "Event" /\ Running.ev.t = "disconnect" /\ io \in Io
  BY DEF HandleDisconnectEvent, RunsEvent, TypeOK
<1>2. Running \in Task /\ Running \notin TasksOf(Wakes)
  BY <1>1, FreeRest DEF FreeOf
<1>3. Running \notin TasksOf(Stops)
  BY <1>1, FreeRest DEF TimerStopsFirst
<1>4. Running.ev \in Event
  BY <1>1, <1>2, TaskFields
<1>5. Running.ev.defer \in {"wake", "stop"}
  BY <1>1, <1>4 DEF Event
<1>6. Running.ev \in Wakes \cup Stops
  BY <1>1, <1>4, <1>5 DEF Wakes, Stops, Disconnects
<1> QED
  BY <1>1, <1>2, <1>3, <1>6 DEF TasksOf

LEMMA QuietStoppedNext ==
  ASSUME OverlappingCalls = FALSE, MaxSends = 0, AttemptInv, Next
  PROVE  QuietStopped'
<1>1. /\ TypeOK /\ NoSends /\ PoolAgrees /\ Room /\ QuietStopped /\ QuietStopping
      /\ TimerStopsFirst /\ GuardAlone /\ OneDisconnect
  BY DEF AttemptInv, ClientInv, Chain
<1> SUFFICES ASSUME state' = "Stopped"
             PROVE  Quiet' \/ (api'.stop # "idle" /\ timer'.canceled)
  BY DEF QuietStopped
<1>2. \A sync \in SyncStart : ~StartCall(sync)
  BY DEF StartCall
<1>3. CASE state = "Stopped" /\ Quiet
  <2>1. CASE Firing
    BY <1>1, <2>1, FiresQuiet DEF Quiet
  <2>2. CASE ~Firing
    BY <1>2, <1>3, <2>2, QuietKept
  <2> QED
    BY <2>1, <2>2
<1>4. CASE state = "Stopped" /\ ~Quiet
  <2>1. api.stop # "idle" /\ timer.canceled
    BY <1>1, <1>4 DEF QuietStopped
  <2>2. timer'.canceled
    BY <1>1, <2>1, CanceledStays
  <2> QED
    BY <2>1, <2>2, StopEnds
<1>5. CASE state # "Stopped"
  <2>1. HandleDisconnectEvent
    BY <1>1, <1>5, StateMoves
  <2>2. state = "Stopping"
    BY <1>1, <2>1, DisconnectFindsStopping DEF HandleDisconnectEvent
  <2>3. ~Firing
    BY <1>5 DEF Firing, ReconnectFires
  <2>4. CASE Quiet
    BY <1>2, <2>3, <2>4, QuietKept
  <2>5. CASE ~Quiet
    <3>1. api.stop # "idle" /\ FreeOf(io, Wakes)
      BY <1>1, <2>2, <2>5 DEF QuietStopping
    <3>2. timer.canceled
      BY <1>1, <2>1, <3>1, StopCanceled
    <3>3. api' = api /\ timer' = timer
      BY <2>1 DEF HandleDisconnectEvent
    <3> QED
      BY <3>1, <3>2, <3>3
  <2> QED
    BY <2>4, <2>5
<1> QED
  BY <1>3, <1>4, <1>5

LEMMA WakesFacts ==
  /\ \A n \in {"stop", "wake", "reconnect", "send"} : Simple(n) \notin Wakes
  /\ \A o : DisconnectOf(o, "stop") \notin Wakes
  /\ DisconnectOf("Stopping", "wake") \notin Wakes
  /\ Wakes \subseteq Disconnects
BY DEF Wakes, Disconnects, Simple, DisconnectOf, Event

LEMMA QuietStoppingNext ==
  ASSUME OverlappingCalls = FALSE, MaxSends = 0, AttemptInv, Next
  PROVE  QuietStopping'
<1>1. /\ TypeOK /\ NoSends /\ PoolAgrees /\ Room /\ OneCaller /\ QuietStopping
      /\ OneDisconnect /\ io \in Io
  BY DEF AttemptInv, ClientInv, Chain, TypeOK
<1> SUFFICES ASSUME state' = "Stopping"
             PROVE  Quiet' \/ (api'.stop # "idle" /\ FreeOf(io', Wakes))
  BY DEF QuietStopping
<1>2. CASE state = "Stopping"
  <2>1. ~Firing /\ \A sync \in SyncStart : ~StartCall(sync)
    BY <1>2 DEF Firing, ReconnectFires, StartCall
  <2>2. CASE Quiet
    BY <2>1, <2>2, QuietKept
  <2>3. CASE ~Quiet
    <3>1. api.stop # "idle" /\ FreeOf(io, Wakes)
      BY <1>1, <1>2, <2>3 DEF QuietStopping
    <3>2. ~Adds(Wakes)
      BY <1>2, WakesFacts DEF Adds
    <3>3. FreeOf(io', Wakes)
      BY <1>1, <3>1, <3>2, FreeStep
    <3> QED
      BY <3>1, <3>3, StopEnds
  <2> QED
    BY <2>2, <2>3
<1>3. CASE state # "Stopping" /\ (StopCasStarted \/ StopCasStarting)
  <2>1. Tracked(io, 0)
    BY <1>1, <1>3 DEF OneDisconnect, One
  <2>2. FreeOf(io, Wakes)
    BY <1>1, <2>1, NoneOnItsWay, WakesFacts
  <2>3. PICK old \in {"Started", "Starting"} :
          /\ io' = EventEnqueueFromOutside(io, DisconnectOf(old, "stop"))
          /\ api' = [api EXCEPT !.stop = "pool"]
    BY <1>3 DEF StopCasStarted, StopCasStarting, StopCas, DisconnectOf
  <2>4. DisconnectOf(old, "stop") \in Event /\ DisconnectOf(old, "stop") \notin Wakes
    BY OtherEvents, WakesFacts
  <2>5. FreeOf(io', Wakes)
    BY <1>1, <2>2, <2>3, <2>4, FreeEnqueue DEF FreeOf
  <2> QED
    BY <1>1, <2>3, <2>5 DEF TypeOK, Api
<1>4. CASE state # "Stopping" /\ StartBindFails
  <2>1. Calling /\ run' = run
    BY <1>4 DEF StartBindFails, Calling
  <2>2. Bound(io, 0, 0) /\ run = Idle
    BY <1>1, <2>1, BusyRoom DEF Busy, OneCaller
  <2>3. ~Calling'
    BY <1>1, <1>4, ApiMoves DEF StartStep
  <2>4. 0 \in 0..1 /\ 0 <= 0 /\ StartStep /\ ~StartPostResolve
    <3>1. StartStep
      BY <1>4 DEF StartStep
    <3>2. ~StartPostResolve
      BY <1>1, <1>4 DEF StartPostResolve, StartBindFails, StateAfterDisconnect
    <3> QED
      BY <3>1, <3>2
  <2>5. Bound(io', 0, 0)
    BY <1>1, <2>2, <2>4, BoundApi
  <2> QED
    BY <2>1, <2>2, <2>3, <2>5 DEF Quiet, Busy
<1>5. CASE state # "Stopping" /\ HandleRecv
  <2>1. Most = 1 /\ run' = run /\ Bound(io', 0, 0)
    BY <1>1, <1>5, BoundReads, RoomNumbers DEF Room
  <2>2. ~Busy
    BY <2>1 DEF Most
  <2>3. api' = api
    BY <1>5 DEF HandleRecv
  <2> QED
    BY <2>1, <2>2, <2>3 DEF Quiet, Busy, Calling
<1>6. CASE state # "Stopping" /\ DoneFinish
  <2>1. run # Idle /\ api' = api
    BY <1>6 DEF DoneFinish, Idle
  <2>2. Bound(io, 0, 0) /\ ~Calling
    BY <1>1, <2>1, BusyRoom DEF Busy, OneCaller
  <2>3. run' = Idle /\ Bound(io', 0, 0)
    BY <1>6, <2>2, BoundFinished
  <2> QED
    BY <2>1, <2>2, <2>3 DEF Quiet, Busy, Calling
<1> QED
  BY <1>1, <1>2, <1>3, <1>4, <1>5, <1>6, StateMoves
\* run() returns when nothing is left, and then events_ is empty, too.
LEMMA NothingLeft ==
  ASSUME TypeOK, GuardAlone, Room, RunReturns
  PROVE  Bound(io, 0, 0)
<1>1. /\ io \in Io /\ io.ready = <<>> /\ io.strand = <<>> /\ run = Idle
      /\ \A k \in OpKind : io.ops[k] = 0
  BY DEF RunReturns, TypeOK
<1>2. io.events = <<>>
  <2>1. Guards(io.strand) = 0 /\ Guards(io.ready) = 0 /\ io.ops["send"] = 0
    BY <1>1, GuardsEmpty, OpTypes
  <2>2. run.inEvent = FALSE
    BY <1>1 DEF Idle
  <2> QED
    BY <2>1, <2>2 DEF GuardAlone, Alone, Held, One
<1>3. ASSUME NEW r, Counts(r) PROVE Count(io, r) = 0
  <2>1. Among(io.strand, Tokens(r)) = 0 /\ Among(io.ready, Tokens(r)) = 0
    BY <1>1, AmongEmpty
  <2>2. io.ops["resolve"] = 0 /\ io.ops["connect"] = 0 /\ Reads(io, r) = 0
    BY <1>1, OpTypes DEF Reads
  <2>3. Waiting(io) = 0
    BY <1>2 DEF Waiting
  <2> QED
    BY <2>1, <2>2, <2>3 DEF Count
<1>4. Count(io, "any") <= 0 /\ Count(io, "trying") <= 0
  BY <1>3, OneFacts
<1> QED
  BY <1>4 DEF Room, Bound

LEMMA PoolAgreesNext ==
  ASSUME OverlappingCalls = FALSE, MaxSends = 0, AttemptInv, Next
  PROVE  PoolAgrees'
<1>1. /\ TypeOK /\ NoSends /\ PoolAgrees /\ Room /\ OneCaller /\ GuardAlone
  BY DEF AttemptInv, ClientInv, Chain
<1>2. 0 \in 0..1 /\ 0 <= 0
  OBVIOUS
\* Outside the pool nothing runs.
<1>3. ASSUME pool \in {"down", "exited"}, ~StartPostResolve,
             StartStep \/ StopStep \/ Application
      PROVE  run' = Idle /\ Bound(io', 0, 0)
  <2>1. run = Idle /\ Bound(io, 0, 0)
    BY <1>1, <1>3 DEF PoolAgrees
  <2>2. Bound(io', 0, 0)
    BY <1>1, <1>2, <1>3, <2>1, BoundApi
  <2> QED
    BY <1>3, <2>1, <2>2, ApiLeaves
<1>4. CASE StartPool
  <2>1. api.start = "pool" /\ api.stop = "idle" /\ pool \in {"down", "up"}
    BY <1>1, <1>4 DEF StartPool, PoolAgrees, TypeOK
  <2>2. pool' = "up" /\ api'.stop = "idle"
    BY <1>1, <1>4, <2>1 DEF StartPool, TypeOK, Api
  <2> QED
    BY <2>2 DEF PoolAgrees
<1>5. CASE StartStep /\ ~StartPool
  <2>1. pool' = pool /\ api'.stop = api.stop /\ api.start # "idle" /\ api.stop = "idle"
    BY <1>1, <1>5, ApiSteps DEF StartStep, StartLoadReconnectTimer, StartConnect,
       StartPostResolve, StartBindFails, StartWait, TypeOK, Api
  <2>2. api.start \in {"load", "connect", "post", "wait"}
    BY <1>5 DEF StartStep, StartLoadReconnectTimer, StartConnect,
       StartPostResolve, StartBindFails, StartWait
  <2>3. pool = "up"
    BY <1>1, <2>2 DEF PoolAgrees
  <2> QED
    BY <2>1, <2>3 DEF PoolAgrees
<1>6. CASE \E sync \in SyncStart : StartCall(sync)
  <2>1. /\ pool' = pool /\ api.stop = "idle" /\ api'.stop = "idle" /\ api'.start = "pool"
        /\ run' = run /\ io' = io
    BY <1>1, <1>6, ApiSteps DEF StartCall, TypeOK, Api
  <2> QED
    BY <1>1, <2>1 DEF PoolAgrees
<1>7. CASE StopCall
  <2>1. /\ pool' = pool /\ api.start = "idle" /\ api'.start = "idle"
        /\ api.stop = "idle" /\ api'.stop = "casStarted"
    BY <1>1, <1>7, ApiSteps DEF StopCall, TypeOK, Api
  <2>2. pool \in {"down", "exited"} => run' = Idle /\ Bound(io', 0, 0)
    <3>1. ~StartPostResolve
      BY <2>1 DEF StartPostResolve
    <3> QED
      BY <1>3, <1>7, <3>1 DEF Application
  <2> QED
    BY <1>1, <2>1, <2>2 DEF PoolAgrees
<1>8. CASE StopStep
  <2>1. api.start = "idle" /\ api'.start = "idle" /\ ~StartPostResolve
    BY <1>1, <1>8, ApiSteps DEF StopStep, StopCasStarted, StopCasStarting, StopCas,
       StopPostStop, StopPool, StopJoin, TypeOK, Api, StartPostResolve
  <2>2. pool \in {"down", "exited"} => run' = Idle /\ Bound(io', 0, 0)
    BY <1>3, <1>8, <2>1
  <2>3. CASE StopCasStarted \/ StopCasStarting \/ StopPostStop
    <3>1. pool' = pool /\ api.stop # "drain" /\ api'.stop # "drain"
      BY <1>1, <2>3 DEF StopCasStarted, StopCasStarting, StopCas, StopPostStop, TypeOK, Api
    <3> QED
      BY <1>1, <2>1, <2>2, <3>1 DEF PoolAgrees
  <2>4. CASE StopPool
    <3>1. api.stop = "pool" /\ pool \in {"down", "up"}
      BY <1>1, <2>4 DEF StopPool, PoolAgrees, TypeOK
    <3>2. \/ pool' = "draining" /\ api'.stop = "drain"
          \/ pool' = "down" /\ pool = "down" /\ api'.stop = "idle"
      BY <1>1, <2>4, <3>1 DEF StopPool, TypeOK, Api
    <3> QED
      BY <2>1, <2>2, <3>2 DEF PoolAgrees
  <2>5. CASE StopJoin
    <3>1. pool = "exited" /\ pool' = "down" /\ api'.stop = "idle"
      BY <1>1, <2>5 DEF StopJoin, TypeOK, Api
    <3> QED
      BY <2>1, <2>2, <3>1 DEF PoolAgrees
  <2> QED
    BY <1>8, <2>3, <2>4, <2>5 DEF StopStep
<1>9. CASE RunReturns
  <2>1. /\ api' = api /\ run' = run /\ io' = io /\ run = Idle
        /\ pool = "draining" /\ pool' = "exited"
    BY <1>9 DEF RunReturns
  <2>2. Bound(io, 0, 0)
    BY <1>1, <1>9, NothingLeft
  <2> QED
    BY <1>1, <2>1, <2>2 DEF PoolAgrees
<1>10. CASE (IoThreadStep \/ Network) /\ ~RunReturns
  <2>1. pool' = pool /\ api' = api /\ pool \notin {"down", "exited"}
    <3>1. api' = api
      BY <1>10, IoLeaves
    <3>2. CASE Network \/ Deliver
      BY <1>10, <3>1, <3>2, NetworkLeaves DEF IoThreadFree
    <3>3. CASE PlainHandler \/ HandleStartRecv \/ HandleRecv
      BY <1>1, <3>1, <3>3, HandlersLeave DEF OnStrand, IoThreadFree
    <3>4. CASE HandleResolved \/ HandleConnected \/ HandleReconnectEvent
      BY <3>1, <3>4, TriesLeave DEF OnStrand, IoThreadFree
    <3>5. CASE DoneNotify \/ DoneFinish
      <4>1. pool' = pool
        BY <3>5 DEF DoneNotify, DoneFinish
      <4>2. run.pc \in {"notify", "finish"}
        BY <3>5 DEF DoneNotify, DoneFinish
      <4>3. run # Idle
        BY <4>2 DEF Idle
      <4> QED
        BY <1>1, <3>1, <4>1, <4>3 DEF PoolAgrees
    <3>6. ~HandleSent
      BY <1>1, RoomNumbers, NothingSent DEF Room
    <3> QED
      BY <1>10, <3>2, <3>3, <3>4, <3>5, <3>6 DEF IoThreadStep, PlainHandler
  <2> QED
    BY <1>1, <2>1 DEF PoolAgrees
<1>11. ~SendCall /\ ~SendPost
  BY <1>1, ApiSteps
<1> QED
  BY <1>4, <1>5, <1>6, <1>7, <1>8, <1>9, <1>10, <1>11 DEF Next, Application

LEMMA StopsFacts ==
  /\ \A n \in {"stop", "wake", "reconnect", "send"} : Simple(n) \notin Stops
  /\ \A o : DisconnectOf(o, "wake") \notin Stops
  /\ DisconnectOf("Stopping", "stop") \notin Stops
BY DEF Stops, Disconnects, Simple, DisconnectOf, Event

\* While Stop has yet to exchange the state, the task that stops the timer is on
\* the strand, or was there.
LEMMA TimerStopsFirstNext ==
  ASSUME OverlappingCalls = FALSE, MaxSends = 0, AttemptInv, Next
  PROVE  TimerStopsFirst'
<1>1. TypeOK /\ NoSends /\ PoolAgrees /\ TimerStopsFirst /\ Room /\ io \in Io
      /\ io.strand \in Seq(Task)
  BY DEF AttemptInv, ClientInv, Chain, TypeOK, Io
<1> DEFINE D == {Simple("StopReconnectTimer")}
<1>2. CASE timer.canceled
  BY <1>1, <1>2, CanceledStays DEF TimerStopsFirst
<1>3. CASE ~timer.canceled
  <2>1. Clear(io, Stops, D, Stopping)
    BY <1>1, <1>3 DEF TimerStopsFirst
  <2>2. TimerStopsFirst' <=> timer'.canceled \/ Clear(io', Stops, D, Stopping')
    BY DEF TimerStopsFirst
  <2> HIDE DEF D
  <2>3. CASE StopCall
    <3>1. io' = Post(io, Simple("StopReconnectTimer"))
      BY <2>3 DEF StopCall
    <3>2. Simple("StopReconnectTimer") \in Task /\ Simple("StopReconnectTimer") \in D
          /\ Simple("StopReconnectTimer") \notin TasksOf(Stops)
      BY TaskTypes, FreePlain DEF D
    <3>3. /\ io'.strand = Append(io.strand, Simple("StopReconnectTimer"))
          /\ io'.events = io.events
      BY <1>1, <3>1 DEF Post, Io
    <3>4. Behind(io.strand, TasksOf(Stops), D, Stopping) /\ NoneOf(io.events, Stops)
      BY <2>1 DEF Clear
    <3>5. Behind(io'.strand, TasksOf(Stops), D, Stopping')
      BY <1>1, <3>2, <3>3, <3>4, BehindAppend
    <3> QED
      BY <2>2, <3>3, <3>4, <3>5 DEF Clear
  <2>4. ASSUME NEW old \in {"Started", "Starting"}, NEW pc \in {"casStarted", "casStarting"}, NEW f,
               StopCas(old, pc, f), f = "casStarting" \/ f = "postStop"
        PROVE  TimerStopsFirst'
    <3> DEFINE x == [t |-> "Enqueue", ev |-> DisconnectOf(old, "stop")]
    <3>1. Stopping
      BY <2>4 DEF StopCas, Stopping
    <3>2. Behind(io.strand, TasksOf(Stops), D, Stopping) /\ NoneOf(io.events, Stops)
      BY <2>1 DEF Clear
    <3>3. CASE io' = io
      <4>1. Clear(io', Stops, D, Stopping')
        BY <3>1, <3>2, <3>3 DEF Clear, Behind
      <4> QED
        BY <2>2, <4>1
    <3>4. CASE io' = EventEnqueueFromOutside(io, DisconnectOf(old, "stop"))
      <4>1. x \in Task
        BY OtherEvents DEF Task
      <4>2. io'.strand = Append(io.strand, x) /\ io'.events = io.events
        BY <1>1, <3>4 DEF EventEnqueueFromOutside, Post, Io
      <4> HIDE DEF x
      <4>3. Behind(io'.strand, TasksOf(Stops), D, Stopping')
        BY <1>1, <3>1, <3>2, <4>1, <4>2, BehindAppend
      <4>4. Clear(io', Stops, D, Stopping')
        BY <3>2, <4>2, <4>3 DEF Clear
      <4> QED
        BY <2>2, <4>4
    <3> QED
      BY <2>4, <3>3, <3>4 DEF StopCas, DisconnectOf
  <2>5. CASE StopPostStop \/ StopPool \/ StopJoin
    <3>1. ~Stopping /\ ~Stopping'
      BY <1>1, <2>5 DEF StopPostStop, StopPool, StopJoin, Stopping, TypeOK, Api
    <3>2. Clear(io', Stops, D, Stopping)
      <4>1. io' = io \/ io' = EventEnqueueFromOutside(io, Simple("stop"))
        BY <2>5 DEF StopPostStop, StopPool, StopJoin
      <4>2. Simple("stop") \in Event /\ Simple("stop") \notin Stops
        BY OtherEvents, StopsFacts
      <4> QED
        BY <1>1, <2>1, <4>1, <4>2, FreeEnqueue
    <3>3. Clear(io', Stops, D, Stopping')
      BY <3>1, <3>2 DEF Clear, Behind
    <3> QED
      BY <2>2, <3>3
  <2>6. ASSUME Stopping' = Stopping, Clear(io', Stops, D, Stopping)
        PROVE  TimerStopsFirst'
    BY <2>2, <2>6
  <2>7. CASE StartStep \/ \E sync \in SyncStart : StartCall(sync)
    <3>1. api'.stop = api.stop
      BY <1>1, <2>7 DEF StartCall, StartStep, StartPool, StartLoadReconnectTimer, StartConnect,
         StartPostResolve, StartBindFails, StartWait, TypeOK, Api
    <3>2. Stopping' = Stopping
      BY <3>1 DEF Stopping
    <3>3. ~SendPost /\ ~StopStep
      BY <1>1, <2>7, ApiSteps DEF StopStep, StopCasStarted, StopCasStarting, StopCas,
         StopPostStop, StopPool, StopJoin
    <3>4. ~Adds(Stops)
      BY <3>3, StopsFacts DEF Adds
    <3>5. Clear(io', Stops, D, Stopping)
      BY <1>1, <2>1, <2>7, <3>4, FreeApi
    <3> QED
      BY <2>6, <3>2, <3>5
  <2>8. CASE Network \/ Deliver \/ RunReturns \/ DoneNotify
    <3>1. Stopping' = Stopping
      BY <2>8, IoLeaves DEF Stopping, IoThreadStep
    <3>2. Clear(io', Stops, D, Stopping)
      BY <1>1, <2>1, <2>8, FreeNetwork
    <3> QED
      BY <2>6, <3>1, <3>2
  <2>9. CASE HandleStopReconnectTimer
    BY <1>1, <2>2, <2>9 DEF HandleStopReconnectTimer, TypeOK
  <2>10. CASE IoThreadStep /\ ~HandleStopReconnectTimer /\ ~Deliver /\ ~RunReturns /\ ~DoneNotify
    <3>1. Stopping' = Stopping
      BY <2>10, IoLeaves DEF Stopping
    <3>2. ~Adds(Stops)
      <4>1. ~StopStep \/ DisconnectOf(state, "stop") \notin Stops
        <5>1. api' = api
          BY <2>10, IoLeaves
        <5>2. ~StopStep
          BY <1>1, <5>1 DEF StopStep, StopCasStarted, StopCasStarting, StopCas, StopPostStop,
             StopPool, StopJoin, TypeOK, Api
        <5> QED
          BY <5>2
      <4> QED
        BY <4>1, StopsFacts DEF Adds
    <3>3. OnStrand => Running \notin D
      <4> SUFFICES ASSUME OnStrand PROVE Running.t # "StopReconnectTimer"
        BY DEF D, Simple
      <4>1. ~DoneFinish
        BY DEF DoneFinish, OnStrand, IoThreadFree, Idle
      <4> QED
        BY <2>10, <4>1 DEF IoThreadStep, HandleEnqueue, HandleDisconnectEvent, HandleStopEvent,
           HandleWakeEvent, HandleReconnectEvent, HandleArmTimeout, HandleResolve,
           HandleResolved, HandleConnected, HandleTimeout, HandleReconnectTimer,
           HandleStartRecv, HandleRecv, HandleSent, RunsEvent, RunsCompletion
    <3>4. Clear(io', Stops, D, Stopping)
      <4>1. CASE HandleEnqueue \/ HandleStopReconnectTimer \/ HandleArmTimeout
                   \/ HandleResolve \/ HandleResolved \/ HandleConnected \/ HandleTimeout
                   \/ HandleReconnectTimer \/ HandleStartRecv \/ HandleRecv
        BY <1>1, <2>1, <3>2, <3>3, <4>1, FreeHandlers
      <4>2. CASE HandleDisconnectEvent \/ HandleStopEvent \/ HandleWakeEvent
                   \/ HandleReconnectEvent \/ HandleSent \/ DoneFinish
        BY <1>1, <2>1, <3>2, <3>3, <4>2, FreeEventHandlers
      <4> QED
        BY <2>10, <4>1, <4>2 DEF IoThreadStep
    <3> QED
      BY <2>6, <3>1, <3>4
  <2>11. ~SendCall /\ ~SendPost
    BY <1>1, ApiSteps
  <2>12. CASE StopCasStarted \/ StopCasStarting
    BY <2>4, <2>12 DEF StopCasStarted, StopCasStarting
  <2> QED
    BY <2>3, <2>5, <2>7, <2>8, <2>9, <2>10, <2>11, <2>12 DEF Next, Application, StopStep
<1> QED
  BY <1>2, <1>3

-----------------------------------------------------------------------------
(* The listener believes itself connected while nothing new is tried.      *)

LEMMA OldStartingFacts ==
  /\ \A n \in {"stop", "wake", "reconnect", "send"} : Simple(n) \notin OldStarting
  /\ \A o, f : DisconnectOf(o, f) \in OldStarting => o = "Starting"
  /\ OldStarting \subseteq Disconnects
BY DEF OldStarting, Disconnects, Simple, DisconnectOf

\* DoneConnect alone tells it.
LEMMA ToldUp ==
  ASSUME Next, ~up, up'
  PROVE  DoneNotify /\ state = "Started"
<1>1. CASE StartStep \/ StopStep \/ Application
  BY <1>1, ApiLeaves
<1>2. CASE Network \/ Deliver \/ RunReturns
  BY <1>2, NetworkLeaves
<1>3. CASE HandleEnqueue \/ HandleStopEvent \/ HandleWakeEvent \/ HandleStopReconnectTimer
            \/ HandleArmTimeout \/ HandleResolve \/ HandleTimeout \/ HandleReconnectTimer
  BY <1>3 DEF HandleEnqueue, HandleStopEvent, HandleWakeEvent, HandleStopReconnectTimer,
     HandleArmTimeout, HandleResolve, HandleTimeout, HandleReconnectTimer
<1>4. CASE HandleDisconnectEvent
  BY <1>4 DEF HandleDisconnectEvent
<1>5. CASE HandleResolved \/ HandleConnected \/ HandleReconnectEvent
  BY <1>5, TriesLeave
<1>6. CASE HandleStartRecv \/ HandleRecv \/ HandleSent \/ DoneFinish \/ SendPost
  BY <1>6 DEF HandleStartRecv, HandleRecv, HandleSent, DoneFinish, SendPost
<1>7. CASE DoneNotify
  BY <1>7 DEF DoneNotify
<1> QED
  BY <1>1, <1>2, <1>3, <1>4, <1>5, <1>6, <1>7 DEF Next, IoThreadStep

\* HandleDisconnect tells a listener that believes itself connected.
LEMMA DisconnectUntells ==
  ASSUME AttemptInv, up, HandleDisconnectEvent
  PROVE  ~up'
<1>1. TypeOK /\ OneDisconnect /\ GuardAlone /\ io \in Io /\ FreeOf(io, OldStarting)
  BY DEF AttemptInv, ClientInv, Chain, UpAgrees, TypeOK
<1>2. OnStrand /\ Running.t = "Event" /\ Running.ev.t = "disconnect"
  BY DEF HandleDisconnectEvent, RunsEvent
<1>3. state = "Stopping"
  BY <1>1, DisconnectFindsStopping DEF HandleDisconnectEvent
<1>4. Running \in Task /\ Running \notin TasksOf(OldStarting)
  BY <1>1, <1>2, FreeRest DEF FreeOf
<1>5. Running.ev \in Event
  BY <1>2, <1>4, TaskFields
<1>6. Running.ev.old \in {"Started", "Starting"}
  BY <1>2, <1>5 DEF Event
<1>7. Running.ev \notin OldStarting
  BY <1>2, <1>4 DEF TasksOf
<1>8. Running.ev.old = "Started"
  BY <1>2, <1>5, <1>6, <1>7 DEF OldStarting, Disconnects
<1> QED
  BY <1>3, <1>8 DEF HandleDisconnectEvent

\* While it does, nothing makes the client Starting or Stopped.
LEMMA StaysUp ==
  ASSUME OverlappingCalls = FALSE, MaxSends = 0, AttemptInv, Next, up, up', Idling
  PROVE  state' \in {"Started", "Stopping"}
<1>1. /\ TypeOK /\ NoSends /\ PoolAgrees /\ OneCaller /\ state \in {"Started", "Stopping"}
  BY DEF AttemptInv, ClientInv, Chain, UpAgrees
<1>2. CASE StartStep \/ StopStep \/ StopCall
  <2>1. \A sync \in SyncStart : ~StartCall(sync)
    BY <1>1 DEF StartCall
  <2>2. ~StartBindFails
    BY <1>1 DEF StartBindFails, OneCaller, Calling
  <2>3. state' = state \/ StopCasStarted \/ StopCasStarting
    BY <1>1, <1>2, <2>1, <2>2, ApiMoves DEF Application
  <2>4. StopCasStarted \/ StopCasStarting => state' \in {state, "Stopping"}
    BY DEF StopCasStarted, StopCasStarting, StopCas
  <2> QED
    BY <1>1, <2>3, <2>4
<1>3. CASE Network \/ Deliver \/ RunReturns
  BY <1>1, <1>3, NetworkLeaves
<1>4. CASE PlainHandler /\ ~Firing
  <2>1. ~HandleDisconnectEvent
    BY DisconnectUntells
  <2> QED
    BY <1>1, <1>4, <2>1, HandlersLeave
<1> QED
  BY <1>2, <1>3, <1>4 DEF Idling

LEMMA UpAgreesNext ==
  ASSUME OverlappingCalls = FALSE, MaxSends = 0, AttemptInv, Next
  PROVE  UpAgrees'
<1>1. /\ TypeOK /\ NoSends /\ PoolAgrees /\ Room /\ OneCaller /\ OneDisconnect /\ UpAgrees
      /\ io \in Io
  BY DEF AttemptInv, ClientInv, Chain, TypeOK
<1> SUFFICES ASSUME up'
             PROVE  /\ state' \in {"Started", "Stopping"} /\ FreeOf(io', OldStarting)
                    /\ run'.pc # "notify" /\ Bound(io', 1, 0)
  BY DEF UpAgrees
<1>2. 0 \in 0..1 /\ 1 \in 0..1 /\ 0 <= 1 /\ 0 # 1 /\ 0 \in Nat /\ 1 \in Nat /\ 0 <= 0
  OBVIOUS
<1>3. Bound(io', 0, 0) => Bound(io', 1, 0)
  BY <1>2, BoundLess
<1>4. CASE ~up
  <2>1. DoneNotify /\ state = "Started"
    BY <1>4, ToldUp
  <2>2. io' = io /\ state' = state /\ run' = [run EXCEPT !.pc = "finish"] /\ run # Idle
    BY <2>1 DEF DoneNotify, Idle
  <2>3. run'.pc = "finish"
    BY <1>1, <2>2 DEF TypeOK, Run
  <2>4. Bound(io, 0, 0)
    BY <1>1, <2>2, BusyRoom DEF Busy
  <2>5. Tracked(io, 0)
    BY <1>1, <2>1 DEF OneDisconnect, One
  <2>6. FreeOf(io, OldStarting)
    BY <1>1, <2>5, NoneOnItsWay, OldStartingFacts
  <2> QED
    BY <1>3, <2>1, <2>2, <2>3, <2>4, <2>6
<1>5. CASE up
  <2>1. /\ state \in {"Started", "Stopping"} /\ FreeOf(io, OldStarting)
        /\ run.pc # "notify" /\ Bound(io, 1, 0) /\ ~Calling
    BY <1>1, <1>5 DEF UpAgrees, OneCaller
  <2>2. FreeOf(io', OldStarting)
    <3>1. ~Adds(OldStarting)
      BY <2>1, OldStartingFacts DEF Adds
    <3> QED
      BY <1>1, <2>1, <3>1, FreeStep
  <2>3. StateAfterDisconnect \in {"Started", "Stopping"}
    BY <2>1 DEF StateAfterDisconnect
  <2>4. CASE Idling
    BY <1>1, <1>2, <1>5, <2>1, <2>2, <2>4, IdlingKeeps, StaysUp
  <2>5. /\ \A sync \in SyncStart : ~StartCall(sync)
        /\ ~StartPostResolve /\ ~Firing /\ ~DoneNotify
    BY <2>1 DEF StartCall, StartPostResolve, Calling, Firing, ReconnectFires, DoneNotify
  <2>6. ~(HandleResolved \/ HandleConnected \/ HandleReconnectEvent)
    BY <1>1, <1>2, <2>1, BoundTries
  <2>7. CASE HandleStartRecv \/ HandleRecv
    BY <1>1, <1>2, <1>3, <2>1, <2>2, <2>3, <2>7, BoundReads
  <2>8. CASE DoneFinish
    <3>1. run # Idle
      BY <2>8 DEF DoneFinish, Idle
    <3>2. Bound(io, 0, 0)
      BY <1>1, <3>1, BusyRoom DEF Busy
    <3>3. run'.pc # "notify"
      BY <2>8, <3>2, BoundFinished DEF Idle
    <3> QED
      BY <1>3, <2>2, <2>3, <2>8, <3>2, <3>3, BoundFinished
  <2> QED
    BY <1>1, <2>4, <2>5, <2>6, <2>7, <2>8, Cases
<1> QED
  BY <1>4, <1>5

-----------------------------------------------------------------------------
(* The theorems.                                                           *)

LEMMA InitChain == Init => Chain
<1> SUFFICES ASSUME Init PROVE Chain
  OBVIOUS
<1>1. /\ io \in Io /\ io.strand = <<>> /\ io.ready = <<>> /\ io.events = <<>>
      /\ \A k \in OpKind : io.ops[k] = 0
  BY InitTypes DEF TypeOK, Init
<1>2. /\ state = "Stopped" /\ run = Idle /\ pool = "down" /\ ~up /\ ~crashed
      /\ api.start = "idle" /\ api.stop = "idle" /\ api.send = "idle" /\ calls.send = 0
  BY DEF Init
<1>3. ~Calling /\ ~Busy /\ ~Stopping
  BY <1>2 DEF Calling, Busy, Stopping
<1>4. ASSUME NEW r, Counts(r) PROVE Count(io, r) = 0
  <2>1. Among(io.strand, Tokens(r)) = 0 /\ Among(io.ready, Tokens(r)) = 0
    BY <1>1, AmongEmpty
  <2>2. io.ops["resolve"] = 0 /\ io.ops["connect"] = 0 /\ Reads(io, r) = 0
    BY <1>1, OpTypes DEF Reads
  <2>3. Waiting(io) = 0
    BY <1>1 DEF Waiting
  <2> QED
    BY <2>1, <2>2, <2>3 DEF Count
<1>5. Count(io, "any") <= 0 /\ Count(io, "trying") <= 0
  BY <1>4, OneFacts
<1>6. Silent(io)
  BY <1>1, OpTypes DEF Silent, NoneOf
<1>7. \A k \in Timers : io.ops[k] <= 1
  BY <1>1, OpTypes DEF Timers
<1>8. Bound(io, 0, 0)
  BY <1>1, <1>5, <1>6, <1>7 DEF Bound
<1>9. Room
  <2>1. Most = 1 /\ MostTrying = 1
    BY <1>2, <1>3 DEF Most, MostTrying
  <2>2. 0 \in Nat /\ 1 \in Nat /\ 0 <= 1
    OBVIOUS
  <2> QED
    BY <1>8, <2>1, <2>2, BoundLess DEF Room
<1>10. OneCaller /\ EndAgrees /\ QuietStopped /\ QuietStopping
  BY <1>2, <1>3, <1>8 DEF OneCaller, EndAgrees, QuietStopped, QuietStopping, Quiet
<1>11. PoolAgrees /\ UpAgrees /\ NoSends
  BY <1>2, <1>8 DEF PoolAgrees, UpAgrees, NoSends
<1>12. TimerStopsFirst
  BY <1>1, <1>3 DEF TimerStopsFirst, Clear, Behind, NoneOf
<1> QED
  BY <1>2, <1>9, <1>10, <1>11, <1>12 DEF Chain

LEMMA NextChain ==
  ASSUME OverlappingCalls = FALSE, MaxSends = 0, AttemptInv, [Next]_vars
  PROVE  Chain'
<1>1. CASE Next
  BY <1>1, RoomNext, CallerNext, QuietStoppedNext, QuietStoppingNext, PoolAgreesNext,
     TimerStopsFirstNext, UpAgreesNext, NoSendsNext, NoCrashNext DEF Chain
<1>2. CASE UNCHANGED vars
  <2>1. /\ state' = state /\ io' = io /\ run' = run /\ pool' = pool /\ timer' = timer
        /\ api' = api /\ calls' = calls /\ up' = up /\ crashed' = crashed
    BY <1>2 DEF vars
  <2>2. Chain
    BY DEF AttemptInv
  <2>3. Room' /\ OneCaller' /\ EndAgrees' /\ NoSends' /\ ~crashed'
    BY <2>1, <2>2 DEF Chain, Room, Most, MostTrying, Busy, OneCaller, Calling, EndAgrees, NoSends
  <2>4. QuietStopped' /\ QuietStopping'
    BY <2>1, <2>2 DEF Chain, QuietStopped, QuietStopping, Quiet, Busy, Calling
  <2>5. PoolAgrees' /\ TimerStopsFirst' /\ UpAgrees'
    BY <2>1, <2>2 DEF Chain, PoolAgrees, TimerStopsFirst, Stopping, UpAgrees
  <2> QED
    BY <2>3, <2>4, <2>5 DEF Chain
<1> QED
  BY <1>1, <1>2

LEMMA AttemptInvariant ==
  ASSUME OverlappingCalls = FALSE, MaxSends = 0
  PROVE  Spec => []AttemptInv
<1>1. ClientInv /\ Init => AttemptInv
  BY InitChain DEF AttemptInv
<1>2. ClientInv' /\ AttemptInv /\ [Next]_vars => AttemptInv'
  BY NextChain DEF AttemptInv
<1> QED
  BY <1>1, <1>2, ClientInvariant, PTL DEF Spec

\* Where calls of Start and Stop do not overlap and nothing is sent, no TPN_ASSERT
\* of the connection code fails, for any number of calls, endpoints and
\* reconnections: DoneConnect's error code agrees with the state it finds, and
\* PostDisconnect's task finds Stopping.
THEOREM AttemptAssertions ==
  ASSUME OverlappingCalls = FALSE, MaxSends = 0
  PROVE  Spec => []AssertionsHold
<1>1. AttemptInv => AssertionsHold
  BY DEF AttemptInv, Chain, AssertionsHold
<1> QED
  BY <1>1, AttemptInvariant, PTL

\* ... no two asynchronous operations of a kind are pending on the socket or on a
\* timer: an attempt of the reconnect timer never meets one of Start, and the
\* reading of a connection ends before the next attempt begins.
THEOREM AttemptsNeverOverlap ==
  ASSUME OverlappingCalls = FALSE, MaxSends = 0
  PROVE  Spec => []OneOpPerKind
<1>1. AttemptInv => OneOpPerKind
  <2> SUFFICES ASSUME AttemptInv, NEW k \in OpKind PROVE io.ops[k] <= 1
    BY DEF OneOpPerKind
  <2>1. Bound(io, Most, MostTrying) /\ Most \in 0..1 /\ io \in Io
    BY RoomNumbers DEF AttemptInv, ClientInv, Chain, Room, TypeOK
  <2>2. Count(io, "any") <= 1 /\ io.ops["send"] = 0 /\ \A j \in Timers : io.ops[j] <= 1
    BY <2>1, CountNat DEF Bound, Silent, Counts
  <2>3. CASE k \in {"resolve", "connect", "recv"}
    <3> DEFINE a == Among(io.strand, Tokens("any"))
               b == Among(io.ready, Tokens("any"))
               x == io.ops["resolve"]
               y == io.ops["connect"]
               z == io.ops["recv"]
               w == Waiting(io)
    <3>1. a \in Nat /\ b \in Nat /\ w \in Nat
      BY AmongNat DEF Waiting
    <3>2. x \in Nat /\ y \in Nat /\ z \in Nat
      BY <2>1, OpTypes DEF Io
    <3>3. a + b + x + y + z + w <= 1
      BY <2>2 DEF Count, Reads
    <3>4. io.ops[k] \in {x, y, z}
      BY <2>3
    <3> HIDE DEF a, b, x, y, z, w
    <3>5. x <= 1 /\ y <= 1 /\ z <= 1
      BY <3>1, <3>2, <3>3
    <3> QED
      BY <3>4, <3>5
  <2>4. CASE k \in Timers \cup {"send"}
    BY <2>2, <2>4
  <2> QED
    BY <2>3, <2>4 DEF OpKind, Timers
<1> QED
  BY <1>1, AttemptInvariant, PTL

\* ... and DoneConnect tells the listener "connected" only while it believes
\* itself disconnected, whatever the disconnects, retries and stops between.
THEOREM ConnectedIsToldOnce ==
  ASSUME OverlappingCalls = FALSE, MaxSends = 0
  PROVE  Spec => ConnectNotifiedOnce
<1>1. AttemptInv /\ [Next]_vars => [DoneNotify /\ state = "Started" => ~up]_vars
  BY DEF AttemptInv, Chain, UpAgrees, DoneNotify
<1> QED
  BY <1>1, AttemptInvariant, PTL DEF Spec, ConnectNotifiedOnce

-----------------------------------------------------------------------------
(* Where the operations of a kind are: the task that launches one, the     *)
(* operation itself, and its end.                                          *)

Followed == {"resolve", "connect", "recv", "timeout", "timeoutSync"}
Launcher(k) ==
  {x \in Task : \/ k = "resolve" /\ x = Simple("Resolve")
                \/ k = "recv" /\ x = Simple("StartRecv")
                \/ k = "timeoutSync" /\ x = [t |-> "ArmTimeout", sync |-> TRUE]
                \/ k = "timeout" /\ x = [t |-> "ArmTimeout", sync |-> FALSE]}
Traces(k) == Launcher(k) \cup {x \in Completion : x.op = k}
Places(c, k) == Among(c.strand, Traces(k)) + Among(c.ready, Traces(k)) + c.ops[k]

\* From c to d the places of kind k grow by n: exactly if they are few, and
\* there are some afterwards if there were some, or some were added.
Grows(c, d, k, n) ==
  /\ Places(c, k) + n <= 1 => Places(d, k) = Places(c, k) + n
  /\ Places(c, k) + n > 0 => Places(d, k) > 0
Keeps(c, d) == \A k \in Followed : Grows(c, d, k, 0)

LEMMA FollowedOps == Followed \subseteq OpKind /\ "send" \notin Followed
                     /\ Followed \cap ReconnectTimer = {}
BY OpTypes DEF Followed, ReconnectTimer

LEMMA PlacesNat ==
  ASSUME NEW c \in Io, NEW k \in OpKind
  PROVE  /\ Among(c.strand, Traces(k)) \in Nat /\ Among(c.ready, Traces(k)) \in Nat
         /\ c.ops[k] \in Nat /\ Places(c, k) \in Nat
<1>1. Among(c.strand, Traces(k)) \in Nat /\ Among(c.ready, Traces(k)) \in Nat
  BY AmongNat
<1>2. c.ops[k] \in Nat
  BY DEF Io
<1> QED
  BY <1>1, <1>2 DEF Places

LEMMA GrowsTwice ==
  ASSUME NEW c \in Io, NEW d \in Io, NEW e, NEW k \in OpKind, NEW n \in Nat, NEW m \in Nat,
         Grows(c, d, k, n), Grows(d, e, k, m)
  PROVE  Grows(c, e, k, n + m)
<1> DEFINE p == Places(c, k)
           q == Places(d, k)
           r == Places(e, k)
<1>1. p \in Nat /\ q \in Nat
  BY PlacesNat
<1>2. /\ p + n <= 1 => q = p + n
      /\ p + n > 0 => q > 0
      /\ q + m <= 1 => r = q + m
      /\ q + m > 0 => r > 0
  BY DEF Grows
<1> HIDE DEF p, q, r
<1>3. p + (n + m) <= 1 => r = p + (n + m)
  BY <1>1, <1>2
<1>4. p + (n + m) > 0 => r > 0
  BY <1>1, <1>2
<1> QED
  BY <1>3, <1>4 DEF Grows, p, q, r

LEMMA KeepsTwice ==
  ASSUME NEW c \in Io, NEW d \in Io, NEW e, Keeps(c, d)
  PROVE  /\ Keeps(d, e) => Keeps(c, e)
         /\ \A k \in Followed : \A n \in Nat : Grows(d, e, k, n) => Grows(c, e, k, n)
<1>1. ASSUME NEW k \in Followed, NEW n \in Nat, Grows(d, e, k, n) PROVE Grows(c, e, k, n)
  <2>1. Grows(c, d, k, 0) /\ k \in OpKind
    BY FollowedOps DEF Keeps
  <2>2. Grows(c, e, k, 0 + n)
    BY <1>1, <2>1, GrowsTwice
  <2> QED
    BY <2>2
<1> QED
  BY <1>1 DEF Keeps

LEMMA SameGrows ==
  ASSUME NEW c \in Io, NEW d, NEW k \in OpKind,
         d.strand = c.strand, d.ready = c.ready, d.ops[k] = c.ops[k]
  PROVE  Grows(c, d, k, 0)
<1>1. Places(d, k) = Places(c, k) /\ Places(c, k) \in Nat
  BY PlacesNat DEF Places
<1> QED
  BY <1>1 DEF Grows

LEMMA SomeAmong ==
  ASSUME NEW S, NEW s \in Seq(S), NEW x \in S, NEW M
  PROVE  /\ Among(s, M) > 0 \/ x \in M => Among(Append(s, x), M) > 0
         /\ s # <<>> /\ Head(s) \in M => Among(s, M) > 0
<1>1. /\ \A i \in DOMAIN s : i \in DOMAIN Append(s, x) /\ Append(s, x)[i] = s[i]
      /\ Len(s) + 1 \in DOMAIN Append(s, x) /\ Append(s, x)[Len(s) + 1] = x
  OBVIOUS
<1>2. \A u : Among(u, M) > 0 <=> ~NoneOf(u, M)
  BY DEF Among
<1>3. Among(s, M) > 0 \/ x \in M => ~NoneOf(Append(s, x), M)
  BY <1>1, <1>2 DEF NoneOf
<1>4. s # <<>> => 1 \in DOMAIN s /\ Head(s) = s[1]
  OBVIOUS
<1> QED
  BY <1>2, <1>3, <1>4 DEF NoneOf

-----------------------------------------------------------------------------
(* What the operators of the model do to the places.                       *)

LEMMA PostGrows ==
  ASSUME NEW c \in Io, NEW x \in Task, NEW k \in OpKind
  PROVE  Grows(c, Post(c, x), k, One(x \in Traces(k)))
<1> DEFINE d == Post(c, x)
           p == One(x \in Traces(k))
           a == Among(c.strand, Traces(k))
           b == Among(d.strand, Traces(k))
           r == Among(c.ready, Traces(k))
<1>1. /\ d.strand = Append(c.strand, x) /\ d.ready = c.ready /\ d.ops = c.ops
      /\ c.strand \in Seq(Task)
  BY DEF Post, Io
<1>2. a \in Nat /\ r \in Nat /\ c.ops[k] \in Nat /\ b \in Nat
  BY PlacesNat, AmongNat
<1>3. p \in 0..1 /\ (p > 0 <=> x \in Traces(k))
  BY DEF One
<1>4. a + p <= 1 => b = a + p
  BY <1>1, AmongAppend
<1>5. a > 0 \/ p > 0 => b > 0
  BY <1>1, <1>3, SomeAmong
<1>6. Places(c, k) = a + r + c.ops[k] /\ Places(d, k) = b + r + c.ops[k]
  BY <1>1 DEF Places
<1> HIDE DEF a, b, p, d, r
<1>7. Grows(c, d, k, p)
  BY <1>2, <1>3, <1>4, <1>5, <1>6 DEF Grows
<1> QED
  BY <1>7 DEF d, p

LEMMA ReadyGrows ==
  ASSUME NEW c \in Io, NEW x \in Completion, NEW k \in OpKind
  PROVE  Grows(c, [c EXCEPT !.ready = Append(@, x)], k, One(x \in Traces(k)))
<1> DEFINE d == [c EXCEPT !.ready = Append(@, x)]
           p == One(x \in Traces(k))
           a == Among(c.ready, Traces(k))
           b == Among(d.ready, Traces(k))
           r == Among(c.strand, Traces(k))
<1>1. /\ d.ready = Append(c.ready, x) /\ d.strand = c.strand /\ d.ops = c.ops
      /\ c.ready \in Seq(Completion)
  BY DEF Io
<1>2. a \in Nat /\ r \in Nat /\ c.ops[k] \in Nat /\ b \in Nat
  BY PlacesNat, AmongNat
<1>3. p \in 0..1 /\ (p > 0 <=> x \in Traces(k))
  BY DEF One
<1>4. a + p <= 1 => b = a + p
  BY <1>1, AmongAppend
<1>5. a > 0 \/ p > 0 => b > 0
  BY <1>1, <1>3, SomeAmong
<1>6. Places(c, k) = r + a + c.ops[k] /\ Places(d, k) = r + b + c.ops[k]
  BY <1>1 DEF Places
<1> HIDE DEF a, b, p, d, r
<1>7. Grows(c, d, k, p)
  BY <1>2, <1>3, <1>4, <1>5, <1>6 DEF Grows
<1> QED
  BY <1>7 DEF d, p

LEMMA LaunchGrows ==
  ASSUME NEW c \in Io, NEW j \in OpKind, NEW k \in OpKind
  PROVE  Grows(c, Launch(c, j), k, One(j = k))
<1> DEFINE d == Launch(c, j)
           a == Among(c.strand, Traces(k))
           r == Among(c.ready, Traces(k))
<1>1. /\ d.strand = c.strand /\ d.ready = c.ready
      /\ d.ops[k] = c.ops[k] + One(j = k)
  BY DEF Launch, Io, One
<1>2. a \in Nat /\ r \in Nat /\ c.ops[k] \in Nat /\ One(j = k) \in Nat
  BY PlacesNat DEF One
<1>3. Places(c, k) = a + r + c.ops[k] /\ Places(d, k) = a + r + (c.ops[k] + One(j = k))
  BY <1>1 DEF Places
<1> HIDE DEF a, r, d
<1>4. Grows(c, d, k, One(j = k))
  BY <1>2, <1>3 DEF Grows
<1> QED
  BY <1>4 DEF d

\* The end of an operation is counted like the operation.
LEMMA DoneTraces ==
  ASSUME NEW j \in OpKind, NEW ec \in ErrorCode, NEW k \in OpKind
  PROVE  /\ Done(j, ec) \in Completion /\ Done(j, ec) \in Task
         /\ Done(j, ec) \in Traces(k) <=> j = k
<1>1. Done(j, ec) \in Completion /\ Done(j, ec).op = j /\ Done(j, ec).t = "Done"
  BY DEF Done, Completion
<1> QED
  BY <1>1 DEF Traces, Launcher, Task, Simple

LEMMA FinishKeeps ==
  ASSUME NEW c \in Io, NEW j \in OpKind, NEW ec \in ErrorCode, c.ops[j] > 0
  PROVE  Keeps(c, Finish(c, j, ec))
<1> SUFFICES ASSUME NEW k \in Followed PROVE Grows(c, Finish(c, j, ec), k, 0)
  BY DEF Keeps
<1> DEFINE d == Finish(c, j, ec)
           x == Done(j, ec)
           p == One(x \in Traces(k))
           a == Among(c.ready, Traces(k))
           b == Among(d.ready, Traces(k))
           r == Among(c.strand, Traces(k))
<1>0. k \in OpKind /\ x \in Completion /\ (x \in Traces(k) <=> j = k)
  BY FollowedOps, DoneTraces
<1>1. /\ d.ready = Append(c.ready, x) /\ d.strand = c.strand
      /\ d.ops[k] = c.ops[k] - p /\ c.ready \in Seq(Completion)
  BY <1>0 DEF Finish, Io, One
<1>2. a \in Nat /\ r \in Nat /\ c.ops[k] \in Nat /\ b \in Nat
  BY <1>0, PlacesNat, AmongNat
<1>3. p \in 0..1 /\ (p > 0 <=> x \in Traces(k)) /\ (p > 0 => c.ops[k] > 0)
  BY <1>0 DEF One
<1> HIDE DEF x
<1>4. a + p <= 1 => b = a + p
  BY <1>0, <1>1, AmongAppend
<1>5. a > 0 \/ p > 0 => b > 0
  BY <1>0, <1>1, <1>3, SomeAmong
<1>6. Places(c, k) = r + a + c.ops[k] /\ Places(d, k) = r + b + (c.ops[k] - p)
  BY <1>1 DEF Places
<1> HIDE DEF a, b, p, d, r
<1>7. Grows(c, d, k, 0)
  BY <1>2, <1>3, <1>4, <1>5, <1>6 DEF Grows
<1> QED
  BY <1>7 DEF d

LEMMA SomeConcat ==
  ASSUME NEW S, NEW s \in Seq(S), NEW u \in Seq(S), NEW M
  PROVE  Among(s, M) > 0 \/ (u # <<>> /\ u[1] \in M) => Among(s \o u, M) > 0
<1>1. /\ \A i \in DOMAIN s : i \in DOMAIN (s \o u) /\ (s \o u)[i] = s[i]
      /\ u # <<>> => Len(s) + 1 \in DOMAIN (s \o u) /\ (s \o u)[Len(s) + 1] = u[1]
  OBVIOUS
<1>2. \A v : Among(v, M) > 0 <=> ~NoneOf(v, M)
  BY DEF Among
<1> QED
  BY <1>1, <1>2 DEF NoneOf

LEMMA ConcatFacts ==
  ASSUME NEW S, NEW s \in Seq(S), NEW u \in Seq(S)
  PROVE  LET v == s \o u
         IN  /\ Len(s) \in Nat /\ Len(u) \in Nat /\ DOMAIN s = 1..Len(s)
             /\ DOMAIN v = 1..(Len(s) + Len(u))
             /\ \A i \in DOMAIN s : v[i] = s[i]
             /\ \A i \in DOMAIN v : i \notin DOMAIN s => i - Len(s) \in DOMAIN u /\ v[i] = u[i - Len(s)]
OBVIOUS

LEMMA SingleConcat ==
  ASSUME NEW S, NEW s \in Seq(S), NEW u \in Seq(S), NEW M, Len(u) = 1, u[1] \in M, NoneOf(s, M)
  PROVE  Among(s \o u, M) = 1
<1> DEFINE v == s \o u
           n == Len(s) + 1
<1>1. /\ Len(s) \in Nat /\ Len(u) \in Nat /\ DOMAIN s = 1..Len(s)
      /\ DOMAIN v = 1..(Len(s) + Len(u))
      /\ \A i \in DOMAIN s : v[i] = s[i]
      /\ \A i \in DOMAIN v : i \notin DOMAIN s => i - Len(s) \in DOMAIN u /\ v[i] = u[i - Len(s)]
  BY ConcatFacts
<1> HIDE DEF v
<1>3. /\ n \in DOMAIN v /\ v[n] = u[1]
      /\ \A i \in DOMAIN v : i = n \/ (i \in DOMAIN s /\ v[i] = s[i])
  BY <1>1
<1> HIDE DEF n
<1>2. OneOf(v, M) /\ ~NoneOf(v, M)
  BY <1>3 DEF OneOf, NoneOf
<1> QED
  BY <1>2 DEF Among, v

LEMMA AbortKeeps ==
  ASSUME NEW c \in Io, NEW j \in OpKind
  PROVE  Keeps(c, Abort(c, j))
<1> SUFFICES ASSUME NEW k \in Followed PROVE Grows(c, Abort(c, j), k, 0)
  BY DEF Keeps
<1> DEFINE d == Abort(c, j)
           x == Done(j, "aborted")
           n == c.ops[j]
           u == [i \in 1..n |-> x]
           a == Among(c.ready, Traces(k))
           b == Among(d.ready, Traces(k))
           r == Among(c.strand, Traces(k))
<1>0. k \in OpKind /\ n \in Nat
  BY FollowedOps, PlacesNat
<1>x. x \in Completion /\ (x \in Traces(k) <=> j = k)
  <2>1. "aborted" \in ErrorCode
    BY DEF ErrorCode
  <2> QED
    BY <1>0, <2>1, DoneTraces
<1>1. /\ d.ready = c.ready \o u /\ d.strand = c.strand
      /\ c.ready \in Seq(Completion)
      /\ d.ops[k] = IF j = k THEN 0 ELSE c.ops[k]
  BY <1>0 DEF Abort, Io
<1> HIDE DEF x, n
<1>u. u \in Seq(Completion) /\ DOMAIN u = 1..n /\ \A i \in DOMAIN u : u[i] = x
  BY <1>0, <1>x
<1>2. a \in Nat /\ r \in Nat /\ c.ops[k] \in Nat /\ b \in Nat
  BY <1>0, PlacesNat, AmongNat
<1>6. /\ Places(c, k) = r + a + c.ops[k]
      /\ Places(d, k) = r + b + (IF j = k THEN 0 ELSE c.ops[k])
      /\ j = k => c.ops[k] = n
  BY <1>1 DEF Places, n
<1>3. CASE j # k \/ n = 0
  <2>1. NoneOf(u, Traces(k))
    BY <1>0, <1>x, <1>u, <1>3 DEF NoneOf
  <2> HIDE DEF u, d
  <2>2. Among(c.ready \o u, Traces(k)) = a
    BY <1>1, <1>u, <2>1, AmongConcat
  <2>3. b = a
    BY <1>1, <2>2
  <2> HIDE DEF a, b, r
  <2>4. Places(d, k) = Places(c, k) /\ Places(c, k) \in Nat
    BY <1>2, <1>3, <1>6, <2>3
  <2>5. Grows(c, d, k, 0)
    BY <2>4 DEF Grows
  <2> QED
    BY <2>5 DEF d
<1>4. CASE j = k /\ n = 1
  <2> HIDE DEF d
  <2>1. Len(u) = 1 /\ u[1] = x
    BY <1>4
  <2> HIDE DEF u
  <2>2. x \in Traces(k)
    BY <1>x, <1>4
  <2>3. u[1] \in Traces(k) /\ u # <<>>
    BY <2>1, <2>2
  <2>4. a = 0 => Among(c.ready \o u, Traces(k)) = 1
    <3>1. a = 0 => NoneOf(c.ready, Traces(k))
      BY DEF Among
    <3> QED
      BY <1>1, <1>u, <2>1, <2>3, <3>1, SingleConcat
  <2>5. Among(c.ready \o u, Traces(k)) > 0
    BY <1>1, <1>u, <2>3, SomeConcat
  <2>6. (a + 1 <= 1 => b = a + 1) /\ b > 0
    BY <1>1, <1>2, <2>4, <2>5
  <2> HIDE DEF a, b, r
  <2>7. Places(c, k) = r + a + 1 /\ Places(d, k) = r + b + 0
    BY <1>4, <1>6
  <2>8. Grows(c, d, k, 0)
    BY <1>2, <2>6, <2>7 DEF Grows
  <2> QED
    BY <2>8 DEF d
<1>5. CASE j = k /\ n > 1
  <2>1. 1 \in DOMAIN u /\ u[1] = x /\ u # <<>>
    BY <1>0, <1>u, <1>5
  <2> HIDE DEF u, d
  <2>2. Among(c.ready \o u, Traces(k)) > 0
    BY <1>x, <1>1, <1>u, <1>5, <2>1, SomeConcat
  <2>3. b > 0
    BY <1>1, <2>2
  <2> HIDE DEF a, b, r
  <2>5. Grows(c, d, k, 0)
    BY <1>2, <1>5, <1>6, <2>3 DEF Grows
  <2> QED
    BY <2>5 DEF d
<1> QED
  BY <1>0, <1>3, <1>4, <1>5

LEMMA SockKeeps ==
  ASSUME NEW c \in Io, NEW x
  PROVE  Keeps(c, [c EXCEPT !.sock = x])
BY SameGrows, FollowedOps DEF Keeps, Io

LEMMA KeepsItself == ASSUME NEW c \in Io PROVE Keeps(c, c)
BY SameGrows, FollowedOps DEF Keeps

LEMMA CloseKeeps ==
  ASSUME NEW c \in Io
  PROVE  /\ Keeps(c, CloseSocket(c)) /\ CloseSocket(c).sock = "closed"
         /\ Keeps(c, CancelConnectTimer(c)) /\ CancelConnectTimer(c).sock = c.sock
         /\ Keeps(c, CancelReconnectTimer(c)) /\ CancelReconnectTimer(c).sock = c.sock
         /\ \A k \in ReconnectTimer : /\ Keeps(c, ArmReconnectTimer(c, k))
                                      /\ ArmReconnectTimer(c, k).sock = c.sock
<1>1. ASSUME NEW a \in Io, NEW j \in OpKind
      PROVE  Abort(a, j) \in Io /\ Keeps(a, Abort(a, j)) /\ Abort(a, j).sock = a.sock
  <2>1. Abort(a, j).sock = a.sock
    BY DEF Abort, Io
  <2> QED
    BY <2>1, AbortType, AbortKeeps
<1>2. ASSUME NEW j \in OpKind, NEW k \in OpKind
      PROVE  /\ Abort(Abort(c, j), k) \in Io /\ Keeps(c, Abort(Abort(c, j), k))
             /\ Abort(Abort(c, j), k).sock = c.sock
  <2> DEFINE a == Abort(c, j)
  <2>1. a \in Io /\ Keeps(c, a) /\ a.sock = c.sock
    BY <1>1
  <2> HIDE DEF a
  <2>2. Abort(a, k) \in Io /\ Keeps(a, Abort(a, k)) /\ Abort(a, k).sock = a.sock
    BY <1>1, <2>1
  <2>3. Keeps(c, Abort(a, k))
    BY <2>1, <2>2, KeepsTwice
  <2> QED
    BY <2>1, <2>2, <2>3 DEF a
<1> DEFINE d == Abort(Abort(c, "connect"), "recv")
           e == Abort(d, "send")
           f == CancelReconnectTimer(c)
<1>3. d \in Io /\ Keeps(c, d)
  BY <1>2, OpTypes
<1> HIDE DEF d
<1>4. e \in Io /\ Keeps(c, e)
  BY <1>1, <1>3, OpTypes, KeepsTwice
<1>5. CloseSocket(c) = [e EXCEPT !.sock = "closed"]
  BY DEF CloseSocket, d
<1> HIDE DEF e
<1>6. Keeps(c, CloseSocket(c)) /\ CloseSocket(c).sock = "closed"
  <2>1. Keeps(e, [e EXCEPT !.sock = "closed"])
    BY <1>4, SockKeeps
  <2> QED
    BY <1>4, <1>5, <2>1, KeepsTwice DEF Io
<1>7. /\ Keeps(c, CancelConnectTimer(c)) /\ CancelConnectTimer(c).sock = c.sock
      /\ f \in Io /\ Keeps(c, f) /\ f.sock = c.sock
  BY <1>2, OpTypes DEF CancelConnectTimer, CancelReconnectTimer
<1>8. ASSUME NEW k \in ReconnectTimer
      PROVE  Keeps(c, ArmReconnectTimer(c, k)) /\ ArmReconnectTimer(c, k).sock = c.sock
  <2>1. ArmReconnectTimer(c, k) = Launch(f, k) /\ k \in OpKind /\ k \notin Followed
    BY FollowedOps, OpTypes DEF ArmReconnectTimer
  <2> HIDE DEF f
  <2>2. \A i \in Followed : One(k = i) = 0 /\ i \in OpKind
    BY <2>1, FollowedOps DEF One
  <2>3. ASSUME NEW i \in Followed PROVE Grows(f, Launch(f, k), i, 0)
    <3>1. Grows(f, Launch(f, k), i, One(k = i))
      BY <1>7, <2>1, <2>2, LaunchGrows
    <3> QED
      BY <2>2, <3>1
  <2>4. Keeps(f, Launch(f, k))
    BY <2>3 DEF Keeps
  <2>5. Launch(f, k).sock = f.sock
    BY <1>7 DEF Launch, Io
  <2> QED
    BY <1>7, <2>1, <2>4, <2>5, KeepsTwice
<1> QED
  BY <1>6, <1>7, <1>8

\* Tasks that launch nothing and end nothing, and sends, which are not followed.
Idles(x) == x \in Task /\ \A k \in Followed : x \notin Traces(k)

LEMMA IdleTasks ==
  /\ Idles(Simple("StopReconnectTimer"))
  /\ \A x \in Task : x.t \in {"Enqueue", "Event"} => Idles(x)
  /\ \A j \in OpKind \ Followed, ec \in ErrorCode : Idles(Done(j, ec))
<1>1. Idles(Simple("StopReconnectTimer"))
  BY TaskTypes DEF Idles, Traces, Launcher, Simple, Completion
<1>2. \A x \in Task : x.t \in {"Enqueue", "Event"} => Idles(x)
  BY DEF Idles, Traces, Launcher, Simple, Completion
<1> QED
  BY <1>1, <1>2, DoneTraces, FollowedOps DEF Idles

LEMMA IdleKeeps ==
  ASSUME NEW c \in Io, NEW x, Idles(x)
  PROVE  /\ Keeps(c, Post(c, x)) /\ Post(c, x).sock = c.sock
         /\ x \in Completion => /\ Keeps(c, [c EXCEPT !.ready = Append(@, x)])
                                /\ [c EXCEPT !.ready = Append(@, x)].sock = c.sock
<1>1. x \in Task /\ \A k \in Followed : One(x \in Traces(k)) = 0 /\ k \in OpKind
  BY FollowedOps DEF Idles, One
<1>2. \A k \in Followed : Grows(c, Post(c, x), k, One(x \in Traces(k)))
  BY <1>1, PostGrows
<1>3. x \in Completion => \A k \in Followed :
        Grows(c, [c EXCEPT !.ready = Append(@, x)], k, One(x \in Traces(k)))
  BY <1>1, ReadyGrows
<1>4. Keeps(c, Post(c, x))
  BY <1>1, <1>2 DEF Keeps
<1>5. x \in Completion => Keeps(c, [c EXCEPT !.ready = Append(@, x)])
  BY <1>1, <1>3 DEF Keeps
<1> QED
  BY <1>4, <1>5 DEF Post, Io

-----------------------------------------------------------------------------
(* The event queue launches and ends nothing but sends.                    *)

\* d has the places of c, and its socket.
Leaves(c, d) == Keeps(c, d) /\ d.sock = c.sock

LEMMA LeavesTwice ==
  ASSUME NEW c \in Io, NEW d \in Io, NEW e, Leaves(c, d), Leaves(d, e)
  PROVE  Leaves(c, e)
BY KeepsTwice DEF Leaves

LEMMA LeavesItself == ASSUME NEW c \in Io PROVE Leaves(c, c)
BY KeepsItself DEF Leaves

LEMMA LeavesEvents ==
  ASSUME NEW c \in Io, NEW q
  PROVE  Leaves(c, [c EXCEPT !.events = q])
BY SameGrows, FollowedOps DEF Keeps, Leaves, Io

LEMMA LaunchLeaves ==
  ASSUME NEW c \in Io, NEW j \in OpKind \ Followed
  PROVE  Leaves(c, Launch(c, j))
<1>1. \A k \in Followed : One(j = k) = 0 /\ k \in OpKind
  BY FollowedOps DEF One
<1>2. \A k \in Followed : Grows(c, Launch(c, j), k, One(j = k))
  BY <1>1, LaunchGrows
<1>3. Launch(c, j).sock = c.sock
  BY DEF Launch, Io
<1> QED
  BY <1>1, <1>2, <1>3 DEF Keeps, Leaves

LEMMA FrontLeaves ==
  ASSUME NEW c \in Io, c.events # <<>>
  PROVE  Leaves(c, RunFront(c))
<1> DEFINE e == Head(c.events)
           x == [t |-> "Event", ev |-> e]
           y == Done("send", "error")
<1>1. e \in Event
  BY DEF Io
<1>2. x \in Task /\ x.t = "Event"
  BY <1>1 DEF Task
<1>3. Idles(x)
  BY <1>2, IdleTasks
<1>4. "send" \in OpKind \ Followed /\ "error" \in ErrorCode
  BY OpTypes, FollowedOps DEF ErrorCode
<1>5. Idles(y) /\ y \in Completion
  BY <1>4, IdleTasks, DoneTraces
<1>6. \/ RunFront(c) = Post(c, x) \/ RunFront(c) = Launch(c, "send")
      \/ RunFront(c) = [c EXCEPT !.ready = Append(@, y)]
  BY DEF RunFront
<1> HIDE DEF x, y, e
<1>7. Leaves(c, Post(c, x)) /\ Leaves(c, [c EXCEPT !.ready = Append(@, y)])
  BY <1>3, <1>5, IdleKeeps DEF Leaves
<1>8. Leaves(c, Launch(c, "send"))
  BY <1>4, LaunchLeaves
<1> QED
  BY <1>6, <1>7, <1>8

LEMMA EnqueueLeaves ==
  ASSUME NEW c \in Io, NEW e \in Event
  PROVE  /\ Leaves(c, EventEnqueue(c, e))
         /\ Leaves(c, EventEnqueueFromOutside(c, e))
<1> DEFINE d == [c EXCEPT !.events = Append(@, e)]
           x == [t |-> "Enqueue", ev |-> e]
<1>1. c.events \in Seq(Event) /\ Append(c.events, e) \in Seq(Event) /\ Append(c.events, e) # <<>>
  BY SeqFacts DEF Io
<1>2. d \in Io /\ d.events # <<>>
  BY <1>1 DEF Io
<1>3. Leaves(c, d)
  BY LeavesEvents DEF Io
<1>4. EventEnqueue(c, e) = IF c.events = <<>> THEN RunFront(d) ELSE d
  BY DEF EventEnqueue
<1>5. x \in Task /\ x.t = "Enqueue"
  BY DEF Task
<1>6. EventEnqueueFromOutside(c, e) = Post(c, x) /\ Idles(x)
  BY <1>5, IdleTasks DEF EventEnqueueFromOutside
<1> HIDE DEF d, x
<1>7. Leaves(c, RunFront(d))
  BY <1>2, <1>3, FrontLeaves, LeavesTwice
<1>8. Leaves(c, Post(c, x))
  BY <1>6, IdleKeeps DEF Leaves
<1> QED
  BY <1>3, <1>4, <1>6, <1>7, <1>8

LEMMA NextLeaves ==
  ASSUME NEW c \in Io
  PROVE  Leaves(c, NextEvent(c))
<1> DEFINE d == [c EXCEPT !.events = Tail(@)]
           e == [c EXCEPT !.events = <<>>]
<1>1. CASE Len(c.events) <= 1
  BY <1>1, LeavesEvents DEF NextEvent
<1>2. CASE ~(Len(c.events) <= 1)
  <2>1. c.events \in Seq(Event)
    BY DEF Io
  <2>2. Len(c.events) > 1 /\ c.events # <<>>
    BY <1>2, <2>1
  <2>3. Head(c.events) \in Event
    BY <2>1, <2>2
  <2>4. Tail(c.events) \in Seq(Event) /\ Tail(c.events) # <<>>
    BY <2>1, <2>2, <2>3, SeqFacts
  <2>5. d \in Io /\ d.events # <<>>
    BY <2>4 DEF Io
  <2>6. Leaves(c, d) /\ NextEvent(c) = RunFront(d)
    BY <1>2, LeavesEvents DEF NextEvent
  <2> HIDE DEF d
  <2> QED
    BY <2>5, <2>6, FrontLeaves, LeavesTwice
<1> QED
  BY <1>1, <1>2

LEMMA DisconnectLeaves ==
  ASSUME TypeOK, NEW c \in Io
  PROVE  Leaves(c, DoDisconnect(c))
BY EventTypes, EnqueueLeaves, LeavesItself DEF DoDisconnect, Disconnecting

\* Closing and cancelling end operations, and end them in their places.
LEMMA CancelLeaves ==
  ASSUME NEW c \in Io
  PROVE  /\ Leaves(c, CancelConnectTimer(c)) /\ Leaves(c, CancelReconnectTimer(c))
         /\ \A k \in ReconnectTimer : Leaves(c, ArmReconnectTimer(c, k))
BY CloseKeeps DEF Leaves

-----------------------------------------------------------------------------
(* The task that runs leaves its place.                                    *)

LEMMA RestPlaces ==
  ASSUME io \in Io, OnStrand, NEW k \in Followed
  PROVE  /\ Rest \in Io /\ Running \in Task /\ Rest.sock = io.sock
         /\ Running \notin Traces(k) => Grows(io, Rest, k, 0)
         /\ Running \in Traces(k) =>
              Places(io, k) > 0 /\ (Places(io, k) <= 1 => Places(Rest, k) = 0)
<1> DEFINE s == io.strand
           M == Traces(k)
           a == Among(s, M)
           b == Among(Tail(s), M)
           r == Among(io.ready, M)
           p == One(Running \in M)
<1>1. s \in Seq(Task) /\ s # <<>> /\ Rest \in Io /\ Running \in Task /\ k \in OpKind
  BY StrandType, FollowedOps DEF OnStrand, Io
<1>2. Rest.strand = Tail(s) /\ Rest.ready = io.ready /\ Rest.ops = io.ops /\ Rest.sock = io.sock
  BY DEF Rest, Io
<1>3. a \in Nat /\ b \in Nat /\ r \in Nat /\ io.ops[k] \in Nat /\ p \in 0..1
      /\ (p > 0 <=> Running \in M)
  BY <1>1, AmongNat, PlacesNat DEF One
<1>4. a <= 1 => b = a - p
  BY <1>1, AmongTail DEF Running
<1>5. p > 0 => a > 0
  BY <1>1, <1>3, SomeAmong DEF Running
<1>6. p = 0 /\ a > 0 => b > 0
  <2> SUFFICES ASSUME Running \notin M, a > 0 PROVE b > 0
    BY <1>3
  <2>1. ~NoneOf(s, M)
    BY DEF Among
  <2>2. PICK i \in DOMAIN s : s[i] \in M
    BY <2>1 DEF NoneOf
  <2>3. i # 1
    BY <1>1, <2>2 DEF Running
  <2>4. i - 1 \in DOMAIN Tail(s) /\ Tail(s)[i - 1] = s[i]
    BY <1>1, <2>2, <2>3
  <2>5. ~NoneOf(Tail(s), M)
    BY <2>2, <2>4 DEF NoneOf
  <2> QED
    BY <2>5 DEF Among
<1>7. Places(io, k) = a + r + io.ops[k] /\ Places(Rest, k) = b + r + io.ops[k]
  BY <1>2 DEF Places
<1> HIDE DEF a, b, r, p
<1>8. p = 0 => Grows(io, Rest, k, 0)
  BY <1>3, <1>4, <1>6, <1>7 DEF Grows
<1>9. p > 0 => Places(io, k) > 0 /\ (Places(io, k) <= 1 => Places(Rest, k) = 0)
  BY <1>3, <1>4, <1>5, <1>7
<1> QED
  BY <1>1, <1>2, <1>3, <1>8, <1>9

LEMMA RestLeaves ==
  ASSUME io \in Io, OnStrand, Idles(Running)
  PROVE  Leaves(io, Rest)
<1>1. \E k : k \in Followed
  BY DEF Followed
<1> QED
  BY <1>1, RestPlaces DEF Leaves, Keeps, Idles

\* What each task that is followed traces.
LEMMA TracedTasks ==
  ASSUME NEW x \in Task
  PROVE  /\ x.t = "Resolve" => x = Simple("Resolve") /\ \A k \in Followed : x \in Traces(k) <=> k = "resolve"
         /\ x.t = "StartRecv" => \A k \in Followed : x \in Traces(k) <=> k = "recv"
         /\ x.t = "StopReconnectTimer" => Idles(x)
         /\ x.t \in {"Enqueue", "Event"} => Idles(x)
         /\ x.t = "ArmTimeout" =>
              /\ x.sync \in BOOLEAN
              /\ \A k \in Followed :
                   x \in Traces(k) <=> k = (IF x.sync THEN "timeoutSync" ELSE "timeout")
         /\ x.t = "Done" => /\ x.op \in OpKind /\ x.ec \in ErrorCode
                            /\ \A k \in Followed : x \in Traces(k) <=> k = x.op
                            /\ x.op \notin Followed => Idles(x)
<1>0. Followed \subseteq OpKind
  BY FollowedOps
<1>1. CASE x \in [t : {"StopReconnectTimer", "Resolve", "StartRecv"}]
  <2>1. x = Simple(x.t) /\ x.t \in {"StopReconnectTimer", "Resolve", "StartRecv"}
    BY <1>1 DEF Simple
  <2>2. x \notin Completion
    BY <2>1 DEF Completion, Simple
  <2> QED
    BY <2>1, <2>2 DEF Traces, Launcher, Idles, Simple, Followed
<1>2. CASE x \in [t : {"ArmTimeout"}, sync : BOOLEAN]
  <2>1. x.t = "ArmTimeout" /\ x.sync \in BOOLEAN /\ x = [t |-> "ArmTimeout", sync |-> x.sync]
    BY <1>2
  <2>2. x \notin Completion
    BY <2>1 DEF Completion
  <2>3. x # Simple("Resolve") /\ x # Simple("StartRecv")
    BY <2>1 DEF Simple
  <2>4. \A b \in BOOLEAN : x = [t |-> "ArmTimeout", sync |-> b] <=> x.sync = b
    BY <2>1
  <2> QED
    BY <2>1, <2>2, <2>3, <2>4 DEF Traces, Launcher, Followed
<1>3. CASE x \in [t : {"Enqueue", "Event"}, ev : Event]
  <2>1. x.t \in {"Enqueue", "Event"}
    BY <1>3
  <2> QED
    BY <2>1, IdleTasks
<1>4. CASE x \in Completion
  <2>1. x.t = "Done" /\ x.op \in OpKind /\ x.ec \in ErrorCode /\ x = Done(x.op, x.ec)
    BY <1>4 DEF Completion, Done
  <2>2. \A k \in Followed : x \in Traces(k) <=> k = x.op
    BY <1>0, <2>1, DoneTraces
  <2> QED
    BY <2>1, <2>2, IdleTasks
<1> QED
  BY <1>1, <1>2, <1>3, <1>4 DEF Task

-----------------------------------------------------------------------------
(* What the steps do to the places of the kinds that are followed.         *)

LEMMA ReadLaunched ==
  ASSUME NEW c \in Io
  PROVE  /\ PostRecv(c).sock = c.sock
         /\ \A k \in Followed : k # "recv" => Grows(c, PostRecv(c), k, 0)
         /\ IsStarted(c) => Places(PostRecv(c), "recv") > 0
         /\ Places(c, "recv") > 0 => Places(PostRecv(c), "recv") > 0
<1> DEFINE d == [c EXCEPT !.ready = Append(@, Done("recv", "error"))]
<1>1. "recv" \in OpKind /\ "error" \in ErrorCode
  BY OpTypes DEF ErrorCode
<1>2. PostRecv(c) \in {c, Launch(c, "recv"), d} /\ (IsStarted(c) => PostRecv(c) # c \/ PostRecv(c) \in {Launch(c, "recv"), d})
  BY DEF PostRecv
<1>3. /\ Done("recv", "error") \in Completion
      /\ \A k \in OpKind : Done("recv", "error") \in Traces(k) <=> "recv" = k
  BY <1>1, DoneTraces
<1>4. \A k \in OpKind : Grows(c, d, k, One("recv" = k)) /\ Grows(c, Launch(c, "recv"), k, One("recv" = k))
  <2> SUFFICES ASSUME NEW k \in OpKind
               PROVE  Grows(c, d, k, One("recv" = k)) /\ Grows(c, Launch(c, "recv"), k, One("recv" = k))
    OBVIOUS
  <2>1. Grows(c, d, k, One(Done("recv", "error") \in Traces(k)))
    BY <1>3, ReadyGrows
  <2>2. One(Done("recv", "error") \in Traces(k)) = One("recv" = k)
    BY <1>3 DEF One
  <2> QED
    BY <1>1, <2>1, <2>2, LaunchGrows
<1>5. c.sock = d.sock /\ c.sock = Launch(c, "recv").sock
  BY DEF Io, Launch
<1> HIDE DEF d
<1>6. ASSUME NEW k \in Followed, k # "recv" PROVE Grows(c, PostRecv(c), k, 0)
  <2>1. k \in OpKind /\ One("recv" = k) = 0
    BY <1>6, FollowedOps DEF One
  <2>2. Grows(c, d, k, 0) /\ Grows(c, Launch(c, "recv"), k, 0)
    BY <1>4, <2>1
  <2>3. Grows(c, c, k, 0)
    BY <2>1, SameGrows
  <2> QED
    BY <1>2, <2>2, <2>3
<1>7. Places(d, "recv") > 0 /\ Places(Launch(c, "recv"), "recv") > 0
  <2>1. One("recv" = "recv") = 1 /\ Places(c, "recv") \in Nat
    BY <1>1, PlacesNat DEF One
  <2>2. Grows(c, d, "recv", 1) /\ Grows(c, Launch(c, "recv"), "recv", 1)
    BY <1>1, <1>4, <2>1
  <2> QED
    BY <2>1, <2>2 DEF Grows
<1>8. IsStarted(c) => PostRecv(c) \in {Launch(c, "recv"), d}
  BY DEF PostRecv, d
<1> QED
  BY <1>2, <1>5, <1>6, <1>7, <1>8

LEMMA BeginDoneLeaves ==
  ASSUME NEW c \in Io, NEW ec, NEW b, BeginDone(c, ec, b)
  PROVE  /\ Leaves(c, io') /\ run' # Idle
         /\ state' = state \/ (ec = "ok" /\ ~timer.timedOut /\ state = "Starting" /\ state' = "Started")
<1>1. run'.pc = "notify" /\ Leaves(c, io')
  BY CancelLeaves DEF BeginDone
<1>2. run' # Idle
  BY <1>1 DEF Idle
<1> QED
  BY <1>1, <1>2 DEF BeginDone

\* An attempt goes on with the next endpoint, or ends.
LEMMA TriesOn ==
  ASSUME NEW c \in Io, NEW i \in Nat, PostConnect(c, i)
  PROVE  /\ state' = state
         /\ \A k \in Followed : k # "connect" => Grows(c, io', k, 0)
         /\ run' # Idle \/ (run' = run /\ Places(io', "connect") > 0)
         /\ c.sock # "closed" => io'.sock # "closed"
         /\ run' = Idle => io'.sock # "closed"
<1>1. CASE i > NEndpoints
  <2>1. BeginDone(c, "error", FALSE)
    BY <1>1 DEF PostConnect
  <2>2. Leaves(c, io') /\ run' # Idle /\ state' = state
    <3>1. /\ Leaves(c, io') /\ run' # Idle
          /\ state' = state \/ ("error" = "ok" /\ ~timer.timedOut /\ state = "Starting" /\ state' = "Started")
      BY <2>1, BeginDoneLeaves
    <3>2. "error" # "ok"
      OBVIOUS
    <3> QED
      BY <3>1, <3>2
  <2> QED
    BY <2>2 DEF Leaves, Keeps
<1>2. CASE ~(i > NEndpoints)
  <2> DEFINE x == IF c.sock = "closed" THEN "open" ELSE c.sock
             d == [c EXCEPT !.sock = x]
  <2>1. x \in {"closed", "open", "connected"} /\ x # "closed"
    BY DEF Io
  <2>2. io' = Launch(d, "connect") /\ run' = run /\ state' = state
    BY <1>2 DEF PostConnect
  <2> HIDE DEF x
  <2>3. d \in Io /\ Keeps(c, d) /\ d.sock # "closed"
    BY <2>1, SockHeld, SockKeeps DEF Io
  <2> HIDE DEF d
  <2>4. io'.sock # "closed"
    BY <2>2, <2>3 DEF Launch, Io
  <2>5. "connect" \in OpKind /\ One("connect" = "connect") = 1 /\ Places(d, "connect") \in Nat
    BY <2>3, OpTypes, PlacesNat DEF One
  <2>6. Grows(d, io', "connect", 1)
    BY <2>2, <2>3, <2>5, LaunchGrows
  <2>7. Places(io', "connect") > 0
    BY <2>5, <2>6 DEF Grows
  <2>8. ASSUME NEW k \in Followed, k # "connect" PROVE Grows(c, io', k, 0)
    <3>1. k \in OpKind /\ One("connect" = k) = 0
      BY <2>8, FollowedOps DEF One
    <3>2. Grows(d, io', k, One("connect" = k))
      BY <2>2, <2>3, <2>5, <3>1, LaunchGrows
    <3>3. Grows(d, io', k, 0)
      BY <3>1, <3>2
    <3> QED
      BY <2>3, <3>3, KeepsTwice
  <2> QED
    BY <2>2, <2>4, <2>7, <2>8
<1> QED
  BY <1>1, <1>2

LEMMA DeliverLeaves ==
  ASSUME TypeOK, Deliver
  PROVE  Leaves(io, io')
<1> DEFINE c == [io EXCEPT !.ready = Tail(@)]
           h == Head(io.ready)
<1>1. /\ io \in Io /\ io.ready \in Seq(Completion) /\ io.ready # <<>> /\ h \in Completion
      /\ Tail(io.ready) \in Seq(Completion)
  BY DEF TypeOK, Deliver, Io
<1>2. h \in Task
  BY <1>1 DEF Task
<1>3. io' = Post(c, h) /\ c \in Io
  BY <1>1 DEF Deliver, Io
<1>4. c.strand = io.strand /\ c.ready = Tail(io.ready) /\ c.ops = io.ops
      /\ c.sock = io.sock /\ c.events = io.events
  BY <1>1 DEF Io
<1> HIDE DEF c
<1>5. io'.strand = Append(io.strand, h) /\ io'.ready = Tail(io.ready) /\ io'.ops = io.ops
      /\ io'.sock = io.sock /\ io.strand \in Seq(Task)
  BY <1>1, <1>3, <1>4 DEF Post, Io
<1>6. ASSUME NEW k \in Followed PROVE Grows(io, io', k, 0)
  <2> DEFINE M == Traces(k)
             a == Among(io.ready, M)
             b == Among(Tail(io.ready), M)
             r == Among(io.strand, M)
             q == Among(Append(io.strand, h), M)
             p == One(h \in M)
  <2>1. k \in OpKind
    BY FollowedOps
  <2>2. a \in Nat /\ b \in Nat /\ r \in Nat /\ q \in Nat /\ io.ops[k] \in Nat /\ p \in 0..1
        /\ (p > 0 <=> h \in M)
    BY <1>1, <2>1, AmongNat, PlacesNat DEF One
  <2>3. a <= 1 => b = a - p
    BY <1>1, AmongTail
  <2>4. r + p <= 1 => q = r + p
    BY <1>2, <1>5, AmongAppend
  <2>5. p > 0 => a > 0
    BY <1>1, <2>2, SomeAmong
  <2>6. r > 0 \/ p > 0 => q > 0
    BY <1>2, <1>5, <2>2, SomeAmong
  <2>7. p = 0 /\ a > 0 => b > 0
    <3> SUFFICES ASSUME h \notin M, a > 0 PROVE b > 0
      BY <2>2
    <3>1. ~NoneOf(io.ready, M)
      BY DEF Among
    <3>2. PICK i \in DOMAIN io.ready : io.ready[i] \in M
      BY <3>1 DEF NoneOf
    <3>3. i # 1
      BY <1>1, <3>2
    <3>4. i - 1 \in DOMAIN Tail(io.ready) /\ Tail(io.ready)[i - 1] = io.ready[i]
      BY <1>1, <3>2, <3>3
    <3>5. ~NoneOf(Tail(io.ready), M)
      BY <3>2, <3>4 DEF NoneOf
    <3> QED
      BY <3>5 DEF Among
  <2>8. Places(io, k) = r + a + io.ops[k] /\ Places(io', k) = q + b + io.ops[k]
    BY <1>5 DEF Places
  <2> HIDE DEF a, b, r, q, p
  <2> QED
    BY <2>2, <2>3, <2>4, <2>5, <2>6, <2>7, <2>8 DEF Grows
<1> QED
  BY <1>5, <1>6 DEF Leaves, Keeps

LEMMA CompletesLeaves ==
  ASSUME TypeOK, NEW k \in OpKind, NEW ec \in ErrorCode, Completes(k, ec)
  PROVE  Keeps(io, io') /\ (io.sock # "closed" => io'.sock # "closed")
         /\ (io'.sock = "closed" => io.sock = "closed")
<1> DEFINE c == IF k = "connect" /\ ec = "ok" THEN [io EXCEPT !.sock = "connected"] ELSE io
<1>1. io \in Io /\ io.ops[k] > 0 /\ io' = Finish(c, k, ec)
  BY DEF TypeOK, Completes
<1>2. c \in Io /\ Keeps(io, c) /\ c.ops = io.ops /\ (c.sock = io.sock \/ c.sock = "connected")
  BY <1>1, SockHeld, SockKeeps, KeepsItself DEF Io
<1> HIDE DEF c
<1>3. Keeps(c, io')
  BY <1>1, <1>2, FinishKeeps
<1>4. io'.sock = c.sock
  BY <1>1, <1>2 DEF Finish, Io
<1> QED
  BY <1>1, <1>2, <1>3, <1>4, KeepsTwice

-----------------------------------------------------------------------------
(* Calls in turn, by a client that does not reconnect.                     *)

\* A blocking Start waits for its promise.
Waits == api.start = "wait" /\ ~promise

\* Nothing but a blocking Start begins an attempt.
NoOther == Places(io, "timeout") = 0 /\ FreeOf(io, {Reconnecting})

\* Its timeout timer is somewhere only while it waits.
TimerWaited == Places(io, "timeoutSync") <= One(Waits)

Turns ==
  /\ api.start # "idle" => api.sync /\ api.stop = "idle"
  /\ Calling => ~promise

\* The step launches nothing that is followed, and closes no socket.
Calm == Keeps(io, io') /\ (io'.sock = "closed" => io.sock = "closed")

LEMMA LeavesCalm ==
  ASSUME Leaves(io, io')
  PROVE  Calm
BY DEF Leaves, Calm

LEMMA CalmCalls ==
  ASSUME TypeOK,
         \/ StartPool \/ StartLoadReconnectTimer \/ StartConnect \/ StartBindFails \/ StartWait
         \/ StopStep \/ SendPost \/ Application
  PROVE  Calm
<1>io. io \in Io
  BY DEF TypeOK
<1>0. /\ Leaves(io, io) /\ Leaves(io, Post(io, Simple("StopReconnectTimer")))
      /\ \A e \in Event : Leaves(io, EventEnqueueFromOutside(io, e))
  BY <1>io, LeavesItself, IdleKeeps, IdleTasks, EnqueueLeaves DEF Leaves
<1>1. CASE StartPool \/ StartWait \/ StopPool \/ StopJoin \/ SendCall
            \/ \E sync \in SyncStart : StartCall(sync)
  <2>1. io' = io
    BY <1>1 DEF StartPool, StartWait, StopPool, StopJoin, SendCall, StartCall
  <2> QED
    BY <1>0, <2>1, LeavesCalm
<1>2. CASE StartLoadReconnectTimer
  <2>1. io' = io \/ io' = ArmReconnectTimer(io, "wakeWait")
    BY <1>2 DEF StartLoadReconnectTimer
  <2>2. Leaves(io, ArmReconnectTimer(io, "wakeWait"))
    BY <1>io, CancelLeaves DEF ReconnectTimer
  <2> QED
    BY <1>0, <2>1, <2>2, LeavesCalm
<1>3. CASE StartConnect
  <2> DEFINE c == CloseSocket(io)
  <2>1. io' = io \/ io' = [c EXCEPT !.sock = "open"]
    BY <1>3 DEF StartConnect
  <2>2. c \in Io /\ Keeps(io, c)
    BY <1>io, CloseKeeps, CloseType
  <2> HIDE DEF c
  <2>3. /\ Keeps(io, [c EXCEPT !.sock = "open"]) /\ [c EXCEPT !.sock = "open"].sock = "open"
    BY <1>io, <2>2, SockKeeps, KeepsTwice DEF Io
  <2>4. CASE io' = io
    BY <1>0, <2>4, LeavesCalm
  <2>5. CASE io' = [c EXCEPT !.sock = "open"]
    BY <2>3, <2>5 DEF Calm
  <2> QED
    BY <2>1, <2>4, <2>5
<1>4. CASE StartBindFails
  <2> DEFINE c == CancelConnectTimer(io)
             e == [t |-> "disconnect", old |-> state, defer |-> "wake"]
  <2>1. io' = IF Disconnecting THEN EventEnqueueFromOutside(c, e) ELSE c
    BY <1>4 DEF StartBindFails
  <2>2. c \in Io /\ Leaves(io, c)
    BY <1>io, CancelLeaves, CloseType
  <2>3. Disconnecting => e \in Event
    BY EventTypes DEF Disconnecting
  <2> HIDE DEF c, e
  <2>4. Disconnecting => Leaves(io, EventEnqueueFromOutside(c, e))
    BY <1>io, <2>2, <2>3, EnqueueLeaves, LeavesTwice
  <2> QED
    BY <2>1, <2>2, <2>4, LeavesCalm
<1>5. CASE StopCasStarted \/ StopCasStarting
  <2>1. PICK o \in {"Started", "Starting"} :
          io' = io \/ io' = EventEnqueueFromOutside(io, DisconnectOf(o, "stop"))
    BY <1>5 DEF StopCasStarted, StopCasStarting, StopCas, DisconnectOf
  <2>2. DisconnectOf(o, "stop") \in Event
    BY EventTypes DEF DisconnectOf
  <2> QED
    BY <1>0, <2>1, <2>2, LeavesCalm
<1>6. CASE StopPostStop \/ SendPost
  <2>1. PICK n \in {"stop", "send"} : io' = EventEnqueueFromOutside(io, Simple(n))
    BY <1>6 DEF StopPostStop, SendPost
  <2>2. Simple(n) \in Event
    BY EventTypes
  <2> QED
    BY <1>0, <2>1, <2>2, LeavesCalm
<1>7. CASE StopCall
  BY <1>0, <1>7, LeavesCalm DEF StopCall
<1> QED
  BY <1>1, <1>2, <1>3, <1>4, <1>5, <1>6, <1>7 DEF StopStep, Application

LEMMA CalmNetwork ==
  ASSUME TypeOK, Network \/ Deliver \/ RunReturns \/ DoneNotify
  PROVE  Calm
<1>1. CASE Network
  <2>1. PICK k \in OpKind, ec \in ErrorCode : Completes(k, ec)
    BY <1>1, OpTypes DEF Network, Resolves, Connects, Receives, Writes, TimerExpires, Expires,
       ErrorCode
  <2> QED
    BY <2>1, CompletesLeaves DEF Calm
<1>2. CASE Deliver
  BY <1>2, DeliverLeaves, LeavesCalm
<1>3. CASE RunReturns \/ DoneNotify
  <2>1. io' = io /\ io \in Io
    BY <1>3 DEF RunReturns, DoneNotify, TypeOK
  <2> QED
    BY <2>1, LeavesItself, LeavesCalm
<1> QED
  BY <1>1, <1>2, <1>3

\* Handlers that launch nothing and end nothing that is followed.
LEMMA CalmHandlers ==
  ASSUME TypeOK,
         \/ HandleEnqueue \/ HandleStopReconnectTimer \/ HandleReconnectTimer \/ HandleSent
         \/ HandleStopEvent \/ HandleWakeEvent
  PROVE  Calm
<1>1. OnStrand /\ io \in Io
  BY DEF TypeOK, HandleEnqueue, HandleStopReconnectTimer, HandleReconnectTimer, HandleSent,
     HandleStopEvent, HandleWakeEvent, RunsEvent, RunsCompletion
<1>2. Running \in Task /\ Rest \in Io
  BY <1>1, StrandType
<1>3. Idles(Running)
  <2>1. CASE Running.t \in {"Enqueue", "Event", "StopReconnectTimer"}
    BY <1>2, <2>1, TracedTasks
  <2>2. CASE Running.t = "Done" /\ Running.op \in ReconnectTimer \cup {"send"}
    BY <1>2, <2>2, TracedTasks, FollowedOps
  <2> QED
    BY <2>1, <2>2 DEF HandleEnqueue, HandleStopReconnectTimer, HandleReconnectTimer, HandleSent,
       HandleStopEvent, HandleWakeEvent, RunsEvent, RunsCompletion
<1>4. Leaves(io, Rest)
  BY <1>1, <1>3, RestLeaves
<1>5. \A d : Leaves(Rest, d) /\ io' = d => Calm
  BY <1>1, <1>2, <1>4, LeavesTwice, LeavesCalm
<1>6. CASE HandleEnqueue
  BY <1>2, <1>5, <1>6, TaskFields, EnqueueLeaves DEF HandleEnqueue
<1>7. CASE HandleStopReconnectTimer
  BY <1>2, <1>5, <1>7, CancelLeaves DEF HandleStopReconnectTimer
<1>8. CASE HandleReconnectTimer
  <2> DEFINE c == IF ReconnectFires THEN EventEnqueue(Rest, Simple("reconnect")) ELSE Rest
  <2>1. c \in Io /\ Leaves(Rest, c)
    BY <1>2, EventTypes, EventEnqueueType, EnqueueLeaves, LeavesItself
  <2>2. \/ io' = Rest \/ io' = ArmReconnectTimer(Rest, "retryWait")
        \/ io' = ArmReconnectTimer(c, "wakeWait")
    BY <1>8 DEF HandleReconnectTimer
  <2> HIDE DEF c
  <2>3. /\ Leaves(Rest, ArmReconnectTimer(Rest, "retryWait"))
        /\ Leaves(c, ArmReconnectTimer(c, "wakeWait"))
    BY <1>2, <2>1, CancelLeaves DEF ReconnectTimer
  <2>4. Leaves(Rest, ArmReconnectTimer(c, "wakeWait"))
    BY <1>2, <2>1, <2>3, LeavesTwice
  <2> QED
    BY <1>2, <1>5, <2>2, <2>3, <2>4, LeavesItself
<1>9. CASE HandleSent
  <2> DEFINE c == DoDisconnect(Rest)
  <2>1. io' = NextEvent(Rest) \/ io' = NextEvent(c)
    BY <1>9 DEF HandleSent
  <2>2. c \in Io /\ Leaves(Rest, c)
    BY <1>2, DoDisconnectType, DisconnectLeaves
  <2> HIDE DEF c
  <2>3. Leaves(Rest, NextEvent(Rest)) /\ Leaves(c, NextEvent(c))
    BY <1>2, <2>2, NextLeaves
  <2>4. Leaves(Rest, NextEvent(c))
    BY <1>2, <2>2, <2>3, LeavesTwice
  <2> QED
    BY <1>5, <2>1, <2>3, <2>4
<1>10. CASE HandleStopEvent
  <2> DEFINE c == CancelReconnectTimer(Rest)
             d == CancelConnectTimer(c)
  <2>1. io' = NextEvent(d)
    BY <1>10 DEF HandleStopEvent
  <2>2. c \in Io /\ Leaves(Rest, c)
    BY <1>2, CloseType, CancelLeaves
  <2> HIDE DEF c
  <2>3. d \in Io /\ Leaves(c, d)
    BY <2>2, CloseType, CancelLeaves
  <2> HIDE DEF d
  <2>4. Leaves(c, NextEvent(d))
    BY <2>2, <2>3, NextLeaves, LeavesTwice
  <2> QED
    BY <1>2, <1>5, <2>1, <2>2, <2>4, LeavesTwice
<1>11. CASE HandleWakeEvent
  <2> DEFINE c == IF ReconnectEnabled THEN CancelReconnectTimer(Rest) ELSE Rest
  <2>1. io' = NextEvent(c)
    BY <1>11 DEF HandleWakeEvent
  <2>2. c \in Io /\ Leaves(Rest, c)
    BY <1>2, CloseType, CancelLeaves, LeavesItself
  <2> HIDE DEF c
  <2>3. Leaves(Rest, NextEvent(c))
    BY <1>2, <2>2, NextLeaves, LeavesTwice
  <2> QED
    BY <1>5, <2>1, <2>3
<1> QED
  BY <1>6, <1>7, <1>8, <1>9, <1>10, <1>11

\* The disconnect closes the socket, which ends what is pending in its place.
LEMMA DisconnectKeeps ==
  ASSUME TypeOK, HandleDisconnectEvent
  PROVE  Keeps(io, io')
<1>1. OnStrand /\ io \in Io /\ Running.t = "Event" /\ Running.ev.t = "disconnect"
  BY DEF TypeOK, HandleDisconnectEvent, RunsEvent
<1>2. Running \in Task /\ Rest \in Io
  BY <1>1, StrandType
<1>3. Leaves(io, Rest)
  BY <1>1, <1>2, TracedTasks, RestLeaves
<1> DEFINE c == CloseSocket(Rest)
           e == Simple(Running.ev.defer)
           d == EventEnqueue(c, e)
<1>4. e \in Event
  <2>1. Running.ev \in Event
    BY <1>1, <1>2, TaskFields
  <2>2. Running.ev.defer \in {"stop", "wake"}
    BY <1>1, <2>1 DEF Event
  <2> QED
    BY <2>2, EventTypes
<1>5. io' = NextEvent(d) \/ io' = io
  BY DEF HandleDisconnectEvent
<1>6. c \in Io /\ Keeps(Rest, c)
  BY <1>2, CloseType, CloseKeeps
<1> HIDE DEF c, e
<1>7. d \in Io /\ Keeps(c, d)
  BY <1>4, <1>6, EventEnqueueType, EnqueueLeaves DEF Leaves
<1> HIDE DEF d
<1>8. Keeps(d, NextEvent(d))
  BY <1>7, NextLeaves DEF Leaves
<1>9. Keeps(c, NextEvent(d))
  BY <1>6, <1>7, <1>8, KeepsTwice
<1>10. Keeps(Rest, NextEvent(d))
  BY <1>2, <1>6, <1>9, KeepsTwice
<1>11. Keeps(io, NextEvent(d))
  BY <1>1, <1>2, <1>3, <1>10, KeepsTwice DEF Leaves
<1> QED
  BY <1>1, <1>5, <1>11, KeepsItself

-----------------------------------------------------------------------------
(* The steps that launch, or take, an operation that is followed.          *)

Others(d, j) == \A k \in Followed : k # j => Grows(io, d, k, 0)

\* The task of an operation of kind j is taken.
LEMMA TakesPlace ==
  ASSUME TypeOK, OnStrand, NEW j, \A k \in Followed : Running \in Traces(k) <=> k = j
  PROVE  /\ Rest \in Io /\ Rest.sock = io.sock /\ Others(Rest, j)
         /\ j \in Followed => /\ Places(io, j) > 0
                              /\ Places(io, j) <= 1 => Places(Rest, j) = 0
         /\ \A d : \A k \in Followed : k # j /\ Grows(Rest, d, k, 0) => Grows(io, d, k, 0)
<1>1. io \in Io
  BY DEF TypeOK
<1>2. \A k \in Followed :
        /\ Rest \in Io /\ Rest.sock = io.sock
        /\ k # j => Grows(io, Rest, k, 0)
        /\ k = j => Places(io, k) > 0 /\ (Places(io, k) <= 1 => Places(Rest, k) = 0)
  BY <1>1, RestPlaces
<1>3. \E k : k \in Followed
  BY DEF Followed
<1>4. Rest \in Io /\ Rest.sock = io.sock
  BY <1>2, <1>3
<1>5. ASSUME NEW d, NEW k \in Followed, k # j, Grows(Rest, d, k, 0) PROVE Grows(io, d, k, 0)
  <2>1. Grows(io, Rest, k, 0) /\ k \in OpKind /\ 0 \in Nat
    BY <1>2, <1>5, FollowedOps
  <2>2. Grows(io, d, k, 0 + 0)
    BY <1>1, <1>4, <1>5, <2>1, GrowsTwice
  <2> QED
    BY <2>2
<1> QED
  BY <1>2, <1>4, <1>5 DEF Others

\* A task or an operation of kind j is added.
LEMMA AddsPlace ==
  ASSUME NEW c \in Io, NEW d, NEW j \in Followed,
         \/ \E x \in Task : d = Post(c, x) /\ \A k \in Followed : x \in Traces(k) <=> k = j
         \/ d = Launch(c, j)
  PROVE  /\ d \in Io /\ d.sock = c.sock /\ Grows(c, d, j, 1) /\ Places(d, j) > 0
         /\ \A k \in Followed : k # j => Grows(c, d, k, 0)
<1>1. \A k \in Followed : k \in OpKind
  BY FollowedOps
<1>2. \A k \in Followed : Grows(c, d, k, One(j = k))
  <2>1. ASSUME NEW x \in Task, d = Post(c, x), \A k \in Followed : x \in Traces(k) <=> k = j
        PROVE  \A k \in Followed : Grows(c, d, k, One(j = k))
    <3>1. \A k \in Followed : Grows(c, d, k, One(x \in Traces(k)))
      BY <1>1, <2>1, PostGrows
    <3>2. \A k \in Followed : One(x \in Traces(k)) = One(j = k)
      BY <2>1 DEF One
    <3> QED
      BY <3>1, <3>2
  <2>2. d = Launch(c, j) => \A k \in Followed : Grows(c, d, k, One(j = k))
    BY <1>1, LaunchGrows
  <2> QED
    BY <2>1, <2>2
<1>3. d \in Io /\ d.sock = c.sock
  <2>1. \A x \in Task : Post(c, x) \in Io /\ Post(c, x).sock = c.sock
    BY PostType DEF Post, Io
  <2>2. Launch(c, j) \in Io /\ Launch(c, j).sock = c.sock
    BY <1>1, LaunchType DEF Launch, Io
  <2> QED
    BY <2>1, <2>2
<1>4. One(j = j) = 1 /\ \A k \in Followed : k # j => One(j = k) = 0
  BY DEF One
<1>5. Grows(c, d, j, 1) /\ \A k \in Followed : k # j => Grows(c, d, k, 0)
  BY <1>2, <1>4
<1>6. Places(d, j) > 0
  <2>1. Places(c, j) \in Nat
    BY <1>1, PlacesNat
  <2> QED
    BY <1>5, <2>1 DEF Grows
<1> QED
  BY <1>3, <1>5, <1>6

\* A task posted adds a place to the one trace it belongs to.
LEMMA AddsTask ==
  ASSUME NEW c \in Io, NEW j \in Followed, NEW x \in Task,
         \A k \in Followed : x \in Traces(k) <=> k = j
  PROVE  /\ Post(c, x) \in Io /\ Post(c, x).sock = c.sock
         /\ Grows(c, Post(c, x), j, 1) /\ Places(Post(c, x), j) > 0
         /\ \A k \in Followed : k # j => Grows(c, Post(c, x), k, 0)
<1> DEFINE d == Post(c, x)
<1>1. \E y \in Task : d = Post(c, y) /\ \A k \in Followed : y \in Traces(k) <=> k = j
  OBVIOUS
<1> HIDE DEF d
<1>2. /\ d \in Io /\ d.sock = c.sock /\ Grows(c, d, j, 1) /\ Places(d, j) > 0
      /\ \A k \in Followed : k # j => Grows(c, d, k, 0)
  BY <1>1, AddsPlace
<1> QED
  BY <1>2 DEF d

\* An operation launched adds a place to its own trace only.
LEMMA AddsLaunch ==
  ASSUME NEW c \in Io, NEW j \in Followed
  PROVE  /\ Launch(c, j) \in Io /\ Launch(c, j).sock = c.sock
         /\ Grows(c, Launch(c, j), j, 1) /\ Places(Launch(c, j), j) > 0
         /\ \A k \in Followed : k # j => Grows(c, Launch(c, j), k, 0)
BY AddsPlace

LEMMA PostedResolve ==
  ASSUME TypeOK, api.sync, StartPostResolve
  PROVE  /\ \A k \in {"timeout", "connect", "recv"} : Grows(io, io', k, 0)
         /\ Grows(io, io', "timeoutSync", 1) /\ Places(io', "resolve") > 0
         /\ io'.sock = io.sock
<1> DEFINE x == [t |-> "ArmTimeout", sync |-> api.sync]
           y == Simple("Resolve")
           c == Post(io, x)
<1>1. io \in Io /\ api.sync = TRUE
  BY DEF TypeOK, Api
<1>2. io' = Post(c, y)
  BY DEF StartPostResolve
<1>3. x \in Task /\ x.t = "ArmTimeout" /\ x.sync = TRUE /\ y \in Task /\ y.t = "Resolve"
  BY <1>1, TaskTypes DEF Simple
<1> HIDE DEF x, y
<1>4. \A k \in Followed : (x \in Traces(k) <=> k = "timeoutSync") /\ (y \in Traces(k) <=> k = "resolve")
  BY <1>3, TracedTasks
<1>5. {"timeout", "connect", "recv", "timeoutSync", "resolve"} \subseteq Followed
  BY DEF Followed
<1>6. /\ c \in Io /\ c.sock = io.sock /\ Grows(io, c, "timeoutSync", 1)
      /\ \A k \in Followed : k # "timeoutSync" => Grows(io, c, k, 0)
  <2>1. \A k \in Followed : x \in Traces(k) <=> k = "timeoutSync"
    BY <1>4
  <2> QED
    BY <1>1, <1>3, <1>5, <2>1, AddsTask
<1> HIDE DEF c
<1>7. /\ io' \in Io /\ io'.sock = c.sock /\ Places(io', "resolve") > 0
      /\ \A k \in Followed : k # "resolve" => Grows(c, io', k, 0)
  <2>1. \A k \in Followed : y \in Traces(k) <=> k = "resolve"
    BY <1>4
  <2> QED
    BY <1>2, <1>3, <1>5, <1>6, <2>1, AddsTask
<1>8. ASSUME NEW k \in {"timeout", "connect", "recv"} PROVE Grows(io, io', k, 0)
  <2>1. Grows(io, c, k, 0) /\ Grows(c, io', k, 0) /\ k \in OpKind /\ 0 \in Nat
    BY <1>5, <1>6, <1>7, FollowedOps
  <2>2. Grows(io, io', k, 0 + 0)
    BY <1>1, <1>6, <2>1, GrowsTwice
  <2> QED
    BY <2>2
<1>9. Grows(io, io', "timeoutSync", 1)
  <2>1. Grows(c, io', "timeoutSync", 0) /\ "timeoutSync" \in OpKind /\ 0 \in Nat /\ 1 \in Nat
    BY <1>5, <1>7, FollowedOps
  <2>2. Grows(io, io', "timeoutSync", 1 + 0)
    BY <1>1, <1>6, <2>1, GrowsTwice
  <2> QED
    BY <2>2
<1> QED
  BY <1>6, <1>7, <1>8, <1>9

LEMMA ArmedOnce ==
  ASSUME TypeOK, HandleArmTimeout
  PROVE  LET j == IF Running.sync THEN "timeoutSync" ELSE "timeout"
         IN  /\ Others(io', j) /\ io'.sock = io.sock
             /\ Places(io, j) > 0 /\ (Places(io, j) <= 1 => Places(io', j) = 1)
<1> DEFINE j == IF Running.sync THEN "timeoutSync" ELSE "timeout"
           c == CancelConnectTimer(Rest)
<1>1. OnStrand /\ Running.t = "ArmTimeout" /\ io' = Launch(c, j) /\ io \in Io
  BY DEF HandleArmTimeout, TypeOK
<1>2. Running \in Task
  BY <1>1, StrandType
<1>3. \A k \in Followed : Running \in Traces(k) <=> k = j
  BY <1>1, <1>2, TracedTasks
<1>4. j \in Followed
  BY DEF Followed
<1> HIDE DEF j
<1>5. /\ Rest \in Io /\ Rest.sock = io.sock /\ Others(Rest, j)
      /\ Places(io, j) > 0 /\ (Places(io, j) <= 1 => Places(Rest, j) = 0)
      /\ \A d : \A k \in Followed : k # j /\ Grows(Rest, d, k, 0) => Grows(io, d, k, 0)
  BY <1>1, <1>3, <1>4, TakesPlace
<1>6. c \in Io /\ Keeps(Rest, c) /\ c.sock = Rest.sock
  BY <1>5, CloseType, CloseKeeps
<1> HIDE DEF c
<1>7. /\ io' \in Io /\ io'.sock = c.sock /\ Grows(c, io', j, 1)
      /\ \A k \in Followed : k # j => Grows(c, io', k, 0)
  BY <1>1, <1>4, <1>6, AddsPlace
<1>8. \A k \in Followed : \A n \in Nat : Grows(c, io', k, n) => Grows(Rest, io', k, n)
  BY <1>5, <1>6, KeepsTwice
<1>9. Grows(Rest, io', j, 1) /\ \A k \in Followed : k # j => Grows(Rest, io', k, 0)
  BY <1>4, <1>7, <1>8
<1>10. Others(io', j)
  BY <1>5, <1>9 DEF Others
<1>11. Places(Rest, j) = 0 => Places(io', j) = 1
  BY <1>9 DEF Grows
<1>12. Others(io', j) /\ io'.sock = io.sock
       /\ Places(io, j) > 0 /\ (Places(io, j) <= 1 => Places(io', j) = 1)
  BY <1>5, <1>6, <1>7, <1>10, <1>11
<1> QED
  BY <1>12 DEF j

LEMMA TimeoutTaken ==
  ASSUME TypeOK, HandleTimeout
  PROVE  /\ Running.op \in ConnectTimer /\ Others(io', Running.op)
         /\ Places(io, Running.op) > 0
         /\ Places(io, Running.op) <= 1 => Places(io', Running.op) = 0
<1> DEFINE j == Running.op
<1>1. /\ OnStrand /\ Running.t = "Done" /\ j \in ConnectTimer /\ io \in Io
      /\ io' = CloseSocket(Rest) \/ io' = Rest
  BY DEF HandleTimeout, RunsCompletion, TypeOK
<1>2. Running \in Task
  BY <1>1, StrandType
<1>3. \A k \in Followed : Running \in Traces(k) <=> k = j
  BY <1>1, <1>2, TracedTasks
<1>4. j \in Followed /\ j \in OpKind
  BY <1>1, FollowedOps DEF Followed, ConnectTimer
<1> HIDE DEF j
<1>5. /\ Rest \in Io /\ Others(Rest, j)
      /\ Places(io, j) > 0 /\ (Places(io, j) <= 1 => Places(Rest, j) = 0)
      /\ \A d : \A k \in Followed : k # j /\ Grows(Rest, d, k, 0) => Grows(io, d, k, 0)
  BY <1>1, <1>3, <1>4, TakesPlace
<1>6. \A k \in Followed : Grows(Rest, CloseSocket(Rest), k, 0)
  BY <1>5, CloseKeeps DEF Keeps
<1>7. Others(CloseSocket(Rest), j)
  BY <1>5, <1>6 DEF Others
<1>8. Places(Rest, j) = 0 => Places(CloseSocket(Rest), j) = 0
  BY <1>4, <1>6 DEF Grows
<1>9. Others(io', j) /\ Places(io, j) > 0 /\ (Places(io, j) <= 1 => Places(io', j) = 0)
  BY <1>1, <1>5, <1>7, <1>8
<1> QED
  BY <1>1, <1>9 DEF j

LEMMA ResolveLaunched ==
  ASSUME TypeOK, HandleResolve
  PROVE  Others(io', "resolve") /\ io'.sock = io.sock /\ Places(io', "resolve") > 0
<1>1. OnStrand /\ Running.t = "Resolve" /\ io' = Launch(Rest, "resolve") /\ io \in Io
  BY DEF HandleResolve, TypeOK
<1>2. Running \in Task /\ "resolve" \in Followed
  BY <1>1, StrandType DEF Followed
<1>3. \A k \in Followed : Running \in Traces(k) <=> k = "resolve"
  BY <1>1, <1>2, TracedTasks
<1>4. /\ Rest \in Io /\ Rest.sock = io.sock
      /\ \A d : \A k \in Followed : k # "resolve" /\ Grows(Rest, d, k, 0) => Grows(io, d, k, 0)
  BY <1>1, <1>3, TakesPlace
<1>5. /\ io'.sock = Rest.sock /\ Places(io', "resolve") > 0
      /\ \A k \in Followed : k # "resolve" => Grows(Rest, io', k, 0)
  BY <1>1, <1>2, <1>4, AddsPlace
<1>6. Others(io', "resolve")
  BY <1>4, <1>5 DEF Others
<1> QED
  BY <1>4, <1>5, <1>6

\* An attempt that was answered goes on or ends; it ends well only if it was not
\* given up.
LEMMA TriesOrEnds ==
  ASSUME TypeOK, HandleResolved \/ HandleConnected
  PROVE  /\ \A k \in Followed \ {"resolve", "connect"} : Grows(io, io', k, 0)
         /\ io'.sock = "closed" => io.sock = "closed"
         /\ run' # Idle \/ (run' = run /\ Places(io', "connect") > 0)
         /\ \/ state' = state
            \/ state = "Starting" /\ state' = "Started" /\ ~timer.timedOut /\ run' # Idle
<1>1. /\ OnStrand /\ Running.t = "Done" /\ Running.op \in {"resolve", "connect"} /\ io \in Io
  BY DEF HandleResolved, HandleConnected, RunsCompletion, TypeOK
<1>2. Running \in Task
  BY <1>1, StrandType
<1>3. \A k \in Followed : Running \in Traces(k) <=> k = Running.op
  BY <1>1, <1>2, TracedTasks
<1>4. /\ Rest \in Io /\ Rest.sock = io.sock
      /\ \A d : \A k \in Followed :
           k # Running.op /\ Grows(Rest, d, k, 0) => Grows(io, d, k, 0)
  BY <1>1, <1>3, TakesPlace
<1>5. (\E i \in Nat : PostConnect(Rest, i)) \/ BeginDone(Rest, Running.ec, FALSE)
  <2>1. 1 \in Nat /\ iter + 1 \in Nat
    BY ClientAssumption DEF TypeOK
  <2> QED
    BY <2>1 DEF HandleResolved, HandleConnected
<1>6. CASE \E i \in Nat : PostConnect(Rest, i)
  <2>1. /\ state' = state /\ (io'.sock = "closed" => Rest.sock = "closed")
        /\ \A k \in Followed : k # "connect" => Grows(Rest, io', k, 0)
        /\ run' # Idle \/ (run' = run /\ Places(io', "connect") > 0)
    BY <1>4, <1>6, TriesOn
  <2>2. \A k \in Followed \ {"resolve", "connect"} : Grows(io, io', k, 0)
    BY <1>1, <1>4, <2>1
  <2> QED
    BY <1>4, <2>1, <2>2
<1>7. CASE BeginDone(Rest, Running.ec, FALSE)
  <2>1. /\ Leaves(Rest, io') /\ run' # Idle
        /\ \/ state' = state
           \/ Running.ec = "ok" /\ ~timer.timedOut /\ state = "Starting" /\ state' = "Started"
    BY <1>4, <1>7, BeginDoneLeaves
  <2>2. \A k \in Followed \ {"resolve", "connect"} : Grows(io, io', k, 0)
    BY <1>1, <1>4, <2>1 DEF Leaves, Keeps
  <2>3. io'.sock = io.sock
    BY <1>4, <2>1 DEF Leaves
  <2> QED
    BY <2>1, <2>2, <2>3
<1> QED
  BY <1>5, <1>6, <1>7

\* A reading goes on while the client is Started and its socket open.
LEMMA ReadsOn ==
  ASSUME TypeOK, HandleStartRecv \/ HandleRecv
  PROVE  /\ Others(io', "recv") /\ io'.sock = io.sock
         /\ state' = "Started" /\ io.sock # "closed" => Places(io', "recv") > 0
         /\ state' = state \/ state' = "Stopping"
<1>1. /\ OnStrand /\ io \in Io
      /\ Running.t = "StartRecv" \/ (Running.t = "Done" /\ Running.op = "recv")
  BY DEF HandleStartRecv, HandleRecv, RunsCompletion, TypeOK
<1>2. Running \in Task /\ "recv" \in Followed
  BY <1>1, StrandType DEF Followed
<1>3. \A k \in Followed : Running \in Traces(k) <=> k = "recv"
  BY <1>1, <1>2, TracedTasks
<1>4. /\ Rest \in Io /\ Rest.sock = io.sock
      /\ \A d : \A k \in Followed : k # "recv" /\ Grows(Rest, d, k, 0) => Grows(io, d, k, 0)
  BY <1>1, <1>3, TakesPlace
<1>5. \/ io' = PostRecv(Rest) /\ state' = state
      \/ io' = DoDisconnect(Rest) /\ state' = StateAfterDisconnect
  BY DEF HandleStartRecv, HandleRecv
<1>6. CASE io' = PostRecv(Rest) /\ state' = state
  <2>1. /\ io'.sock = Rest.sock
        /\ \A k \in Followed : k # "recv" => Grows(Rest, io', k, 0)
        /\ IsStarted(Rest) => Places(io', "recv") > 0
    BY <1>4, <1>6, ReadLaunched
  <2>2. Others(io', "recv")
    BY <1>4, <2>1 DEF Others
  <2>3. state' = "Started" /\ io.sock # "closed" => IsStarted(Rest)
    BY <1>4, <1>6 DEF IsStarted
  <2> QED
    BY <1>4, <1>6, <2>1, <2>2, <2>3
<1>7. CASE io' = DoDisconnect(Rest) /\ state' = StateAfterDisconnect
  <2>1. Leaves(Rest, io')
    BY <1>4, <1>7, DisconnectLeaves
  <2>2. Others(io', "recv") /\ io'.sock = io.sock
    BY <1>4, <2>1 DEF Others, Leaves, Keeps
  <2>3. state' # "Started" /\ (state' = state \/ state' = "Stopping")
    BY <1>7 DEF StateAfterDisconnect, Disconnecting
  <2> QED
    BY <2>2, <2>3
<1> QED
  BY <1>5, <1>6, <1>7

\* DoneConnect ends with the reading of a connection, or with its disconnect.
LEMMA FinishReads ==
  ASSUME TypeOK, DoneFinish
  PROVE  /\ Others(io', "recv") /\ io'.sock = io.sock /\ run' = Idle /\ run # Idle
         /\ state' = "Started" => state = "Started" /\ Places(io', "recv") > 0
         /\ state' # "Starting" /\ (state' = state \/ state' = "Stopping")
<1> DEFINE started == run.ec = "ok" /\ state = "Started"
           x == Simple("StartRecv")
           c == IF started THEN Post(io, x) ELSE DoDisconnect(io)
<1>1. /\ io \in Io /\ run' = Idle /\ run # Idle
      /\ state' = IF started THEN state ELSE StateAfterDisconnect
      /\ io' = IF run.inEvent THEN NextEvent(c) ELSE c
  BY DEF TypeOK, DoneFinish, Idle
<1>2. x \in Task /\ x.t = "StartRecv" /\ "recv" \in Followed /\ "recv" \in OpKind
  BY TaskTypes, FollowedOps DEF Simple, Followed
<1> HIDE DEF x
<1>3. \A k \in Followed : x \in Traces(k) <=> k = "recv"
  BY <1>2, TracedTasks
<1>4. /\ Post(io, x) \in Io /\ Post(io, x).sock = io.sock /\ Places(Post(io, x), "recv") > 0
      /\ \A k \in Followed : k # "recv" => Grows(io, Post(io, x), k, 0)
  BY <1>1, <1>2, <1>3, AddsPlace
<1>5. DoDisconnect(io) \in Io /\ Leaves(io, DoDisconnect(io))
  BY <1>1, DoDisconnectType, DisconnectLeaves
<1>6. /\ c \in Io /\ c.sock = io.sock /\ (started => Places(c, "recv") > 0)
      /\ \A k \in Followed : k # "recv" => Grows(io, c, k, 0)
  BY <1>4, <1>5 DEF Leaves, Keeps
<1>7. ~started => state' # "Started" /\ state' # "Starting" /\ (state' = state \/ state' = "Stopping")
  BY <1>1 DEF StateAfterDisconnect, Disconnecting
<1>8. started => state' = state /\ state = "Started"
  BY <1>1
<1> HIDE DEF c, started
<1>9. Leaves(c, io')
  BY <1>1, <1>6, NextLeaves, LeavesItself
<1>10. ASSUME NEW k \in Followed, k # "recv" PROVE Grows(io, io', k, 0)
  <2>1. Grows(io, c, k, 0) /\ Grows(c, io', k, 0) /\ k \in OpKind /\ 0 \in Nat
    BY <1>6, <1>9, <1>10, FollowedOps DEF Leaves, Keeps
  <2>2. Grows(io, io', k, 0 + 0)
    BY <1>1, <1>6, <2>1, GrowsTwice
  <2> QED
    BY <2>2
<1>11. started => Places(io', "recv") > 0
  <2>1. Grows(c, io', "recv", 0) /\ Places(c, "recv") \in Nat
    BY <1>2, <1>6, <1>9, PlacesNat DEF Leaves, Keeps
  <2> QED
    BY <1>6, <2>1 DEF Grows
<1> QED
  BY <1>1, <1>6, <1>7, <1>8, <1>9, <1>10, <1>11 DEF Others, Leaves

-----------------------------------------------------------------------------
(* What a Stop finds, and leaves.                                          *)

\* The io pool runs while a Start is past IoPool::Start; it is being stopped
\* exactly while a Stop waits for it.
PoolServes ==
  /\ api.start \in {"load", "connect", "post", "wait"} => pool = "up"
  /\ api.start = "pool" => pool \in {"down", "up"}
  /\ pool \in {"draining", "exited"} <=> api.stop = "drain"

\* A pool whose run() has returned left nothing behind.
PoolDown ==
  pool \in {"exited", "down"} =>
    /\ io.events = <<>> /\ run = Idle /\ ~up /\ \A k \in OpKind : io.ops[k] = 0
    /\ api.start = "idle" => state = "Stopped"

\* An attempt to connect is somewhere as long as the client is Starting.
StartingTries ==
  state = "Starting" =>
    Calling \/ Places(io, "resolve") > 0 \/ Places(io, "connect") > 0 \/ run # Idle

\* A client that became Started behind the first compare_exchange of a Stop has
\* an open socket and reads from it, so that it notices when it ends.
StartedReads ==
  state = "Started" /\ api.stop \notin {"idle", "casStarted"} =>
    io.sock # "closed" /\ (Places(io, "recv") > 0 \/ run # Idle)

\* The socket of an attempt is closed before Start opened it, or because the
\* attempt was given up.
StartingOpen ==
  state = "Starting" /\ io.sock = "closed" =>
    \/ api.start \in {"pool", "load", "connect"}
    \/ api.start \in {"wait", "idle"} /\ timer.timedOut /\ ~Waits

\* The listener believes itself connected until the disconnect of that
\* connection has run.
ToldStarted == up => state \in {"Started", "Stopping"} /\ FreeOf(io, OldStarting)

StopChain ==
  /\ NoOther /\ TimerWaited /\ Turns /\ PoolServes /\ PoolDown
  /\ StartingTries /\ StartedReads /\ StartingOpen /\ ToldStarted

StopInv == ClientInv /\ StopChain

InTurn ==
  OverlappingCalls = FALSE /\ ReconnectEnabled = FALSE /\ SyncStart \subseteq {TRUE}

LEMMA NoReconnectEvent ==
  ASSUME TypeOK, NoOther
  PROVE  ~HandleReconnectEvent
<1> SUFFICES ASSUME HandleReconnectEvent PROVE FALSE
  OBVIOUS
<1>1. OnStrand /\ Running.t = "Event" /\ Running.ev.t = "reconnect" /\ io \in Io
  BY DEF HandleReconnectEvent, RunsEvent, TypeOK
<1>2. Running \in Task /\ Running \notin TasksOf({Reconnecting})
  BY <1>1, FreeRest DEF NoOther, FreeOf
<1>3. Running.ev \in Event
  BY <1>1, <1>2, TaskFields
<1>4. Running.ev = Reconnecting
  BY <1>1, <1>3 DEF Event, Reconnecting, Simple
<1> QED
  BY <1>1, <1>2, <1>4 DEF TasksOf

LEMMA NoneReconnects ==
  ASSUME InTurn, TypeOK, NoOther, Next
  PROVE  FreeOf(io', {Reconnecting})
<1>1. ~Adds({Reconnecting})
  <2>1. /\ \A n \in {"stop", "wake", "send"} : Simple(n) # Reconnecting
        /\ \A o, f : DisconnectOf(o, f) # Reconnecting
    BY DEF Reconnecting, Simple, DisconnectOf
  <2>2. ~ReconnectFires
    BY DEF ReconnectFires, InTurn
  <2> QED
    BY <2>1, <2>2 DEF Adds
<1> QED
  BY <1>1, FreeStep DEF NoOther

\* Where the state, the handler in progress, the promise and the timeout change.
LEMMA StateSteps ==
  ASSUME InTurn, TypeOK, NoOther, Next
  PROVE  \/ state' = state
         \/ (\E sync \in SyncStart : StartCall(sync)) /\ state' = "Starting"
         \/ state' = "Stopping" /\ state \in {"Starting", "Started"}
         \/ HandleDisconnectEvent /\ state' = "Stopped" /\ state = "Stopping"
         \/ /\ HandleResolved \/ HandleConnected
            /\ state = "Starting" /\ state' = "Started" /\ ~timer.timedOut /\ run' # Idle
<1>0. /\ ~HandleReconnectEvent
      /\ StateAfterDisconnect = state
           \/ (StateAfterDisconnect = "Stopping" /\ state \in {"Starting", "Started"})
  BY NoReconnectEvent DEF StateAfterDisconnect, Disconnecting
<1>1. CASE StartStep \/ SendPost \/ SendCall \/ StopCall
  BY <1>0, <1>1 DEF StartStep, StartPool, StartLoadReconnectTimer, StartConnect,
     StartPostResolve, StartBindFails, StartWait, SendPost, SendCall, StopCall
<1>2. CASE StopStep
  BY <1>2 DEF StopStep, StopCasStarted, StopCasStarting, StopCas, StopPostStop, StopPool, StopJoin
<1>3. CASE \E sync \in SyncStart : StartCall(sync)
  BY <1>3 DEF StartCall
<1>4. CASE Network \/ Deliver \/ RunReturns \/ DoneNotify
  BY <1>4, NetworkLeaves DEF DoneNotify
<1>5. CASE HandleDisconnectEvent
  BY <1>5 DEF HandleDisconnectEvent
<1>6. CASE PlainHandler /\ ~HandleDisconnectEvent
  <2>1. ~Firing
    BY DEF Firing, ReconnectFires, InTurn
  <2> QED
    BY <1>6, <2>1, HandlersLeave
<1>7. CASE HandleResolved \/ HandleConnected
  BY <1>7, TriesOrEnds
<1>8. CASE HandleStartRecv \/ HandleRecv \/ HandleSent \/ DoneFinish
  BY <1>0, <1>8 DEF HandleStartRecv, HandleRecv, HandleSent, DoneFinish
<1> QED
  BY <1>0, <1>1, <1>2, <1>3, <1>4, <1>5, <1>6, <1>7, <1>8
     DEF Next, IoThreadStep, PlainHandler, Application

LEMMA RunSteps ==
  ASSUME TypeOK, NoOther, Next
  PROVE  /\ run' # run => HandleResolved \/ HandleConnected \/ DoneNotify \/ DoneFinish
         /\ run # Idle /\ run' = Idle => DoneFinish
         /\ promise' # promise => (\E sync \in SyncStart : StartCall(sync)) \/ HandleTimeout
         /\ timer'.timedOut # timer.timedOut => HandleArmTimeout \/ HandleTimeout
<1>0. ~HandleReconnectEvent
  BY NoReconnectEvent
<1>1. CASE StartStep \/ SendPost \/ SendCall \/ StopCall
  BY <1>1 DEF StartStep, StartPool, StartLoadReconnectTimer, StartConnect,
     StartPostResolve, StartBindFails, StartWait, SendPost, SendCall, StopCall, TypeOK
<1>2. CASE StopStep
  BY <1>2 DEF StopStep, StopCasStarted, StopCasStarting, StopCas, StopPostStop, StopPool, StopJoin
<1>3. CASE \E sync \in SyncStart : StartCall(sync)
  BY <1>3 DEF StartCall
<1>4. CASE Network
  BY <1>4 DEF Network, Resolves, Connects, Receives, Writes, TimerExpires, Expires, Completes
<1>5. CASE Deliver \/ RunReturns
  BY <1>5 DEF Deliver, RunReturns
<1>6. CASE DoneNotify
  BY <1>6 DEF DoneNotify, Idle, TypeOK, Run
<1>7. CASE PlainHandler \/ HandleStartRecv \/ HandleRecv \/ HandleSent
  BY <1>7 DEF PlainHandler, HandleEnqueue, HandleDisconnectEvent, HandleStopEvent,
     HandleWakeEvent, HandleStopReconnectTimer, HandleArmTimeout, HandleResolve, HandleTimeout,
     HandleReconnectTimer, HandleStartRecv, HandleRecv, HandleSent, TypeOK
<1>8. CASE HandleResolved \/ HandleConnected
  <2>1. promise' = promise /\ timer' = timer /\ run = Idle
    BY <1>8 DEF HandleResolved, HandleConnected, RunsCompletion, OnStrand, IoThreadFree
  <2> QED
    BY <1>8, <2>1
<1>9. CASE DoneFinish
  BY <1>9 DEF DoneFinish
<1> QED
  BY <1>0, <1>1, <1>2, <1>3, <1>4, <1>5, <1>6, <1>7, <1>8, <1>9
     DEF Next, IoThreadStep, PlainHandler, Application

-----------------------------------------------------------------------------
(* Each part is kept.                                                      *)

LEMMA WaitsOne == Waits \in BOOLEAN /\ One(Waits) \in 0..1 /\ (One(Waits) > 0 <=> Waits)
BY DEF Waits, One

LEMMA PlacesTyped ==
  ASSUME TypeOK
  PROVE  \A k \in Followed : Places(io, k) \in Nat
BY PlacesNat, FollowedOps DEF TypeOK

\* The timeout timer is armed, or ends, for the blocking Start that waits.
LEMMA TimeoutServesWait ==
  ASSUME TypeOK, NoOther, TimerWaited, HandleArmTimeout \/ HandleTimeout
  PROVE  /\ Waits /\ Others(io', "timeoutSync")
         /\ HandleArmTimeout => io'.sock = io.sock /\ Places(io', "timeoutSync") = 1
         /\ HandleTimeout => /\ promise' = TRUE /\ Places(io', "timeoutSync") = 0
                             /\ io'.sock = io.sock \/ timer'.timedOut
<1>1. /\ Places(io, "timeout") = 0 /\ Places(io, "timeoutSync") \in Nat
      /\ Places(io, "timeoutSync") <= One(Waits)
  BY PlacesTyped DEF NoOther, TimerWaited, Followed
<1>2. CASE HandleArmTimeout
  <2> DEFINE j == IF Running.sync THEN "timeoutSync" ELSE "timeout"
  <2>1. /\ Others(io', j) /\ io'.sock = io.sock
        /\ Places(io, j) > 0 /\ (Places(io, j) <= 1 => Places(io', j) = 1)
    BY <1>2, ArmedOnce
  <2>2. j \in {"timeout", "timeoutSync"}
    OBVIOUS
  <2> HIDE DEF j
  <2>3. j = "timeoutSync"
    BY <1>1, <2>1, <2>2
  <2>4. ~HandleTimeout
    BY <1>2 DEF HandleArmTimeout, HandleTimeout, RunsCompletion
  <2> QED
    BY <1>1, <1>2, <2>1, <2>3, <2>4, WaitsOne
<1>3. CASE HandleTimeout
  <2>1. /\ Running.op \in ConnectTimer /\ Others(io', Running.op)
        /\ Places(io, Running.op) > 0
        /\ Places(io, Running.op) <= 1 => Places(io', Running.op) = 0
    BY <1>3, TimeoutTaken
  <2>2. Running.op = "timeoutSync"
    BY <1>1, <2>1 DEF ConnectTimer
  <2>3. /\ OnStrand /\ io \in Io /\ timer \in [canceled : BOOLEAN, running : BOOLEAN, timedOut : BOOLEAN]
        /\ promise' = (promise \/ Running.op = "timeoutSync")
        /\ timer' = [timer EXCEPT !.timedOut = @ \/ Running.ec = "ok"]
        /\ Running.ec # "ok" => io' = Rest
    BY <1>3 DEF HandleTimeout, RunsCompletion, TypeOK
  <2>4. Rest.sock = io.sock
    BY <2>3 DEF Rest, Io
  <2>5. ~HandleArmTimeout
    BY <1>3 DEF HandleArmTimeout, HandleTimeout, RunsCompletion
  <2>6. io'.sock = io.sock \/ timer'.timedOut
    BY <2>3, <2>4
  <2>7. promise' = TRUE
    BY <2>2, <2>3
  <2> QED
    BY <1>1, <2>1, <2>2, <2>5, <2>6, <2>7, WaitsOne
<1> QED
  BY <1>2, <1>3

LEMMA Moves ==
  ASSUME TypeOK, NoOther, TimerWaited, Turns, Next
  PROVE  /\ Grows(io, io', "timeout", 0)
         /\ \/ Grows(io, io', "timeoutSync", 0)
            \/ StartPostResolve \/ HandleArmTimeout \/ HandleTimeout
         /\ \/ Grows(io, io', "resolve", 0) /\ Grows(io, io', "connect", 0)
            \/ StartPostResolve \/ HandleResolve \/ HandleResolved \/ HandleConnected
         /\ Grows(io, io', "recv", 0) \/ HandleStartRecv \/ HandleRecv \/ DoneFinish
         /\ io'.sock = "closed" => io.sock = "closed" \/ HandleTimeout \/ HandleDisconnectEvent
<1>0. ~HandleReconnectEvent
  BY NoReconnectEvent
<1>f. {"resolve", "connect", "recv", "timeout", "timeoutSync"} = Followed
  BY DEF Followed
<1>c. /\ Keeps(io, io') => \A k \in Followed : Grows(io, io', k, 0)
      /\ Calm => Keeps(io, io') /\ (io'.sock = "closed" => io.sock = "closed")
  BY DEF Keeps, Calm
<1>1. CASE \/ StartPool \/ StartLoadReconnectTimer \/ StartConnect \/ StartBindFails \/ StartWait
           \/ StopStep \/ SendPost \/ Application
  <2>1. Calm
    BY <1>1, CalmCalls
  <2> QED
    BY <1>c, <1>f, <2>1
<1>2. CASE Network \/ Deliver \/ RunReturns \/ DoneNotify
  <2>1. Calm
    BY <1>2, CalmNetwork
  <2> QED
    BY <1>c, <1>f, <2>1
<1>3. CASE \/ HandleEnqueue \/ HandleStopReconnectTimer \/ HandleReconnectTimer \/ HandleSent
           \/ HandleStopEvent \/ HandleWakeEvent
  <2>1. Calm
    BY <1>3, CalmHandlers
  <2> QED
    BY <1>c, <1>f, <2>1
<1>4. CASE HandleDisconnectEvent
  <2>1. Keeps(io, io')
    BY <1>4, DisconnectKeeps
  <2> QED
    BY <1>4, <1>c, <1>f, <2>1
<1>5. CASE StartPostResolve
  <2>1. api.sync
    BY <1>5 DEF Turns, StartPostResolve
  <2>2. /\ \A k \in {"timeout", "connect", "recv"} : Grows(io, io', k, 0)
        /\ io'.sock = io.sock
    BY <1>5, <2>1, PostedResolve
  <2> QED
    BY <1>5, <2>2
<1>6. CASE HandleArmTimeout \/ HandleTimeout
  <2>1. Others(io', "timeoutSync") /\ (HandleArmTimeout => io'.sock = io.sock)
    BY <1>6, TimeoutServesWait
  <2> QED
    BY <1>6, <1>f, <2>1 DEF Others
<1>7. CASE HandleResolve
  BY <1>7, <1>f, ResolveLaunched DEF Others
<1>8. CASE HandleResolved \/ HandleConnected
  <2>1. /\ \A k \in Followed \ {"resolve", "connect"} : Grows(io, io', k, 0)
        /\ io'.sock = "closed" => io.sock = "closed"
    BY <1>8, TriesOrEnds
  <2> QED
    BY <1>8, <1>f, <2>1
<1>9. CASE HandleStartRecv \/ HandleRecv
  BY <1>9, <1>f, ReadsOn DEF Others
<1>10. CASE DoneFinish
  BY <1>10, <1>f, FinishReads DEF Others
<1> QED
  BY <1>0, <1>1, <1>2, <1>3, <1>4, <1>5, <1>6, <1>7, <1>8, <1>9, <1>10
     DEF Next, IoThreadStep, StartStep

LEMMA NoOtherNext ==
  ASSUME InTurn, TypeOK, NoOther, TimerWaited, Turns, Next
  PROVE  NoOther'
<1>1. Grows(io, io', "timeout", 0) /\ Places(io, "timeout") = 0
  BY Moves DEF NoOther
<1>2. Places(io', "timeout") = 0
  BY <1>1 DEF Grows
<1>3. FreeOf(io', {Reconnecting})
  BY NoneReconnects
<1> QED
  BY <1>2, <1>3 DEF NoOther

\* How the program counters of Start and Stop move.
Begins == \E sync \in SyncStart : StartCall(sync)

LEMMA CallSteps ==
  ASSUME InTurn, TypeOK, Turns, PoolServes, Next
  PROVE  /\ \/ api'.start = api.start /\ api'.sync = api.sync
            \/ StartStep \/ Begins
         /\ \/ api'.stop = api.stop
            \/ StopStep
            \/ StopCall /\ api.start = "idle" /\ api.stop = "idle" /\ api'.stop = "casStarted"
         /\ Begins => /\ api.start = "idle" /\ api.stop = "idle" /\ state = "Stopped"
                      /\ api'.start = "pool" /\ api'.sync = TRUE /\ promise' = FALSE
                      /\ io' = io /\ api'.stop = "idle"
         /\ StartStep => api.start # "idle" /\ api'.stop = api.stop /\ api'.sync = api.sync
         /\ StopStep => api.stop # "idle" /\ api.start = "idle"
<1>0. api \in Api
  BY DEF TypeOK
<1>1. Begins => /\ api.start = "idle" /\ api.stop = "idle" /\ state = "Stopped"
                /\ api'.start = "pool" /\ api'.sync = TRUE /\ promise' = FALSE
                /\ io' = io /\ api'.stop = "idle"
  BY <1>0 DEF Begins, StartCall, MayStart, InTurn, Api
<1>2. StartStep => api.start # "idle" /\ api'.stop = api.stop /\ api'.sync = api.sync
  BY <1>0 DEF StartStep, StartPool, StartLoadReconnectTimer, StartConnect, StartPostResolve,
     StartBindFails, StartWait, Api
<1>3. StopStep => /\ api.stop # "idle" /\ api.start = "idle"
                  /\ api'.start = api.start /\ api'.sync = api.sync
  BY <1>0 DEF StopStep, StopCasStarted, StopCasStarting, StopCas, StopPostStop, StopPool, StopJoin,
     Api, Turns
<1>4. CASE IoThreadStep \/ Network
  BY <1>1, <1>2, <1>3, <1>4, IoLeaves
<1>5. CASE StopCall
  BY <1>0, <1>1, <1>2, <1>3, <1>5 DEF StopCall, MayStop, InTurn, Api
<1>6. CASE SendCall \/ SendPost
  BY <1>0, <1>1, <1>2, <1>3, <1>6 DEF SendCall, SendPost, Api
<1> QED
  BY <1>1, <1>2, <1>3, <1>4, <1>5, <1>6 DEF Next, Application, Begins

\* ... and how a Start goes through them.
LEMMA StartMoves ==
  ASSUME InTurn, TypeOK, Turns, PoolServes, Next
  PROVE  /\ api'.start \in {"load", "connect", "post", "wait"} =>
              \/ api.start = api'.start
              \/ StartPool /\ api.start = "pool" /\ pool' = "up"
              \/ pool = "up" /\ pool' = "up" /\ StartStep
         /\ api'.start = "pool" => (api.start = "pool" /\ ~StartStep) \/ Begins
         /\ StartStep /\ Calling /\ state' = "Starting" => Calling' \/ StartPostResolve
         /\ StartStep /\ api.start \in {"pool", "load", "connect"} =>
              api'.start \in {"load", "connect"} \/ StartConnect
         /\ StartConnect => api.start = "connect" /\ io'.sock = "open" /\ api'.start = "post"
         /\ StartStep /\ api.start = "wait" => StartWait /\ promise /\ api'.start = "idle"
         /\ StartPostResolve => api.start = "post" /\ api'.start = "wait"
<1>0. api \in Api /\ CloseSocket(io) \in Io
  BY CloseType DEF TypeOK
<1>1. StartPool => /\ api.start = "pool" /\ api'.start = "load" /\ pool' = "up"
                   /\ pool \in {"down", "up"}
  BY <1>0 DEF StartPool, PoolServes, Api
<1>2. StartLoadReconnectTimer =>
        api.start = "load" /\ api'.start = "connect" /\ pool = "up" /\ pool' = "up"
  BY <1>0 DEF StartLoadReconnectTimer, PoolServes, Api
<1>3. StartConnect =>
        /\ api.start = "connect" /\ api'.start = "post" /\ pool = "up" /\ pool' = "up"
        /\ io'.sock = "open"
  BY <1>0 DEF StartConnect, PoolServes, IsIoPoolStopped, Io, Api
<1>4. StartPostResolve =>
        api.start = "post" /\ api'.start = "wait" /\ pool = "up" /\ pool' = "up"
  BY <1>0 DEF StartPostResolve, PoolServes, Turns, Api
<1>5. StartBindFails => api.start = "post" /\ api'.start = "idle" /\ state' # "Starting"
  BY <1>0 DEF StartBindFails, StateAfterDisconnect, Disconnecting, Api
<1>6. StartWait => api.start = "wait" /\ promise /\ api'.start = "idle"
  BY <1>0 DEF StartWait, Api
<1>7. api'.start = api.start \/ StartStep \/ (Begins /\ api'.start = "pool")
  BY CallSteps
<1> QED
  BY <1>1, <1>2, <1>3, <1>4, <1>5, <1>6, <1>7 DEF StartStep, Calling

LEMMA TurnsNext ==
  ASSUME InTurn, TypeOK, NoOther, TimerWaited, Turns, PoolServes, Next
  PROVE  Turns'
<1>1. api'.start # "idle" => api'.sync /\ api'.stop = "idle"
  <2>1. CASE Begins
    BY <2>1, CallSteps
  <2>2. CASE StartStep
    BY <2>2, CallSteps DEF Turns
  <2>3. CASE ~Begins /\ ~StartStep
    <3>1. api'.start = api.start /\ api'.sync = api.sync
      BY <2>3, CallSteps
    <3>2. api'.stop = api.stop \/ api.start = "idle"
      BY CallSteps
    <3> QED
      BY <3>1, <3>2 DEF Turns
  <2> QED
    BY <2>1, <2>2, <2>3
<1>2. ASSUME Calling', promise' PROVE FALSE
  <2>1. ~Begins
    BY <1>2, CallSteps
  <2>2. Calling
    <3>1. api.start # "idle" /\ ~(StartStep /\ api.start = "wait")
      BY <1>2, <2>1, CallSteps, StartMoves DEF Calling
    <3>2. api.start # "wait"
      BY <1>2, <2>1, <3>1, CallSteps DEF Calling
    <3> QED
      BY <3>1, <3>2 DEF Calling, TypeOK, Api
  <2>3. ~promise
    BY <2>2 DEF Turns
  <2>4. HandleTimeout
    BY <1>2, <2>1, <2>3, RunSteps DEF Begins, TypeOK
  <2> QED
    BY <2>2, <2>4, TimeoutServesWait DEF Waits, Calling
<1> QED
  BY <1>1, <1>2 DEF Turns

LEMMA TimerWaitedNext ==
  ASSUME InTurn, TypeOK, NoOther, TimerWaited, Turns, PoolServes, Next
  PROVE  TimerWaited'
<1> DEFINE p == Places(io, "timeoutSync")
           q == Places(io', "timeoutSync")
<1>1. p \in Nat /\ p <= One(Waits)
  BY PlacesTyped DEF TimerWaited, Followed
<1>2. Grows(io, io', "timeoutSync", 0) => (p <= 1 => q = p)
  BY <1>1 DEF Grows
<1> HIDE DEF p, q
<1>w. (Waits')
         <=> (api'.start = "wait" /\ ~promise')
  BY DEF Waits
<1>3. CASE HandleArmTimeout
  <2>1. Waits /\ q = 1
    BY <1>3, TimeoutServesWait DEF q
  <2>2. api' = api /\ promise' = promise
    BY <1>3 DEF HandleArmTimeout
  <2> QED
    BY <2>1, <2>2 DEF TimerWaited, Waits, One, q
<1>4. CASE HandleTimeout
  <2>1. q = 0
    BY <1>4, TimeoutServesWait DEF q
  <2> QED
    BY <2>1 DEF TimerWaited, One, q
<1>5. CASE StartPostResolve
  <2>1. api.sync /\ ~promise /\ ~Waits /\ api'.start = "wait" /\ promise' = promise
    BY <1>5, StartMoves DEF StartPostResolve, Turns, Calling, Waits
  <2>2. p = 0
    BY <1>1, <2>1, WaitsOne
  <2>3. q = 1
    <3>1. Grows(io, io', "timeoutSync", 1)
      BY <1>5, <2>1, PostedResolve
    <3> QED
      BY <2>2, <3>1 DEF Grows, p, q
  <2> QED
    BY <2>1, <2>3 DEF TimerWaited, Waits, One, q
<1>6. CASE ~HandleArmTimeout /\ ~HandleTimeout /\ ~StartPostResolve
  <2>1. q = p
    BY <1>1, <1>2, <1>6, Moves, WaitsOne
  <2>2. Waits => Waits' \/ p = 0
    <3> SUFFICES ASSUME Waits PROVE Waits' \/ p = 0
      OBVIOUS
    <3>1. api.start = "wait" /\ ~promise
      BY DEF Waits
    <3>2. ~Begins /\ ~StartStep
      <4>1. ~Begins
        BY <3>1, CallSteps
      <4>2. ~StartStep
        BY <3>1, StartMoves
      <4> QED
        BY <4>1, <4>2
    <3>3. api'.start = "wait" /\ promise' = promise
      BY <1>6, <3>1, <3>2, CallSteps, RunSteps DEF Begins
    <3> QED
      BY <3>1, <3>3 DEF Waits
  <2>3. ~Waits => p = 0
    BY <1>1, WaitsOne
  <2>4. q = 0 \/ (q <= 1 /\ Waits')
    BY <1>1, <2>1, <2>2, <2>3, WaitsOne
  <2> QED
    BY <2>4 DEF TimerWaited, One, q
<1> QED
  BY <1>3, <1>4, <1>5, <1>6

\* The io pool changes with IoPool::Start, IoPool::Stop and the end of run().
LEMMA PoolSteps ==
  ASSUME TypeOK, Next
  PROVE  \/ pool' = pool /\ ~RunReturns
         \/ StartPool /\ pool = "down" /\ pool' = "up"
         \/ StopPool /\ pool = "up" /\ pool' = "draining" /\ api'.stop = "drain"
         \/ StopJoin /\ pool = "exited" /\ pool' = "down" /\ api'.stop = "idle"
         \/ RunReturns /\ pool = "draining" /\ pool' = "exited" /\ api' = api
<1>0. api \in Api
  BY DEF TypeOK
<1>1. CASE RunReturns
  BY <1>1 DEF RunReturns
<1>2. CASE StartPool
  BY <1>2 DEF StartPool, RunReturns
<1>3. CASE StopPool
  BY <1>0, <1>3 DEF StopPool, RunReturns, Api
<1>4. CASE StopJoin
  BY <1>0, <1>4 DEF StopJoin, RunReturns, Api
<1>5. CASE ~RunReturns /\ ~StartPool /\ ~StopPool /\ ~StopJoin
  <2>1. pool' = pool
    <3>1. CASE Network \/ Deliver
      BY <1>5, <3>1, NetworkLeaves
    <3>2. CASE PlainHandler \/ HandleStartRecv \/ HandleRecv
      BY <3>2, HandlersLeave
    <3>3. CASE HandleResolved \/ HandleConnected \/ HandleReconnectEvent
      BY <3>3, TriesLeave
    <3>4. CASE HandleSent \/ DoneNotify \/ DoneFinish \/ SendPost
      BY <3>4 DEF HandleSent, DoneNotify, DoneFinish, SendPost
    <3>5. CASE StartStep
      BY <1>5, <3>5 DEF StartStep, StartLoadReconnectTimer, StartConnect, StartPostResolve,
         StartBindFails, StartWait
    <3>6. CASE StopStep
      BY <1>5, <3>6 DEF StopStep, StopCasStarted, StopCasStarting, StopCas, StopPostStop
    <3>7. CASE Application
      BY <3>7 DEF Application, StartCall, StopCall, SendCall
    <3> QED
      BY <1>5, <3>1, <3>2, <3>3, <3>4, <3>5, <3>6, <3>7 DEF Next, IoThreadStep, PlainHandler
  <2> QED
    BY <1>5, <2>1
<1> QED
  BY <1>1, <1>2, <1>3, <1>4, <1>5

LEMMA PoolServesNext ==
  ASSUME InTurn, TypeOK, Turns, PoolServes, Next
  PROVE  PoolServes'
<1>0. api \in Api /\ (api.start = "idle" \/ api.stop = "idle")
  BY DEF TypeOK, Turns
<1>1. CASE pool' = pool
  <2>1. api'.stop = "drain" <=> api.stop = "drain"
    <3>1. StopStep /\ (api.stop = "drain" \/ api'.stop = "drain") => StopPool \/ StopJoin
      BY <1>0 DEF StopStep, StopCasStarted, StopCasStarting, StopCas, StopPostStop, Api
    <3>2. ~StopJoin
      BY <1>1 DEF StopJoin
    <3>3. StopPool => api.stop # "drain" /\ api'.stop # "drain"
      BY <1>0, <1>1 DEF StopPool, Api
    <3> QED
      BY <3>1, <3>2, <3>3, CallSteps
  <2>2. api'.start \in {"load", "connect", "post", "wait"} => pool' = "up"
    BY <1>1, StartMoves DEF PoolServes
  <2>3. api'.start = "pool" => pool' \in {"down", "up"}
    <3>1. Begins => pool \in {"down", "up"}
      BY CallSteps DEF PoolServes, TypeOK
    <3> QED
      BY <1>1, <3>1, StartMoves DEF PoolServes
  <2> QED
    BY <1>1, <2>1, <2>2, <2>3 DEF PoolServes
<1>2. CASE StartPool /\ pool = "down" /\ pool' = "up"
  <2>1. api'.stop = api.stop /\ api.stop # "drain"
    BY <1>2, CallSteps DEF StartStep, PoolServes
  <2> QED
    BY <1>2, <2>1 DEF PoolServes
<1>3. CASE \/ StopPool /\ pool = "up" /\ pool' = "draining" /\ api'.stop = "drain"
           \/ StopJoin /\ pool = "exited" /\ pool' = "down" /\ api'.stop = "idle"
  <2>1. api'.start = "idle"
    <3>1. api.start = "idle"
      BY <1>3, CallSteps DEF StopStep
    <3> QED
      BY <1>0, <1>3, <3>1 DEF StopPool, StopJoin, Api
  <2> QED
    BY <1>3, <2>1 DEF PoolServes
<1>4. CASE RunReturns /\ pool = "draining" /\ pool' = "exited" /\ api' = api
  BY <1>0, <1>4 DEF PoolServes
<1> QED
  BY <1>1, <1>2, <1>3, <1>4, PoolSteps

LEMMA StartingTriesNext ==
  ASSUME InTurn, TypeOK, NoOther, TimerWaited, Turns, PoolServes, StartingTries, Next
  PROVE  StartingTries'
<1> SUFFICES ASSUME state' = "Starting", ~Calling', run' = Idle
             PROVE  Places(io', "resolve") > 0 \/ Places(io', "connect") > 0
  BY DEF StartingTries
<1>1. ~Begins
  BY CallSteps DEF Calling
<1>2. state = "Starting"
  BY <1>1, StateSteps DEF Begins
<1>3. ~DoneFinish /\ run = Idle
  <2>1. ~DoneFinish
    BY FinishReads
  <2> QED
    BY <2>1, RunSteps
<1>4. CASE Calling
  <2>1. StartStep
    BY <1>1, <1>4, CallSteps DEF Calling
  <2>2. StartPostResolve
    BY <1>4, <2>1, StartMoves
  <2> QED
    BY <2>2, PostedResolve DEF StartPostResolve, Turns
<1>5. CASE ~Calling
  <2>1. Places(io, "resolve") > 0 \/ Places(io, "connect") > 0
    BY <1>2, <1>3, <1>5 DEF StartingTries
  <2>2. Places(io, "resolve") \in Nat /\ Places(io, "connect") \in Nat
    BY PlacesTyped DEF Followed
  <2>3. CASE Grows(io, io', "resolve", 0) /\ Grows(io, io', "connect", 0)
    BY <2>1, <2>2, <2>3 DEF Grows
  <2>4. CASE StartPostResolve
    BY <1>5, <2>4, StartMoves DEF Calling
  <2>5. CASE HandleResolve
    BY <2>5, ResolveLaunched
  <2>6. CASE HandleResolved \/ HandleConnected
    BY <2>6, TriesOrEnds
  <2> QED
    BY <2>3, <2>4, <2>5, <2>6, Moves
<1> QED
  BY <1>4, <1>5

LEMMA StartedReadsNext ==
  ASSUME InTurn, ClientInv, NoOther, TimerWaited, Turns, PoolServes, StartedReads,
         StartingOpen, Next
  PROVE  StartedReads'
<1>0. TypeOK /\ GuardAlone /\ OneDisconnect
  BY DEF ClientInv
<1> SUFFICES ASSUME state' = "Started", api'.stop \notin {"idle", "casStarted"}
             PROVE  io'.sock # "closed" /\ (Places(io', "recv") > 0 \/ run' # Idle)
  BY DEF StartedReads
<1>1. api.stop \notin {"idle", "casStarted"} /\ api.start = "idle" /\ ~Waits
  <2>1. api.stop # "idle"
    BY <1>0, CallSteps
  <2>2. api.start = "idle"
    BY <2>1 DEF Turns
  <2>3. api.stop = "casStarted" => StopCasStarted
    BY <1>0, <2>1, CallSteps DEF StopStep, StopCasStarting, StopCas, StopPostStop, StopPool, StopJoin
  <2>4. ~StopCasStarted
    BY DEF StopCasStarted, StopCas
  <2> QED
    BY <2>1, <2>2, <2>3, <2>4 DEF Waits
<1>2. ~HandleTimeout /\ ~HandleArmTimeout
  BY <1>0, <1>1, TimeoutServesWait
<1>3. ~Begins
  BY <1>0, <1>1, CallSteps
<1>4. CASE state # "Started"
  <2>1. /\ HandleResolved \/ HandleConnected
        /\ state = "Starting" /\ ~timer.timedOut /\ run' # Idle
    BY <1>0, <1>4, StateSteps
  <2>2. io.sock # "closed"
    BY <1>1, <2>1 DEF StartingOpen
  <2>3. io'.sock # "closed"
    BY <1>0, <2>1, <2>2, TriesOrEnds
  <2> QED
    BY <2>1, <2>3
<1>5. CASE state = "Started"
  <2>1. io.sock # "closed" /\ (Places(io, "recv") > 0 \/ run # Idle)
    BY <1>1, <1>5 DEF StartedReads
  <2>2. ~HandleDisconnectEvent
    BY <1>0, <1>5, DisconnectFindsStopping DEF HandleDisconnectEvent
  <2>3. io'.sock # "closed"
    BY <1>0, <1>2, <2>1, <2>2, Moves
  <2>4. CASE DoneFinish
    BY <1>0, <2>3, <2>4, FinishReads
  <2>5. CASE HandleStartRecv \/ HandleRecv
    BY <1>0, <2>1, <2>3, <2>5, ReadsOn
  <2>6. CASE ~DoneFinish /\ ~HandleStartRecv /\ ~HandleRecv
    <3>1. Grows(io, io', "recv", 0) /\ (run # Idle => run' # Idle)
      BY <1>0, <2>6, Moves, RunSteps
    <3>2. Places(io, "recv") \in Nat
      BY <1>0, PlacesTyped DEF Followed
    <3> QED
      BY <2>1, <2>3, <3>1, <3>2 DEF Grows
  <2> QED
    BY <2>4, <2>5, <2>6
<1> QED
  BY <1>4, <1>5

LEMMA StartingOpenNext ==
  ASSUME InTurn, ClientInv, NoOther, TimerWaited, Turns, PoolServes, StartingOpen, Next
  PROVE  StartingOpen'
<1>0. TypeOK
  BY DEF ClientInv
<1> SUFFICES ASSUME state' = "Starting", io'.sock = "closed"
             PROVE  \/ api'.start \in {"pool", "load", "connect"}
                    \/ api'.start \in {"wait", "idle"} /\ timer'.timedOut /\ ~Waits'
  BY DEF StartingOpen
<1>1. CASE Begins
  BY <1>0, <1>1, CallSteps
<1>2. CASE ~Begins
  <2>1. state = "Starting"
    BY <1>0, <1>2, StateSteps DEF Begins
  <2>2. ~HandleDisconnectEvent
    <3>1. HandleDisconnectEvent => state = "Stopping"
      BY DisconnectFindsStopping DEF ClientInv, HandleDisconnectEvent
    <3> QED
      BY <2>1, <3>1
  <2>3. CASE HandleTimeout
    <3>1. Waits /\ promise' = TRUE /\ (io'.sock = io.sock \/ timer'.timedOut) /\ api' = api
      BY <1>0, <2>3, TimeoutServesWait DEF HandleTimeout
    <3>2. io.sock # "closed"
      BY <2>1, <3>1 DEF StartingOpen, Waits
    <3> QED
      BY <3>1, <3>2 DEF Waits
  <2>4. CASE ~HandleTimeout
    <3>1. io.sock = "closed"
      BY <1>0, <2>2, <2>4, Moves
    <3>2. CASE api.start \in {"pool", "load", "connect"}
      <4>1. ~StartConnect
        BY <1>0, StartMoves
      <4>2. StartStep => api'.start \in {"load", "connect"}
        BY <1>0, <3>2, <4>1, StartMoves
      <4> QED
        BY <1>0, <1>2, <3>2, <4>2, CallSteps
    <3>3. CASE api.start \in {"wait", "idle"} /\ timer.timedOut /\ ~Waits
      <4>1. ~HandleArmTimeout
        BY <1>0, <3>3, TimeoutServesWait
      <4>2. timer'.timedOut /\ promise' = promise
        BY <1>0, <1>2, <2>4, <3>3, <4>1, RunSteps DEF Begins, TypeOK
      <4>3. api'.start = api.start \/ api'.start = "idle"
        BY <1>0, <1>2, <3>3, CallSteps, StartMoves
      <4> QED
        BY <3>3, <4>2, <4>3 DEF Waits
    <3> QED
      BY <2>1, <3>1, <3>2, <3>3 DEF StartingOpen
  <2> QED
    BY <2>3, <2>4
<1> QED
  BY <1>1, <1>2

LEMMA ToldStartedNext ==
  ASSUME InTurn, ClientInv, NoOther, Turns, PoolServes, ToldStarted, Next
  PROVE  ToldStarted'
<1>0. TypeOK /\ GuardAlone /\ OneDisconnect /\ io \in Io
  BY DEF ClientInv, TypeOK
<1> SUFFICES ASSUME up' PROVE state' \in {"Started", "Stopping"} /\ FreeOf(io', OldStarting)
  BY DEF ToldStarted
<1>1. CASE ~up
  <2>1. DoneNotify /\ state = "Started"
    BY <1>1, ToldUp
  <2>2. Tracked(io, 0)
    BY <1>0, <2>1 DEF OneDisconnect, One
  <2>3. FreeOf(io, OldStarting)
    BY <1>0, <2>2, NoneOnItsWay, OldStartingFacts
  <2>4. io' = io /\ state' = state
    BY <2>1 DEF DoneNotify
  <2> QED
    BY <2>1, <2>3, <2>4
<1>2. CASE up
  <2>1. state \in {"Started", "Stopping"} /\ FreeOf(io, OldStarting)
    BY <1>2 DEF ToldStarted
  <2>2. ~Adds(OldStarting)
    BY <2>1, OldStartingFacts DEF Adds
  <2>3. FreeOf(io', OldStarting)
    BY <1>0, <2>1, <2>2, FreeStep
  <2>4. ~HandleDisconnectEvent
    <3> SUFFICES ASSUME HandleDisconnectEvent PROVE FALSE
      OBVIOUS
    <3>1. OnStrand /\ Running.t = "Event" /\ Running.ev.t = "disconnect"
      BY DEF HandleDisconnectEvent, RunsEvent
    <3>2. state = "Stopping"
      BY <1>0, DisconnectFindsStopping DEF HandleDisconnectEvent
    <3>3. Running \in Task /\ Running \notin TasksOf(OldStarting)
      BY <1>0, <2>1, <3>1, FreeRest DEF FreeOf
    <3>4. Running.ev \in Event
      BY <3>1, <3>3, TaskFields
    <3>5. Running.ev.old \in {"Started", "Starting"}
      BY <3>1, <3>4 DEF Event
    <3>6. Running.ev \notin OldStarting
      BY <3>1, <3>3 DEF TasksOf
    <3>7. Running.ev.old = "Started"
      BY <3>1, <3>4, <3>5, <3>6 DEF OldStarting, Disconnects
    <3> QED
      BY <3>2, <3>7 DEF HandleDisconnectEvent
  <2>5. ~Begins
    BY <1>0, <2>1, CallSteps
  <2>6. state' \in {"Started", "Stopping"}
    BY <1>0, <2>1, <2>4, <2>5, StateSteps DEF Begins
  <2> QED
    BY <2>3, <2>6
<1> QED
  BY <1>1, <1>2

\* run() returns when nothing is left: no event, no attempt, no reading, and no
\* disconnect to wait for.
LEMMA NothingIsLeft ==
  ASSUME StopInv, RunReturns
  PROVE  /\ io.events = <<>> /\ run = Idle /\ \A k \in OpKind : io.ops[k] = 0
         /\ state = "Stopped" /\ ~up
<1>1. /\ TypeOK /\ GuardAlone /\ OneDisconnect /\ PoolServes /\ Turns
      /\ StartingTries /\ StartedReads /\ ToldStarted
  BY DEF StopInv, ClientInv, StopChain
<1>2. /\ io \in Io /\ io.ready = <<>> /\ io.strand = <<>> /\ run = Idle
      /\ pool = "draining" /\ \A k \in OpKind : io.ops[k] = 0
  BY <1>1 DEF RunReturns, TypeOK
<1>3. io.events = <<>>
  <2>1. Guards(io.strand) = 0 /\ Guards(io.ready) = 0 /\ io.ops["send"] = 0
    BY <1>2, GuardsEmpty, OpTypes
  <2>2. run.inEvent = FALSE
    BY <1>2 DEF Idle
  <2> QED
    BY <1>1, <2>1, <2>2 DEF GuardAlone, Alone, Held, One
<1>4. \A k \in Followed : Places(io, k) = 0
  <2>1. \A k \in Followed : Among(io.strand, Traces(k)) = 0 /\ Among(io.ready, Traces(k)) = 0
    BY <1>2, AmongEmpty
  <2> QED
    BY <1>2, <2>1, FollowedOps DEF Places
<1>5. Places(io, "resolve") = 0 /\ Places(io, "connect") = 0 /\ Places(io, "recv") = 0
  BY <1>4 DEF Followed
<1>6. api.stop = "drain" /\ api.start = "idle"
  BY <1>1, <1>2 DEF PoolServes, Turns
<1>7. state # "Stopping"
  <2>1. Pending(io) = 0
    BY <1>2, <1>3, AmongEmpty DEF Pending
  <2> QED
    BY <1>1, <2>1 DEF OneDisconnect, Tracked, One
<1>8. state # "Starting"
  BY <1>1, <1>2, <1>5, <1>6 DEF StartingTries, Calling
<1>9. state # "Started"
  BY <1>1, <1>2, <1>5, <1>6 DEF StartedReads
<1>10. state = "Stopped"
  BY <1>1, <1>7, <1>8, <1>9 DEF TypeOK, NetState
<1>11. ~up
  BY <1>1, <1>10 DEF ToldStarted
<1> QED
  BY <1>2, <1>3, <1>10, <1>11

\* Nothing begins in a pool that is down but the strand's queue growing.
LEMMA PoolDownNext ==
  ASSUME InTurn, StopInv, Next
  PROVE  PoolDown'
<1>0. TypeOK /\ Turns /\ PoolServes /\ PoolDown /\ io \in Io /\ api \in Api
  BY DEF StopInv, ClientInv, StopChain, TypeOK
<1> SUFFICES ASSUME pool' \in {"exited", "down"}
             PROVE  /\ io'.events = <<>> /\ run' = Idle /\ ~up' /\ \A k \in OpKind : io'.ops[k] = 0
                    /\ api'.start = "idle" => state' = "Stopped"
  BY DEF PoolDown
<1>1. CASE RunReturns
  <2>1. io' = io /\ run' = run /\ state' = state /\ up' = up
    BY <1>1 DEF RunReturns
  <2> QED
    BY <1>1, <2>1, NothingIsLeft
<1>2. CASE ~RunReturns
  <2>1. pool \in {"exited", "down"} /\ ~StartPool
    <3>1. pool \in {"exited", "down"}
      BY <1>0, <1>2, PoolSteps
    <3>2. ~StartPool
      BY <1>0, <3>1 DEF StartPool, PoolServes
    <3> QED
      BY <3>1, <3>2
  <2>2. /\ io.events = <<>> /\ run = Idle /\ ~up /\ \A k \in OpKind : io.ops[k] = 0
        /\ api.start = "idle" => state = "Stopped"
    BY <1>0, <2>1 DEF PoolDown
  <2>3. ~IoThreadFree /\ api.start \in {"idle", "pool"}
    BY <1>0, <2>1 DEF IoThreadFree, PoolServes, Api
  <2>4. ~StartStep
    BY <2>1, <2>3 DEF StartStep, StartLoadReconnectTimer, StartConnect, StartPostResolve,
       StartBindFails, StartWait
  <2>5. ~IoThreadStep
    <3>1. ~OnStrand /\ ~Deliver /\ ~RunReturns
      BY <1>2, <2>3 DEF OnStrand, Deliver
    <3>2. ~DoneNotify /\ ~DoneFinish
      BY <2>2 DEF DoneNotify, DoneFinish, Idle
    <3> QED
      BY <3>1, <3>2 DEF IoThreadStep, HandleEnqueue, HandleDisconnectEvent, HandleStopEvent,
         HandleWakeEvent, HandleReconnectEvent, HandleStopReconnectTimer, HandleArmTimeout,
         HandleResolve, HandleResolved, HandleConnected, HandleTimeout, HandleReconnectTimer,
         HandleStartRecv, HandleRecv, HandleSent, RunsEvent, RunsCompletion
  <2>6. ~Network
    BY <2>3 DEF Network, Resolves, Connects, Receives, Writes, TimerExpires, Expires, Completes
  <2>7. \A x : Post(io, x).events = io.events /\ Post(io, x).ops = io.ops
    BY <1>0 DEF Post, Io
  <2>8. CASE Begins
    <3>1. io' = io /\ run' = run /\ up' = up /\ api'.start = "pool"
      BY <1>0, <2>8, CallSteps DEF Begins, StartCall
    <3> QED
      BY <2>2, <3>1
  <2>9. CASE StopStep
    <3>1. api.start = "idle" /\ api'.start = "idle" /\ state = "Stopped"
      BY <1>0, <2>2, <2>4, <2>9, CallSteps
    <3>2. /\ run' = run /\ up' = up /\ state' = state
          /\ io' = io \/ \E x : io' = Post(io, x)
      BY <2>9, <3>1 DEF StopStep, StopCasStarted, StopCasStarting, StopCas, StopPostStop,
         StopPool, StopJoin, EventEnqueueFromOutside
    <3> QED
      BY <2>2, <2>7, <3>1, <3>2
  <2>10. CASE StopCall \/ SendCall \/ SendPost
    <3>1. /\ run' = run /\ up' = up /\ state' = state /\ api'.start = api.start
          /\ io' = io \/ \E x : io' = Post(io, x)
      BY <1>0, <2>10 DEF StopCall, SendCall, SendPost, EventEnqueueFromOutside, Api
    <3> QED
      BY <2>2, <2>7, <3>1
  <2> QED
    BY <2>4, <2>5, <2>6, <2>8, <2>9, <2>10 DEF Next, Application, Begins
<1> QED
  BY <1>1, <1>2

LEMMA InitStop == Init => StopChain
<1> SUFFICES ASSUME Init PROVE StopChain
  OBVIOUS
<1>1. \A k \in Followed : Places(io, k) = 0
  <2>1. \A k \in Followed : Among(io.strand, Traces(k)) = 0 /\ Among(io.ready, Traces(k)) = 0
    BY AmongEmpty DEF Init
  <2>2. \A k \in Followed : io.ops[k] = 0
    BY FollowedOps DEF Init
  <2> QED
    BY <2>1, <2>2 DEF Places
<1>2. NoOther
  <2>1. FreeOf(io, {Reconnecting})
    BY DEF Init, FreeOf, Clear, Behind, NoneOf
  <2> QED
    BY <1>1, <2>1 DEF NoOther, Followed
<1>3. TimerWaited
  BY <1>1 DEF TimerWaited, Followed, One
<1>4. Turns /\ PoolServes /\ PoolDown /\ StartingTries /\ StartedReads /\ StartingOpen /\ ToldStarted
  BY DEF Init, Turns, PoolServes, PoolDown, StartingTries, StartedReads, StartingOpen,
     ToldStarted, Calling
<1> QED
  BY <1>2, <1>3, <1>4 DEF StopChain

LEMMA NextStop ==
  ASSUME InTurn, StopInv, [Next]_vars
  PROVE  StopChain'
<1>1. CASE Next
  <2>1. /\ ClientInv /\ TypeOK /\ NoOther /\ TimerWaited /\ Turns /\ PoolServes /\ PoolDown
        /\ StartingTries /\ StartedReads /\ StartingOpen /\ ToldStarted
    BY DEF StopInv, StopChain, ClientInv
  <2>2. NoOther' /\ TimerWaited' /\ Turns' /\ PoolServes'
    BY <1>1, <2>1, NoOtherNext, TimerWaitedNext, TurnsNext, PoolServesNext
  <2>3. PoolDown' /\ StartingTries'
    BY <1>1, <2>1, PoolDownNext, StartingTriesNext
  <2>4. StartedReads' /\ StartingOpen' /\ ToldStarted'
    BY <1>1, <2>1, StartedReadsNext, StartingOpenNext, ToldStartedNext
  <2> QED
    BY <2>2, <2>3, <2>4 DEF StopChain
<1>2. CASE UNCHANGED vars
  <2>1. /\ state' = state /\ io' = io /\ run' = run /\ pool' = pool /\ timer' = timer
        /\ promise' = promise /\ api' = api /\ up' = up
    BY <1>2 DEF vars
  <2>2. StopChain
    BY DEF StopInv
  <2>3. NoOther' /\ TimerWaited' /\ Turns' /\ PoolServes'
    BY <2>1, <2>2 DEF StopChain, NoOther, TimerWaited, Waits, Turns, PoolServes, Calling
  <2>4. PoolDown' /\ StartingTries' /\ StartedReads' /\ StartingOpen' /\ ToldStarted'
    BY <2>1, <2>2 DEF StopChain, PoolDown, StartingTries, StartedReads, StartingOpen,
       ToldStarted, Waits, Calling
  <2> QED
    BY <2>3, <2>4 DEF StopChain
<1> QED
  BY <1>1, <1>2

LEMMA StopInvariant ==
  ASSUME InTurn
  PROVE  Spec => []StopInv
<1>1. ClientInv /\ Init => StopInv
  BY InitStop DEF StopInv
<1>2. ClientInv' /\ StopInv /\ [Next]_vars => StopInv'
  BY NextStop DEF StopInv
<1> QED
  BY <1>1, <1>2, ClientInvariant, PTL DEF Spec

\* Where calls of Start and Stop do not overlap, every Start blocks and the client
\* does not reconnect, the client is Stopped once a Stop has joined the io pool,
\* for any number of calls, sends and endpoints: run() returns only when no
\* attempt, no reading and no disconnect is left anywhere.
THEOREM StopIsComplete ==
  ASSUME OverlappingCalls = FALSE, ReconnectEnabled = FALSE, SyncStart \subseteq {TRUE}
  PROVE  Spec => []StopLeavesStopped
<1>1. InTurn
  BY DEF InTurn
<1>2. StopInv => StopLeavesStopped
  BY DEF StopInv, StopChain, PoolDown, StopLeavesStopped
<1> QED
  BY <1>1, <1>2, StopInvariant, PTL

\* ... and nothing of the client is left behind: events_ is empty, no operation is
\* pending, and the listener was told that its connection ended.
THEOREM StopIsClean ==
  ASSUME OverlappingCalls = FALSE, ReconnectEnabled = FALSE, SyncStart \subseteq {TRUE}
  PROVE  Spec => []StopLeavesNoWork
<1>1. InTurn
  BY DEF InTurn
<1>2. StopInv => StopLeavesNoWork
  BY DEF StopInv, StopChain, PoolDown, StopLeavesNoWork
<1> QED
  BY <1>1, <1>2, StopInvariant, PTL
=============================================================================
