-------------------------- MODULE UserTimerProofs ---------------------------
(***************************************************************************)
(* TLAPS proofs about UserTimer: user_timers_ and the timer objects agree, *)
(* and a timer nobody interferes with runs as often as its cycle says, not *)
(* more often and not less, for any number of keys, of timers and of       *)
(* calls.                                                                  *)
(***************************************************************************)
EXTENDS UserTimer, FiniteSetTheorems, TLAPS

Obj  == [key : Keys, left : Int, exited : BOOLEAN, waiting : BOOLEAN]
Ends == [obj : Nat, aborted : BOOLEAN]

StartTask == [t : {"start"}, key : Keys, cycle : Int]
StopTask  == [t : {"stop"}, key : Keys] \cup [t : {"stopAll"}]
TimerTask == [t : {"timer"}, done : Ends]
Tasks     == StartTask \cup StopTask \cup TimerTask

UtType(u) ==
  u \in [map : [Keys -> Nat \cup {NoTimer}], objs : Seq(Obj), ready : Seq(Ends)]

\* user_timers_ and the objects agree: an entry stands for an object of its key
\* that has not exited, and an object without an entry has.
Agree(u) ==
  /\ \A k \in Keys : u.map[k] # NoTimer =>
       /\ u.map[k] \in DOMAIN u.objs
       /\ u.objs[u.map[k]].key = k /\ ~u.objs[u.map[k]].exited
  /\ \A o \in DOMAIN u.objs : u.map[u.objs[o].key] # o => u.objs[o].exited
  /\ \A i \in DOMAIN u.ready : u.ready[i].obj \in DOMAIN u.objs

Sound(u) == UtType(u) /\ Agree(u)

\* The end of a wait of the object is still to be delivered to the strand.
Waits(u, o) == u.objs[o].waiting \/ \E i \in DOMAIN u.ready : u.ready[i].obj = o

\* What no operation on the timers does: forget an object or the end of a wait,
\* or put an object under a key.
Keeps(u, v) ==
  /\ DOMAIN v.objs = DOMAIN u.objs
  /\ \A o \in DOMAIN u.objs : v.objs[o].key = u.objs[o].key
  /\ \A k \in Keys : v.map[k] \in {u.map[k], NoTimer}
  /\ \A o \in DOMAIN u.objs : Waits(u, o) => Waits(v, o)

USE TimerAssumption

-----------------------------------------------------------------------------
(* The operators on the ut record.                                         *)

LEMMA EndsAppend ==
  ASSUME NEW s \in Seq(Ends), NEW x \in Ends
  PROVE  /\ Append(s, x) \in Seq(Ends)
         /\ DOMAIN Append(s, x) = 1..(Len(s) + 1) /\ DOMAIN s = 1..Len(s) /\ Len(s) \in Nat
         /\ \A i \in DOMAIN s : Append(s, x)[i] = s[i]
         /\ Append(s, x)[Len(s) + 1] = x
OBVIOUS

\* A wait is over, or aborted: its end is on its way.
EndOfWait(u, o, aborted) ==
  [u EXCEPT !.objs[o].waiting = FALSE, !.ready = Append(@, WaitDone(o, aborted))]

LEMMA EndIs ==
  ASSUME NEW u, Sound(u), NEW o, NEW aborted
  PROVE  EndOfWait(u, o, aborted) =
           [map |-> u.map, objs |-> [u.objs EXCEPT ![o] = [u.objs[o] EXCEPT !.waiting = FALSE]],
            ready |-> Append(u.ready, WaitDone(o, aborted))]
<1> DEFINE w == WaitDone(o, aborted)
           r == Append(u.ready, w)
           x == [u.objs[o] EXCEPT !.waiting = FALSE]
           s == [u.objs EXCEPT ![o] = x]
           v == [map |-> u.map, objs |-> s, ready |-> r]
<1>1. u = [map |-> u.map, objs |-> u.objs, ready |-> u.ready]
  BY DEF Sound, UtType
<1>2. EndOfWait(u, o, aborted) = [[u EXCEPT !.objs = s] EXCEPT !.ready = r]
  BY Zenon DEF EndOfWait
<1> HIDE DEF s, r
<1>3. [u EXCEPT !.objs = s] = [map |-> u.map, objs |-> s, ready |-> u.ready]
  BY <1>1
<1> DEFINE a == [u EXCEPT !.objs = s]
<1> HIDE DEF a
<1>4. a = [map |-> u.map, objs |-> s, ready |-> u.ready]
  BY <1>3 DEF a
<1>5. [a EXCEPT !.ready = r] = v
  BY <1>4
<1> QED
  BY <1>2, <1>5, Zenon DEF a, s, r

LEMMA EndSound ==
  ASSUME NEW u, Sound(u), NEW o \in DOMAIN u.objs, NEW aborted \in BOOLEAN
  PROVE  /\ Sound(EndOfWait(u, o, aborted)) /\ Keeps(u, EndOfWait(u, o, aborted))
         /\ EndOfWait(u, o, aborted).map = u.map
<1> DEFINE w == WaitDone(o, aborted)
           r == Append(u.ready, w)
           x == [u.objs[o] EXCEPT !.waiting = FALSE]
           s == [u.objs EXCEPT ![o] = x]
           v == [map |-> u.map, objs |-> s, ready |-> r]
<1>type. u.objs \in Seq(Obj) /\ u.ready \in Seq(Ends) /\ DOMAIN u.objs = 1..Len(u.objs)
         /\ u.map \in [Keys -> Nat \cup {NoTimer}] /\ o \in Nat
  BY DEF Sound, UtType
<1>1. EndOfWait(u, o, aborted) = v
  BY EndIs, Zenon
<1>2. w \in Ends
  BY <1>type DEF WaitDone, Ends
<1>3. r \in Seq(Ends) /\ DOMAIN r = 1..(Len(u.ready) + 1) /\ Len(u.ready) \in Nat
      /\ DOMAIN u.ready = 1..Len(u.ready)
      /\ (\A i \in DOMAIN u.ready : r[i] = u.ready[i]) /\ r[Len(u.ready) + 1] = w
  BY <1>type, <1>2, EndsAppend
<1>4. x \in Obj /\ x.key = u.objs[o].key /\ x.exited = u.objs[o].exited /\ ~x.waiting
  <2>1. u.objs[o] \in Obj
    BY <1>type
  <2> QED
    BY <2>1 DEF Obj
<1> HIDE DEF x, r
<1>5. s \in Seq(Obj) /\ DOMAIN s = DOMAIN u.objs /\ s[o] = x
      /\ \A p \in DOMAIN u.objs \ {o} : s[p] = u.objs[p]
  BY <1>type, <1>4
<1> HIDE DEF s
<1>6. UtType(v)
  BY <1>type, <1>3, <1>5 DEF UtType
<1>7. \A p \in DOMAIN u.objs : s[p].key = u.objs[p].key /\ s[p].exited = u.objs[p].exited
  BY <1>4, <1>5
<1>8. w.obj = o
  BY DEF WaitDone
<1> HIDE DEF w
<1>9. Agree(v)
  <2>1. \A k \in Keys : v.map[k] # NoTimer =>
           v.map[k] \in DOMAIN s /\ s[v.map[k]].key = k /\ ~s[v.map[k]].exited
    BY <1>type, <1>5, <1>7 DEF Agree, Sound
  <2>2. \A p \in DOMAIN s : v.map[s[p].key] # p => s[p].exited
    BY <1>type, <1>5, <1>7 DEF Agree, Sound
  <2>3. \A i \in DOMAIN r : r[i].obj \in DOMAIN s
    <3>1. \A i \in DOMAIN u.ready : r[i].obj \in DOMAIN s
      BY <1>3, <1>5 DEF Agree, Sound
    <3>2. r[Len(u.ready) + 1].obj \in DOMAIN s
      BY <1>3, <1>5, <1>8
    <3>3. \A i \in DOMAIN r : i \in DOMAIN u.ready \/ i = Len(u.ready) + 1
      BY <1>3
    <3> QED
      BY <3>1, <3>2, <3>3
  <2> QED
    BY <2>1, <2>2, <2>3 DEF Agree
<1>10. \A p \in DOMAIN u.objs : Waits(u, p) => Waits(v, p)
  <2>1. Waits(v, o)
    BY <1>3, <1>8 DEF Waits
  <2>2. ASSUME NEW p \in DOMAIN u.objs \ {o}, Waits(u, p)
        PROVE  Waits(v, p)
    BY <1>3, <1>5, <2>2 DEF Waits
  <2> QED
    BY <2>1, <2>2
<1>11. Keeps(u, v)
  BY <1>type, <1>5, <1>7, <1>10 DEF Keeps
<1> QED
  BY <1>1, <1>6, <1>7, <1>9, <1>11 DEF Sound

LEMMA AbortSound ==
  ASSUME NEW u, Sound(u), NEW o \in DOMAIN u.objs
  PROVE  Sound(Abort(u, o)) /\ Keeps(u, Abort(u, o)) /\ Abort(u, o).map = u.map
<1>1. CASE ~u.objs[o].waiting
  BY <1>1 DEF Abort, Keeps
<1>2. CASE u.objs[o].waiting
  <2>1. Abort(u, o) = EndOfWait(u, o, TRUE)
    BY <1>2 DEF Abort, EndOfWait
  <2> QED
    BY <2>1, EndSound
<1> QED
  BY <1>1, <1>2

\* An object changes, but for its key and for whether it has exited.
LEMMA ObjectSound ==
  ASSUME NEW u, Sound(u), NEW o \in DOMAIN u.objs, NEW x \in Obj,
         x.key = u.objs[o].key, x.exited = u.objs[o].exited,
         u.objs[o].waiting => x.waiting,
         NEW v, v = [u EXCEPT !.objs[o] = x]
  PROVE  /\ Sound(v) /\ Keeps(u, v) /\ v.map = u.map /\ v.ready = u.ready
         /\ v.objs[o] = x /\ \A p \in DOMAIN u.objs \ {o} : v.objs[p] = u.objs[p]
<1>type. u.objs \in Seq(Obj) /\ u.ready \in Seq(Ends) /\ DOMAIN u.objs = 1..Len(u.objs)
         /\ u.map \in [Keys -> Nat \cup {NoTimer}] /\ o \in Nat
  BY DEF Sound, UtType
<1> DEFINE s == [u.objs EXCEPT ![o] = x]
<1>1. v = [map |-> u.map, objs |-> s, ready |-> u.ready]
  BY DEF Sound, UtType
<1>2. s \in Seq(Obj) /\ DOMAIN s = DOMAIN u.objs /\ s[o] = x
      /\ \A p \in DOMAIN u.objs \ {o} : s[p] = u.objs[p]
  BY <1>type
<1> HIDE DEF s
<1>3. \A p \in DOMAIN u.objs : s[p].key = u.objs[p].key /\ s[p].exited = u.objs[p].exited
  BY <1>2
<1>4. UtType(v)
  <2>1. UtType([map |-> u.map, objs |-> s, ready |-> u.ready])
    BY <1>type, <1>2 DEF UtType
  <2> QED
    BY <1>1, <2>1, Zenon
<1>5. Agree(v)
  <2>1. \A k \in Keys : v.map[k] # NoTimer =>
           v.map[k] \in DOMAIN v.objs /\ v.objs[v.map[k]].key = k /\ ~v.objs[v.map[k]].exited
    BY <1>type, <1>1, <1>2, <1>3 DEF Agree, Sound
  <2>2. \A p \in DOMAIN v.objs : v.map[v.objs[p].key] # p => v.objs[p].exited
    BY <1>type, <1>1, <1>2, <1>3 DEF Agree, Sound
  <2>3. \A i \in DOMAIN v.ready : v.ready[i].obj \in DOMAIN v.objs
    BY <1>type, <1>1, <1>2 DEF Agree, Sound
  <2> QED
    BY <2>1, <2>2, <2>3 DEF Agree
<1>6. Keeps(u, v)
  <2>1. \A p \in DOMAIN u.objs : Waits(u, p) => Waits(v, p)
    BY <1>1, <1>2 DEF Waits
  <2> QED
    BY <1>type, <1>1, <1>2, <1>3, <2>1 DEF Keeps
<1> QED
  BY <1>1, <1>2, <1>4, <1>5, <1>6 DEF Sound

LEMMA KeepsTransitive ==
  ASSUME NEW u, NEW v, NEW w, Keeps(u, v), Keeps(v, w)
  PROVE  Keeps(u, w)
BY DEF Keeps

LEMMA ArmSound ==
  ASSUME NEW u, Sound(u), NEW o \in DOMAIN u.objs
  PROVE  /\ Sound(Arm(u, o)) /\ Keeps(u, Arm(u, o)) /\ Arm(u, o).map = u.map
         /\ ~u.objs[o].exited => Waits(Arm(u, o), o)
<1>1. CASE u.objs[o].exited
  BY <1>1 DEF Arm, Keeps
<1>2. CASE ~u.objs[o].exited
  <2> DEFINE a == Abort(u, o)
             x == [a.objs[o] EXCEPT !.waiting = TRUE]
             v == [a EXCEPT !.objs[o].waiting = TRUE]
  <2>1. Sound(a) /\ Keeps(u, a) /\ a.map = u.map
    BY AbortSound
  <2> HIDE DEF a
  <2>2. o \in DOMAIN a.objs
    BY <2>1 DEF Keeps
  <2>3. x \in Obj /\ x.key = a.objs[o].key /\ x.exited = a.objs[o].exited /\ x.waiting
    <3>1. a.objs[o] \in Obj
      BY <2>1, <2>2 DEF Sound, UtType
    <3> QED
      BY <3>1 DEF Obj
  <2>4. v = [a EXCEPT !.objs[o] = x]
    OBVIOUS
  <2> HIDE DEF x, v
  <2>5. Sound(v) /\ Keeps(a, v) /\ v.map = a.map /\ v.objs[o] = x
    BY <2>1, <2>2, <2>3, <2>4, ObjectSound
  <2>6. Waits(v, o)
    BY <2>3, <2>5 DEF Waits
  <2>7. Arm(u, o) = v
    BY <1>2 DEF Arm, a, v
  <2> QED
    BY <2>1, <2>5, <2>6, <2>7, KeepsTransitive
<1> QED
  BY <1>1, <1>2

LEMMA StopIs ==
  ASSUME NEW u, Sound(u), NEW key, u.map[key] # NoTimer
  PROVE  StopKey(u, key) =
           Abort([map |-> [u.map EXCEPT ![key] = NoTimer],
                  objs |-> [u.objs EXCEPT ![u.map[key]] = [u.objs[u.map[key]] EXCEPT !.exited = TRUE]],
                  ready |-> u.ready], u.map[key])
<1> DEFINE o == u.map[key]
           x == [u.objs[o] EXCEPT !.exited = TRUE]
           s == [u.objs EXCEPT ![o] = x]
           m == [u.map EXCEPT ![key] = NoTimer]
           v == [map |-> m, objs |-> s, ready |-> u.ready]
<1>1. u = [map |-> u.map, objs |-> u.objs, ready |-> u.ready]
  BY DEF Sound, UtType
<1>2. [u EXCEPT !.objs[o].exited = TRUE]
        = [map |-> u.map, objs |-> s, ready |-> u.ready]
  BY <1>1
<1>3. [u EXCEPT !.objs[o].exited = TRUE, !.map[key] = NoTimer]
        = [[u EXCEPT !.objs[o].exited = TRUE] EXCEPT !.map[key] = NoTimer]
  BY <1>1
<1>4. [[map |-> u.map, objs |-> s, ready |-> u.ready] EXCEPT !.map[key] = NoTimer] = v
  OBVIOUS
<1> HIDE DEF s
<1>5. [u EXCEPT !.objs[o].exited = TRUE, !.map[key] = NoTimer] = v
  BY <1>2, <1>3, <1>4
<1> QED
  BY <1>5, Zenon DEF StopKey, s

\* StopTimer erases the entry and tells the object to exit, before it aborts
\* the wait.
LEMMA Erased ==
  ASSUME NEW u, Sound(u), NEW key \in Keys, u.map[key] # NoTimer
  PROVE  \E v :
           /\ Sound(v) /\ Keeps(u, v) /\ v.map[key] = NoTimer /\ v.ready = u.ready
           /\ \A p \in DOMAIN u.objs :
                v.objs[p].left = u.objs[p].left /\ v.objs[p].waiting = u.objs[p].waiting
           /\ \A p \in DOMAIN u.objs \ {u.map[key]} : v.objs[p] = u.objs[p]
           /\ u.map[key] \in DOMAIN u.objs /\ StopKey(u, key) = Abort(v, u.map[key])
<1> DEFINE o == u.map[key]
<1>type. u.objs \in Seq(Obj) /\ u.ready \in Seq(Ends) /\ DOMAIN u.objs = 1..Len(u.objs)
         /\ u.map \in [Keys -> Nat \cup {NoTimer}]
  BY DEF Sound, UtType
<1> DEFINE x == [u.objs[o] EXCEPT !.exited = TRUE]
           s == [u.objs EXCEPT ![o] = x]
           m == [u.map EXCEPT ![key] = NoTimer]
           v == [map |-> m, objs |-> s, ready |-> u.ready]
<1>1. o \in DOMAIN u.objs /\ u.objs[o].key = key
  BY DEF Sound, Agree
<1>3. x \in Obj /\ x.key = key /\ x.exited
      /\ x.waiting = u.objs[o].waiting /\ x.left = u.objs[o].left
  <2>1. u.objs[o] \in Obj
    BY <1>type, <1>1
  <2> QED
    BY <1>1, <2>1 DEF Obj
<1> HIDE DEF x
<1>4. s \in Seq(Obj) /\ DOMAIN s = DOMAIN u.objs /\ s[o] = x
      /\ \A p \in DOMAIN u.objs \ {o} : s[p] = u.objs[p]
  BY <1>type, <1>1, <1>3
<1>5. m \in [Keys -> Nat \cup {NoTimer}] /\ m[key] = NoTimer
      /\ \A k \in Keys \ {key} : m[k] = u.map[k]
  BY <1>type
<1> HIDE DEF s, m
<1>6. UtType(v)
  BY <1>type, <1>4, <1>5 DEF UtType
<1>7. \A p \in DOMAIN u.objs : s[p].key = u.objs[p].key /\ s[p].waiting = u.objs[p].waiting
  BY <1>1, <1>3, <1>4
<1>8. Agree(v)
  <2>1. ASSUME NEW k \in Keys, m[k] # NoTimer
        PROVE  m[k] \in DOMAIN s /\ s[m[k]].key = k /\ ~s[m[k]].exited
    <3>1. m[k] = u.map[k] /\ k # key
      BY <1>5, <2>1
    <3>2. u.map[k] \in DOMAIN u.objs /\ u.objs[u.map[k]].key = k /\ ~u.objs[u.map[k]].exited
      BY <2>1, <3>1 DEF Sound, Agree
    <3>3. m[k] # o
      BY <1>1, <3>1, <3>2
    <3> QED
      BY <1>4, <3>1, <3>2, <3>3
  <2>2. ASSUME NEW p \in DOMAIN s, m[s[p].key] # p
        PROVE  s[p].exited
    <3>1. CASE p = o
      BY <1>3, <1>4, <3>1
    <3>2. CASE p # o
      <4>1. s[p] = u.objs[p] /\ p \in DOMAIN u.objs /\ u.objs[p] \in Obj
        BY <1>type, <1>4, <3>2
      <4>2. u.objs[p].key \in Keys
        BY <4>1 DEF Obj
      <4>3. u.map[u.objs[p].key] # p
        <5>1. CASE u.objs[p].key = key
          BY <3>2, <5>1
        <5>2. CASE u.objs[p].key # key
          BY <1>5, <2>2, <4>1, <4>2, <5>2
        <5> QED
          BY <5>1, <5>2
      <4> QED
        BY <4>1, <4>3 DEF Sound, Agree
    <3> QED
      BY <3>1, <3>2
  <2>3. \A i \in DOMAIN u.ready : u.ready[i].obj \in DOMAIN s
    BY <1>4 DEF Sound, Agree
  <2> QED
    BY <2>1, <2>2, <2>3 DEF Agree
<1>9. Keeps(u, v)
  <2>1. \A p \in DOMAIN u.objs : Waits(u, p) => Waits(v, p)
    BY <1>4, <1>7 DEF Waits
  <2>2. \A k \in Keys : v.map[k] \in {u.map[k], NoTimer}
    BY <1>5
  <2> QED
    BY <1>4, <1>7, <2>1, <2>2 DEF Keeps
<1>10. StopKey(u, key) = Abort(v, o)
  BY StopIs, Zenon DEF s, m, x
<1>11. v.map = m /\ v.objs = s /\ v.ready = u.ready
  BY Zenon
<1>12. Sound(v) /\ v.map[key] = NoTimer
  BY <1>5, <1>6, <1>8, <1>11 DEF Sound
<1>13. \A p \in DOMAIN u.objs :
         v.objs[p].left = u.objs[p].left /\ v.objs[p].waiting = u.objs[p].waiting
  BY <1>1, <1>3, <1>4, <1>11
<1>14. \A p \in DOMAIN u.objs \ {o} : v.objs[p] = u.objs[p]
  BY <1>4, <1>11
<1> HIDE DEF v, o
<1> QED
  BY <1>1, <1>9, <1>10, <1>11, <1>12, <1>13, <1>14 DEF o

LEMMA StopKeySound ==
  ASSUME NEW u, Sound(u), NEW key \in Keys
  PROVE  /\ Sound(StopKey(u, key)) /\ Keeps(u, StopKey(u, key))
         /\ StopKey(u, key).map[key] = NoTimer
<1>1. CASE u.map[key] = NoTimer
  BY <1>1 DEF StopKey, Keeps
<1>2. CASE u.map[key] # NoTimer
  <2> DEFINE o == u.map[key]
  <2>1. PICK v : /\ Sound(v) /\ Keeps(u, v) /\ v.map[key] = NoTimer
                 /\ o \in DOMAIN u.objs /\ StopKey(u, key) = Abort(v, o)
    BY <1>2, Erased
  <2>2. o \in DOMAIN v.objs
    BY <2>1 DEF Keeps
  <2> HIDE DEF o
  <2>3. Sound(Abort(v, o)) /\ Keeps(v, Abort(v, o)) /\ Abort(v, o).map = v.map
    BY <2>1, <2>2, AbortSound
  <2> QED
    BY <2>1, <2>3, KeepsTransitive
<1> QED
  BY <1>1, <1>2

LEMMA StopAllSound ==
  ASSUME NEW u, Sound(u), NEW order \in AbortOrders(u)
  PROVE  /\ Sound(StopAll(u, order))
         /\ DOMAIN StopAll(u, order).objs = DOMAIN u.objs
         /\ \A o \in DOMAIN u.objs : StopAll(u, order).objs[o].key = u.objs[o].key
         /\ \A k \in Keys : StopAll(u, order).map[k] = NoTimer
<1> DEFINE waiting == {u.map[k] : k \in Registered(u)}
                        \cap {o \in DOMAIN u.objs : u.objs[o].waiting}
           n == Cardinality(waiting)
           w == [i \in DOMAIN order |-> WaitDone(order[i], TRUE)]
           r == u.ready \o w
           Gone(o) == \E k \in Keys : u.map[k] = o
           s == [o \in DOMAIN u.objs |->
                   IF Gone(o) THEN [u.objs[o] EXCEPT !.exited = TRUE, !.waiting = FALSE]
                   ELSE u.objs[o]]
           m == [k \in Keys |-> NoTimer]
           v == [map |-> m, objs |-> s, ready |-> r]
<1>type. u.objs \in Seq(Obj) /\ u.ready \in Seq(Ends) /\ DOMAIN u.objs = 1..Len(u.objs)
         /\ Len(u.objs) \in Nat /\ u.map \in [Keys -> Nat \cup {NoTimer}]
  BY DEF Sound, UtType
<1>1. n \in Nat
  <2>1. IsFiniteSet(1..Len(u.objs))
    BY <1>type, FS_Interval
  <2>2. waiting \subseteq 1..Len(u.objs)
    BY <1>type
  <2> HIDE DEF waiting
  <2> QED
    BY <2>1, <2>2, FS_Subset, FS_CardinalityType
<1>2. DOMAIN order = 1..n /\ \A i \in 1..n : order[i] \in waiting
  BY DEF AbortOrders
<1>3. \A i \in 1..n : order[i] \in DOMAIN u.objs
  BY <1>2
<1> HIDE DEF n, waiting
<1>4. w \in Seq(Ends) /\ DOMAIN w = 1..n /\ \A i \in 1..n : w[i].obj \in DOMAIN u.objs
  <2>1. \A i \in 1..n : WaitDone(order[i], TRUE) \in Ends
    BY <1>type, <1>3 DEF WaitDone, Ends
  <2>2. w = [i \in 1..n |-> WaitDone(order[i], TRUE)]
    BY <1>2
  <2> QED
    BY <1>1, <1>3, <2>1, <2>2 DEF WaitDone
<1> HIDE DEF w
<1>5. r \in Seq(Ends) /\ \A i \in DOMAIN r : r[i].obj \in DOMAIN u.objs
  <2>1. r \in Seq(Ends) /\ Len(r) = Len(u.ready) + Len(w) /\ DOMAIN r = 1..Len(r)
        /\ Len(w) = n /\ Len(u.ready) \in Nat /\ DOMAIN u.ready = 1..Len(u.ready)
    BY <1>type, <1>1, <1>4
  <2>2. \A i \in 1..Len(r) : r[i] = IF i <= Len(u.ready) THEN u.ready[i]
                                                         ELSE w[i - Len(u.ready)]
    BY <1>type, <1>4, <2>1
  <2>3. \A i \in DOMAIN u.ready : u.ready[i].obj \in DOMAIN u.objs
    BY DEF Sound, Agree
  <2> HIDE DEF r
  <2> QED
    BY <1>1, <1>4, <2>1, <2>2, <2>3
<1> HIDE DEF r
<1>6. /\ s \in Seq(Obj) /\ DOMAIN s = DOMAIN u.objs
      /\ \A o \in DOMAIN s : s[o].key = u.objs[o].key /\ s[o].exited
  <2>1. \A o \in DOMAIN u.objs : u.objs[o] \in Obj
    BY <1>type
  <2>2. \A o \in DOMAIN u.objs : [u.objs[o] EXCEPT !.exited = TRUE, !.waiting = FALSE] \in Obj
    BY <2>1 DEF Obj
  <2>3. \A o \in DOMAIN u.objs : ~Gone(o) => u.objs[o].exited
    <3> SUFFICES ASSUME NEW o \in DOMAIN u.objs, ~Gone(o)
                 PROVE  u.objs[o].exited
      OBVIOUS
    <3>1. u.objs[o].key \in Keys
      BY <2>1 DEF Obj
    <3>2. u.map[u.objs[o].key] # o
      BY <3>1
    <3> QED
      BY <3>2 DEF Sound, Agree
  <2> HIDE DEF Gone
  <2>4. s \in Seq(Obj) /\ DOMAIN s = DOMAIN u.objs
    <3>1. s \in [1..Len(u.objs) -> Obj]
      BY <1>type, <2>1, <2>2
    <3> HIDE DEF s
    <3> QED
      BY <1>type, <3>1
  <2>5. ASSUME NEW o \in DOMAIN s
        PROVE  s[o].key = u.objs[o].key /\ s[o].exited
    <3>1. u.objs[o] \in Obj
      BY <2>1, <2>5
    <3>2. CASE Gone(o)
      <4>1. s[o] = [u.objs[o] EXCEPT !.exited = TRUE, !.waiting = FALSE]
        BY <2>5, <3>2
      <4> QED
        BY <3>1, <4>1 DEF Obj
    <3>3. CASE ~Gone(o)
      BY <2>3, <2>5, <3>3
    <3> QED
      BY <3>2, <3>3
  <2> QED
    BY <2>4, <2>5
<1>7. StopAll(u, order) = v
  BY DEF StopAll, w, r
<1> HIDE DEF s
<1>8. UtType(v) /\ Agree(v)
  BY <1>5, <1>6 DEF UtType, Agree
<1> QED
  BY <1>6, <1>7, <1>8 DEF Sound

\* What follows the task leaves nothing registered that waits for nothing.
LEMMA AfterTaskSound ==
  ASSUME NEW u, Sound(u), NEW o \in DOMAIN u.objs, NEW aborted \in BOOLEAN
  PROVE  /\ Sound(AfterTask(u, o, aborted)) /\ Keeps(u, AfterTask(u, o, aborted))
         /\ \A k \in Keys : AfterTask(u, o, aborted).map[k] = o
                              => Waits(AfterTask(u, o, aborted), o)
<1>type. u.objs[o] \in Obj /\ NoTimer # o
  BY DEF Sound, UtType
<1>key. u.objs[o].key \in Keys /\ u.objs[o].left \in Int
  BY <1>type DEF Obj
<1>only. ASSUME NEW k \in Keys, u.map[k] = o
         PROVE  k = u.objs[o].key /\ ~u.objs[o].exited
  BY <1>type, <1>only DEF Sound, Agree
<1>1. CASE aborted \/ LastCycle(u.objs[o].left)
  <2> DEFINE v == StopKey(u, u.objs[o].key)
  <2>1. AfterTask(u, o, aborted) = v
    BY <1>1 DEF AfterTask
  <2>2. Sound(v) /\ Keeps(u, v) /\ v.map[u.objs[o].key] = NoTimer
    BY <1>key, StopKeySound
  <2> HIDE DEF v
  <2>3. ASSUME NEW k \in Keys, v.map[k] = o
        PROVE  FALSE
    <3>1. u.map[k] = o
      BY <1>type, <2>2, <2>3 DEF Keeps
    <3> QED
      BY <1>type, <1>only, <2>2, <2>3, <3>1
  <2> QED
    BY <2>1, <2>2, <2>3
<1>2. CASE ~(aborted \/ LastCycle(u.objs[o].left))
  <2> DEFINE x == [u.objs[o] EXCEPT !.left = CountDown(@)]
             c == [u EXCEPT !.objs[o] = x]
             v == Arm(c, o)
  <2>1. AfterTask(u, o, aborted) = v
    BY <1>2 DEF AfterTask
  <2>2. x \in Obj /\ x.key = u.objs[o].key /\ x.exited = u.objs[o].exited
        /\ x.waiting = u.objs[o].waiting
    <3>1. CountDown(u.objs[o].left) \in Int
      BY <1>key DEF CountDown
    <3> QED
      BY <1>type, <3>1 DEF Obj
  <2> HIDE DEF x
  <2>3. Sound(c) /\ Keeps(u, c) /\ c.map = u.map /\ c.objs[o] = x
    <3> HIDE DEF c
    <3>1. c = [u EXCEPT !.objs[o] = x]
      BY DEF c
    <3> QED
      BY <2>2, <3>1, ObjectSound
  <2> HIDE DEF c
  <2>4. o \in DOMAIN c.objs
    BY <2>3 DEF Keeps
  <2>5. Sound(v) /\ Keeps(c, v) /\ v.map = c.map /\ (~c.objs[o].exited => Waits(v, o))
    BY <2>3, <2>4, ArmSound
  <2> HIDE DEF v
  <2>6. \A k \in Keys : v.map[k] = o => Waits(v, o)
    BY <1>only, <2>2, <2>3, <2>5
  <2> QED
    BY <2>1, <2>3, <2>5, <2>6, KeepsTransitive
<1> QED
  BY <1>1, <1>2

\* StartTimer for a key without an entry makes an object and registers it.
MakeTimer(u, key, cycle) ==
  [u EXCEPT !.objs = Append(@, Object(key, cycle)), !.map[key] = Len(u.objs) + 1]

LEMMA NewSound ==
  ASSUME NEW u, Sound(u), NEW key \in Keys, NEW cycle \in Int, u.map[key] = NoTimer,
         NEW new, new = Len(u.objs) + 1, NEW v, v = MakeTimer(u, key, cycle)
  PROVE  /\ Sound(v) /\ new \in DOMAIN v.objs /\ ~v.objs[new].exited
         /\ DOMAIN u.objs \subseteq DOMAIN v.objs
         /\ \A o \in DOMAIN u.objs : Waits(u, o) => Waits(v, o)
         /\ \A k \in Keys : v.map[k] # NoTimer => v.map[k] \in {u.map[k], new}
         /\ v.ready = u.ready /\ v.objs[new] = Object(key, cycle) /\ DOMAIN v.objs = 1..new
         /\ \A o \in DOMAIN u.objs : v.objs[o] = u.objs[o]
<1>type. u.objs \in Seq(Obj) /\ u.ready \in Seq(Ends) /\ DOMAIN u.objs = 1..Len(u.objs)
         /\ Len(u.objs) \in Nat /\ u.map \in [Keys -> Nat \cup {NoTimer}]
  BY DEF Sound, UtType
<1> DEFINE x == Object(key, cycle)
           s == Append(u.objs, x)
           m == [u.map EXCEPT ![key] = new]
<1>1. v = [map |-> m, objs |-> s, ready |-> u.ready]
  BY DEF MakeTimer, Sound, UtType
<1>2. x \in Obj /\ x.key = key /\ ~x.exited
  BY DEF Object, Obj
<1> HIDE DEF x
<1>3. s \in Seq(Obj) /\ DOMAIN s = 1..new /\ s[new] = x
      /\ \A o \in DOMAIN u.objs : s[o] = u.objs[o]
  BY <1>type, <1>2
<1>4. m \in [Keys -> Nat \cup {NoTimer}] /\ m[key] = new
      /\ \A k \in Keys \ {key} : m[k] = u.map[k]
  BY <1>type
<1> HIDE DEF s, m
<1>fields. v.map = m /\ v.objs = s /\ v.ready = u.ready
  <2> DEFINE w == [map |-> m, objs |-> s, ready |-> u.ready]
  <2>1. w.map = m /\ w.objs = s /\ w.ready = u.ready
    BY Zenon
  <2>2. v = w
    BY <1>1
  <2> HIDE DEF w
  <2> QED
    BY <2>1, <2>2, Zenon
<1>5. UtType(v)
  <2>1. UtType([map |-> m, objs |-> s, ready |-> u.ready])
    BY <1>type, <1>3, <1>4 DEF UtType
  <2> QED
    BY <1>1, <2>1, Zenon
<1>6. Agree(v)
  <2>1. ASSUME NEW k \in Keys, m[k] # NoTimer
        PROVE  m[k] \in DOMAIN s /\ s[m[k]].key = k /\ ~s[m[k]].exited
    <3>1. CASE k = key
      BY <1>type, <1>2, <1>3, <1>4, <3>1
    <3>2. CASE k # key
      <4>1. u.map[k] \in DOMAIN u.objs /\ u.objs[u.map[k]].key = k /\ ~u.objs[u.map[k]].exited
        BY <1>4, <2>1, <3>2 DEF Sound, Agree
      <4> QED
        BY <1>type, <1>3, <1>4, <3>2, <4>1
    <3> QED
      BY <3>1, <3>2
  <2>2. ASSUME NEW o \in DOMAIN s, m[s[o].key] # o
        PROVE  s[o].exited
    <3>1. o \in DOMAIN u.objs
      BY <1>type, <1>2, <1>3, <1>4, <2>2
    <3>2. u.objs[o] \in Obj
      BY <1>type, <3>1
    <3>3. u.objs[o].key \in Keys /\ s[o] = u.objs[o]
      BY <1>3, <3>1, <3>2 DEF Obj
    <3>4. u.map[u.objs[o].key] # o
      BY <1>4, <1>type, <2>2, <3>1, <3>3
    <3> QED
      BY <3>1, <3>3, <3>4 DEF Sound, Agree
  <2>3. \A i \in DOMAIN u.ready : u.ready[i].obj \in DOMAIN s
    <3>1. \A i \in DOMAIN u.ready : u.ready[i].obj \in DOMAIN u.objs
      BY DEF Sound, Agree
    <3> QED
      BY <1>type, <1>3, <3>1
  <2>4. Agree([map |-> m, objs |-> s, ready |-> u.ready])
    BY <2>1, <2>2, <2>3 DEF Agree
  <2> QED
    BY <1>1, <2>4, Zenon
<1>7. \A o \in DOMAIN u.objs : Waits(u, o) => Waits(v, o)
  BY <1>fields, <1>3 DEF Waits
<1>8. /\ new \in DOMAIN s /\ DOMAIN u.objs \subseteq DOMAIN s
      /\ \A k \in Keys : m[k] # NoTimer => m[k] \in {u.map[k], new}
  BY <1>type, <1>3, <1>4
<1> QED
  BY <1>fields, <1>2, <1>3, <1>5, <1>6, <1>7, <1>8, Zenon DEF Sound, x

-----------------------------------------------------------------------------
(* The invariant.                                                          *)

StrandOK(u, s) ==
  /\ s \in Seq(Tasks)
  /\ \A i \in DOMAIN s : s[i].t = "timer" => s[i].done.obj \in DOMAIN u.objs

\* The end of a wait of the object is on its way to HandleUserTimers.
InTransit(s, o) == \E i \in DOMAIN s : s[i].t = "timer" /\ s[i].done.obj = o

Armed(u, s) ==
  \A k \in Keys : u.map[k] # NoTimer => Waits(u, u.map[k]) \/ InTransit(s, u.map[k])

TimerInv == Sound(ut) /\ StrandOK(ut, strand) /\ Armed(ut, strand)

LEMMA TasksAppend ==
  ASSUME NEW s \in Seq(Tasks), NEW x \in Tasks
  PROVE  /\ Append(s, x) \in Seq(Tasks)
         /\ DOMAIN Append(s, x) = 1..(Len(s) + 1) /\ DOMAIN s = 1..Len(s) /\ Len(s) \in Nat
         /\ \A i \in DOMAIN s : Append(s, x)[i] = s[i]
         /\ Append(s, x)[Len(s) + 1] = x
OBVIOUS

LEMMA TasksTail ==
  ASSUME NEW s \in Seq(Tasks), s # <<>>
  PROVE  /\ Head(s) \in Tasks /\ Tail(s) \in Seq(Tasks) /\ Head(s) = s[1]
         /\ DOMAIN s = 1..Len(s) /\ Len(s) \in Nat
         /\ DOMAIN Tail(s) = 1..(Len(s) - 1)
         /\ \A i \in DOMAIN Tail(s) : Tail(s)[i] = s[i + 1]
OBVIOUS

LEMMA EndsTail ==
  ASSUME NEW s \in Seq(Ends), s # <<>>
  PROVE  /\ Head(s) \in Ends /\ Tail(s) \in Seq(Ends) /\ Head(s) = s[1]
         /\ DOMAIN s = 1..Len(s) /\ Len(s) \in Nat
         /\ DOMAIN Tail(s) = 1..(Len(s) - 1)
         /\ \A i \in DOMAIN Tail(s) : Tail(s)[i] = s[i + 1]
OBVIOUS

\* A task is put on the strand.
LEMMA PostStep ==
  ASSUME TimerInv, NEW x \in Tasks, x.t = "timer" => x.done.obj \in DOMAIN ut.objs,
         strand' = Append(strand, x)
  PROVE  /\ ut'.objs = ut.objs => StrandOK(ut', strand')
         /\ \A o : InTransit(strand, o) => InTransit(strand', o)
         /\ x.t = "timer" => InTransit(strand', x.done.obj)
<1>1. /\ strand' \in Seq(Tasks) /\ DOMAIN strand' = 1..(Len(strand) + 1)
      /\ DOMAIN strand = 1..Len(strand) /\ Len(strand) \in Nat
      /\ \A i \in DOMAIN strand : strand'[i] = strand[i]
      /\ strand'[Len(strand) + 1] = x
  BY TasksAppend DEF TimerInv, StrandOK
<1>2. ut'.objs = ut.objs => StrandOK(ut', strand')
  BY <1>1 DEF TimerInv, StrandOK
<1>3. \A o : InTransit(strand, o) => InTransit(strand', o)
  BY <1>1 DEF InTransit
<1>4. x.t = "timer" => InTransit(strand', x.done.obj)
  BY <1>1 DEF InTransit
<1> QED
  BY <1>2, <1>3, <1>4

\* The task at the head of the strand is run.
LEMMA RunStep ==
  ASSUME TimerInv, strand # <<>>, strand' = Tail(strand),
         DOMAIN ut.objs \subseteq DOMAIN ut'.objs
  PROVE  /\ StrandOK(ut', strand') /\ Running \in Tasks
         /\ Running.t = "timer" => Running.done.obj \in DOMAIN ut.objs
         /\ \A o : InTransit(strand, o) => InTransit(strand', o) \/ (Running.t = "timer" /\ Running.done.obj = o)
<1>1. /\ Running \in Tasks /\ Running = strand[1] /\ strand' \in Seq(Tasks)
      /\ DOMAIN strand = 1..Len(strand) /\ Len(strand) \in Nat
      /\ DOMAIN strand' = 1..(Len(strand) - 1)
      /\ \A i \in DOMAIN strand' : strand'[i] = strand[i + 1]
  BY TasksTail DEF TimerInv, StrandOK, Running
<1>2. Len(strand) > 0
  <2>1. strand \in Seq(Tasks)
    BY DEF TimerInv, StrandOK
  <2> QED
    BY <2>1
<1>3. StrandOK(ut', strand')
  BY <1>1 DEF TimerInv, StrandOK
<1>4. Running.t = "timer" => Running.done.obj \in DOMAIN ut.objs
  BY <1>1, <1>2 DEF TimerInv, StrandOK
<1>5. ASSUME NEW o, InTransit(strand, o), ~(Running.t = "timer" /\ Running.done.obj = o)
      PROVE  InTransit(strand', o)
  <2>1. PICK i \in DOMAIN strand : strand[i].t = "timer" /\ strand[i].done.obj = o
    BY <1>5 DEF InTransit
  <2>2. i - 1 \in DOMAIN strand' /\ strand'[i - 1] = strand[i]
    BY <1>1, <1>5, <2>1
  <2> QED
    BY <2>1, <2>2 DEF InTransit
<1> QED
  BY <1>1, <1>3, <1>4, <1>5

\* A task has been run that leaves every registered timer armed, if the timer
\* was not or if the task was the end of its wait.
LEMMA RanStep ==
  ASSUME TimerInv, strand # <<>>, strand' = Tail(strand), Sound(ut'),
         DOMAIN ut.objs \subseteq DOMAIN ut'.objs,
         \A o \in DOMAIN ut.objs : Waits(ut, o) => Waits(ut', o),
         \A k \in Keys : ut'.map[k] # NoTimer =>
           \/ Waits(ut', ut'.map[k])
           \/ /\ ut'.map[k] = ut.map[k]
              /\ ~(Running.t = "timer" /\ Running.done.obj = ut.map[k])
  PROVE  TimerInv'
<1>1. StrandOK(ut', strand') /\ \A o : InTransit(strand, o) => InTransit(strand', o) \/ (Running.t = "timer"
                                                         /\ Running.done.obj = o)
  BY RunStep
<1>2. ASSUME NEW k \in Keys, ut'.map[k] # NoTimer
      PROVE  Waits(ut', ut'.map[k]) \/ InTransit(strand', ut'.map[k])
  <2>1. CASE Waits(ut', ut'.map[k])
    BY <2>1
  <2>2. CASE ut'.map[k] = ut.map[k] /\ ~(Running.t = "timer" /\ Running.done.obj = ut.map[k])
    <3>1. Waits(ut, ut.map[k]) \/ InTransit(strand, ut.map[k])
      BY <1>2, <2>2 DEF TimerInv, Armed
    <3>2. ut.map[k] \in DOMAIN ut.objs
      BY <1>2, <2>2 DEF TimerInv, Sound, Agree
    <3>3. InTransit(strand, ut.map[k]) => InTransit(strand', ut.map[k])
      BY <1>1, <2>2
    <3> QED
      BY <2>2, <3>1, <3>2, <3>3
  <2> QED
    BY <1>2, <2>1, <2>2
<1>3. Armed(ut', strand')
  BY <1>2 DEF Armed
<1> QED
  BY <1>1, <1>3 DEF TimerInv

LEMMA CallSteps ==
  ASSUME TimerInv,
         \/ \E key \in Keys, cycle \in Cycles : CallStart(key, cycle)
         \/ \E key \in Keys : CallStop(key)
         \/ CallStopAll
  PROVE  TimerInv'
<1>1. PICK x \in Tasks : strand' = Append(strand, x) /\ x.t # "timer" /\ ut' = ut
  <2>1. CASE \E key \in Keys, cycle \in Cycles : CallStart(key, cycle)
    <3>1. PICK key \in Keys, cycle \in Cycles : CallStart(key, cycle)
      BY <2>1
    <3>2. [t |-> "start", key |-> key, cycle |-> cycle] \in Tasks
      BY DEF Tasks, StartTask
    <3> QED
      BY <3>1, <3>2 DEF CallStart
  <2>2. CASE \E key \in Keys : CallStop(key)
    <3>1. PICK key \in Keys : CallStop(key)
      BY <2>2
    <3>2. [t |-> "stop", key |-> key] \in Tasks
      BY DEF Tasks, StopTask
    <3> QED
      BY <3>1, <3>2 DEF CallStop
  <2>3. CASE CallStopAll
    <3>1. [t |-> "stopAll"] \in Tasks
      BY DEF Tasks, StopTask
    <3> QED
      BY <2>3, <3>1 DEF CallStopAll
  <2> QED
    BY <2>1, <2>2, <2>3
<1>2. StrandOK(ut', strand') /\ \A o : InTransit(strand, o) => InTransit(strand', o)
  BY <1>1, PostStep
<1>3. Armed(ut', strand')
  <2> SUFFICES ASSUME NEW k \in Keys, ut.map[k] # NoTimer
               PROVE  Waits(ut, ut.map[k]) \/ InTransit(strand', ut.map[k])
    BY <1>1 DEF Armed
  <2> QED
    BY <1>2 DEF TimerInv, Armed
<1> QED
  BY <1>1, <1>2, <1>3 DEF TimerInv

LEMMA DeliverStep ==
  ASSUME TimerInv, Deliver
  PROVE  TimerInv'
<1> DEFINE e == Head(ut.ready)
           r == Tail(ut.ready)
           x == [t |-> "timer", done |-> e]
<1>type. ut.objs \in Seq(Obj) /\ ut.ready \in Seq(Ends) /\ ut.ready # <<>>
         /\ ut.map \in [Keys -> Nat \cup {NoTimer}]
  BY DEF TimerInv, Sound, UtType, Deliver
<1>1. /\ e \in Ends /\ r \in Seq(Ends) /\ e = ut.ready[1]
      /\ DOMAIN ut.ready = 1..Len(ut.ready) /\ Len(ut.ready) \in Nat
      /\ DOMAIN r = 1..(Len(ut.ready) - 1)
      /\ \A i \in DOMAIN r : r[i] = ut.ready[i + 1]
  BY <1>type, EndsTail
<1>2. Len(ut.ready) > 0
  BY <1>type
<1>3. ut' = [map |-> ut.map, objs |-> ut.objs, ready |-> r] /\ strand' = Append(strand, x)
  BY DEF Deliver, TimerInv, Sound, UtType
<1> HIDE DEF r
<1>fields. ut'.map = ut.map /\ ut'.objs = ut.objs /\ ut'.ready = r
  BY <1>3
<1>4. x \in Tasks /\ x.t = "timer" /\ x.done = e
  BY <1>1 DEF Tasks, TimerTask
<1> HIDE DEF x, e
<1>5. e.obj \in DOMAIN ut.objs
  BY <1>1, <1>2 DEF TimerInv, Sound, Agree
<1>6. StrandOK(ut', strand') /\ (\A o : InTransit(strand, o) => InTransit(strand', o)) /\ InTransit(strand', e.obj)
  <2>1. x.done.obj \in DOMAIN ut.objs
    BY <1>4, <1>5
  <2>2. /\ ut'.objs = ut.objs => StrandOK(ut', strand')
        /\ \A o : InTransit(strand, o) => InTransit(strand', o)
        /\ x.t = "timer" => InTransit(strand', x.done.obj)
    BY <1>3, <1>4, <2>1, PostStep
  <2> QED
    BY <1>4, <1>fields, <2>2
<1>7. Sound(ut')
  <2>1. UtType([map |-> ut.map, objs |-> ut.objs, ready |-> r])
    BY <1>type, <1>1 DEF UtType
  <2>2. \A i \in DOMAIN ut.ready : ut.ready[i].obj \in DOMAIN ut.objs
    BY DEF TimerInv, Sound, Agree
  <2>3. \A i \in DOMAIN r : r[i].obj \in DOMAIN ut.objs
    <3> SUFFICES ASSUME NEW i \in DOMAIN r
                 PROVE  r[i].obj \in DOMAIN ut.objs
      OBVIOUS
    <3>1. i + 1 \in DOMAIN ut.ready /\ r[i] = ut.ready[i + 1]
      BY <1>1
    <3> QED
      BY <2>2, <3>1
  <2>4. Agree([map |-> ut.map, objs |-> ut.objs, ready |-> r])
    BY <2>3 DEF Agree, TimerInv, Sound
  <2> QED
    BY <1>3, <2>1, <2>4, Zenon DEF Sound
<1>8. \A o : Waits(ut, o) => Waits(ut', o) \/ o = e.obj
  <2> SUFFICES ASSUME NEW o, Waits(ut, o), o # e.obj
               PROVE  Waits(ut', o)
    OBVIOUS
  <2>1. CASE ut.objs[o].waiting
    BY <1>fields, <2>1 DEF Waits
  <2>2. CASE \E i \in DOMAIN ut.ready : ut.ready[i].obj = o
    <3>1. PICK i \in DOMAIN ut.ready : ut.ready[i].obj = o
      BY <2>2
    <3>2. i - 1 \in DOMAIN r /\ r[i - 1] = ut.ready[i]
      BY <1>1, <3>1
    <3> QED
      BY <1>fields, <3>1, <3>2 DEF Waits
  <2> QED
    BY <2>1, <2>2 DEF Waits
<1>9. Armed(ut', strand')
  <2> SUFFICES ASSUME NEW k \in Keys, ut'.map[k] # NoTimer
               PROVE  Waits(ut', ut'.map[k]) \/ InTransit(strand', ut'.map[k])
    BY DEF Armed
  <2>1. Waits(ut, ut.map[k]) \/ InTransit(strand, ut.map[k])
    BY <1>fields DEF TimerInv, Armed
  <2>2. Waits(ut', ut.map[k]) \/ InTransit(strand', ut.map[k])
    BY <1>6, <1>8, <2>1
  <2> QED
    BY <1>fields, <2>2
<1> QED
  BY <1>6, <1>7, <1>9 DEF TimerInv

LEMMA ExpireStep ==
  ASSUME TimerInv, NEW o \in 1..MaxStarts, Expire(o)
  PROVE  TimerInv'
<1>1. /\ ut' = EndOfWait(ut, o, FALSE) /\ o \in DOMAIN ut.objs
      /\ strand' = strand
  BY DEF Expire, EndOfWait
<1>2. Sound(ut') /\ Keeps(ut, ut') /\ ut'.map = ut.map
  BY <1>1, EndSound DEF TimerInv
<1>3. StrandOK(ut', strand')
  BY <1>1, <1>2 DEF TimerInv, StrandOK, Keeps
<1>4. Armed(ut', strand')
  <2> SUFFICES ASSUME NEW k \in Keys, ut.map[k] # NoTimer
               PROVE  Waits(ut', ut.map[k]) \/ InTransit(strand, ut.map[k])
    BY <1>1, <1>2 DEF Armed
  <2>1. ut.map[k] \in DOMAIN ut.objs
    BY DEF TimerInv, Sound, Agree
  <2> QED
    BY <1>2, <2>1 DEF TimerInv, Armed, Keeps
<1> QED
  BY <1>2, <1>3, <1>4 DEF TimerInv

LEMMA StartStep ==
  ASSUME TimerInv, HandleStart
  PROVE  TimerInv'
<1>1. strand # <<>> /\ strand' = Tail(strand) /\ Running.t = "start"
  BY DEF HandleStart, OnStrand
<1>2. Running.key \in Keys /\ Running.cycle \in Int
  <2>1. Running \in Tasks
    BY <1>1, TasksTail DEF TimerInv, StrandOK, Running
  <2> QED
    BY <1>1, <2>1 DEF Tasks, StartTask, StopTask, TimerTask
<1> DEFINE old == ut.map[Running.key]
           new == Len(ut.objs) + 1
           v == MakeTimer(ut, Running.key, Running.cycle)
<1>3. CASE old # NoTimer
  <2>1. ut' = Arm(ut, old) /\ old \in DOMAIN ut.objs
    BY <1>2, <1>3 DEF HandleStart, TimerInv, Sound, Agree
  <2>2. Sound(ut') /\ Keeps(ut, ut') /\ ut'.map = ut.map
    BY <2>1, ArmSound DEF TimerInv
  <2> QED
    BY <1>1, <2>2, RanStep DEF Keeps
<1>4. CASE old = NoTimer
  <2>1. ut' = Arm(v, new)
    BY <1>4 DEF HandleStart, MakeTimer
  <2>2. /\ Sound(v) /\ new \in DOMAIN v.objs /\ ~v.objs[new].exited
        /\ DOMAIN ut.objs \subseteq DOMAIN v.objs
        /\ \A o \in DOMAIN ut.objs : Waits(ut, o) => Waits(v, o)
        /\ \A k \in Keys : v.map[k] # NoTimer => v.map[k] \in {ut.map[k], new}
    <3> HIDE DEF v, new, old
    <3>1. Sound(ut) /\ ut.map[Running.key] = NoTimer
      BY <1>4 DEF TimerInv, old
    <3>2. new = Len(ut.objs) + 1
      BY DEF new
    <3>3. v = MakeTimer(ut, Running.key, Running.cycle)
      BY DEF v
    <3> QED
      BY <1>2, <3>1, <3>2, <3>3, NewSound
  <2> HIDE DEF v, new
  <2>3. Sound(ut') /\ Keeps(v, ut') /\ ut'.map = v.map /\ Waits(ut', new)
    BY <2>1, <2>2, ArmSound
  <2>4. DOMAIN ut.objs \subseteq DOMAIN ut'.objs
    BY <2>2, <2>3 DEF Keeps
  <2>5. \A o \in DOMAIN ut.objs : Waits(ut, o) => Waits(ut', o)
    BY <2>2, <2>3 DEF Keeps
  <2>6. \A k \in Keys : ut'.map[k] # NoTimer =>
          Waits(ut', ut'.map[k]) \/ ut'.map[k] = ut.map[k]
    BY <2>2, <2>3
  <2> QED
    BY <1>1, <2>3, <2>4, <2>5, <2>6, RanStep
<1> QED
  BY <1>3, <1>4

LEMMA StopSteps ==
  ASSUME TimerInv, HandleStop \/ HandleStopAll
  PROVE  TimerInv'
<1>1. strand # <<>> /\ strand' = Tail(strand) /\ Running.t \in {"stop", "stopAll"}
  BY DEF HandleStop, HandleStopAll, OnStrand
<1>2. CASE HandleStop
  <2>1. Running.key \in Keys
    <3>1. Running \in Tasks
      BY <1>1, TasksTail DEF TimerInv, StrandOK, Running
    <3> QED
      BY <1>2, <3>1 DEF HandleStop, OnStrand, Tasks, StartTask, StopTask, TimerTask
  <2>2. Sound(ut') /\ Keeps(ut, ut')
    BY <1>2, <2>1, StopKeySound DEF HandleStop, TimerInv
  <2> QED
    BY <1>1, <2>2, RanStep DEF Keeps
<1>3. CASE HandleStopAll
  <2>1. PICK order \in AbortOrders(ut) : ut' = StopAll(ut, order)
    BY <1>3 DEF HandleStopAll
  <2>2. /\ Sound(ut') /\ DOMAIN ut'.objs = DOMAIN ut.objs
        /\ \A k \in Keys : ut'.map[k] = NoTimer
    BY <2>1, StopAllSound DEF TimerInv
  <2>3. StrandOK(ut', strand')
    BY <1>1, <2>2, RunStep
  <2> QED
    BY <2>2, <2>3 DEF TimerInv, Armed
<1> QED
  BY <1>2, <1>3

LEMMA TimerStep ==
  ASSUME TimerInv, HandleUserTimers
  PROVE  TimerInv'
<1> DEFINE o == Running.done.obj
           aborted == Running.done.aborted
<1>1. strand # <<>> /\ strand' = Tail(strand) /\ Running.t = "timer"
  BY DEF HandleUserTimers, OnStrand
<1>2. o \in DOMAIN ut.objs /\ aborted \in BOOLEAN /\ Running.t = "timer"
  <2>1. Running \in Tasks /\ Running = strand[1] /\ 1 \in DOMAIN strand
    <3>1. strand \in Seq(Tasks)
      BY DEF TimerInv, StrandOK
    <3> QED
      BY <1>1, <3>1 DEF Running
  <2>2. o \in DOMAIN ut.objs
    BY <1>1, <2>1 DEF TimerInv, StrandOK
  <2>3. Running \in TimerTask
    BY <1>1, <2>1 DEF Tasks, StartTask, StopTask
  <2> QED
    BY <1>1, <2>2, <2>3 DEF TimerTask, Ends
<1>3. \/ ut' = AfterTask(ut, o, aborted)
      \/ \E key \in Keys : ut' = AfterTask(StopKey(ut, key), o, aborted)
      \/ \E order \in AbortOrders(ut) : ut' = AfterTask(StopAll(ut, order), o, aborted)
  BY DEF HandleUserTimers
<1> HIDE DEF aborted
<1>4. ASSUME NEW u, Sound(u), Keeps(ut, u), ut' = AfterTask(u, o, aborted)
      PROVE  TimerInv'
  <2>1. o \in DOMAIN u.objs
    BY <1>2, <1>4 DEF Keeps
  <2>2. /\ Sound(ut') /\ Keeps(u, ut')
        /\ \A k \in Keys : ut'.map[k] = o => Waits(ut', o)
    BY <1>2, <1>4, <2>1, AfterTaskSound
  <2>3. Keeps(ut, ut')
    BY <1>4, <2>2, KeepsTransitive
  <2>4. \A k \in Keys : ut'.map[k] # NoTimer =>
          Waits(ut', ut'.map[k]) \/ (ut'.map[k] = ut.map[k] /\ ut.map[k] # o)
    BY <2>2, <2>3 DEF Keeps
  <2> QED
    BY <1>1, <2>2, <2>3, <2>4, RanStep DEF Keeps
<1>5. CASE ut' = AfterTask(ut, o, aborted)
  <2>1. Sound(ut) /\ Keeps(ut, ut)
    BY DEF TimerInv, Keeps
  <2> QED
    BY <1>4, <1>5, <2>1
<1>6. ASSUME NEW key \in Keys, ut' = AfterTask(StopKey(ut, key), o, aborted)
      PROVE  TimerInv'
  <2>1. Sound(StopKey(ut, key)) /\ Keeps(ut, StopKey(ut, key))
    BY StopKeySound DEF TimerInv
  <2> QED
    BY <1>4, <1>6, <2>1
<1>7. ASSUME NEW order \in AbortOrders(ut), ut' = AfterTask(StopAll(ut, order), o, aborted)
      PROVE  TimerInv'
  <2> DEFINE u == StopAll(ut, order)
  <2>1. Sound(u) /\ DOMAIN u.objs = DOMAIN ut.objs /\ \A k \in Keys : u.map[k] = NoTimer
    BY StopAllSound DEF TimerInv
  <2> HIDE DEF u
  <2>2. Sound(ut') /\ Keeps(u, ut')
    BY <1>2, <1>7, <2>1, AfterTaskSound DEF u
  <2>3. DOMAIN ut'.objs = DOMAIN ut.objs /\ \A k \in Keys : ut'.map[k] = NoTimer
    BY <2>1, <2>2 DEF Keeps
  <2>4. StrandOK(ut', strand')
    BY <1>1, <2>3, RunStep
  <2> QED
    BY <2>2, <2>3, <2>4 DEF TimerInv, Armed
<1> QED
  BY <1>3, <1>5, <1>6, <1>7

LEMMA NextTimerInv ==
  ASSUME TimerInv, [Next]_vars
  PROVE  TimerInv'
<1>1. CASE UNCHANGED vars
  BY <1>1 DEF vars, TimerInv
<1>2. CASE Next
  BY <1>2, CallSteps, DeliverStep, StartStep, StopSteps, TimerStep, ExpireStep
     DEF Next, IoThreadStep
<1> QED
  BY <1>1, <1>2

LEMMA InitTimerInv == Init => TimerInv
<1> SUFFICES ASSUME Init
             PROVE  TimerInv
  OBVIOUS
<1>1. ut.map = [k \in Keys |-> NoTimer] /\ ut.objs = <<>> /\ ut.ready = <<>>
      /\ strand = <<>>
  BY DEF Init
<1>2. UtType(ut)
  <2>1. <<>> \in Seq(Obj) /\ <<>> \in Seq(Ends)
    OBVIOUS
  <2>2. ut = [map |-> [k \in Keys |-> NoTimer], objs |-> <<>>, ready |-> <<>>]
    BY DEF Init
  <2> QED
    BY <2>1, <2>2 DEF UtType
<1>3. Agree(ut)
  BY <1>1 DEF Agree
<1>4. strand \in Seq(Tasks)
  BY <1>1
<1> QED
  BY <1>1, <1>2, <1>3, <1>4 DEF TimerInv, Sound, StrandOK, Armed

-----------------------------------------------------------------------------
\* An object that is not in user_timers_ was told to exit: StartTimer, StopTimer,
\* StopAllTimers and HandleUserTimers leave no timer behind that goes on and that
\* StopTimer cannot find.
THEOREM NoTimerIsLost == Spec => []UnregisteredHasExited
<1>1. TimerInv /\ [Next]_vars => TimerInv'
  BY NextTimerInv
<1>2. TimerInv => UnregisteredHasExited
  BY DEF TimerInv, Sound, Agree, UnregisteredHasExited
<1> QED
  BY InitTimerInv, <1>1, <1>2, PTL DEF Spec

\* What Chains counts is there.
LEMMA PendingIsCounted ==
  ASSUME TimerInv, NEW o \in DOMAIN ut.objs, Waits(ut, o) \/ InTransit(strand, o)
  PROVE  Chains(o) > 0
<1> DEFINE R == {i \in DOMAIN ut.ready : ut.ready[i].obj = o}
           S == {i \in DOMAIN strand : strand[i].t = "timer" /\ strand[i].done.obj = o}
           w == IF ut.objs[o].waiting THEN 1 ELSE 0
<1>1. IsFiniteSet(R) /\ IsFiniteSet(S)
  <2>1. ut.ready \in Seq(Ends) /\ strand \in Seq(Tasks)
    BY DEF TimerInv, Sound, UtType, StrandOK
  <2>2. R \subseteq 1..Len(ut.ready) /\ S \subseteq 1..Len(strand)
        /\ Len(ut.ready) \in Nat /\ Len(strand) \in Nat
    BY <2>1
  <2> HIDE DEF R, S
  <2> QED
    <3>1. IsFiniteSet(1..Len(ut.ready)) /\ IsFiniteSet(1..Len(strand))
      BY <2>2, FS_Interval
    <3> QED
      BY <2>2, <3>1, FS_Subset
<1>2. Chains(o) = w + Cardinality(R) + Cardinality(S)
  BY DEF Chains
<1>3. w = 1 \/ R # {} \/ S # {}
  BY DEF Waits, InTransit
<1> HIDE DEF R, S
<1>4. Cardinality(R) \in Nat /\ Cardinality(S) \in Nat
      /\ (R # {} => Cardinality(R) # 0) /\ (S # {} => Cardinality(S) # 0)
  BY <1>1, FS_CardinalityType, FS_EmptySet
<1>5. w \in {0, 1}
  OBVIOUS
<1> HIDE DEF w
<1> QED
  BY <1>2, <1>3, <1>4, <1>5

\* Every timer in user_timers_ is alive: PostUserTimers has armed it, or the end
\* of its last wait is on its way to HandleUserTimers.
THEOREM RegisteredStaysArmed == Spec => []RegisteredIsArmed
<1>1. TimerInv /\ [Next]_vars => TimerInv'
  BY NextTimerInv
<1>2. TimerInv => RegisteredIsArmed
  <2> SUFFICES ASSUME TimerInv, NEW k \in Keys, ut.map[k] # NoTimer
               PROVE  /\ ~ut.objs[ut.map[k]].exited /\ ut.objs[ut.map[k]].key = k
                      /\ Chains(ut.map[k]) > 0
    BY DEF RegisteredIsArmed, Registered
  <2>1. ut.map[k] \in DOMAIN ut.objs /\ ~ut.objs[ut.map[k]].exited
        /\ ut.objs[ut.map[k]].key = k
    BY DEF TimerInv, Sound, Agree
  <2>2. Waits(ut, ut.map[k]) \/ InTransit(strand, ut.map[k])
    BY DEF TimerInv, Armed
  <2> QED
    BY <2>1, <2>2, PendingIsCounted
<1> QED
  BY InitTimerInv, <1>1, <1>2, PTL DEF Spec

-----------------------------------------------------------------------------
(* A timer that was started once runs its task at most cycle times: until  *)
(* it is started again there is at most one wait of it, or one end of a    *)
(* wait that is not handled yet, and only while there is one its task has  *)
(* runs left.                                                              *)

USE TimerAssumption

InReady(u, o) == \E i \in DOMAIN u.ready : u.ready[i].obj = o

OnceReady(u, o) ==
  \A i, j \in DOMAIN u.ready : u.ready[i].obj = o /\ u.ready[j].obj = o => i = j

OnceStrand(s, o) ==
  \A i, j \in DOMAIN s :
    s[i].t = "timer" /\ s[i].done.obj = o /\ s[j].t = "timer" /\ s[j].done.obj = o => i = j

\* The object is in one place at most ...
Once(u, s, o) ==
  /\ OnceReady(u, o) /\ OnceStrand(s, o)
  /\ u.objs[o].waiting => ~InReady(u, o)
  /\ (u.objs[o].waiting \/ InReady(u, o)) => ~InTransit(s, o)

\* ... and in one at least.
Pending(u, s, o) == u.objs[o].waiting \/ InReady(u, o) \/ InTransit(s, o)

Limit(cycle) == IF cycle < 1 THEN 1 ELSE cycle

HistRec == [cycle : Int, starts : Nat \ {0}, stops : Nat, runs : Nat]

HistOK(u, h) == h \in Seq(HistRec) /\ DOMAIN h = DOMAIN u.objs

Counts(u, s, h, o) ==
  h[o].cycle # Forever =>
    /\ u.objs[o].left # Forever
    /\ h[o].runs <= Limit(h[o].cycle)
    /\ Pending(u, s, o) => h[o].runs + Limit(u.objs[o].left) <= Limit(h[o].cycle)

Orderly(u, s, h, o) == h[o].starts = 1 => Once(u, s, o) /\ Counts(u, s, h, o)

CycleInv ==
  /\ TimerInv /\ HistOK(ut, hist)
  /\ \A o \in DOMAIN hist : Orderly(ut, strand, hist, o)

-----------------------------------------------------------------------------
(* Operations that arm nothing.                                            *)

TameFor(u, v, o) ==
  /\ v.objs[o].left = u.objs[o].left
  /\ v.objs[o].waiting => u.objs[o].waiting
  /\ InReady(v, o) => InReady(u, o) \/ (u.objs[o].waiting /\ ~v.objs[o].waiting)
  /\ OnceReady(u, o) /\ (u.objs[o].waiting => ~InReady(u, o)) => OnceReady(v, o)

Tame(u, v) ==
  DOMAIN v.objs = DOMAIN u.objs /\ \A o \in DOMAIN u.objs : TameFor(u, v, o)

LEMMA TameTransitive ==
  ASSUME NEW u, NEW v, NEW w, NEW o, TameFor(u, v, o), TameFor(v, w, o)
  PROVE  TameFor(u, w, o)
BY DEF TameFor

LEMMA TameOrderly ==
  ASSUME NEW u, NEW v, NEW s, NEW h, NEW g, NEW o, TameFor(u, v, o), Orderly(u, s, h, o),
         g[o].starts = 1 => h[o].starts = 1,
         g[o].cycle = h[o].cycle, g[o].runs = h[o].runs
  PROVE  Orderly(v, s, g, o)
BY DEF TameFor, Orderly, Once, Counts, Pending

\* The end of a wait takes the place of the wait.
LEMMA EndTame ==
  ASSUME NEW u, Sound(u), NEW o \in DOMAIN u.objs, NEW aborted \in BOOLEAN,
         NEW v, v = EndOfWait(u, o, aborted)
  PROVE  /\ DOMAIN v.objs = DOMAIN u.objs
         /\ \A p \in DOMAIN u.objs \ {o} : TameFor(u, v, p)
         /\ u.objs[o].waiting => TameFor(u, v, o)
<1> DEFINE w == WaitDone(o, aborted)
           r == Append(u.ready, w)
           x == [u.objs[o] EXCEPT !.waiting = FALSE]
           s == [u.objs EXCEPT ![o] = x]
           rec == [map |-> u.map, objs |-> s, ready |-> r]
<1>type. u.objs \in Seq(Obj) /\ u.ready \in Seq(Ends) /\ DOMAIN u.objs = 1..Len(u.objs)
         /\ o \in Nat /\ u.objs[o] \in Obj
  BY DEF Sound, UtType
<1>1. v = rec
  BY EndIs, Zenon
<1>2. w \in Ends /\ w.obj = o
  BY <1>type DEF WaitDone, Ends
<1>3. DOMAIN r = 1..(Len(u.ready) + 1) /\ Len(u.ready) \in Nat
      /\ DOMAIN u.ready = 1..Len(u.ready)
      /\ (\A i \in DOMAIN u.ready : r[i] = u.ready[i]) /\ r[Len(u.ready) + 1] = w
  BY <1>type, <1>2, EndsAppend
<1>4. ~x.waiting /\ x.left = u.objs[o].left
  BY <1>type DEF Obj
<1> HIDE DEF w, r, x
<1>5. DOMAIN s = DOMAIN u.objs /\ s[o] = x /\ \A p \in DOMAIN u.objs \ {o} : s[p] = u.objs[p]
  BY <1>type
<1> HIDE DEF s
<1>fields. v.objs = s /\ v.ready = r
  <2>1. rec.objs = s /\ rec.ready = r
    BY Zenon
  <2> HIDE DEF rec
  <2> QED
    BY <1>1, <2>1, Zenon
<1>6. ASSUME NEW p \in DOMAIN u.objs \ {o}
      PROVE  TameFor(u, v, p)
  <2>1. v.objs[p] = u.objs[p]
    BY <1>5, <1>fields
  <2>2. \A i \in DOMAIN v.ready : v.ready[i].obj = p => i \in DOMAIN u.ready /\ v.ready[i] = u.ready[i]
    BY <1>2, <1>3, <1>fields
  <2> QED
    BY <2>1, <2>2 DEF TameFor, InReady, OnceReady
<1>7. ASSUME u.objs[o].waiting
      PROVE  TameFor(u, v, o)
  <2>1. v.objs[o].left = u.objs[o].left /\ ~v.objs[o].waiting
    BY <1>4, <1>5, <1>fields
  <2>2. ASSUME ~InReady(u, o)
        PROVE  OnceReady(v, o)
    <3>1. \A i \in DOMAIN v.ready : v.ready[i].obj = o => i = Len(u.ready) + 1
      BY <1>3, <1>fields, <2>2 DEF InReady
    <3> QED
      BY <3>1 DEF OnceReady
  <2> QED
    BY <1>7, <2>1, <2>2 DEF TameFor
<1>8. DOMAIN v.objs = DOMAIN u.objs
  BY <1>5, <1>fields
<1> QED
  BY <1>6, <1>7, <1>8

LEMMA AbortTame ==
  ASSUME NEW u, Sound(u), NEW o \in DOMAIN u.objs
  PROVE  Tame(u, Abort(u, o))
<1>1. CASE ~u.objs[o].waiting
  BY <1>1 DEF Abort, Tame, TameFor
<1>2. CASE u.objs[o].waiting
  <2>1. Abort(u, o) = EndOfWait(u, o, TRUE)
    BY <1>2 DEF Abort, EndOfWait
  <2> QED
    BY <1>2, <2>1, EndTame DEF Tame
<1> QED
  BY <1>1, <1>2

LEMMA StopKeyTame ==
  ASSUME NEW u, Sound(u), NEW key \in Keys
  PROVE  Tame(u, StopKey(u, key))
<1>1. CASE u.map[key] = NoTimer
  BY <1>1 DEF StopKey, Tame, TameFor
<1>2. CASE u.map[key] # NoTimer
  <2> DEFINE o == u.map[key]
  <2>1. PICK v : /\ Sound(v) /\ Keeps(u, v) /\ v.ready = u.ready
                 /\ \A p \in DOMAIN u.objs : v.objs[p].left = u.objs[p].left
                                             /\ v.objs[p].waiting = u.objs[p].waiting
                 /\ o \in DOMAIN u.objs /\ StopKey(u, key) = Abort(v, o)
    BY <1>2, Erased
  <2> HIDE DEF o
  <2>2. Tame(v, Abort(v, o)) /\ DOMAIN v.objs = DOMAIN u.objs
    BY <2>1, AbortTame DEF Keeps
  <2>3. \A p \in DOMAIN u.objs : TameFor(u, v, p)
    BY <2>1 DEF TameFor, InReady, OnceReady
  <2>4. \A p \in DOMAIN u.objs : TameFor(u, Abort(v, o), p)
    BY <2>2, <2>3, TameTransitive DEF Tame
  <2> QED
    BY <2>1, <2>2, <2>4 DEF Tame
<1> QED
  BY <1>1, <1>2

LEMMA EndsConcat ==
  ASSUME NEW s \in Seq(Ends), NEW t \in Seq(Ends)
  PROVE  /\ Len(s) \in Nat /\ DOMAIN s = 1..Len(s)
         /\ DOMAIN (s \o t) = 1..(Len(s) + Len(t))
         /\ \A i \in 1..(Len(s) + Len(t)) :
              (s \o t)[i] = IF i <= Len(s) THEN s[i] ELSE t[i - Len(s)]
OBVIOUS

LEMMA StopAllTame ==
  ASSUME NEW u, Sound(u), NEW order \in AbortOrders(u)
  PROVE  Tame(u, StopAll(u, order))
<1> DEFINE waiting == {u.map[k] : k \in Registered(u)}
                        \cap {o \in DOMAIN u.objs : u.objs[o].waiting}
           n == Cardinality(waiting)
           w == [i \in DOMAIN order |-> WaitDone(order[i], TRUE)]
           r == u.ready \o w
           Gone(o) == \E k \in Keys : u.map[k] = o
           s == [o \in DOMAIN u.objs |->
                   IF Gone(o) THEN [u.objs[o] EXCEPT !.exited = TRUE, !.waiting = FALSE]
                   ELSE u.objs[o]]
           v == [map |-> [k \in Keys |-> NoTimer], objs |-> s, ready |-> r]
<1>type. u.objs \in Seq(Obj) /\ u.ready \in Seq(Ends) /\ DOMAIN u.objs = 1..Len(u.objs)
         /\ Len(u.objs) \in Nat
  BY DEF Sound, UtType
<1>1. n \in Nat
  <2>1. IsFiniteSet(1..Len(u.objs))
    BY <1>type, FS_Interval
  <2>2. waiting \subseteq 1..Len(u.objs)
    BY <1>type
  <2> HIDE DEF waiting
  <2> QED
    BY <2>1, <2>2, FS_Subset, FS_CardinalityType
<1>2. /\ DOMAIN order = 1..n /\ \A i \in 1..n : order[i] \in waiting
      /\ \A i, j \in 1..n : order[i] = order[j] => i = j
  BY DEF AbortOrders
<1>3. \A o \in waiting : o \in DOMAIN u.objs /\ u.objs[o].waiting /\ Gone(o)
  BY DEF Registered
<1> HIDE DEF n, waiting, Gone
<1>4. w \in Seq(Ends) /\ Len(w) = n /\ \A i \in 1..n : w[i].obj = order[i]
  <2>1. \A i \in 1..n : WaitDone(order[i], TRUE) \in Ends
    BY <1>type, <1>2, <1>3 DEF WaitDone, Ends
  <2>2. w = [i \in 1..n |-> WaitDone(order[i], TRUE)]
    BY <1>2
  <2> QED
    BY <1>1, <2>1, <2>2 DEF WaitDone
<1> HIDE DEF w
<1> DEFINE m == Len(u.ready)
<1>5. /\ m \in Nat /\ DOMAIN u.ready = 1..m /\ DOMAIN r = 1..(m + n)
      /\ \A i \in 1..m : r[i] = u.ready[i]
      /\ \A i \in (m + 1)..(m + n) : r[i] = w[i - m]
  <2>1. /\ m \in Nat /\ DOMAIN u.ready = 1..m /\ DOMAIN r = 1..(m + Len(w))
        /\ \A i \in 1..(m + Len(w)) : r[i] = IF i <= m THEN u.ready[i] ELSE w[i - m]
    BY <1>type, <1>4, EndsConcat
  <2> HIDE DEF r, m
  <2> QED
    BY <1>1, <1>4, <2>1
<1>6. /\ DOMAIN s = DOMAIN u.objs
      /\ \A o \in DOMAIN u.objs :
           /\ s[o].left = u.objs[o].left
           /\ s[o].waiting => u.objs[o].waiting
           /\ Gone(o) => ~s[o].waiting
  <2>1. \A o \in DOMAIN u.objs : u.objs[o] \in Obj
    BY <1>type
  <2>2. ASSUME NEW o \in DOMAIN u.objs, Gone(o)
        PROVE  s[o].left = u.objs[o].left /\ ~s[o].waiting
    <3>1. s[o] = [u.objs[o] EXCEPT !.exited = TRUE, !.waiting = FALSE]
      BY <2>2
    <3> QED
      BY <2>1, <3>1 DEF Obj
  <2>3. ASSUME NEW o \in DOMAIN u.objs, ~Gone(o)
        PROVE  s[o] = u.objs[o]
    BY <2>3
  <2> QED
    BY <2>2, <2>3
<1>7. StopAll(u, order) = v
  BY Zenon DEF StopAll, w, Gone
<1> HIDE DEF s, r, m
<1>8. v.objs = s /\ v.ready = r
  BY Zenon
<1> HIDE DEF v
<1>9. ASSUME NEW o \in DOMAIN u.objs
      PROVE  TameFor(u, v, o)
  <2>1. \A i \in DOMAIN r : r[i].obj = o =>
          \/ i \in 1..m /\ u.ready[i].obj = o
          \/ /\ i \in (m + 1)..(m + n) /\ order[i - m] = o
             /\ u.objs[o].waiting /\ ~s[o].waiting
    <3> SUFFICES ASSUME NEW i \in DOMAIN r, r[i].obj = o, i \notin 1..m
                 PROVE  /\ i \in (m + 1)..(m + n) /\ order[i - m] = o
                        /\ u.objs[o].waiting /\ ~s[o].waiting
      BY <1>5
    <3>1. i \in (m + 1)..(m + n) /\ i - m \in 1..n
      BY <1>1, <1>5
    <3>2. order[i - m] = o
      BY <1>4, <1>5, <3>1
    <3>3. o \in waiting
      BY <1>2, <3>1, <3>2
    <3> QED
      BY <1>3, <1>6, <3>1, <3>2, <3>3
  <2>2. InReady(v, o) => InReady(u, o) \/ (u.objs[o].waiting /\ ~v.objs[o].waiting)
    BY <1>5, <1>8, <2>1 DEF InReady
  <2>3. ASSUME OnceReady(u, o), u.objs[o].waiting => ~InReady(u, o)
        PROVE  OnceReady(v, o)
    <3> SUFFICES ASSUME NEW i \in DOMAIN r, NEW j \in DOMAIN r, r[i].obj = o, r[j].obj = o
                 PROVE  i = j
      BY <1>8 DEF OnceReady
    <3>1. CASE i \in 1..m /\ u.ready[i].obj = o
      <4>1. ~u.objs[o].waiting
        BY <1>5, <2>3, <3>1 DEF InReady
      <4>2. j \in 1..m /\ u.ready[j].obj = o
        BY <2>1, <4>1
      <4> QED
        BY <1>5, <2>3, <3>1, <4>2 DEF OnceReady
    <3>2. CASE i \in (m + 1)..(m + n) /\ order[i - m] = o /\ u.objs[o].waiting
      <4>1. ~InReady(u, o)
        BY <2>3, <3>2
      <4>2. j \in (m + 1)..(m + n) /\ order[j - m] = o
        BY <1>5, <2>1, <4>1 DEF InReady
      <4>3. i - m \in 1..n /\ j - m \in 1..n
        BY <1>1, <1>5, <3>2, <4>2
      <4>4. i - m = j - m
        BY <1>2, <3>2, <4>2, <4>3
      <4> QED
        BY <1>1, <1>5, <3>2, <4>2, <4>4
    <3> QED
      BY <2>1, <3>1, <3>2
  <2> QED
    BY <1>6, <1>8, <2>2, <2>3 DEF TameFor
<1> QED
  BY <1>6, <1>7, <1>8, <1>9 DEF Tame

\* PostUserTimers arms an object whose wait is over, if it has not exited.
LEMMA ArmTame ==
  ASSUME NEW u, Sound(u), NEW o \in DOMAIN u.objs, NEW v, v = Arm(u, o)
  PROVE  /\ DOMAIN v.objs = DOMAIN u.objs
         /\ \A p \in DOMAIN u.objs \ {o} : TameFor(u, v, p)
         /\ ~u.objs[o].waiting => v.ready = u.ready /\ v.objs[o].left = u.objs[o].left
<1>1. CASE u.objs[o].exited
  BY <1>1 DEF Arm, TameFor
<1>2. CASE ~u.objs[o].exited
  <2> DEFINE a == Abort(u, o)
             x == [a.objs[o] EXCEPT !.waiting = TRUE]
             b == [a EXCEPT !.objs[o] = x]
  <2>1. Sound(a) /\ Keeps(u, a) /\ Tame(u, a)
    BY AbortSound, AbortTame
  <2>2. ~u.objs[o].waiting => a = u
    BY DEF Abort
  <2>3. v = b
    BY <1>2 DEF Arm
  <2> HIDE DEF a
  <2>4. o \in DOMAIN a.objs
    BY <2>1 DEF Keeps
  <2>5. x \in Obj /\ x.key = a.objs[o].key /\ x.exited = a.objs[o].exited /\ x.waiting
        /\ x.left = a.objs[o].left
    <3>1. a.objs[o] \in Obj
      BY <2>1, <2>4 DEF Sound, UtType
    <3> QED
      BY <3>1 DEF Obj
  <2> HIDE DEF x
  <2>6. b = [a EXCEPT !.objs[o] = x]
    OBVIOUS
  <2> HIDE DEF b
  <2>7. /\ Keeps(a, b) /\ b.ready = a.ready
        /\ b.objs[o] = x /\ \A p \in DOMAIN a.objs \ {o} : b.objs[p] = a.objs[p]
    BY <2>1, <2>4, <2>5, <2>6, ObjectSound
  <2>8. DOMAIN b.objs = DOMAIN u.objs /\ DOMAIN a.objs = DOMAIN u.objs
    BY <2>1, <2>7 DEF Keeps
  <2>9. \A p \in DOMAIN u.objs \ {o} : TameFor(a, b, p)
    BY <2>7, <2>8 DEF TameFor, InReady, OnceReady
  <2>10. \A p \in DOMAIN u.objs \ {o} : TameFor(u, b, p)
    BY <2>1, <2>9, TameTransitive DEF Tame
  <2> QED
    BY <2>2, <2>3, <2>5, <2>7, <2>8, <2>10
<1> QED
  BY <1>1, <1>2

-----------------------------------------------------------------------------
(* The strand.                                                             *)

LEMMA PushOrderly ==
  ASSUME NEW u, NEW h, NEW o, NEW s \in Seq(Tasks), NEW x \in Tasks, x.t # "timer",
         Orderly(u, s, h, o)
  PROVE  Orderly(u, Append(s, x), h, o)
<1> DEFINE r == Append(s, x)
<1>1. /\ DOMAIN r = 1..(Len(s) + 1) /\ DOMAIN s = 1..Len(s) /\ Len(s) \in Nat
      /\ \A i \in DOMAIN s : r[i] = s[i]
      /\ r[Len(s) + 1] = x
  BY TasksAppend
<1> HIDE DEF r
<1>2. \A i \in DOMAIN r : r[i].t = "timer" => i \in DOMAIN s /\ r[i] = s[i]
  BY <1>1
<1>3. OnceStrand(s, o) => OnceStrand(r, o)
  BY <1>2 DEF OnceStrand
<1>4. InTransit(r, o) => InTransit(s, o)
  BY <1>2 DEF InTransit
<1> QED
  BY <1>3, <1>4 DEF Orderly, Once, Counts, Pending, r

LEMMA PopOrderly ==
  ASSUME NEW u, NEW h, NEW o, NEW s \in Seq(Tasks), s # <<>>, Orderly(u, s, h, o)
  PROVE  /\ Orderly(u, Tail(s), h, o)
         /\ Head(s).t = "timer" /\ Head(s).done.obj = o =>
              Pending(u, s, o) /\ (h[o].starts = 1 => ~Pending(u, Tail(s), o))
<1> DEFINE r == Tail(s)
<1>1. /\ Head(s) = s[1] /\ DOMAIN s = 1..Len(s) /\ Len(s) \in Nat
      /\ DOMAIN r = 1..(Len(s) - 1) /\ \A i \in DOMAIN r : r[i] = s[i + 1]
  BY TasksTail
<1>2. 1 \in DOMAIN s
  OBVIOUS
<1> HIDE DEF r
<1>3. \A i \in DOMAIN r : i + 1 \in DOMAIN s /\ r[i] = s[i + 1] /\ i + 1 # 1
  BY <1>1
<1>4. OnceStrand(s, o) => OnceStrand(r, o)
  <2> SUFFICES ASSUME OnceStrand(s, o), NEW i \in DOMAIN r, NEW j \in DOMAIN r,
                      r[i].t = "timer" /\ r[i].done.obj = o, r[j].t = "timer" /\ r[j].done.obj = o
               PROVE  i = j
    BY DEF OnceStrand
  <2>1. i + 1 = j + 1
    BY <1>3 DEF OnceStrand
  <2> QED
    BY <1>1, <2>1
<1>5. InTransit(r, o) => InTransit(s, o)
  BY <1>3 DEF InTransit
<1>6. Orderly(u, r, h, o)
  BY <1>4, <1>5 DEF Orderly, Once, Counts, Pending
<1>7. ASSUME Head(s).t = "timer", Head(s).done.obj = o
      PROVE  Pending(u, s, o) /\ (h[o].starts = 1 => ~Pending(u, r, o))
  <2>1. InTransit(s, o)
    BY <1>1, <1>2, <1>7 DEF InTransit
  <2>2. OnceStrand(s, o) => ~InTransit(r, o)
    BY <1>1, <1>2, <1>3, <1>7 DEF OnceStrand, InTransit
  <2> QED
    BY <2>1, <2>2 DEF Orderly, Once, Pending
<1> QED
  BY <1>6, <1>7 DEF r

LEMMA DeliverOrderly ==
  ASSUME CycleInv, Deliver
  PROVE  CycleInv'
<1> DEFINE e == Head(ut.ready)
           r == Tail(ut.ready)
           x == [t |-> "timer", done |-> e]
           s == Append(strand, x)
<1>type. ut.ready \in Seq(Ends) /\ ut.ready # <<>> /\ strand \in Seq(Tasks)
  BY DEF CycleInv, TimerInv, Sound, UtType, StrandOK, Deliver
<1>1. /\ e \in Ends /\ r \in Seq(Ends) /\ e = ut.ready[1]
      /\ DOMAIN ut.ready = 1..Len(ut.ready) /\ Len(ut.ready) \in Nat
      /\ DOMAIN r = 1..(Len(ut.ready) - 1)
      /\ \A i \in DOMAIN r : r[i] = ut.ready[i + 1]
  BY <1>type, EndsTail
<1>2. 1 \in DOMAIN ut.ready
  BY <1>type
<1>3. ut' = [map |-> ut.map, objs |-> ut.objs, ready |-> r] /\ strand' = s /\ hist' = hist
  BY DEF Deliver, CycleInv, TimerInv, Sound, UtType
<1> HIDE DEF r
<1>fields. ut'.map = ut.map /\ ut'.objs = ut.objs /\ ut'.ready = r
  BY <1>3
<1>4. x \in Tasks /\ x.t = "timer" /\ x.done = e
  BY <1>1 DEF Tasks, TimerTask
<1> HIDE DEF x, e
<1>5. /\ DOMAIN s = 1..(Len(strand) + 1) /\ DOMAIN strand = 1..Len(strand)
      /\ Len(strand) \in Nat
      /\ \A i \in DOMAIN strand : s[i] = strand[i]
      /\ s[Len(strand) + 1] = x
  BY <1>type, <1>4, TasksAppend
<1> HIDE DEF s
<1>6. \A i \in DOMAIN r : i + 1 \in DOMAIN ut.ready /\ r[i] = ut.ready[i + 1] /\ i + 1 # 1
  BY <1>1
<1>7. TimerInv'
  BY DeliverStep DEF CycleInv
<1>8. ASSUME NEW o \in DOMAIN hist
      PROVE  Orderly(ut', strand', hist', o)
  <2>1. Orderly(ut, strand, hist, o)
    BY <1>8 DEF CycleInv
  <2>2. OnceReady(ut, o) => OnceReady(ut', o)
    <3> SUFFICES ASSUME OnceReady(ut, o), NEW i \in DOMAIN r, NEW j \in DOMAIN r,
                        r[i].obj = o, r[j].obj = o
                 PROVE  i = j
      BY <1>fields DEF OnceReady
    <3>1. i + 1 = j + 1
      BY <1>6 DEF OnceReady
    <3> QED
      BY <1>1, <3>1
  <2>3. InReady(ut', o) => InReady(ut, o)
    BY <1>6, <1>fields DEF InReady
  <2>4. CASE e.obj # o
    <3>1. \A i \in DOMAIN s : s[i].t = "timer" /\ s[i].done.obj = o =>
            i \in DOMAIN strand /\ s[i] = strand[i]
      BY <1>4, <1>5, <2>4
    <3>2. OnceStrand(strand, o) => OnceStrand(s, o)
      BY <3>1 DEF OnceStrand
    <3>3. InTransit(s, o) => InTransit(strand, o)
      BY <3>1 DEF InTransit
    <3> QED
      BY <1>3, <1>fields, <2>1, <2>2, <2>3, <3>2, <3>3 DEF Orderly, Once, Counts, Pending
  <2>5. CASE e.obj = o
    <3>1. InReady(ut, o)
      BY <1>1, <1>2, <2>5 DEF InReady
    <3>2. OnceReady(ut, o) => ~InReady(ut', o)
      BY <1>1, <1>2, <1>6, <1>fields, <2>5 DEF OnceReady, InReady
    <3>3. ~InTransit(strand, o) => OnceStrand(s, o)
      <4> SUFFICES ASSUME ~InTransit(strand, o)
                   PROVE  \A i \in DOMAIN s : s[i].t = "timer" /\ s[i].done.obj = o
                                                => i = Len(strand) + 1
        BY DEF OnceStrand
      <4> QED
        BY <1>5 DEF InTransit
    <3> QED
      BY <1>3, <1>fields, <2>1, <2>2, <3>1, <3>2, <3>3 DEF Orderly, Once, Counts, Pending
  <2> QED
    BY <2>4, <2>5
<1>9. HistOK(ut', hist')
  BY <1>3, <1>fields DEF CycleInv, HistOK
<1> QED
  BY <1>3, <1>7, <1>8, <1>9 DEF CycleInv

-----------------------------------------------------------------------------
(* The other steps.                                                        *)

LEMMA CallOrderly ==
  ASSUME CycleInv,
         \/ \E key \in Keys, cycle \in Cycles : CallStart(key, cycle)
         \/ \E key \in Keys : CallStop(key)
         \/ CallStopAll
  PROVE  CycleInv'
<1>1. PICK x \in Tasks : /\ strand' = Append(strand, x) /\ x.t # "timer"
                         /\ ut' = ut /\ hist' = hist
  <2>1. CASE \E key \in Keys, cycle \in Cycles : CallStart(key, cycle)
    <3>1. PICK key \in Keys, cycle \in Cycles : CallStart(key, cycle)
      BY <2>1
    <3>2. [t |-> "start", key |-> key, cycle |-> cycle] \in Tasks
      BY DEF Tasks, StartTask
    <3> QED
      BY <3>1, <3>2 DEF CallStart
  <2>2. CASE \E key \in Keys : CallStop(key)
    <3>1. PICK key \in Keys : CallStop(key)
      BY <2>2
    <3>2. [t |-> "stop", key |-> key] \in Tasks
      BY DEF Tasks, StopTask
    <3> QED
      BY <3>1, <3>2 DEF CallStop
  <2>3. CASE CallStopAll
    <3>1. [t |-> "stopAll"] \in Tasks
      BY DEF Tasks, StopTask
    <3> QED
      BY <2>3, <3>1 DEF CallStopAll
  <2> QED
    BY <2>1, <2>2, <2>3
<1>2. TimerInv'
  BY CallSteps DEF CycleInv
<1>3. strand \in Seq(Tasks)
  BY DEF CycleInv, TimerInv, StrandOK
<1>4. \A o \in DOMAIN hist : Orderly(ut', strand', hist', o)
  BY <1>1, <1>3, PushOrderly DEF CycleInv
<1> QED
  BY <1>1, <1>2, <1>4 DEF CycleInv

LEMMA ExpireOrderly ==
  ASSUME CycleInv, NEW o \in 1..MaxStarts, Expire(o)
  PROVE  CycleInv'
<1>1. /\ ut' = EndOfWait(ut, o, FALSE) /\ o \in DOMAIN ut.objs /\ ut.objs[o].waiting
      /\ strand' = strand /\ hist' = hist
  BY DEF Expire, EndOfWait
<1>2. Sound(ut)
  BY DEF CycleInv, TimerInv
<1>3. Tame(ut, ut')
  BY <1>1, <1>2, EndTame DEF Tame
<1>4. TimerInv'
  BY ExpireStep DEF CycleInv
<1>5. ASSUME NEW p \in DOMAIN hist
      PROVE  Orderly(ut', strand', hist', p)
  BY <1>1, <1>3, TameOrderly DEF CycleInv, HistOK, Tame
<1>6. HistOK(ut', hist')
  BY <1>1, <1>3 DEF CycleInv, HistOK, Tame
<1> QED
  BY <1>1, <1>4, <1>5, <1>6 DEF CycleInv

LEMMA HistFacts ==
  ASSUME CycleInv
  PROVE  /\ hist \in Seq(HistRec) /\ DOMAIN hist = DOMAIN ut.objs
         /\ DOMAIN hist = 1..Len(hist) /\ Len(hist) \in Nat /\ Len(ut.objs) = Len(hist)
         /\ \A o \in DOMAIN hist : hist[o] \in HistRec
<1>1. hist \in Seq(HistRec) /\ DOMAIN hist = DOMAIN ut.objs /\ ut.objs \in Seq(Obj)
  BY DEF CycleInv, HistOK, TimerInv, Sound, UtType
<1>2. DOMAIN hist = 1..Len(hist) /\ DOMAIN ut.objs = 1..Len(ut.objs)
      /\ Len(hist) \in Nat /\ Len(ut.objs) \in Nat
  BY <1>1
<1>3. Len(ut.objs) = Len(hist)
  <2> DEFINE a == Len(ut.objs)
             b == Len(hist)
  <2>1. a \in Nat /\ b \in Nat /\ 1..a = 1..b
    BY <1>1, <1>2
  <2> HIDE DEF a, b
  <2>2. ~(a < b)
    <3>1. a < b => b \in 1..b /\ b \notin 1..a
      BY <2>1
    <3> QED
      BY <2>1, <3>1
  <2>3. ~(b < a)
    <3>1. b < a => a \in 1..a /\ a \notin 1..b
      BY <2>1
    <3> QED
      BY <2>1, <3>1
  <2> QED
    BY <2>1, <2>2, <2>3 DEF a, b
<1> QED
  BY <1>1, <1>2, <1>3

\* A task of the strand is taken from it.
LEMMA PopFacts ==
  ASSUME CycleInv, strand # <<>>
  PROVE  /\ strand \in Seq(Tasks) /\ Running \in Tasks /\ Running = Head(strand)
         /\ \A o \in DOMAIN hist : Orderly(ut, Tail(strand), hist, o)
<1>1. strand \in Seq(Tasks)
  BY DEF CycleInv, TimerInv, StrandOK
<1>2. \A o \in DOMAIN hist : Orderly(ut, Tail(strand), hist, o)
  BY <1>1, PopOrderly DEF CycleInv
<1> QED
  BY <1>1, <1>2, TasksTail DEF Running

LEMMA CountStopsFacts ==
  ASSUME CycleInv, NEW keys, NEW g, g = CountStops(keys)
  PROVE  /\ g \in Seq(HistRec) /\ DOMAIN g = DOMAIN hist
         /\ \A o \in DOMAIN hist : /\ g[o].cycle = hist[o].cycle /\ g[o].runs = hist[o].runs
                                   /\ g[o].starts = hist[o].starts
<1>1. hist \in Seq(HistRec) /\ DOMAIN hist = 1..Len(hist) /\ Len(hist) \in Nat
      /\ \A o \in DOMAIN hist : hist[o] \in HistRec
  BY HistFacts
<1>2. DOMAIN g = DOMAIN hist
  BY DEF CountStops
<1>3. ASSUME NEW o \in DOMAIN hist
      PROVE  /\ g[o] \in HistRec
             /\ g[o].cycle = hist[o].cycle /\ g[o].runs = hist[o].runs
             /\ g[o].starts = hist[o].starts
  <2>1. g[o] \in {hist[o], [hist[o] EXCEPT !.stops = @ + 1]}
    BY DEF CountStops
  <2>2. hist[o] \in HistRec
    BY <1>1
  <2> QED
    BY <2>1, <2>2 DEF HistRec
<1>4. g \in [1..Len(hist) -> HistRec]
  <2>1. g = [o \in 1..Len(hist) |-> g[o]]
    BY <1>1 DEF CountStops
  <2> QED
    BY <1>1, <1>3, <2>1
<1>5. g \in Seq(HistRec)
  BY <1>1, <1>4
<1> QED
  BY <1>2, <1>3, <1>5

LEMMA StopOrderly ==
  ASSUME CycleInv, HandleStop \/ HandleStopAll
  PROVE  CycleInv'
<1>1. strand # <<>> /\ strand' = Tail(strand)
  BY DEF HandleStop, HandleStopAll, OnStrand
<1>2. Sound(ut)
  BY DEF CycleInv, TimerInv
<1>3. Tame(ut, ut')
  <2>1. CASE HandleStop
    <3>1. Running.key \in Keys
      BY <1>1, <2>1, PopFacts DEF HandleStop, OnStrand, Tasks, StartTask, StopTask, TimerTask
    <3> QED
      BY <1>2, <2>1, <3>1, StopKeyTame DEF HandleStop
  <2>2. CASE HandleStopAll
    BY <1>2, <2>2, StopAllTame DEF HandleStopAll
  <2> QED
    BY <2>1, <2>2
<1>4. PICK keys : hist' = CountStops(keys)
  BY DEF HandleStop, HandleStopAll
<1>5. /\ hist' \in Seq(HistRec) /\ DOMAIN hist' = DOMAIN hist
      /\ \A o \in DOMAIN hist : /\ hist'[o].cycle = hist[o].cycle
                                /\ hist'[o].runs = hist[o].runs
                                /\ hist'[o].starts = hist[o].starts
  BY <1>4, CountStopsFacts
<1>6. TimerInv'
  BY StopSteps DEF CycleInv
<1>7. HistOK(ut', hist')
  BY <1>3, <1>5, HistFacts DEF HistOK, Tame
<1>8. ASSUME NEW o \in DOMAIN hist
      PROVE  Orderly(ut', strand', hist', o)
  <2>1. Orderly(ut, strand', hist, o) /\ TameFor(ut, ut', o)
    BY <1>1, <1>3, PopFacts, HistFacts DEF Tame
  <2> QED
    BY <1>5, <2>1, TameOrderly
<1> QED
  BY <1>5, <1>6, <1>7, <1>8 DEF CycleInv

LEMMA StartOrderly ==
  ASSUME CycleInv, HandleStart
  PROVE  CycleInv'
<1>1. strand # <<>> /\ strand' = Tail(strand) /\ Running.t = "start"
  BY DEF HandleStart, OnStrand
<1>2. Running.key \in Keys /\ Running.cycle \in Int
  BY <1>1, PopFacts DEF Tasks, StartTask, StopTask, TimerTask
<1>3. Sound(ut) /\ TimerInv'
  BY StartStep DEF CycleInv, TimerInv
<1> DEFINE old == ut.map[Running.key]
           new == Len(ut.objs) + 1
           v == MakeTimer(ut, Running.key, Running.cycle)
<1>4. CASE old # NoTimer
  <2>1. /\ ut' = Arm(ut, old) /\ old \in DOMAIN ut.objs
        /\ hist' = [hist EXCEPT ![old].starts = @ + 1]
    BY <1>2, <1>3, <1>4 DEF HandleStart, Sound, Agree
  <2> HIDE DEF old
  <2>2. /\ DOMAIN ut'.objs = DOMAIN ut.objs
        /\ \A p \in DOMAIN ut.objs \ {old} : TameFor(ut, ut', p)
    BY <1>3, <2>1, ArmTame
  <2>3. hist' \in Seq(HistRec) /\ DOMAIN hist' = DOMAIN hist /\ hist'[old].starts # 1
        /\ \A p \in DOMAIN hist \ {old} : hist'[p] = hist[p]
    <3>1. hist[old] \in HistRec /\ old \in DOMAIN hist
      BY <2>1, HistFacts
    <3> DEFINE x == [hist[old] EXCEPT !.starts = @ + 1]
    <3>2. x \in HistRec /\ x.starts # 1
      BY <3>1 DEF HistRec
    <3>3. hist' = [hist EXCEPT ![old] = x]
      BY <2>1
    <3> HIDE DEF x
    <3> QED
      BY <3>1, <3>2, <3>3, HistFacts
  <2>4. HistOK(ut', hist')
    BY <2>2, <2>3, HistFacts DEF HistOK
  <2>5. ASSUME NEW p \in DOMAIN hist
        PROVE  Orderly(ut', strand', hist', p)
    <3>1. CASE p = old
      BY <2>3, <3>1 DEF Orderly
    <3>2. CASE p # old
      <4>1. Orderly(ut, strand', hist, p) /\ TameFor(ut, ut', p)
        BY <1>1, <2>2, <3>2, PopFacts, HistFacts
      <4> QED
        BY <2>3, <3>2, <4>1, TameOrderly
    <3> QED
      BY <3>1, <3>2
  <2> QED
    BY <1>3, <2>3, <2>4, <2>5 DEF CycleInv
<1>5. CASE old = NoTimer
  <2> DEFINE h == [cycle |-> Running.cycle, starts |-> 1, stops |-> 0, runs |-> 0]
  <2>1. ut' = Arm(v, new) /\ hist' = Append(hist, h)
    BY <1>5 DEF HandleStart, MakeTimer
  <2>2. /\ Sound(v) /\ new \in DOMAIN v.objs /\ v.ready = ut.ready
        /\ v.objs[new] = Object(Running.key, Running.cycle) /\ DOMAIN v.objs = 1..new
        /\ \A o \in DOMAIN ut.objs : v.objs[o] = ut.objs[o]
    <3> HIDE DEF v, new, old
    <3>1. ut.map[Running.key] = NoTimer
      BY <1>5 DEF old
    <3>2. new = Len(ut.objs) + 1
      BY DEF new
    <3>3. v = MakeTimer(ut, Running.key, Running.cycle)
      BY DEF v
    <3> QED
      BY <1>2, <1>3, <3>1, <3>2, <3>3, NewSound
  <2>3. new = Len(hist) + 1 /\ new \notin DOMAIN ut.objs /\ new \notin DOMAIN hist
    BY HistFacts
  <2> HIDE DEF v, new
  <2>4. /\ DOMAIN ut'.objs = 1..new
        /\ \A p \in 1..new \ {new} : TameFor(v, ut', p)
        /\ ut'.ready = ut.ready /\ ut'.objs[new].left = Running.cycle
    <3>1. ~v.objs[new].waiting /\ v.objs[new].left = Running.cycle
      BY <2>2 DEF Object
    <3> QED
      BY <2>1, <2>2, <3>1, ArmTame
  <2>5. /\ hist' \in Seq(HistRec) /\ DOMAIN hist' = 1..new /\ hist'[new] = h
        /\ \A p \in DOMAIN hist : hist'[p] = hist[p]
    <3>1. h \in HistRec
      BY <1>2 DEF HistRec
    <3> HIDE DEF h
    <3> QED
      BY <2>1, <2>3, <3>1, HistFacts
  <2>6. HistOK(ut', hist')
    BY <2>4, <2>5 DEF HistOK
  <2>7. ASSUME NEW p \in DOMAIN hist
        PROVE  Orderly(ut', strand', hist', p)
    <3>1. p \in 1..new \ {new} /\ p \in DOMAIN ut.objs
      BY <2>3, HistFacts
    <3>2. TameFor(ut, v, p)
      BY <2>2, <3>1 DEF TameFor, InReady, OnceReady
    <3>3. TameFor(ut, ut', p)
      BY <2>4, <3>1, <3>2, TameTransitive
    <3>4. Orderly(ut, strand', hist, p)
      BY <1>1, PopFacts
    <3> QED
      BY <2>5, <3>3, <3>4, TameOrderly
  <2>8. Orderly(ut', strand', hist', new)
    <3>1. ~InReady(ut', new) /\ OnceReady(ut', new)
      BY <1>3, <2>3, <2>4 DEF Sound, Agree, InReady, OnceReady
    <3>2. ~InTransit(strand', new) /\ OnceStrand(strand', new)
      <4>1. StrandOK(ut, strand')
        <5>1. \A i \in DOMAIN strand' : i + 1 \in DOMAIN strand /\ strand'[i] = strand[i + 1]
          BY <1>1, PopFacts, TasksTail
        <5>2. strand' \in Seq(Tasks)
          BY <1>1, PopFacts, TasksTail
        <5> QED
          BY <5>1, <5>2 DEF StrandOK, CycleInv, TimerInv
      <4> QED
        BY <2>3, <4>1 DEF StrandOK, InTransit, OnceStrand
    <3>3. hist'[new].runs = 0 /\ hist'[new].cycle = Running.cycle
      BY <2>5
    <3>4. Limit(Running.cycle) \in Nat \ {0}
      BY <1>2 DEF Limit
    <3> HIDE DEF h
    <3> QED
      BY <2>4, <3>1, <3>2, <3>3, <3>4 DEF Orderly, Once, Counts, Pending
  <2>9. \A p \in DOMAIN hist' : p \in DOMAIN hist \/ p = new
    BY <2>3, <2>5, HistFacts
  <2> QED
    BY <1>3, <2>6, <2>7, <2>8, <2>9 DEF CycleInv
<1> QED
  BY <1>4, <1>5

-----------------------------------------------------------------------------
(* HandleUserTimers.                                                       *)

\* A task has run, in the state u that the calls it made have left.
LEMMA AfterTaskOthers ==
  ASSUME NEW u, Sound(u), NEW o \in DOMAIN u.objs, NEW aborted, NEW v, v = AfterTask(u, o, aborted)
  PROVE  /\ DOMAIN v.objs = DOMAIN u.objs
         /\ \A p \in DOMAIN u.objs \ {o} : TameFor(u, v, p)
<1>type. u.objs[o] \in Obj
  BY DEF Sound, UtType
<1>key. u.objs[o].key \in Keys /\ u.objs[o].left \in Int
  BY <1>type DEF Obj
<1>1. CASE aborted \/ LastCycle(u.objs[o].left)
  <2>1. v = StopKey(u, u.objs[o].key)
    BY <1>1 DEF AfterTask
  <2> QED
    BY <1>key, <2>1, StopKeyTame DEF Tame
<1>2. CASE ~(aborted \/ LastCycle(u.objs[o].left))
  <2> DEFINE x == [u.objs[o] EXCEPT !.left = CountDown(@)]
             c == [u EXCEPT !.objs[o] = x]
  <2>1. v = Arm(c, o)
    BY <1>2 DEF AfterTask
  <2>2. x \in Obj /\ x.key = u.objs[o].key /\ x.exited = u.objs[o].exited
        /\ x.waiting = u.objs[o].waiting
    <3>1. CountDown(u.objs[o].left) \in Int
      BY <1>key DEF CountDown
    <3> QED
      BY <1>type, <3>1 DEF Obj
  <2> HIDE DEF x
  <2>3. /\ Sound(c) /\ Keeps(u, c) /\ c.ready = u.ready
        /\ \A p \in DOMAIN u.objs \ {o} : c.objs[p] = u.objs[p]
    <3> HIDE DEF c
    <3>1. c = [u EXCEPT !.objs[o] = x]
      BY DEF c
    <3> QED
      BY <2>2, <3>1, ObjectSound
  <2> HIDE DEF c
  <2>4. DOMAIN c.objs = DOMAIN u.objs
    BY <2>3 DEF Keeps
  <2>5. /\ DOMAIN v.objs = DOMAIN c.objs
        /\ \A p \in DOMAIN c.objs \ {o} : TameFor(c, v, p)
    BY <2>1, <2>3, <2>4, ArmTame
  <2>6. \A p \in DOMAIN u.objs \ {o} : TameFor(u, c, p)
    BY <2>3 DEF TameFor, InReady, OnceReady
  <2> QED
    BY <2>4, <2>5, <2>6, TameTransitive
<1> QED
  BY <1>1, <1>2

LEMMA AfterTaskOrderly ==
  ASSUME NEW u, Sound(u), NEW o \in DOMAIN u.objs, NEW aborted, NEW s, NEW v,
         v = AfterTask(u, o, aborted), ~Pending(u, s, o), OnceStrand(s, o)
  PROVE  /\ Once(v, s, o)
         /\ \/ v.objs[o].left = u.objs[o].left /\ ~Pending(v, s, o)
            \/ /\ u.objs[o].left = Forever \/ u.objs[o].left > 1
               /\ v.objs[o].left = CountDown(u.objs[o].left)
<1>type. u.objs[o] \in Obj
  BY DEF Sound, UtType
<1>key. u.objs[o].key \in Keys /\ u.objs[o].left \in Int
  BY <1>type DEF Obj
<1>1. CASE aborted \/ LastCycle(u.objs[o].left)
  <2>1. v = StopKey(u, u.objs[o].key)
    BY <1>1 DEF AfterTask
  <2>2. Tame(u, v)
    BY <1>key, <2>1, StopKeyTame
  <2>3. ~Pending(v, s, o) /\ v.objs[o].left = u.objs[o].left
    BY <2>2 DEF Tame, TameFor, Pending
  <2>4. OnceReady(v, o)
    BY <2>3 DEF Pending, InReady, OnceReady
  <2> QED
    BY <2>2, <2>3, <2>4 DEF Tame, Once, Pending
<1>2. CASE ~(aborted \/ LastCycle(u.objs[o].left))
  <2> DEFINE x == [u.objs[o] EXCEPT !.left = CountDown(@)]
             c == [u EXCEPT !.objs[o] = x]
  <2>1. v = Arm(c, o)
    BY <1>2 DEF AfterTask
  <2>2. x \in Obj /\ x.key = u.objs[o].key /\ x.exited = u.objs[o].exited
        /\ x.waiting = u.objs[o].waiting /\ x.left = CountDown(u.objs[o].left)
    <3>1. CountDown(u.objs[o].left) \in Int
      BY <1>key DEF CountDown
    <3> QED
      BY <1>type, <3>1 DEF Obj
  <2> HIDE DEF x
  <2>3. /\ Sound(c) /\ Keeps(u, c) /\ c.ready = u.ready /\ c.objs[o] = x
        /\ \A p \in DOMAIN u.objs \ {o} : c.objs[p] = u.objs[p]
    <3> HIDE DEF c
    <3>1. c = [u EXCEPT !.objs[o] = x]
      BY DEF c
    <3> QED
      BY <2>2, <3>1, ObjectSound
  <2> HIDE DEF c
  <2>4. DOMAIN c.objs = DOMAIN u.objs
    BY <2>3 DEF Keeps
  <2>5. ~u.objs[o].waiting /\ ~InReady(u, o) /\ ~InTransit(s, o)
    BY DEF Pending
  <2>6. /\ DOMAIN v.objs = DOMAIN c.objs
        /\ \A p \in DOMAIN c.objs \ {o} : TameFor(c, v, p)
        /\ v.ready = c.ready /\ v.objs[o].left = c.objs[o].left
    BY <2>1, <2>2, <2>3, <2>4, <2>5, ArmTame
  <2>8. ~InReady(v, o) /\ OnceReady(v, o)
    BY <2>3, <2>5, <2>6 DEF InReady, OnceReady
  <2>9. u.objs[o].left = Forever \/ u.objs[o].left > 1
    BY <1>2, <1>key DEF LastCycle
  <2>10. v.objs[o].left = CountDown(u.objs[o].left)
    BY <2>2, <2>3, <2>6
  <2>11. Once(v, s, o)
    BY <2>5, <2>8 DEF Once
  <2> QED
    BY <2>9, <2>10, <2>11
<1> QED
  BY <1>1, <1>2

LEMMA RanOrderly ==
  ASSUME CycleInv, HandleUserTimers,
         NEW u, Sound(u), Tame(ut, u),
         NEW g \in Seq(HistRec), DOMAIN g = DOMAIN hist,
         \A p \in DOMAIN hist : /\ g[p].cycle = hist[p].cycle /\ g[p].runs = hist[p].runs
                                /\ g[p].starts = hist[p].starts,
         ut' = AfterTask(u, Running.done.obj, Running.done.aborted),
         hist' = CountRun(g, Running.done.obj)
  PROVE  CycleInv'
<1> DEFINE o == Running.done.obj
<1>1. strand # <<>> /\ strand' = Tail(strand) /\ Running.t = "timer"
  BY DEF HandleUserTimers, OnStrand
<1>2. /\ DOMAIN u.objs = DOMAIN hist /\ DOMAIN ut.objs = DOMAIN hist
      /\ strand \in Seq(Tasks) /\ Running = Head(strand)
      /\ \A p \in DOMAIN hist : Orderly(ut, strand', hist, p) /\ TameFor(ut, u, p)
  BY <1>1, PopFacts, HistFacts DEF Tame
<1>3. o \in DOMAIN hist
  <2>1. Running = strand[1] /\ 1 \in DOMAIN strand
    BY <1>1, <1>2
  <2> QED
    BY <1>1, <1>2, <2>1 DEF CycleInv, TimerInv, StrandOK
<1>4. \A p \in DOMAIN hist : Orderly(u, strand', g, p)
  BY <1>2, TameOrderly
<1>5. hist[o].starts = 1 => /\ Pending(ut, strand, o) /\ ~Pending(ut, strand', o)
                            /\ ~Pending(u, strand', o)
  <2>1. Orderly(ut, strand, hist, o)
    BY <1>3 DEF CycleInv
  <2>2. hist[o].starts = 1 => Pending(ut, strand, o) /\ ~Pending(ut, strand', o)
    BY <1>1, <1>2, <2>1, PopOrderly
  <2>3. ~Pending(ut, strand', o) => ~Pending(u, strand', o)
    BY <1>2, <1>3 DEF Pending, TameFor
  <2> QED
    BY <2>2, <2>3
<1> DEFINE n == IF g[o].runs < RunCap THEN g[o].runs + 1 ELSE g[o].runs
           x == [g[o] EXCEPT !.runs = n]
<1>6. g[o] \in HistRec /\ o \in DOMAIN g
  <2>1. o \in DOMAIN g
    BY <1>3
  <2> QED
    BY <2>1
<1>7. /\ x \in HistRec /\ x.cycle = g[o].cycle /\ x.starts = g[o].starts
      /\ x.runs \in {g[o].runs, g[o].runs + 1} /\ g[o].runs \in Nat /\ g[o].cycle \in Int
  <2>1. g[o].runs \in Nat /\ g[o].cycle \in Int
    BY <1>6 DEF HistRec
  <2>2. n \in Nat /\ n \in {g[o].runs, g[o].runs + 1}
    BY <2>1
  <2> HIDE DEF n
  <2>3. x \in HistRec /\ x.cycle = g[o].cycle /\ x.starts = g[o].starts /\ x.runs = n
    BY <1>6, <2>2 DEF HistRec
  <2> QED
    BY <2>1, <2>2, <2>3
<1>8. hist' = [g EXCEPT ![o] = x]
  BY DEF CountRun
<1> HIDE DEF x
<1>9. /\ hist' \in Seq(HistRec) /\ DOMAIN hist' = DOMAIN hist /\ hist'[o] = x
      /\ \A p \in DOMAIN hist \ {o} : hist'[p] = g[p]
  BY <1>3, <1>7, <1>8
<1>10. TimerInv'
  BY TimerStep DEF CycleInv
<1>ran. ut' = AfterTask(u, o, Running.done.aborted)
  OBVIOUS
<1> HIDE DEF o
<1>others. /\ DOMAIN ut'.objs = DOMAIN u.objs
           /\ \A p \in DOMAIN u.objs \ {o} : TameFor(u, ut', p)
  BY <1>2, <1>3, <1>ran, AfterTaskOthers
<1>11. CASE hist[o].starts # 1
  <2>2. ASSUME NEW p \in DOMAIN hist
        PROVE  Orderly(ut', strand', hist', p)
    <3>1. CASE p = o
      BY <1>3, <1>7, <1>9, <1>11, <3>1 DEF Orderly
    <3>2. CASE p # o
      BY <1>2, <1>4, <1>9, <1>others, <3>2, TameOrderly
    <3> QED
      BY <3>1, <3>2
  <2>3. HistOK(ut', hist')
    BY <1>2, <1>9, <1>others DEF HistOK
  <2> QED
    BY <1>9, <1>10, <2>2, <2>3 DEF CycleInv
<1>12. CASE hist[o].starts = 1
  <2>1. Orderly(ut, strand, hist, o) /\ Orderly(u, strand', g, o) /\ g[o].starts = 1
    BY <1>3, <1>4, <1>12 DEF CycleInv
  <2>2. OnceStrand(strand', o)
    BY <2>1 DEF Orderly, Once
  <2>3. /\ Once(ut', strand', o)
        /\ \/ ut'.objs[o].left = u.objs[o].left /\ ~Pending(ut', strand', o)
           \/ /\ u.objs[o].left = Forever \/ u.objs[o].left > 1
              /\ ut'.objs[o].left = CountDown(u.objs[o].left)
    <3>1. o \in DOMAIN u.objs /\ ~Pending(u, strand', o)
      BY <1>2, <1>3, <1>5, <1>12
    <3> QED
      BY <1>ran, <2>2, <3>1, AfterTaskOrderly
  <2>4. ASSUME g[o].cycle # Forever
        PROVE  /\ u.objs[o].left # Forever /\ u.objs[o].left \in Int
               /\ g[o].runs + Limit(u.objs[o].left) <= Limit(g[o].cycle)
    <3>1. u.objs[o].left = ut.objs[o].left
      BY <1>2, <1>3 DEF TameFor
    <3>2. u.objs[o].left \in Int
      <4>1. u.objs[o] \in Obj
        BY <1>2, <1>3 DEF Sound, UtType
      <4> QED
        BY <4>1 DEF Obj
    <3> QED
      BY <1>3, <1>5, <1>12, <2>1, <2>4, <3>1, <3>2 DEF Orderly, Counts
  <2>5. Counts(ut', strand', hist', o)
    <3> SUFFICES ASSUME g[o].cycle # Forever
                 PROVE  /\ ut'.objs[o].left # Forever
                        /\ x.runs <= Limit(g[o].cycle)
                        /\ Pending(ut', strand', o) =>
                             x.runs + Limit(ut'.objs[o].left) <= Limit(g[o].cycle)
      BY <1>7, <1>9 DEF Counts
    <3> DEFINE l == u.objs[o].left
    <3>1. /\ l # Forever /\ l \in Int /\ g[o].runs + Limit(l) <= Limit(g[o].cycle)
          /\ Limit(l) \in Int /\ Limit(l) >= 1 /\ Limit(g[o].cycle) \in Int
      BY <1>7, <2>4 DEF Limit
    <3>2. CASE ut'.objs[o].left = l /\ ~Pending(ut', strand', o)
      BY <1>7, <3>1, <3>2
    <3>3. CASE l > 1 /\ ut'.objs[o].left = CountDown(l)
      <4>1. ut'.objs[o].left = l - 1 /\ Limit(l - 1) = l - 1 /\ Limit(l) = l
        BY <3>1, <3>3 DEF CountDown, Limit
      <4>2. l - 1 # Forever
        BY <3>1, <3>3 DEF Forever
      <4> HIDE DEF l
      <4> QED
        BY <1>7, <3>1, <4>1, <4>2
    <3> QED
      BY <2>3, <3>1, <3>2, <3>3
  <2>6. ASSUME NEW p \in DOMAIN hist
        PROVE  Orderly(ut', strand', hist', p)
    <3>1. CASE p = o
      BY <2>3, <2>5, <3>1 DEF Orderly
    <3>2. CASE p # o
      BY <1>2, <1>4, <1>9, <1>others, <3>2, TameOrderly
    <3> QED
      BY <3>1, <3>2
  <2>7. HistOK(ut', hist')
    BY <1>2, <1>9, <1>others DEF HistOK
  <2> QED
    BY <1>9, <1>10, <2>6, <2>7 DEF CycleInv
<1> QED
  BY <1>11, <1>12

\* The task has run, and may have stopped timers before HandleUserTimers goes on.
LEMMA TimerOrderly ==
  ASSUME CycleInv, HandleUserTimers
  PROVE  CycleInv'
<1> DEFINE o == Running.done.obj
           aborted == Running.done.aborted
<1>1. /\ Sound(ut) /\ Tame(ut, ut)
      /\ hist \in Seq(HistRec)
  BY HistFacts DEF CycleInv, TimerInv, Tame, TameFor
<1>2. \/ ut' = AfterTask(ut, o, aborted) /\ hist' = CountRun(hist, o)
      \/ \E key \in Keys : /\ ut' = AfterTask(StopKey(ut, key), o, aborted)
                           /\ hist' = CountRun(CountStops({key}), o)
      \/ \E order \in AbortOrders(ut) : /\ ut' = AfterTask(StopAll(ut, order), o, aborted)
                                        /\ hist' = CountRun(CountStops(Keys), o)
  BY DEF HandleUserTimers
<1>3. ASSUME NEW u, Sound(u), Tame(ut, u), NEW keys, ut' = AfterTask(u, o, aborted),
             hist' = CountRun(CountStops(keys), o)
      PROVE  CycleInv'
  <2> DEFINE g == CountStops(keys)
  <2>1. /\ g \in Seq(HistRec) /\ DOMAIN g = DOMAIN hist
        /\ \A p \in DOMAIN hist : /\ g[p].cycle = hist[p].cycle /\ g[p].runs = hist[p].runs
                                  /\ g[p].starts = hist[p].starts
    BY CountStopsFacts
  <2>2. hist' = CountRun(g, o)
    BY <1>3
  <2> HIDE DEF g
  <2> QED
    BY <1>3, <2>1, <2>2, RanOrderly
<1>4. CASE ut' = AfterTask(ut, o, aborted) /\ hist' = CountRun(hist, o)
  BY <1>1, <1>4, RanOrderly
<1>5. ASSUME NEW key \in Keys, ut' = AfterTask(StopKey(ut, key), o, aborted),
             hist' = CountRun(CountStops({key}), o)
      PROVE  CycleInv'
  <2>1. Sound(StopKey(ut, key)) /\ Tame(ut, StopKey(ut, key))
    BY <1>1, StopKeySound, StopKeyTame
  <2> QED
    BY <1>3, <1>5, <2>1
<1>6. ASSUME NEW order \in AbortOrders(ut), ut' = AfterTask(StopAll(ut, order), o, aborted),
             hist' = CountRun(CountStops(Keys), o)
      PROVE  CycleInv'
  <2>1. Sound(StopAll(ut, order)) /\ Tame(ut, StopAll(ut, order))
    BY <1>1, StopAllSound, StopAllTame
  <2> QED
    BY <1>3, <1>6, <2>1
<1> QED
  BY <1>2, <1>4, <1>5, <1>6

LEMMA InitCycleInv == Init => CycleInv
<1> SUFFICES ASSUME Init
             PROVE  CycleInv
  OBVIOUS
<1>1. hist = <<>> /\ ut.objs = <<>>
  BY DEF Init
<1>2. HistOK(ut, hist)
  BY <1>1 DEF HistOK
<1> QED
  BY <1>1, <1>2, InitTimerInv DEF CycleInv

LEMMA NextCycleInv ==
  ASSUME CycleInv, [Next]_vars
  PROVE  CycleInv'
<1>1. CASE UNCHANGED vars
  <2>1. ut' = ut /\ strand' = strand /\ hist' = hist
    BY <1>1 DEF vars
  <2>2. TimerInv'
    BY NextTimerInv DEF CycleInv
  <2> QED
    BY <2>1, <2>2 DEF CycleInv
<1>2. CASE Next
  BY <1>2, CallOrderly, DeliverOrderly, StartOrderly, StopOrderly, TimerOrderly,
     ExpireOrderly DEF Next, IoThreadStep
<1> QED
  BY <1>1, <1>2

-----------------------------------------------------------------------------
\* A timer that was started once runs its task at most cycle times: neither an
\* aborted wait, whose task HandleUserTimers runs all the same, nor a task that
\* stops its own timer gives it a run more than StartCycleTimer was asked for.
THEOREM CyclesAreKept == Spec => []AtMostCycleRuns
<1>1. CycleInv /\ [Next]_vars => CycleInv'
  BY NextCycleInv
<1>2. CycleInv => AtMostCycleRuns
  BY DEF CycleInv, Orderly, Counts, Limit, AtMostCycleRuns
<1> QED
  BY InitCycleInv, <1>1, <1>2, PTL DEF Spec
-----------------------------------------------------------------------------
(* A timer nobody interferes with leaves only after its cycles: no wait of *)
(* it is aborted, and its runs and the cycles left add up.                 *)

\* A wait of the object was aborted, and its end is still on its way.
AbortedReady(u, o) == \E i \in DOMAIN u.ready : u.ready[i].obj = o /\ u.ready[i].aborted
AbortedTask(s, o) ==
  \E i \in DOMAIN s : s[i].t = "timer" /\ s[i].done.obj = o /\ s[i].done.aborted
Aborted(u, s, o) == AbortedReady(u, o) \/ AbortedTask(s, o)

\* The conditions of Undisturbed.
Sole(u, o) == \A p \in DOMAIN u.objs \ {o} : u.objs[p].key # u.objs[o].key
Alone(u, h, o) == h[o].starts = 1 /\ h[o].stops = 0 /\ Sole(u, o)

\* As far as RunCap lets the runs be counted, the task has run, or has left to
\* run, as often as its cycle says.
AddsUp(u, h, o) ==
  IF h[o].cycle = Forever THEN u.objs[o].left = Forever
  ELSE h[o].runs + u.objs[o].left >= h[o].cycle \/ h[o].runs >= RunCap

Lasting(u, s, h, o) ==
  Alone(u, h, o) /\ ~u.objs[o].exited => ~Aborted(u, s, o) /\ AddsUp(u, h, o)

\* No cycle is beyond what RunCap can count.
Countable(s, h) ==
  /\ \A i \in DOMAIN s : s[i].t = "start" => s[i].cycle <= RunCap
  /\ \A o \in DOMAIN h : h[o].cycle <= RunCap

LastInv ==
  /\ CycleInv /\ Countable(strand, hist)
  /\ \A o \in DOMAIN hist : Lasting(ut, strand, hist, o)

\* From u to v no wait of the object is aborted, and the object neither exits
\* nor counts down.
Spares(u, v, o) ==
  /\ v.objs[o].left = u.objs[o].left /\ v.objs[o].exited = u.objs[o].exited
  /\ v.objs[o].key = u.objs[o].key
  /\ AbortedReady(v, o) => AbortedReady(u, o)

LEMMA SparesTwice ==
  ASSUME NEW u, NEW v, NEW w, NEW o, Spares(u, v, o), Spares(v, w, o)
  PROVE  Spares(u, w, o)
BY DEF Spares

\* The end of a wait concerns its own object alone, and spares that one, too,
\* if the wait expired.
LEMMA EndSpares ==
  ASSUME NEW u, Sound(u), NEW p \in DOMAIN u.objs, NEW aborted \in BOOLEAN,
         NEW v, v = EndOfWait(u, p, aborted),
         NEW o \in DOMAIN u.objs, o # p \/ ~aborted
  PROVE  Spares(u, v, o)
<1> DEFINE w == WaitDone(p, aborted)
           r == Append(u.ready, w)
           x == [u.objs[p] EXCEPT !.waiting = FALSE]
           s == [u.objs EXCEPT ![p] = x]
           rec == [map |-> u.map, objs |-> s, ready |-> r]
<1>type. u.objs \in Seq(Obj) /\ u.ready \in Seq(Ends) /\ DOMAIN u.objs = 1..Len(u.objs)
         /\ p \in Nat /\ u.objs[p] \in Obj
  BY DEF Sound, UtType
<1>1. v = rec
  BY EndIs, Zenon
<1>2. w \in Ends /\ w.obj = p /\ w.aborted = aborted
  BY <1>type DEF WaitDone, Ends
<1>3. DOMAIN r = 1..(Len(u.ready) + 1) /\ Len(u.ready) \in Nat
      /\ DOMAIN u.ready = 1..Len(u.ready)
      /\ (\A i \in DOMAIN u.ready : r[i] = u.ready[i]) /\ r[Len(u.ready) + 1] = w
  BY <1>type, <1>2, EndsAppend
<1>4. x.left = u.objs[p].left /\ x.exited = u.objs[p].exited /\ x.key = u.objs[p].key
  BY <1>type DEF Obj
<1> HIDE DEF w, r, x
<1>5. s[p] = x /\ \A q \in DOMAIN u.objs \ {p} : s[q] = u.objs[q]
  BY <1>type
<1> HIDE DEF s
<1>fields. v.objs = s /\ v.ready = r
  <2>1. rec.objs = s /\ rec.ready = r
    BY Zenon
  <2> HIDE DEF rec
  <2> QED
    BY <1>1, <2>1, Zenon
<1>6. AbortedReady(v, o) => AbortedReady(u, o)
  <2> SUFFICES ASSUME NEW i \in DOMAIN r, r[i].obj = o, r[i].aborted
               PROVE  AbortedReady(u, o)
    BY <1>fields DEF AbortedReady
  <2>1. i # Len(u.ready) + 1
    BY <1>2, <1>3
  <2>2. i \in DOMAIN u.ready /\ r[i] = u.ready[i]
    BY <1>3, <2>1
  <2> QED
    BY <2>2 DEF AbortedReady
<1> QED
  BY <1>4, <1>5, <1>6, <1>fields DEF Spares

LEMMA AbortSpares ==
  ASSUME NEW u, Sound(u), NEW p \in DOMAIN u.objs,
         NEW o \in DOMAIN u.objs, o # p \/ ~u.objs[p].waiting
  PROVE  Spares(u, Abort(u, p), o)
<1>1. CASE ~u.objs[p].waiting
  BY <1>1 DEF Abort, Spares
<1>2. CASE u.objs[p].waiting
  <2>1. Abort(u, p) = EndOfWait(u, p, TRUE)
    BY <1>2 DEF Abort, EndOfWait
  <2> QED
    BY <1>2, <2>1, EndSpares
<1> QED
  BY <1>1, <1>2

\* PostUserTimers aborts no wait of another object.
LEMMA ArmSpares ==
  ASSUME NEW u, Sound(u), NEW p \in DOMAIN u.objs,
         NEW o \in DOMAIN u.objs, o # p \/ ~u.objs[p].waiting
  PROVE  Spares(u, Arm(u, p), o)
<1>1. CASE u.objs[p].exited
  BY <1>1 DEF Arm, Spares
<1>2. CASE ~u.objs[p].exited
  <2> DEFINE a == Abort(u, p)
             x == [a.objs[p] EXCEPT !.waiting = TRUE]
             b == [a EXCEPT !.objs[p] = x]
  <2>1. Sound(a) /\ Keeps(u, a) /\ Spares(u, a, o)
    BY AbortSound, AbortSpares
  <2>2. Arm(u, p) = b
    BY <1>2 DEF Arm
  <2> HIDE DEF a
  <2>3. p \in DOMAIN a.objs /\ o \in DOMAIN a.objs
    BY <2>1 DEF Keeps
  <2>4. x \in Obj /\ x.key = a.objs[p].key /\ x.exited = a.objs[p].exited /\ x.waiting
        /\ x.left = a.objs[p].left
    <3>1. a.objs[p] \in Obj
      BY <2>1, <2>3 DEF Sound, UtType
    <3> QED
      BY <3>1 DEF Obj
  <2> HIDE DEF x
  <2>5. b = [a EXCEPT !.objs[p] = x]
    OBVIOUS
  <2> HIDE DEF b
  <2>6. /\ b.ready = a.ready
        /\ b.objs[p] = x /\ \A q \in DOMAIN a.objs \ {p} : b.objs[q] = a.objs[q]
    BY <2>1, <2>3, <2>4, <2>5, ObjectSound
  <2>7. Spares(a, b, o)
    BY <2>3, <2>4, <2>6 DEF Spares, AbortedReady
  <2> QED
    BY <2>1, <2>2, <2>7, SparesTwice
<1> QED
  BY <1>1, <1>2

\* StopTimer touches the timer of its key alone.
LEMMA StopKeySpares ==
  ASSUME NEW u, Sound(u), NEW key \in Keys, NEW o \in DOMAIN u.objs, u.map[key] # o
  PROVE  Spares(u, StopKey(u, key), o)
<1>1. CASE u.map[key] = NoTimer
  BY <1>1 DEF StopKey, Spares
<1>2. CASE u.map[key] # NoTimer
  <2> DEFINE p == u.map[key]
  <2>1. PICK v : /\ Sound(v) /\ Keeps(u, v) /\ v.ready = u.ready
                 /\ \A q \in DOMAIN u.objs \ {p} : v.objs[q] = u.objs[q]
                 /\ p \in DOMAIN u.objs /\ StopKey(u, key) = Abort(v, p)
    BY <1>2, Erased
  <2>2. p # o
    OBVIOUS
  <2> HIDE DEF p
  <2>3. p \in DOMAIN v.objs /\ o \in DOMAIN v.objs
    BY <2>1 DEF Keeps
  <2>4. Spares(u, v, o)
    BY <2>1, <2>2 DEF Spares, AbortedReady
  <2>5. Spares(v, Abort(v, p), o)
    BY <2>1, <2>2, <2>3, AbortSpares
  <2> QED
    BY <2>1, <2>4, <2>5, SparesTwice
<1> QED
  BY <1>1, <1>2

\* StopAllTimers touches the timers of user_timers_ alone.
LEMMA StopAllSpares ==
  ASSUME NEW u, Sound(u), NEW order \in AbortOrders(u), NEW o \in DOMAIN u.objs,
         \A k \in Keys : u.map[k] # o
  PROVE  Spares(u, StopAll(u, order), o)
<1> DEFINE waiting == {u.map[k] : k \in Registered(u)}
                        \cap {p \in DOMAIN u.objs : u.objs[p].waiting}
           n == Cardinality(waiting)
           w == [i \in DOMAIN order |-> WaitDone(order[i], TRUE)]
           r == u.ready \o w
           s == [p \in DOMAIN u.objs |->
                   IF \E k \in Keys : u.map[k] = p
                   THEN [u.objs[p] EXCEPT !.exited = TRUE, !.waiting = FALSE]
                   ELSE u.objs[p]]
           v == [map |-> [k \in Keys |-> NoTimer], objs |-> s, ready |-> r]
<1>type. u.objs \in Seq(Obj) /\ u.ready \in Seq(Ends) /\ DOMAIN u.objs = 1..Len(u.objs)
         /\ Len(u.objs) \in Nat
  BY DEF Sound, UtType
<1>1. n \in Nat
  <2>1. IsFiniteSet(1..Len(u.objs))
    BY <1>type, FS_Interval
  <2>2. waiting \subseteq 1..Len(u.objs)
    BY <1>type
  <2> HIDE DEF waiting
  <2> QED
    BY <2>1, <2>2, FS_Subset, FS_CardinalityType
<1>2. DOMAIN order = 1..n /\ \A i \in 1..n : order[i] \in waiting
  BY DEF AbortOrders
<1>3. o \notin waiting /\ \A p \in waiting : p \in DOMAIN u.objs
  BY DEF Registered
<1> HIDE DEF n, waiting
<1>4. w \in Seq(Ends) /\ Len(w) = n /\ \A i \in 1..n : w[i].obj # o
  <2>1. \A i \in 1..n : WaitDone(order[i], TRUE) \in Ends
    BY <1>type, <1>2, <1>3 DEF WaitDone, Ends
  <2>2. w = [i \in 1..n |-> WaitDone(order[i], TRUE)]
    BY <1>2
  <2> QED
    BY <1>1, <1>2, <1>3, <2>1, <2>2 DEF WaitDone
<1> HIDE DEF w
<1> DEFINE m == Len(u.ready)
<1>5. \A i \in DOMAIN r : r[i].obj = o => i \in DOMAIN u.ready /\ r[i] = u.ready[i]
  <2>1. /\ m \in Nat /\ DOMAIN u.ready = 1..m /\ DOMAIN r = 1..(m + Len(w))
        /\ \A i \in 1..(m + Len(w)) : r[i] = IF i <= m THEN u.ready[i] ELSE w[i - m]
    BY <1>type, <1>4, EndsConcat
  <2> HIDE DEF r, m
  <2> SUFFICES ASSUME NEW i \in DOMAIN r, r[i].obj = o
               PROVE  i \in DOMAIN u.ready /\ r[i] = u.ready[i]
    OBVIOUS
  <2>2. ~(i <= m) => i - m \in 1..n
    BY <1>1, <1>4, <2>1
  <2> QED
    BY <1>4, <2>1, <2>2
<1>6. s[o] = u.objs[o]
  OBVIOUS
<1>7. StopAll(u, order) = v
  BY Zenon DEF StopAll, w
<1> HIDE DEF s, r
<1>8. v.objs = s /\ v.ready = r
  BY Zenon
<1> HIDE DEF v
<1> QED
  BY <1>5, <1>6, <1>7, <1>8 DEF Spares, AbortedReady

\* What follows the task of a timer spares the timers with other keys.
LEMMA AfterTaskSpares ==
  ASSUME NEW u, Sound(u), NEW p \in DOMAIN u.objs, NEW aborted \in BOOLEAN,
         NEW o \in DOMAIN u.objs, u.objs[o].key # u.objs[p].key
  PROVE  Spares(u, AfterTask(u, p, aborted), o)
<1>type. u.objs[p] \in Obj
  BY DEF Sound, UtType
<1>key. u.objs[p].key \in Keys /\ u.objs[p].left \in Int
  BY <1>type DEF Obj
<1>1. CASE aborted \/ LastCycle(u.objs[p].left)
  <2>1. u.map[u.objs[p].key] # o
    <3>1. u.map \in [Keys -> Nat \cup {NoTimer}] /\ o \in Nat
      BY DEF Sound, UtType
    <3> QED
      BY <1>key, <3>1 DEF Sound, Agree
  <2> QED
    BY <1>key, <1>1, <2>1, StopKeySpares DEF AfterTask
<1>2. CASE ~(aborted \/ LastCycle(u.objs[p].left))
  <2> DEFINE x == [u.objs[p] EXCEPT !.left = CountDown(@)]
             c == [u EXCEPT !.objs[p] = x]
  <2>1. AfterTask(u, p, aborted) = Arm(c, p)
    BY <1>2 DEF AfterTask
  <2>2. x \in Obj /\ x.key = u.objs[p].key /\ x.exited = u.objs[p].exited
        /\ x.waiting = u.objs[p].waiting
    <3>1. CountDown(u.objs[p].left) \in Int
      BY <1>key DEF CountDown
    <3> QED
      BY <1>type, <3>1 DEF Obj
  <2> HIDE DEF x
  <2>3. /\ Sound(c) /\ Keeps(u, c) /\ c.ready = u.ready
        /\ \A q \in DOMAIN u.objs \ {p} : c.objs[q] = u.objs[q]
    <3> HIDE DEF c
    <3>1. c = [u EXCEPT !.objs[p] = x]
      BY DEF c
    <3> QED
      BY <2>2, <3>1, ObjectSound
  <2> HIDE DEF c
  <2>4. p \in DOMAIN c.objs /\ o \in DOMAIN c.objs /\ o # p
    BY <2>3 DEF Keeps
  <2>5. Spares(u, c, o)
    BY <2>3, <2>4 DEF Spares, AbortedReady
  <2>6. Spares(c, Arm(c, p), o)
    BY <2>3, <2>4, ArmSpares
  <2> QED
    BY <2>1, <2>5, <2>6, SparesTwice
<1> QED
  BY <1>1, <1>2

\* Its own timer leaves after the last cycle, and counts down before.
LEMMA AfterOwnTask ==
  ASSUME NEW u, Sound(u), NEW o \in DOMAIN u.objs, ~u.objs[o].waiting,
         NEW v, v = AfterTask(u, o, FALSE)
  PROVE  \/ LastCycle(u.objs[o].left) /\ v.objs[o].exited
         \/ /\ ~LastCycle(u.objs[o].left) /\ v.objs[o].left = CountDown(u.objs[o].left)
            /\ v.objs[o].exited = u.objs[o].exited
            /\ AbortedReady(v, o) => AbortedReady(u, o)
<1>type. u.objs[o] \in Obj
  BY DEF Sound, UtType
<1>key. u.objs[o].key \in Keys /\ u.objs[o].left \in Int
  BY <1>type DEF Obj
<1>1. CASE LastCycle(u.objs[o].left)
  <2>1. v = StopKey(u, u.objs[o].key)
    BY <1>1 DEF AfterTask
  <2>2. Sound(v) /\ Keeps(u, v) /\ v.map[u.objs[o].key] = NoTimer
    BY <1>key, <2>1, StopKeySound
  <2>3. o \in DOMAIN v.objs /\ v.objs[o].key = u.objs[o].key
    BY <2>2 DEF Keeps
  <2>num. o \in Nat
    BY DEF Sound, UtType
  <2>4. v.map[v.objs[o].key] # o
    BY <2>2, <2>3, <2>num
  <2> QED
    BY <1>1, <2>2, <2>3, <2>4 DEF Sound, Agree
<1>2. CASE ~LastCycle(u.objs[o].left)
  <2> DEFINE x == [u.objs[o] EXCEPT !.left = CountDown(@)]
             c == [u EXCEPT !.objs[o] = x]
  <2>1. v = Arm(c, o)
    BY <1>2 DEF AfterTask
  <2>2. x \in Obj /\ x.key = u.objs[o].key /\ x.exited = u.objs[o].exited
        /\ x.waiting = u.objs[o].waiting /\ x.left = CountDown(u.objs[o].left)
    <3>1. CountDown(u.objs[o].left) \in Int
      BY <1>key DEF CountDown
    <3> QED
      BY <1>type, <3>1 DEF Obj
  <2> HIDE DEF x
  <2>3. Sound(c) /\ Keeps(u, c) /\ c.ready = u.ready /\ c.objs[o] = x
    <3> HIDE DEF c
    <3>1. c = [u EXCEPT !.objs[o] = x]
      BY DEF c
    <3> QED
      BY <2>2, <3>1, ObjectSound
  <2> HIDE DEF c
  <2>4. o \in DOMAIN c.objs /\ ~c.objs[o].waiting
    BY <2>2, <2>3 DEF Keeps
  <2>5. Spares(c, v, o)
    BY <2>1, <2>3, <2>4, ArmSpares
  <2> QED
    BY <1>2, <2>2, <2>3, <2>5 DEF Spares, AbortedReady
<1> QED
  BY <1>1, <1>2

-----------------------------------------------------------------------------
(* The steps.                                                              *)

\* What a step must do to a timer that was alive, if nobody interfered.
Lasts(o) ==
  IF ut'.objs[o].exited THEN hist[o].cycle # Forever /\ hist'[o].runs >= hist[o].cycle
  ELSE ~Aborted(ut', strand', o) /\ AddsUp(ut', hist', o)

LEMMA SparedLasts ==
  ASSUME LastInv, NEW o \in DOMAIN hist, ~ut.objs[o].exited, Alone(ut, hist, o),
         Spares(ut, ut', o), AbortedTask(strand', o) => AbortedTask(strand, o),
         hist'[o].cycle = hist[o].cycle, hist'[o].runs = hist[o].runs
  PROVE  Lasts(o)
BY DEF LastInv, Lasting, Spares, Lasts, Aborted, AddsUp

LEMMA CountStopsStops ==
  ASSUME CycleInv, NEW keys, NEW o \in DOMAIN hist
  PROVE  /\ CountStops(keys)[o].stops = 0 =>
              hist[o].stops = 0 /\ \A k \in keys : ut.map[k] # o
<1>1. hist[o] \in HistRec
  BY HistFacts
<1>2. CASE \E k \in keys : ut.map[k] = o
  <2>1. CountStops(keys)[o] = [hist[o] EXCEPT !.stops = @ + 1]
    BY <1>2 DEF CountStops
  <2>2. CountStops(keys)[o].stops = hist[o].stops + 1 /\ hist[o].stops \in Nat
    BY <1>1, <2>1 DEF HistRec
  <2> QED
    BY <2>2
<1>3. CASE ~\E k \in keys : ut.map[k] = o
  BY <1>3 DEF CountStops
<1> QED
  BY <1>2, <1>3

LEMMA CountRunFacts ==
  ASSUME NEW g \in Seq(HistRec), NEW p \in DOMAIN g, NEW h, h = CountRun(g, p)
  PROVE  /\ DOMAIN h = DOMAIN g
         /\ \A o \in DOMAIN g : /\ h[o].cycle = g[o].cycle /\ h[o].starts = g[o].starts
                                /\ h[o].stops = g[o].stops
         /\ \A o \in DOMAIN g \ {p} : h[o].runs = g[o].runs
         /\ h[p].runs = IF g[p].runs < RunCap THEN g[p].runs + 1 ELSE g[p].runs
<1> DEFINE n == IF g[p].runs < RunCap THEN g[p].runs + 1 ELSE g[p].runs
           x == [g[p] EXCEPT !.runs = n]
<1>1. g[p] \in HistRec
  OBVIOUS
<1>2. /\ x.cycle = g[p].cycle /\ x.starts = g[p].starts /\ x.stops = g[p].stops
      /\ x.runs = n
  BY <1>1 DEF HistRec
<1>3. h = [g EXCEPT ![p] = x]
  BY DEF CountRun
<1> HIDE DEF x
<1>4. DOMAIN h = DOMAIN g /\ h[p] = x /\ \A o \in DOMAIN g \ {p} : h[o] = g[o]
  BY <1>3
<1> QED
  BY <1>2, <1>4

\* The end of a wait is handled in the state u that the calls of the task have
\* left; g is what they did to the history.
Ran(u, g) ==
  LET p == Running.done.obj IN
  /\ Sound(u) /\ Tame(ut, u) /\ \A k \in Keys : u.map[k] \in {ut.map[k], NoTimer}
  /\ \A o \in DOMAIN hist :
       /\ u.objs[o].key = ut.objs[o].key
       /\ g[o].cycle = hist[o].cycle /\ g[o].runs = hist[o].runs
       /\ g[o].starts = hist[o].starts
       /\ g[o].stops = 0 => hist[o].stops = 0 /\ Spares(ut, u, o)
  /\ g \in Seq(HistRec) /\ DOMAIN g = DOMAIN hist
  /\ ut' = AfterTask(u, p, Running.done.aborted) /\ hist' = CountRun(g, p)

LEMMA TimerRuns ==
  ASSUME CycleInv, HandleUserTimers
  PROVE  /\ Running.done.obj \in DOMAIN hist /\ Running.done.aborted \in BOOLEAN
         /\ strand # <<>> /\ strand' = Tail(strand)
         /\ Running.t = "timer" /\ Running = strand[1] /\ 1 \in DOMAIN strand
         /\ \E u, g : Ran(u, g)
<1> DEFINE p == Running.done.obj
           aborted == Running.done.aborted
<1>sound. Sound(ut) /\ hist \in Seq(HistRec) /\ DOMAIN hist = DOMAIN ut.objs
  BY HistFacts DEF CycleInv, TimerInv
<1>1. strand # <<>> /\ strand' = Tail(strand) /\ Running.t = "timer"
  BY DEF HandleUserTimers, OnStrand
<1>2. Running = strand[1] /\ 1 \in DOMAIN strand /\ Running \in Tasks
  <2>1. strand \in Seq(Tasks)
    BY DEF CycleInv, TimerInv, StrandOK
  <2> QED
    BY <1>1, <2>1, TasksTail DEF Running
<1>3. p \in DOMAIN hist /\ aborted \in BOOLEAN
  <2>1. \A i \in DOMAIN strand : strand[i].t = "timer" => strand[i].done.obj \in DOMAIN ut.objs
    BY DEF CycleInv, TimerInv, StrandOK
  <2>2. Running \in TimerTask
    BY <1>1, <1>2 DEF Tasks, StartTask, StopTask
  <2> QED
    BY <1>sound, <1>1, <1>2, <2>1, <2>2 DEF TimerTask, Ends
<1>4. \/ ut' = AfterTask(ut, p, aborted) /\ hist' = CountRun(hist, p)
      \/ \E key \in Keys : /\ ut' = AfterTask(StopKey(ut, key), p, aborted)
                           /\ hist' = CountRun(CountStops({key}), p)
      \/ \E order \in AbortOrders(ut) : /\ ut' = AfterTask(StopAll(ut, order), p, aborted)
                                        /\ hist' = CountRun(CountStops(Keys), p)
  BY DEF HandleUserTimers
<1>5. CASE ut' = AfterTask(ut, p, aborted) /\ hist' = CountRun(hist, p)
  <2>1. Tame(ut, ut) /\ \A o \in DOMAIN hist : Spares(ut, ut, o)
    BY DEF Tame, TameFor, Spares
  <2>2. Ran(ut, hist)
    BY <1>sound, <1>5, <2>1 DEF Ran
  <2> QED
    BY <1>1, <1>2, <1>3, <2>2
<1>6. ASSUME NEW u, Sound(u), Tame(ut, u), NEW keys,
             ut' = AfterTask(u, p, aborted), hist' = CountRun(CountStops(keys), p),
             \A k \in Keys : u.map[k] \in {ut.map[k], NoTimer},
             \A o \in DOMAIN hist : u.objs[o].key = ut.objs[o].key,
             \A o \in DOMAIN hist : (\A k \in keys : ut.map[k] # o) => Spares(ut, u, o)
      PROVE  \E g : Ran(u, g)
  <2> DEFINE g == CountStops(keys)
  <2>1. /\ g \in Seq(HistRec) /\ DOMAIN g = DOMAIN hist
        /\ \A o \in DOMAIN hist : /\ g[o].cycle = hist[o].cycle /\ g[o].runs = hist[o].runs
                                  /\ g[o].starts = hist[o].starts
    BY CountStopsFacts
  <2>2. \A o \in DOMAIN hist : g[o].stops = 0 => hist[o].stops = 0 /\ Spares(ut, u, o)
    BY <1>6, CountStopsStops
  <2>3. hist' = CountRun(g, p)
    BY <1>6
  <2> HIDE DEF g
  <2>4. Ran(u, g)
    BY <1>6, <2>1, <2>2, <2>3 DEF Ran
  <2> QED
    BY <2>4
<1>7. ASSUME NEW key \in Keys, ut' = AfterTask(StopKey(ut, key), p, aborted),
             hist' = CountRun(CountStops({key}), p)
      PROVE  \E u, g : Ran(u, g)
  <2>1. /\ Sound(StopKey(ut, key)) /\ Tame(ut, StopKey(ut, key))
        /\ \A k \in Keys : StopKey(ut, key).map[k] \in {ut.map[k], NoTimer}
        /\ \A o \in DOMAIN hist : StopKey(ut, key).objs[o].key = ut.objs[o].key
    BY <1>sound, StopKeySound, StopKeyTame DEF Keeps
  <2>2. \A o \in DOMAIN hist : (\A k \in {key} : ut.map[k] # o) => Spares(ut, StopKey(ut, key), o)
    BY <1>sound, StopKeySpares
  <2>3. \E g : Ran(StopKey(ut, key), g)
    BY <1>6, <1>7, <2>1, <2>2
  <2> QED
    BY <2>3
<1>8. ASSUME NEW order \in AbortOrders(ut), ut' = AfterTask(StopAll(ut, order), p, aborted),
             hist' = CountRun(CountStops(Keys), p)
      PROVE  \E u, g : Ran(u, g)
  <2>1. /\ Sound(StopAll(ut, order)) /\ Tame(ut, StopAll(ut, order))
        /\ \A k \in Keys : StopAll(ut, order).map[k] \in {ut.map[k], NoTimer}
        /\ \A o \in DOMAIN hist : StopAll(ut, order).objs[o].key = ut.objs[o].key
    BY <1>sound, StopAllSound, StopAllTame
  <2>2. \A o \in DOMAIN hist : (\A k \in Keys : ut.map[k] # o) => Spares(ut, StopAll(ut, order), o)
    BY <1>sound, StopAllSpares
  <2>3. \E g : Ran(StopAll(ut, order), g)
    BY <1>6, <1>8, <2>1, <2>2
  <2> QED
    BY <2>3
<1>9. \E u, g : Ran(u, g)
  BY <1>4, <1>5, <1>7, <1>8
<1> QED
  BY <1>1, <1>2, <1>3, <1>9

\* No object changes its key, or comes into user_timers_ again.
LEMMA KeysStay ==
  ASSUME LastInv, Next
  PROVE  /\ DOMAIN ut.objs \subseteq DOMAIN ut'.objs
         /\ \A p \in DOMAIN ut.objs : ut'.objs[p].key = ut.objs[p].key
         /\ \A k \in Keys : ut'.map[k] \in DOMAIN ut.objs => ut'.map[k] = ut.map[k]
<1>sound. Sound(ut) /\ NoTimer \notin DOMAIN ut.objs
  <2>1. Sound(ut) /\ ut.objs \in Seq(Obj)
    BY DEF LastInv, CycleInv, TimerInv, Sound, UtType
  <2>2. DOMAIN ut.objs \subseteq Nat
    BY <2>1
  <2> QED
    BY <2>1, <2>2
<1>run. strand # <<>> => Running \in Tasks
  BY PopFacts DEF LastInv
<1>1. CASE \/ \E key \in Keys, cycle \in Cycles : CallStart(key, cycle)
           \/ \E key \in Keys : CallStop(key)
           \/ CallStopAll
  <2>1. ut' = ut
    BY <1>1 DEF CallStart, CallStop, CallStopAll
  <2> QED
    BY <2>1
<1>7. CASE Deliver
  <2>1. ut'.objs = ut.objs /\ ut'.map = ut.map
    BY <1>sound, <1>7 DEF Deliver, Sound, UtType
  <2> QED
    BY <2>1
<1>2. ASSUME NEW p \in 1..MaxStarts, Expire(p)
      PROVE  Keeps(ut, ut')
  BY <1>sound, <1>2, EndSound DEF Expire, EndOfWait
<1>3. CASE HandleStart
  <2> DEFINE old == ut.map[Running.key]
             new == Len(ut.objs) + 1
             v == MakeTimer(ut, Running.key, Running.cycle)
  <2>1. Running.key \in Keys /\ Running.cycle \in Int
    BY <1>3, <1>run DEF HandleStart, OnStrand, Tasks, StartTask, StopTask, TimerTask
  <2>2. CASE old # NoTimer
    <3>1. ut' = Arm(ut, old) /\ old \in DOMAIN ut.objs
      BY <1>3, <1>sound, <2>1, <2>2 DEF HandleStart, Sound, Agree
    <3> QED
      BY <1>sound, <3>1, ArmSound DEF Keeps
  <2>3. CASE old = NoTimer
    <3>1. ut' = Arm(v, new)
      BY <1>3, <2>3 DEF HandleStart, MakeTimer
    <3>2. /\ Sound(v) /\ new \in DOMAIN v.objs /\ DOMAIN ut.objs \subseteq DOMAIN v.objs
          /\ \A o \in DOMAIN ut.objs : v.objs[o] = ut.objs[o]
          /\ \A k \in Keys : v.map[k] # NoTimer => v.map[k] \in {ut.map[k], new}
      <4> HIDE DEF v, new, old
      <4>1. ut.map[Running.key] = NoTimer
        BY <2>3 DEF old
      <4>2. new = Len(ut.objs) + 1
        BY DEF new
      <4>3. v = MakeTimer(ut, Running.key, Running.cycle)
        BY DEF v
      <4> QED
        BY <1>sound, <2>1, <4>1, <4>2, <4>3, NewSound
    <3>new. new \notin DOMAIN ut.objs
      BY HistFacts DEF LastInv
    <3> HIDE DEF v, new
    <3>3. Keeps(v, ut')
      BY <3>1, <3>2, ArmSound
    <3> QED
      BY <1>sound, <3>new, <3>2, <3>3 DEF Keeps
  <2> QED
    BY <2>2, <2>3
<1>4. CASE HandleStop
  <2>1. Running.key \in Keys
    BY <1>4, <1>run DEF HandleStop, OnStrand, Tasks, StartTask, StopTask, TimerTask
  <2> QED
    BY <1>4, <1>sound, <2>1, StopKeySound DEF HandleStop, Keeps
<1>5. CASE HandleStopAll
  BY <1>5, <1>sound, StopAllSound DEF HandleStopAll
<1>6. CASE HandleUserTimers
  <2>1. PICK u, g : Ran(u, g)
    BY <1>6, TimerRuns DEF LastInv
  <2>2. Running.done.obj \in DOMAIN u.objs /\ Running.done.aborted \in BOOLEAN
        /\ DOMAIN u.objs = DOMAIN ut.objs /\ DOMAIN hist = DOMAIN ut.objs
    BY <1>6, <2>1, TimerRuns, HistFacts DEF LastInv, Ran, Tame
  <2>3. Keeps(u, ut')
    BY <2>1, <2>2, AfterTaskSound DEF Ran
  <2> QED
    BY <2>1, <2>2, <2>3 DEF Keeps, Ran
<1>8. ASSUME Keeps(ut, ut')
      PROVE  /\ DOMAIN ut.objs \subseteq DOMAIN ut'.objs
             /\ \A p \in DOMAIN ut.objs : ut'.objs[p].key = ut.objs[p].key
             /\ \A k \in Keys : ut'.map[k] \in DOMAIN ut.objs => ut'.map[k] = ut.map[k]
  BY <1>sound, <1>8 DEF Keeps
<1>9. CASE \E p \in 1..MaxStarts : Expire(p)
  BY <1>2, <1>8, <1>9
<1> QED
  BY <1>1, <1>9, <1>3, <1>4, <1>5, <1>6, <1>7 DEF Next, IoThreadStep

LEMMA HistStays ==
  ASSUME LastInv, Next, NEW o \in DOMAIN hist
  PROVE  /\ o \in DOMAIN hist' /\ hist'[o].cycle = hist[o].cycle
         /\ hist'[o].starts = 1 => hist[o].starts = 1
         /\ hist'[o].stops = 0 => hist[o].stops = 0
<1>hist. /\ hist \in Seq(HistRec) /\ DOMAIN hist = 1..Len(hist) /\ Len(hist) \in Nat
         /\ hist[o] \in HistRec /\ DOMAIN hist = DOMAIN ut.objs
  BY HistFacts DEF LastInv
<1>1. CASE hist' = hist
  BY <1>1
<1>2. CASE HandleStart
  <2> DEFINE old == ut.map[Running.key]
             h == [cycle |-> Running.cycle, starts |-> 1, stops |-> 0, runs |-> 0]
  <2>1. Running.key \in Keys
    BY <1>2, PopFacts DEF LastInv, HandleStart, OnStrand, Tasks, StartTask, StopTask, TimerTask
  <2>2. CASE old # NoTimer
    <3>1. old \in DOMAIN hist
      BY <1>hist, <2>1, <2>2 DEF LastInv, CycleInv, TimerInv, Sound, Agree
    <3> DEFINE x == [hist[old] EXCEPT !.starts = @ + 1]
    <3>2. hist' = [hist EXCEPT ![old] = x]
      BY <1>2, <2>2 DEF HandleStart
    <3>3. /\ x.cycle = hist[old].cycle /\ x.stops = hist[old].stops
          /\ x.starts # 1
      <4>1. hist[old] \in HistRec
        BY <1>hist, <3>1
      <4> HIDE DEF old
      <4> QED
        BY <4>1 DEF HistRec
    <3> HIDE DEF x, old
    <3> QED
      BY <3>1, <3>2, <3>3
  <2>3. CASE old = NoTimer
    <3>1. hist' = Append(hist, h)
      BY <1>2, <2>3 DEF HandleStart
    <3> HIDE DEF h
    <3> QED
      BY <1>hist, <3>1
  <2> QED
    BY <2>2, <2>3
<1>3. ASSUME NEW keys, hist' = CountStops(keys)
      PROVE  /\ o \in DOMAIN hist' /\ hist'[o].cycle = hist[o].cycle
             /\ hist'[o].starts = 1 => hist[o].starts = 1
             /\ hist'[o].stops = 0 => hist[o].stops = 0
  BY <1>3, CountStopsFacts, CountStopsStops DEF LastInv
<1>4. CASE HandleUserTimers
  <2>1. PICK u, g : Ran(u, g)
    BY <1>4, TimerRuns DEF LastInv
  <2>2. Running.done.obj \in DOMAIN g /\ o \in DOMAIN g
    BY <1>4, <2>1, TimerRuns DEF LastInv, Ran
  <2>3. /\ DOMAIN hist' = DOMAIN g /\ hist'[o].cycle = g[o].cycle
        /\ hist'[o].starts = g[o].starts /\ hist'[o].stops = g[o].stops
    BY <2>1, <2>2, CountRunFacts DEF Ran
  <2> QED
    BY <2>1, <2>2, <2>3 DEF Ran
<1>5. CASE HandleStop \/ HandleStopAll
  BY <1>3, <1>5 DEF HandleStop, HandleStopAll
<1> QED
  BY <1>1, <1>2, <1>4, <1>5
     DEF Next, IoThreadStep, CallStart, CallStop, CallStopAll, Deliver, Expire

LEMMA AloneStays ==
  ASSUME LastInv, Next, NEW o \in DOMAIN hist, Alone(ut', hist', o)
  PROVE  Alone(ut, hist, o)
<1>1. DOMAIN hist = DOMAIN ut.objs
  BY HistFacts DEF LastInv
<1>2. Sole(ut, o)
  BY <1>1, KeysStay DEF Alone, Sole
<1> QED
  BY <1>2, HistStays DEF Alone

LEMMA CallLasts ==
  ASSUME LastInv, NEW o \in DOMAIN hist, ~ut.objs[o].exited, Alone(ut, hist, o),
         \/ \E key \in Keys, cycle \in Cycles : CallStart(key, cycle)
         \/ \E key \in Keys : CallStop(key)
         \/ CallStopAll
  PROVE  Lasts(o)
<1>1. \E x \in Tasks : /\ strand' = Append(strand, x) /\ x.t # "timer"
                       /\ ut' = ut /\ hist' = hist
  <2>1. CASE \E key \in Keys, cycle \in Cycles : CallStart(key, cycle)
    <3>1. PICK key \in Keys, cycle \in Cycles : CallStart(key, cycle)
      BY <2>1
    <3>2. [t |-> "start", key |-> key, cycle |-> cycle] \in Tasks
      BY DEF Tasks, StartTask
    <3> QED
      BY <3>1, <3>2 DEF CallStart
  <2>2. CASE \E key \in Keys : CallStop(key)
    <3>1. PICK key \in Keys : CallStop(key)
      BY <2>2
    <3>2. [t |-> "stop", key |-> key] \in Tasks
      BY DEF Tasks, StopTask
    <3> QED
      BY <3>1, <3>2 DEF CallStop
  <2>3. CASE CallStopAll
    <3>1. [t |-> "stopAll"] \in Tasks
      BY DEF Tasks, StopTask
    <3> QED
      BY <2>3, <3>1 DEF CallStopAll
  <2> QED
    BY <2>1, <2>2, <2>3
<1>2. PICK x \in Tasks : /\ strand' = Append(strand, x) /\ x.t # "timer"
                         /\ ut' = ut /\ hist' = hist
  BY <1>1
<1>3. strand \in Seq(Tasks)
  BY DEF LastInv, CycleInv, TimerInv, StrandOK
<1>4. \A i \in DOMAIN strand' : strand'[i].t = "timer" =>
        i \in DOMAIN strand /\ strand'[i] = strand[i]
  BY <1>2, <1>3, TasksAppend
<1>5. AbortedTask(strand', o) => AbortedTask(strand, o)
  BY <1>4 DEF AbortedTask
<1>6. Spares(ut, ut', o)
  BY <1>2 DEF Spares
<1> QED
  BY <1>2, <1>5, <1>6, SparedLasts

\* The end of a wait goes on to the strand as it is.
LEMMA DeliverLasts ==
  ASSUME LastInv, NEW o \in DOMAIN hist, ~ut.objs[o].exited, Alone(ut, hist, o), Deliver
  PROVE  Lasts(o)
<1> DEFINE e == Head(ut.ready)
           r == Tail(ut.ready)
           x == [t |-> "timer", done |-> e]
<1>type. /\ ut.ready \in Seq(Ends) /\ ut.ready # <<>> /\ strand \in Seq(Tasks)
         /\ ut \in [map : [Keys -> Nat \cup {NoTimer}], objs : Seq(Obj), ready : Seq(Ends)]
  BY DEF LastInv, CycleInv, TimerInv, Sound, UtType, StrandOK, Deliver
<1>1. /\ e \in Ends /\ e = ut.ready[1]
      /\ DOMAIN ut.ready = 1..Len(ut.ready) /\ Len(ut.ready) \in Nat
      /\ DOMAIN r = 1..(Len(ut.ready) - 1)
      /\ \A i \in DOMAIN r : r[i] = ut.ready[i + 1]
  BY <1>type, EndsTail
<1>2. 1 \in DOMAIN ut.ready
  BY <1>type
<1>3. /\ strand' = Append(strand, x) /\ hist' = hist
      /\ ut'.objs = ut.objs /\ ut'.ready = r
  BY <1>type DEF Deliver
<1> HIDE DEF r
<1>4. x \in Tasks /\ x.t = "timer" /\ x.done = e
  BY <1>1 DEF Tasks, TimerTask
<1> HIDE DEF x, e
<1>5. /\ DOMAIN strand' = 1..(Len(strand) + 1) /\ DOMAIN strand = 1..Len(strand)
      /\ Len(strand) \in Nat
      /\ \A i \in DOMAIN strand : strand'[i] = strand[i]
      /\ strand'[Len(strand) + 1] = x
  BY <1>type, <1>3, <1>4, TasksAppend
<1>6. AbortedReady(ut', o) => AbortedReady(ut, o)
  <2>1. \A i \in DOMAIN r : i + 1 \in DOMAIN ut.ready /\ r[i] = ut.ready[i + 1]
    BY <1>1
  <2> QED
    BY <1>3, <2>1 DEF AbortedReady
<1>7. AbortedTask(strand', o) => AbortedTask(strand, o) \/ AbortedReady(ut, o)
  <2> SUFFICES ASSUME NEW i \in DOMAIN strand', strand'[i].t = "timer",
                      strand'[i].done.obj = o, strand'[i].done.aborted
               PROVE  AbortedTask(strand, o) \/ AbortedReady(ut, o)
    BY DEF AbortedTask
  <2>1. CASE i \in DOMAIN strand
    BY <1>5, <2>1 DEF AbortedTask
  <2>2. CASE i \notin DOMAIN strand
    <3>1. strand'[i].done = e
      BY <1>4, <1>5, <2>2
    <3> QED
      BY <1>1, <1>2, <3>1 DEF AbortedReady
  <2> QED
    BY <2>1, <2>2
<1> QED
  BY <1>3, <1>6, <1>7 DEF LastInv, Lasting, Lasts, Aborted, AddsUp

LEMMA ExpireLasts ==
  ASSUME LastInv, NEW o \in DOMAIN hist, ~ut.objs[o].exited, Alone(ut, hist, o),
         NEW p \in 1..MaxStarts, Expire(p)
  PROVE  Lasts(o)
<1>1. /\ ut' = EndOfWait(ut, p, FALSE) /\ p \in DOMAIN ut.objs
      /\ strand' = strand /\ hist' = hist
  BY DEF Expire, EndOfWait
<1>2. Sound(ut) /\ o \in DOMAIN ut.objs
  BY HistFacts DEF LastInv, CycleInv, TimerInv
<1>3. Spares(ut, ut', o)
  BY <1>1, <1>2, EndSpares
<1> QED
  BY <1>1, <1>3, SparedLasts

\* A task is taken from the strand.
LEMMA PoppedTask ==
  ASSUME CycleInv, strand # <<>>, strand' = Tail(strand), NEW o
  PROVE  AbortedTask(strand', o) => AbortedTask(strand, o)
<1>1. strand \in Seq(Tasks)
  BY DEF CycleInv, TimerInv, StrandOK
<1>2. \A i \in DOMAIN strand' : i + 1 \in DOMAIN strand /\ strand'[i] = strand[i + 1]
  BY <1>1, TasksTail
<1> QED
  BY <1>2 DEF AbortedTask

\* A timer that was not stopped is not the one StopTimer and StopAllTimers stop.
LEMMA StopLasts ==
  ASSUME LastInv, NEW o \in DOMAIN hist, ~ut.objs[o].exited, Alone(ut, hist, o),
         hist'[o].stops = 0, HandleStop \/ HandleStopAll
  PROVE  Lasts(o)
<1>1. strand # <<>> /\ strand' = Tail(strand)
  BY DEF HandleStop, HandleStopAll, OnStrand
<1>2. Sound(ut) /\ o \in DOMAIN ut.objs
  BY HistFacts DEF LastInv, CycleInv, TimerInv
<1>3. Spares(ut, ut', o)
  <2>1. CASE HandleStop
    <3>1. Running.key \in Keys
      BY <1>1, <2>1, PopFacts DEF LastInv, HandleStop, OnStrand, Tasks, StartTask, StopTask, TimerTask
    <3>2. ut.map[Running.key] # o
      BY <2>1, CountStopsStops DEF LastInv, HandleStop
    <3> QED
      BY <1>2, <2>1, <3>1, <3>2, StopKeySpares DEF HandleStop
  <2>2. CASE HandleStopAll
    <3>1. \A k \in Keys : ut.map[k] # o
      BY <2>2, CountStopsStops DEF LastInv, HandleStopAll
    <3> QED
      BY <1>2, <2>2, <3>1, StopAllSpares DEF HandleStopAll
  <2> QED
    BY <2>1, <2>2
<1>4. PICK keys : hist' = CountStops(keys)
  BY DEF HandleStop, HandleStopAll
<1>5. hist'[o].cycle = hist[o].cycle /\ hist'[o].runs = hist[o].runs
  BY <1>4, CountStopsFacts DEF LastInv
<1>6. AbortedTask(strand', o) => AbortedTask(strand, o)
  BY <1>1, PoppedTask DEF LastInv
<1> QED
  BY <1>3, <1>5, <1>6, SparedLasts

\* StartTimer arms the timer of its key, or makes one, which begins with its
\* whole cycle.
LEMMA StartLasts ==
  ASSUME LastInv, HandleStart
  PROVE  /\ \A o \in DOMAIN hist :
              ~ut.objs[o].exited /\ Alone(ut, hist, o) /\ hist'[o].starts = 1 => Lasts(o)
         /\ \A o \in DOMAIN hist' \ DOMAIN hist :
              Lasting(ut', strand', hist', o) /\ ~ut'.objs[o].exited
         /\ \A o \in DOMAIN hist' : \/ o \in DOMAIN hist /\ hist'[o].cycle = hist[o].cycle
                                    \/ hist'[o].cycle = Running.cycle
<1>hist. /\ hist \in Seq(HistRec) /\ DOMAIN hist = 1..Len(hist) /\ Len(hist) \in Nat
         /\ DOMAIN hist = DOMAIN ut.objs /\ Len(ut.objs) = Len(hist)
         /\ \A o \in DOMAIN hist : hist[o] \in HistRec
  BY HistFacts DEF LastInv
<1>1. strand # <<>> /\ strand' = Tail(strand) /\ Running.t = "start"
  BY DEF HandleStart, OnStrand
<1>2. Running.key \in Keys /\ Running.cycle \in Int
  BY <1>1, PopFacts DEF LastInv, Tasks, StartTask, StopTask, TimerTask
<1>3. Sound(ut)
  BY DEF LastInv, CycleInv, TimerInv
<1>4. \A o : AbortedTask(strand', o) => AbortedTask(strand, o)
  BY <1>1, PoppedTask DEF LastInv
<1> DEFINE old == ut.map[Running.key]
           new == Len(ut.objs) + 1
           v == MakeTimer(ut, Running.key, Running.cycle)
<1>5. CASE old # NoTimer
  <2>1. /\ ut' = Arm(ut, old) /\ old \in DOMAIN ut.objs
        /\ hist' = [hist EXCEPT ![old].starts = @ + 1]
    BY <1>2, <1>3, <1>5 DEF HandleStart, Sound, Agree
  <2> HIDE DEF old
  <2> DEFINE x == [hist[old] EXCEPT !.starts = @ + 1]
  <2>2. hist' = [hist EXCEPT ![old] = x]
    BY <2>1
  <2>3. x.starts # 1 /\ x.cycle = hist[old].cycle
    <3>1. hist[old] \in HistRec
      BY <1>hist, <2>1
    <3> QED
      BY <3>1 DEF HistRec
  <2> HIDE DEF x
  <2>4. /\ DOMAIN hist' = DOMAIN hist /\ hist'[old] = x
        /\ \A p \in DOMAIN hist \ {old} : hist'[p] = hist[p]
    BY <1>hist, <2>1, <2>2
  <2>5. ASSUME NEW o \in DOMAIN hist, ~ut.objs[o].exited, Alone(ut, hist, o),
               hist'[o].starts = 1
        PROVE  Lasts(o)
    <3>1. o # old
      BY <2>3, <2>4, <2>5
    <3>2. Spares(ut, ut', o)
      BY <1>hist, <1>3, <2>1, <3>1, ArmSpares
    <3> QED
      BY <1>4, <2>4, <2>5, <3>1, <3>2, SparedLasts
  <2>6. \A o \in DOMAIN hist' : o \in DOMAIN hist /\ hist'[o].cycle = hist[o].cycle
    BY <2>1, <2>3, <2>4
  <2> QED
    BY <2>4, <2>5, <2>6
<1>6. CASE old = NoTimer
  <2> DEFINE h == [cycle |-> Running.cycle, starts |-> 1, stops |-> 0, runs |-> 0]
  <2>1. ut' = Arm(v, new) /\ hist' = Append(hist, h)
    BY <1>6 DEF HandleStart, MakeTimer
  <2>2. /\ Sound(v) /\ new \in DOMAIN v.objs /\ v.ready = ut.ready
        /\ v.objs[new] = Object(Running.key, Running.cycle) /\ DOMAIN v.objs = 1..new
        /\ \A o \in DOMAIN ut.objs : v.objs[o] = ut.objs[o]
    <3> HIDE DEF v, new, old
    <3>1. ut.map[Running.key] = NoTimer
      BY <1>6 DEF old
    <3>2. new = Len(ut.objs) + 1
      BY DEF new
    <3>3. v = MakeTimer(ut, Running.key, Running.cycle)
      BY DEF v
    <3> QED
      BY <1>2, <1>3, <3>1, <3>2, <3>3, NewSound
  <2>3. new = Len(hist) + 1 /\ new \notin DOMAIN ut.objs /\ new \notin DOMAIN hist
    BY <1>hist
  <2> HIDE DEF v, new, old
  <2>4. ~v.objs[new].waiting /\ v.objs[new].left = Running.cycle
    BY <2>2 DEF Object
  <2>5. \A o \in DOMAIN v.objs : Spares(v, ut', o)
    BY <2>1, <2>2, <2>4, ArmSpares
  <2>6. /\ DOMAIN hist' = DOMAIN hist \cup {new} /\ hist'[new] = h
        /\ \A p \in DOMAIN hist : hist'[p] = hist[p]
    <3> HIDE DEF h
    <3> QED
      BY <1>hist, <2>1, <2>3
  <2>7. ASSUME NEW o \in DOMAIN hist, ~ut.objs[o].exited, Alone(ut, hist, o)
        PROVE  Lasts(o)
    <3>1. o \in DOMAIN v.objs /\ v.objs[o] = ut.objs[o]
      BY <1>hist, <2>2, <2>3
    <3>2. Spares(ut, v, o)
      BY <2>2, <3>1 DEF Spares, AbortedReady
    <3>3. Spares(ut, ut', o)
      BY <2>5, <3>1, <3>2, SparesTwice
    <3> QED
      BY <1>4, <2>6, <2>7, <3>3, SparedLasts
  <2>8. Lasting(ut', strand', hist', new) /\ ~ut'.objs[new].exited
    <3>1. ~AbortedReady(ut', new)
      <4>1. \A i \in DOMAIN ut.ready : ut.ready[i].obj \in DOMAIN ut.objs
        BY <1>3 DEF Sound, Agree
      <4>2. ~AbortedReady(v, new)
        BY <2>2, <2>3, <4>1 DEF AbortedReady
      <4> QED
        BY <2>2, <2>5, <4>2 DEF Spares
    <3>2. ~AbortedTask(strand', new)
      <4>1. \A i \in DOMAIN strand : strand[i].t = "timer" => strand[i].done.obj \in DOMAIN ut.objs
        BY DEF LastInv, CycleInv, TimerInv, StrandOK
      <4>2. ~AbortedTask(strand, new)
        BY <2>3, <4>1 DEF AbortedTask
      <4> QED
        BY <1>4, <4>2
    <3>3. ut'.objs[new].left = Running.cycle
      BY <2>2, <2>4, <2>5 DEF Spares
    <3>4. AddsUp(ut', hist', new)
      BY <1>2, <2>6, <3>3 DEF AddsUp
    <3>5. ~ut'.objs[new].exited
      BY <2>2, <2>5 DEF Spares, Object
    <3> QED
      BY <3>1, <3>2, <3>4, <3>5 DEF Lasting, Aborted
  <2>9. hist'[new].cycle = Running.cycle
    BY <2>6
  <2> QED
    BY <2>6, <2>7, <2>8, <2>9
<1> QED
  BY <1>5, <1>6

\* HandleUserTimers gives up the timer whose task has run only after the last
\* cycle, and no other timer without a stop.
LEMMA TimerLasts ==
  ASSUME LastInv, NEW o \in DOMAIN hist, ~ut.objs[o].exited, Alone(ut, hist, o),
         hist'[o].stops = 0, HandleUserTimers
  PROVE  Lasts(o)
<1> DEFINE p == Running.done.obj
           aborted == Running.done.aborted
<1>1. /\ p \in DOMAIN hist /\ aborted \in BOOLEAN
      /\ strand # <<>> /\ strand' = Tail(strand)
      /\ Running.t = "timer" /\ Running = strand[1] /\ 1 \in DOMAIN strand
      /\ \E u, g : Ran(u, g)
  BY TimerRuns DEF LastInv
<1>2. PICK u, g : Ran(u, g)
  BY <1>1
<1>3. /\ hist \in Seq(HistRec) /\ DOMAIN hist = DOMAIN ut.objs /\ hist[o] \in HistRec
      /\ Orderly(ut, strand, hist, o)
  BY HistFacts DEF LastInv, CycleInv
<1>4. AbortedTask(strand', o) => AbortedTask(strand, o)
  BY <1>1, PoppedTask DEF LastInv
<1>5. /\ Sound(u) /\ DOMAIN u.objs = DOMAIN ut.objs /\ DOMAIN g = DOMAIN hist
      /\ g \in Seq(HistRec) /\ ut' = AfterTask(u, p, aborted) /\ hist' = CountRun(g, p)
  BY <1>2 DEF Ran, Tame
<1>6. /\ hist'[o].cycle = hist[o].cycle /\ hist'[o].stops = g[o].stops
      /\ p # o => hist'[o].runs = hist[o].runs
      /\ p = o => hist'[o].runs = IF hist[o].runs < RunCap THEN hist[o].runs + 1
                                  ELSE hist[o].runs
  <2> HIDE DEF p
  <2>1. p \in DOMAIN g /\ o \in DOMAIN g
    BY <1>1, <1>5
  <2>2. /\ hist'[o].cycle = g[o].cycle /\ hist'[o].stops = g[o].stops
        /\ o # p => hist'[o].runs = g[o].runs
        /\ hist'[p].runs = IF g[p].runs < RunCap THEN g[p].runs + 1 ELSE g[p].runs
    BY <1>5, <2>1, CountRunFacts
  <2>3. g[o].cycle = hist[o].cycle /\ g[o].runs = hist[o].runs
    BY <1>2 DEF Ran
  <2> QED
    BY <2>2, <2>3
<1>7. Spares(ut, u, o)
  BY <1>2, <1>6 DEF Ran
<1>8. CASE p # o
  <2>1. u.objs[o].key # u.objs[p].key
    BY <1>1, <1>2, <1>3, <1>8 DEF Ran, Alone, Sole
  <2>2. Spares(u, ut', o)
    BY <1>1, <1>3, <1>5, <2>1, AfterTaskSpares
  <2>3. Spares(ut, ut', o)
    BY <1>7, <2>2, SparesTwice
  <2> QED
    BY <1>4, <1>6, <1>8, <2>3, SparedLasts
<1>9. CASE p = o
  <2>1. ~Aborted(ut, strand, o) /\ AddsUp(ut, hist, o)
    BY DEF LastInv, Lasting
  <2>2. ~aborted
    BY <1>1, <1>9, <2>1 DEF Aborted, AbortedTask
  <2>3. ~u.objs[o].waiting
    <3>1. InTransit(strand, o)
      BY <1>1, <1>9 DEF InTransit
    <3>2. ~ut.objs[o].waiting
      BY <1>3, <3>1 DEF Orderly, Once, Alone
    <3> QED
      BY <1>2, <1>3, <3>2 DEF Ran, Tame, TameFor
  <2> DEFINE left == ut.objs[o].left
  <2>4. u.objs[o].left = left /\ left \in Int
    <3>1. u.objs[o].left = left
      BY <1>7 DEF Spares
    <3>2. ut.objs[o] \in Obj
      BY <1>3 DEF LastInv, CycleInv, TimerInv, Sound, UtType
    <3> QED
      BY <3>1, <3>2 DEF Obj
  <2>5. ut' = AfterTask(u, o, FALSE)
    BY <1>1, <1>5, <1>9, <2>2
  <2>6. \/ LastCycle(left) /\ ut'.objs[o].exited
        \/ /\ ~LastCycle(left) /\ ut'.objs[o].left = CountDown(left)
           /\ ut'.objs[o].exited = u.objs[o].exited
           /\ AbortedReady(ut', o) => AbortedReady(u, o)
    <3> HIDE DEF p, aborted, left
    <3>1. o \in DOMAIN u.objs /\ Sound(u)
      BY <1>3, <1>5
    <3>2. \/ LastCycle(u.objs[o].left) /\ ut'.objs[o].exited
          \/ /\ ~LastCycle(u.objs[o].left) /\ ut'.objs[o].left = CountDown(u.objs[o].left)
             /\ ut'.objs[o].exited = u.objs[o].exited
             /\ AbortedReady(ut', o) => AbortedReady(u, o)
      BY <2>3, <2>5, <3>1, AfterOwnTask
    <3> QED
      BY <2>4, <3>2
  <2>7. /\ hist[o].runs \in Nat /\ hist[o].cycle \in Int /\ hist[o].cycle <= RunCap
        /\ hist'[o].runs = IF hist[o].runs < RunCap THEN hist[o].runs + 1 ELSE hist[o].runs
    BY <1>3, <1>6, <1>9 DEF HistRec, LastInv, Countable
  <2>8. \/ hist[o].cycle = Forever /\ left = Forever
        \/ /\ hist[o].cycle # Forever /\ left # Forever
           /\ hist[o].runs + left >= hist[o].cycle \/ hist[o].runs >= RunCap
    BY <1>3, <2>1 DEF AddsUp, Orderly, Counts, Alone
  <2> HIDE DEF left
  <2>9. CASE LastCycle(left) /\ ut'.objs[o].exited
    <3>1. hist[o].cycle # Forever /\ left <= 1
      BY <2>8, <2>9 DEF LastCycle
    <3>2. hist[o].runs + left >= hist[o].cycle \/ hist[o].runs >= RunCap
      BY <2>8, <3>1
    <3>3. hist'[o].runs >= hist[o].cycle
      BY <2>4, <2>7, <3>1, <3>2
    <3> QED
      BY <2>9, <3>1, <3>3 DEF Lasts
  <2>10. CASE /\ ~LastCycle(left) /\ ut'.objs[o].left = CountDown(left)
              /\ ut'.objs[o].exited = u.objs[o].exited
              /\ AbortedReady(ut', o) => AbortedReady(u, o)
    <3>1. ~Aborted(ut', strand', o)
      BY <1>4, <1>7, <2>1, <2>10 DEF Aborted, Spares
    <3>2. AddsUp(ut', hist', o)
      <4>1. CASE hist[o].cycle = Forever /\ left = Forever
        BY <1>6, <2>10, <4>1 DEF AddsUp, CountDown
      <4>2. CASE /\ hist[o].cycle # Forever /\ left # Forever
                 /\ hist[o].runs + left >= hist[o].cycle \/ hist[o].runs >= RunCap
        <5>1. ut'.objs[o].left = left - 1
          BY <2>10, <4>2 DEF CountDown
        <5>2. hist'[o].runs + (left - 1) >= hist[o].cycle \/ hist'[o].runs >= RunCap
          BY <2>4, <2>7, <4>2
        <5> QED
          BY <1>6, <4>2, <5>1, <5>2 DEF AddsUp
      <4> QED
        BY <2>8, <4>1, <4>2
    <3>3. ~ut'.objs[o].exited
      BY <1>7, <2>10 DEF Spares
    <3> QED
      BY <3>1, <3>2, <3>3 DEF Lasts
  <2> QED
    BY <2>6, <2>9, <2>10
<1> QED
  BY <1>8, <1>9

LEMMA OnlyStartAdds ==
  ASSUME LastInv, Next, NEW o \in DOMAIN hist' \ DOMAIN hist
  PROVE  HandleStart
<1>1. \A keys : DOMAIN CountStops(keys) = DOMAIN hist
  BY DEF CountStops
<1>2. HandleUserTimers => DOMAIN hist' = DOMAIN hist
  <2> SUFFICES ASSUME HandleUserTimers
               PROVE  DOMAIN hist' = DOMAIN hist
    OBVIOUS
  <2>1. PICK u, g : Ran(u, g)
    BY TimerRuns DEF LastInv
  <2>2. Running.done.obj \in DOMAIN g
    BY <2>1, TimerRuns DEF LastInv, Ran
  <2> QED
    BY <2>1, <2>2, CountRunFacts DEF Ran
<1> QED
  BY <1>1, <1>2
     DEF Next, IoThreadStep, CallStart, CallStop, CallStopAll, Deliver, Expire,
         HandleStop, HandleStopAll

\* A new timer has the cycle that StartTimer posted.
LEMMA CountableNext ==
  ASSUME LastInv, Next, \A c \in Cycles : c <= RunCap
  PROVE  Countable(strand', hist')
<1>type. strand \in Seq(Tasks)
  BY DEF LastInv, CycleInv, TimerInv, StrandOK
<1>1. ASSUME NEW i \in DOMAIN strand', strand'[i].t = "start"
      PROVE  strand'[i].cycle <= RunCap
  <2>1. ASSUME NEW x \in Tasks, strand' = Append(strand, x), x.t = "start" => x.cycle <= RunCap
        PROVE  strand'[i].cycle <= RunCap
    BY <1>type, <1>1, <2>1, TasksAppend DEF LastInv, Countable
  <2>2. ASSUME strand # <<>>, strand' = Tail(strand)
        PROVE  strand'[i].cycle <= RunCap
    <3>1. i + 1 \in DOMAIN strand /\ strand'[i] = strand[i + 1]
      BY <1>type, <1>1, <2>2, TasksTail
    <3> QED
      BY <1>1, <3>1 DEF LastInv, Countable
  <2>3. CASE \E key \in Keys, cycle \in Cycles : CallStart(key, cycle)
    <3>1. PICK key \in Keys, cycle \in Cycles : CallStart(key, cycle)
      BY <2>3
    <3> DEFINE x == [t |-> "start", key |-> key, cycle |-> cycle]
    <3>2. x \in Tasks /\ x.cycle = cycle /\ strand' = Append(strand, x)
      BY <3>1 DEF Tasks, StartTask, CallStart
    <3>3. cycle <= RunCap
      OBVIOUS
    <3> HIDE DEF x
    <3> QED
      BY <2>1, <3>2, <3>3
  <2>4. CASE \E key \in Keys : CallStop(key)
    <3>1. PICK key \in Keys : CallStop(key)
      BY <2>4
    <3>2. [t |-> "stop", key |-> key] \in Tasks
      BY DEF Tasks, StopTask
    <3> QED
      BY <2>1, <3>1, <3>2 DEF CallStop
  <2>5. CASE CallStopAll
    <3>1. [t |-> "stopAll"] \in Tasks
      BY DEF Tasks, StopTask
    <3> QED
      BY <2>1, <2>5, <3>1 DEF CallStopAll
  <2>6. CASE Deliver
    <3>1. Head(ut.ready) \in Ends
      BY <2>6, EndsTail DEF Deliver, LastInv, CycleInv, TimerInv, Sound, UtType
    <3>2. [t |-> "timer", done |-> Head(ut.ready)] \in Tasks
      BY <3>1 DEF Tasks, TimerTask
    <3> QED
      BY <2>1, <2>6, <3>2 DEF Deliver
  <2>7. CASE HandleStart \/ HandleStop \/ HandleStopAll \/ HandleUserTimers
    BY <2>2, <2>7 DEF HandleStart, HandleStop, HandleStopAll, HandleUserTimers, OnStrand
  <2>8. CASE \E p \in 1..MaxStarts : Expire(p)
    BY <1>1, <2>8 DEF Expire, LastInv, Countable
  <2> QED
    BY <2>3, <2>4, <2>5, <2>6, <2>7, <2>8 DEF Next, IoThreadStep
<1>2. ASSUME NEW o \in DOMAIN hist'
      PROVE  hist'[o].cycle <= RunCap
  <2>1. CASE o \in DOMAIN hist
    BY <2>1, HistStays DEF LastInv, Countable
  <2>2. CASE o \notin DOMAIN hist
    <3>1. HandleStart
      BY <1>2, <2>2, OnlyStartAdds
    <3>2. hist'[o].cycle = Running.cycle
      BY <1>2, <2>2, <3>1, StartLasts
    <3>3. Running.t = "start" /\ Running = strand[1] /\ 1 \in DOMAIN strand
      BY <1>type, <3>1, TasksTail DEF HandleStart, OnStrand, Running
    <3> QED
      BY <3>2, <3>3 DEF LastInv, Countable
  <2> QED
    BY <2>1, <2>2
<1> QED
  BY <1>1, <1>2 DEF Countable

LEMMA StepLasts ==
  ASSUME LastInv, Next, NEW o \in DOMAIN hist, ~ut.objs[o].exited, Alone(ut', hist', o)
  PROVE  Lasts(o)
<1>1. Alone(ut, hist, o) /\ hist'[o].starts = 1 /\ hist'[o].stops = 0
  BY AloneStays DEF Alone
<1> QED
  BY <1>1, CallLasts, DeliverLasts, ExpireLasts, StartLasts, StopLasts, TimerLasts
     DEF Next, IoThreadStep

\* An object that has exited stays so.
LEMMA ExitStays ==
  ASSUME LastInv, Next, NEW o \in DOMAIN hist, ut.objs[o].exited
  PROVE  ut'.objs[o].exited
<1>1. Sound(ut) /\ Sound(ut') /\ o \in DOMAIN ut.objs
  BY HistFacts, NextCycleInv DEF LastInv, CycleInv, TimerInv
<1>2. ut.objs[o].key \in Keys /\ o \in Nat
  <2>1. ut.objs[o] \in Obj /\ o \in Nat
    BY <1>1 DEF Sound, UtType
  <2> QED
    BY <2>1 DEF Obj
<1>3. ut.map[ut.objs[o].key] # o
  BY <1>1, <1>2 DEF Sound, Agree
<1>4. o \in DOMAIN ut'.objs /\ ut'.map[ut'.objs[o].key] # o
  BY <1>1, <1>2, <1>3, KeysStay
<1> QED
  BY <1>1, <1>4 DEF Sound, Agree

LEMMA InitLastInv == Init => LastInv
<1> SUFFICES ASSUME Init
             PROVE  LastInv
  OBVIOUS
<1>1. hist = <<>> /\ strand = <<>>
  BY DEF Init
<1> QED
  BY <1>1, InitCycleInv DEF LastInv, Countable

LEMMA NextLastInv ==
  ASSUME LastInv, [Next]_vars, \A c \in Cycles : c <= RunCap
  PROVE  LastInv'
<1>1. CycleInv'
  BY NextCycleInv DEF LastInv
<1>2. CASE UNCHANGED vars
  <2>1. ut' = ut /\ strand' = strand /\ hist' = hist
    BY <1>2 DEF vars
  <2> QED
    BY <1>1, <2>1 DEF LastInv
<1>3. CASE Next
  <2>1. Countable(strand', hist')
    BY <1>3, CountableNext
  <2>2. ASSUME NEW o \in DOMAIN hist'
        PROVE  Lasting(ut', strand', hist', o)
    <3>1. CASE o \in DOMAIN hist
      <4> SUFFICES ASSUME Alone(ut', hist', o), ~ut'.objs[o].exited
                   PROVE  ~Aborted(ut', strand', o) /\ AddsUp(ut', hist', o)
        BY DEF Lasting
      <4>1. ~ut.objs[o].exited
        BY <1>3, <3>1, ExitStays
      <4> QED
        BY <1>3, <3>1, <4>1, StepLasts DEF Lasts
    <3>2. CASE o \notin DOMAIN hist
      <4>1. HandleStart
        BY <1>3, <2>2, <3>2, OnlyStartAdds
      <4> QED
        BY <2>2, <3>2, <4>1, StartLasts
    <3> QED
      BY <3>1, <3>2
  <2> QED
    BY <1>1, <2>1, <2>2 DEF LastInv
<1> QED
  BY <1>2, <1>3

-----------------------------------------------------------------------------
\* HandleUserTimers gives up a timer that was started once and never stopped only
\* when its task has run cycle times, and never if it has no cycle; the hypothesis
\* is that RunCap, which bounds the count of the runs, is beyond every cycle.
THEOREM TimersRunOut ==
  ASSUME \A c \in Cycles : c <= RunCap
  PROVE  Spec => LeavesAfterItsCycles
<1>1. LastInv /\ [Next]_vars => LastInv'
  BY NextLastInv
<1> DEFINE Leaves ==
      \A o \in 1..MaxStarts :
        ~Exited(o) /\ Exited(o)' /\ Undisturbed(o)' =>
          hist[o].cycle # Forever /\ hist'[o].runs >= hist[o].cycle
<1>2. LastInv /\ [Next]_vars => [Leaves]_vars
  <2> SUFFICES ASSUME LastInv, Next, NEW o \in 1..MaxStarts,
                      ~Exited(o), Exited(o)', Undisturbed(o)'
               PROVE  hist[o].cycle # Forever /\ hist'[o].runs >= hist[o].cycle
    OBVIOUS
  <2>1. DOMAIN hist = DOMAIN ut.objs /\ DOMAIN hist' = DOMAIN ut'.objs
    BY HistFacts, NextCycleInv DEF LastInv, CycleInv, HistOK
  <2>2. o \in DOMAIN ut'.objs /\ ut'.objs[o].exited /\ Alone(ut', hist', o)
    BY DEF Exited, Undisturbed, Alone, Sole
  <2>3. CASE o \in DOMAIN hist
    <3>1. ~ut.objs[o].exited
      BY <2>1, <2>3 DEF Exited
    <3> QED
      BY <2>2, <2>3, <3>1, StepLasts DEF Lasts
  <2>4. CASE o \notin DOMAIN hist
    <3>1. HandleStart
      BY <2>1, <2>2, <2>4, OnlyStartAdds
    <3> QED
      BY <2>1, <2>2, <2>4, <3>1, StartLasts
  <2> QED
    BY <2>3, <2>4
<1> QED
  BY InitLastInv, <1>1, <1>2, PTL DEF Spec, LeavesAfterItsCycles
=============================================================================
