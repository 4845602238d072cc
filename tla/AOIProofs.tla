----------------------------- MODULE AOIProofs -----------------------------
(***************************************************************************)
(* TLAPS proofs about the area of interest: the lists stay whole in every  *)
(* step of every loop, they are sorted between two calls, and the passes   *)
(* that are told are the passes that happen.                               *)
(*                                                                         *)
(* The proof numbers the nodes of a list.  Links, coordinates and what was *)
(* told are facts about these numbers, and a pass swaps two of them.       *)
(***************************************************************************)
EXTENDS AOI, FiniteSetTheorems, WellFoundedInduction, TLAPS

-----------------------------------------------------------------------------
(* Numbered lists.                                                         *)

\* p numbers the k nodes of L from 1 on.
Numbers(L, k, p) ==
  /\ k \in Nat /\ p \in [L -> 1..k]
  /\ \A m, n \in L : p[m] = p[n] => m = n
  /\ \A i \in 1..k : \E n \in L : p[n] = i

\* The links towards the end of the list, and those towards the front.
Onwards(first, next, L, k, p) ==
  /\ IF k = 0 THEN first = Nil ELSE first \in L /\ p[first] = 1
  /\ \A n \in L : IF p[n] = k THEN next[n] = Nil
                  ELSE next[n] \in L /\ p[next[n]] = p[n] + 1
Backwards(prev, L, p) ==
  \A n \in L : IF p[n] = 1 THEN prev[n] = Nil
               ELSE prev[n] \in L /\ p[prev[n]] = p[n] - 1

Lined(l, L, k, p) ==
  Numbers(L, k, p) /\ Onwards(l.first, l.next, L, k, p) /\ Backwards(l.prev, L, p)

-----------------------------------------------------------------------------
(* A walk along a list meets its nodes in the order of their numbers.      *)

LEMMA LeastNat ==
  ASSUME NEW T, T \subseteq Nat, T # {}
  PROVE  \E x \in T : \A y \in T : x <= y
<1> DEFINE R == OpToRel(<, Nat)
<1>1. IsWellFoundedOn(R, Nat)
  BY NatLessThanWellFounded
<1>2. \A x, y \in Nat : y < x => <<y, x>> \in R
  BY DEF OpToRel
<1> HIDE DEF R
<1>3. PICK x \in T : \A y \in T : ~(<<y, x>> \in R)
  BY <1>1, WFMin
<1>4. \A y \in T : ~(y < x)
  BY <1>2, <1>3
<1>5. ASSUME NEW y \in T PROVE x <= y
  <2>1. x \in Nat /\ y \in Nat /\ ~(y < x)
    BY <1>4
  <2> QED
    BY <2>1
<1> QED
  BY <1>3, <1>5

\* The node of a number, and the sequence a walk makes.
Numbered(L, p, i) == CHOOSE n \in L : p[n] = i
Expected(L, k, p) ==
  [i \in 1..(Cardinality(Node) + 1) |-> IF i <= k THEN Numbered(L, p, i) ELSE Nil]

LEMMA NumberedFacts ==
  ASSUME NEW L, NEW k, NEW p, Numbers(L, k, p)
  PROVE  /\ \A i \in 1..k : Numbered(L, p, i) \in L /\ p[Numbered(L, p, i)] = i
         /\ \A n \in L : p[n] \in 1..k /\ Numbered(L, p, p[n]) = n
<1>1. \A i \in 1..k : Numbered(L, p, i) \in L /\ p[Numbered(L, p, i)] = i
  BY DEF Numbers, Numbered
<1> QED
  BY <1>1 DEF Numbers

\* The walk is the one function that satisfies its recursion.
Follows(l, f) ==
  f = [i \in 1..(Cardinality(Node) + 1) |->
         IF i = 1 THEN l.first ELSE IF f[i - 1] = Nil THEN Nil ELSE l.next[f[i - 1]]]

LEMMA WalkIs ==
  ASSUME NEW l, NEW L \in SUBSET Node, NEW k, NEW p, Numbers(L, k, p),
         Onwards(l.first, l.next, L, k, p), Nil \notin Node, Cardinality(Node) \in Nat
  PROVE  Walk(l) = Expected(L, k, p)
<1> DEFINE N == Cardinality(Node)
           w == Expected(L, k, p)
<1>1. N \in Nat /\ k \in Nat
  BY DEF Numbers
<1>2. \A i \in 1..k : Numbered(L, p, i) \in L /\ p[Numbered(L, p, i)] = i
  BY NumberedFacts
<1>3. \A n \in L : p[n] \in 1..k /\ Numbered(L, p, p[n]) = n
  BY NumberedFacts
<1>4. Follows(l, w)
  <2>1. ASSUME NEW i \in 1..(N + 1)
        PROVE  w[i] = IF i = 1 THEN l.first
                      ELSE IF w[i - 1] = Nil THEN Nil ELSE l.next[w[i - 1]]
    <3>1. w[i] = IF i <= k THEN Numbered(L, p, i) ELSE Nil
      BY DEF Expected
    <3>2. CASE i = 1
      BY <1>1, <1>2, <1>3, <3>1, <3>2 DEF Onwards
    <3>3. CASE i # 1
      <4>1. i - 1 \in 1..(N + 1) /\ i - 1 \in Nat /\ i - 1 >= 1
        BY <1>1, <3>3
      <4>2. w[i - 1] = IF i - 1 <= k THEN Numbered(L, p, i - 1) ELSE Nil
        BY <4>1 DEF Expected
      <4> DEFINE m == Numbered(L, p, i - 1)
      <4> HIDE DEF w
      <4>3. CASE i - 1 > k
        BY <1>1, <3>1, <3>3, <4>1, <4>2, <4>3
      <4>4. CASE i - 1 <= k
        <5>1. m \in L /\ p[m] = i - 1 /\ m # Nil /\ w[i - 1] = m
          BY <1>1, <1>2, <4>1, <4>2, <4>4
        <5> HIDE DEF m
        <5>2. CASE i - 1 = k
          BY <1>1, <3>1, <3>3, <5>1, <5>2 DEF Onwards
        <5>3. CASE i - 1 # k
          <6>1. l.next[m] \in L /\ p[l.next[m]] = i
            BY <1>1, <4>1, <5>1, <5>3 DEF Onwards
          <6>2. i <= k /\ Numbered(L, p, i) = l.next[m]
            BY <1>1, <1>3, <4>1, <4>4, <5>3, <6>1
          <6> QED
            BY <3>1, <3>3, <5>1, <6>2
        <5> QED
          BY <5>2, <5>3
      <4> QED
        BY <1>1, <4>1, <4>3, <4>4
    <3> QED
      BY <3>2, <3>3
  <2>2. w = [i \in 1..(N + 1) |-> w[i]]
    BY DEF Expected
  <2> HIDE DEF w
  <2> QED
    BY <2>1, <2>2 DEF Follows
<1>5. Walk(l) = CHOOSE f : Follows(l, f)
  BY DEF Walk, Follows
<1> HIDE DEF w
<1>6. Follows(l, Walk(l))
  BY <1>4, <1>5
<1> DEFINE f == Walk(l)
<1> HIDE DEF f
<1>7. Follows(l, f)
  BY <1>6 DEF f
<1> DEFINE T == {i \in 1..(N + 1) : f[i] # w[i]}
<1>8. T = {}
  <2> SUFFICES ASSUME T # {} PROVE FALSE
    OBVIOUS
  <2>1. T \subseteq Nat
    BY <1>1
  <2>2. PICK i \in T : \A j \in T : i <= j
    BY <2>1, LeastNat
  <2>3. i \in 1..(N + 1) /\ f[i] # w[i]
    OBVIOUS
  <2>4. /\ f[i] = IF i = 1 THEN l.first ELSE IF f[i - 1] = Nil THEN Nil ELSE l.next[f[i - 1]]
        /\ w[i] = IF i = 1 THEN l.first ELSE IF w[i - 1] = Nil THEN Nil ELSE l.next[w[i - 1]]
    BY <1>4, <1>7, <2>3 DEF Follows
  <2>5. i # 1
    BY <2>3, <2>4
  <2>6. i - 1 \in 1..(N + 1) /\ ~(i <= i - 1)
    BY <1>1, <2>3, <2>5
  <2>7. i - 1 \notin T
    BY <2>2, <2>6
  <2>8. f[i - 1] = w[i - 1]
    BY <2>6, <2>7
  <2> QED
    BY <2>3, <2>4, <2>8
<1>9. f = [i \in 1..(N + 1) |-> f[i]] /\ w = [i \in 1..(N + 1) |-> w[i]]
  BY <1>4, <1>7 DEF Follows
<1>10. \A i \in 1..(N + 1) : f[i] = w[i]
  BY <1>8
<1>11. f = w
  BY <1>9, <1>10
<1> QED
  BY <1>11 DEF f, w

-----------------------------------------------------------------------------
(* The operators on the links of an axis.                                  *)

Links == [first : Node \cup {Nil}, prev : [Node -> Node \cup {Nil}],
          next : [Node -> Node \cup {Nil}]]

\* The first link and those both ways at any node, of a record made anew.
LEMMA LinksType ==
  ASSUME NEW l \in Links, NEW n \in Node, Nil \notin Node
  PROVE  /\ l.first # Nil => PushedFront(l, n) \in Links
         /\ \A c \in Node : MovedBack(l, n, c) \in Links /\ MovedOn(l, n, c) \in Links
         /\ Unlinked(l, n) \in Links
<1>1. l.first \in Node \cup {Nil} /\ l.prev \in [Node -> Node \cup {Nil}]
      /\ l.next \in [Node -> Node \cup {Nil}]
  BY DEF Links
<1>2. l.first # Nil => PushedFront(l, n) \in Links
  BY <1>1 DEF PushedFront, Links
<1>3. \A c \in Node : MovedBack(l, n, c) \in Links
  BY <1>1 DEF MovedBack, Links
<1>4. \A c \in Node : MovedOn(l, n, c) \in Links
  BY <1>1 DEF MovedOn, Links
<1>5. Unlinked(l, n) \in Links
  BY <1>1 DEF Unlinked, Links
<1> QED
  BY <1>2, <1>3, <1>4, <1>5

\* The numbers after each of them.
PushedNumbers(L, p, n) == [m \in L \cup {n} |-> IF m = n THEN 1 ELSE p[m] + 1]
SwappedNumbers(L, p, n, c) ==
  [m \in L |-> IF m = n THEN p[c] ELSE IF m = c THEN p[n] ELSE p[m]]
ClosedNumbers(L, p, n) == [m \in L \ {n} |-> IF p[m] > p[n] THEN p[m] - 1 ELSE p[m]]

LEMMA PushedLined ==
  ASSUME NEW l \in Links, NEW L \in SUBSET Node, NEW k, NEW p, Lined(l, L, k, p),
         NEW n \in Node \ L, Nil \notin Node, l.first # Nil, l.prev[n] = Nil
  PROVE  Lined(PushedFront(l, n), L \cup {n}, k + 1, PushedNumbers(L, p, n))
<1> DEFINE d == PushedFront(l, n)
           q == PushedNumbers(L, p, n)
           M == L \cup {n}
<1>1. /\ k \in Nat /\ p \in [L -> 1..k] /\ \A m, j \in L : p[m] = p[j] => m = j
      /\ \A i \in 1..k : \E m \in L : p[m] = i
      /\ l.first \in L /\ p[l.first] = 1 /\ k # 0
  BY DEF Lined, Numbers, Onwards
<1>2. /\ d.first = n
      /\ \A m \in Node : d.prev[m] = IF m = l.first THEN n ELSE l.prev[m]
      /\ \A m \in Node : d.next[m] = IF m = n THEN l.first ELSE l.next[m]
  BY <1>1 DEF PushedFront, Links
<1>3. /\ q[n] = 1 /\ \A m \in L : q[m] = p[m] + 1 /\ q[m] \in 2..(k + 1) /\ m # n
      /\ q = [m \in M |-> q[m]]
  BY <1>1 DEF PushedNumbers
<1> HIDE DEF d, q
<1>4. Numbers(M, k + 1, q)
  <2>1. k + 1 \in Nat /\ \A m \in M : q[m] \in 1..(k + 1)
    BY <1>1, <1>3
  <2>2. q \in [M -> 1..(k + 1)]
    BY <1>3, <2>1
  <2>3. \A m, j \in M : q[m] = q[j] => m = j
    BY <1>1, <1>3
  <2>4. ASSUME NEW i \in 1..(k + 1) PROVE \E m \in M : q[m] = i
    <3>1. CASE i = 1
      BY <1>3, <3>1
    <3>2. CASE i # 1
      <4>1. i - 1 \in 1..k
        BY <1>1, <3>2
      <4>2. PICK m \in L : p[m] = i - 1
        BY <1>1, <4>1
      <4> QED
        BY <1>3, <4>1, <4>2
    <3> QED
      BY <3>1, <3>2
  <2> QED
    BY <2>1, <2>2, <2>3, <2>4 DEF Numbers
<1>5. Onwards(d.first, d.next, M, k + 1, q)
  <2>1. ASSUME NEW m \in M
        PROVE  IF q[m] = k + 1 THEN d.next[m] = Nil
               ELSE d.next[m] \in M /\ q[d.next[m]] = q[m] + 1
    <3>1. CASE m = n
      BY <1>1, <1>2, <1>3, <3>1
    <3>2. CASE m # n
      <4>1. m \in L /\ d.next[m] = l.next[m] /\ q[m] = p[m] + 1 /\ p[m] \in 1..k
        BY <1>1, <1>2, <1>3, <3>2
      <4>2. IF p[m] = k THEN l.next[m] = Nil ELSE l.next[m] \in L /\ p[l.next[m]] = p[m] + 1
        BY <4>1 DEF Lined, Onwards
      <4> QED
        BY <1>1, <1>3, <4>1, <4>2
    <3> QED
      BY <3>1, <3>2
  <2>2. k + 1 # 0 /\ d.first \in M /\ q[d.first] = 1
    BY <1>1, <1>2, <1>3
  <2> HIDE DEF M
  <2> QED
    BY <2>1, <2>2 DEF Onwards
<1>6. Backwards(d.prev, M, q)
  <2>1. ASSUME NEW m \in M
        PROVE  IF q[m] = 1 THEN d.prev[m] = Nil
               ELSE d.prev[m] \in M /\ q[d.prev[m]] = q[m] - 1
    <3>1. CASE m = n
      BY <1>1, <1>2, <1>3, <3>1
    <3>2. CASE m = l.first
      BY <1>1, <1>2, <1>3, <3>2
    <3>3. CASE m # n /\ m # l.first
      <4>1. m \in L /\ d.prev[m] = l.prev[m] /\ q[m] = p[m] + 1 /\ p[m] \in 1..k /\ p[m] # 1
        BY <1>1, <1>2, <1>3, <3>3
      <4>2. l.prev[m] \in L /\ p[l.prev[m]] = p[m] - 1
        BY <4>1 DEF Lined, Backwards
      <4> QED
        BY <1>1, <1>3, <4>1, <4>2
    <3> QED
      BY <3>1, <3>2, <3>3
  <2> QED
    BY <2>1 DEF Backwards
<1> QED
  BY <1>4, <1>5, <1>6 DEF Lined, d, q

LEMMA SwappedFacts ==
  ASSUME NEW L, NEW k, NEW p, Numbers(L, k, p), NEW n \in L, NEW c \in L, n # c
  PROVE  LET q == SwappedNumbers(L, p, n, c)
         IN  /\ Numbers(L, k, q) /\ q[n] = p[c] /\ q[c] = p[n]
             /\ \A m \in L : m # n /\ m # c => q[m] = p[m]
<1> DEFINE q == SwappedNumbers(L, p, n, c)
<1>1. /\ k \in Nat /\ p \in [L -> 1..k] /\ \A m, j \in L : p[m] = p[j] => m = j
      /\ \A i \in 1..k : \E m \in L : p[m] = i
  BY DEF Numbers
<1>2. /\ q[n] = p[c] /\ q[c] = p[n]
      /\ \A m \in L : m # n /\ m # c => q[m] = p[m]
      /\ q = [m \in L |-> q[m]]
  BY DEF SwappedNumbers
<1> HIDE DEF q
<1>3. q \in [L -> 1..k]
  BY <1>1, <1>2
<1>4. \A m, j \in L : q[m] = q[j] => m = j
  BY <1>1, <1>2
<1>5. ASSUME NEW i \in 1..k PROVE \E m \in L : q[m] = i
  <2>1. PICK m \in L : p[m] = i
    BY <1>1
  <2>2. CASE m = n
    BY <1>2, <2>1, <2>2
  <2>3. CASE m = c
    BY <1>2, <2>1, <2>3
  <2>4. CASE m # n /\ m # c
    BY <1>2, <2>1, <2>4
  <2> QED
    BY <2>2, <2>3, <2>4
<1>6. Numbers(L, k, q)
  BY <1>1, <1>3, <1>4, <1>5 DEF Numbers
<1> QED
  BY <1>2, <1>6 DEF q

\* A pass towards the front, and one towards the end.
LEMMA BackLined ==
  ASSUME NEW l \in Links, NEW L \in SUBSET Node, NEW k, NEW p, Lined(l, L, k, p),
         NEW n \in L, Nil \notin Node, l.prev[n] # Nil
  PROVE  LET c == l.prev[n]
             q == SwappedNumbers(L, p, n, c)
         IN  /\ c \in L /\ c # n /\ p[c] = p[n] - 1
             /\ Lined(MovedBack(l, n, c), L, k, q)
<1> DEFINE c == l.prev[n]
           q == SwappedNumbers(L, p, n, c)
           d == MovedBack(l, n, c)
<1>1. /\ k \in Nat /\ p \in [L -> 1..k] /\ \A m, j \in L : p[m] = p[j] => m = j
      /\ IF k = 0 THEN l.first = Nil ELSE l.first \in L /\ p[l.first] = 1
  BY DEF Lined, Numbers, Onwards
<1>2. \A m \in L : IF p[m] = k THEN l.next[m] = Nil
                   ELSE l.next[m] \in L /\ p[l.next[m]] = p[m] + 1
  BY DEF Lined, Onwards
<1>3. \A m \in L : IF p[m] = 1 THEN l.prev[m] = Nil
                   ELSE l.prev[m] \in L /\ p[l.prev[m]] = p[m] - 1
  BY DEF Lined, Backwards
<1>4. c \in L /\ p[n] \in 2..k /\ p[c] = p[n] - 1 /\ c # n
  BY <1>1, <1>3
<1> HIDE DEF c
<1>5. /\ Numbers(L, k, q) /\ q[n] = p[c] /\ q[c] = p[n]
      /\ \A m \in L : m # n /\ m # c => q[m] = p[m]
  BY <1>4, SwappedFacts DEF Lined
<1>6. /\ d.first = IF l.prev[c] = Nil THEN n
                   ELSE IF n = l.first /\ l.next[n] # Nil THEN l.next[n] ELSE l.first
      /\ \A m \in Node : d.prev[m] = IF m = n THEN l.prev[c] ELSE IF m = c THEN n
                                     ELSE IF m = l.next[n] THEN c ELSE l.prev[m]
      /\ \A m \in Node : d.next[m] = IF m = n THEN c ELSE IF m = c THEN l.next[n]
                                     ELSE IF m = l.prev[c] THEN n ELSE l.next[m]
  BY DEF MovedBack
<1> HIDE DEF d, q
<1>7. k # 0 /\ d.first \in L /\ q[d.first] = 1
  <2>1. CASE p[c] = 1
    BY <1>1, <1>3, <1>4, <1>5, <1>6, <2>1
  <2>2. CASE p[c] # 1
    <3>1. l.prev[c] # Nil /\ l.first # n /\ l.first # c
      BY <1>1, <1>3, <1>4, <2>2
    <3> QED
      BY <1>1, <1>4, <1>5, <1>6, <3>1
  <2> QED
    BY <2>1, <2>2
<1>8. ASSUME NEW m \in L
      PROVE  IF q[m] = k THEN d.next[m] = Nil ELSE d.next[m] \in L /\ q[d.next[m]] = q[m] + 1
  <2>1. CASE m = n
    BY <1>1, <1>4, <1>5, <1>6, <2>1
  <2>2. CASE m = c
    <3>1. q[m] = p[n] /\ d.next[m] = l.next[n]
      BY <1>4, <1>5, <1>6, <2>2
    <3>2. l.next[n] \in L /\ p[l.next[n]] = p[n] + 1 => l.next[n] # n /\ l.next[n] # c
      BY <1>1, <1>4
    <3> QED
      BY <1>2, <1>5, <3>1, <3>2
  <2>3. CASE m # n /\ m # c
    <3>1. q[m] = p[m]
      BY <1>5, <2>3
    <3>2. CASE m = l.prev[c]
      <4>1. p[m] = p[c] - 1 /\ d.next[m] = n
        BY <1>3, <1>4, <1>6, <2>3, <3>2
      <4> QED
        BY <1>1, <1>4, <1>5, <3>1, <4>1
    <3>3. CASE m # l.prev[c]
      <4>1. d.next[m] = l.next[m]
        BY <1>6, <2>3, <3>3
      <4>2. CASE p[m] = k
        BY <1>2, <3>1, <4>1, <4>2
      <4>3. CASE p[m] # k
        <5>1. l.next[m] \in L /\ p[l.next[m]] = p[m] + 1
          BY <1>2, <4>3
        <5>2. l.next[m] # n
          <6> SUFFICES ASSUME l.next[m] = n PROVE FALSE
            OBVIOUS
          <6> QED
            BY <1>1, <1>4, <2>3, <5>1
        <5>3. l.next[m] # c
          <6> SUFFICES ASSUME l.next[m] = c PROVE FALSE
            OBVIOUS
          <6>1. p[c] # 1 /\ p[m] = p[c] - 1
            BY <1>1, <5>1
          <6>2. l.prev[c] \in L /\ p[l.prev[c]] = p[m]
            BY <1>3, <1>4, <6>1
          <6> QED
            BY <1>1, <3>3, <6>2
        <5> QED
          BY <1>5, <3>1, <4>1, <4>3, <5>1, <5>2, <5>3
      <4> QED
        BY <4>2, <4>3
    <3> QED
      BY <3>2, <3>3
  <2> QED
    BY <2>1, <2>2, <2>3
<1>9. ASSUME NEW m \in L
      PROVE  IF q[m] = 1 THEN d.prev[m] = Nil ELSE d.prev[m] \in L /\ q[d.prev[m]] = q[m] - 1
  <2>1. CASE m = n
    <3>1. q[m] = p[c] /\ d.prev[m] = l.prev[c]
      BY <1>5, <1>6, <2>1
    <3>2. l.prev[c] \in L /\ p[l.prev[c]] = p[c] - 1 => l.prev[c] # n /\ l.prev[c] # c
      BY <1>1, <1>4
    <3> QED
      BY <1>3, <1>4, <1>5, <3>1, <3>2
  <2>2. CASE m = c
    BY <1>1, <1>4, <1>5, <1>6, <2>2
  <2>3. CASE m # n /\ m # c
    <3>1. q[m] = p[m]
      BY <1>5, <2>3
    <3>2. CASE m = l.next[n]
      <4>1. p[m] = p[n] + 1 /\ d.prev[m] = c
        BY <1>2, <1>4, <1>6, <2>3, <3>2
      <4> QED
        BY <1>1, <1>4, <1>5, <3>1, <4>1
    <3>3. CASE m # l.next[n]
      <4>1. d.prev[m] = l.prev[m]
        BY <1>6, <2>3, <3>3
      <4>2. CASE p[m] = 1
        BY <1>3, <3>1, <4>1, <4>2
      <4>3. CASE p[m] # 1
        <5>1. l.prev[m] \in L /\ p[l.prev[m]] = p[m] - 1
          BY <1>3, <4>3
        <5>2. l.prev[m] # c
          <6> SUFFICES ASSUME l.prev[m] = c PROVE FALSE
            OBVIOUS
          <6> QED
            BY <1>1, <1>4, <2>3, <5>1
        <5>3. l.prev[m] # n
          <6> SUFFICES ASSUME l.prev[m] = n PROVE FALSE
            OBVIOUS
          <6>1. p[n] # k /\ p[m] = p[n] + 1
            BY <1>1, <5>1
          <6>2. l.next[n] \in L /\ p[l.next[n]] = p[m]
            BY <1>2, <6>1
          <6> QED
            BY <1>1, <3>3, <6>2
        <5> QED
          BY <1>5, <3>1, <4>1, <4>3, <5>1, <5>2, <5>3
      <4> QED
        BY <4>2, <4>3
    <3> QED
      BY <3>2, <3>3
  <2> QED
    BY <2>1, <2>2, <2>3
<1>10. Onwards(d.first, d.next, L, k, q) /\ Backwards(d.prev, L, q)
  BY <1>7, <1>8, <1>9 DEF Onwards, Backwards
<1> QED
  BY <1>4, <1>5, <1>10 DEF Lined, c, d, q

\* To move n behind c is to move c in front of n.
LEMMA OnLined ==
  ASSUME NEW l \in Links, NEW L \in SUBSET Node, NEW k, NEW p, Lined(l, L, k, p),
         NEW n \in L, Nil \notin Node, l.next[n] # Nil
  PROVE  LET c == l.next[n]
             q == SwappedNumbers(L, p, n, c)
         IN  /\ c \in L /\ c # n /\ p[c] = p[n] + 1
             /\ Lined(MovedOn(l, n, c), L, k, q)
<1> DEFINE c == l.next[n]
<1>1. /\ k \in Nat /\ p \in [L -> 1..k] /\ \A m, j \in L : p[m] = p[j] => m = j
      /\ IF k = 0 THEN l.first = Nil ELSE l.first \in L /\ p[l.first] = 1
  BY DEF Lined, Numbers, Onwards
<1>2. c \in L /\ p[c] = p[n] + 1
  BY DEF Lined, Onwards
<1> HIDE DEF c
<1>3. \A m \in L : IF p[m] = 1 THEN l.prev[m] = Nil
                   ELSE l.prev[m] \in L /\ p[l.prev[m]] = p[m] - 1
  BY DEF Lined, Backwards
<1>4. l.prev[c] = n /\ c # n
  BY <1>1, <1>2, <1>3
<1>5. /\ c \in Node /\ n \in Node /\ l.prev[c] # Nil
      /\ l.first = n <=> l.prev[n] = Nil
      /\ l.first # c
  BY <1>1, <1>2, <1>3, <1>4
<1>6. MovedOn(l, n, c) = MovedBack(l, c, n)
  BY <1>4, <1>5, l.next[n] = c DEF MovedOn, MovedBack, c
<1>7. SwappedNumbers(L, p, n, c) = SwappedNumbers(L, p, c, n)
  BY <1>4 DEF SwappedNumbers
<1>8. Lined(MovedBack(l, c, n), L, k, SwappedNumbers(L, p, c, n))
  BY <1>2, <1>4, <1>5, BackLined
<1> QED
  BY <1>2, <1>4, <1>6, <1>7, <1>8 DEF c

\* A node leaves.
LEMMA UnlinkedLined ==
  ASSUME NEW l \in Links, NEW L \in SUBSET Node, NEW k, NEW p, Lined(l, L, k, p),
         NEW n \in L, Nil \notin Node
  PROVE  Lined(Unlinked(l, n), L \ {n}, k - 1, ClosedNumbers(L, p, n))
<1> DEFINE d == Unlinked(l, n)
           q == ClosedNumbers(L, p, n)
           M == L \ {n}
<1>1. /\ k \in Nat /\ p \in [L -> 1..k] /\ \A m, j \in L : p[m] = p[j] => m = j
      /\ \A i \in 1..k : \E m \in L : p[m] = i
      /\ IF k = 0 THEN l.first = Nil ELSE l.first \in L /\ p[l.first] = 1
  BY DEF Lined, Numbers, Onwards
<1>2. \A m \in L : IF p[m] = k THEN l.next[m] = Nil
                   ELSE l.next[m] \in L /\ p[l.next[m]] = p[m] + 1
  BY DEF Lined, Onwards
<1>3. \A m \in L : IF p[m] = 1 THEN l.prev[m] = Nil
                   ELSE l.prev[m] \in L /\ p[l.prev[m]] = p[m] - 1
  BY DEF Lined, Backwards
<1>4. /\ \A m \in M : q[m] = IF p[m] > p[n] THEN p[m] - 1 ELSE p[m]
      /\ q = [m \in M |-> q[m]]
  BY DEF ClosedNumbers
<1>5. /\ d.first = IF n = l.first THEN l.next[n] ELSE l.first
      /\ \A m \in Node : d.prev[m] = IF m = n THEN Nil
                            ELSE IF m = l.next[n] THEN (IF n = l.first THEN Nil ELSE l.prev[n])
                            ELSE l.prev[m]
      /\ \A m \in Node : d.next[m] = IF m = n THEN Nil
                            ELSE IF n # l.first /\ m = l.prev[n] THEN l.next[n] ELSE l.next[m]
  BY DEF Unlinked
<1>6. /\ k - 1 \in Nat /\ p[n] \in 1..k /\ n \in Node
      /\ \A m \in M : m \in L /\ m \in Node /\ m # n /\ p[m] \in 1..k /\ p[m] # p[n]
      /\ n = l.first <=> p[n] = 1
  BY <1>1
<1> HIDE DEF d, q, M
<1>7. \A m \in L : m # n => m \in M
  BY DEF M
<1>8. Numbers(M, k - 1, q)
  <2>1. \A m \in M : q[m] \in 1..(k - 1)
    BY <1>1, <1>4, <1>6
  <2>2. q \in [M -> 1..(k - 1)]
    BY <1>4, <2>1
  <2>3. ASSUME NEW m \in M, NEW j \in M, q[m] = q[j] PROVE m = j
    <3>1. p[m] = p[j]
      BY <1>4, <1>6, <2>3
    <3> QED
      BY <1>1, <1>6, <3>1
  <2>4. ASSUME NEW i \in 1..(k - 1) PROVE \E m \in M : q[m] = i
    <3>1. CASE i < p[n]
      <4>1. PICK m \in L : p[m] = i
        BY <1>1, <1>6
      <4> QED
        BY <1>4, <1>6, <1>7, <3>1, <4>1
    <3>2. CASE i >= p[n]
      <4>1. i + 1 \in 1..k
        BY <1>1, <1>6
      <4>2. PICK m \in L : p[m] = i + 1
        BY <1>1, <4>1
      <4>3. m \in M /\ p[m] > p[n]
        BY <1>6, <1>7, <3>2, <4>2
      <4> QED
        BY <1>4, <4>2, <4>3
    <3> QED
      BY <1>6, <3>1, <3>2
  <2> QED
    BY <1>6, <2>2, <2>3, <2>4 DEF Numbers
<1>9. IF k - 1 = 0 THEN d.first = Nil ELSE d.first \in M /\ q[d.first] = 1
  <2>1. CASE n = l.first
    BY <1>1, <1>2, <1>4, <1>5, <1>6, <1>7, <2>1
  <2>2. CASE n # l.first
    BY <1>1, <1>4, <1>5, <1>6, <1>7, <2>2
  <2> QED
    BY <2>1, <2>2
<1>10. ASSUME NEW m \in M
       PROVE  IF q[m] = k - 1 THEN d.next[m] = Nil
              ELSE d.next[m] \in M /\ q[d.next[m]] = q[m] + 1
  <2>1. CASE n # l.first /\ m = l.prev[n]
    <3>1. p[m] = p[n] - 1 /\ q[m] = p[m] /\ d.next[m] = l.next[n]
      BY <1>1, <1>3, <1>4, <1>5, <1>6, <2>1
    <3>2. CASE p[n] = k
      BY <1>2, <1>6, <3>1, <3>2
    <3>3. CASE p[n] # k
      <4>1. l.next[n] \in L /\ p[l.next[n]] = p[n] + 1
        BY <1>2, <3>3
      <4>2. l.next[n] \in M /\ q[l.next[n]] = p[n]
        BY <1>4, <1>6, <1>7, <4>1
      <4> QED
        BY <1>1, <1>6, <3>1, <3>3, <4>2
    <3> QED
      BY <3>2, <3>3
  <2>2. CASE ~(n # l.first /\ m = l.prev[n])
    <3>1. d.next[m] = l.next[m]
      BY <1>5, <1>6, <2>2
    <3>2. p[m] # p[n] - 1
      BY <1>1, <1>3, <1>6, <2>2
    <3>3. CASE p[m] = k
      BY <1>2, <1>4, <1>6, <3>1, <3>3
    <3>4. CASE p[m] # k
      <4>1. l.next[m] \in L /\ p[l.next[m]] = p[m] + 1
        BY <1>2, <1>6, <3>4
      <4>2. l.next[m] \in M
        BY <1>6, <1>7, <3>2, <4>1
      <4>3. q[l.next[m]] = q[m] + 1 /\ q[m] # k - 1
        BY <1>1, <1>4, <1>6, <3>2, <3>4, <4>1, <4>2
      <4> QED
        BY <3>1, <4>2, <4>3
    <3> QED
      BY <3>3, <3>4
  <2> QED
    BY <2>1, <2>2
<1>11. ASSUME NEW m \in M
       PROVE  IF q[m] = 1 THEN d.prev[m] = Nil
              ELSE d.prev[m] \in M /\ q[d.prev[m]] = q[m] - 1
  <2>1. CASE m = l.next[n]
    <3>1. p[m] = p[n] + 1 /\ q[m] = p[n] /\ d.prev[m] = IF p[n] = 1 THEN Nil ELSE l.prev[n]
      BY <1>2, <1>4, <1>5, <1>6, <2>1
    <3>2. CASE p[n] = 1
      BY <3>1, <3>2
    <3>3. CASE p[n] # 1
      <4>1. l.prev[n] \in L /\ p[l.prev[n]] = p[n] - 1
        BY <1>3, <3>3
      <4>2. l.prev[n] \in M /\ q[l.prev[n]] = p[n] - 1
        BY <1>4, <1>6, <1>7, <4>1
      <4> QED
        BY <3>1, <3>3, <4>2
    <3> QED
      BY <3>2, <3>3
  <2>2. CASE m # l.next[n]
    <3>1. d.prev[m] = l.prev[m]
      BY <1>5, <1>6, <2>2
    <3>2. p[m] # p[n] + 1
      BY <1>1, <1>2, <1>6, <2>2
    <3>3. CASE p[m] = 1
      BY <1>3, <1>4, <1>6, <3>1, <3>3
    <3>4. CASE p[m] # 1
      <4>1. l.prev[m] \in L /\ p[l.prev[m]] = p[m] - 1
        BY <1>3, <1>6, <3>4
      <4>2. l.prev[m] \in M
        BY <1>6, <1>7, <3>2, <4>1
      <4>3. q[l.prev[m]] = q[m] - 1 /\ q[m] # 1
        BY <1>4, <1>6, <3>2, <3>4, <4>1, <4>2
      <4> QED
        BY <3>1, <4>2, <4>3
    <3> QED
      BY <3>3, <3>4
  <2> QED
    BY <2>1, <2>2
<1>12. Onwards(d.first, d.next, M, k - 1, q) /\ Backwards(d.prev, M, q)
  BY <1>9, <1>10, <1>11 DEF Onwards, Backwards
<1> QED
  BY <1>8, <1>12 DEF Lined, d, q, M

\* The first node of a list.
LEMMA FirstLined ==
  ASSUME NEW l, NEW n, l.first = n, l.prev[n] = Nil, l.next[n] = Nil
  PROVE  Lined(l, {n}, 1, [m \in {n} |-> 1])
<1> DEFINE p == [m \in {n} |-> 1]
<1>1. p \in [{n} -> 1..1] /\ p[n] = 1
  OBVIOUS
<1> HIDE DEF p
<1>2. Numbers({n}, 1, p)
  BY <1>1 DEF Numbers
<1>3. Onwards(l.first, l.next, {n}, 1, p) /\ Backwards(l.prev, {n}, p)
  BY <1>1 DEF Onwards, Backwards
<1> QED
  BY <1>2, <1>3 DEF Lined, p

\* The first node of a list that is destroyed along its links.
LEMMA HeadGone ==
  ASSUME NEW next, NEW next2, NEW L, NEW k, NEW p, NEW n, n # Nil,
         Numbers(L, k, p), Onwards(n, next, L, k, p), \A m \in L \ {n} : next2[m] = next[m]
  PROVE  /\ n \in L
         /\ Numbers(L \ {n}, k - 1, ClosedNumbers(L, p, n))
         /\ Onwards(next[n], next2, L \ {n}, k - 1, ClosedNumbers(L, p, n))
<1> DEFINE q == ClosedNumbers(L, p, n)
           M == L \ {n}
<1>1. /\ k \in Nat /\ p \in [L -> 1..k] /\ \A m, j \in L : p[m] = p[j] => m = j
      /\ \A i \in 1..k : \E m \in L : p[m] = i
      /\ k # 0 /\ n \in L /\ p[n] = 1
  BY DEF Numbers, Onwards
<1>2. \A m \in L : IF p[m] = k THEN next[m] = Nil ELSE next[m] \in L /\ p[next[m]] = p[m] + 1
  BY DEF Onwards
<1>3. /\ \A m \in M : m \in L /\ m # n /\ p[m] \in 2..k
      /\ \A m \in L : p[m] # 1 => m \in M
  BY <1>1
<1>4. \A m \in M : q[m] = p[m] - 1
  BY <1>1, <1>3 DEF ClosedNumbers
<1>5. q = [m \in M |-> q[m]]
  BY DEF ClosedNumbers
<1> HIDE DEF q, M
<1>6. Numbers(M, k - 1, q)
  <2>1. k - 1 \in Nat /\ \A m \in M : q[m] \in 1..(k - 1)
    BY <1>1, <1>3, <1>4
  <2>2. q \in [M -> 1..(k - 1)]
    BY <1>5, <2>1
  <2>3. \A m, j \in M : q[m] = q[j] => m = j
    BY <1>1, <1>3, <1>4
  <2>4. ASSUME NEW i \in 1..(k - 1) PROVE \E m \in M : q[m] = i
    <3>1. i + 1 \in 1..k /\ i + 1 # 1
      BY <1>1
    <3>2. PICK m \in L : p[m] = i + 1
      BY <1>1, <3>1
    <3> QED
      BY <1>3, <1>4, <3>1, <3>2
  <2> QED
    BY <2>1, <2>2, <2>3, <2>4 DEF Numbers
<1>7. IF k - 1 = 0 THEN next[n] = Nil ELSE next[n] \in M /\ q[next[n]] = 1
  BY <1>1, <1>2, <1>3, <1>4
<1>8. ASSUME NEW m \in M
      PROVE  IF q[m] = k - 1 THEN next2[m] = Nil
             ELSE next2[m] \in M /\ q[next2[m]] = q[m] + 1
  <2>1. next2[m] = next[m]
    BY DEF M
  <2>2. CASE p[m] = k
    BY <1>1, <1>2, <1>3, <1>4, <2>1, <2>2
  <2>3. CASE p[m] # k
    <3>1. next[m] \in M /\ p[next[m]] = p[m] + 1
      BY <1>2, <1>3, <2>3
    <3> QED
      BY <1>1, <1>3, <1>4, <2>1, <2>3, <3>1
  <2> QED
    BY <2>2, <2>3
<1>9. Onwards(next[n], next2, M, k - 1, q)
  BY <1>7, <1>8 DEF Onwards
<1> QED
  BY <1>1, <1>6, <1>9 DEF q, M

\* None of them changes the order of two nodes that do not pass each other.
LEMMA PushedOrder ==
  ASSUME NEW L, NEW k, NEW p, Numbers(L, k, p), NEW n, n \notin L
  PROVE  LET q == PushedNumbers(L, p, n)
         IN  /\ q[n] = 1 /\ \A m \in L : q[m] \in Int /\ 1 < q[m]
             /\ \A m, j \in L : q[m] < q[j] <=> p[m] < p[j]
<1>1. k \in Nat /\ \A m \in L : p[m] \in 1..k /\ m # n
  BY DEF Numbers
<1> QED
  BY <1>1 DEF PushedNumbers

LEMMA SwappedOrder ==
  ASSUME NEW L, NEW k, NEW p, Numbers(L, k, p), NEW n \in L, NEW c \in L, n # c,
         p[c] = p[n] - 1 \/ p[c] = p[n] + 1
  PROVE  LET q == SwappedNumbers(L, p, n, c)
         IN  /\ q[n] < q[c] <=> ~(p[n] < p[c])
             /\ q[c] < q[n] <=> ~(p[c] < p[n])
             /\ \A m, j \in L : ~(m = n /\ j = c) /\ ~(m = c /\ j = n) => (q[m] < q[j] <=> p[m] < p[j])
<1> DEFINE q == SwappedNumbers(L, p, n, c)
<1>1. /\ k \in Nat /\ \A m \in L : p[m] \in 1..k
      /\ \A m, j \in L : p[m] = p[j] => m = j
  BY DEF Numbers
<1>2. /\ q[n] = p[c] /\ q[c] = p[n] /\ \A m \in L : m # n /\ m # c => q[m] = p[m]
  BY DEF SwappedNumbers
<1> HIDE DEF q
<1>3. ASSUME NEW m \in L, NEW j \in L, ~(m = n /\ j = c) /\ ~(m = c /\ j = n)
      PROVE q[m] < q[j] <=> p[m] < p[j]
  <2>1. CASE m = n /\ j # c
    BY <1>1, <1>2, <2>1
  <2>2. CASE m = c /\ j # n
    BY <1>1, <1>2, <2>2
  <2>3. CASE m # n /\ m # c /\ j \in {n, c}
    BY <1>1, <1>2, <2>3
  <2>4. CASE m # n /\ m # c /\ j \notin {n, c}
    BY <1>2, <2>4
  <2> QED
    BY <1>3, <2>1, <2>2, <2>3, <2>4
<1> QED
  BY <1>1, <1>2, <1>3 DEF q

LEMMA ClosedOrder ==
  ASSUME NEW L, NEW k, NEW p, Numbers(L, k, p), NEW n \in L
  PROVE  LET q == ClosedNumbers(L, p, n)
         IN  \A m, j \in L \ {n} : q[m] < q[j] <=> p[m] < p[j]
<1>1. /\ k \in Nat /\ \A m \in L : p[m] \in 1..k
      /\ \A m, j \in L : p[m] = p[j] => m = j
  BY DEF Numbers
<1> QED
  BY <1>1 DEF ClosedNumbers

-----------------------------------------------------------------------------
(* The inductive invariant.                                                *)

Calls == [op : {"none", "update", "remove", "drop", "release", "destroy"},
          node : Node \cup {Nil}, at : Nat \ {0}, loop : {"back", "on"}]

Typed ==
  /\ wanted \in [Node -> [Axis -> Nat]]
  /\ pos \in [Node -> [Axis -> Nat]] /\ oldExt \in [Node -> [Axis -> Nat]]
  /\ flags \in [Node -> SUBSET {"Removing", "Removed"}]
  /\ list \in [Axis -> Links] /\ linked \in SUBSET Node /\ size \in Int
  /\ dels \in Seq(Node) /\ releases \in Seq(Node)
  /\ call \in Calls
  /\ before \in [Axis -> [Node -> SUBSET Node]]

InCall == call.op \in {"update", "remove"}

\* The nodes no call is moving.
Rested == linked \ (IF InCall THEN {call.node} ELSE {})

\* The node of a call is linked; one that is being removed is marked.
Caller ==
  InCall =>
    /\ call.node \in linked
    /\ call.op = "update" => flags[call.node] = {} \/ "Removed" \in flags[call.node]
    /\ call.op = "remove" => flags[call.node] # {}

\* The axes on which a removed node keeps to its coordinate: OnRemove lowers
\* x_ whether or not the subclass's GetExt follows.
Tracked == {a \in Axis : a = "x" => a \in SinksOn}

\* What a node keeps between two calls, and a deleted one.
AtRest ==
  /\ \A m \in Rested :
       /\ \A a \in Tracked : oldExt[m][a] = pos[m][a] /\ (flags[m] = {} => pos[m][a] > 0)
       /\ flags[m] # {} => "Removed" \in flags[m]
  /\ \A m \in linked : \A a \in Axis : wanted[m][a] > 0
  /\ \A m \in Node \ linked : flags[m] = {} \/ \E i \in DOMAIN releases : releases[i] = m

LetGo == \A n \in Node \ linked : \A a \in Axis : list[a].prev[n] = Nil /\ list[a].next[n] = Nil

ReleasedOnce ==
  \A i, j \in DOMAIN releases :
    releases[i] \notin linked /\ (i # j => releases[i] # releases[j])

\* The numbers follow the coordinates, and the passes told are their order.
Sorts(S, f, a, p) == \A m, n \in S : p[m] < p[n] => f[m][a] <= f[n][a]
Known(b, L, fl, p) ==
  \A m \in L : \A n \in L \ ({m} \cup Hide) :
    "Removed" \notin fl[m] \cup fl[n] => (n \in b[m] <=> p[n] < p[m])

Settled(a, p) == Sorts(linked, pos, a, p) /\ pos[call.node][a] = GetExt(call.node, a)

\* The axes a call has been through.
Done(a) == \E j \in DOMAIN AxisOrder : j < call.at /\ AxisOrder[j] = a

\* How far a call has sorted an axis: its node is in place where the axis is
\* done with, or need not be gone through; going on, nothing ahead is behind.
Phase(a, p) ==
  IF InCall
  THEN /\ Sorts(linked \ {call.node}, pos, a, p)
       /\ GetExt(call.node, a) = oldExt[call.node][a] => Settled(a, p)
       /\ Done(a) => Settled(a, p)
       /\ call.loop = "on" /\ call.at <= Len(AxisOrder) /\ a = ThisAxis =>
            HasMoved /\ (Ahead # Nil => pos[Ahead][a] <= Target)
  ELSE Sorts(linked, pos, a, p)

Placed(a, p) ==
  /\ Lined(list[a], linked, size, p) /\ Known(before[a], linked, flags, p)
  /\ a \in Tracked => Phase(a, p)

Whole ==
  call.op # "destroy" =>
    /\ size = Cardinality(linked)
    /\ \A a \in Axis : \E p \in [linked -> 1..size] : Placed(a, p)

\* ~AOIMgr goes along what is left of the x axis.
Leaving ==
  call.op = "destroy" =>
    \E p \in [linked -> 1..Cardinality(linked)] :
      /\ Numbers(linked, Cardinality(linked), p)
      /\ Onwards(call.node, list["x"].next, linked, Cardinality(linked), p)

AOIInv == Typed /\ Caller /\ AtRest /\ LetGo /\ ReleasedOnce /\ Whole /\ Leaving

-----------------------------------------------------------------------------
(* Facts the steps share.                                                  *)

LEMMA PositionType ==
  ASSUME NEW w \in Position
  PROVE  w \in [Axis -> Nat] /\ \A a \in Axis : w[a] > 0
<1>1. w \in [Axis -> AnyCoord] /\ \A a \in Axis : w[a] \in Coord[a]
  BY DEF Position
<1>2. \A a \in Axis : w[a] \in Nat \ {0}
  BY <1>1, AOIAssumption
<1> QED
  BY <1>1, <1>2

LEMMA LinkedFinite ==
  ASSUME Typed
  PROVE  IsFiniteSet(linked) /\ Cardinality(linked) \in Nat /\ Cardinality(Node) \in Nat
         /\ Cardinality(linked) <= Cardinality(Node)
BY AOIAssumption, FS_Subset, FS_CardinalityType DEF Typed

LEMMA AxisOrderType ==
  /\ Len(AxisOrder) \in Nat /\ DOMAIN AxisOrder = 1..Len(AxisOrder)
  /\ \A i \in 1..Len(AxisOrder) : AxisOrder[i] \in Axis
  /\ \A a \in Axis : \E i \in 1..Len(AxisOrder) : AxisOrder[i] = a
  /\ \A i, j \in 1..Len(AxisOrder) : AxisOrder[i] = AxisOrder[j] => i = j
<1>1. AxisOrder \in Seq(Axis)
  BY AOIAssumption
<1>2. /\ Len(AxisOrder) \in Nat /\ DOMAIN AxisOrder = 1..Len(AxisOrder)
      /\ \A i \in 1..Len(AxisOrder) : AxisOrder[i] \in Axis
  BY <1>1
<1> QED
  BY <1>2, AOIAssumption

LEMMA GetExtType ==
  ASSUME Typed, NEW n \in Node, NEW a \in Axis
  PROVE  /\ GetExt(n, a) \in Nat
         /\ GetExt(n, a) = IF a \in SinksOn /\ flags[n] # {} THEN 0 ELSE wanted[n][a]
BY DEF Typed, GetExt, lowest

LEMMA NoCallIs ==
  /\ NoCall.op = "none" /\ NoCall.node = Nil /\ NoCall \in Calls
  /\ \A op \in {"none", "update", "remove", "drop", "release", "destroy"} :
       \A n \in Node \cup {Nil} :
         /\ Calling(op, n) \in Calls /\ Calling(op, n).op = op /\ Calling(op, n).node = n
         /\ Calling(op, n).at = 1 /\ Calling(op, n).loop = "back"
<1>1. 1 \in Nat \ {0}
  OBVIOUS
<1>2. NoCall.op = "none" /\ NoCall.node = Nil /\ NoCall \in Calls
  BY <1>1 DEF NoCall, Calls
<1>3. ASSUME NEW op \in {"none", "update", "remove", "drop", "release", "destroy"},
             NEW n \in Node \cup {Nil}
      PROVE  /\ Calling(op, n) \in Calls /\ Calling(op, n).op = op /\ Calling(op, n).node = n
             /\ Calling(op, n).at = 1 /\ Calling(op, n).loop = "back"
  <2>1. Calling(op, n) \in Calls
    BY <1>1 DEF Calling, NoCall, Calls
  <2>2. /\ Calling(op, n).op = op /\ Calling(op, n).node = n
        /\ Calling(op, n).at = 1 /\ Calling(op, n).loop = "back"
    BY DEF Calling, NoCall
  <2> QED
    BY <2>1, <2>2
<1> QED
  BY <1>2, <1>3

\* What holds of the axes while no call goes through them, and is enough.
Rest(L, k) ==
  \A a \in Axis : \E p \in [L -> 1..k] :
    /\ Lined(list[a], L, k, p) /\ Known(before[a], L, flags, p)
    /\ a \in Tracked => Sorts(L, pos, a, p)

LEMMA Resting ==
  ASSUME call.op \notin {"update", "remove", "destroy"}
  PROVE  /\ ~InCall /\ Rested = linked /\ Caller /\ Leaving
         /\ Whole <=> size = Cardinality(linked) /\ Rest(linked, size)
BY DEF InCall, Rested, Caller, Leaving, Whole, Rest, Placed, Phase

\* The same of the state after a step.
LEMMA RestingNext ==
  ASSUME call'.op \notin {"update", "remove", "destroy"}
  PROVE  /\ ~InCall' /\ Rested' = linked' /\ Caller' /\ Leaving'
         /\ Whole' <=> size' = Cardinality(linked') /\ Rest(linked, size)'
BY DEF InCall, Rested, Caller, Leaving, Whole, Rest, Placed, Phase

-----------------------------------------------------------------------------
(* The steps.                                                              *)

LEMMA SetExtKeeps ==
  ASSUME AOIInv, NEW n \in Node, SetExt(n)
  PROVE  AOIInv'
<1>1. /\ call = NoCall /\ n \in linked
      /\ UNCHANGED <<pos, oldExt, flags, list, linked, size, dels, releases, call, before>>
  BY DEF SetExt
<1>2. PICK want \in Position : wanted' = [wanted EXCEPT ![n] = want]
  BY DEF SetExt
<1>3. want \in [Axis -> Nat] /\ \A a \in Axis : want[a] > 0
  BY PositionType
<1>4. Typed'
  BY <1>1, <1>2, <1>3 DEF AOIInv, Typed
<1>5. call.op \notin {"update", "remove", "destroy"} /\ call'.op \notin {"update", "remove", "destroy"}
  BY <1>1, NoCallIs
<1>6. AtRest'
  <2>1. \A m \in linked' : \A a \in Axis : wanted'[m][a] > 0
    BY <1>1, <1>2, <1>3 DEF AOIInv, Typed, AtRest
  <2> QED
    BY <1>1, <1>5, <2>1, Resting, RestingNext DEF AOIInv, AtRest, Tracked
<1>7. LetGo' /\ ReleasedOnce'
  BY <1>1 DEF AOIInv, LetGo, ReleasedOnce
<1>8. Rest(linked, size)'
  BY <1>1, <1>5, Resting DEF AOIInv, Rest, Tracked
<1>9. Whole' /\ Caller' /\ Leaving'
  BY <1>1, <1>5, <1>8, Resting, RestingNext DEF AOIInv
<1> QED
  BY <1>4, <1>6, <1>7, <1>9 DEF AOIInv

LEMMA ReleaseKeeps ==
  ASSUME AOIInv, NEW op \in {"drop", "release"}, Release(op)
  PROVE  AOIInv'
<1>1. /\ call = NoCall /\ call' = Calling(op, Nil)
      /\ UNCHANGED <<wanted, pos, oldExt, flags, list, linked, size, dels, releases, before>>
  BY DEF Release
<1>2. call.op \notin {"update", "remove", "destroy"} /\ call'.op \notin {"update", "remove", "destroy"}
  BY <1>1, NoCallIs
<1>3. Typed'
  BY <1>1, NoCallIs DEF AOIInv, Typed
<1>4. AtRest'
  BY <1>1, <1>2, Resting, RestingNext DEF AOIInv, AtRest, Tracked
<1>5. LetGo' /\ ReleasedOnce'
  BY <1>1 DEF AOIInv, LetGo, ReleasedOnce
<1>6. Rest(linked, size)'
  BY <1>1, <1>2, Resting DEF AOIInv, Rest, Tracked
<1>7. Whole' /\ Caller' /\ Leaving'
  BY <1>1, <1>2, <1>6, Resting, RestingNext DEF AOIInv
<1> QED
  BY <1>3, <1>4, <1>5, <1>7 DEF AOIInv

LEMMA EndDropKeeps ==
  ASSUME AOIInv, EndDrop
  PROVE  AOIInv'
<1>1. /\ call.op = "drop" /\ call' = NoCall
      /\ UNCHANGED <<wanted, pos, oldExt, flags, list, linked, size, dels, releases, before>>
  BY DEF EndDrop
<1>2. call.op \notin {"update", "remove", "destroy"} /\ call'.op \notin {"update", "remove", "destroy"}
  BY <1>1, NoCallIs
<1>3. Typed'
  BY <1>1, NoCallIs DEF AOIInv, Typed
<1>4. AtRest'
  BY <1>1, <1>2, Resting, RestingNext DEF AOIInv, AtRest, Tracked
<1>5. LetGo' /\ ReleasedOnce'
  BY <1>1 DEF AOIInv, LetGo, ReleasedOnce
<1>6. Rest(linked, size)'
  BY <1>1, <1>2, Resting DEF AOIInv, Rest, Tracked
<1>7. Whole' /\ Caller' /\ Leaving'
  BY <1>1, <1>2, <1>6, Resting, RestingNext DEF AOIInv
<1> QED
  BY <1>3, <1>4, <1>5, <1>7 DEF AOIInv

LEMMA DestroyKeeps ==
  ASSUME AOIInv, Destroy
  PROVE  AOIInv'
<1>1. /\ call = NoCall /\ call' = Calling("destroy", list["x"].first) /\ dels' = <<>>
      /\ UNCHANGED <<wanted, pos, oldExt, flags, list, linked, size, releases, before>>
  BY DEF Destroy
<1>2. "x" \in Axis /\ list["x"].first \in Node \cup {Nil}
  BY AOIAssumption DEF AOIInv, Typed, Links
<1>3. call'.op = "destroy" /\ call'.node = list["x"].first /\ call' \in Calls
  BY <1>1, <1>2, NoCallIs
<1>4. Typed'
  BY <1>1, <1>3 DEF AOIInv, Typed
<1>5. call.op \notin {"update", "remove", "destroy"}
  BY <1>1, NoCallIs
<1>6. ~InCall' /\ Rested' = linked /\ Caller' /\ Whole'
  BY <1>1, <1>3 DEF InCall, Rested, Caller, Whole
<1>7. AtRest'
  BY <1>1, <1>5, <1>6, Resting DEF AOIInv, AtRest, Tracked
<1>8. LetGo' /\ ReleasedOnce'
  BY <1>1 DEF AOIInv, LetGo, ReleasedOnce
<1>9. size = Cardinality(linked) /\ Rest(linked, size)
  BY <1>5, Resting DEF AOIInv
<1>10. PICK p \in [linked -> 1..size] : Lined(list["x"], linked, size, p)
  BY <1>2, <1>9 DEF Rest
<1>11. Leaving'
  BY <1>1, <1>3, <1>9, <1>10 DEF Lined, Leaving
<1> QED
  BY <1>4, <1>6, <1>7, <1>8, <1>11 DEF AOIInv

\* A call that begins has not been through any axis.
LEMMA CallBegins ==
  ASSUME NEW op \in {"update", "remove"}, NEW n \in Node, call' = Calling(op, n),
         NEW a \in Axis, NEW p, Sorts(linked' \ {n}, pos', a, p),
         GetExt(n, a)' = oldExt'[n][a] => Sorts(linked', pos', a, p) /\ pos'[n][a] = GetExt(n, a)'
  PROVE  Phase(a, p)'
<1>1. call'.op = op /\ call'.node = n /\ call'.at = 1 /\ call'.loop = "back"
  BY NoCallIs
<1>2. InCall'
  BY <1>1 DEF InCall
<1>3. ~Done(a)'
  BY <1>1, AxisOrderType DEF Done
<1>4. Settled(a, p)' <=> Sorts(linked', pos', a, p) /\ pos'[n][a] = GetExt(n, a)'
  BY <1>1 DEF Settled
<1> QED
  BY <1>1, <1>2, <1>3, <1>4 DEF Phase

LEMMA CallBeginsQuiet ==
  ASSUME NEW op \in {"update", "remove"}, NEW n \in Node, call' = Calling(op, n)
  PROVE  call'.op = op /\ call' \in Calls /\ Rested' = linked' \ {n} /\ Leaving'
BY NoCallIs DEF Rested, InCall, Leaving

LEMMA UpdateKeeps ==
  ASSUME AOIInv, NEW n \in Node, Update(n)
  PROVE  AOIInv'
<1>1. /\ call = NoCall /\ n \in linked /\ call' = Calling("update", n)
      /\ UNCHANGED <<wanted, pos, oldExt, flags, list, linked, size, dels, releases, before>>
  BY DEF Update
<1>2. call.op \notin {"update", "remove", "destroy"}
  BY <1>1, NoCallIs
<1>3. /\ call'.op = "update" /\ call'.node = n /\ call' \in Calls
      /\ Rested' = linked \ {n} /\ Leaving'
  BY <1>1, NoCallIs, CallBeginsQuiet
<1>4. Typed'
  BY <1>1, <1>3 DEF AOIInv, Typed
<1>5. Rested = linked
  BY <1>2, Resting
<1>6. Caller'
  BY <1>1, <1>3, <1>5 DEF AOIInv, AtRest, Caller
<1>7. AtRest'
  BY <1>1, <1>3, <1>5 DEF AOIInv, AtRest, Tracked
<1>8. LetGo' /\ ReleasedOnce'
  BY <1>1 DEF AOIInv, LetGo, ReleasedOnce
<1>9. size = Cardinality(linked) /\ Rest(linked, size)
  BY <1>2, Resting DEF AOIInv
<1>10. ASSUME NEW a \in Axis PROVE \E p \in [linked' -> 1..size'] : Placed(a, p)'
  <2>1. PICK p \in [linked -> 1..size] :
          /\ Lined(list[a], linked, size, p) /\ Known(before[a], linked, flags, p)
          /\ a \in Tracked => Sorts(linked, pos, a, p)
    BY <1>9 DEF Rest
  <2>2. ASSUME a \in Tracked PROVE Phase(a, p)'
    <3>1. Sorts(linked, pos, a, p) /\ Sorts(linked \ {n}, pos, a, p)
      BY <2>1, <2>2 DEF Sorts
    <3>2. oldExt[n][a] = pos[n][a]
      BY <1>1, <1>5, <2>2 DEF AOIInv, AtRest
    <3>3. Sorts(linked' \ {n}, pos', a, p) /\ Sorts(linked', pos', a, p)
      BY <1>1, <3>1
    <3>4. oldExt'[n][a] = pos'[n][a]
      BY <1>1, <3>2
    <3> QED
      BY <1>1, <3>3, <3>4, CallBegins
  <2>3. Tracked' = Tracked
    BY DEF Tracked
  <2> QED
    BY <1>1, <2>1, <2>2, <2>3 DEF Placed
<1>11. Whole'
  BY <1>1, <1>9, <1>10 DEF Whole
<1> QED
  BY <1>3, <1>4, <1>6, <1>7, <1>8, <1>11 DEF AOIInv

LEMMA RemoveKeeps ==
  ASSUME AOIInv, NEW n \in Node, Remove(n)
  PROVE  AOIInv'
<1>1. /\ call = NoCall /\ n \in linked /\ call' = Calling("remove", n)
      /\ flags' = [flags EXCEPT ![n] = @ \cup {"Removing"}]
      /\ oldExt' = [oldExt EXCEPT ![n] = pos[n]]
      /\ pos' = [pos EXCEPT ![n] = LoweredX(@)]
      /\ UNCHANGED <<wanted, list, linked, size, dels, releases, before>>
  BY DEF Remove, KeptOnRemove
<1>2. call.op \notin {"update", "remove", "destroy"}
  BY <1>1, NoCallIs
<1>3. /\ call'.op = "remove" /\ call'.node = n /\ call' \in Calls
      /\ Rested' = linked \ {n} /\ Leaving'
  BY <1>1, NoCallIs, CallBeginsQuiet
<1>4. /\ flags' \in [Node -> SUBSET {"Removing", "Removed"}]
      /\ flags'[n] = flags[n] \cup {"Removing"}
      /\ \A m \in Node : m # n => flags'[m] = flags[m]
      /\ \A m \in Node : "Removed" \in flags'[m] <=> "Removed" \in flags[m]
  BY <1>1 DEF AOIInv, Typed
<1>5. /\ pos' \in [Node -> [Axis -> Nat]]
      /\ \A a \in Axis : pos'[n][a] = IF a = "x" THEN 0 ELSE pos[n][a]
      /\ \A m \in Node : m # n => pos'[m] = pos[m]
  <2>1. LoweredX(pos[n]) \in [Axis -> Nat]
        /\ \A a \in Axis : LoweredX(pos[n])[a] = IF a = "x" THEN 0 ELSE pos[n][a]
    BY DEF AOIInv, Typed, LoweredX, lowest
  <2> QED
    BY <1>1, <2>1 DEF AOIInv, Typed
<1>6. /\ oldExt' \in [Node -> [Axis -> Nat]] /\ oldExt'[n] = pos[n]
      /\ \A m \in Node : m # n => oldExt'[m] = oldExt[m]
  BY <1>1 DEF AOIInv, Typed
<1>7. Typed'
  BY <1>1, <1>3, <1>4, <1>5, <1>6 DEF AOIInv, Typed
<1>8. Rested = linked /\ linked \in SUBSET Node
  BY <1>2, Resting DEF AOIInv, Typed
<1>9. Caller'
  BY <1>1, <1>3, <1>4 DEF Caller
<1>10. AtRest'
  <2>1. \A m \in Rested' : m \in Rested /\ m # n /\ m \in Node
    BY <1>3, <1>8
  <2>2. Tracked' = Tracked
    BY DEF Tracked
  <2>3. \A m \in Rested' :
          /\ \A a \in Tracked' : oldExt'[m][a] = pos'[m][a] /\ (flags'[m] = {} => pos'[m][a] > 0)
          /\ flags'[m] # {} => "Removed" \in flags'[m]
    BY <1>4, <1>5, <1>6, <2>1, <2>2 DEF AOIInv, AtRest
  <2>4. \A m \in Node \ linked' : flags'[m] = {} \/ \E i \in DOMAIN releases' : releases'[i] = m
    BY <1>1, <1>4 DEF AOIInv, AtRest
  <2>5. \A m \in linked' : \A a \in Axis : wanted'[m][a] > 0
    BY <1>1 DEF AOIInv, AtRest
  <2> QED
    BY <2>3, <2>4, <2>5 DEF AtRest
<1>11. LetGo' /\ ReleasedOnce'
  BY <1>1 DEF AOIInv, LetGo, ReleasedOnce
<1>12. size = Cardinality(linked) /\ Rest(linked, size)
  BY <1>2, Resting DEF AOIInv
<1>13. ASSUME NEW a \in Axis PROVE \E p \in [linked' -> 1..size'] : Placed(a, p)'
  <2>1. PICK p \in [linked -> 1..size] :
          /\ Lined(list[a], linked, size, p) /\ Known(before[a], linked, flags, p)
          /\ a \in Tracked => Sorts(linked, pos, a, p)
    BY <1>12 DEF Rest
  <2>2. ASSUME a \in Tracked PROVE Phase(a, p)'
    <3>1. Sorts(linked, pos, a, p)
      BY <2>1, <2>2
    <3>2. Sorts(linked' \ {n}, pos', a, p)
      BY <1>1, <1>5, <1>8, <3>1 DEF Sorts
    <3>3. ASSUME GetExt(n, a)' = oldExt'[n][a]
          PROVE  Sorts(linked', pos', a, p) /\ pos'[n][a] = GetExt(n, a)'
      <4>1. a = "x" => GetExt(n, a)' = 0
        BY <1>4, <2>2 DEF Tracked, GetExt, lowest
      <4>2. pos'[n][a] = pos[n][a] /\ pos'[n][a] = GetExt(n, a)'
        BY <1>5, <1>6, <3>3, <4>1
      <4>3. \A m \in linked : pos'[m][a] = pos[m][a]
        BY <1>5, <1>8, <4>2
      <4>4. Sorts(linked, pos', a, p)
        BY <3>1, <4>3 DEF Sorts
      <4> QED
        BY <1>1, <4>2, <4>4
    <3> QED
      BY <1>1, <3>2, <3>3, CallBegins
  <2>3. Tracked' = Tracked
    BY DEF Tracked
  <2>4. Known(before[a], linked, flags', p)
    BY <1>4, <1>8, <2>1 DEF Known
  <2> QED
    BY <1>1, <2>1, <2>2, <2>3, <2>4 DEF Placed
<1>14. Whole'
  BY <1>1, <1>12, <1>13 DEF Whole
<1> QED
  BY <1>3, <1>7, <1>9, <1>10, <1>11, <1>14 DEF AOIInv

\* A node that comes joins the order in front of all others, and they know.
LEMMA InsertKnown ==
  ASSUME NEW L, NEW k, NEW p, Numbers(L, k, p), NEW n, n \notin L, NEW b, NEW fl,
         Known(b, L, fl, p), NEW b2, b2[n] = {}, \A m \in L : b2[m] = b[m] \cup {n}
  PROVE  Known(b2, L \cup {n}, fl, PushedNumbers(L, p, n))
<1> DEFINE q == PushedNumbers(L, p, n)
<1>1. /\ q[n] = 1 /\ \A m \in L : q[m] \in Int /\ 1 < q[m] /\ m # n
      /\ \A m, j \in L : q[m] < q[j] <=> p[m] < p[j]
  BY PushedOrder
<1> HIDE DEF q
<1>2. ASSUME NEW m \in L \cup {n}, NEW j \in (L \cup {n}) \ ({m} \cup Hide),
             "Removed" \notin fl[m] \cup fl[j]
      PROVE  j \in b2[m] <=> q[j] < q[m]
  <2>1. CASE m = n
    BY <1>1, <2>1
  <2>2. CASE m # n /\ j = n
    BY <1>1, <2>2
  <2>3. CASE m # n /\ j # n
    <3>1. j \in b[m] <=> p[j] < p[m]
      BY <1>2, <2>3 DEF Known
    <3> QED
      BY <1>1, <2>3, <3>1
  <2> QED
    BY <2>1, <2>2, <2>3
<1> QED
  BY <1>2 DEF Known, q

\* The first node is linked to no other.
Alone(l, n) == [l EXCEPT !.first = n, !.prev[n] = Nil, !.next[n] = Nil]

LEMMA AloneLinks ==
  ASSUME NEW l \in Links, NEW n \in Node, NEW d, d = Alone(l, n)
  PROVE  /\ d \in Links /\ d.first = n /\ d.prev[n] = Nil /\ d.next[n] = Nil
         /\ \A m \in Node \ {n} : d.prev[m] = l.prev[m] /\ d.next[m] = l.next[m]
<1>1. l.prev \in [Node -> Node \cup {Nil}] /\ l.next \in [Node -> Node \cup {Nil}]
  BY DEF Links
<1>2. d.first = n /\ d.prev = [l.prev EXCEPT ![n] = Nil] /\ d.next = [l.next EXCEPT ![n] = Nil]
  BY DEF Links, Alone
<1>3. d \in Links
  BY <1>1 DEF Links, Alone
<1>4. /\ d.prev[n] = Nil /\ d.next[n] = Nil
      /\ \A m \in Node \ {n} : d.prev[m] = l.prev[m] /\ d.next[m] = l.next[m]
  BY <1>1, <1>2
<1> QED
  BY <1>2, <1>3, <1>4

LEMMA InsertKeeps ==
  ASSUME AOIInv, NEW n \in Node, Insert(n)
  PROVE  AOIInv'
<1>1. /\ call = NoCall /\ n \notin linked /\ \A i \in DOMAIN releases : releases[i] # n
      /\ linked' = linked \cup {n} /\ UNCHANGED <<flags, dels, releases>>
      /\ before' = [a \in Axis |-> [m \in Node |->
                      IF m = n THEN {} ELSE IF m \in linked THEN before[a][m] \cup {n}
                      ELSE before[a][m]]]
  BY DEF Insert
<1>2. PICK want \in Position :
        /\ wanted' = [wanted EXCEPT ![n] = want]
        /\ IF IsEmpty
           THEN /\ list' = [a \in Axis |->
                     [list[a] EXCEPT !.first = n, !.prev[n] = Nil, !.next[n] = Nil]]
                /\ pos' = [pos EXCEPT ![n] = want] /\ oldExt' = [oldExt EXCEPT ![n] = want]
                /\ size' = 1
                /\ UNCHANGED call
           ELSE /\ oldExt' = [oldExt EXCEPT ![n] = [a \in Axis |-> lowest]]
                /\ pos' = [pos EXCEPT ![n] = [a \in Axis |-> pos[list[a].first][a]]]
                /\ list' = [a \in Axis |-> PushedFront(list[a], n)]
                /\ size' = size + 1
                /\ call' = Calling("update", n)
  BY DEF Insert
<1>3. want \in [Axis -> Nat] /\ \A a \in Axis : want[a] > 0
  BY PositionType
<1>4. call.op \notin {"update", "remove", "destroy"}
  BY <1>1, NoCallIs
<1>5. size = Cardinality(linked) /\ Rest(linked, size) /\ Rested = linked
  BY <1>4, Resting DEF AOIInv
<1>6. /\ linked \in SUBSET Node /\ linked' \in SUBSET Node /\ IsFiniteSet(linked)
      /\ size' = size + 1 => size' = Cardinality(linked')
      /\ Nil \notin Node /\ "x" \in Axis
  <2>1. linked \in SUBSET Node /\ IsFiniteSet(linked) /\ Cardinality(linked) \in Nat
    BY LinkedFinite DEF AOIInv, Typed
  <2>2. Cardinality(linked \cup {n}) = Cardinality(linked) + 1
    BY <1>1, <2>1, FS_AddElement
  <2>3. linked' \in SUBSET Node
    BY <1>1, <2>1
  <2> QED
    BY <1>1, <1>5, <2>1, <2>2, <2>3, AOIAssumption
<1>7. flags[n] = {}
  BY <1>1 DEF AOIInv, AtRest
<1>8. /\ wanted' \in [Node -> [Axis -> Nat]] /\ wanted'[n] = want
      /\ \A m \in Node : m # n => wanted'[m] = wanted[m]
  BY <1>2, <1>3 DEF AOIInv, Typed
<1>9. /\ before' \in [Axis -> [Node -> SUBSET Node]]
      /\ \A a \in Axis : before'[a][n] = {} /\ \A m \in linked : before'[a][m] = before[a][m] \cup {n}
  BY <1>1, <1>6 DEF AOIInv, Typed
<1>10. \A m \in linked' : \A a \in Axis : wanted'[m][a] > 0
  BY <1>1, <1>3, <1>6, <1>8 DEF AOIInv, AtRest
<1>11. \A m \in Node \ linked' : flags'[m] = {} \/ \E i \in DOMAIN releases' : releases'[i] = m
  BY <1>1 DEF AOIInv, AtRest
<1>12. ReleasedOnce'
  BY <1>1 DEF AOIInv, ReleasedOnce
<1>13. Tracked' = Tracked /\ \A a \in Axis : list[a] \in Links
  BY DEF Tracked, AOIInv, Typed
<1>14. CASE IsEmpty
  <2>0. list' = [a \in Axis |-> [list[a] EXCEPT !.first = n, !.prev[n] = Nil, !.next[n] = Nil]]
    BY <1>2, <1>14
  <2>1. /\ pos' = [pos EXCEPT ![n] = want] /\ oldExt' = [oldExt EXCEPT ![n] = want]
        /\ size' = 1 /\ call' = call
    BY <1>2, <1>14
  <2>2. size = 0 /\ linked = {}
    <3>1. PICK p \in [linked -> 1..size] : Lined(list["x"], linked, size, p)
      BY <1>5, <1>6 DEF Rest
    <3>2. list["x"].first = Nil
      BY <1>6, <1>14 DEF IsEmpty
    <3>3. size = 0
      BY <1>6, <3>1, <3>2 DEF Lined, Onwards
    <3> QED
      BY <3>1, <3>3
  <2>3. linked' = {n} /\ size' = Cardinality(linked')
    BY <1>1, <1>6, <2>1, <2>2
  <2>4. \A a \in Axis :
          /\ list'[a] \in Links
          /\ list'[a].first = n /\ list'[a].prev[n] = Nil /\ list'[a].next[n] = Nil
          /\ \A m \in Node \ {n} : list'[a].prev[m] = list[a].prev[m] /\ list'[a].next[m] = list[a].next[m]
    <3>1. ASSUME NEW a \in Axis
          PROVE  /\ list'[a] \in Links
                 /\ list'[a].first = n /\ list'[a].prev[n] = Nil /\ list'[a].next[n] = Nil
                 /\ \A m \in Node \ {n} : /\ list'[a].prev[m] = list[a].prev[m]
                                         /\ list'[a].next[m] = list[a].next[m]
      <4>1. list'[a] = Alone(list[a], n)
        BY <2>0 DEF Alone
      <4>2. list[a] \in Links
        BY <1>13
      <4> QED
        BY <4>1, <4>2, AloneLinks
    <3> QED
      BY <3>1
  <2>5. list' \in [Axis -> Links]
    BY <2>0, <2>4
  <2>6. /\ pos' \in [Node -> [Axis -> Nat]] /\ pos'[n] = want
        /\ oldExt' \in [Node -> [Axis -> Nat]] /\ oldExt'[n] = want
    BY <1>3, <2>1 DEF AOIInv, Typed
  <2>7. Typed'
    <3>1. size' \in Int /\ call' = call /\ UNCHANGED <<flags, dels, releases>>
      BY <1>1, <2>1
    <3> QED
      BY <1>6, <1>8, <1>9, <2>5, <2>6, <3>1 DEF AOIInv, Typed
  <2>8. call'.op \notin {"update", "remove", "destroy"}
    BY <1>4, <2>1
  <2>9. AtRest'
    <3>1. Rested' = {n}
      BY <2>3, <2>8, RestingNext
    <3>2. \A m \in Rested' :
            /\ \A a \in Tracked' : oldExt'[m][a] = pos'[m][a] /\ (flags'[m] = {} => pos'[m][a] > 0)
            /\ flags'[m] # {} => "Removed" \in flags'[m]
      BY <1>1, <1>3, <1>7, <2>6, <3>1 DEF Tracked
    <3> QED
      BY <1>10, <1>11, <3>2 DEF AtRest
  <2>10. LetGo'
    BY <1>1, <2>4 DEF AOIInv, LetGo
  <2>11. Rest(linked, size)'
    <3>1. ASSUME NEW a \in Axis
          PROVE  \E p \in [linked' -> 1..size'] :
                   /\ Lined(list'[a], linked', size', p) /\ Known(before'[a], linked', flags', p)
                   /\ a \in Tracked' => Sorts(linked', pos', a, p)
      <4> DEFINE p == [m \in {n} |-> 1]
      <4>1. Lined(list'[a], linked', size', p)
        BY <2>1, <2>3, <2>4, FirstLined
      <4>2. p \in [linked' -> 1..size']
        <5>1. p \in [{n} -> 1..1]
          OBVIOUS
        <5> QED
          BY <2>1, <2>3, <5>1
      <4>3. Known(before'[a], linked', flags', p)
        BY <2>3 DEF Known
      <4>4. Sorts(linked', pos', a, p)
        BY <2>3 DEF Sorts
      <4> QED
        BY <4>1, <4>2, <4>3, <4>4
    <3> QED
      BY <3>1 DEF Rest
  <2>12. Whole' /\ Caller' /\ Leaving'
    BY <2>3, <2>8, <2>11, RestingNext
  <2> QED
    BY <1>12, <2>7, <2>9, <2>10, <2>12 DEF AOIInv
<1>15. CASE ~IsEmpty
  <2>1. /\ oldExt' = [oldExt EXCEPT ![n] = [a \in Axis |-> lowest]]
        /\ pos' = [pos EXCEPT ![n] = [a \in Axis |-> pos[list[a].first][a]]]
        /\ list' = [a \in Axis |-> PushedFront(list[a], n)]
        /\ size' = size + 1
        /\ call' = Calling("update", n)
    BY <1>2, <1>15
  <2>2. \A a \in Axis : list[a].first \in linked
    <3>1. ASSUME NEW a \in Axis PROVE size = 0 <=> list[a].first = Nil
      <4>1. PICK p \in [linked -> 1..size] : Lined(list[a], linked, size, p)
        BY <1>5 DEF Rest
      <4> QED
        BY <1>6, <4>1 DEF Lined, Onwards
    <3>2. size # 0
      BY <1>15, <3>1 DEF IsEmpty
    <3>3. ASSUME NEW a \in Axis PROVE list[a].first \in linked
      <4>1. PICK p \in [linked -> 1..size] : Lined(list[a], linked, size, p)
        BY <1>5 DEF Rest
      <4> QED
        BY <3>2, <4>1 DEF Lined, Onwards
    <3> QED
      BY <3>3
  <2>3. \A a \in Axis : list[a].prev[n] = Nil
    BY <1>1 DEF AOIInv, LetGo
  <2>4. \A a \in Axis :
          /\ list'[a] = PushedFront(list[a], n) /\ list'[a] \in Links
          /\ \A m \in Node \ linked' : list'[a].prev[m] = list[a].prev[m] /\ list'[a].next[m] = list[a].next[m]
    <3>1. ASSUME NEW a \in Axis
          PROVE  /\ list'[a] = PushedFront(list[a], n) /\ list'[a] \in Links
                 /\ \A m \in Node \ linked' : list'[a].prev[m] = list[a].prev[m]
                                              /\ list'[a].next[m] = list[a].next[m]
      <4>1. list[a] \in Links /\ list[a].first # Nil /\ list[a].first \in linked
        BY <1>6, <1>13, <2>2
      <4>2. list'[a] = PushedFront(list[a], n) /\ list'[a] \in Links
        BY <1>6, <2>1, <4>1, LinksType
      <4> QED
        BY <1>1, <4>1, <4>2 DEF PushedFront, Links
    <3> QED
      BY <3>1
  <2>5. list' \in [Axis -> Links]
    BY <2>1, <2>4
  <2>6. /\ pos' \in [Node -> [Axis -> Nat]]
        /\ \A m \in Node : m # n => pos'[m] = pos[m]
    <3>1. [a \in Axis |-> pos[list[a].first][a]] \in [Axis -> Nat]
      BY <1>6, <2>2 DEF AOIInv, Typed
    <3> QED
      BY <2>1, <3>1 DEF AOIInv, Typed
  <2>7. /\ oldExt' \in [Node -> [Axis -> Nat]] /\ \A a \in Axis : oldExt'[n][a] = 0
        /\ \A m \in Node : m # n => oldExt'[m] = oldExt[m]
    BY <2>1 DEF AOIInv, Typed, lowest
  <2>8. /\ call'.op = "update" /\ call'.node = n /\ call' \in Calls
        /\ Rested' = linked /\ Leaving'
    <3>1. linked' \ {n} = linked
      BY <1>1
    <3>2. call'.node = n
      BY <2>1, NoCallIs
    <3> QED
      BY <2>1, <3>1, <3>2, CallBeginsQuiet
  <2>9. Typed'
    <3>1. size' \in Int /\ linked' \in SUBSET Node /\ call' \in Calls
      BY <1>6, <2>1, <2>8 DEF AOIInv, Typed
    <3>2. /\ flags' = flags /\ dels' = dels /\ releases' = releases
          /\ flags \in [Node -> SUBSET {"Removing", "Removed"}]
          /\ dels \in Seq(Node) /\ releases \in Seq(Node)
      BY <1>1 DEF AOIInv, Typed
    <3> QED
      BY <1>8, <1>9, <2>5, <2>6, <2>7, <3>1, <3>2 DEF Typed
  <2>10. Caller'
    BY <1>1, <1>7, <2>8 DEF Caller
  <2>11. AtRest'
    <3>1. \A m \in Rested' : m \in Rested /\ m # n /\ m \in Node
      BY <1>1, <1>5, <1>6, <2>8
    <3>2. \A m \in Rested' :
            /\ \A a \in Tracked' : oldExt'[m][a] = pos'[m][a] /\ (flags'[m] = {} => pos'[m][a] > 0)
            /\ flags'[m] # {} => "Removed" \in flags'[m]
      BY <1>1, <1>13, <2>6, <2>7, <3>1 DEF AOIInv, AtRest
    <3> QED
      BY <1>10, <1>11, <3>2 DEF AtRest
  <2>12. LetGo'
    BY <1>1, <2>4 DEF AOIInv, LetGo
  <2>13. ASSUME NEW a \in Axis PROVE \E q \in [linked' -> 1..size'] : Placed(a, q)'
    <3>1. PICK p \in [linked -> 1..size] :
            /\ Lined(list[a], linked, size, p) /\ Known(before[a], linked, flags, p)
            /\ a \in Tracked => Sorts(linked, pos, a, p)
      BY <1>5 DEF Rest
    <3>2. PICK q : q = PushedNumbers(linked, p, n)
      OBVIOUS
    <3>3. n \in Node \ linked /\ list[a] \in Links /\ list[a].first # Nil /\ list[a].prev[n] = Nil
      BY <1>1, <1>6, <1>13, <2>2, <2>3
    <3>4. Lined(list'[a], linked', size', q)
      BY <1>1, <1>6, <2>1, <2>4, <3>1, <3>2, <3>3, PushedLined
    <3>5. Numbers(linked, size, p) /\ q \in [linked' -> 1..size']
      BY <3>1, <3>4 DEF Lined, Numbers
    <3>6. Known(before'[a], linked', flags', q)
      BY <1>1, <1>9, <3>1, <3>2, <3>5, InsertKnown
    <3>7. ASSUME a \in Tracked PROVE Phase(a, q)'
      <4>1. \A m, j \in linked : q[m] < q[j] <=> p[m] < p[j]
        BY <1>1, <3>2, <3>5, PushedOrder
      <4>2. linked' \ {n} = linked /\ \A m \in linked : m \in Node /\ m # n
        BY <1>1, <1>6
      <4>3. Sorts(linked' \ {n}, pos', a, q)
        BY <2>6, <3>1, <3>7, <4>1, <4>2 DEF Sorts
      <4>4. GetExt(n, a)' = want[a]
        BY <1>1, <1>7, <1>8 DEF GetExt
      <4>5. GetExt(n, a)' # oldExt'[n][a]
        BY <1>3, <2>7, <4>4
      <4> QED
        BY <2>1, <4>3, <4>5, CallBegins
    <3> QED
      BY <1>13, <3>4, <3>5, <3>6, <3>7 DEF Placed
  <2>14. Whole'
    BY <1>6, <2>1, <2>13 DEF Whole
  <2> QED
    BY <1>12, <2>8, <2>9, <2>10, <2>11, <2>12, <2>14 DEF AOIInv
<1> QED
  BY <1>14, <1>15

-----------------------------------------------------------------------------
(* The loops of Update.                                                    *)

\* What the operators on the links leave alone.
LEMMA UnlinkedOthers ==
  ASSUME NEW l \in Links, NEW L \in SUBSET Node, NEW k, NEW p, Lined(l, L, k, p),
         NEW n \in L, Nil \notin Node
  PROVE  /\ \A m \in Node \ L : Unlinked(l, n).prev[m] = l.prev[m] /\ Unlinked(l, n).next[m] = l.next[m]
         /\ Unlinked(l, n).prev[n] = Nil /\ Unlinked(l, n).next[n] = Nil
<1>1. \A m \in L : l.next[m] \in L \cup {Nil} /\ l.prev[m] \in L \cup {Nil}
  BY DEF Lined, Onwards, Backwards
<1> QED
  BY <1>1 DEF Unlinked

LEMMA PassOthers ==
  ASSUME NEW l \in Links, NEW L \in SUBSET Node, NEW k, NEW p, Lined(l, L, k, p),
         NEW n \in L, NEW c \in L, Nil \notin Node
  PROVE  \A m \in Node \ L : MovedBack(l, n, c).prev[m] = l.prev[m]
                             /\ MovedBack(l, n, c).next[m] = l.next[m]
<1>1. \A m \in L : l.next[m] \in L \cup {Nil} /\ l.prev[m] \in L \cup {Nil}
  BY DEF Lined, Onwards, Backwards
<1> QED
  BY <1>1 DEF MovedBack

\* A pass is told to both, and to both it is the pass that happens.
LEMMA PassKnown ==
  ASSUME NEW L \in SUBSET Node, NEW k, NEW p, Numbers(L, k, p), NEW n \in L, NEW c \in L, n # c,
         p[c] = p[n] - 1 \/ p[c] = p[n] + 1, NEW b, Known(b, L, flags, p)
  PROVE  Known(Told(b, n, c), L, flags, SwappedNumbers(L, p, n, c))
<1> DEFINE q == SwappedNumbers(L, p, n, c)
           b2 == Told(b, n, c)
<1>1. /\ q[n] < q[c] <=> ~(p[n] < p[c])
      /\ q[c] < q[n] <=> ~(p[c] < p[n])
      /\ \A m, j \in L : ~(m = n /\ j = c) /\ ~(m = c /\ j = n) => (q[m] < q[j] <=> p[m] < p[j])
  BY SwappedOrder
<1>2. \A m \in L : b2[m] = IF m = c /\ ~HideOrRemoved(n) THEN Toggled(b[m], n)
                           ELSE IF m = n /\ ~HideOrRemoved(c) THEN Toggled(b[m], c)
                           ELSE b[m]
  BY DEF Told
<1> HIDE DEF q, b2
<1>3. ASSUME NEW m \in L, NEW j \in L \ ({m} \cup Hide), "Removed" \notin flags[m] \cup flags[j]
      PROVE  j \in b2[m] <=> q[j] < q[m]
  <2>1. j \in b[m] <=> p[j] < p[m]
    BY <1>3 DEF Known
  <2>2. CASE m = c /\ j = n
    <3>1. b2[m] = Toggled(b[m], n)
      BY <1>2, <1>3, <2>2 DEF HideOrRemoved
    <3>2. n \in b2[m] <=> n \notin b[m]
      BY <3>1 DEF Toggled
    <3> QED
      BY <1>1, <2>1, <2>2, <3>2
  <2>3. CASE m = n /\ j = c
    <3>1. b2[m] = Toggled(b[m], c)
      BY <1>2, <1>3, <2>3 DEF HideOrRemoved
    <3>2. c \in b2[m] <=> c \notin b[m]
      BY <3>1 DEF Toggled
    <3> QED
      BY <1>1, <2>1, <2>3, <3>2
  <2>4. CASE ~(m = c /\ j = n) /\ ~(m = n /\ j = c)
    <3>1. j \in b2[m] <=> j \in b[m]
      BY <1>2, <2>4 DEF Toggled
    <3> QED
      BY <1>1, <2>1, <2>4, <3>1
  <2> QED
    BY <2>2, <2>3, <2>4
<1> QED
  BY <1>3 DEF Known, q, b2

LEMMA Underway ==
  ASSUME AOIInv, Updating
  PROVE  /\ InCall /\ call.op # "destroy" /\ call.node \in linked /\ linked \in SUBSET Node
         /\ Rested = linked \ {call.node}
         /\ ThisAxis \in Axis /\ call.at \in 1..Len(AxisOrder) /\ ~Done(ThisAxis)
         /\ Nil \notin Node
         /\ size = Cardinality(linked)
         /\ \A a \in Axis : list[a] \in Links /\ \E p \in [linked -> 1..size] : Placed(a, p)
         /\ Target \in Nat /\ \A m \in linked : \A a \in Axis : pos[m][a] \in Nat
<1>1. /\ InCall /\ call.op # "destroy" /\ call.node \in linked /\ linked \in SUBSET Node
      /\ Rested = linked \ {call.node}
  BY DEF Updating, InCall, AOIInv, Caller, Typed, Rested
<1>2. call.at \in 1..Len(AxisOrder)
  BY AxisOrderType DEF Updating, AOIInv, Typed, Calls
<1>3. ThisAxis \in Axis /\ ~Done(ThisAxis)
  BY <1>2, AxisOrderType DEF ThisAxis, Done
<1>4. Target \in Nat
  BY <1>1, <1>3, GetExtType DEF Target, AOIInv
<1>5. Nil \notin Node /\ \A m \in linked : \A a \in Axis : pos[m][a] \in Nat
  BY <1>1, AOIAssumption DEF AOIInv, Typed
<1>6. /\ size = Cardinality(linked)
      /\ \A a \in Axis : list[a] \in Links /\ \E p \in [linked -> 1..size] : Placed(a, p)
  BY <1>1 DEF AOIInv, Whole, Typed
<1> QED
  BY <1>1, <1>2, <1>3, <1>4, <1>5, <1>6

\* A step of a loop moves nobody but the node of the call.
LEMMA LoopQuiet ==
  ASSUME AOIInv, Updating, call'.op = call.op, call'.node = call.node,
         UNCHANGED <<wanted, oldExt, flags, linked, releases>>,
         \A m \in linked \ {call.node} : pos'[m] = pos[m]
  PROVE  InCall' /\ Caller' /\ AtRest' /\ ReleasedOnce' /\ Leaving'
<1>1. InCall /\ call.op # "destroy" /\ Rested = linked \ {call.node}
  BY Underway
<1>2. InCall' /\ Rested' = Rested
  BY <1>1 DEF InCall, Rested
<1>3. Caller'
  BY DEF AOIInv, Caller, InCall
<1>4. AtRest'
  BY <1>1, <1>2 DEF AOIInv, AtRest, Tracked
<1>5. ReleasedOnce' /\ Leaving'
  BY <1>1 DEF AOIInv, ReleasedOnce, Leaving
<1> QED
  BY <1>2, <1>3, <1>4, <1>5

\* It leaves the other axes as they are.
LEMMA OtherAxis ==
  ASSUME AOIInv, Updating, call'.op = call.op, call'.node = call.node,
         call'.at = call.at \/ (call'.at = call.at + 1 /\ call'.loop = "back"),
         UNCHANGED <<wanted, oldExt, flags, linked>>,
         NEW a \in Axis, a # ThisAxis, \A m \in linked : pos'[m][a] = pos[m][a],
         NEW p, Phase(a, p)
  PROVE  Phase(a, p)'
<1>1. /\ InCall /\ call.node \in linked /\ call.at \in 1..Len(AxisOrder)
  BY Underway
<1>2. InCall'
  BY <1>1 DEF InCall
<1>3. PICK n : n = call.node
  OBVIOUS
<1>4. GetExt(n, a)' = GetExt(n, a)
  BY DEF GetExt
<1>5. /\ Sorts(linked' \ {call'.node}, pos', a, p) <=> Sorts(linked \ {call.node}, pos, a, p)
      /\ Settled(a, p)' <=> Settled(a, p)
  BY <1>1, <1>3, <1>4 DEF Sorts, Settled
<1>6. Done(a)' => Done(a)
  <2> SUFFICES ASSUME NEW j \in DOMAIN AxisOrder, j < call'.at, AxisOrder[j] = a
               PROVE  j < call.at
    BY DEF Done
  <2>1. j # call.at /\ j \in 1..Len(AxisOrder)
    BY AxisOrderType DEF ThisAxis
  <2> QED
    BY <1>1, <2>1
<1>7. ~(call'.loop = "on" /\ call'.at <= Len(AxisOrder) /\ a = ThisAxis')
  BY DEF ThisAxis
<1> QED
  BY <1>1, <1>2, <1>3, <1>4, <1>5, <1>6, <1>7 DEF Phase

\* And an axis whose node is in place is settled, whatever comes next.
LEMMA SettledAxis ==
  ASSUME InCall', call'.loop = "back", NEW a, NEW p, Settled(a, p)'
  PROVE  Phase(a, p)'
<1>1. Sorts(linked' \ {call'.node}, pos', a, p)
  BY DEF Settled, Sorts
<1> QED
  BY <1>1 DEF Phase

\* A pass of the node of a call and a neighbour of it.
LEMMA PassKeeps ==
  ASSUME AOIInv, Updating, HasMoved, NEW n, n = call.node, NEW x, x = ThisAxis,
         NEW c \in linked, c # n, NEW moved \in Links, MoveNode(c, moved),
         NEW p \in [linked -> 1..size], Placed(x, p), p[c] = p[n] - 1 \/ p[c] = p[n] + 1,
         Lined(moved, linked, size, SwappedNumbers(linked, p, n, c)),
         \A m \in Node \ linked : moved.prev[m] = list[x].prev[m] /\ moved.next[m] = list[x].next[m],
         call.loop = "on" => moved.prev[n] = c /\ pos[c][x] <= Target
  PROVE  AOIInv'
<1>1. /\ pos' = [pos EXCEPT ![n][x] = pos[c][x]]
      /\ list' = [list EXCEPT ![x] = moved]
      /\ before' = [before EXCEPT ![x] = Told(@, n, c)]
      /\ UNCHANGED <<wanted, oldExt, flags, linked, size, dels, releases, call>>
  BY DEF MoveNode
<1>2. /\ InCall /\ call.op # "destroy" /\ n \in linked /\ linked \in SUBSET Node
      /\ x \in Axis /\ ~Done(x) /\ call.at \in 1..Len(AxisOrder)
      /\ size = Cardinality(linked)
      /\ \A a \in Axis : \E p2 \in [linked -> 1..size] : Placed(a, p2)
  BY Underway
<1>3. /\ pos' \in [Node -> [Axis -> Nat]]
      /\ \A m \in Node : m # n => pos'[m] = pos[m]
      /\ \A a \in Axis : a # x => pos'[n][a] = pos[n][a]
  <2>1. pos \in [Node -> [Axis -> Nat]] /\ n \in Node /\ c \in Node /\ pos[c][x] \in Nat
    BY <1>2 DEF AOIInv, Typed
  <2> QED
    BY <1>1, <1>2, <2>1
<1>4. list' \in [Axis -> Links] /\ list'[x] = moved /\ \A a \in Axis : a # x => list'[a] = list[a]
  BY <1>1, <1>2 DEF AOIInv, Typed
<1>5. /\ before' \in [Axis -> [Node -> SUBSET Node]]
      /\ before'[x] = Told(before[x], n, c) /\ \A a \in Axis : a # x => before'[a] = before[a]
  <2>1. before \in [Axis -> [Node -> SUBSET Node]] /\ n \in Node /\ c \in Node
    BY <1>2 DEF AOIInv, Typed
  <2>2. Told(before[x], n, c) \in [Node -> SUBSET Node]
    BY <1>2, <2>1 DEF Told, Toggled
  <2> QED
    BY <1>1, <1>2, <2>1, <2>2
<1>6. Typed'
  BY <1>1, <1>3, <1>4, <1>5 DEF AOIInv, Typed
<1>7. InCall' /\ Caller' /\ AtRest' /\ ReleasedOnce' /\ Leaving'
  BY <1>1, <1>2, <1>3, LoopQuiet
<1>8. LetGo'
  <2>1. ASSUME NEW m \in Node \ linked, NEW a \in Axis
        PROVE  list'[a].prev[m] = Nil /\ list'[a].next[m] = Nil
    <3>1. list[a].prev[m] = Nil /\ list[a].next[m] = Nil
      BY DEF AOIInv, LetGo
    <3> QED
      BY <1>4, <3>1
  <2> QED
    BY <1>1, <2>1 DEF LetGo
<1>9. Tracked' = Tracked
  BY DEF Tracked
<1>10. ASSUME NEW a \in Axis, a # x
       PROVE  \E p2 \in [linked' -> 1..size'] : Placed(a, p2)'
  <2>1. PICK p2 \in [linked -> 1..size] : Placed(a, p2)
    BY <1>2
  <2>2. \A m \in linked : pos'[m][a] = pos[m][a]
    BY <1>2, <1>3, <1>10
  <2>3. a \in Tracked => Phase(a, p2)'
    BY <1>1, <1>10, <2>1, <2>2, OtherAxis DEF Placed
  <2> QED
    BY <1>1, <1>4, <1>5, <1>9, <1>10, <2>1, <2>3 DEF Placed
<1>11. PICK q : q = SwappedNumbers(linked, p, n, c)
  OBVIOUS
<1>12. Lined(list'[x], linked', size', q) /\ q \in [linked' -> 1..size']
  BY <1>1, <1>4, <1>11 DEF Lined, Numbers
<1>13. Numbers(linked, size, p)
  BY DEF Placed, Lined
<1>14. Known(before'[x], linked', flags', q)
  BY <1>1, <1>2, <1>5, <1>11, <1>13, PassKnown DEF Placed
<1>15. ASSUME x \in Tracked PROVE Phase(x, q)'
  <2>1. \A m, j \in linked \ {n} : q[m] < q[j] <=> p[m] < p[j]
    <3>1. \A m, j \in linked : ~(m = n /\ j = c) /\ ~(m = c /\ j = n) => (q[m] < q[j] <=> p[m] < p[j])
      <4>1. n \in linked /\ c \in linked /\ n # c
        BY <1>2
      <4> QED
        BY <1>11, <1>13, <4>1, SwappedOrder
    <3>2. \A m \in linked \ {n} : m \in linked /\ m # n
      OBVIOUS
    <3> QED
      BY <3>1, <3>2
  <2>2. Sorts(linked \ {n}, pos, x, p)
    BY <1>2, <1>15 DEF Placed, Phase
  <2>3. Sorts(linked' \ {call'.node}, pos', x, q)
    BY <1>1, <1>2, <1>3, <2>1, <2>2 DEF Sorts
  <2>4. GetExt(n, x)' = GetExt(n, x)
    BY <1>1 DEF GetExt
  <2>5. GetExt(n, x) # oldExt[n][x]
    BY DEF HasMoved, Target
  <2>6. ~(GetExt(call.node, x)' = oldExt'[call'.node][x])
    BY <1>1, <2>4, <2>5
  <2>7. ~Done(x)'
    BY <1>1, <1>2 DEF Done
  <2>8. ThisAxis' = x /\ Target' = Target /\ HasMoved'
    BY <1>1, <2>4, <2>5 DEF ThisAxis, Target, HasMoved
  <2>9. call'.loop = "on" => (Ahead' # Nil => pos'[Ahead'][x] <= Target')
    <3> SUFFICES ASSUME call.loop = "on" PROVE pos'[Ahead'][x] <= Target'
      BY <1>1
    <3>1. Ahead' = c
      BY <1>1, <1>4, <2>8 DEF Ahead
    <3> QED
      BY <1>2, <1>3, <2>8, <3>1
  <2> QED
    BY <1>7, <2>3, <2>6, <2>7, <2>8, <2>9 DEF Phase
<1>16. Placed(x, q)'
  BY <1>9, <1>12, <1>14, <1>15 DEF Placed
<1>17. Whole'
  BY <1>1, <1>2, <1>10, <1>12, <1>16 DEF Whole
<1> QED
  BY <1>6, <1>7, <1>8, <1>17 DEF AOIInv

LEMMA StepBackKeeps ==
  ASSUME AOIInv, StepBack
  PROVE  AOIInv'
<1>1. PICK n, x, c, l : n = call.node /\ x = ThisAxis /\ c = Ahead /\ l = list[x]
  OBVIOUS
<1>2. /\ Updating /\ HasMoved /\ call.loop = "back"
      /\ MoveNode(c, MovedBack(l, n, c)) /\ c = l.prev[n] /\ l.prev[n] # Nil
  BY <1>1 DEF StepBack, GoesBack, Ahead
<1>3. /\ n \in linked /\ linked \in SUBSET Node /\ n \in Node /\ l \in Links /\ Nil \notin Node
      /\ \E p \in [linked -> 1..size] : Placed(x, p)
  BY <1>1, <1>2, Underway
<1>4. PICK p \in [linked -> 1..size] : Placed(x, p)
  BY <1>3
<1>5. Lined(l, linked, size, p)
  BY <1>1, <1>4 DEF Placed
<1>6. /\ c \in linked /\ c # n /\ p[c] = p[n] - 1
      /\ Lined(MovedBack(l, n, c), linked, size, SwappedNumbers(linked, p, n, c))
  BY <1>2, <1>3, <1>5, BackLined
<1>7. MovedBack(l, n, c) \in Links
  BY <1>3, <1>6, LinksType
<1>8. \A m \in Node \ linked : MovedBack(l, n, c).prev[m] = l.prev[m]
                               /\ MovedBack(l, n, c).next[m] = l.next[m]
  BY <1>3, <1>5, <1>6, PassOthers
<1>9. PICK moved : moved = MovedBack(l, n, c)
  OBVIOUS
<1> QED
  BY <1>1, <1>2, <1>4, <1>6, <1>7, <1>8, <1>9, PassKeeps

LEMMA StepOnKeeps ==
  ASSUME AOIInv, StepOn
  PROVE  AOIInv'
<1>1. PICK n, x, c, l : n = call.node /\ x = ThisAxis /\ c = Behind /\ l = list[x]
  OBVIOUS
<1>2. /\ Updating /\ HasMoved /\ MoveNode(c, MovedOn(l, n, c))
      /\ pos[c][x] < Target \/ pos[c][x] = Target
  BY <1>1 DEF StepOn, GoesOn, Behind
<1>3. c = l.next[n] /\ l.next[n] # Nil
  BY <1>1 DEF StepOn, GoesOn, Behind
<1>4. /\ n \in linked /\ linked \in SUBSET Node /\ n \in Node /\ l \in Links /\ Nil \notin Node
      /\ \E p \in [linked -> 1..size] : Placed(x, p)
  BY <1>1, <1>2, Underway
<1>5. PICK p \in [linked -> 1..size] : Placed(x, p)
  BY <1>4
<1>6. Lined(l, linked, size, p)
  BY <1>1, <1>5 DEF Placed
<1>7. /\ c \in linked /\ c # n /\ p[c] = p[n] + 1
      /\ Lined(MovedOn(l, n, c), linked, size, SwappedNumbers(linked, p, n, c))
  BY <1>3, <1>4, <1>6, OnLined
<1>8. MovedOn(l, n, c) \in Links
  BY <1>4, <1>7, LinksType
<1>9. /\ MovedOn(l, n, c).prev[n] = c
      /\ \A m \in Node \ linked : MovedOn(l, n, c).prev[m] = l.prev[m]
                                  /\ MovedOn(l, n, c).next[m] = l.next[m]
  <2>1. \A m \in linked : l.next[m] \in linked \cup {Nil} /\ l.prev[m] \in linked \cup {Nil}
    BY <1>6 DEF Lined, Onwards, Backwards
  <2>2. MovedOn(l, n, c).prev[n] = c
    BY <1>4 DEF MovedOn
  <2>3. \A m \in Node \ linked : MovedOn(l, n, c).prev[m] = l.prev[m]
                                 /\ MovedOn(l, n, c).next[m] = l.next[m]
    BY <1>4, <1>7, <2>1 DEF MovedOn
  <2> QED
    BY <2>2, <2>3
<1>10. pos[c][x] <= Target
  <2>1. Target \in Nat /\ pos[c][x] \in Nat
    BY <1>1, <1>2, <1>7, Underway
  <2> QED
    BY <1>2, <2>1
<1>11. PICK moved : moved = MovedOn(l, n, c)
  OBVIOUS
<1> QED
  BY <1>1, <1>2, <1>5, <1>7, <1>8, <1>9, <1>10, <1>11, PassKeeps

\* The loops are over when the node is in its place.
LEMMA AxisDone ==
  ASSUME AOIInv, Updating, call' = NextAxis,
         UNCHANGED <<wanted, oldExt, flags, list, linked, size, dels, releases, before>>,
         NEW n, n = call.node, NEW x, x = ThisAxis, pos' \in [Node -> [Axis -> Nat]],
         \A m \in Node : \A a \in Axis : m # n \/ a # x => pos'[m][a] = pos[m][a],
         NEW p \in [linked -> 1..size], Placed(x, p),
         x \in Tracked => Sorts(linked, pos', x, p) /\ pos'[n][x] = Target
  PROVE  AOIInv'
<1>1. /\ InCall /\ call.op # "destroy" /\ n \in linked /\ linked \in SUBSET Node
      /\ x \in Axis /\ call.at \in 1..Len(AxisOrder)
      /\ size = Cardinality(linked)
      /\ \A a \in Axis : \E p2 \in [linked -> 1..size] : Placed(a, p2)
  BY Underway
<1>2. /\ call'.op = call.op /\ call'.node = call.node /\ call'.at = call.at + 1
      /\ call'.loop = "back" /\ call' \in Calls
  <2>1. call \in Calls /\ call.at \in Nat
    BY <1>1 DEF AOIInv, Typed, Calls
  <2>2. call.at + 1 \in Nat \ {0}
    BY <2>1
  <2> QED
    BY <2>1, <2>2 DEF NextAxis, Calls
<1>3. Typed'
  BY <1>2 DEF AOIInv, Typed
<1>4. \A m \in linked \ {call.node} : pos'[m] = pos[m]
  <2>1. ASSUME NEW m \in Node, m # n PROVE pos'[m] = pos[m]
    <3>1. pos'[m] \in [Axis -> Nat] /\ pos[m] \in [Axis -> Nat]
      BY DEF AOIInv, Typed
    <3> QED
      BY <2>1, <3>1
  <2> QED
    BY <1>1, <2>1
<1>5. InCall' /\ Caller' /\ AtRest' /\ ReleasedOnce' /\ Leaving'
  BY <1>2, <1>4, LoopQuiet
<1>6. LetGo' /\ Tracked' = Tracked
  BY DEF AOIInv, LetGo, Tracked
<1>7. ASSUME NEW a \in Axis, a # x
      PROVE  \E p2 \in [linked' -> 1..size'] : Placed(a, p2)'
  <2>1. PICK p2 \in [linked -> 1..size] : Placed(a, p2)
    BY <1>1
  <2>2. \A m \in linked : pos'[m][a] = pos[m][a]
    BY <1>1, <1>7
  <2>3. a \in Tracked => Phase(a, p2)'
    BY <1>2, <1>7, <2>1, <2>2, OtherAxis DEF Placed
  <2> QED
    BY <1>6, <2>1, <2>3 DEF Placed
<1>8. Placed(x, p)'
  <2>1. ASSUME x \in Tracked PROVE Phase(x, p)'
    <3>1. GetExt(n, x)' = Target
      BY DEF Target, GetExt
    <3>2. Settled(x, p)'
      BY <1>2, <2>1, <3>1 DEF Settled
    <3> QED
      BY <1>2, <1>5, <3>2, SettledAxis
  <2> QED
    BY <1>6, <2>1 DEF Placed
<1>9. Whole'
  BY <1>1, <1>2, <1>7, <1>8 DEF Whole
<1> QED
  BY <1>3, <1>5, <1>6, <1>9 DEF AOIInv

LEMMA SkipAxisKeeps ==
  ASSUME AOIInv, SkipAxis
  PROVE  AOIInv'
<1>1. /\ Updating /\ ~HasMoved /\ call' = NextAxis
      /\ UNCHANGED <<wanted, pos, oldExt, flags, list, linked, size, dels, releases, before>>
  BY DEF SkipAxis
<1>2. PICK n, x : n = call.node /\ x = ThisAxis
  OBVIOUS
<1>3. InCall /\ \E p \in [linked -> 1..size] : Placed(x, p)
  BY <1>1, <1>2, Underway
<1>4. PICK p \in [linked -> 1..size] : Placed(x, p)
  BY <1>3
<1>5. ASSUME x \in Tracked PROVE Sorts(linked, pos', x, p) /\ pos'[n][x] = Target
  <2>1. Settled(x, p)
    BY <1>1, <1>2, <1>3, <1>4, <1>5 DEF Placed, Phase, HasMoved, Target
  <2> QED
    BY <1>1, <1>2, <2>1 DEF Settled, Target
<1>6. pos' \in [Node -> [Axis -> Nat]] /\ pos' = pos
  BY <1>1 DEF AOIInv, Typed
<1> QED
  BY <1>1, <1>2, <1>4, <1>5, <1>6, AxisDone

LEMMA ArriveKeeps ==
  ASSUME AOIInv, Arrive
  PROVE  AOIInv'
<1>1. /\ Updating /\ HasMoved /\ call.loop = "on" /\ ~GoesOn /\ call' = NextAxis
      /\ pos' = [pos EXCEPT ![call.node][ThisAxis] = Target]
      /\ UNCHANGED <<wanted, oldExt, flags, list, linked, size, dels, releases, before>>
  BY DEF Arrive
<1>2. PICK n, x : n = call.node /\ x = ThisAxis
  OBVIOUS
<1>3. /\ InCall /\ n \in linked /\ linked \in SUBSET Node /\ x \in Axis
      /\ call.at \in 1..Len(AxisOrder)
      /\ Target \in Nat /\ \A m \in linked : pos[m][x] \in Nat
      /\ \E p \in [linked -> 1..size] : Placed(x, p)
  BY <1>1, <1>2, Underway
<1>4. PICK p \in [linked -> 1..size] : Placed(x, p)
  BY <1>3
<1>5. /\ pos' \in [Node -> [Axis -> Nat]] /\ pos'[n][x] = Target
      /\ \A m \in Node : \A a \in Axis : m # n \/ a # x => pos'[m][a] = pos[m][a]
  BY <1>1, <1>2, <1>3 DEF AOIInv, Typed
<1>6. ASSUME x \in Tracked PROVE Sorts(linked, pos', x, p)
  <2>1. Phase(x, p)
    BY <1>4, <1>6 DEF Placed
  <2>2. Sorts(linked \ {n}, pos, x, p)
    BY <1>2, <1>3, <2>1 DEF Phase
  <2>3. Ahead # Nil => pos[Ahead][x] <= Target
    <3>1. call.at <= Len(AxisOrder)
      BY <1>1 DEF Updating
    <3> QED
      BY <1>1, <1>2, <1>3, <2>1, <3>1 DEF Phase
  <2>4. PICK b, c : b = Ahead /\ c = Behind
    OBVIOUS
  <2>5. /\ \A m, j \in linked : p[m] = p[j] => m = j
        /\ \A m \in linked : p[m] \in 1..size
        /\ size \in Nat
    BY <1>4 DEF Placed, Lined, Numbers
  <2>6. /\ IF p[n] = 1 THEN b = Nil ELSE b \in linked /\ p[b] = p[n] - 1
        /\ IF p[n] = size THEN c = Nil ELSE c \in linked /\ p[c] = p[n] + 1
    BY <1>2, <1>3, <1>4, <2>4 DEF Placed, Lined, Onwards, Backwards, Ahead, Behind
  <2>7. Nil \notin linked
    BY <1>3, AOIAssumption
  <2>8. ASSUME NEW m \in linked, p[m] < p[n] PROVE pos[m][x] <= Target
    <3>1. b \in linked /\ p[b] = p[n] - 1 /\ b # n
      BY <2>5, <2>6, <2>8
    <3>2. pos[b][x] <= Target
      BY <2>3, <2>4, <2>7, <3>1
    <3>3. CASE m = b
      BY <3>2, <3>3
    <3>4. CASE m # b
      <4>1. p[m] < p[b] /\ m # n
        BY <1>3, <2>5, <2>8, <3>1, <3>4
      <4>2. pos[m][x] <= pos[b][x]
        BY <2>2, <3>1, <4>1 DEF Sorts
      <4> QED
        BY <1>3, <3>1, <3>2, <4>2
    <3> QED
      BY <3>3, <3>4
  <2>9. ASSUME NEW m \in linked, p[n] < p[m] PROVE Target <= pos[m][x]
    <3>1. c \in linked /\ p[c] = p[n] + 1 /\ c # n
      BY <2>5, <2>6, <2>9
    <3>2. ~(pos[c][x] < Target)
      BY <1>1, <1>2, <2>4, <2>7, <3>1 DEF GoesOn
    <3>3. Target <= pos[c][x]
      BY <1>3, <3>1, <3>2
    <3>4. CASE m = c
      BY <3>3, <3>4
    <3>5. CASE m # c
      <4>1. p[c] < p[m] /\ m # n
        BY <1>3, <2>5, <2>9, <3>1, <3>5
      <4>2. pos[c][x] <= pos[m][x]
        BY <2>2, <3>1, <4>1 DEF Sorts
      <4> QED
        BY <1>3, <3>1, <3>3, <4>2
    <3> QED
      BY <3>4, <3>5
  <2>10. ASSUME NEW m \in linked, NEW j \in linked, p[m] < p[j]
         PROVE  pos'[m][x] <= pos'[j][x]
    <3>1. m # j /\ m \in Node /\ j \in Node
      BY <1>3, <2>5, <2>10
    <3>2. CASE m = n
      BY <1>3, <1>5, <2>9, <2>10, <3>1, <3>2
    <3>3. CASE j = n
      BY <1>3, <1>5, <2>8, <2>10, <3>1, <3>3
    <3>4. CASE m # n /\ j # n
      BY <1>3, <1>5, <2>2, <2>10, <3>1, <3>4 DEF Sorts
    <3> QED
      BY <3>2, <3>3, <3>4
  <2> QED
    BY <2>10 DEF Sorts
<1> QED
  BY <1>1, <1>2, <1>4, <1>5, <1>6, AxisDone

LEMMA TurnRoundKeeps ==
  ASSUME AOIInv, TurnRound
  PROVE  AOIInv'
<1>1. /\ Updating /\ HasMoved /\ call.loop = "back" /\ ~GoesBack
      /\ call' = [call EXCEPT !.loop = "on"]
      /\ UNCHANGED <<wanted, pos, oldExt, flags, list, linked, size, dels, releases, before>>
  BY DEF TurnRound
<1>2. /\ call'.op = call.op /\ call'.node = call.node /\ call'.at = call.at
      /\ call'.loop = "on" /\ call' \in Calls
  <2>1. call \in Calls
    BY DEF AOIInv, Typed
  <2> QED
    BY <1>1, <2>1 DEF Calls
<1>3. PICK n, x : n = call.node /\ x = ThisAxis
  OBVIOUS
<1>4. /\ InCall /\ call.op # "destroy" /\ n \in linked /\ linked \in SUBSET Node
      /\ x \in Axis /\ size = Cardinality(linked)
      /\ Target \in Nat /\ \A m \in linked : pos[m][x] \in Nat
      /\ \A a \in Axis : \E p \in [linked -> 1..size] : Placed(a, p)
  BY <1>1, <1>3, Underway
<1>5. Typed'
  BY <1>1, <1>2 DEF AOIInv, Typed
<1>6. InCall' /\ Caller' /\ AtRest' /\ ReleasedOnce' /\ Leaving'
  BY <1>1, <1>2, LoopQuiet
<1>7. LetGo' /\ Tracked' = Tracked
  BY <1>1 DEF AOIInv, LetGo, Tracked
<1>8. ASSUME NEW a \in Axis
      PROVE  \E p \in [linked' -> 1..size'] : Placed(a, p)'
  <2>1. PICK p \in [linked -> 1..size] : Placed(a, p)
    BY <1>4
  <2>2. CASE a # x
    <3>1. a \in Tracked => Phase(a, p)'
      BY <1>1, <1>2, <1>3, <2>1, <2>2, OtherAxis DEF Placed
    <3> QED
      BY <1>1, <1>7, <2>1, <3>1 DEF Placed
  <2>3. CASE a = x
    <3>1. GetExt(n, a)' = GetExt(n, a) /\ ThisAxis' = ThisAxis /\ Done(a)' = Done(a)
      BY <1>1, <1>2 DEF GetExt, ThisAxis, Done
    <3>2. Target' = Target /\ Ahead' = Ahead /\ HasMoved'
      BY <1>1, <1>2, <1>3, <2>3, <3>1 DEF Target, Ahead, HasMoved
    <3>3. Settled(a, p)' <=> Settled(a, p)
      BY <1>1, <1>2, <1>3, <3>1 DEF Settled, Sorts
    <3>4. Ahead # Nil => pos[Ahead][x] <= Target
      <4>1. Ahead \in linked \cup {Nil}
        BY <1>3, <1>4, <2>1, <2>3 DEF Placed, Lined, Backwards, Ahead
      <4>2. Ahead # Nil => ~(pos[Ahead][x] > Target)
        BY <1>1, <1>3 DEF GoesBack
      <4> QED
        BY <1>4, <4>1, <4>2
    <3>5. ASSUME a \in Tracked PROVE Phase(a, p)'
      <4>1. Phase(a, p)
        BY <2>1, <3>5 DEF Placed
      <4> QED
        BY <1>1, <1>2, <1>3, <1>4, <1>6, <2>3, <3>1, <3>2, <3>3, <3>4, <4>1 DEF Phase
    <3> QED
      BY <1>1, <1>7, <2>1, <3>5 DEF Placed
  <2> QED
    BY <2>2, <2>3
<1>9. Whole'
  BY <1>1, <1>2, <1>4, <1>8 DEF Whole
<1> QED
  BY <1>5, <1>6, <1>7, <1>9 DEF AOIInv

\* At the end of a call its node is in place on every axis.
LEMMA UpdatedKeeps ==
  ASSUME AOIInv, Updated
  PROVE  AOIInv'
<1>1. /\ InCall /\ call.at > Len(AxisOrder) /\ call' = NoCall
      /\ oldExt' = [oldExt EXCEPT ![call.node] = [a \in Axis |-> GetExt(call.node, a)]]
      /\ UNCHANGED <<wanted, pos, list, linked, size, releases, before>>
  BY DEF Updated, InCall
<1>2. PICK n : n = call.node
  OBVIOUS
<1>3. /\ call.op = "remove" =>
           /\ flags' = [flags EXCEPT ![n] = @ \cup {"Removed"}]
           /\ dels' = dels \/ dels' = Append(dels, n)
      /\ call.op # "remove" => UNCHANGED <<flags, dels>>
  BY <1>2 DEF Updated
<1>4. /\ n \in linked /\ linked \in SUBSET Node /\ Rested = linked \ {n}
      /\ call.op = "update" => flags[n] = {} \/ "Removed" \in flags[n]
      /\ call.op # "destroy"
  BY <1>1, <1>2 DEF AOIInv, Caller, Typed, Rested, InCall
<1>5. size = Cardinality(linked) /\ \A a \in Axis : \E p \in [linked -> 1..size] : Placed(a, p)
  BY <1>4 DEF AOIInv, Whole
<1>6. \A a \in Axis : Done(a)
  <2>1. call.at \in Nat
    BY DEF AOIInv, Typed, Calls
  <2> QED
    BY <1>1, <2>1, AxisOrderType DEF Done
<1>7. \A a \in Axis : \A p : Placed(a, p) /\ a \in Tracked => Settled(a, p)
  BY <1>1, <1>6 DEF Placed, Phase
<1>8. \A a \in Tracked : pos[n][a] = GetExt(n, a)
  BY <1>2, <1>5, <1>7 DEF Settled, Tracked
<1>9. /\ oldExt' \in [Node -> [Axis -> Nat]]
      /\ \A a \in Axis : oldExt'[n][a] = GetExt(n, a)
      /\ \A m \in Node : m # n => oldExt'[m] = oldExt[m]
  <2>1. [a \in Axis |-> GetExt(n, a)] \in [Axis -> Nat]
    BY <1>4, GetExtType DEF AOIInv
  <2>2. n \in Node /\ oldExt' = [oldExt EXCEPT ![n] = [a \in Axis |-> GetExt(n, a)]]
    BY <1>1, <1>2, <1>4
  <2>3. oldExt \in [Node -> [Axis -> Nat]]
    BY DEF AOIInv, Typed
  <2> QED
    BY <2>1, <2>2, <2>3
<1>10. /\ flags' \in [Node -> SUBSET {"Removing", "Removed"}]
       /\ \A m \in Node : flags[m] \subseteq flags'[m] /\ (m # n => flags'[m] = flags[m])
       /\ call.op = "remove" => "Removed" \in flags'[n]
       /\ call.op # "remove" => flags' = flags
       /\ dels' \in Seq(Node)
  <2>1. /\ flags \in [Node -> SUBSET {"Removing", "Removed"}] /\ dels \in Seq(Node)
        /\ n \in Node
    BY <1>4 DEF AOIInv, Typed
  <2>2. CASE call.op = "remove"
    <3>1. /\ flags' = [flags EXCEPT ![n] = @ \cup {"Removed"}]
          /\ dels' = dels \/ dels' = Append(dels, n)
      BY <1>3, <2>2
    <3>2. dels' \in Seq(Node)
      BY <2>1, <3>1
    <3>3. /\ flags' \in [Node -> SUBSET {"Removing", "Removed"}]
          /\ \A m \in Node : flags[m] \subseteq flags'[m] /\ (m # n => flags'[m] = flags[m])
          /\ "Removed" \in flags'[n]
      BY <2>1, <3>1
    <3> QED
      BY <2>2, <3>2, <3>3
  <2>3. CASE call.op # "remove"
    BY <1>3, <2>1, <2>3
  <2> QED
    BY <2>2, <2>3
<1>12. Typed'
  BY <1>1, <1>9, <1>10, NoCallIs DEF AOIInv, Typed
<1>13. call'.op \notin {"update", "remove", "destroy"}
  BY <1>1, NoCallIs
<1>14. Rested' = linked /\ Caller' /\ Leaving'
  BY <1>1, <1>13, RestingNext
<1>15. Tracked' = Tracked
  BY DEF Tracked
<1>16. AtRest'
  <2>1. ASSUME NEW m \in Rested'
        PROVE  /\ \A a \in Tracked' : oldExt'[m][a] = pos'[m][a] /\ (flags'[m] = {} => pos'[m][a] > 0)
               /\ flags'[m] # {} => "Removed" \in flags'[m]
    <3>1. CASE m = n
      <4>1. call.op = "update" \/ call.op = "remove"
        BY <1>1 DEF InCall
      <4>2. flags'[n] # {} => "Removed" \in flags'[n]
        BY <1>4, <1>10, <4>1
      <4>3. ASSUME NEW a \in Tracked, flags'[n] = {} PROVE pos'[n][a] > 0
        <5>1. flags[n] = {} /\ a \in Axis
          BY <1>4, <1>10, <4>3 DEF Tracked
        <5>2. pos[n][a] = wanted[n][a] /\ wanted[n][a] > 0
          BY <1>4, <1>8, <5>1 DEF GetExt, AOIInv, AtRest
        <5> QED
          BY <1>1, <5>2
      <4>4. \A a \in Tracked : oldExt'[n][a] = pos'[n][a]
        BY <1>1, <1>8, <1>9 DEF Tracked
      <4> QED
        BY <1>15, <3>1, <4>2, <4>3, <4>4
    <3>2. CASE m # n
      <4>1. m \in Rested /\ m \in Node
        BY <1>4, <1>14, <3>2
      <4>2. oldExt'[m] = oldExt[m] /\ flags'[m] = flags[m] /\ pos'[m] = pos[m]
        BY <1>1, <1>9, <1>10, <3>2, <4>1
      <4>3. /\ \A a \in Tracked : oldExt[m][a] = pos[m][a] /\ (flags[m] = {} => pos[m][a] > 0)
            /\ flags[m] # {} => "Removed" \in flags[m]
        BY <4>1 DEF AOIInv, AtRest
      <4> QED
        BY <1>15, <4>2, <4>3
    <3> QED
      BY <3>1, <3>2
  <2>2. \A m \in Node \ linked' : flags'[m] = {} \/ \E i \in DOMAIN releases' : releases'[i] = m
    BY <1>1, <1>4, <1>10 DEF AOIInv, AtRest
  <2>3. \A m \in linked' : \A a \in Axis : wanted'[m][a] > 0
    BY <1>1 DEF AOIInv, AtRest
  <2> QED
    BY <2>1, <2>2, <2>3 DEF AtRest
<1>17. LetGo' /\ ReleasedOnce'
  BY <1>1 DEF AOIInv, LetGo, ReleasedOnce
<1>18. Rest(linked, size)'
  <2>1. ASSUME NEW a \in Axis
        PROVE  \E p \in [linked' -> 1..size'] :
                 /\ Lined(list'[a], linked', size', p) /\ Known(before'[a], linked', flags', p)
                 /\ a \in Tracked' => Sorts(linked', pos', a, p)
    <3>1. PICK p \in [linked -> 1..size] : Placed(a, p)
      BY <1>5
    <3>2. a \in Tracked => Sorts(linked', pos', a, p)
      BY <1>1, <1>7, <3>1 DEF Settled
    <3>3. Known(before'[a], linked', flags', p)
      BY <1>1, <1>4, <1>10, <3>1 DEF Placed, Known
    <3> QED
      BY <1>1, <1>15, <3>1, <3>2, <3>3 DEF Placed
  <2> QED
    BY <2>1 DEF Rest
<1>19. Whole'
  BY <1>1, <1>5, <1>13, <1>18, RestingNext
<1> QED
  BY <1>12, <1>14, <1>16, <1>17, <1>19 DEF AOIInv

-----------------------------------------------------------------------------
(* Nodes leave.                                                            *)

LEMMA RemoveRealKeeps ==
  ASSUME AOIInv, call.op \notin {"update", "remove", "destroy"}, NEW n \in linked,
         RemoveReal(n), dels' \in Seq(Node),
         UNCHANGED <<wanted, pos, oldExt, flags, call, before>>
  PROVE  AOIInv'
<1>1. /\ list' = [a \in Axis |-> Unlinked(list[a], n)] /\ linked' = linked \ {n}
      /\ releases' = Append(releases, n) /\ size' = size - 1
  BY DEF RemoveReal
<1>2. size = Cardinality(linked) /\ Rest(linked, size) /\ Rested = linked
  BY Resting DEF AOIInv
<1>3. /\ linked \in SUBSET Node /\ linked' \in SUBSET Node /\ n \in Node /\ Nil \notin Node
      /\ size \in Int /\ size' = Cardinality(linked')
  <2>1. linked \in SUBSET Node /\ size \in Int /\ IsFiniteSet(linked) /\ Cardinality(linked) \in Nat
    BY LinkedFinite DEF AOIInv, Typed
  <2>2. Cardinality(linked \ {n}) = Cardinality(linked) - 1
    BY <2>1, FS_RemoveElement
  <2> QED
    BY <1>1, <1>2, <2>1, <2>2, AOIAssumption
<1>4. \A a \in Axis : list[a] \in Links /\ list'[a] = Unlinked(list[a], n) /\ list'[a] \in Links
  BY <1>1, <1>3, LinksType DEF AOIInv, Typed
<1>5. /\ releases' \in Seq(Node) /\ Len(releases') = Len(releases) + 1 /\ Len(releases) \in Nat
      /\ DOMAIN releases = 1..Len(releases) /\ DOMAIN releases' = 1..Len(releases')
      /\ \A i \in DOMAIN releases : i \in DOMAIN releases' /\ releases'[i] = releases[i]
      /\ releases'[Len(releases')] = n /\ Len(releases') \in DOMAIN releases'
  <2>1. releases \in Seq(Node)
    BY DEF AOIInv, Typed
  <2> QED
    BY <1>1, <1>3, <2>1
<1>6. Typed'
  <2>1. list' \in [Axis -> Links] /\ size' \in Int
    BY <1>1, <1>3, <1>4
  <2> QED
    BY <1>3, <1>5, <2>1 DEF AOIInv, Typed
<1>7. call'.op \notin {"update", "remove", "destroy"}
  OBVIOUS
<1>8. Rested' = linked' /\ Caller' /\ Leaving'
  BY <1>7, RestingNext
<1>9. AtRest'
  <2>1. \A m \in linked' : m \in linked
    BY <1>1
  <2>2. \A m \in Node \ linked' : flags'[m] = {} \/ \E i \in DOMAIN releases' : releases'[i] = m
    <3> SUFFICES ASSUME NEW m \in Node \ linked' PROVE flags[m] = {} \/ \E i \in DOMAIN releases' : releases'[i] = m
      OBVIOUS
    <3>1. CASE m = n
      BY <1>5, <3>1
    <3>2. CASE m # n
      <4>1. m \in Node \ linked
        BY <1>1, <3>2
      <4> QED
        BY <1>5, <4>1 DEF AOIInv, AtRest
    <3> QED
      BY <3>1, <3>2
  <2>3. Tracked' = Tracked
    BY DEF Tracked
  <2> QED
    BY <1>2, <1>8, <2>1, <2>2, <2>3 DEF AOIInv, AtRest
<1>10. ReleasedOnce'
  <2>1. \A i \in DOMAIN releases : releases[i] \notin linked
    BY DEF AOIInv, ReleasedOnce
  <2>2. \A i \in DOMAIN releases' : i \in DOMAIN releases \/ i = Len(releases')
    BY <1>5
  <2>3. \A i \in DOMAIN releases' : releases'[i] \notin linked'
    BY <1>1, <1>5, <2>1, <2>2
  <2>4. ASSUME NEW i \in DOMAIN releases', NEW j \in DOMAIN releases', i # j
        PROVE  releases'[i] # releases'[j]
    <3>1. CASE i \in DOMAIN releases /\ j \in DOMAIN releases
      BY <1>5, <2>4, <3>1 DEF AOIInv, ReleasedOnce
    <3>2. CASE i = Len(releases') /\ j \in DOMAIN releases
      BY <1>5, <2>1, <3>2
    <3>3. CASE j = Len(releases') /\ i \in DOMAIN releases
      BY <1>5, <2>1, <3>3
    <3> QED
      BY <2>2, <2>4, <3>1, <3>2, <3>3
  <2> QED
    BY <2>3, <2>4 DEF ReleasedOnce
<1>11. ASSUME NEW a \in Axis
       PROVE  \E q \in [linked' -> 1..size'] :
                /\ Lined(list'[a], linked', size', q) /\ Known(before'[a], linked', flags', q)
                /\ a \in Tracked' => Sorts(linked', pos', a, q)
  <2>1. PICK p \in [linked -> 1..size] :
          /\ Lined(list[a], linked, size, p) /\ Known(before[a], linked, flags, p)
          /\ a \in Tracked => Sorts(linked, pos, a, p)
    BY <1>2 DEF Rest
  <2>2. PICK q, l : q = ClosedNumbers(linked, p, n) /\ l = list[a]
    OBVIOUS
  <2>3. l \in Links /\ Lined(l, linked, size, p)
    BY <1>4, <2>1, <2>2
  <2>4. Lined(Unlinked(l, n), linked \ {n}, size - 1, q)
    BY <1>3, <2>2, <2>3, UnlinkedLined
  <2>5. Lined(list'[a], linked', size', q) /\ q \in [linked' -> 1..size']
    BY <1>1, <1>4, <2>2, <2>4 DEF Lined, Numbers
  <2>6. Numbers(linked, size, p)
    BY <2>1 DEF Lined
  <2>7. \A m, j \in linked \ {n} : q[m] < q[j] <=> p[m] < p[j]
    BY <2>2, <2>6, ClosedOrder
  <2>8. Known(before'[a], linked', flags', q)
    BY <1>1, <2>1, <2>7 DEF Known
  <2>9. a \in Tracked => Sorts(linked', pos', a, q)
    BY <1>1, <2>1, <2>7 DEF Sorts
  <2> QED
    BY <2>5, <2>8, <2>9 DEF Tracked
<1>12. LetGo'
  <2>1. ASSUME NEW a \in Axis, NEW m \in Node \ linked'
        PROVE  list'[a].prev[m] = Nil /\ list'[a].next[m] = Nil
    <3>1. PICK p \in [linked -> 1..size] : Lined(list[a], linked, size, p)
      BY <1>2 DEF Rest
    <3>2. PICK l : l = list[a]
      OBVIOUS
    <3>3. l \in Links /\ Lined(l, linked, size, p)
      BY <1>4, <3>1, <3>2
    <3>4. /\ \A j \in Node \ linked : Unlinked(l, n).prev[j] = l.prev[j] /\ Unlinked(l, n).next[j] = l.next[j]
          /\ Unlinked(l, n).prev[n] = Nil /\ Unlinked(l, n).next[n] = Nil
      BY <1>3, <3>3, UnlinkedOthers
    <3>5. CASE m = n
      BY <1>4, <3>2, <3>4, <3>5
    <3>6. CASE m # n
      <4>1. m \in Node \ linked
        BY <1>1, <3>6
      <4>2. list[a].prev[m] = Nil /\ list[a].next[m] = Nil
        BY <4>1 DEF AOIInv, LetGo
      <4> QED
        BY <1>4, <3>2, <3>4, <4>1, <4>2
    <3> QED
      BY <3>5, <3>6
  <2> QED
    BY <2>1 DEF LetGo
<1>13. Whole'
  <2>1. Rest(linked, size)'
    BY <1>11 DEF Rest
  <2> QED
    BY <1>3, <1>7, <2>1, RestingNext
<1> QED
  BY <1>6, <1>8, <1>9, <1>10, <1>12, <1>13 DEF AOIInv

LEMMA CallRemoveRealKeeps ==
  ASSUME AOIInv, NEW n \in Node, CallRemoveReal(n)
  PROVE  AOIInv'
<1>1. /\ call = NoCall /\ n \in linked /\ RemoveReal(n)
      /\ UNCHANGED <<wanted, pos, oldExt, flags, dels, call, before>>
  BY DEF CallRemoveReal
<1>2. call.op \notin {"update", "remove", "destroy"} /\ dels' \in Seq(Node)
  BY <1>1, NoCallIs DEF AOIInv, Typed
<1> QED
  BY <1>1, <1>2, RemoveRealKeeps

LEMMA RemoveDelNodeKeeps ==
  ASSUME AOIInv, RemoveDelNode
  PROVE  AOIInv'
<1>1. /\ call.op \in {"drop", "release"} /\ dels # <<>> /\ RemoveReal(Head(dels))
      /\ dels' = Tail(dels) /\ UNCHANGED <<wanted, pos, oldExt, flags, call, before>>
  BY DEF RemoveDelNode
<1>2. call.op \notin {"update", "remove", "destroy"} /\ dels' \in Seq(Node)
  BY <1>1 DEF AOIInv, Typed
<1>3. CASE Head(dels) \in linked
  BY <1>1, <1>2, <1>3, RemoveRealKeeps
<1>4. CASE Head(dels) \notin linked
  <2>1. UNCHANGED <<list, linked, releases, size>>
    BY <1>1, <1>4 DEF RemoveReal
  <2>2. Typed'
    BY <1>1, <1>2, <2>1 DEF AOIInv, Typed
  <2>3. call'.op \notin {"update", "remove", "destroy"}
    BY <1>1, <1>2
  <2>4. AtRest'
    BY <1>1, <1>2, <2>1, <2>3, Resting, RestingNext DEF AOIInv, AtRest, Tracked
  <2>5. LetGo' /\ ReleasedOnce'
    BY <2>1 DEF AOIInv, LetGo, ReleasedOnce
  <2>6. Rest(linked, size)'
    BY <1>1, <1>2, <2>1, Resting DEF AOIInv, Rest, Tracked
  <2>7. Whole' /\ Caller' /\ Leaving'
    BY <1>2, <2>1, <2>3, <2>6, Resting, RestingNext DEF AOIInv
  <2> QED
    BY <2>2, <2>4, <2>5, <2>7 DEF AOIInv
<1> QED
  BY <1>3, <1>4

LEMMA Deleted ==
  ASSUME Typed, NEW nodes \in SUBSET Node, Delete(nodes)
  PROVE  /\ wanted' \in [Node -> [Axis -> Nat]] /\ pos' \in [Node -> [Axis -> Nat]]
         /\ oldExt' \in [Node -> [Axis -> Nat]]
         /\ flags' \in [Node -> SUBSET {"Removing", "Removed"}]
         /\ before' \in [Axis -> [Node -> SUBSET Node]]
         /\ \A m \in nodes : flags'[m] = {}
         /\ \A m \in Node \ nodes :
              /\ wanted'[m] = wanted[m] /\ pos'[m] = pos[m] /\ oldExt'[m] = oldExt[m]
              /\ flags'[m] = flags[m]
              /\ \A a \in Axis : before'[a][m] = before[a][m] \ nodes
<1> DEFINE fresh == [a \in Axis |-> lowest]
<1>1. /\ wanted' = [m \in Node |-> IF m \in nodes THEN fresh ELSE wanted[m]]
      /\ pos' = [m \in Node |-> IF m \in nodes THEN fresh ELSE pos[m]]
      /\ oldExt' = [m \in Node |-> IF m \in nodes THEN fresh ELSE oldExt[m]]
      /\ flags' = [m \in Node |-> IF m \in nodes THEN {} ELSE flags[m]]
      /\ before' = [a \in Axis |-> [m \in Node |-> IF m \in nodes THEN {} ELSE before[a][m] \ nodes]]
  BY DEF Delete
<1>2. fresh \in [Axis -> Nat]
  BY DEF lowest
<1> HIDE DEF fresh
<1>3. /\ wanted' \in [Node -> [Axis -> Nat]] /\ pos' \in [Node -> [Axis -> Nat]]
      /\ oldExt' \in [Node -> [Axis -> Nat]]
      /\ flags' \in [Node -> SUBSET {"Removing", "Removed"}]
  BY <1>1, <1>2 DEF Typed
<1>4. before' \in [Axis -> [Node -> SUBSET Node]]
  <2>1. before \in [Axis -> [Node -> SUBSET Node]]
    BY DEF Typed
  <2> QED
    BY <1>1, <2>1
<1> QED
  BY <1>1, <1>3, <1>4

LEMMA EndReleaseKeeps ==
  ASSUME AOIInv, EndRelease
  PROVE  AOIInv'
<1>1. PICK nodes : nodes = {releases[i] : i \in DOMAIN releases}
  OBVIOUS
<1>2. /\ call.op = "release" /\ Delete(nodes) /\ releases' = <<>> /\ call' = NoCall
      /\ UNCHANGED <<list, linked, size, dels>>
  BY <1>1 DEF EndRelease
<1>3. /\ nodes \in SUBSET Node /\ linked \in SUBSET Node
      /\ \A m \in linked : m \in Node \ nodes
  BY <1>1 DEF AOIInv, Typed, ReleasedOnce
<1>4. call.op \notin {"update", "remove", "destroy"} /\ call'.op \notin {"update", "remove", "destroy"}
  BY <1>2, NoCallIs
<1>5. /\ wanted' \in [Node -> [Axis -> Nat]] /\ pos' \in [Node -> [Axis -> Nat]]
      /\ oldExt' \in [Node -> [Axis -> Nat]]
      /\ flags' \in [Node -> SUBSET {"Removing", "Removed"}]
      /\ before' \in [Axis -> [Node -> SUBSET Node]]
      /\ \A m \in nodes : flags'[m] = {}
      /\ \A m \in Node \ nodes : flags'[m] = flags[m]
      /\ \A m \in linked :
           /\ wanted'[m] = wanted[m] /\ pos'[m] = pos[m] /\ oldExt'[m] = oldExt[m]
           /\ flags'[m] = flags[m]
           /\ \A a \in Axis : before'[a][m] = before[a][m] \ nodes
  BY <1>2, <1>3, Deleted DEF AOIInv
<1>6. Typed'
  BY <1>2, <1>5, NoCallIs DEF AOIInv, Typed
<1>7. Rested = linked /\ Rested' = linked /\ Tracked' = Tracked
  BY <1>2, <1>4, Resting, RestingNext DEF Tracked
<1>8. AtRest'
  <2>1. \A m \in Rested' :
          /\ \A a \in Tracked' : oldExt'[m][a] = pos'[m][a] /\ (flags'[m] = {} => pos'[m][a] > 0)
          /\ flags'[m] # {} => "Removed" \in flags'[m]
    <3> SUFFICES ASSUME NEW m \in linked
                 PROVE  /\ \A a \in Tracked : oldExt'[m][a] = pos'[m][a]
                                              /\ (flags'[m] = {} => pos'[m][a] > 0)
                        /\ flags'[m] # {} => "Removed" \in flags'[m]
      BY <1>7
    <3>1. /\ \A a \in Tracked : oldExt[m][a] = pos[m][a] /\ (flags[m] = {} => pos[m][a] > 0)
          /\ flags[m] # {} => "Removed" \in flags[m]
      BY <1>7 DEF AOIInv, AtRest
    <3> QED
      BY <1>5, <3>1
  <2>2. \A m \in Node \ linked' : flags'[m] = {}
    <3>1. ASSUME NEW m \in Node \ linked, m \notin nodes PROVE flags[m] = {}
      BY <1>1, <3>1 DEF AOIInv, AtRest
    <3> QED
      BY <1>2, <1>5, <3>1
  <2>3. \A m \in linked' : \A a \in Axis : wanted'[m][a] > 0
    BY <1>2, <1>5 DEF AOIInv, AtRest
  <2> QED
    BY <2>1, <2>2, <2>3 DEF AtRest
<1>9. LetGo' /\ ReleasedOnce'
  BY <1>2 DEF AOIInv, LetGo, ReleasedOnce
<1>10. size = Cardinality(linked) /\ Rest(linked, size)
  BY <1>4, Resting DEF AOIInv
<1>11. ASSUME NEW a \in Axis
       PROVE  \E p \in [linked' -> 1..size'] :
                /\ Lined(list'[a], linked', size', p) /\ Known(before'[a], linked', flags', p)
                /\ a \in Tracked' => Sorts(linked', pos', a, p)
  <2>1. PICK p \in [linked -> 1..size] :
          /\ Lined(list[a], linked, size, p) /\ Known(before[a], linked, flags, p)
          /\ a \in Tracked => Sorts(linked, pos, a, p)
    BY <1>10 DEF Rest
  <2>2. Known(before'[a], linked', flags', p)
    <3>1. \A m, n \in linked : n \in before'[a][m] <=> n \in before[a][m]
      BY <1>3, <1>5
    <3>2. \A m \in linked : flags'[m] = flags[m]
      BY <1>5
    <3>3. Known(before'[a], linked, flags', p)
      BY <2>1, <3>1, <3>2 DEF Known
    <3> QED
      BY <1>2, <3>3
  <2>3. a \in Tracked => Sorts(linked', pos', a, p)
    BY <1>2, <1>5, <2>1 DEF Sorts
  <2> QED
    BY <1>2, <1>7, <2>1, <2>2, <2>3
<1>12. Whole' /\ Caller' /\ Leaving'
  <2>1. Rest(linked, size)'
    BY <1>11 DEF Rest
  <2> QED
    BY <1>2, <1>4, <1>10, <2>1, RestingNext
<1> QED
  BY <1>6, <1>8, <1>9, <1>12 DEF AOIInv

\* What the destructor does to the links of an axis: it goes along the x axis.
Orphaned(l, n, a, x) ==
  [l EXCEPT !.prev = [m \in Node |-> IF m = n \/ (a = "x" /\ m = x) THEN Nil ELSE @[m]],
            !.next[n] = Nil]

LEMMA OrphanedLinks ==
  ASSUME NEW l \in Links, NEW n \in Node, NEW a, NEW x, NEW d, d = Orphaned(l, n, a, x)
  PROVE  /\ d \in Links /\ d.prev[n] = Nil /\ d.next[n] = Nil
         /\ \A m \in Node \ {n} : d.prev[m] \in {l.prev[m], Nil} /\ d.next[m] = l.next[m]
<1>1. l.prev \in [Node -> Node \cup {Nil}] /\ l.next \in [Node -> Node \cup {Nil}]
  BY DEF Links
<1>2. /\ d.prev = [m \in Node |-> IF m = n \/ (a = "x" /\ m = x) THEN Nil ELSE l.prev[m]]
      /\ d.next = [l.next EXCEPT ![n] = Nil]
  BY DEF Links, Orphaned
<1>3. d \in Links
  BY <1>1 DEF Links, Orphaned
<1> QED
  BY <1>1, <1>2, <1>3

LEMMA DestroyNodeKeeps ==
  ASSUME AOIInv, DestroyNode
  PROVE  AOIInv'
<1>1. PICK n, x : n = call.node /\ x = list["x"].next[n]
  OBVIOUS
<1>2. /\ call.op = "destroy" /\ n # Nil
      /\ linked' = linked \ {n} /\ Delete({n}) /\ call' = [call EXCEPT !.node = x]
      /\ UNCHANGED <<size, dels, releases>>
  BY <1>1 DEF DestroyNode
<1>3. list' = [a \in Axis |-> Orphaned(list[a], n, a, x)]
  BY <1>1 DEF DestroyNode, Orphaned
<1>4. PICK k, p : /\ k = Cardinality(linked) /\ p \in [linked -> 1..k] /\ Numbers(linked, k, p)
                  /\ Onwards(n, list["x"].next, linked, k, p)
  BY <1>1, <1>2 DEF AOIInv, Leaving
<1>5. n \in linked
  BY <1>2, <1>4 DEF Onwards, Numbers
<1>6. /\ linked \in SUBSET Node /\ n \in Node /\ {n} \in SUBSET Node /\ "x" \in Axis
      /\ \A a \in Axis : list[a] \in Links
  BY <1>5, AOIAssumption DEF AOIInv, Typed
<1>7. Cardinality(linked') = k - 1
  BY <1>2, <1>4, <1>5, LinkedFinite, FS_RemoveElement DEF AOIInv
<1>8. /\ wanted' \in [Node -> [Axis -> Nat]] /\ pos' \in [Node -> [Axis -> Nat]]
      /\ oldExt' \in [Node -> [Axis -> Nat]]
      /\ flags' \in [Node -> SUBSET {"Removing", "Removed"}]
      /\ before' \in [Axis -> [Node -> SUBSET Node]]
      /\ flags'[n] = {}
      /\ \A m \in Node \ {n} : /\ wanted'[m] = wanted[m] /\ pos'[m] = pos[m]
                               /\ oldExt'[m] = oldExt[m] /\ flags'[m] = flags[m]
  BY <1>2, <1>6, Deleted DEF AOIInv
<1>9. \A a \in Axis :
        /\ list'[a] \in Links /\ list'[a].prev[n] = Nil /\ list'[a].next[n] = Nil
        /\ \A m \in Node \ {n} : /\ list'[a].prev[m] \in {list[a].prev[m], Nil}
                                 /\ list'[a].next[m] = list[a].next[m]
  <2>1. ASSUME NEW a \in Axis
        PROVE  /\ list'[a] \in Links /\ list'[a].prev[n] = Nil /\ list'[a].next[n] = Nil
               /\ \A m \in Node \ {n} : /\ list'[a].prev[m] \in {list[a].prev[m], Nil}
                                        /\ list'[a].next[m] = list[a].next[m]
    <3>1. list'[a] = Orphaned(list[a], n, a, x)
      BY <1>3
    <3> QED
      BY <1>6, <3>1, OrphanedLinks
  <2> QED
    BY <2>1
<1>10. /\ call'.op = "destroy" /\ call'.node = x /\ call' \in Calls
  <2>1. x \in Node \cup {Nil} /\ call \in Calls
    BY <1>1, <1>6 DEF AOIInv, Typed, Links
  <2> QED
    BY <1>2, <2>1 DEF Calls
<1>11. Typed'
  <2>1. list' \in [Axis -> Links]
    BY <1>3, <1>9
  <2> QED
    BY <1>2, <1>6, <1>8, <1>10, <2>1 DEF AOIInv, Typed
<1>12. Rested = linked /\ Rested' = linked \ {n} /\ Caller' /\ Whole'
  BY <1>2, <1>10 DEF Rested, InCall, Caller, Whole
<1>13. AtRest'
  <2>1. Tracked' = Tracked /\ \A m \in linked \ {n} : m \in linked /\ m \in Node \ {n}
    BY <1>6 DEF Tracked
  <2>2. ASSUME NEW m \in linked \ {n}
        PROVE  /\ \A a \in Tracked : oldExt'[m][a] = pos'[m][a] /\ (flags'[m] = {} => pos'[m][a] > 0)
               /\ flags'[m] # {} => "Removed" \in flags'[m]
               /\ \A a \in Axis : wanted'[m][a] > 0
    <3>1. m \in Rested /\ m \in linked /\ m \in Node \ {n}
      BY <1>12, <2>1
    <3>2. /\ \A a \in Tracked : oldExt[m][a] = pos[m][a] /\ (flags[m] = {} => pos[m][a] > 0)
          /\ flags[m] # {} => "Removed" \in flags[m]
          /\ \A a \in Axis : wanted[m][a] > 0
      BY <3>1 DEF AOIInv, AtRest
    <3> QED
      BY <1>8, <3>1, <3>2
  <2>3. ASSUME NEW m \in Node \ linked'
        PROVE  flags'[m] = {} \/ \E i \in DOMAIN releases' : releases'[i] = m
    <3>1. CASE m = n
      BY <1>8, <3>1
    <3>2. CASE m # n
      BY <1>2, <1>8, <3>2 DEF AOIInv, AtRest
    <3> QED
      BY <3>1, <3>2
  <2> QED
    BY <1>2, <1>12, <2>1, <2>2, <2>3 DEF AtRest
<1>14. LetGo'
  <2>1. ASSUME NEW m \in Node \ linked', NEW a \in Axis
        PROVE  list'[a].prev[m] = Nil /\ list'[a].next[m] = Nil
    <3>1. CASE m = n
      BY <1>9, <3>1
    <3>2. CASE m # n
      <4>1. list[a].prev[m] = Nil /\ list[a].next[m] = Nil
        BY <1>2, <3>2 DEF AOIInv, LetGo
      <4> QED
        BY <1>9, <3>2, <4>1
    <3> QED
      BY <3>1, <3>2
  <2> QED
    BY <2>1 DEF LetGo
<1>15. ReleasedOnce'
  BY <1>2 DEF AOIInv, ReleasedOnce
<1>16. Leaving'
  <2>1. PICK q, next, next2 : /\ q = ClosedNumbers(linked, p, n)
                              /\ next = list["x"].next /\ next2 = list'["x"].next
    OBVIOUS
  <2>2. \A m \in linked \ {n} : next2[m] = next[m]
    BY <1>6, <1>9, <2>1
  <2>3. Onwards(n, next, linked, k, p) /\ next[n] = x
    BY <1>1, <1>4, <2>1
  <2>4. Numbers(linked \ {n}, k - 1, q) /\ Onwards(x, next2, linked \ {n}, k - 1, q)
    BY <1>2, <1>4, <2>1, <2>2, <2>3, HeadGone
  <2>5. q \in [linked' -> 1..Cardinality(linked')]
    BY <1>2, <1>7, <2>4 DEF Numbers
  <2> QED
    BY <1>2, <1>7, <1>10, <2>1, <2>4, <2>5 DEF Leaving
<1> QED
  BY <1>11, <1>12, <1>13, <1>14, <1>15, <1>16 DEF AOIInv

\* What holds of the axes once no node is linked.
LEMMA NoneLinked ==
  ASSUME NEW l, l.first = Nil, NEW b, NEW fl, NEW f, NEW a
  PROVE  \E p \in [{} -> 1..0] : Lined(l, {}, 0, p) /\ Known(b, {}, fl, p) /\ Sorts({}, f, a, p)
<1> DEFINE p == [m \in {} |-> 1]
<1>1. p \in [{} -> 1..0]
  OBVIOUS
<1>2. Numbers({}, 0, p)
  BY <1>1 DEF Numbers
<1>3. Onwards(l.first, l.next, {}, 0, p) /\ Backwards(l.prev, {}, p)
  BY DEF Onwards, Backwards
<1>4. Known(b, {}, fl, p) /\ Sorts({}, f, a, p)
  BY DEF Known, Sorts
<1> QED
  BY <1>1, <1>2, <1>3, <1>4 DEF Lined

LEMMA EndDestroyKeeps ==
  ASSUME AOIInv, EndDestroy
  PROVE  AOIInv'
<1>1. /\ call.op = "destroy" /\ call.node = Nil
      /\ list' = [a \in Axis |-> [list[a] EXCEPT !.first = Nil]]
      /\ size' = 0 /\ call' = Calling("release", Nil)
      /\ UNCHANGED <<wanted, pos, oldExt, flags, linked, dels, releases, before>>
  BY DEF EndDestroy
<1>2. linked = {}
  <2>1. PICK k, p : /\ k = Cardinality(linked) /\ p \in [linked -> 1..k]
                    /\ Onwards(Nil, list["x"].next, linked, k, p)
    BY <1>1 DEF AOIInv, Leaving
  <2>2. Nil \notin linked
    BY AOIAssumption DEF AOIInv, Typed
  <2>3. k = 0
    BY <2>1, <2>2 DEF Onwards
  <2> QED
    BY <2>1, <2>3
<1>3. Cardinality(linked') = 0
  BY <1>1, <1>2, FS_EmptySet
<1>4. \A a \in Axis : /\ list'[a] \in Links /\ list'[a].first = Nil
                      /\ list'[a].prev = list[a].prev /\ list'[a].next = list[a].next
  BY <1>1 DEF AOIInv, Typed, Links
<1>5. Typed'
  <2>1. list' \in [Axis -> Links] /\ 0 \in Int
    BY <1>1, <1>4
  <2> QED
    BY <1>1, <2>1, NoCallIs DEF AOIInv, Typed
<1>6. call'.op \notin {"update", "remove", "destroy"}
  BY <1>1, NoCallIs
<1>7. Rested = {} /\ Rested' = {}
  BY <1>1, <1>2, <1>6, RestingNext DEF Rested
<1>8. AtRest'
  BY <1>1, <1>2, <1>7 DEF AOIInv, AtRest
<1>9. LetGo' /\ ReleasedOnce'
  BY <1>1, <1>4 DEF AOIInv, LetGo, ReleasedOnce
<1>10. Rest(linked, size)'
  <2>1. ASSUME NEW a \in Axis
        PROVE  \E p \in [linked' -> 1..size'] :
                 /\ Lined(list'[a], linked', size', p) /\ Known(before'[a], linked', flags', p)
                 /\ a \in Tracked' => Sorts(linked', pos', a, p)
    <3>1. list'[a].first = Nil /\ linked' = {} /\ size' = 0
      BY <1>1, <1>2, <1>4
    <3> QED
      BY <3>1, NoneLinked
  <2> QED
    BY <2>1 DEF Rest
<1>11. Whole' /\ Caller' /\ Leaving'
  BY <1>1, <1>3, <1>6, <1>10, RestingNext
<1> QED
  BY <1>5, <1>8, <1>9, <1>11 DEF AOIInv

LEMMA InitHolds ==
  ASSUME Init
  PROVE  AOIInv
<1>1. /\ wanted \in [Node -> [Axis -> {lowest}]] /\ pos = wanted /\ oldExt = wanted
      /\ flags = [n \in Node |-> {}] /\ list = [a \in Axis |-> NoLinks]
      /\ linked = {} /\ size = 0 /\ dels = <<>> /\ releases = <<>> /\ call = NoCall
      /\ before = [a \in Axis |-> [n \in Node |-> {}]]
  BY DEF Init
<1>2. /\ NoLinks \in Links /\ NoLinks.first = Nil
      /\ \A n \in Node : NoLinks.prev[n] = Nil /\ NoLinks.next[n] = Nil
  BY DEF NoLinks, Links
<1>3. Typed
  BY <1>1, <1>2, NoCallIs DEF Typed, lowest
<1>4. call.op \notin {"update", "remove", "destroy"}
  BY <1>1, NoCallIs
<1>5. Rested = {}
  BY <1>1, <1>4, Resting
<1>6. AtRest /\ LetGo /\ ReleasedOnce
  BY <1>1, <1>2, <1>5 DEF AtRest, LetGo, ReleasedOnce
<1>7. Rest(linked, size)
  <2>1. ASSUME NEW a \in Axis
        PROVE  \E p \in [linked -> 1..size] :
                 /\ Lined(list[a], linked, size, p) /\ Known(before[a], linked, flags, p)
                 /\ a \in Tracked => Sorts(linked, pos, a, p)
    <3>1. list[a].first = Nil /\ linked = {} /\ size = 0
      BY <1>1, <1>2
    <3> QED
      BY <3>1, NoneLinked
  <2> QED
    BY <2>1 DEF Rest
<1>8. Cardinality(linked) = 0
  BY <1>1, FS_EmptySet
<1>9. Whole /\ Caller /\ Leaving
  BY <1>1, <1>4, <1>7, <1>8, Resting
<1> QED
  BY <1>3, <1>6, <1>9 DEF AOIInv

LEMMA NextKeeps ==
  ASSUME AOIInv, [Next]_vars
  PROVE  AOIInv'
<1>1. ASSUME NEW n \in Node, Insert(n) \/ SetExt(n) \/ Update(n) \/ Remove(n) \/ CallRemoveReal(n)
      PROVE  AOIInv'
  BY <1>1, InsertKeeps, SetExtKeeps, UpdateKeeps, RemoveKeeps, CallRemoveRealKeeps
<1>2. ASSUME NEW op \in {"drop", "release"}, Release(op)
      PROVE  AOIInv'
  BY <1>2, ReleaseKeeps
<1>3. CASE Destroy
  BY <1>3, DestroyKeeps
<1>4. CASE Step
  BY <1>4, StepBackKeeps, TurnRoundKeeps, StepOnKeeps, ArriveKeeps, SkipAxisKeeps, UpdatedKeeps,
     RemoveDelNodeKeeps, EndDropKeeps, EndReleaseKeeps, DestroyNodeKeeps, EndDestroyKeeps DEF Step
<1>5. CASE UNCHANGED vars
  <2>1. UNCHANGED <<wanted, pos, oldExt, flags, list, linked, size, dels, releases, call, before>>
    BY <1>5 DEF vars
  <2>2. Typed' /\ InCall' = InCall /\ Rested' = Rested /\ Tracked' = Tracked
    BY <2>1 DEF AOIInv, Typed, InCall, Rested, Tracked
  <2>3. Caller' /\ AtRest' /\ LetGo' /\ ReleasedOnce' /\ Leaving'
    BY <2>1, <2>2 DEF AOIInv, Caller, AtRest, LetGo, ReleasedOnce, Leaving
  <2>4. ThisAxis' = ThisAxis /\ Ahead' = Ahead /\ Target' = Target /\ HasMoved' = HasMoved
    BY <2>1 DEF ThisAxis, Ahead, Target, HasMoved, GetExt
  <2>5. \A a : GetExt(call.node, a)' = GetExt(call.node, a) /\ Done(a)' = Done(a)
    BY <2>1 DEF GetExt, Done
  <2>6. \A a, p : Settled(a, p)' = Settled(a, p)
    BY <2>1, <2>5 DEF Settled
  <2>7. \A a, p : Phase(a, p)' = Phase(a, p)
    BY <2>1, <2>2, <2>4, <2>5, <2>6 DEF Phase
  <2>8. \A a, p : Placed(a, p)' = Placed(a, p)
    BY <2>1, <2>2, <2>7 DEF Placed
  <2>9. Whole'
    BY <2>1, <2>8 DEF AOIInv, Whole
  <2> QED
    BY <2>2, <2>3, <2>9 DEF AOIInv
<1> QED
  BY <1>1, <1>2, <1>3, <1>4, <1>5 DEF Next

LEMMA Invariance == Spec => []AOIInv
<1>1. Init => AOIInv
  BY InitHolds
<1>2. AOIInv /\ [Next]_vars => AOIInv'
  BY NextKeeps
<1> QED
  BY <1>1, <1>2, PTL DEF Spec

-----------------------------------------------------------------------------
(* What the invariant says of the properties.                              *)

\* The place of a node on a walk is its number.
LEMMA PlaceIs ==
  ASSUME NEW l, NEW L \in SUBSET Node, NEW k, NEW p, Lined(l, L, k, p), Nil \notin Node,
         Cardinality(Node) \in Nat, k <= Cardinality(Node), NEW n \in L
  PROVE  Place(l, n) = p[n]
<1>1. Numbers(L, k, p) /\ k \in Nat
  BY DEF Lined, Numbers
<1> DEFINE N == Cardinality(Node)
           w == Walk(l)
<1>2. w = Expected(L, k, p)
  BY <1>1, WalkIs DEF Lined
<1>3. /\ \A i \in 1..k : Numbered(L, p, i) \in L /\ p[Numbered(L, p, i)] = i
      /\ \A m \in L : p[m] \in 1..k /\ Numbered(L, p, p[m]) = m
  BY <1>1, NumberedFacts
<1> HIDE DEF w
<1>4. /\ DOMAIN w = 1..(N + 1)
      /\ \A i \in 1..(N + 1) : w[i] = IF i <= k THEN Numbered(L, p, i) ELSE Nil
  BY <1>2 DEF Expected
<1>5. p[n] \in 1..(N + 1) /\ w[p[n]] = n
  BY <1>1, <1>3, <1>4
<1>6. ASSUME NEW i \in DOMAIN w, w[i] = n PROVE i = p[n]
  <2>1. i <= k
    BY <1>4, <1>6
  <2> QED
    BY <1>1, <1>3, <1>4, <1>6, <2>1
<1>7. (CHOOSE i \in DOMAIN w : w[i] = n) = p[n]
  BY <1>4, <1>5, <1>6
<1> QED
  BY <1>7 DEF Place, w

\* An axis is whole: its walk meets the linked nodes, each once, and the links
\* towards the front lead back along it.
LEMMA WalkMeetsAll ==
  ASSUME NEW l, NEW L \in SUBSET Node, NEW k, NEW p, Lined(l, L, k, p), Nil \notin Node,
         Cardinality(Node) \in Nat, k <= Cardinality(Node)
  PROVE  LET at == Walk(l)
         IN  /\ {at[i] : i \in DOMAIN at} \ {Nil} = L /\ at[k + 1] = Nil
             /\ \A i \in 1..k : l.prev[at[i]] = IF i = 1 THEN Nil ELSE at[i - 1]
<1>1. Numbers(L, k, p) /\ k \in Nat
  BY DEF Lined, Numbers
<1> DEFINE N == Cardinality(Node)
           w == Walk(l)
<1>2. w = Expected(L, k, p)
  BY <1>1, WalkIs DEF Lined
<1>3. /\ \A i \in 1..k : Numbered(L, p, i) \in L /\ p[Numbered(L, p, i)] = i
      /\ \A m \in L : p[m] \in 1..k /\ Numbered(L, p, p[m]) = m
  BY <1>1, NumberedFacts
<1> HIDE DEF w
<1>4. /\ DOMAIN w = 1..(N + 1)
      /\ \A i \in 1..(N + 1) : w[i] = IF i <= k THEN Numbered(L, p, i) ELSE Nil
  BY <1>2 DEF Expected
<1>5. \A i \in 1..k : i \in 1..(N + 1) /\ w[i] = Numbered(L, p, i)
  BY <1>1, <1>4
<1>6. w[k + 1] = Nil
  BY <1>1, <1>4
<1>7. {w[i] : i \in DOMAIN w} \ {Nil} = L
  <2>1. ASSUME NEW m \in L PROVE m \in {w[i] : i \in DOMAIN w} \ {Nil}
    <3>1. p[m] \in DOMAIN w /\ w[p[m]] = m
      BY <1>3, <1>4, <1>5
    <3> QED
      BY <3>1
  <2>2. ASSUME NEW i \in DOMAIN w, w[i] # Nil PROVE w[i] \in L
    <3>1. i <= k /\ i \in 1..k
      BY <1>1, <1>4, <2>2
    <3> QED
      BY <1>3, <1>5, <3>1
  <2> QED
    BY <2>1, <2>2
<1>8. ASSUME NEW i \in 1..k
      PROVE  l.prev[w[i]] = IF i = 1 THEN Nil ELSE w[i - 1]
  <2>1. PICK m : m = w[i] /\ m \in L /\ p[m] = i
    BY <1>3, <1>5
  <2>2. IF p[m] = 1 THEN l.prev[m] = Nil ELSE l.prev[m] \in L /\ p[l.prev[m]] = p[m] - 1
    BY <2>1 DEF Lined, Backwards
  <2>3. CASE i = 1
    BY <2>1, <2>2, <2>3
  <2>4. CASE i # 1
    <3>1. i - 1 \in 1..k
      BY <1>1, <2>4
    <3>2. PICK c : c = l.prev[m] /\ c \in L /\ p[c] = i - 1
      BY <2>1, <2>2, <2>4
    <3>3. w[i - 1] = Numbered(L, p, p[c])
      BY <1>5, <3>1, <3>2
    <3> QED
      BY <1>3, <2>1, <2>4, <3>2, <3>3
  <2> QED
    BY <2>3, <2>4
<1> QED
  BY <1>6, <1>7, <1>8 DEF w

LEMMA WholeLists == AOIInv => ListsAreWhole
<1> SUFFICES ASSUME AOIInv PROVE ListsAreWhole
  OBVIOUS
<1>1. /\ linked \in SUBSET Node /\ Nil \notin Node /\ Cardinality(Node) \in Nat
      /\ Cardinality(linked) <= Cardinality(Node)
  BY LinkedFinite, AOIAssumption DEF AOIInv, Typed
<1>2. ASSUME call.op # "destroy", NEW a \in Axis
      PROVE  LET l == list[a]
                 at == Walk(l)
             IN  /\ {at[i] : i \in DOMAIN at} \ {Nil} = linked /\ at[size + 1] = Nil
                 /\ \A i \in 1..size : l.prev[at[i]] = IF i = 1 THEN Nil ELSE at[i - 1]
  <2>1. PICK p \in [linked -> 1..size] : Lined(list[a], linked, size, p)
    BY <1>2 DEF AOIInv, Whole, Placed
  <2>2. size <= Cardinality(Node)
    BY <1>1, <1>2 DEF AOIInv, Whole
  <2>3. PICK l : l = list[a]
    OBVIOUS
  <2>4. Lined(l, linked, size, p)
    BY <2>1, <2>3
  <2>5. LET at == Walk(l)
        IN  /\ {at[i] : i \in DOMAIN at} \ {Nil} = linked /\ at[size + 1] = Nil
            /\ \A i \in 1..size : l.prev[at[i]] = IF i = 1 THEN Nil ELSE at[i - 1]
    BY <1>1, <2>2, <2>4, WalkMeetsAll
  <2> QED
    BY <2>3, <2>5
<1>3. call.op # "destroy" => size = Cardinality(linked)
  BY DEF AOIInv, Whole
<1>4. LetGo /\ ReleasedOnce
  BY DEF AOIInv
<1> QED
  BY <1>2, <1>3, <1>4 DEF ListsAreWhole, LetGo, ReleasedOnce

LEMMA ToldIsTheOrder == AOIInv => PassesTellTheOrder
<1> SUFFICES ASSUME AOIInv, call.op # "destroy",
                    NEW a \in Axis, NEW m \in linked, NEW n \in linked \ ({m} \cup Hide),
                    "Removed" \notin flags[m] \cup flags[n]
             PROVE  n \in before[a][m] <=> Place(list[a], n) < Place(list[a], m)
  BY DEF PassesTellTheOrder
<1>1. /\ linked \in SUBSET Node /\ Nil \notin Node /\ Cardinality(Node) \in Nat
      /\ Cardinality(linked) <= Cardinality(Node) /\ size = Cardinality(linked)
  BY LinkedFinite, AOIAssumption DEF AOIInv, Typed, Whole
<1>2. PICK p \in [linked -> 1..size] :
        Lined(list[a], linked, size, p) /\ Known(before[a], linked, flags, p)
  BY DEF AOIInv, Whole, Placed
<1>3. PICK l : l = list[a]
  OBVIOUS
<1>4. Lined(l, linked, size, p) /\ size <= Cardinality(Node)
  BY <1>1, <1>2, <1>3
<1>5. Place(l, n) = p[n] /\ Place(l, m) = p[m]
  BY <1>1, <1>4, PlaceIs
<1>6. n \in before[a][m] <=> p[n] < p[m]
  BY <1>2 DEF Known
<1> QED
  BY <1>3, <1>5, <1>6

LEMMA RestIsSorted == ASSUME "x" \in SinksOn PROVE AOIInv => SortedAtRest
<1> SUFFICES ASSUME AOIInv, call = NoCall, NEW a \in Axis, NEW n \in linked,
                    list[a].next[n] # Nil
             PROVE  pos[n][a] <= pos[list[a].next[n]][a]
  BY DEF SortedAtRest
<1>1. call.op \notin {"update", "remove", "destroy"} /\ a \in Tracked
  BY NoCallIs DEF Tracked
<1>2. Rest(linked, size)
  BY <1>1, Resting DEF AOIInv
<1>3. PICK p \in [linked -> 1..size] :
        Lined(list[a], linked, size, p) /\ Sorts(linked, pos, a, p)
  BY <1>1, <1>2 DEF Rest
<1>4. list[a].next[n] \in linked /\ p[list[a].next[n]] = p[n] + 1
  BY <1>3 DEF Lined, Onwards
<1>5. p[n] < p[list[a].next[n]]
  BY <1>3, <1>4 DEF Lined, Numbers
<1> QED
  BY <1>3, <1>4, <1>5 DEF Sorts

\* The step that removes a node, and all others that leave the marks alone.
LEMMA RemovalTells ==
  ASSUME AOIInv, [Next]_vars, NEW n \in Node \ Hide, "Removed" \in flags'[n] \ flags[n],
         NEW m \in linked \ {n}, "Removed" \notin flags[m], NEW a \in SinksOn
  PROVE  n \in before'[a][m]
<1>1. n \in Node /\ m \in Node /\ m \in linked /\ m # n /\ a \in Axis /\ a \in Tracked
  BY AOIAssumption DEF AOIInv, Typed, Tracked
<1>2. Updated /\ call.op = "remove" /\ n = call.node
  <2>1. ASSUME NEW k \in Node, Insert(k) \/ SetExt(k) \/ Update(k) \/ CallRemoveReal(k) PROVE FALSE
    BY <2>1 DEF Insert, SetExt, Update, CallRemoveReal
  <2>2. ASSUME NEW k \in Node, Remove(k) PROVE FALSE
    BY <2>2, <1>1 DEF Remove, AOIInv, Typed
  <2>3. ASSUME \/ \E op \in {"drop", "release"} : Release(op)
               \/ Destroy \/ StepBack \/ TurnRound \/ StepOn \/ Arrive \/ SkipAxis
               \/ RemoveDelNode \/ EndDrop \/ EndDestroy \/ UNCHANGED vars
        PROVE  FALSE
    BY <2>3 DEF Release, Destroy, StepBack, TurnRound, StepOn, Arrive, SkipAxis, MoveNode,
       RemoveDelNode, EndDrop, EndDestroy, vars
  <2>4. ASSUME NEW nodes, Delete(nodes) PROVE FALSE
    <3>1. flags' = [j \in Node |-> IF j \in nodes THEN {} ELSE flags[j]]
      BY <2>4 DEF Delete
    <3> QED
      BY <1>1, <3>1
  <2>5. ASSUME EndRelease \/ DestroyNode PROVE FALSE
    BY <2>4, <2>5 DEF EndRelease, DestroyNode
  <2>6. Updated
    BY <2>1, <2>2, <2>3, <2>5 DEF Next, Step
  <2>7. call.op = "remove" /\ flags' = [flags EXCEPT ![call.node] = @ \cup {"Removed"}]
    BY <2>6 DEF Updated
  <2>8. n = call.node
    BY <1>1, <2>7 DEF AOIInv, Typed
  <2> QED
    BY <2>6, <2>7, <2>8
<1>3. /\ InCall /\ call.at > Len(AxisOrder) /\ before' = before /\ call.op # "destroy"
      /\ n \in linked /\ flags[n] # {} /\ Rested = linked \ {n}
  BY <1>2 DEF Updated, InCall, AOIInv, Caller, Rested
<1>4. PICK p \in [linked -> 1..size] : Placed(a, p)
  BY <1>1, <1>3 DEF AOIInv, Whole
<1>5. Done(a)
  <2>1. call.at \in Nat
    BY DEF AOIInv, Typed, Calls
  <2> QED
    BY <1>1, <1>3, <2>1, AxisOrderType DEF Done
<1>6. Sorts(linked, pos, a, p) /\ pos[n][a] = 0
  <2>1. Settled(a, p)
    BY <1>1, <1>3, <1>4, <1>5 DEF Placed, Phase
  <2> QED
    BY <1>2, <1>3, <2>1 DEF Settled, GetExt, lowest
<1>7. pos[m][a] > 0
  <2>1. m \in Rested
    BY <1>1, <1>3
  <2>2. flags[m] = {}
    BY <2>1 DEF AOIInv, AtRest
  <2> QED
    BY <1>1, <2>1, <2>2 DEF AOIInv, AtRest
<1>8. p[n] < p[m]
  <2>1. /\ p[n] \in Nat /\ p[m] \in Nat /\ p[n] # p[m]
    BY <1>1, <1>3, <1>4 DEF Placed, Lined, Numbers
  <2>2. ~(p[m] < p[n])
    <3> SUFFICES ASSUME p[m] < p[n] PROVE FALSE
      OBVIOUS
    <3>1. pos[m][a] <= pos[n][a]
      BY <1>1, <1>3, <1>6 DEF Sorts
    <3>2. pos[m][a] \in Nat
      BY <1>1 DEF AOIInv, Typed
    <3> QED
      BY <1>6, <1>7, <3>1, <3>2
  <2> QED
    BY <2>1, <2>2
<1>9. "Removed" \notin flags[m] \cup flags[n] /\ n \in linked \ ({m} \cup Hide)
  BY <1>1, <1>3
<1>10. Known(before[a], linked, flags, p)
  BY <1>4 DEF Placed
<1> QED
  BY <1>1, <1>3, <1>8, <1>9, <1>10 DEF Known

-----------------------------------------------------------------------------
(* The theorems.                                                           *)

\* In every step of every call, the loops of Update included, each axis links
\* the nodes of the manager, once and both ways, size_ counts them, and a
\* node that left holds on to none (aoi_mgr.cpp, aoi_node.cpp).
THEOREM AOIListsAreWhole == Spec => []ListsAreWhole
BY Invariance, WholeLists, PTL

\* OnNodePass is called for each pass that happens and for no other: who
\* counts the calls knows the order of every axis at any time.
THEOREM AOIPassesTellTheOrder == Spec => []PassesTellTheOrder
BY Invariance, ToldIsTheOrder, PTL

\* Between two calls every axis is in the order of its coordinates, where the
\* subclass lets a removed node sink on the x axis, as OnRemove does.
THEOREM AOISortedAtRest == ASSUME "x" \in SinksOn PROVE Spec => []SortedAtRest
BY Invariance, RestIsSorted, PTL

\* When Remove returns, the removed node has gone past every other one on the
\* axes it sinks on, and they were told.
THEOREM AOIRemovalIsTold == Spec => RemovalIsTold
<1>1. ASSUME AOIInv, [Next]_vars
      PROVE  [\A n \in Node \ Hide : "Removed" \in flags'[n] \ flags[n] =>
                \A m \in linked \ {n} : "Removed" \notin flags[m] =>
                  \A a \in SinksOn : n \in before'[a][m]]_vars
  BY <1>1, RemovalTells
<1> QED
  BY <1>1, Invariance, PTL DEF Spec, RemovalIsTold
=============================================================================
