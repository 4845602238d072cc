--------------------------- MODULE SkipListProofs ---------------------------
(***************************************************************************)
(* TLAPS proofs about the skip list: its levels, spans and back links are  *)
(* kept by every insertion and deletion, its searches end where they       *)
(* should, and so it implements Ranking.                                   *)
(*                                                                         *)
(* The proof numbers the nodes of the list, the header being 0.  Links,    *)
(* spans and the order of the entries are facts about these numbers.       *)
(***************************************************************************)
EXTENDS SkipList, FiniteSetTheorems, SequenceTheorems, WellFoundedInduction, TLAPS

-----------------------------------------------------------------------------
(* The order of the entries: that of CompUaks, for every rank type and     *)
(* whatever the scores.                                                    *)

\* As many fields as a rank type of the code has.
LEMMA OrderOfType ==
  ASSUME NEW type \in RankType
  PROVE  TransformRankType[type].keys \in 1..3
<1>1. RankType = {"Test", "SA", "SD", "SAP1A", "SAP1D", "SDP1A", "SDP1D", "SAP1AP2A",
                 "SAP1AP2D", "SAP1DP2A", "SAP1DP2D", "SDP1AP2A", "SDP1AP2D", "SDP1DP2A",
                 "SDP1DP2D"}
  BY DEF RankType, TransformRankType
<1>2. /\ TransformRankType["SA"].keys = 1 /\ TransformRankType["SD"].keys = 1
  BY DEF TransformRankType
<1>3. /\ TransformRankType["Test"].keys = 2 /\ TransformRankType["SAP1A"].keys = 2
      /\ TransformRankType["SAP1D"].keys = 2 /\ TransformRankType["SDP1A"].keys = 2
      /\ TransformRankType["SDP1D"].keys = 2
  BY DEF TransformRankType
<1>4. /\ TransformRankType["SAP1AP2A"].keys = 3 /\ TransformRankType["SAP1AP2D"].keys = 3
      /\ TransformRankType["SAP1DP2A"].keys = 3 /\ TransformRankType["SAP1DP2D"].keys = 3
      /\ TransformRankType["SDP1AP2A"].keys = 3 /\ TransformRankType["SDP1AP2D"].keys = 3
      /\ TransformRankType["SDP1DP2A"].keys = 3 /\ TransformRankType["SDP1DP2D"].keys = 3
  BY DEF TransformRankType
<1> QED
  BY <1>1, <1>2, <1>3, <1>4

\* CompUaks never puts an entry before itself, nor two before each other.
LEMMA Asymmetric ==
  ASSUME NEW order, order.keys \in Nat, NEW l \in Uaks(order.keys), NEW r \in Uaks(order.keys),
         CompUaks(order, l, r)
  PROVE  ~CompUaks(order, r, l)
<1>nat. \A i \in 0..order.keys : l[i] \in Nat /\ r[i] \in Nat
  BY DEF Uaks
<1>0. 0 \in 0..order.keys /\ \A i \in 1..order.keys : i \in 0..order.keys /\ i \in Int
  OBVIOUS
<1>1. ASSUME NEW i \in 1..order.keys, NEW j \in 1..order.keys,
             Precedes(order.desc, i, l, r), \A k \in 1..(i - 1) : l[k] = r[k],
             Precedes(order.desc, j, r, l), \A k \in 1..(j - 1) : r[k] = l[k]
      PROVE  FALSE
  <2>1. l[i] # r[i] /\ l[j] # r[j]
    BY <1>nat, <1>0, <1>1 DEF Precedes
  <2>2. i = j
    BY <1>1, <2>1
  <2> QED
    BY <1>nat, <1>0, <1>1, <2>2 DEF Precedes
<1>2. ASSUME NEW i \in 1..order.keys,
             Precedes(order.desc, i, l, r) \/ Precedes(order.desc, i, r, l),
             \A k \in 1..order.keys : l[k] = r[k]
      PROVE  FALSE
  BY <1>nat, <1>0, <1>2 DEF Precedes
<1> QED
  BY <1>nat, <1>0, <1>1, <1>2 DEF CompUaks

LEMMA Transitive ==
  ASSUME NEW order, order.keys \in Nat, NEW l \in Uaks(order.keys), NEW m \in Uaks(order.keys),
         NEW r \in Uaks(order.keys), CompUaks(order, l, m), CompUaks(order, m, r)
  PROVE  CompUaks(order, l, r)
<1>nat. \A i \in 0..order.keys : l[i] \in Nat /\ m[i] \in Nat /\ r[i] \in Nat
  BY DEF Uaks
<1>0. 0 \in 0..order.keys /\ \A i \in 1..order.keys : i \in 0..order.keys /\ i \in Int
  OBVIOUS
<1>1. ASSUME NEW i \in 1..order.keys, NEW j \in 1..order.keys,
             Precedes(order.desc, i, l, m), \A k \in 1..(i - 1) : l[k] = m[k],
             Precedes(order.desc, j, m, r), \A k \in 1..(j - 1) : m[k] = r[k]
      PROVE  CompUaks(order, l, r)
  <2>1. CASE i < j
    <3>1. m[i] = r[i] /\ \A k \in 1..(i - 1) : l[k] = r[k]
      BY <1>0, <1>1, <2>1
    <3> QED
      BY <1>1, <3>1 DEF CompUaks, Precedes
  <2>2. CASE j < i
    <3>1. m[j] = l[j] /\ \A k \in 1..(j - 1) : l[k] = r[k]
      BY <1>0, <1>1, <2>2
    <3> QED
      BY <1>1, <3>1 DEF CompUaks, Precedes
  <2>3. CASE i = j
    <3>1. \A k \in 1..(i - 1) : l[k] = r[k]
      BY <1>1, <2>3
    <3>2. Precedes(order.desc, i, l, r)
      BY <1>nat, <1>0, <1>1, <2>3 DEF Precedes
    <3> QED
      BY <3>1, <3>2 DEF CompUaks
  <2> QED
    BY <1>0, <2>1, <2>2, <2>3
<1>2. ASSUME NEW i \in 1..order.keys,
             Precedes(order.desc, i, l, m), \A k \in 1..(i - 1) : l[k] = m[k],
             \A k \in 1..order.keys : m[k] = r[k]
      PROVE  CompUaks(order, l, r)
  <2>1. \A k \in 1..(i - 1) : l[k] = r[k]
    BY <1>0, <1>2
  <2> QED
    BY <1>2, <2>1 DEF CompUaks, Precedes
<1>3. ASSUME NEW i \in 1..order.keys,
             Precedes(order.desc, i, m, r), \A k \in 1..(i - 1) : m[k] = r[k],
             \A k \in 1..order.keys : l[k] = m[k]
      PROVE  CompUaks(order, l, r)
  <2>1. \A k \in 1..(i - 1) : l[k] = r[k]
    BY <1>0, <1>3
  <2> QED
    BY <1>3, <2>1 DEF CompUaks, Precedes
<1>4. ASSUME \A k \in 1..order.keys : l[k] = m[k], l[0] < m[0],
             \A k \in 1..order.keys : m[k] = r[k], m[0] < r[0]
      PROVE  CompUaks(order, l, r)
  BY <1>nat, <1>0, <1>4 DEF CompUaks
<1> QED
  BY <1>1, <1>2, <1>3, <1>4 DEF CompUaks

\* Of two entries with different uids one is before the other: the uid decides
\* where the scores do not.
LEMMA Total ==
  ASSUME NEW order, order.keys \in 1..3, NEW l \in Uaks(order.keys), NEW r \in Uaks(order.keys),
         l[0] # r[0]
  PROVE  CompUaks(order, l, r) \/ CompUaks(order, r, l)
<1>nat. \A i \in 0..order.keys : l[i] \in Nat /\ r[i] \in Nat
  BY DEF Uaks
<1>0. 0 \in 0..order.keys /\ \A i \in 1..order.keys : i \in 0..order.keys /\ i \in Int
  OBVIOUS
<1>1. ASSUME NEW i \in 1..order.keys, l[i] # r[i], \A k \in 1..(i - 1) : l[k] = r[k]
      PROVE  CompUaks(order, l, r) \/ CompUaks(order, r, l)
  <2>1. Precedes(order.desc, i, l, r) \/ Precedes(order.desc, i, r, l)
    BY <1>nat, <1>0, <1>1 DEF Precedes
  <2>2. \A k \in 1..(i - 1) : r[k] = l[k]
    BY <1>1
  <2> QED
    BY <1>1, <2>1, <2>2 DEF CompUaks
<1>2. CASE \A k \in 1..order.keys : l[k] = r[k]
  <2>1. l[0] < r[0] \/ r[0] < l[0]
    BY <1>nat, <1>0
  <2> QED
    BY <1>2, <2>1 DEF CompUaks
<1>3. CASE \E k \in 1..order.keys : l[k] # r[k]
  <2>1. \E i \in 1..order.keys : l[i] # r[i] /\ \A k \in 1..(i - 1) : l[k] = r[k]
    <3>1. CASE 1 \in 1..order.keys /\ l[1] # r[1]
      BY <3>1
    <3>2. CASE l[1] = r[1] /\ 2 \in 1..order.keys /\ l[2] # r[2]
      BY <3>2
    <3>3. CASE l[1] = r[1] /\ l[2] = r[2] /\ 3 \in 1..order.keys /\ l[3] # r[3]
      BY <3>3
    <3> QED
      BY <1>3, <3>1, <3>2, <3>3
  <2> QED
    BY <1>1, <2>1
<1> QED
  BY <1>2, <1>3

\* For every RankType the comparison of the skip list is a strict order of the
\* entries, total on those of different uids: the place where SkipList::InsertNode
\* puts one, and so the rank of each, is determined by what is on the list.
THEOREM RankTypesOrder ==
  ASSUME NEW type \in RankType
  PROVE  LET order == TransformRankType[type] IN
         /\ \A l, r \in Uaks(order.keys) :
              /\ CompUaks(order, l, r) => ~CompUaks(order, r, l)
              /\ l[0] # r[0] => CompUaks(order, l, r) \/ CompUaks(order, r, l)
         /\ \A l, m, r \in Uaks(order.keys) :
              CompUaks(order, l, m) /\ CompUaks(order, m, r) => CompUaks(order, l, r)
<1> DEFINE order == TransformRankType[type]
<1>1. order.keys \in 1..3 /\ order.keys \in Nat
  BY OrderOfType
<1> HIDE DEF order
<1>2. \A l, r \in Uaks(order.keys) : CompUaks(order, l, r) => ~CompUaks(order, r, l)
  BY <1>1, Asymmetric
<1>3. \A l, r \in Uaks(order.keys) :
        l[0] # r[0] => CompUaks(order, l, r) \/ CompUaks(order, r, l)
  BY <1>1, Total
<1>4. \A l, m, r \in Uaks(order.keys) :
        CompUaks(order, l, m) /\ CompUaks(order, m, r) => CompUaks(order, l, r)
  BY <1>1, Transitive
<1> QED
  BY <1>2, <1>3, <1>4 DEF order

-----------------------------------------------------------------------------
(* Numbers and functions.                                                  *)

LEMMA LeastNat ==
  ASSUME NEW T, T \subseteq Nat, T # {}
  PROVE  \E x \in T : \A y \in T : x <= y
<1> DEFINE R == OpToRel(<, Nat)
<1>1. IsWellFoundedOn(R, Nat)
  BY NatLessThanWellFounded
<1>2. \A x, y \in Nat : y < x => <<y, x>> \in R
  BY DEF OpToRel
<1> HIDE DEF R
<1>3. PICK x \in T : \A y \in T : ~(<<y, x>> \in R)
  BY <1>1, WFMin
<1>4. \A y \in T : ~(y < x)
  BY <1>2, <1>3
<1>5. ASSUME NEW y \in T PROVE x <= y
  <2>1. x \in Nat /\ y \in Nat /\ ~(y < x)
    BY <1>4
  <2> QED
    BY <2>1
<1> QED
  BY <1>3, <1>5

\* A bounded set of numbers has a greatest one, which is what Max returns.
LEMMA MaxIs ==
  ASSUME NEW T, NEW b \in Int, NEW a \in T, \A x \in T : x \in Int /\ x <= b
  PROVE  Max(T) \in T /\ \A x \in T : x <= Max(T)
<1> DEFINE D == {b - x : x \in T}
<1>1. D \subseteq Nat /\ D # {}
  OBVIOUS
<1>2. PICK d \in D : \A y \in D : d <= y
  BY <1>1, LeastNat
<1>3. PICK m \in T : d = b - m
  OBVIOUS
<1>4. \A x \in T : m >= x
  <2>1. ASSUME NEW x \in T PROVE m >= x
    <3>1. d <= b - x
      BY <1>2
    <3> QED
      BY <1>3, <3>1
  <2> QED
    BY <2>1
<1>5. Max(T) \in T /\ \A x \in T : Max(T) >= x
  BY <1>4 DEF Max
<1> QED
  BY <1>5

\* A step can be repeated any number of times.
Repeats(S, g, a, n) ==
  \E f \in [0..n -> S] : f[0] = a /\ \A k \in 1..n : f[k] = g[f[k - 1]]

LEMMA Repeat ==
  ASSUME NEW S, NEW g \in [S -> S], NEW a \in S, NEW n \in Nat
  PROVE  Repeats(S, g, a, n)
<1> USE DEF Repeats
<1> DEFINE P(m) == Repeats(S, g, a, m)
           T == {m \in Nat : ~P(m)}
<1>1. SUFFICES ASSUME T # {} PROVE FALSE
  OBVIOUS
<1>2. PICK m \in T : \A y \in T : m <= y
  BY <1>1, LeastNat
<1>3. m # 0
  <2>1. P(0)
    <3> DEFINE f == [k \in 0..0 |-> a]
    <3>1. f \in [0..0 -> S] /\ f[0] = a /\ \A k \in 1..0 : FALSE
      OBVIOUS
    <3> HIDE DEF f
    <3> QED
      BY <3>1
  <2> QED
    BY <2>1
<1>4. m - 1 \in Nat /\ ~(m <= m - 1)
  BY <1>3
<1>5. P(m - 1)
  BY <1>2, <1>4
<1>6. PICK f \in [0..(m - 1) -> S] : f[0] = a /\ \A k \in 1..(m - 1) : f[k] = g[f[k - 1]]
  BY <1>5
<1> DEFINE h == [k \in 0..m |-> IF k = m THEN g[f[m - 1]] ELSE f[k]]
<1>7. m \in Nat /\ m - 1 \in 0..(m - 1) /\ f[m - 1] \in S
  BY <1>3, <1>4
<1>8. h \in [0..m -> S]
  BY <1>7
<1>9. h[0] = a
  BY <1>3, <1>6, <1>7
<1>10. ASSUME NEW k \in 1..m PROVE h[k] = g[h[k - 1]]
  <2>1. k \in 0..m /\ k - 1 \in 0..m /\ k - 1 # m
    BY <1>7
  <2>2. CASE k = m
    BY <2>1, <2>2
  <2>3. CASE k # m
    <3>1. k \in 1..(m - 1)
      BY <1>7, <2>3
    <3> QED
      BY <1>6, <2>1, <2>3, <3>1
  <2> QED
    BY <2>2, <2>3
<1>11. P(m)
  <2> HIDE DEF h
  <2> QED
    BY <1>8, <1>9, <1>10
<1> QED
  BY <1>11

-----------------------------------------------------------------------------
(* A list and the numbers of its nodes.                                    *)

Listed(l) == {u \in Uid : Has(l, u)}
Nodes(l)  == Listed(l) \cup {Header}
Link      == [forward : Uid \cup {Nil}, span : Int]

\* The nodes that have level i.
Tall(l, i) == {n \in Nodes(l) : i \in DOMAIN l.levels[n]}

Shaped(l) ==
  /\ l.level \in 1..MaxLevel /\ l.length = Cardinality(Listed(l))
  /\ DOMAIN l.levels[Header] = 0..(MaxLevel - 1)
  /\ \A n \in Listed(l) : \E h \in 1..l.level : DOMAIN l.levels[n] = 0..(h - 1)
  /\ \A n \in Nodes(l) : \A i \in DOMAIN l.levels[n] : l.levels[n][i] \in Link
  /\ l.uaks \in [Uid -> Entry \cup {<<>>}]
  /\ \A n \in Listed(l) : l.uaks[n] \in Entry /\ l.uaks[n][0] = n

\* p numbers the nodes from the header on, in the order of their entries.
Numbers(l, p) ==
  /\ p \in [Nodes(l) -> 0..l.length] /\ p[Header] = 0
  /\ \A m, n \in Nodes(l) : p[m] = p[n] => m = n
  /\ \A i \in 0..l.length : \E n \in Nodes(l) : p[n] = i
Sorted(l, p) ==
  \A m, n \in Listed(l) : p[m] < p[n] => CompUaks(Order, l.uaks[m], l.uaks[n])

\* A link leads to the next node of its level and spans what it skips.
Far(l, p, n) == IF n = Nil THEN l.length ELSE p[n]
LinkOK(l, p, n, i) ==
  LET link == l.levels[n][i] IN
  /\ link.forward # Nil => link.forward \in Tall(l, i) /\ p[n] < p[link.forward]
  /\ link.span = Far(l, p, link.forward) - p[n]
  /\ \A m \in Tall(l, i) : p[n] < p[m] => link.forward # Nil /\ p[link.forward] <= p[m]
Leveled(l, p) ==
  /\ \A i \in 0..(l.level - 1) : \A n \in Tall(l, i) : LinkOK(l, p, n, i)
  /\ \A i \in l.level..(MaxLevel - 1) : l.levels[Header][i].forward = Nil

\* The way back.
Returning(l, p) ==
  /\ \A n \in Listed(l) :
       IF p[n] = 1 THEN l.backward[n] = Nil
       ELSE l.backward[n] \in Listed(l) /\ p[l.backward[n]] = p[n] - 1
  /\ IF l.length = 0 THEN l.tail = Nil ELSE l.tail \in Listed(l) /\ p[l.tail] = l.length

Whole(l, p) ==
  Shaped(l) /\ Numbers(l, p) /\ Sorted(l, p) /\ Leveled(l, p) /\ Returning(l, p)

-----------------------------------------------------------------------------
(* Searches.                                                               *)

LEMMA ListFacts ==
  ASSUME NEW l, NEW p, Whole(l, p)
  PROVE  /\ l.length \in Nat /\ Cardinality(Uid) \in Nat /\ l.length <= Cardinality(Uid)
         /\ l.level \in 1..MaxLevel /\ MaxLevel \in Nat
         /\ Header \notin Uid /\ Nil \notin Node /\ Listed(l) \subseteq Uid /\ Nodes(l) \subseteq Node
         /\ \A i \in 0..(MaxLevel - 1) : Header \in Tall(l, i)
         /\ \A i : Tall(l, i) \subseteq Nodes(l)
         /\ \A n \in Nodes(l) : p[n] \in 0..l.length
         /\ \A n \in Listed(l) : p[n] \in 1..l.length /\ n \in Tall(l, 0) /\ n # Header
         /\ p[Header] = 0
         /\ IsFiniteSet(Listed(l))
<1>1. Header \notin Uid /\ Nil \notin Node /\ Listed(l) \subseteq Uid /\ Nodes(l) \subseteq Node
  BY RankAssumption DEF Header, Nil, Node, Listed, Nodes
<1>2. IsFiniteSet(Listed(l)) /\ Cardinality(Uid) \in Nat /\ Cardinality(Listed(l)) \in Nat
      /\ Cardinality(Listed(l)) <= Cardinality(Uid)
  BY <1>1, RankAssumption, FS_Subset, FS_CardinalityType
<1>3. l.level \in 1..MaxLevel /\ MaxLevel \in Nat /\ l.length = Cardinality(Listed(l))
  BY RankAssumption DEF Whole, Shaped
<1>4. \A i \in 0..(MaxLevel - 1) : Header \in Tall(l, i)
  BY DEF Whole, Shaped, Tall, Nodes
<1>5. \A i : Tall(l, i) \subseteq Nodes(l)
  BY DEF Tall
<1>6. p[Header] = 0 /\ \A n \in Nodes(l) : p[n] \in 0..l.length
  BY DEF Whole, Numbers
<1>7. ASSUME NEW n \in Listed(l) PROVE p[n] \in 1..l.length /\ n \in Tall(l, 0) /\ n # Header
  <2>1. n # Header /\ n \in Nodes(l) /\ Header \in Nodes(l)
    BY <1>1 DEF Nodes
  <2>2. p[n] # 0
    BY <1>6, <2>1 DEF Whole, Numbers
  <2>3. PICK h \in 1..l.level : DOMAIN l.levels[n] = 0..(h - 1)
    BY DEF Whole, Shaped
  <2>4. 0 \in 0..(h - 1)
    BY <1>3
  <2> QED
    BY <1>2, <1>3, <1>6, <2>1, <2>2, <2>3, <2>4 DEF Tall
<1> QED
  BY <1>1, <1>2, <1>3, <1>4, <1>5, <1>6, <1>7

\* The last node of level i whose number is at most t.
Last(l, p, i, t) ==
  CHOOSE n \in Tall(l, i) : p[n] <= t /\ \A m \in Tall(l, i) : p[m] <= t => p[m] <= p[n]
Stand(p, n) == [node |-> n, rank |-> p[n]]

LEMMA LastIs ==
  ASSUME NEW l, NEW p, Whole(l, p), NEW i \in 0..(MaxLevel - 1), NEW t \in 0..l.length
  PROVE  LET n == Last(l, p, i, t) IN
         /\ n \in Tall(l, i) /\ p[n] <= t /\ \A m \in Tall(l, i) : p[m] <= t => p[m] <= p[n]
<1> DEFINE T == {p[n] : n \in {m \in Tall(l, i) : p[m] <= t}}
<1>1. Header \in Tall(l, i) /\ p[Header] = 0 /\ l.length \in Nat
      /\ \A n \in Tall(l, i) : p[n] \in 0..l.length
  BY ListFacts
<1>2. 0 \in T /\ t \in Int /\ \A x \in T : x \in Int /\ x <= t
  BY <1>1
<1>3. Max(T) \in T /\ \A x \in T : x <= Max(T)
  BY <1>2, MaxIs
<1>4. PICK n \in Tall(l, i) : p[n] <= t /\ p[n] = Max(T)
  BY <1>3
<1>5. \A m \in Tall(l, i) : p[m] <= t => p[m] <= p[n]
  BY <1>3, <1>4
<1> QED
  BY <1>4, <1>5 DEF Last

\* What a set of positions that a search passes has to be: the first t nodes.
Cuts(l, p, pass, t) ==
  /\ t \in 0..l.length
  /\ \A n \in Listed(l) : Stand(p, n) \in pass <=> p[n] <= t

LEMMA StepIs ==
  ASSUME NEW l, NEW p, Whole(l, p), NEW i \in 0..(l.level - 1), NEW t, NEW pass,
         Cuts(l, p, pass, t), NEW n \in Tall(l, i), p[n] <= t
  PROVE  LET next == l.levels[n][i].forward IN
         IF n = Last(l, p, i, t)
         THEN Step(l, i, pass, Stand(p, n)) = Stand(p, n)
         ELSE /\ Step(l, i, pass, Stand(p, n)) = Stand(p, next)
              /\ next \in Tall(l, i) /\ p[n] < p[next] /\ p[next] <= t
<1> DEFINE next == l.levels[n][i].forward
           last == Last(l, p, i, t)
<1>1. l.length \in Nat /\ t \in 0..l.length /\ i \in 0..(MaxLevel - 1) /\ n \in Nodes(l)
      /\ \A m \in Tall(l, i) : p[m] \in 0..l.length /\ m \in Nodes(l)
  BY ListFacts DEF Cuts
<1>2. last \in Tall(l, i) /\ p[last] <= t /\ \A m \in Tall(l, i) : p[m] <= t => p[m] <= p[last]
  BY <1>1, LastIs
<1>3. LinkOK(l, p, n, i)
  BY DEF Whole, Leveled
<1> HIDE DEF last
<1>4. /\ next # Nil => next \in Tall(l, i) /\ p[n] < p[next]
      /\ l.levels[n][i].span = Far(l, p, next) - p[n]
      /\ \A m \in Tall(l, i) : p[n] < p[m] => next # Nil /\ p[next] <= p[m]
  BY <1>3 DEF LinkOK
<1>5. Step(l, i, pass, Stand(p, n)) =
        IF next # Nil /\ [node |-> next, rank |-> p[n] + l.levels[n][i].span] \in pass
        THEN [node |-> next, rank |-> p[n] + l.levels[n][i].span] ELSE Stand(p, n)
  BY DEF Step, Stand
<1> HIDE DEF next
<1>6. next # Nil => /\ p[n] + l.levels[n][i].span = p[next]
                    /\ next \in Listed(l)
                    /\ (Stand(p, next) \in pass <=> p[next] <= t)
  <2> SUFFICES ASSUME next # Nil
               PROVE  /\ p[n] + l.levels[n][i].span = p[next]
                      /\ next \in Listed(l)
                      /\ (Stand(p, next) \in pass <=> p[next] <= t)
    OBVIOUS
  <2>1. p[next] \in 0..l.length /\ p[n] \in 0..l.length /\ p[n] < p[next] /\ next \in Nodes(l)
    BY <1>1, <1>4
  <2>2. l.levels[n][i].span = p[next] - p[n]
    BY <1>4 DEF Far
  <2>3. next # Header
    BY <1>1, <2>1, ListFacts
  <2>4. next \in Listed(l)
    BY <2>1, <2>3 DEF Nodes
  <2>5. Stand(p, next) \in pass <=> p[next] <= t
    BY <2>4 DEF Cuts
  <2> QED
    BY <2>1, <2>2, <2>4, <2>5
<1>7. Step(l, i, pass, Stand(p, n)) =
        IF next # Nil /\ p[next] <= t THEN Stand(p, next) ELSE Stand(p, n)
  BY <1>5, <1>6 DEF Stand
<1>8. CASE n = last
  <2>1. ~(next # Nil /\ p[next] <= t)
    BY <1>1, <1>2, <1>4, <1>8
  <2> QED
    BY <1>7, <1>8, <2>1 DEF last
<1>9. CASE n # last
  <2>1. p[n] # p[last]
    BY <1>1, <1>2, <1>9 DEF Whole, Numbers
  <2>2. p[n] < p[last]
    BY <1>1, <1>2, <2>1
  <2>3. next # Nil /\ p[next] <= p[last] /\ next \in Tall(l, i) /\ p[n] < p[next]
    BY <1>2, <1>4, <2>2
  <2>4. p[next] <= t
    BY <1>1, <1>2, <2>3
  <2> QED
    BY <1>7, <1>9, <2>3, <2>4 DEF last, next
<1> QED
  BY <1>8, <1>9

Runs(l, i, pass, q, f) ==
  f = [k \in 0..Cardinality(Uid) |-> IF k = 0 THEN q ELSE Step(l, i, pass, f[k - 1])]

\* A level is left at the last of its nodes that pass.
LEMMA AlongIs ==
  ASSUME NEW l, NEW p, Whole(l, p), NEW i \in 0..(l.level - 1), NEW t, NEW pass,
         Cuts(l, p, pass, t), NEW n \in Tall(l, i), p[n] <= t
  PROVE  Along(l, i, pass, Stand(p, n)) = Stand(p, Last(l, p, i, t))
<1> DEFINE N == Cardinality(Uid)
           last == Last(l, p, i, t)
           S == {Stand(p, m) : m \in {m \in Tall(l, i) : p[m] <= t}}
           a == Stand(p, n)
<1>1. N \in Nat /\ l.length \in Nat /\ l.length <= N /\ t \in 0..l.length
      /\ i \in 0..(MaxLevel - 1) /\ \A m \in Tall(l, i) : p[m] \in 0..l.length /\ m \in Nodes(l)
  BY ListFacts DEF Cuts
<1>2. last \in Tall(l, i) /\ p[last] <= t /\ \A m \in Tall(l, i) : p[m] <= t => p[m] <= p[last]
  BY <1>1, LastIs
<1>3. ASSUME NEW m \in Tall(l, i), p[m] <= t
      PROVE  /\ Step(l, i, pass, Stand(p, m)) \in S
             /\ m = last => Step(l, i, pass, Stand(p, m)) = Stand(p, m)
             /\ m # last => \E j \in Tall(l, i) : /\ Step(l, i, pass, Stand(p, m)) = Stand(p, j)
                                                  /\ p[m] < p[j] /\ p[j] <= t
  BY <1>3, StepIs
<1> DEFINE g == [q \in S |-> Step(l, i, pass, q)]
<1> HIDE DEF last
<1>4. a \in S /\ g \in [S -> S] /\ \A q \in S : g[q] = Step(l, i, pass, q)
  BY <1>3
<1>5. Repeats(S, g, a, N)
  <2>1. N \in Nat /\ a \in S /\ g \in [S -> S]
    BY <1>1, <1>4
  <2> HIDE DEF g, S, a, N
  <2> QED
    BY <2>1, Repeat
<1>6. \E f : Runs(l, i, pass, a, f)
  <2>1. PICK f \in [0..N -> S] : f[0] = a /\ \A k \in 1..N : f[k] = g[f[k - 1]]
    BY <1>5 DEF Repeats
  <2>2. \A k \in 0..N : f[k] = IF k = 0 THEN a ELSE Step(l, i, pass, f[k - 1])
    <3>1. ASSUME NEW k \in 0..N, k # 0 PROVE f[k] = Step(l, i, pass, f[k - 1])
      <4>1. k \in 1..N /\ k - 1 \in 0..N
        BY <1>1, <3>1
      <4>2. f[k - 1] \in S
        BY <2>1, <4>1
      <4> QED
        BY <1>4, <2>1, <4>1, <4>2
    <3> QED
      BY <2>1, <3>1
  <2> HIDE DEF a, S, g
  <2>3. f = [k \in 0..N |-> f[k]]
    BY <2>1
  <2>4. f = [k \in 0..N |-> IF k = 0 THEN a ELSE Step(l, i, pass, f[k - 1])]
    BY <2>2, <2>3
  <2> QED
    BY <2>4 DEF Runs
<1> DEFINE f == CHOOSE f : Runs(l, i, pass, a, f)
<1>7. Runs(l, i, pass, a, f)
  BY <1>6
<1>8. Along(l, i, pass, a) = f[N]
  BY DEF Along, Runs
<1> HIDE DEF f
<1>9. f[0] = a /\ \A k \in 1..N : f[k] = Step(l, i, pass, f[k - 1])
  BY <1>1, <1>7 DEF Runs
\* After k steps the search has ended or has come as far as number k.
<1> DEFINE Come(k) == \E m \in Tall(l, i) : f[k] = Stand(p, m) /\ p[m] <= t /\ (m = last \/ k <= p[m])
           T == {k \in 0..N : ~Come(k)}
<1>10. T = {}
  <2> SUFFICES ASSUME T # {} PROVE FALSE
    OBVIOUS
  <2>1. T \subseteq Nat
    BY <1>1
  <2>2. PICK k \in T : \A j \in T : k <= j
    BY <2>1, LeastNat
  <2>3. k # 0
    <3>1. Come(0)
      BY <1>1, <1>9
    <3> QED
      BY <3>1
  <2>4. k \in 1..N /\ k - 1 \in 0..N /\ ~(k <= k - 1)
    BY <1>1, <2>3
  <2>5. Come(k - 1)
    BY <2>2, <2>4
  <2>6. PICK m \in Tall(l, i) : f[k - 1] = Stand(p, m) /\ p[m] <= t /\ (m = last \/ k - 1 <= p[m])
    BY <2>5
  <2>7. f[k] = Step(l, i, pass, Stand(p, m))
    BY <1>9, <2>4, <2>6
  <2>8. Come(k)
    <3>1. CASE m = last
      BY <1>3, <2>6, <2>7, <3>1
    <3>2. CASE m # last
      <4>1. PICK j \in Tall(l, i) : f[k] = Stand(p, j) /\ p[m] < p[j] /\ p[j] <= t
        BY <1>3, <2>6, <2>7, <3>2
      <4>2. k <= p[j]
        BY <1>1, <2>4, <2>6, <3>2, <4>1
      <4> QED
        BY <4>1, <4>2
    <3> QED
      BY <3>1, <3>2
  <2> QED
    BY <2>8
<1>11. PICK m \in Tall(l, i) : f[N] = Stand(p, m) /\ p[m] <= t /\ (m = last \/ N <= p[m])
  BY <1>1, <1>10
<1>12. m = last
  <2> SUFFICES ASSUME N <= p[m] PROVE m = last
    BY <1>11
  <2>1. p[m] = p[last]
    BY <1>1, <1>2, <1>11
  <2> QED
    BY <1>1, <1>2, <2>1 DEF Whole, Numbers
<1> QED
  BY <1>8, <1>11, <1>12 DEF last
\* A node that has a level has those below it.
LEMMA TallBelow ==
  ASSUME NEW l, NEW p, Whole(l, p), NEW i \in Nat, NEW n \in Tall(l, i + 1)
  PROVE  n \in Tall(l, i)
<1>1. CASE n = Header
  BY <1>1, RankAssumption DEF Whole, Shaped, Tall, Nodes
<1>2. CASE n \in Listed(l)
  <2>1. PICK h \in 1..l.level : DOMAIN l.levels[n] = 0..(h - 1)
    BY <1>2 DEF Whole, Shaped
  <2>2. h \in Int /\ i + 1 \in 0..(h - 1)
    BY <2>1, ListFacts DEF Tall
  <2> QED
    BY <2>1, <2>2 DEF Tall
<1> QED
  BY <1>1, <1>2 DEF Tall, Nodes

Seeks(l, pass, f) ==
  f = [i \in 0..l.level |-> IF i = l.level THEN [node |-> Header, rank |-> 0]
                            ELSE Along(l, i, pass, f[i + 1])]
Found(l, p, t) ==
  [i \in 0..l.level |-> IF i = l.level THEN Stand(p, Header) ELSE Stand(p, Last(l, p, i, t))]

\* A search leaves each level at the last of its nodes that pass.
LEMMA SearchIs ==
  ASSUME NEW l, NEW p, Whole(l, p), NEW t, NEW pass, Cuts(l, p, pass, t)
  PROVE  Search(l, pass) = Found(l, p, t)
<1> DEFINE w == Found(l, p, t)
           L == l.level
<1>1. L \in Nat /\ L - 1 \in Nat /\ L <= MaxLevel /\ MaxLevel \in Nat /\ l.length \in Nat
      /\ t \in 0..l.length /\ p[Header] = 0 /\ \A i \in 0..(MaxLevel - 1) : Header \in Tall(l, i)
  BY ListFacts DEF Cuts
<1>2. Stand(p, Header) = [node |-> Header, rank |-> 0]
  BY <1>1 DEF Stand
<1>3. ASSUME NEW i \in 0..L, i # L PROVE w[i] = Along(l, i, pass, w[i + 1])
  <2>1. i \in 0..(L - 1) /\ i \in 0..(MaxLevel - 1) /\ i + 1 \in 0..L /\ i \in Nat
    BY <1>1, <1>3
  <2>2. PICK n \in Tall(l, i) : p[n] <= t /\ w[i + 1] = Stand(p, n)
    <3>1. CASE i + 1 = L
      BY <1>1, <2>1, <3>1 DEF Found
    <3>2. CASE i + 1 # L
      <4>1. i + 1 \in 0..(MaxLevel - 1)
        BY <1>1, <2>1, <3>2
      <4> DEFINE n == Last(l, p, i + 1, t)
      <4>2. n \in Tall(l, i + 1) /\ p[n] <= t
        BY <1>1, <4>1, LastIs
      <4>3. n \in Tall(l, i)
        BY <2>1, <4>2, TallBelow
      <4>4. w[i + 1] = Stand(p, n)
        BY <2>1, <3>2 DEF Found
      <4> HIDE DEF n, w
      <4> QED
        BY <4>2, <4>3, <4>4
    <3> QED
      BY <3>1, <3>2
  <2>3. Along(l, i, pass, Stand(p, n)) = Stand(p, Last(l, p, i, t))
    BY <2>1, <2>2, AlongIs
  <2>4. w[i] = Stand(p, Last(l, p, i, t))
    BY <1>3 DEF Found
  <2> QED
    BY <2>2, <2>3, <2>4
<1>4. Seeks(l, pass, w)
  <2>1. \A i \in 0..L : w[i] = IF i = L THEN [node |-> Header, rank |-> 0]
                               ELSE Along(l, i, pass, w[i + 1])
    <3>1. L \in 0..L /\ w[L] = Stand(p, Header)
      BY <1>1 DEF Found
    <3> HIDE DEF w
    <3> QED
      BY <1>2, <1>3, <3>1
  <2>2. w = [i \in 0..L |-> w[i]]
    BY DEF Found
  <2> HIDE DEF w
  <2> QED
    BY <2>1, <2>2 DEF Seeks
<1> DEFINE f == CHOOSE f : Seeks(l, pass, f)
<1>5. Search(l, pass) = f
  BY DEF Search, Seeks
<1> HIDE DEF w
<1>6. Seeks(l, pass, f)
  BY <1>4
<1> HIDE DEF f
<1> DEFINE T == {k \in 0..L : f[L - k] # w[L - k]}
<1>7. T = {}
  <2> SUFFICES ASSUME T # {} PROVE FALSE
    OBVIOUS
  <2>1. T \subseteq Nat
    BY <1>1
  <2>2. PICK k \in T : \A j \in T : k <= j
    BY <2>1, LeastNat
  <2> DEFINE i == L - k
  <2>3. i \in 0..L /\ f[i] # w[i] /\ k \in 0..L
    BY <1>1
  <2>4. /\ f[i] = IF i = L THEN [node |-> Header, rank |-> 0] ELSE Along(l, i, pass, f[i + 1])
        /\ w[i] = IF i = L THEN [node |-> Header, rank |-> 0] ELSE Along(l, i, pass, w[i + 1])
    BY <1>4, <1>6, <2>3 DEF Seeks
  <2>5. i # L
    BY <2>3, <2>4
  <2>6. k - 1 \in 0..L /\ ~(k <= k - 1) /\ L - (k - 1) = i + 1
    BY <1>1, <2>3, <2>5
  <2>7. f[i + 1] = w[i + 1]
    BY <2>2, <2>6
  <2> QED
    BY <2>3, <2>4, <2>5, <2>7
<1>8. ASSUME NEW i \in 0..L PROVE f[i] = w[i]
  <2>1. L - i \in 0..L /\ L - (L - i) = i
    BY <1>1
  <2> QED
    BY <1>7, <2>1
<1>9. f = [i \in 0..L |-> f[i]] /\ w = [i \in 0..L |-> w[i]]
  BY <1>4, <1>6 DEF Seeks
<1>10. f = w
  BY <1>8, <1>9
<1> QED
  BY <1>5, <1>10 DEF w

\* On the lowest level a search ends at the node of number t.
LEMMA LowestIs ==
  ASSUME NEW l, NEW p, Whole(l, p), NEW t \in 0..l.length
  PROVE  p[Last(l, p, 0, t)] = t
<1>1. l.length \in Nat /\ 0 \in 0..(MaxLevel - 1) /\ \A n \in Tall(l, 0) : p[n] \in 0..l.length
  BY ListFacts
<1>2. PICK n \in Nodes(l) : p[n] = t
  BY DEF Whole, Numbers
<1>3. n \in Tall(l, 0)
  BY <1>1, <1>2, ListFacts DEF Nodes
<1> DEFINE last == Last(l, p, 0, t)
<1>4. last \in Tall(l, 0) /\ p[last] <= t /\ \A m \in Tall(l, 0) : p[m] <= t => p[m] <= p[last]
  BY <1>1, LastIs
<1> HIDE DEF last
<1> QED
  BY <1>1, <1>2, <1>3, <1>4 DEF last
-----------------------------------------------------------------------------
(* Where an entry belongs.                                                 *)

\* The order of the list, on its entries.
LEMMA EntryOrder ==
  /\ \A l, r \in Entry : /\ CompUaks(Order, l, r) => ~CompUaks(Order, r, l)
                         /\ l[0] # r[0] => CompUaks(Order, l, r) \/ CompUaks(Order, r, l)
  /\ \A l, m, r \in Entry :
       CompUaks(Order, l, m) /\ CompUaks(Order, m, r) => CompUaks(Order, l, r)
<1>1. Type \in RankType /\ Order.keys \in 1..3
  BY RankAssumption, OrderOfType DEF Order
<1>2. Entry \subseteq Uaks(Order.keys)
  <2>1. ASSUME NEW e \in Entry PROVE e \in [0..Order.keys -> Nat]
    <3>1. e \in [0..Order.keys -> Uid \cup Key] /\ Uid \subseteq Nat /\ Key \subseteq Nat
      BY RankAssumption DEF Entry
    <3> QED
      BY <3>1
  <2> QED
    BY <2>1 DEF Uaks
<1>3. /\ \A l, r \in Uaks(Order.keys) :
           /\ CompUaks(Order, l, r) => ~CompUaks(Order, r, l)
           /\ l[0] # r[0] => CompUaks(Order, l, r) \/ CompUaks(Order, r, l)
      /\ \A l, m, r \in Uaks(Order.keys) :
           CompUaks(Order, l, m) /\ CompUaks(Order, m, r) => CompUaks(Order, l, r)
  BY <1>1, RankTypesOrder DEF Order
<1> QED
  BY <1>2, <1>3

\* t nodes come before the entry e.
Before(l, p, e, t) ==
  t \in 0..l.length /\ \A n \in Listed(l) : CompUaks(Order, l.uaks[n], e) <=> p[n] <= t

LEMMA PathIs ==
  ASSUME NEW l, NEW p, Whole(l, p), NEW e, NEW t, Before(l, p, e, t)
  PROVE  PathTo(l, e) = Found(l, p, t)
<1> DEFINE pass == {q \in Position : CompUaks(Order, l.uaks[q.node], e)}
<1>1. ASSUME NEW n \in Listed(l) PROVE Stand(p, n) \in pass <=> p[n] <= t
  <2>1. n \in Node /\ p[n] \in Int
    BY ListFacts DEF Nodes
  <2>2. Stand(p, n) \in Position /\ Stand(p, n).node = n
    BY <2>1 DEF Stand, Position
  <2> QED
    BY <2>2 DEF Before
<1>2. Cuts(l, p, pass, t)
  BY <1>1 DEF Cuts, Before
<1>3. PathTo(l, e) = Search(l, pass)
  BY DEF PathTo
<1> QED
  BY <1>2, <1>3, SearchIs

LEMMA NewPlace ==
  ASSUME NEW l, NEW p, Whole(l, p), NEW e \in Entry, e[0] \notin Listed(l)
  PROVE  \E t : Before(l, p, e, t)
<1> DEFINE Earlier == {n \in Listed(l) : CompUaks(Order, l.uaks[n], e)}
           T == {0} \cup {p[n] : n \in Earlier}
           t == Max(T)
<1>1. l.length \in Nat /\ \A n \in Listed(l) : p[n] \in 1..l.length
  BY ListFacts
<1>2. 0 \in T /\ l.length \in Int /\ \A x \in T : x \in Int /\ x <= l.length
  BY <1>1
<1>3. t \in T /\ \A x \in T : x <= t
  <2> HIDE DEF T
  <2> QED
    BY <1>2, MaxIs
<1> HIDE DEF t
<1>4. t \in 0..l.length
  BY <1>1, <1>3
<1>5. ASSUME NEW n \in Listed(l), CompUaks(Order, l.uaks[n], e) PROVE p[n] <= t
  BY <1>3, <1>5
<1>6. ASSUME NEW n \in Listed(l), p[n] <= t PROVE CompUaks(Order, l.uaks[n], e)
  <2>1. PICK m \in Earlier : t = p[m]
    BY <1>1, <1>3, <1>6
  <2>2. CASE m = n
    BY <2>2
  <2>3. CASE m # n
    <3>1. m \in Nodes(l) /\ n \in Nodes(l)
      BY DEF Nodes
    <3>2. p[m] # p[n]
      BY <2>3, <3>1 DEF Whole, Numbers
    <3>3. p[n] < p[m]
      BY <1>1, <1>6, <2>1, <3>2
    <3>4. CompUaks(Order, l.uaks[n], l.uaks[m])
      BY <3>3 DEF Whole, Sorted
    <3>5. l.uaks[n] \in Entry /\ l.uaks[m] \in Entry
      BY DEF Whole, Shaped
    <3> QED
      BY <3>4, <3>5, EntryOrder
  <2> QED
    BY <2>2, <2>3
<1> QED
  BY <1>4, <1>5, <1>6 DEF Before

LEMMA OldPlace ==
  ASSUME NEW l, NEW p, Whole(l, p), NEW u \in Listed(l)
  PROVE  Before(l, p, l.uaks[u], p[u] - 1)
<1>1. l.length \in Nat /\ \A n \in Listed(l) : p[n] \in 1..l.length /\ n \in Nodes(l)
  BY ListFacts DEF Nodes
<1>2. p[u] - 1 \in 0..l.length
  BY <1>1
<1>3. ASSUME NEW n \in Listed(l) PROVE CompUaks(Order, l.uaks[n], l.uaks[u]) <=> p[n] <= p[u] - 1
  <2>1. l.uaks[n] \in Entry /\ l.uaks[u] \in Entry
    BY DEF Whole, Shaped
  <2>2. p[n] < p[u] => CompUaks(Order, l.uaks[n], l.uaks[u])
    BY DEF Whole, Sorted
  <2>3. p[u] < p[n] => CompUaks(Order, l.uaks[u], l.uaks[n])
    BY DEF Whole, Sorted
  <2>4. p[u] = p[n] => u = n
    BY <1>1 DEF Whole, Numbers
  <2>5. CompUaks(Order, l.uaks[n], l.uaks[u]) => p[n] < p[u]
    BY <1>1, <2>1, <2>3, <2>4, EntryOrder
  <2> QED
    BY <1>1, <2>2, <2>5
<1> QED
  BY <1>2, <1>3 DEF Before
-----------------------------------------------------------------------------
(* Insertion.                                                              *)

\* Above the level of the list there is only the header.
LEMMA AboveTop ==
  ASSUME NEW l, NEW p, Whole(l, p), NEW i \in l.level..(MaxLevel - 1), NEW t \in 0..l.length
  PROVE  /\ Tall(l, i) = {Header} /\ Last(l, p, i, t) = Header
         /\ l.levels[Header][i].forward = Nil
<1>1. l.level \in Nat /\ i \in 0..(MaxLevel - 1) /\ Header \in Tall(l, i)
  BY ListFacts
<1>2. ASSUME NEW n \in Listed(l) PROVE n \notin Tall(l, i)
  <2>1. PICK h \in 1..l.level : DOMAIN l.levels[n] = 0..(h - 1)
    BY DEF Whole, Shaped
  <2>2. i \notin 0..(h - 1)
    BY <1>1
  <2> QED
    BY <2>1, <2>2 DEF Tall
<1>3. Tall(l, i) = {Header}
  BY <1>1, <1>2 DEF Tall, Nodes
<1>4. Last(l, p, i, t) \in Tall(l, i)
  BY <1>1, LastIs
<1> QED
  BY <1>3, <1>4 DEF Whole, Leveled

\* The link that ends an insertion's search of level i, with its span.
Cut(l, p, i, t)  == l.levels[Last(l, p, i, t)][i].forward
Span(l, p, i, t) == IF i < l.level THEN l.levels[Last(l, p, i, t)][i].span ELSE l.length

Inserted(l, p, t, e, height, r) ==
  LET u == e[0]
      a(i) == Last(l, p, i, t)
  IN
  /\ r.level \in 1..MaxLevel /\ l.level <= r.level /\ height <= r.level
  /\ r.level = l.level \/ r.level = height
  /\ r.length = l.length + 1
  /\ r.tail = TailAfter(l, Cut(l, p, 0, t), u)
  /\ DOMAIN r.levels[u] = 0..(height - 1)
  /\ \A n \in Node \ {u} : DOMAIN r.levels[n] = DOMAIN l.levels[n]
  /\ \A i \in 0..(height - 1) :
       r.levels[u][i] = [forward |-> Cut(l, p, i, t), span |-> Span(l, p, i, t) - (t - p[a(i)])]
  /\ \A n \in Nodes(l) : \A i \in DOMAIN l.levels[n] :
       r.levels[n][i] =
         IF i < r.level /\ n = a(i)
         THEN IF i < height THEN [forward |-> u, span |-> t - p[n] + 1]
              ELSE [forward |-> Cut(l, p, i, t), span |-> Span(l, p, i, t) + 1]
         ELSE l.levels[n][i]
  /\ \A n \in Uid :
       r.backward[n] = IF n = u THEN (IF a(0) = Header THEN Nil ELSE a(0))
                       ELSE IF n = Cut(l, p, 0, t) THEN u ELSE l.backward[n]
  /\ r.uaks = [l.uaks EXCEPT ![u] = e]

LEMMA InsertIs ==
  ASSUME NEW l, NEW p, Whole(l, p), NEW e \in Entry, e[0] \notin Listed(l),
         NEW t, Before(l, p, e, t), NEW height \in 1..MaxLevel
  PROVE  Inserted(l, p, t, e, height, Insert(l, e, height))
<1> DEFINE u    == e[0]
           path == PathTo(l, e)
           top  == Max({height, l.level})
           at   == [i \in 0..(top - 1) |-> IF i < l.level THEN path[i]
                                           ELSE [node |-> Header, rank |-> 0]]
           old  == [i \in 0..(top - 1) |-> IF i < l.level THEN l.levels[at[i].node][i]
                                           ELSE GrownLink(l, i)]
           cut(i) == Splice(old[i], u, at[0].rank - at[i].rank)
           new(i) == IF i < height THEN cut(i)[1] ELSE [old[i] EXCEPT !.span = @ + 1]
           next == old[0].forward
           r == Insert(l, e, height)
           a(i) == Last(l, p, i, t)
<1>1. r = [level |-> top, length |-> l.length + 1, tail |-> TailAfter(l, next, u),
           levels |-> [n \in Node |->
             IF n = u THEN [i \in 0..(height - 1) |-> cut(i)[2]]
             ELSE [i \in DOMAIN l.levels[n] |->
                     IF i < top /\ at[i].node = n THEN new(i) ELSE l.levels[n][i]]],
           backward |-> [n \in Uid |->
             IF n = u THEN (IF at[0].node = Header THEN Nil ELSE at[0].node)
             ELSE IF n = next THEN u ELSE l.backward[n]],
           uaks |-> [l.uaks EXCEPT ![u] = e]]
  BY DEF Insert
<1>2. l.level \in 1..MaxLevel /\ MaxLevel \in Nat /\ l.length \in Nat /\ t \in 0..l.length
      /\ p[Header] = 0 /\ u \in Uid /\ Header \notin Uid
  BY ListFacts DEF Before, Entry
<1>3. top \in 1..MaxLevel /\ l.level <= top /\ height <= top /\ (top = l.level \/ top = height)
  <2> DEFINE T == {height, l.level}
  <2>1. height \in T /\ MaxLevel \in Int /\ \A x \in T : x \in Int /\ x <= MaxLevel
    BY <1>2
  <2>2. top = Max(T) /\ l.level \in T /\ \A x \in T : x \in {height, l.level}
    OBVIOUS
  <2> HIDE DEF T, top
  <2>3. Max(T) \in T /\ \A x \in T : x <= Max(T)
    BY <2>1, MaxIs
  <2> QED
    BY <1>2, <2>1, <2>2, <2>3
<1> HIDE DEF top
<1>4. path = Found(l, p, t)
  BY PathIs
<1>5. ASSUME NEW i \in 0..(top - 1)
      PROVE  /\ at[i].node = a(i) /\ at[i].rank = p[a(i)]
             /\ old[i] \in Link /\ old[i].forward = Cut(l, p, i, t) /\ old[i].span = Span(l, p, i, t)
  <2>1. i \in 0..(MaxLevel - 1) /\ i \in Nat
    BY <1>2, <1>3
  <2>2. CASE i < l.level
    <3>1. i \in 0..l.level /\ i # l.level
      BY <1>2, <2>1, <2>2
    <3>2. path[i] = Stand(p, a(i))
      BY <1>4, <3>1 DEF Found
    <3>3. at[i].node = a(i) /\ at[i].rank = p[a(i)]
      BY <2>2, <3>2 DEF Stand
    <3>4. old[i] = l.levels[a(i)][i]
      BY <2>2, <3>3
    <3>5. a(i) \in Tall(l, i)
      BY <1>2, <2>1, LastIs
    <3>6. l.levels[a(i)][i] \in Link
      BY <3>5 DEF Tall, Whole, Shaped
    <3> QED
      BY <2>2, <3>3, <3>4, <3>6 DEF Cut, Span
  <2>3. CASE ~(i < l.level)
    <3>1. i \in l.level..(MaxLevel - 1)
      BY <1>2, <2>1, <2>3
    <3>2. a(i) = Header /\ Header \in Tall(l, i)
      BY <1>2, <2>1, <3>1, AboveTop, ListFacts
    <3>3. l.levels[Header][i] \in Link
      BY <3>2 DEF Tall, Whole, Shaped
    <3>4. old[i] = [l.levels[Header][i] EXCEPT !.span = l.length]
      BY <2>3 DEF GrownLink
    <3>5. old[i] \in Link /\ old[i].forward = l.levels[Header][i].forward
          /\ old[i].span = l.length
      BY <1>2, <3>3, <3>4 DEF Link
    <3>6. at[i] = [node |-> Header, rank |-> 0]
      BY <2>3
    <3>7. at[i].node = a(i) /\ at[i].rank = p[a(i)]
      BY <1>2, <3>2, <3>6
    <3> HIDE DEF at, old
    <3> QED
      BY <2>3, <3>2, <3>5, <3>6, <3>7 DEF Cut, Span
  <2> QED
    BY <2>2, <2>3
<1>6. 0 \in 0..(top - 1) /\ 0 \in 0..(MaxLevel - 1)
  BY <1>2, <1>3
<1> HIDE DEF at, old, path
<1>7. p[a(0)] = t
  BY <1>2, LowestIs
<1>8. at[0].rank = t /\ at[0].node = a(0) /\ next = Cut(l, p, 0, t)
  BY <1>5, <1>6, <1>7
<1>9. ASSUME NEW i \in 0..(top - 1)
      PROVE  /\ at[i].node = a(i)
             /\ cut(i)[1] = [forward |-> u, span |-> t - p[a(i)] + 1]
             /\ cut(i)[2] = [forward |-> Cut(l, p, i, t), span |-> Span(l, p, i, t) - (t - p[a(i)])]
             /\ [old[i] EXCEPT !.span = @ + 1]
                  = [forward |-> Cut(l, p, i, t), span |-> Span(l, p, i, t) + 1]
  <2>1. at[i].node = a(i) /\ at[i].rank = p[a(i)]
    BY <1>5
  <2>2. old[i] = [forward |-> Cut(l, p, i, t), span |-> Span(l, p, i, t)]
    BY <1>5 DEF Link
  <2>3. cut(i) = <<[forward |-> u, span |-> t - p[a(i)] + 1],
                   [old[i] EXCEPT !.span = @ - (t - p[a(i)])]>>
    BY <1>8, <2>1 DEF Splice
  <2> QED
    BY <2>1, <2>2, <2>3
<1> HIDE DEF cut, next
<1>10. DOMAIN r.levels[u] = 0..(height - 1)
       /\ \A i \in 0..(height - 1) : r.levels[u][i] = cut(i)[2]
  <2>1. r.levels[u] = [i \in 0..(height - 1) |-> cut(i)[2]]
    BY <1>1, <1>2 DEF Node
  <2> QED
    BY <2>1
<1>11. ASSUME NEW n \in Node, n # u
       PROVE  /\ DOMAIN r.levels[n] = DOMAIN l.levels[n]
              /\ \A i \in DOMAIN l.levels[n] :
                   r.levels[n][i] = IF i < top /\ at[i].node = n THEN new(i) ELSE l.levels[n][i]
  <2>1. r.levels[n] = [i \in DOMAIN l.levels[n] |->
                         IF i < top /\ at[i].node = n THEN new(i) ELSE l.levels[n][i]]
    BY <1>1, <1>11
  <2> HIDE DEF new, r
  <2> QED
    BY <2>1
<1>12. \A i \in 0..(height - 1) : i \in 0..(top - 1)
  BY <1>2, <1>3
<1>13. ASSUME NEW n \in Nodes(l), NEW i \in DOMAIN l.levels[n]
       PROVE  r.levels[n][i] =
                IF i < top /\ n = a(i)
                THEN IF i < height THEN [forward |-> u, span |-> t - p[n] + 1]
                     ELSE [forward |-> Cut(l, p, i, t), span |-> Span(l, p, i, t) + 1]
                ELSE l.levels[n][i]
  <2>1. n \in Node /\ n # u
    BY <1>2, ListFacts DEF Nodes
  <2>2. i \in Nat
    <3>1. CASE n = Header
      BY <1>2, <3>1 DEF Whole, Shaped
    <3>2. CASE n \in Listed(l)
      BY <3>2 DEF Whole, Shaped
    <3> QED
      BY <3>1, <3>2 DEF Nodes
  <2>3. r.levels[n][i] = IF i < top /\ at[i].node = n THEN new(i) ELSE l.levels[n][i]
    BY <1>11, <2>1
  <2>4. CASE i < top
    <3>1. i \in 0..(top - 1)
      BY <1>2, <1>3, <2>2, <2>4
    <3>2. at[i].node = a(i)
      BY <1>9, <3>1
    <3>3. n = a(i) => new(i) = IF i < height THEN [forward |-> u, span |-> t - p[n] + 1]
                 ELSE [forward |-> Cut(l, p, i, t), span |-> Span(l, p, i, t) + 1]
      BY <1>9, <3>1
    <3> HIDE DEF new, r
    <3> QED
      BY <2>3, <2>4, <3>2, <3>3
  <2>5. CASE ~(i < top)
    BY <2>3, <2>5
  <2> QED
    BY <2>4, <2>5
<1>14. r.level = top /\ r.length = l.length + 1 /\ r.tail = TailAfter(l, next, u)
       /\ r.uaks = [l.uaks EXCEPT ![u] = e]
       /\ \A n \in Uid :
            r.backward[n] = IF n = u THEN (IF at[0].node = Header THEN Nil ELSE at[0].node)
                            ELSE IF n = next THEN u ELSE l.backward[n]
  BY <1>1
<1>15. \A i \in 0..(height - 1) :
          r.levels[u][i] = [forward |-> Cut(l, p, i, t), span |-> Span(l, p, i, t) - (t - p[a(i)])]
  BY <1>9, <1>10, <1>12
<1>16. r.tail = TailAfter(l, Cut(l, p, 0, t), u)
       /\ \A n \in Uid :
            r.backward[n] = IF n = u THEN (IF a(0) = Header THEN Nil ELSE a(0))
                            ELSE IF n = Cut(l, p, 0, t) THEN u ELSE l.backward[n]
  BY <1>8, <1>14
<1>17. \A n \in Node \ {u} : DOMAIN r.levels[n] = DOMAIN l.levels[n]
  BY <1>11
<1> HIDE DEF r
<1>18. Inserted(l, p, t, e, height, r)
  BY <1>3, <1>10, <1>13, <1>14, <1>15, <1>16, <1>17 DEF Inserted
<1> QED
  BY <1>18 DEF r
\* What follows the place: the next node of the level, that far away.
LEMMA CutIs ==
  ASSUME NEW l, NEW p, Whole(l, p), NEW i \in 0..(MaxLevel - 1), NEW t \in 0..l.length
  PROVE  LET f == Cut(l, p, i, t) IN
         /\ f \in Uid \cup {Nil} /\ Span(l, p, i, t) \in Int
         /\ f # Nil => f \in Tall(l, i) /\ f \in Listed(l) /\ t < p[f]
         /\ Span(l, p, i, t) = Far(l, p, f) - p[Last(l, p, i, t)]
         /\ \A m \in Tall(l, i) : t < p[m] => f # Nil /\ p[f] <= p[m]
<1> DEFINE a == Last(l, p, i, t)
           f == Cut(l, p, i, t)
<1>1. /\ l.length \in Nat /\ p[Header] = 0 /\ l.level \in Nat
      /\ \A m \in Tall(l, i) : p[m] \in 0..l.length /\ m \in Nodes(l)
      /\ \A m \in Listed(l) : p[m] \in 1..l.length
  BY ListFacts
<1>2. a \in Tall(l, i) /\ p[a] <= t /\ \A m \in Tall(l, i) : p[m] <= t => p[m] <= p[a]
  BY LastIs
<1>3. f = l.levels[a][i].forward
  BY DEF Cut
<1>4. l.levels[a][i] \in Link
  BY <1>2 DEF Tall, Whole, Shaped
<1>5. CASE i < l.level
  <2>1. i \in 0..(l.level - 1) /\ Span(l, p, i, t) = l.levels[a][i].span
    BY <1>1, <1>5 DEF Span
  <2>2. LinkOK(l, p, a, i)
    BY <1>2, <2>1 DEF Whole, Leveled
  <2> HIDE DEF a, f
  <2>3. /\ f # Nil => f \in Tall(l, i) /\ p[a] < p[f]
        /\ Span(l, p, i, t) = Far(l, p, f) - p[a]
        /\ \A m \in Tall(l, i) : p[a] < p[m] => f # Nil /\ p[f] <= p[m]
    BY <1>3, <2>1, <2>2 DEF LinkOK
  <2>4. f # Nil => f \in Listed(l) /\ t < p[f]
    <3> SUFFICES ASSUME f # Nil PROVE f \in Listed(l) /\ t < p[f]
      OBVIOUS
    <3>1. f \in Tall(l, i) /\ p[a] < p[f] /\ f \in Nodes(l) /\ p[f] \in 0..l.length
      BY <1>1, <2>3
    <3>2. f # Header
      BY <1>1, <1>2, <3>1
    <3>3. t < p[f]
      BY <1>1, <1>2, <3>1
    <3> QED
      BY <3>1, <3>2, <3>3 DEF Nodes
  <2>5. \A m \in Tall(l, i) : t < p[m] => p[a] < p[m]
    BY <1>1, <1>2
  <2>6. f \in Uid \cup {Nil} /\ Span(l, p, i, t) \in Int
    BY <1>3, <1>4, <2>1 DEF Link
  <2> QED
    BY <2>3, <2>4, <2>5, <2>6 DEF a, f
<1>6. CASE ~(i < l.level)
  <2>1. i \in l.level..(MaxLevel - 1) /\ Span(l, p, i, t) = l.length
    BY <1>1, <1>6 DEF Span
  <2>2. Tall(l, i) = {Header} /\ a = Header /\ l.levels[Header][i].forward = Nil
    BY <2>1, AboveTop
  <2> HIDE DEF a, f
  <2>3. f = Nil /\ Far(l, p, f) = l.length
    BY <1>3, <2>2 DEF Far
  <2> QED
    BY <1>1, <2>1, <2>2, <2>3 DEF a, f
<1> QED
  BY <1>5, <1>6

\* The numbers once u stands behind the first t nodes.
Widened(l, p, t, u) ==
  [n \in Nodes(l) \cup {u} |-> IF n = u THEN t + 1 ELSE IF p[n] <= t THEN p[n] ELSE p[n] + 1]

LEMMA InsertedNodes ==
  ASSUME NEW l, NEW p, Whole(l, p), NEW e \in Entry, e[0] \notin Listed(l),
         NEW t, Before(l, p, e, t), NEW height \in 1..MaxLevel, NEW r,
         Inserted(l, p, t, e, height, r)
  PROVE  LET u == e[0] IN
         /\ u \in Uid /\ u \notin Nodes(l) /\ u # Nil
         /\ Listed(r) = Listed(l) \cup {u} /\ Nodes(r) = Nodes(l) \cup {u}
         /\ \A i \in Nat : i < height => Tall(r, i) = Tall(l, i) \cup {u}
         /\ \A i \in Nat : ~(i < height) => Tall(r, i) = Tall(l, i)
<1> DEFINE u == e[0]
<1>1. u \in Uid /\ u \notin Nodes(l) /\ u # Nil /\ u \in Node
  BY ListFacts, RankAssumption DEF Entry, Nodes, Node, Nil
<1>2. DOMAIN r.levels[u] = 0..(height - 1) /\ \A n \in Node \ {u} : DOMAIN r.levels[n] = DOMAIN l.levels[n]
  BY DEF Inserted
<1>3. 0 \in 0..(height - 1) /\ height \in Int
  BY RankAssumption
<1> HIDE DEF u
<1>4. \A n \in Uid : Has(r, n) <=> (Has(l, n) \/ n = u)
  BY <1>2, <1>3 DEF Has, Node
<1>5. Listed(r) = Listed(l) \cup {u}
  BY <1>1, <1>4 DEF Listed
<1>6. Nodes(r) = Nodes(l) \cup {u}
  BY <1>5 DEF Nodes
<1>7. Nodes(l) \subseteq Node \ {u}
  BY <1>1, ListFacts
<1>8. \A i \in Nat : u \in Tall(r, i) <=> i < height
  BY <1>2, <1>3, <1>6 DEF Tall
<1>9. \A i, n : n # u => (n \in Tall(r, i) <=> n \in Tall(l, i))
  BY <1>2, <1>6, <1>7 DEF Tall
<1>10. \A i : u \notin Tall(l, i)
  BY <1>1 DEF Tall
<1>11. \A i \in Nat : i < height => Tall(r, i) = Tall(l, i) \cup {u}
  BY <1>8, <1>9
<1>12. \A i \in Nat : ~(i < height) => Tall(r, i) = Tall(l, i)
  BY <1>8, <1>9, <1>10
<1> QED
  BY <1>1, <1>5, <1>6, <1>11, <1>12 DEF u

LEMMA InsertedShaped ==
  ASSUME NEW l, NEW p, Whole(l, p), NEW e \in Entry, e[0] \notin Listed(l),
         NEW t, Before(l, p, e, t), NEW height \in 1..MaxLevel, NEW r,
         Inserted(l, p, t, e, height, r)
  PROVE  Shaped(r)
<1> DEFINE u == e[0]
<1>1. /\ u \in Uid /\ u \notin Nodes(l) /\ u # Nil
      /\ Listed(r) = Listed(l) \cup {u} /\ Nodes(r) = Nodes(l) \cup {u}
  BY InsertedNodes
<1>2. /\ l.level \in 1..MaxLevel /\ MaxLevel \in Nat /\ l.length \in Nat /\ t \in 0..l.length
      /\ IsFiniteSet(Listed(l)) /\ Nodes(l) \subseteq Node /\ Listed(l) \subseteq Nodes(l)
      /\ Header \in Nodes(l) /\ \A n \in Nodes(l) : p[n] \in Int
  BY ListFacts DEF Before, Nodes
<1>3. /\ r.level \in 1..MaxLevel /\ l.level <= r.level /\ height <= r.level
      /\ r.length = l.length + 1 /\ r.uaks = [l.uaks EXCEPT ![u] = e]
      /\ DOMAIN r.levels[u] = 0..(height - 1)
      /\ \A n \in Node \ {u} : DOMAIN r.levels[n] = DOMAIN l.levels[n]
  BY DEF Inserted
<1>4. r.length = Cardinality(Listed(r))
  <2>1. u \notin Listed(l) /\ l.length = Cardinality(Listed(l))
    BY <1>1, <1>2 DEF Whole, Shaped
  <2> HIDE DEF u
  <2>2. Cardinality(Listed(l) \cup {u}) = Cardinality(Listed(l)) + 1
    BY <1>2, <2>1, FS_AddElement
  <2> QED
    BY <1>1, <1>3, <2>1, <2>2
<1>5. DOMAIN r.levels[Header] = 0..(MaxLevel - 1)
  BY <1>1, <1>2, <1>3 DEF Whole, Shaped
<1>6. ASSUME NEW n \in Listed(r) PROVE \E h \in 1..r.level : DOMAIN r.levels[n] = 0..(h - 1)
  <2>1. CASE n = u
    <3>1. height \in 1..r.level
      BY <1>2, <1>3
    <3> QED
      BY <1>3, <2>1, <3>1
  <2>2. CASE n # u
    <3>1. n \in Listed(l) /\ n \in Node \ {u}
      BY <1>1, <1>2, <2>2
    <3>2. PICK h \in 1..l.level : DOMAIN l.levels[n] = 0..(h - 1)
      BY <3>1 DEF Whole, Shaped
    <3>3. h \in 1..r.level
      BY <1>2, <1>3
    <3> QED
      BY <1>3, <3>1, <3>2, <3>3
  <2> QED
    BY <2>1, <2>2
<1>7. ASSUME NEW n \in Nodes(r), NEW i \in DOMAIN r.levels[n] PROVE r.levels[n][i] \in Link
  <2>1. i \in 0..(MaxLevel - 1)
    <3>1. CASE n = Header
      BY <1>5, <3>1
    <3>2. CASE n # Header
      <4>1. n \in Listed(r)
        BY <3>2 DEF Nodes
      <4> QED
        BY <1>2, <1>3, <1>6, <4>1
    <3> QED
      BY <3>1, <3>2
  <2>2. Cut(l, p, i, t) \in Uid \cup {Nil} /\ Span(l, p, i, t) \in Int
        /\ Last(l, p, i, t) \in Nodes(l)
    BY <1>2, <2>1, CutIs, LastIs DEF Tall
  <2>3. CASE n = u
    <3>1. r.levels[n][i] = [forward |-> Cut(l, p, i, t),
                            span |-> Span(l, p, i, t) - (t - p[Last(l, p, i, t)])]
      BY <1>3, <2>3 DEF Inserted
    <3> QED
      BY <1>2, <2>2, <3>1 DEF Link
  <2>4. CASE n # u
    <3>1. n \in Nodes(l) /\ i \in DOMAIN l.levels[n]
      BY <1>1, <1>2, <1>3, <2>4
    <3>2. \/ r.levels[n][i] = [forward |-> u, span |-> t - p[n] + 1]
          \/ r.levels[n][i] = [forward |-> Cut(l, p, i, t), span |-> Span(l, p, i, t) + 1]
          \/ r.levels[n][i] = l.levels[n][i]
      <4>1. r.levels[n][i] = IF i < r.level /\ n = Last(l, p, i, t)
                             THEN IF i < height THEN [forward |-> u, span |-> t - p[n] + 1]
                                  ELSE [forward |-> Cut(l, p, i, t), span |-> Span(l, p, i, t) + 1]
                             ELSE l.levels[n][i]
        BY <3>1 DEF Inserted
      <4> QED
        BY <4>1
    <3>3. l.levels[n][i] \in Link
      BY <3>1 DEF Whole, Shaped
    <3> QED
      BY <1>1, <1>2, <2>2, <3>1, <3>2, <3>3 DEF Link
  <2> QED
    BY <2>3, <2>4
<1>8. r.uaks \in [Uid -> Entry \cup {<<>>}] /\ \A n \in Listed(r) : r.uaks[n] \in Entry /\ r.uaks[n][0] = n
  <2>1. l.uaks \in [Uid -> Entry \cup {<<>>}]
        /\ \A n \in Listed(l) : l.uaks[n] \in Entry /\ l.uaks[n][0] = n
    BY DEF Whole, Shaped
  <2> DEFINE fu == l.uaks
             gu == r.uaks
  <2>2. gu = [fu EXCEPT ![u] = e] /\ fu \in [Uid -> Entry \cup {<<>>}]
    BY <1>3, <2>1
  <2>3. \A n \in Listed(l) : fu[n] \in Entry /\ fu[n][0] = n
    BY <2>1
  <2>4. u \in Uid /\ e[0] = u /\ \A n \in Listed(r) : n \in Uid /\ (n # u => n \in Listed(l))
    BY <1>1 DEF Listed
  <2> HIDE DEF fu, gu, u
  <2>5. gu \in [Uid -> Entry \cup {<<>>}] /\ gu[u] = e /\ \A n \in Uid \ {u} : gu[n] = fu[n]
    BY <2>2, <2>4
  <2>6. \A n \in Listed(r) : gu[n] \in Entry /\ gu[n][0] = n
    BY <2>3, <2>4, <2>5
  <2> QED
    BY <2>5, <2>6 DEF gu
<1> QED
  BY <1>3, <1>4, <1>5, <1>6, <1>7, <1>8 DEF Shaped
LEMMA WidenedFacts ==
  ASSUME NEW l, NEW p, Whole(l, p), NEW t \in 0..l.length, NEW u, u \notin Nodes(l)
  PROVE  LET q == Widened(l, p, t, u) IN
         /\ q[u] = t + 1
         /\ \A n \in Nodes(l) : q[n] = IF p[n] <= t THEN p[n] ELSE p[n] + 1
         /\ q \in [Nodes(l) \cup {u} -> 0..(l.length + 1)]
<1>1. l.length \in Nat /\ \A n \in Nodes(l) : p[n] \in 0..l.length
  BY ListFacts
<1> QED
  BY <1>1 DEF Widened

LEMMA InsertedNumbers ==
  ASSUME NEW l, NEW p, Whole(l, p), NEW e \in Entry, e[0] \notin Listed(l),
         NEW t, Before(l, p, e, t), NEW height \in 1..MaxLevel, NEW r,
         Inserted(l, p, t, e, height, r)
  PROVE  LET q == Widened(l, p, t, e[0]) IN Numbers(r, q) /\ Sorted(r, q)
<1> DEFINE u == e[0]
           q == Widened(l, p, t, u)
<1>1. /\ u \in Uid /\ u \notin Nodes(l) /\ Listed(r) = Listed(l) \cup {u} /\ Nodes(r) = Nodes(l) \cup {u}
  BY InsertedNodes
<1>2. /\ l.length \in Nat /\ t \in 0..l.length /\ p[Header] = 0 /\ Header \in Nodes(l)
      /\ \A n \in Nodes(l) : p[n] \in 0..l.length
      /\ Listed(l) \subseteq Uid /\ Listed(l) \subseteq Nodes(l)
  BY ListFacts DEF Before, Nodes
<1>3. r.length = l.length + 1 /\ r.uaks = [l.uaks EXCEPT ![u] = e]
  BY DEF Inserted
<1>4. /\ q[u] = t + 1
      /\ \A n \in Nodes(l) : q[n] = IF p[n] <= t THEN p[n] ELSE p[n] + 1
      /\ q \in [Nodes(l) \cup {u} -> 0..(l.length + 1)]
  BY <1>1, <1>2, WidenedFacts
<1>5. \A m, n \in Nodes(l) : (p[m] = p[n] => m = n)
  BY DEF Whole, Numbers
<1>6. \A i \in 0..l.length : \E n \in Nodes(l) : p[n] = i
  BY DEF Whole, Numbers
<1> HIDE DEF q, u
<1>7. Numbers(r, q)
  <2>1. q \in [Nodes(r) -> 0..r.length] /\ q[Header] = 0
    BY <1>1, <1>2, <1>3, <1>4
  <2>2. ASSUME NEW m \in Nodes(r), NEW n \in Nodes(r), q[m] = q[n] PROVE m = n
    BY <1>1, <1>2, <1>4, <1>5, <2>2
  <2>3. ASSUME NEW i \in 0..r.length PROVE \E n \in Nodes(r) : q[n] = i
    <3>1. CASE i <= t
      <4>1. i \in 0..l.length
        BY <1>2, <1>3, <3>1
      <4> QED
        BY <1>1, <1>4, <1>6, <3>1, <4>1
    <3>2. CASE i = t + 1
      BY <1>1, <1>4, <3>2
    <3>3. CASE i > t + 1
      <4>1. i - 1 \in 0..l.length
        BY <1>2, <1>3, <3>3
      <4>2. PICK n \in Nodes(l) : p[n] = i - 1
        BY <1>6, <4>1
      <4>3. ~(p[n] <= t) /\ p[n] + 1 = i
        BY <1>2, <3>3, <4>2
      <4> QED
        BY <1>1, <1>4, <4>3
    <3> QED
      BY <1>2, <3>1, <3>2, <3>3
  <2> QED
    BY <2>1, <2>2, <2>3 DEF Numbers
<1>8. ASSUME NEW m \in Listed(r), NEW n \in Listed(r), q[m] < q[n]
      PROVE  CompUaks(Order, r.uaks[m], r.uaks[n])
  <2>1. l.uaks \in [Uid -> Entry \cup {<<>>}]
        /\ \A k \in Listed(l) : l.uaks[k] \in Entry /\ l.uaks[k][0] = k
    BY DEF Whole, Shaped
  <2>2. r.uaks[u] = e /\ \A k \in Listed(l) : r.uaks[k] = l.uaks[k]
    BY <1>1, <1>2, <1>3, <2>1
  <2>3. \A k \in Listed(l) : CompUaks(Order, l.uaks[k], e) <=> p[k] <= t
    BY DEF Before
  <2>4. CASE m \in Listed(l) /\ n \in Listed(l)
    <3>1. p[m] < p[n]
      BY <1>2, <1>4, <1>8, <2>4
    <3> QED
      BY <2>2, <2>4, <3>1 DEF Whole, Sorted
  <2>5. CASE m = u /\ n \in Listed(l)
    <3>1. ~(p[n] <= t)
      BY <1>2, <1>4, <1>8, <2>5
    <3>2. ~CompUaks(Order, l.uaks[n], e)
      BY <2>3, <2>5, <3>1
    <3>3. l.uaks[n][0] # e[0] /\ l.uaks[n] \in Entry
      BY <2>1, <2>5
    <3> QED
      BY <2>2, <2>5, <3>2, <3>3, EntryOrder
  <2>6. CASE m \in Listed(l) /\ n = u
    <3>1. p[m] <= t
      BY <1>2, <1>4, <1>8, <2>6
    <3> QED
      BY <2>2, <2>3, <2>6, <3>1
  <2>7. ~(m = u /\ n = u)
    BY <1>2, <1>4, <1>8
  <2> QED
    BY <1>1, <2>4, <2>5, <2>6, <2>7
<1>9. Sorted(r, q)
  BY <1>8 DEF Sorted
<1> QED
  BY <1>7, <1>9 DEF q, u

LEMMA InsertedLevels ==
  ASSUME NEW l, NEW p, Whole(l, p), NEW e \in Entry, e[0] \notin Listed(l),
         NEW t, Before(l, p, e, t), NEW height \in 1..MaxLevel, NEW r,
         Inserted(l, p, t, e, height, r)
  PROVE  Leveled(r, Widened(l, p, t, e[0]))
<1> DEFINE u == e[0]
           q == Widened(l, p, t, u)
<1>1. /\ u \notin Nodes(l) /\ u # Nil /\ Nodes(r) = Nodes(l) \cup {u}
      /\ \A i \in Nat : i < height => Tall(r, i) = Tall(l, i) \cup {u}
      /\ \A i \in Nat : ~(i < height) => Tall(r, i) = Tall(l, i)
  BY InsertedNodes
<1>2. /\ l.length \in Nat /\ t \in 0..l.length /\ p[Header] = 0 /\ l.level \in 1..MaxLevel
      /\ MaxLevel \in Nat /\ Header \notin Uid /\ Nil \notin Node /\ Nodes(l) \subseteq Node
      /\ \A n \in Nodes(l) : p[n] \in 0..l.length
      /\ \A i : Tall(l, i) \subseteq Nodes(l)
      /\ \A i \in 0..(MaxLevel - 1) : Header \in Tall(l, i)
  BY ListFacts DEF Before
<1>3. r.length = l.length + 1 /\ r.level \in 1..MaxLevel /\ l.level <= r.level /\ height <= r.level
      /\ (r.level = l.level \/ r.level = height)
  BY DEF Inserted
<1>4. q[u] = t + 1 /\ \A n \in Nodes(l) : q[n] = IF p[n] <= t THEN p[n] ELSE p[n] + 1
  BY <1>1, <1>2, WidenedFacts
<1> HIDE DEF q, u
<1>5. ASSUME NEW i \in 0..(r.level - 1), NEW n \in Tall(r, i) PROVE LinkOK(r, q, n, i)
  <2> DEFINE a == Last(l, p, i, t)
             f == Cut(l, p, i, t)
             s == Span(l, p, i, t)
             link == r.levels[n][i]
  <2>1. i \in 0..(MaxLevel - 1) /\ i \in Nat /\ i < r.level /\ (i < height => i \in 0..(height - 1))
    BY <1>2, <1>3
  <2>2. a \in Tall(l, i) /\ p[a] <= t /\ \A m \in Tall(l, i) : p[m] <= t => p[m] <= p[a]
    BY <1>2, <2>1, LastIs
  <2>3. /\ f # Nil => f \in Tall(l, i) /\ t < p[f]
        /\ s = Far(l, p, f) - p[a] /\ s \in Int
        /\ \A m \in Tall(l, i) : t < p[m] => f # Nil /\ p[f] <= p[m]
    BY <1>2, <2>1, CutIs
  <2>4. /\ n \in Tall(l, i) \/ (n = u /\ i < height)
        /\ Tall(l, i) \subseteq Tall(r, i)
        /\ i < height => u \in Tall(r, i)
        /\ \A m \in Tall(r, i) : m \in Tall(l, i) \/ (m = u /\ i < height)
    BY <1>1, <2>1
  <2>5. n = u => link = [forward |-> f, span |-> s - (t - p[a])]
    BY <1>2, <1>1, <2>1, <2>4 DEF Inserted, u
  <2>6. n \in Tall(l, i) =>
          link = IF n = a THEN IF i < height THEN [forward |-> u, span |-> t - p[n] + 1]
                               ELSE [forward |-> f, span |-> s + 1]
                 ELSE l.levels[n][i]
    <3> SUFFICES ASSUME n \in Tall(l, i)
                 PROVE  link = IF n = a THEN IF i < height THEN [forward |-> u, span |-> t - p[n] + 1]
                                             ELSE [forward |-> f, span |-> s + 1]
                               ELSE l.levels[n][i]
      OBVIOUS
    <3>1. n \in Nodes(l) /\ i \in DOMAIN l.levels[n]
      BY DEF Tall
    <3>2. link = IF i < r.level /\ n = a
                 THEN IF i < height THEN [forward |-> e[0], span |-> t - p[n] + 1]
                      ELSE [forward |-> f, span |-> s + 1]
                 ELSE l.levels[n][i]
      BY <3>1 DEF Inserted
    <3> QED
      BY <2>1, <3>2 DEF u
  <2>7. SUFFICES /\ link.forward # Nil => link.forward \in Tall(r, i) /\ q[n] < q[link.forward]
                 /\ link.span = Far(r, q, link.forward) - q[n]
                 /\ \A m \in Tall(r, i) :
                      q[n] < q[m] => link.forward # Nil /\ q[link.forward] <= q[m]
    BY DEF LinkOK
  <2> HIDE DEF a, f, s, link
  <2>8. \A m \in Tall(l, i) : p[m] \in 0..l.length /\ m # u
                              /\ q[m] = IF p[m] <= t THEN p[m] ELSE p[m] + 1
    BY <1>1, <1>2, <1>4
  <2>9. Far(r, q, f) = Far(l, p, f) + 1 /\ Far(l, p, f) \in Int
    <3>1. CASE f = Nil
      BY <1>2, <1>3, <3>1 DEF Far
    <3>2. CASE f # Nil
      <4>1. q[f] = p[f] + 1 /\ p[f] \in Int
        BY <1>2, <2>3, <2>8, <3>2
      <4> QED
        BY <3>2, <4>1 DEF Far
    <3> QED
      BY <3>1, <3>2
  <2>10. CASE n = u
    <3>1. link.forward = f /\ link.span = s - (t - p[a]) /\ i < height
      BY <2>5, <2>8, <2>10, <2>4
    <3>2. link.span = Far(r, q, f) - q[n]
      BY <1>2, <1>4, <2>2, <2>3, <2>8, <2>9, <2>10, <3>1
    <3>3. f # Nil => f \in Tall(r, i) /\ q[n] < q[f]
      BY <1>2, <1>4, <2>3, <2>4, <2>8, <2>10
    <3>4. ASSUME NEW m \in Tall(r, i), q[n] < q[m] PROVE f # Nil /\ q[f] <= q[m]
      <4>1. m \in Tall(l, i)
        BY <1>2, <1>4, <2>4, <2>10, <3>4
      <4>2. t < p[m]
        BY <1>2, <1>4, <2>8, <2>10, <3>4, <4>1
      <4> QED
        BY <1>2, <2>3, <2>8, <4>1, <4>2
    <3> QED
      BY <3>1, <3>2, <3>3, <3>4
  <2>11. CASE n = a /\ i < height
    <3>1. link.forward = u /\ link.span = t - p[n] + 1
      BY <2>2, <2>6, <2>11
    <3>2. q[n] = p[n] /\ p[n] \in Int /\ p[n] <= t
      BY <2>2, <2>8, <2>11
    <3>3. u \in Tall(r, i) /\ q[n] < q[u] /\ link.span = Far(r, q, u) - q[n]
      BY <1>1, <1>2, <1>4, <2>4, <2>11, <3>1, <3>2 DEF Far
    <3>4. ASSUME NEW m \in Tall(r, i), q[n] < q[m] PROVE q[u] <= q[m]
      <4>1. CASE m = u
        BY <1>2, <1>4, <4>1
      <4>2. CASE m \in Tall(l, i)
        <5>1. ~(p[m] <= t)
          BY <2>2, <2>8, <2>11, <3>2, <3>4, <4>2
        <5> QED
          BY <1>2, <1>4, <2>8, <4>2, <5>1
      <4> QED
        BY <2>4, <4>1, <4>2
    <3> QED
      BY <1>1, <3>1, <3>3, <3>4
  <2>12. CASE n = a /\ ~(i < height)
    <3>1. link.forward = f /\ link.span = s + 1
      BY <2>2, <2>6, <2>12
    <3>2. q[n] = p[n] /\ p[n] \in Int /\ p[n] <= t
      BY <2>2, <2>8, <2>12
    <3>3. link.span = Far(r, q, f) - q[n]
      BY <1>2, <2>3, <2>9, <2>12, <3>1, <3>2
    <3>4. f # Nil => f \in Tall(r, i) /\ q[n] < q[f]
      BY <1>2, <2>3, <2>4, <2>8, <3>2
    <3>5. ASSUME NEW m \in Tall(r, i), q[n] < q[m] PROVE f # Nil /\ q[f] <= q[m]
      <4>1. m \in Tall(l, i)
        BY <2>4, <2>12
      <4>2. t < p[m]
        BY <1>2, <2>2, <2>8, <2>12, <3>2, <3>5, <4>1
      <4> QED
        BY <1>2, <2>3, <2>8, <4>1, <4>2
    <3> QED
      BY <3>1, <3>3, <3>4, <3>5
  <2>13. CASE n # a /\ n # u
    <3>1. n \in Tall(l, i) /\ link = l.levels[n][i]
      BY <2>4, <2>6, <2>13
    <3>2. i \in 0..(l.level - 1)
      <4> SUFFICES ASSUME ~(i \in 0..(l.level - 1)) PROVE FALSE
        OBVIOUS
      <4>1. i \in l.level..(MaxLevel - 1)
        BY <1>2, <2>1
      <4>2. Tall(l, i) = {Header}
        BY <1>2, <4>1, AboveTop
      <4> QED
        BY <2>2, <2>13, <3>1, <4>2
    <3> DEFINE g == link.forward
    <3>3. LinkOK(l, p, n, i)
      BY <3>1, <3>2 DEF Whole, Leveled
    <3>4. /\ g # Nil => g \in Tall(l, i) /\ p[n] < p[g]
          /\ link.span = Far(l, p, g) - p[n]
          /\ \A m \in Tall(l, i) : p[n] < p[m] => g # Nil /\ p[g] <= p[m]
      BY <3>1, <3>3 DEF LinkOK
    <3>5. p[n] # p[a] /\ a \in Nodes(l) /\ n \in Nodes(l)
      BY <1>2, <2>2, <2>13, <3>1 DEF Whole, Numbers
    <3> HIDE DEF g
    <3>6. CASE p[n] <= t
      <4>1. g # Nil /\ p[g] <= p[a] /\ p[g] <= t /\ g \in Tall(l, i) /\ p[n] < p[g]
        BY <1>2, <2>2, <2>8, <3>1, <3>4, <3>5, <3>6
      <4>2. q[n] = p[n] /\ q[g] = p[g] /\ p[g] \in Int
        BY <2>8, <3>1, <3>6, <4>1
      <4>3. link.span = Far(r, q, g) - q[n]
        BY <3>4, <4>1, <4>2 DEF Far
      <4>4. ASSUME NEW m \in Tall(r, i), q[n] < q[m] PROVE q[g] <= q[m]
        <5>1. CASE m = u
          BY <1>2, <1>4, <4>1, <4>2, <5>1
        <5>2. CASE m \in Tall(l, i)
          <6>1. p[n] < p[m]
            BY <1>2, <2>8, <3>1, <3>6, <4>2, <4>4, <5>2
          <6> QED
            BY <1>2, <2>8, <3>4, <4>2, <5>2, <6>1
        <5> QED
          BY <2>4, <5>1, <5>2
      <4> QED
        BY <2>4, <4>1, <4>2, <4>3, <4>4 DEF g
    <3>7. CASE ~(p[n] <= t)
      <4>1. q[n] = p[n] + 1 /\ p[n] \in 0..l.length /\ t < p[n]
        BY <1>2, <2>8, <3>1, <3>7
      <4>2. g # Nil => g \in Tall(l, i) /\ q[g] = p[g] + 1 /\ p[g] \in Int /\ p[n] < p[g]
        BY <1>2, <2>8, <3>4, <4>1
      <4>3. link.span = Far(r, q, g) - q[n]
        BY <1>2, <1>3, <3>4, <4>1, <4>2 DEF Far
      <4>4. ASSUME NEW m \in Tall(r, i), q[n] < q[m] PROVE g # Nil /\ q[g] <= q[m]
        <5>1. m # u
          BY <1>2, <1>4, <4>1, <4>4
        <5>2. m \in Tall(l, i) /\ p[n] < p[m]
          BY <1>2, <2>4, <2>8, <4>1, <4>4, <5>1
        <5>3. q[m] = p[m] + 1
          BY <1>2, <2>8, <4>1, <5>2
        <5> QED
          BY <1>2, <2>8, <3>4, <4>2, <5>2, <5>3
      <4> QED
        BY <1>2, <2>4, <4>1, <4>2, <4>3, <4>4 DEF g
    <3> QED
      BY <3>6, <3>7
  <2> QED
    BY <2>10, <2>11, <2>12, <2>13
<1>6. ASSUME NEW i \in r.level..(MaxLevel - 1) PROVE r.levels[Header][i].forward = Nil
  <2>1. i \in l.level..(MaxLevel - 1) /\ ~(i < r.level) /\ i \in 0..(MaxLevel - 1)
    BY <1>2, <1>3
  <2>2. Header \in Tall(l, i)
    BY <1>2, <2>1
  <2>3. r.levels[Header][i] = l.levels[Header][i]
    BY <2>1, <2>2 DEF Inserted, Tall
  <2> QED
    BY <1>2, <2>1, <2>3, AboveTop
<1> QED
  BY <1>5, <1>6 DEF Leveled, q, u
LEMMA InsertedBack ==
  ASSUME NEW l, NEW p, Whole(l, p), NEW e \in Entry, e[0] \notin Listed(l),
         NEW t, Before(l, p, e, t), NEW height \in 1..MaxLevel, NEW r,
         Inserted(l, p, t, e, height, r)
  PROVE  Returning(r, Widened(l, p, t, e[0]))
<1> DEFINE u == e[0]
           q == Widened(l, p, t, u)
           a == Last(l, p, 0, t)
           f == Cut(l, p, 0, t)
<1>1. /\ u \in Uid /\ u \notin Nodes(l) /\ u # Nil /\ Listed(r) = Listed(l) \cup {u}
  BY InsertedNodes
<1>2. /\ l.length \in Nat /\ t \in 0..l.length /\ p[Header] = 0 /\ 0 \in 0..(MaxLevel - 1)
      /\ Header \notin Uid /\ Nil \notin Uid /\ Header \in Nodes(l)
      /\ Listed(l) \subseteq Nodes(l) /\ Listed(l) \subseteq Uid
      /\ \A n \in Listed(l) : p[n] \in 1..l.length /\ n \in Tall(l, 0)
      /\ Tall(l, 0) \subseteq Nodes(l)
  BY ListFacts DEF Before, Nodes, Node
<1>3. /\ r.length = l.length + 1 /\ r.tail = IF f = Nil THEN u ELSE l.tail
      /\ \A n \in Uid : r.backward[n] = IF n = u THEN (IF a = Header THEN Nil ELSE a)
                                        ELSE IF n = f THEN u ELSE l.backward[n]
  BY DEF Inserted, TailAfter
<1>4. q[u] = t + 1 /\ \A n \in Nodes(l) : q[n] = IF p[n] <= t THEN p[n] ELSE p[n] + 1
  <2>1. t \in 0..l.length /\ u \notin Nodes(l)
    BY <1>1, <1>2
  <2> HIDE DEF u
  <2>2. /\ q[u] = t + 1
        /\ \A n \in Nodes(l) : q[n] = IF p[n] <= t THEN p[n] ELSE p[n] + 1
        /\ q \in [Nodes(l) \cup {u} -> 0..(l.length + 1)]
    BY <2>1, WidenedFacts
  <2> QED
    BY <2>2
<1>5. p[a] = t /\ a \in Nodes(l)
  BY <1>2, LowestIs, LastIs
<1>6. /\ f # Nil => f \in Listed(l) /\ t < p[f]
      /\ \A m \in Listed(l) : t < p[m] => f # Nil /\ p[f] <= p[m]
  BY <1>2, CutIs
<1>7. \A i \in 1..l.length : \E n \in Listed(l) : p[n] = i
  BY <1>2 DEF Whole, Numbers, Nodes
<1>8. \A m, n \in Nodes(l) : p[m] = p[n] => m = n
  BY DEF Whole, Numbers
<1>9. /\ \A n \in Listed(l) :
           IF p[n] = 1 THEN l.backward[n] = Nil
           ELSE l.backward[n] \in Listed(l) /\ p[l.backward[n]] = p[n] - 1
      /\ IF l.length = 0 THEN l.tail = Nil ELSE l.tail \in Listed(l) /\ p[l.tail] = l.length
  BY DEF Whole, Returning
<1> HIDE DEF u, q, a, f
<1>10. IF f = Nil THEN t = l.length ELSE p[f] = t + 1 /\ t < l.length
  <2>1. CASE t < l.length
    <3>1. t + 1 \in 1..l.length
      BY <1>2, <2>1
    <3>2. PICK m \in Listed(l) : p[m] = t + 1
      BY <1>7, <3>1
    <3>3. f # Nil /\ p[f] <= t + 1 /\ t < p[f] /\ f \in Listed(l)
      BY <1>2, <1>6, <3>2
    <3> QED
      BY <1>2, <2>1, <3>3
  <2>2. CASE t = l.length
    <3>1. f = Nil
      BY <1>2, <1>6, <2>2
    <3> QED
      BY <2>2, <3>1
  <2> QED
    BY <1>2, <2>1, <2>2
<1>11. ASSUME NEW n \in Listed(r)
       PROVE  IF q[n] = 1 THEN r.backward[n] = Nil
              ELSE r.backward[n] \in Listed(r) /\ q[r.backward[n]] = q[n] - 1
  <2>1. CASE n = u
    <3>1. r.backward[n] = IF a = Header THEN Nil ELSE a
      BY <1>1, <1>3, <2>1
    <3>2. a = Header <=> t = 0
      BY <1>2, <1>5, <1>8
    <3>3. q[a] = t /\ (a # Header => a \in Listed(l))
      BY <1>2, <1>4, <1>5 DEF Nodes
    <3> QED
      BY <1>1, <1>2, <1>4, <2>1, <3>1, <3>2, <3>3
  <2>2. CASE n # u /\ n = f
    <3>1. r.backward[n] = u /\ n \in Listed(l)
      BY <1>1, <1>2, <1>3, <2>2
    <3>2. f # Nil /\ p[n] = t + 1 /\ q[n] = t + 2
      BY <1>2, <1>4, <1>10, <2>2, <3>1
    <3> QED
      BY <1>1, <1>2, <1>4, <3>1, <3>2
  <2>3. CASE n # u /\ n # f
    <3>1. n \in Listed(l) /\ r.backward[n] = l.backward[n] /\ p[n] \in 1..l.length
      BY <1>1, <1>2, <1>3, <2>3
    <3> DEFINE b == l.backward[n]
    <3>2. IF p[n] = 1 THEN b = Nil ELSE b \in Listed(l) /\ p[b] = p[n] - 1
      BY <1>9, <3>1
    <3> HIDE DEF b
    <3>3. p[n] # t + 1
      <4>1. CASE f = Nil
        BY <1>2, <1>10, <3>1, <4>1
      <4>2. CASE f # Nil
        BY <1>2, <1>6, <1>8, <1>10, <2>3, <3>1, <4>2
      <4> QED
        BY <4>1, <4>2
    <3>4. q[n] = IF p[n] <= t THEN p[n] ELSE p[n] + 1
      BY <1>2, <1>4, <3>1
    <3>5. b \in Listed(l) => q[b] = IF p[b] <= t THEN p[b] ELSE p[b] + 1
      BY <1>2, <1>4
    <3>6. IF q[n] = 1 THEN b = Nil ELSE b \in Listed(l) /\ q[b] = q[n] - 1
      BY <1>2, <3>1, <3>2, <3>3, <3>4, <3>5
    <3> QED
      BY <1>1, <3>1, <3>6 DEF b
  <2> QED
    BY <2>1, <2>2, <2>3
<1>12. r.length # 0 /\ r.tail \in Listed(r) /\ q[r.tail] = r.length
  <2>1. CASE f = Nil
    BY <1>1, <1>2, <1>3, <1>4, <1>10, <2>1
  <2>2. CASE f # Nil
    <3>1. l.length # 0 /\ t < l.length
      BY <1>2, <1>10, <2>2
    <3>2. l.tail \in Listed(l) /\ p[l.tail] = l.length
      BY <1>9, <3>1
    <3> QED
      BY <1>1, <1>2, <1>3, <1>4, <2>2, <3>1, <3>2
  <2> QED
    BY <2>1, <2>2
<1> QED
  BY <1>11, <1>12 DEF Returning, q, u

\* An insertion keeps the list whole.
LEMMA InsertKeeps ==
  ASSUME NEW l, NEW p, Whole(l, p), NEW e \in Entry, e[0] \notin Listed(l),
         NEW height \in 1..MaxLevel
  PROVE  \E q : Whole(Insert(l, e, height), q)
<1>1. PICK t : Before(l, p, e, t)
  BY NewPlace
<1>2. Inserted(l, p, t, e, height, Insert(l, e, height))
  BY <1>1, InsertIs
<1> DEFINE r == Insert(l, e, height)
           q == Widened(l, p, t, e[0])
<1> HIDE DEF r, q
<1>3. Shaped(r)
  BY <1>1, <1>2, InsertedShaped DEF r
<1>4. Numbers(r, q) /\ Sorted(r, q)
  BY <1>1, <1>2, InsertedNumbers DEF r, q
<1>5. Leveled(r, q)
  BY <1>1, <1>2, InsertedLevels DEF r, q
<1>6. Returning(r, q)
  BY <1>1, <1>2, InsertedBack DEF r, q
<1>7. Whole(r, q)
  BY <1>3, <1>4, <1>5, <1>6 DEF Whole
<1> QED
  BY <1>7 DEF r
-----------------------------------------------------------------------------
(* Deletion.                                                               *)

\* The lowest level links every node to the one of the next number.
LEMMA NextIs ==
  ASSUME NEW l, NEW p, Whole(l, p), NEW n \in Nodes(l)
  PROVE  LET next == l.levels[n][0].forward IN
         IF next = Nil THEN p[n] = l.length
         ELSE next \in Listed(l) /\ p[next] = p[n] + 1
<1> DEFINE next == l.levels[n][0].forward
<1>1. /\ l.length \in Nat /\ p[Header] = 0 /\ l.level \in 1..MaxLevel /\ MaxLevel \in Nat
      /\ \A m \in Nodes(l) : p[m] \in 0..l.length
      /\ \A m \in Listed(l) : p[m] \in 1..l.length /\ m \in Tall(l, 0)
      /\ Tall(l, 0) \subseteq Nodes(l) /\ Header \in Tall(l, 0)
  BY ListFacts
<1>2. 0 \in 0..(l.level - 1) /\ n \in Tall(l, 0)
  BY <1>1 DEF Nodes
<1>3. LinkOK(l, p, n, 0)
  BY <1>2 DEF Whole, Leveled
<1> HIDE DEF next
<1>4. /\ next # Nil => next \in Tall(l, 0) /\ p[n] < p[next]
      /\ \A m \in Tall(l, 0) : p[n] < p[m] => next # Nil /\ p[next] <= p[m]
  BY <1>3 DEF LinkOK, next
<1>5. CASE p[n] < l.length
  <2>1. p[n] + 1 \in 0..l.length
    BY <1>1, <1>5
  <2>2. PICK m \in Nodes(l) : p[m] = p[n] + 1
    BY <2>1 DEF Whole, Numbers
  <2>3. m \in Tall(l, 0) /\ p[n] < p[m]
    BY <1>1, <2>2 DEF Nodes
  <2>4. next # Nil /\ p[next] = p[n] + 1 /\ next \in Nodes(l)
    BY <1>1, <1>4, <2>2, <2>3
  <2>5. next # Header
    BY <1>1, <2>4
  <2> QED
    BY <2>4, <2>5 DEF Nodes, next
<1>6. CASE p[n] = l.length
  <2>1. next = Nil
    BY <1>1, <1>4, <1>6
  <2> QED
    BY <1>6, <2>1 DEF next
<1> QED
  BY <1>1, <1>5, <1>6

Removed(l, p, u, r) ==
  LET a(i) == Last(l, p, i, p[u] - 1)
      mine(i) == IF i \in DOMAIN l.levels[u] THEN l.levels[u][i] ELSE NoLink
      next == l.levels[u][0].forward
  IN
  /\ r.level \in 1..l.level
  /\ \A i \in r.level..(l.level - 1) : r.levels[Header][i].forward = Nil
  /\ r.length = l.length - 1
  /\ r.tail = IF next = Nil THEN l.backward[u] ELSE l.tail
  /\ DOMAIN r.levels[u] = {}
  /\ \A n \in Node \ {u} : DOMAIN r.levels[n] = DOMAIN l.levels[n]
  /\ \A n \in Nodes(l) \ {u} : \A i \in DOMAIN l.levels[n] :
       r.levels[n][i] = IF i < l.level /\ n = a(i) THEN Unlinked(l.levels[n][i], u, mine(i))
                        ELSE l.levels[n][i]
  /\ \A n \in Uid :
       r.backward[n] = IF n = u THEN Nil
                       ELSE IF n = next THEN l.backward[u] ELSE l.backward[n]
  /\ r.uaks = [l.uaks EXCEPT ![u] = <<>>]

LEMMA RemoveIs ==
  ASSUME NEW l, NEW p, Whole(l, p), NEW u \in Listed(l)
  PROVE  Removed(l, p, u, Remove(l, u))
<1> DEFINE path == PathTo(l, l.uaks[u])
           mine(i) == IF i \in DOMAIN l.levels[u] THEN l.levels[u][i] ELSE NoLink
           next == l.levels[u][0].forward
           levels == [n \in Node |->
             IF n = u THEN NoLevels
             ELSE [i \in DOMAIN l.levels[n] |->
                     IF i < l.level /\ path[i].node = n
                     THEN Unlinked(l.levels[n][i], u, mine(i)) ELSE l.levels[n][i]]]
           T == {1} \cup {i \in 1..l.level : levels[Header][i - 1].forward # Nil}
           a(i) == Last(l, p, i, p[u] - 1)
           r == Remove(l, u)
<1>1. /\ l.level \in 1..MaxLevel /\ MaxLevel \in Nat /\ Header \notin Uid /\ u \in Uid
      /\ Nodes(l) \subseteq Node /\ Header \in Node /\ u \in Tall(l, 0)
  BY ListFacts DEF Node
<1>2. 0 \in DOMAIN l.levels[u]
  BY <1>1 DEF Tall
<1>3. r = [level |-> Max(T), length |-> l.length - 1,
           tail |-> IF next = Nil THEN l.backward[u] ELSE l.tail,
           levels |-> levels,
           backward |-> [n \in Uid |->
             IF n = u THEN Nil ELSE IF n = next THEN l.backward[u] ELSE l.backward[n]],
           uaks |-> [l.uaks EXCEPT ![u] = <<>>]]
  BY <1>2 DEF Remove
<1>4. path = Found(l, p, p[u] - 1)
  BY OldPlace, PathIs
<1>5. ASSUME NEW n \in Nodes(l) \ {u}, NEW i \in DOMAIN l.levels[n]
      PROVE  r.levels[n][i] = IF i < l.level /\ n = a(i) THEN Unlinked(l.levels[n][i], u, mine(i))
                              ELSE l.levels[n][i]
  <2>1. r.levels = levels /\ n \in Node /\ n # u
    <3> HIDE DEF r, levels
    <3> QED
      BY <1>1, <1>3
  <2>2. levels[n] = [j \in DOMAIN l.levels[n] |->
                       IF j < l.level /\ path[j].node = n
                       THEN Unlinked(l.levels[n][j], u, mine(j)) ELSE l.levels[n][j]]
    BY <2>1
  <2> HIDE DEF levels, path, mine, a
  <2>3. r.levels[n][i] = IF i < l.level /\ path[i].node = n
                         THEN Unlinked(l.levels[n][i], u, mine(i)) ELSE l.levels[n][i]
    BY <2>1, <2>2
  <2>4. i \in Nat
    <3>1. CASE n = Header
      BY <1>1, <3>1 DEF Whole, Shaped
    <3>2. CASE n \in Listed(l)
      BY <3>2 DEF Whole, Shaped
    <3> QED
      BY <3>1, <3>2 DEF Nodes
  <2>5. i < l.level => path[i].node = a(i)
    <3> SUFFICES ASSUME i < l.level PROVE path[i].node = a(i)
      OBVIOUS
    <3>1. i \in 0..l.level /\ i # l.level
      BY <1>1, <2>4
    <3> QED
      BY <1>4, <3>1 DEF Found, Stand, a
  <2> QED
    BY <2>3, <2>5
<1>6. /\ r.level = Max(T) /\ r.length = l.length - 1 /\ r.levels = levels
      /\ r.tail = IF next = Nil THEN l.backward[u] ELSE l.tail
      /\ r.uaks = [l.uaks EXCEPT ![u] = <<>>]
      /\ \A n \in Uid :
           r.backward[n] = IF n = u THEN Nil
                           ELSE IF n = next THEN l.backward[u] ELSE l.backward[n]
  <2> HIDE DEF r, levels, T, next
  <2> QED
    BY <1>3
<1>7. DOMAIN r.levels[u] = {}
  <2>1. u \in Node /\ levels[u] = NoLevels
    BY <1>1 DEF Node
  <2>2. DOMAIN NoLevels = {}
    BY DEF NoLevels
  <2> HIDE DEF levels, r
  <2> QED
    BY <1>6, <2>1, <2>2
<1>8. ASSUME NEW n \in Node \ {u} PROVE DOMAIN r.levels[n] = DOMAIN l.levels[n]
  <2>1. levels[n] = [i \in DOMAIN l.levels[n] |->
                       IF i < l.level /\ path[i].node = n
                       THEN Unlinked(l.levels[n][i], u, mine(i)) ELSE l.levels[n][i]]
    OBVIOUS
  <2>2. DOMAIN levels[n] = DOMAIN l.levels[n]
    BY <2>1
  <2> HIDE DEF levels, r
  <2> QED
    BY <1>6, <2>2
<1> HIDE DEF levels
<1>9. Max(T) \in T /\ \A x \in T : x <= Max(T)
  <2>1. 1 \in T /\ MaxLevel \in Int /\ \A x \in T : x \in Int /\ x <= MaxLevel
    BY <1>1
  <2> HIDE DEF T
  <2> QED
    BY <2>1, MaxIs
<1> DEFINE top == Max(T)
<1> HIDE DEF top
<1>10. r.level = top /\ top \in 1..l.level /\ \A x \in T : x <= top
  BY <1>1, <1>6, <1>9 DEF top
<1>11. ASSUME NEW i \in r.level..(l.level - 1) PROVE r.levels[Header][i].forward = Nil
  <2>1. i + 1 \in 1..l.level /\ ~(i + 1 <= top) /\ i + 1 - 1 = i
    BY <1>1, <1>10
  <2>2. i + 1 \notin T
    BY <1>10, <2>1
  <2>3. levels[Header][i + 1 - 1].forward = Nil
    BY <2>1, <2>2
  <2> QED
    BY <1>6, <2>1, <2>3
<1> HIDE DEF r
<1>12. Removed(l, p, u, r)
  BY <1>5, <1>6, <1>7, <1>8, <1>10, <1>11 DEF Removed
<1> QED
  BY <1>12 DEF r

\* The numbers once u is gone.
Narrowed(l, p, u) == [n \in Nodes(l) \ {u} |-> IF p[n] < p[u] THEN p[n] ELSE p[n] - 1]

LEMMA RemovedNodes ==
  ASSUME NEW l, NEW p, Whole(l, p), NEW u \in Listed(l), NEW r, Removed(l, p, u, r)
  PROVE  /\ Listed(r) = Listed(l) \ {u} /\ Nodes(r) = Nodes(l) \ {u}
         /\ \A i : Tall(r, i) = Tall(l, i) \ {u}
<1>1. DOMAIN r.levels[u] = {} /\ \A n \in Node \ {u} : DOMAIN r.levels[n] = DOMAIN l.levels[n]
  BY DEF Removed
<1>2. u \in Uid /\ u # Header /\ Nodes(l) \subseteq Node
  BY ListFacts
<1>3. \A n \in Uid : Has(r, n) <=> (Has(l, n) /\ n # u)
  BY <1>1 DEF Has, Node
<1>4. Listed(r) = Listed(l) \ {u}
  BY <1>3 DEF Listed
<1>5. Nodes(r) = Nodes(l) \ {u}
  BY <1>2, <1>4 DEF Nodes
<1>6. \A i : Tall(r, i) = Tall(l, i) \ {u}
  BY <1>1, <1>2, <1>5 DEF Tall
<1> QED
  BY <1>4, <1>5, <1>6

LEMMA RemovedNumbers ==
  ASSUME NEW l, NEW p, Whole(l, p), NEW u \in Listed(l), NEW r, Removed(l, p, u, r)
  PROVE  LET q == Narrowed(l, p, u) IN
         /\ Numbers(r, q) /\ Sorted(r, q)
         /\ \A n \in Nodes(l) \ {u} : /\ p[n] # p[u] /\ p[n] \in 0..l.length
                                      /\ q[n] = IF p[n] < p[u] THEN p[n] ELSE p[n] - 1
<1> DEFINE q == Narrowed(l, p, u)
<1>1. /\ Listed(r) = Listed(l) \ {u} /\ Nodes(r) = Nodes(l) \ {u}
  BY RemovedNodes
<1>2. /\ l.length \in Nat /\ p[Header] = 0 /\ Header \in Nodes(l) /\ u \in Nodes(l) /\ u # Header
      /\ p[u] \in 1..l.length /\ \A n \in Nodes(l) : p[n] \in 0..l.length
      /\ Listed(l) \subseteq Uid /\ Listed(l) \subseteq Nodes(l)
  BY ListFacts DEF Nodes
<1>3. r.length = l.length - 1 /\ r.uaks = [l.uaks EXCEPT ![u] = <<>>]
  BY DEF Removed
<1>4. \A m, n \in Nodes(l) : p[m] = p[n] => m = n
  BY DEF Whole, Numbers
<1>5. \A i \in 0..l.length : \E n \in Nodes(l) : p[n] = i
  BY DEF Whole, Numbers
<1>6. \A n \in Nodes(l) \ {u} : /\ p[n] # p[u] /\ p[n] \in 0..l.length
                                /\ q[n] = IF p[n] < p[u] THEN p[n] ELSE p[n] - 1
  BY <1>2, <1>4 DEF Narrowed
<1>7. q \in [Nodes(l) \ {u} -> 0..r.length]
  <2>1. ASSUME NEW n \in Nodes(l) \ {u}
        PROVE  (IF p[n] < p[u] THEN p[n] ELSE p[n] - 1) \in 0..r.length
    BY <1>2, <1>3, <1>6
  <2> QED
    BY <2>1 DEF Narrowed
<1> HIDE DEF q
<1>8. Numbers(r, q)
  <2>1. q[Header] = 0 /\ q \in [Nodes(r) -> 0..r.length]
    BY <1>1, <1>2, <1>6, <1>7
  <2>2. ASSUME NEW m \in Nodes(r), NEW n \in Nodes(r), q[m] = q[n] PROVE m = n
    BY <1>1, <1>2, <1>4, <1>6, <2>2
  <2>3. ASSUME NEW i \in 0..r.length PROVE \E n \in Nodes(r) : q[n] = i
    <3>1. CASE i < p[u]
      <4>1. PICK n \in Nodes(l) : p[n] = i
        BY <1>2, <1>3, <1>5
      <4> QED
        BY <1>1, <1>2, <1>6, <3>1, <4>1
    <3>2. CASE ~(i < p[u])
      <4>1. PICK n \in Nodes(l) : p[n] = i + 1
        BY <1>2, <1>3, <1>5
      <4> QED
        BY <1>1, <1>2, <1>3, <1>6, <3>2, <4>1
    <3> QED
      BY <3>1, <3>2
  <2> QED
    BY <2>1, <2>2, <2>3 DEF Numbers
<1>9. ASSUME NEW m \in Listed(r), NEW n \in Listed(r), q[m] < q[n]
      PROVE  CompUaks(Order, r.uaks[m], r.uaks[n])
  <2>1. l.uaks \in [Uid -> Entry \cup {<<>>}]
    BY DEF Whole, Shaped
  <2>2. r.uaks[m] = l.uaks[m] /\ r.uaks[n] = l.uaks[n] /\ m \in Listed(l) /\ n \in Listed(l)
    BY <1>1, <1>2, <1>3, <2>1
  <2>3. p[m] < p[n]
    BY <1>1, <1>2, <1>6, <1>9
  <2> QED
    BY <2>2, <2>3 DEF Whole, Sorted
<1>10. Sorted(r, q)
  BY <1>9 DEF Sorted
<1> QED
  BY <1>6, <1>8, <1>10 DEF q
\* On the levels of u the search ends at the node whose link is to u, and on
\* no other.
LEMMA BeforeGone ==
  ASSUME NEW l, NEW p, Whole(l, p), NEW u \in Listed(l), NEW i \in 0..(l.level - 1)
  PROVE  LET a == Last(l, p, i, p[u] - 1)
             f == l.levels[a][i].forward
         IN  /\ a \in Tall(l, i) /\ a # u /\ p[a] < p[u]
             /\ \A m \in Tall(l, i) : p[m] < p[u] => p[m] <= p[a]
             /\ f = u <=> u \in Tall(l, i)
             /\ f # Nil => f \in Tall(l, i) /\ p[u] <= p[f]
             /\ l.levels[a][i].span = Far(l, p, f) - p[a]
             /\ \A m \in Tall(l, i) : p[a] < p[m] => f # Nil /\ p[f] <= p[m]
<1> DEFINE a == Last(l, p, i, p[u] - 1)
           f == l.levels[a][i].forward
<1>1. /\ l.length \in Nat /\ u \in Nodes(l) /\ p[u] \in 1..l.length /\ i \in 0..(MaxLevel - 1)
      /\ Nil # u /\ \A m \in Tall(l, i) : m \in Nodes(l) /\ p[m] \in 0..l.length
  BY ListFacts DEF Nodes
<1>2. p[u] - 1 \in 0..l.length
  BY <1>1
<1>3. a \in Tall(l, i) /\ p[a] <= p[u] - 1
      /\ \A m \in Tall(l, i) : p[m] <= p[u] - 1 => p[m] <= p[a]
  BY <1>1, <1>2, LastIs
<1>4. LinkOK(l, p, a, i)
  BY <1>3 DEF Whole, Leveled
<1> HIDE DEF a
<1>5. /\ f # Nil => f \in Tall(l, i) /\ p[a] < p[f]
      /\ l.levels[a][i].span = Far(l, p, f) - p[a]
      /\ \A m \in Tall(l, i) : p[a] < p[m] => f # Nil /\ p[f] <= p[m]
  BY <1>4 DEF LinkOK
<1> HIDE DEF f
<1>6. f # Nil => p[u] <= p[f]
  BY <1>1, <1>3, <1>5
<1>7. u \in Tall(l, i) => f = u
  <2> SUFFICES ASSUME u \in Tall(l, i) PROVE f = u
    OBVIOUS
  <2>1. f # Nil /\ p[f] <= p[u] /\ f \in Nodes(l)
    BY <1>1, <1>3, <1>5
  <2>2. p[f] = p[u]
    BY <1>1, <1>5, <1>6, <2>1
  <2> QED
    BY <1>1, <2>1, <2>2 DEF Whole, Numbers
<1>8. f = u => u \in Tall(l, i)
  BY <1>1, <1>5
<1>9. a # u /\ p[a] < p[u] /\ \A m \in Tall(l, i) : p[m] < p[u] => p[m] <= p[a]
  BY <1>1, <1>3
<1>10. f = u <=> u \in Tall(l, i)
  BY <1>7, <1>8
<1>11. f # Nil => f \in Tall(l, i) /\ p[u] <= p[f]
  BY <1>5, <1>6
<1> QED
  BY <1>3, <1>5, <1>9, <1>10, <1>11 DEF a, f

LEMMA RemovedLinks ==
  ASSUME NEW l, NEW p, Whole(l, p), NEW u \in Listed(l), NEW r, Removed(l, p, u, r),
         NEW i \in 0..(l.level - 1), NEW n \in Tall(r, i)
  PROVE  LinkOK(r, Narrowed(l, p, u), n, i)
<1> DEFINE q == Narrowed(l, p, u)
           a == Last(l, p, i, p[u] - 1)
           f == l.levels[a][i].forward
           mine == IF i \in DOMAIN l.levels[u] THEN l.levels[u][i] ELSE NoLink
           link == r.levels[n][i]
           g == l.levels[n][i].forward
<1>1. Nodes(r) = Nodes(l) \ {u} /\ Tall(r, i) = Tall(l, i) \ {u}
  BY RemovedNodes
<1>2. /\ l.length \in Nat /\ p[u] \in 1..l.length /\ i < l.level /\ Nil # u /\ u \in Nodes(l)
      /\ \A m \in Tall(l, i) : m \in Nodes(l) /\ p[m] \in 0..l.length
  BY ListFacts DEF Nodes
<1>3. /\ a \in Tall(l, i) /\ a # u /\ p[a] < p[u]
      /\ \A m \in Tall(l, i) : p[m] < p[u] => p[m] <= p[a]
      /\ f = u <=> u \in Tall(l, i)
      /\ f # Nil => f \in Tall(l, i) /\ p[u] <= p[f]
      /\ l.levels[a][i].span = Far(l, p, f) - p[a]
      /\ \A m \in Tall(l, i) : p[a] < p[m] => f # Nil /\ p[f] <= p[m]
  BY BeforeGone
<1>4. r.length = l.length - 1
      /\ link = IF n = a THEN Unlinked(l.levels[n][i], u, mine) ELSE l.levels[n][i]
  BY <1>1, <1>2 DEF Removed, Tall
<1>5. l.levels[n][i] \in Link /\ n \in Tall(l, i) /\ n # u
  BY <1>1 DEF Tall, Whole, Shaped
<1>6. \A m \in Tall(l, i) : m # u => /\ m \in Tall(r, i) /\ p[m] # p[u]
                                     /\ q[m] = IF p[m] < p[u] THEN p[m] ELSE p[m] - 1
  BY <1>1, <1>2, RemovedNumbers
<1>7. LinkOK(l, p, n, i)
  BY <1>5 DEF Whole, Leveled
<1>8. /\ g # Nil => g \in Tall(l, i) /\ p[n] < p[g]
      /\ l.levels[n][i].span = Far(l, p, g) - p[n]
      /\ \A m \in Tall(l, i) : p[n] < p[m] => g # Nil /\ p[g] <= p[m]
  BY <1>7 DEF LinkOK
<1>9. SUFFICES /\ link.forward # Nil => link.forward \in Tall(r, i) /\ q[n] < q[link.forward]
               /\ link.span = Far(r, q, link.forward) - q[n]
               /\ \A m \in Tall(r, i) :
                    q[n] < q[m] => link.forward # Nil /\ q[link.forward] <= q[m]
  BY DEF LinkOK
<1> HIDE DEF q, a, link, g
\* A node behind u, or none, is one nearer.
<1>10. ASSUME NEW x, x # Nil => x \in Tall(l, i) /\ p[u] < p[x]
       PROVE  /\ Far(r, q, x) = Far(l, p, x) - 1 /\ Far(l, p, x) \in Int
              /\ x # Nil => x \in Tall(r, i) /\ q[x] = p[x] - 1 /\ p[x] \in Int
  <2>1. CASE x = Nil
    BY <1>2, <1>4, <2>1 DEF Far
  <2>2. CASE x # Nil
    <3>1. x \in Tall(r, i) /\ q[x] = p[x] - 1 /\ p[x] \in Int
      BY <1>2, <1>6, <1>10, <2>2
    <3> QED
      BY <2>2, <3>1 DEF Far
  <2> QED
    BY <2>1, <2>2
<1>11. CASE n = a
  <2>1. link = Unlinked(l.levels[n][i], u, mine) /\ g = f /\ q[n] = p[n] /\ p[n] \in Int
    BY <1>2, <1>3, <1>4, <1>5, <1>6, <1>11 DEF g
  <2>2. CASE u \in Tall(l, i)
    <3> DEFINE h == l.levels[u][i].forward
    <3>1. l.levels[u][i] \in Link /\ mine = l.levels[u][i]
      BY <2>2 DEF Tall, Whole, Shaped
    <3>2. LinkOK(l, p, u, i)
      BY <2>2 DEF Whole, Leveled
    <3>3. /\ h # Nil => h \in Tall(l, i) /\ p[u] < p[h]
          /\ l.levels[u][i].span = Far(l, p, h) - p[u]
          /\ \A m \in Tall(l, i) : p[u] < p[m] => h # Nil /\ p[h] <= p[m]
      BY <3>2 DEF LinkOK
    <3>4. l.levels[n][i].forward = u /\ l.levels[n][i].span = p[u] - p[n]
      BY <1>2, <1>3, <1>11, <2>2 DEF Far
    <3>5. link = [forward |-> h, span |-> l.levels[n][i].span + l.levels[u][i].span - 1]
      BY <2>1, <3>1, <3>4 DEF Unlinked
    <3> HIDE DEF h
    <3>6. link.forward = h /\ link.span = (p[u] - p[n]) + (Far(l, p, h) - p[u]) - 1
      BY <3>3, <3>4, <3>5
    <3>7. /\ Far(r, q, h) = Far(l, p, h) - 1 /\ Far(l, p, h) \in Int
          /\ h # Nil => h \in Tall(r, i) /\ q[h] = p[h] - 1 /\ p[h] \in Int
      BY <1>10, <3>3
    <3>8. link.span = Far(r, q, h) - q[n]
      BY <1>2, <2>1, <3>6, <3>7
    <3>9. ASSUME NEW m \in Tall(r, i), q[n] < q[m] PROVE h # Nil /\ q[h] <= q[m]
      <4>1. m \in Tall(l, i) /\ m # u
        BY <1>1
      <4>2. p[u] < p[m] /\ q[m] = p[m] - 1
        BY <1>2, <1>3, <1>6, <1>11, <2>1, <3>9, <4>1
      <4> QED
        BY <1>2, <3>3, <3>7, <4>1, <4>2
    <3>10. h # Nil => q[n] < q[h]
      BY <1>2, <1>3, <1>11, <2>1, <3>3, <3>7
    <3> QED
      BY <3>6, <3>7, <3>8, <3>9, <3>10
  <2>3. CASE u \notin Tall(l, i)
    <3>1. f # u /\ (f # Nil => f \in Tall(l, i) /\ p[u] < p[f])
      <4>1. f # u
        BY <1>3, <2>3
      <4>2. f # Nil => p[f] # p[u]
        BY <1>3, <1>6, <4>1
      <4> QED
        BY <1>2, <1>3, <4>1, <4>2
    <3>2. link = [l.levels[n][i] EXCEPT !.span = @ - 1]
      BY <2>1, <3>1 DEF Unlinked, g
    <3> DEFINE k == l.levels[n][i]
    <3>3. k \in Link /\ k.forward = f /\ link = [k EXCEPT !.span = k.span - 1]
      BY <1>5, <2>1, <3>2 DEF g
    <3>4. k.span = Far(l, p, f) - p[n]
      BY <1>8, <2>1
    <3> HIDE DEF k, f
    <3>5. link.forward = f /\ link.span = k.span - 1
      BY <3>3 DEF Link
    <3>6. /\ Far(r, q, f) = Far(l, p, f) - 1 /\ Far(l, p, f) \in Int
          /\ f # Nil => f \in Tall(r, i) /\ q[f] = p[f] - 1 /\ p[f] \in Int
      BY <1>10, <3>1
    <3>7. link.span = Far(r, q, f) - q[n]
      BY <2>1, <3>4, <3>5, <3>6
    <3>8. ASSUME NEW m \in Tall(r, i), q[n] < q[m] PROVE f # Nil /\ q[f] <= q[m]
      <4>1. m \in Tall(l, i) /\ m # u
        BY <1>1
      <4>2. p[u] < p[m] /\ q[m] = p[m] - 1 /\ p[a] < p[m]
        BY <1>2, <1>3, <1>6, <1>11, <2>1, <3>8, <4>1
      <4> QED
        BY <1>2, <1>3, <3>6, <4>1, <4>2
    <3>9. f # Nil => q[n] < q[f]
      BY <1>2, <1>3, <1>11, <2>1, <3>1, <3>6
    <3> QED
      BY <3>5, <3>6, <3>7, <3>8, <3>9
  <2> QED
    BY <2>2, <2>3
<1>12. CASE n # a
  <2>1. link = l.levels[n][i] /\ link.forward = g /\ link.span = Far(l, p, g) - p[n]
    BY <1>4, <1>8, <1>12 DEF g
  <2>2. p[n] # p[a] /\ p[n] # p[u] /\ p[n] \in 0..l.length /\ p[a] \in 0..l.length
    <3>1. n \in Nodes(l) /\ a \in Nodes(l)
      BY <1>2, <1>3, <1>5
    <3> QED
      BY <1>2, <1>3, <1>5, <1>6, <1>12, <3>1 DEF Whole, Numbers
  <2>3. CASE p[n] < p[u]
    <3>1. p[n] < p[a]
      BY <1>2, <1>3, <1>5, <2>2, <2>3
    <3>2. g # Nil /\ g \in Tall(l, i) /\ p[g] <= p[a] /\ p[g] < p[u] /\ g # u /\ p[n] < p[g]
      BY <1>2, <1>3, <1>8, <3>1
    <3>3. q[n] = p[n] /\ q[g] = p[g] /\ g \in Tall(r, i)
      BY <1>5, <1>6, <2>3, <3>2
    <3>4. link.span = Far(r, q, g) - q[n]
      BY <2>1, <3>2, <3>3 DEF Far
    <3>5. ASSUME NEW m \in Tall(r, i), q[n] < q[m] PROVE q[g] <= q[m]
      <4>1. m \in Tall(l, i) /\ m # u
        BY <1>1
      <4>2. p[n] < p[m]
        BY <1>2, <1>6, <2>2, <3>3, <3>5, <4>1
      <4>3. p[g] <= p[m] /\ p[m] # p[u] /\ q[m] = IF p[m] < p[u] THEN p[m] ELSE p[m] - 1
        BY <1>6, <1>8, <4>1, <4>2
      <4> QED
        BY <1>2, <3>2, <3>3, <4>1, <4>3
    <3> QED
      BY <2>1, <3>2, <3>3, <3>4, <3>5
  <2>4. CASE ~(p[n] < p[u])
    <3>1. p[u] < p[n] /\ q[n] = p[n] - 1
      BY <1>2, <1>5, <1>6, <2>2, <2>4
    <3>2. g # Nil => g \in Tall(l, i) /\ p[u] < p[g]
      BY <1>2, <1>8, <2>2, <3>1
    <3>3. /\ Far(r, q, g) = Far(l, p, g) - 1 /\ Far(l, p, g) \in Int
          /\ g # Nil => g \in Tall(r, i) /\ q[g] = p[g] - 1 /\ p[g] \in Int
      BY <1>10, <3>2
    <3>4. link.span = Far(r, q, g) - q[n]
      BY <2>1, <2>2, <3>1, <3>3
    <3>5. ASSUME NEW m \in Tall(r, i), q[n] < q[m] PROVE g # Nil /\ q[g] <= q[m]
      <4>1. m \in Tall(l, i) /\ m # u
        BY <1>1
      <4>2. p[n] < p[m] /\ q[m] = p[m] - 1
        BY <1>2, <1>6, <2>2, <3>1, <3>5, <4>1
      <4> QED
        BY <1>2, <1>8, <3>3, <4>1, <4>2
    <3>6. g # Nil => q[n] < q[g]
      BY <1>8, <2>2, <3>1, <3>3
    <3> QED
      BY <2>1, <3>3, <3>4, <3>5, <3>6
  <2> QED
    BY <2>3, <2>4
<1> QED
  BY <1>11, <1>12
LEMMA RemovedShaped ==
  ASSUME NEW l, NEW p, Whole(l, p), NEW u \in Listed(l), NEW r, Removed(l, p, u, r)
  PROVE  Shaped(r) /\ Leveled(r, Narrowed(l, p, u))
<1> DEFINE q == Narrowed(l, p, u)
<1>1. /\ Listed(r) = Listed(l) \ {u} /\ Nodes(r) = Nodes(l) \ {u}
      /\ \A i : Tall(r, i) = Tall(l, i) \ {u}
  BY RemovedNodes
<1>2. /\ l.level \in 1..MaxLevel /\ MaxLevel \in Nat /\ l.length \in Nat /\ u # Header /\ u \in Uid
      /\ IsFiniteSet(Listed(l)) /\ Nodes(l) \subseteq Node /\ Listed(l) \subseteq Nodes(l)
      /\ Listed(l) \subseteq Uid /\ Header \in Nodes(l) /\ p[Header] = 0 /\ p[u] \in 1..l.length
      /\ \A i \in 0..(MaxLevel - 1) : Header \in Tall(l, i)
      /\ \A n \in Listed(l) : p[n] \in 1..l.length
  BY ListFacts DEF Nodes
<1>3. /\ r.level \in 1..l.level /\ r.length = l.length - 1
      /\ \A i \in r.level..(l.level - 1) : r.levels[Header][i].forward = Nil
      /\ \A n \in Node \ {u} : DOMAIN r.levels[n] = DOMAIN l.levels[n]
      /\ r.uaks = [l.uaks EXCEPT ![u] = <<>>]
  BY DEF Removed
<1>4. \A i \in 0..(l.level - 1) : \A n \in Tall(r, i) : LinkOK(r, q, n, i)
  BY RemovedLinks
<1>5. \A n \in Nodes(l) \ {u} : q[n] = IF p[n] < p[u] THEN p[n] ELSE p[n] - 1
  BY RemovedNumbers
<1> HIDE DEF q
<1>6. ASSUME NEW i \in r.level..(l.level - 1) PROVE Tall(r, i) = {Header}
  <2>1. i \in 0..(l.level - 1) /\ i \in 0..(MaxLevel - 1)
    BY <1>2, <1>3
  <2>2. Header \in Tall(r, i)
    BY <1>1, <1>2, <2>1
  <2>3. \A m \in Tall(r, i) : q[Header] < q[m] => r.levels[Header][i].forward # Nil
    BY <1>4, <2>1, <2>2 DEF LinkOK
  <2>4. ASSUME NEW m \in Tall(r, i), m # Header PROVE FALSE
    <3>1. m \in Listed(l) \ {u}
      BY <1>1, <2>4 DEF Tall, Nodes
    <3>2. p[m] # p[u]
      BY <1>2, <3>1 DEF Whole, Numbers
    <3>3. 0 < q[m] /\ q[Header] = 0
      BY <1>2, <1>5, <3>1, <3>2
    <3> QED
      BY <1>3, <2>3, <3>3
  <2> QED
    BY <2>2, <2>4
<1>7. ASSUME NEW n \in Listed(r) PROVE \E h \in 1..r.level : DOMAIN r.levels[n] = 0..(h - 1)
  <2>1. n \in Listed(l) /\ n \in Node \ {u} /\ n # Header /\ n \in Nodes(r)
    BY <1>1, <1>2, ListFacts DEF Nodes
  <2>2. PICK h \in 1..l.level : DOMAIN l.levels[n] = 0..(h - 1)
    BY <2>1 DEF Whole, Shaped
  <2>3. DOMAIN r.levels[n] = 0..(h - 1)
    BY <1>3, <2>1, <2>2
  <2>4. h <= r.level
    <3> SUFFICES ASSUME ~(h <= r.level) PROVE FALSE
      OBVIOUS
    <3>1. h - 1 \in r.level..(l.level - 1) /\ h - 1 \in 0..(h - 1)
      BY <1>2, <1>3
    <3>2. n \in Tall(r, h - 1)
      BY <2>1, <2>3, <3>1 DEF Tall
    <3> QED
      BY <1>6, <2>1, <3>1, <3>2
  <2>5. h \in 1..r.level
    BY <1>2, <1>3, <2>4
  <2> QED
    BY <2>3, <2>5
<1>8. r.length = Cardinality(Listed(r))
  <2>1. l.length = Cardinality(Listed(l))
    BY DEF Whole, Shaped
  <2>2. Cardinality(Listed(l) \ {u}) = Cardinality(Listed(l)) - 1
    BY <1>2, FS_RemoveElement
  <2> QED
    BY <1>1, <1>3, <2>1, <2>2
<1>9. ASSUME NEW n \in Nodes(r), NEW i \in DOMAIN r.levels[n] PROVE r.levels[n][i] \in Link
  <2>1. n \in Nodes(l) \ {u} /\ i \in DOMAIN l.levels[n]
    BY <1>1, <1>2, <1>3
  <2> DEFINE k == l.levels[n][i]
             mine == IF i \in DOMAIN l.levels[u] THEN l.levels[u][i] ELSE NoLink
  <2>2. r.levels[n][i] \in {k, Unlinked(k, u, mine)}
    BY <2>1 DEF Removed
  <2>3. k \in Link
    BY <2>1 DEF Whole, Shaped
  <2>4. mine \in Link
    <3>1. NoLink \in Link
      BY DEF NoLink, Link
    <3>2. i \in DOMAIN l.levels[u] => l.levels[u][i] \in Link
      BY <1>2 DEF Whole, Shaped
    <3> QED
      BY <3>1, <3>2
  <2> HIDE DEF k, mine
  <2>5. Unlinked(k, u, mine) \in Link
    BY <2>3, <2>4 DEF Unlinked, Link
  <2> QED
    BY <2>2, <2>3, <2>5
<1>10. r.uaks \in [Uid -> Entry \cup {<<>>}]
       /\ \A n \in Listed(r) : r.uaks[n] \in Entry /\ r.uaks[n][0] = n
  <2>1. l.uaks \in [Uid -> Entry \cup {<<>>}]
        /\ \A n \in Listed(l) : l.uaks[n] \in Entry /\ l.uaks[n][0] = n
    BY DEF Whole, Shaped
  <2>2. r.uaks \in [Uid -> Entry \cup {<<>>}] /\ \A n \in Uid \ {u} : r.uaks[n] = l.uaks[n]
    BY <1>2, <1>3, <2>1
  <2> QED
    BY <1>1, <1>2, <2>1, <2>2
<1>11. Shaped(r)
  <2>1. r.level \in 1..MaxLevel /\ DOMAIN r.levels[Header] = 0..(MaxLevel - 1)
    BY <1>2, <1>3 DEF Whole, Shaped
  <2> QED
    BY <1>7, <1>8, <1>9, <1>10, <2>1 DEF Shaped
<1>12. Leveled(r, q)
  <2>1. \A i \in 0..(r.level - 1) : i \in 0..(l.level - 1)
    BY <1>2, <1>3
  <2>2. ASSUME NEW i \in r.level..(MaxLevel - 1) PROVE r.levels[Header][i].forward = Nil
    <3>1. CASE i < l.level
      <4>1. i \in r.level..(l.level - 1)
        BY <1>2, <1>3, <3>1
      <4> QED
        BY <1>3, <4>1
    <3>2. CASE ~(i < l.level)
      <4>1. i \in l.level..(MaxLevel - 1) /\ i \in 0..(MaxLevel - 1)
        BY <1>2, <1>3, <3>2
      <4>2. Header \in Nodes(l) \ {u} /\ i \in DOMAIN l.levels[Header]
        BY <1>2, <4>1 DEF Tall
      <4>3. r.levels[Header][i] = l.levels[Header][i]
        BY <3>2, <4>2 DEF Removed
      <4> QED
        BY <4>1, <4>3 DEF Whole, Leveled
    <3> QED
      BY <3>1, <3>2
  <2> QED
    BY <1>4, <2>1, <2>2 DEF Leveled
<1> QED
  BY <1>11, <1>12 DEF q

LEMMA RemovedBack ==
  ASSUME NEW l, NEW p, Whole(l, p), NEW u \in Listed(l), NEW r, Removed(l, p, u, r)
  PROVE  Returning(r, Narrowed(l, p, u))
<1> DEFINE q == Narrowed(l, p, u)
           next == l.levels[u][0].forward
           prev == l.backward[u]
<1>1. Listed(r) = Listed(l) \ {u}
  BY RemovedNodes
<1>2. /\ l.length \in Nat /\ p[u] \in 1..l.length /\ u \in Nodes(l) /\ Nil \notin Uid
      /\ Listed(l) \subseteq Nodes(l) /\ Listed(l) \subseteq Uid
      /\ \A n \in Listed(l) : p[n] \in 1..l.length
  BY ListFacts DEF Nodes, Node
<1>3. /\ r.length = l.length - 1 /\ r.tail = IF next = Nil THEN prev ELSE l.tail
      /\ \A n \in Uid : r.backward[n] = IF n = u THEN Nil ELSE IF n = next THEN prev ELSE l.backward[n]
  BY DEF Removed
<1>4. \A n \in Listed(l) \ {u} : p[n] # p[u] /\ q[n] = IF p[n] < p[u] THEN p[n] ELSE p[n] - 1
  BY <1>2, RemovedNumbers
<1>5. IF next = Nil THEN p[u] = l.length ELSE next \in Listed(l) /\ p[next] = p[u] + 1
  BY <1>2, NextIs
<1>6. /\ \A n \in Listed(l) :
           IF p[n] = 1 THEN l.backward[n] = Nil
           ELSE l.backward[n] \in Listed(l) /\ p[l.backward[n]] = p[n] - 1
      /\ IF l.length = 0 THEN l.tail = Nil ELSE l.tail \in Listed(l) /\ p[l.tail] = l.length
  BY DEF Whole, Returning
<1>7. IF p[u] = 1 THEN prev = Nil ELSE prev \in Listed(l) /\ p[prev] = p[u] - 1
  BY <1>6
<1>8. \A m, n \in Nodes(l) : p[m] = p[n] => m = n
  BY DEF Whole, Numbers
<1> HIDE DEF q, next, prev
<1>9. p[u] # 1 => prev \in Listed(r) /\ q[prev] = p[u] - 1
  BY <1>1, <1>2, <1>4, <1>7
<1>10. ASSUME NEW n \in Listed(r)
       PROVE  IF q[n] = 1 THEN r.backward[n] = Nil
              ELSE r.backward[n] \in Listed(r) /\ q[r.backward[n]] = q[n] - 1
  <2>1. n \in Listed(l) \ {u} /\ p[n] \in 1..l.length /\ p[n] # p[u]
        /\ q[n] = IF p[n] < p[u] THEN p[n] ELSE p[n] - 1
    BY <1>1, <1>2, <1>4
  <2>2. CASE n = next
    <3>1. r.backward[n] = prev /\ q[n] = p[u]
      BY <1>2, <1>3, <1>5, <2>1, <2>2
    <3> QED
      BY <1>7, <1>9, <3>1
  <2>3. CASE n # next
    <3> DEFINE b == l.backward[n]
    <3>1. r.backward[n] = b /\ IF p[n] = 1 THEN b = Nil ELSE b \in Listed(l) /\ p[b] = p[n] - 1
      BY <1>2, <1>3, <1>6, <2>1, <2>3
    <3> HIDE DEF b
    <3>2. p[n] # p[u] + 1
      <4>1. CASE next = Nil
        BY <1>2, <1>5, <2>1, <4>1
      <4>2. CASE next # Nil
        BY <1>2, <1>5, <1>8, <2>1, <2>3, <4>2
      <4> QED
        BY <4>1, <4>2
    <3>3. CASE p[n] = 1
      BY <1>2, <2>1, <3>1, <3>3
    <3>4. CASE p[n] # 1
      <4>1. b \in Listed(l) \ {u} /\ p[b] = p[n] - 1
        BY <1>2, <2>1, <3>1, <3>2, <3>4
      <4>2. q[b] = IF p[b] < p[u] THEN p[b] ELSE p[b] - 1
        BY <1>4, <4>1
      <4>3. q[b] = q[n] - 1 /\ q[n] # 1
        BY <1>2, <2>1, <3>2, <3>4, <4>1, <4>2
      <4> QED
        BY <1>1, <3>1, <4>1, <4>3
    <3> QED
      BY <3>3, <3>4
  <2> QED
    BY <2>2, <2>3
<1>11. IF r.length = 0 THEN r.tail = Nil ELSE r.tail \in Listed(r) /\ q[r.tail] = r.length
  <2>1. CASE next = Nil
    <3>1. p[u] = l.length /\ r.tail = prev
      BY <1>3, <1>5, <2>1
    <3> QED
      BY <1>2, <1>3, <1>7, <1>9, <3>1
  <2>2. CASE next # Nil
    <3>1. p[u] < l.length /\ r.tail = l.tail
      BY <1>2, <1>3, <1>5, <2>2
    <3>2. l.tail \in Listed(l) \ {u} /\ p[l.tail] = l.length
      BY <1>2, <1>6, <3>1
    <3>3. q[l.tail] = l.length - 1
      BY <1>2, <1>4, <3>1, <3>2
    <3> QED
      BY <1>1, <1>2, <1>3, <3>1, <3>2, <3>3
  <2> QED
    BY <2>1, <2>2
<1> QED
  BY <1>10, <1>11 DEF Returning, q

\* A deletion keeps the list whole, and lets go of its node only.
LEMMA DeleteKeeps ==
  ASSUME NEW l, NEW p, Whole(l, p), NEW u \in Uid
  PROVE  /\ \E q : Whole(Deleted(l, u), q)
         /\ u \notin Listed(Deleted(l, u))
<1>1. CASE Has(l, u)
  <2> DEFINE r == Remove(l, u)
             q == Narrowed(l, p, u)
  <2>1. u \in Listed(l) /\ Deleted(l, u) = r
    BY <1>1 DEF Listed, Deleted
  <2>2. Removed(l, p, u, r)
    BY <2>1, RemoveIs
  <2> HIDE DEF r, q
  <2>3. Shaped(r) /\ Leveled(r, q)
    BY <2>1, <2>2, RemovedShaped DEF q
  <2>4. Numbers(r, q) /\ Sorted(r, q)
    BY <2>1, <2>2, RemovedNumbers DEF q
  <2>5. Returning(r, q)
    BY <2>1, <2>2, RemovedBack DEF q
  <2>6. Whole(r, q)
    BY <2>3, <2>4, <2>5 DEF Whole
  <2>7. u \notin Listed(r)
    BY <2>1, <2>2, RemovedNodes
  <2> QED
    BY <2>1, <2>6, <2>7
<1>2. CASE ~Has(l, u)
  BY <1>2 DEF Listed, Deleted
<1> QED
  BY <1>1, <1>2
-----------------------------------------------------------------------------
(* The invariant.                                                          *)

SkipInv == \E p \in [Nodes(list) -> 0..list.length] : Whole(list, p)

LEMMA NewIs ==
  LET l == NewList IN
  /\ Listed(l) = {} /\ Nodes(l) = {Header} /\ l.level = 1 /\ l.length = 0 /\ l.tail = Nil
  /\ DOMAIN l.levels[Header] = 0..(MaxLevel - 1)
  /\ \A i \in 0..(MaxLevel - 1) : l.levels[Header][i] = NoLink
  /\ l.uaks = [n \in Uid |-> <<>>]
<1>1. Header \notin Uid /\ Header \in Node /\ Uid \subseteq Node
  BY RankAssumption DEF Header, Node
<1>2. \A u \in Uid : ~Has(NewList, u)
  BY <1>1 DEF NewList, Has, NoLevels
<1>3. Listed(NewList) = {} /\ Nodes(NewList) = {Header}
  BY <1>2 DEF Listed, Nodes
<1> QED
  BY <1>1, <1>3 DEF NewList

\* An empty list is whole.
LEMMA NewWhole == \E p \in [Nodes(NewList) -> 0..NewList.length] : Whole(NewList, p)
<1> DEFINE l == NewList
           p == [n \in {Header} |-> 0]
<1>1. /\ Listed(l) = {} /\ Nodes(l) = {Header} /\ l.level = 1 /\ l.length = 0 /\ l.tail = Nil
      /\ DOMAIN l.levels[Header] = 0..(MaxLevel - 1)
      /\ \A i \in 0..(MaxLevel - 1) : l.levels[Header][i] = NoLink
      /\ l.uaks = [n \in Uid |-> <<>>]
  BY NewIs
<1>2. p \in [{Header} -> 0..0] /\ p[Header] = 0 /\ \A n \in {Header} : p[n] = 0
  OBVIOUS
<1>3. MaxLevel \in Nat \ {0} /\ 1 \in 1..MaxLevel /\ Nil \in Int
  BY RankAssumption DEF Nil
<1> HIDE DEF l, p
<1>4. Cardinality({}) = 0
  BY FS_EmptySet
<1>5. NoLink \in Link
  BY DEF NoLink, Link
<1>6. Shaped(l)
  BY <1>1, <1>3, <1>4, <1>5 DEF Shaped
<1>7. Numbers(l, p) /\ Sorted(l, p)
  BY <1>1, <1>2 DEF Numbers, Sorted
<1>8. Leveled(l, p)
  <2>1. \A i \in 0..(l.level - 1) : \A n \in Tall(l, i) : n = Header /\ i = 0 /\ i \in 0..(MaxLevel - 1)
    BY <1>1, <1>3 DEF Tall
  <2>2. ASSUME NEW i \in 0..(l.level - 1), NEW n \in Tall(l, i) PROVE LinkOK(l, p, n, i)
    <3>1. l.levels[n][i] = NoLink /\ n = Header
      BY <1>1, <2>1
    <3>2. \A m \in Tall(l, i) : m = Header
      BY <2>1
    <3> QED
      BY <1>1, <1>2, <3>1, <3>2 DEF LinkOK, NoLink, Far
  <2>3. \A i \in l.level..(MaxLevel - 1) : l.levels[Header][i].forward = Nil
    BY <1>1, <1>3 DEF NoLink
  <2> QED
    BY <2>2, <2>3 DEF Leveled
<1>9. Returning(l, p)
  BY <1>1 DEF Returning
<1>10. Whole(l, p)
  BY <1>6, <1>7, <1>8, <1>9 DEF Whole
<1>11. p \in [Nodes(l) -> 0..l.length]
  BY <1>1, <1>2
<1> QED
  BY <1>10, <1>11 DEF l

LEMMA SkipStep == SkipInv /\ [Next]_vars => SkipInv'
<1> SUFFICES ASSUME SkipInv, [Next]_vars PROVE SkipInv'
  OBVIOUS
<1>1. PICK p : Whole(list, p)
  BY DEF SkipInv
<1>2. ASSUME NEW l, NEW q, Whole(l, q), list' = l PROVE SkipInv'
  <2>1. q \in [Nodes(l) -> 0..l.length]
    BY <1>2 DEF Whole, Numbers
  <2>2. SkipInv' <=> \E r \in [Nodes(list') -> 0..list'.length] : Whole(list', r)
    BY DEF SkipInv, Nodes, Listed, Has, Whole, Shaped, Numbers, Sorted, Leveled, LinkOK, Tall, Far, Returning
  <2> QED
    BY <1>2, <2>1, <2>2
<1>3. ASSUME NEW e \in Entry, Update(e) PROVE SkipInv'
  <2>1. PICK height \in 1..MaxLevel : list' = Insert(Deleted(list, e[0]), e, height)
    BY <1>3 DEF Update
  <2>2. e[0] \in Uid
    BY DEF Entry
  <2>3. (\E q : Whole(Deleted(list, e[0]), q)) /\ e[0] \notin Listed(Deleted(list, e[0]))
    BY <1>1, <2>2, DeleteKeeps
  <2>4. \E r : Whole(Insert(Deleted(list, e[0]), e, height), r)
    BY <2>3, InsertKeeps
  <2> QED
    BY <1>2, <2>1, <2>4
<1>4. ASSUME NEW u \in Uid, Delete(u) PROVE SkipInv'
  <2>1. \E q : Whole(Deleted(list, u), q)
    BY <1>1, DeleteKeeps
  <2> QED
    BY <1>2, <1>4, <2>1 DEF Delete
<1>5. ASSUME UNCHANGED list PROVE SkipInv'
  BY <1>1, <1>2, <1>5
<1>6. ASSUME NEW u \in Uid, AskUid(u) PROVE UNCHANGED list
  BY <1>6 DEF AskUid
<1>7. ASSUME NEW r \in Ranks, AskRank(r) PROVE UNCHANGED list
  BY <1>7 DEF AskRank
<1>8. ASSUME NEW f \in Ranks, NEW e \in Ranks, AskRange(f, e) PROVE UNCHANGED list
  BY <1>8 DEF AskRange
<1>9. Return \/ UNCHANGED vars => UNCHANGED list
  BY DEF Return, vars
<1> QED
  BY <1>3, <1>4, <1>5, <1>6, <1>7, <1>8, <1>9 DEF Next

\* UpdateRank and Delete of the ranking list keep the skip list whole, whatever
\* is inserted and deleted in whatever order and of whatever height.
THEOREM ListStaysWhole == Spec => []SkipInv
<1>1. Init => SkipInv
  BY NewWhole DEF Init, SkipInv
<1> QED
  BY <1>1, SkipStep, PTL DEF Spec
-----------------------------------------------------------------------------
(* The walk along the lowest level.                                        *)

\* The node of number i.
Numbered(l, p, i) == CHOOSE n \in Nodes(l) : p[n] = i

LEMMA NumberedIs ==
  ASSUME NEW l, NEW p, Whole(l, p)
  PROVE  /\ \A i \in 0..l.length : Numbered(l, p, i) \in Nodes(l) /\ p[Numbered(l, p, i)] = i
         /\ \A i \in 1..l.length : Numbered(l, p, i) \in Listed(l)
         /\ \A n \in Nodes(l) : Numbered(l, p, p[n]) = n
<1>1. l.length \in Nat /\ p[Header] = 0 /\ \A n \in Nodes(l) : p[n] \in 0..l.length
  BY ListFacts
<1>2. ASSUME NEW i \in 0..l.length
      PROVE  Numbered(l, p, i) \in Nodes(l) /\ p[Numbered(l, p, i)] = i
  BY DEF Whole, Numbers, Numbered
<1>3. ASSUME NEW i \in 1..l.length PROVE Numbered(l, p, i) \in Listed(l)
  <2>1. i \in 0..l.length /\ i # 0
    BY <1>1
  <2>2. Numbered(l, p, i) # Header
    BY <1>1, <1>2, <2>1
  <2> QED
    BY <1>2, <2>1, <2>2 DEF Nodes
<1>4. ASSUME NEW n \in Nodes(l) PROVE Numbered(l, p, p[n]) = n
  <2>1. Numbered(l, p, p[n]) \in Nodes(l) /\ p[Numbered(l, p, p[n])] = p[n]
    BY <1>1, <1>2
  <2> HIDE DEF Numbered
  <2> QED
    BY <2>1 DEF Whole, Numbers
<1> QED
  BY <1>2, <1>3, <1>4

Follows(l, f) ==
  f = [i \in 1..Cardinality(Uid) |->
         IF i = 1 THEN l.levels[Header][0].forward
         ELSE IF f[i - 1] = Nil THEN Nil ELSE l.levels[f[i - 1]][0].forward]
Expected(l, p) == [i \in 1..Cardinality(Uid) |-> IF i <= l.length THEN Numbered(l, p, i) ELSE Nil]

LEMMA ExpectedFollows ==
  ASSUME NEW l, NEW p, Whole(l, p)
  PROVE  Follows(l, Expected(l, p))
<1> DEFINE N == Cardinality(Uid)
           w == Expected(l, p)
<1>1. /\ N \in Nat /\ l.length \in Nat /\ l.length <= N /\ p[Header] = 0 /\ Nil \notin Node
      /\ Nodes(l) \subseteq Node /\ Header \in Nodes(l) /\ Listed(l) \subseteq Nodes(l)
  BY ListFacts DEF Nodes
<1>2. /\ \A i \in 1..l.length : Numbered(l, p, i) \in Listed(l) /\ p[Numbered(l, p, i)] = i
      /\ \A n \in Nodes(l) : Numbered(l, p, p[n]) = n
  BY <1>1, NumberedIs
<1>3. \A n \in Nodes(l) : IF l.levels[n][0].forward = Nil THEN p[n] = l.length
                          ELSE /\ l.levels[n][0].forward \in Listed(l)
                               /\ p[l.levels[n][0].forward] = p[n] + 1
  BY NextIs
<1>4. ASSUME NEW n \in Nodes(l), NEW i \in 1..N, p[n] = i - 1
      PROVE  w[i] = l.levels[n][0].forward
  <2>1. w[i] = IF i <= l.length THEN Numbered(l, p, i) ELSE Nil
    BY DEF Expected
  <2> HIDE DEF w
  <2> DEFINE m == l.levels[n][0].forward
  <2>2. IF m = Nil THEN i - 1 = l.length ELSE m \in Listed(l) /\ p[m] = i
    BY <1>1, <1>3, <1>4
  <2>3. m # Nil => m \in Nodes(l) /\ i <= l.length
    BY <1>1, <2>2, ListFacts
  <2> HIDE DEF m
  <2>4. m # Nil => Numbered(l, p, i) = m
    BY <1>2, <2>2, <2>3
  <2>5. m = Nil => ~(i <= l.length)
    BY <1>1, <2>2
  <2> QED
    BY <2>1, <2>3, <2>4, <2>5 DEF m
<1>5. ASSUME NEW i \in 1..N
      PROVE  w[i] = IF i = 1 THEN l.levels[Header][0].forward
                    ELSE IF w[i - 1] = Nil THEN Nil ELSE l.levels[w[i - 1]][0].forward
  <2>1. CASE i = 1
    <3>1. p[Header] = i - 1
      BY <1>1, <2>1
    <3> HIDE DEF w
    <3> QED
      BY <1>1, <1>4, <2>1, <3>1
  <2>2. CASE i # 1
    <3>1. i - 1 \in 1..N
      BY <1>1, <2>2
    <3>2. w[i - 1] = IF i - 1 <= l.length THEN Numbered(l, p, i - 1) ELSE Nil
      BY <3>1 DEF Expected
    <3>3. w[i] = IF i <= l.length THEN Numbered(l, p, i) ELSE Nil
      BY DEF Expected
    <3> HIDE DEF w
    <3>4. CASE i - 1 <= l.length
      <4> DEFINE n == Numbered(l, p, i - 1)
      <4>1. i - 1 \in 1..l.length
        BY <1>1, <3>1, <3>4
      <4>2. n \in Nodes(l) /\ p[n] = i - 1 /\ n # Nil /\ w[i - 1] = n
        BY <1>1, <1>2, <3>2, <3>4, <4>1
      <4> HIDE DEF n
      <4>3. w[i] = l.levels[n][0].forward
        BY <1>4, <4>2
      <4> QED
        BY <2>2, <4>2, <4>3
    <3>5. CASE ~(i - 1 <= l.length)
      <4>1. w[i - 1] = Nil /\ w[i] = Nil
        BY <1>1, <3>1, <3>2, <3>3, <3>5
      <4> QED
        BY <2>2, <4>1
    <3> QED
      BY <3>4, <3>5
  <2> QED
    BY <2>1, <2>2
<1>6. w = [i \in 1..N |-> w[i]]
  BY DEF Expected
<1> HIDE DEF w
<1>7. w = [i \in 1..N |->
             IF i = 1 THEN l.levels[Header][0].forward
             ELSE IF w[i - 1] = Nil THEN Nil ELSE l.levels[w[i - 1]][0].forward]
  BY <1>5, <1>6
<1> QED
  BY <1>7 DEF Follows, w

\* What Follows says of one place of the walk.
LEMMA FollowsAt ==
  ASSUME NEW l, NEW f, Follows(l, f), NEW i \in 1..Cardinality(Uid)
  PROVE  f[i] = IF i = 1 THEN l.levels[Header][0].forward
                ELSE IF f[i - 1] = Nil THEN Nil ELSE l.levels[f[i - 1]][0].forward
<1> DEFINE g == [k \in 1..Cardinality(Uid) |->
                   IF k = 1 THEN l.levels[Header][0].forward
                   ELSE IF f[k - 1] = Nil THEN Nil ELSE l.levels[f[k - 1]][0].forward]
<1>1. f = g
  BY DEF Follows
<1>2. g[i] = IF i = 1 THEN l.levels[Header][0].forward
             ELSE IF f[i - 1] = Nil THEN Nil ELSE l.levels[f[i - 1]][0].forward
  OBVIOUS
<1> HIDE DEF g
<1> QED
  BY <1>1, <1>2

LEMMA FollowsOnce ==
  ASSUME NEW l, NEW f, NEW w, Follows(l, f), Follows(l, w), Cardinality(Uid) \in Nat
  PROVE  f = w
<1> DEFINE N == Cardinality(Uid)
           T == {i \in 1..N : f[i] # w[i]}
<1>1. T = {}
  <2> SUFFICES ASSUME T # {} PROVE FALSE
    OBVIOUS
  <2>1. T \subseteq Nat
    OBVIOUS
  <2>2. PICK i \in T : \A j \in T : i <= j
    BY <2>1, LeastNat
  <2>3. i \in 1..N /\ f[i] # w[i]
    OBVIOUS
  <2>4. /\ f[i] = IF i = 1 THEN l.levels[Header][0].forward
                  ELSE IF f[i - 1] = Nil THEN Nil ELSE l.levels[f[i - 1]][0].forward
        /\ w[i] = IF i = 1 THEN l.levels[Header][0].forward
                  ELSE IF w[i - 1] = Nil THEN Nil ELSE l.levels[w[i - 1]][0].forward
    <3>1. f[i] = IF i = 1 THEN l.levels[Header][0].forward
                 ELSE IF f[i - 1] = Nil THEN Nil ELSE l.levels[f[i - 1]][0].forward
      BY <2>3, FollowsAt
    <3>2. w[i] = IF i = 1 THEN l.levels[Header][0].forward
                 ELSE IF w[i - 1] = Nil THEN Nil ELSE l.levels[w[i - 1]][0].forward
      BY <2>3, FollowsAt
    <3> QED
      BY <3>1, <3>2
  <2>5. i # 1
    BY <2>3, <2>4
  <2>6. i - 1 \in 1..N /\ ~(i <= i - 1)
    BY <2>3, <2>5
  <2>7. f[i - 1] = w[i - 1]
    BY <2>2, <2>6
  <2> QED
    BY <2>3, <2>4, <2>7
<1>2. f = [i \in 1..N |-> f[i]] /\ w = [i \in 1..N |-> w[i]]
  BY DEF Follows
<1> QED
  BY <1>1, <1>2

\* The walk meets the nodes in the order of their numbers.
LEMMA WalkIs ==
  ASSUME NEW l, NEW p, Whole(l, p)
  PROVE  Walk(l) = [i \in 1..l.length |-> Numbered(l, p, i)]
<1> DEFINE N == Cardinality(Uid)
           at == CHOOSE f : Follows(l, f)
<1>1. /\ N \in Nat /\ l.length \in Nat /\ l.length <= N /\ Nil \notin Node
      /\ Nodes(l) \subseteq Node /\ Listed(l) \subseteq Nodes(l)
  BY ListFacts DEF Nodes
<1>2. Walk(l) = [i \in {j \in DOMAIN at : at[j] # Nil} |-> at[i]]
  BY DEF Walk, Follows
<1>3. Follows(l, at) /\ Follows(l, Expected(l, p))
  BY ExpectedFollows
<1> HIDE DEF at
<1>4. at = Expected(l, p)
  BY <1>1, <1>3, FollowsOnce
<1>5. DOMAIN at = 1..N /\ \A i \in 1..N : at[i] = IF i <= l.length THEN Numbered(l, p, i) ELSE Nil
  BY <1>4 DEF Expected
<1>6. \A i \in 1..l.length : Numbered(l, p, i) # Nil
  BY <1>1, NumberedIs
<1>7. {j \in DOMAIN at : at[j] # Nil} = 1..l.length
  BY <1>1, <1>5, <1>6
<1>8. \A i \in 1..l.length : at[i] = Numbered(l, p, i)
  BY <1>1, <1>5
<1> HIDE DEF N
<1> QED
  BY <1>2, <1>7, <1>8

\* A node's place on the walk is its number.
LEMMA PlaceIs ==
  ASSUME NEW l, NEW p, Whole(l, p), NEW n \in Nodes(l)
  PROVE  PlaceOf(l, n) = p[n]
<1> DEFINE w == Walk(l)
           T == {0} \cup {i \in DOMAIN w : w[i] = n}
<1>1. l.length \in Nat /\ p[Header] = 0 /\ p[n] \in 0..l.length
  BY ListFacts
<1>2. DOMAIN w = 1..l.length /\ \A i \in 1..l.length : w[i] = Numbered(l, p, i)
  BY WalkIs
<1>3. \A i \in 1..l.length : p[Numbered(l, p, i)] = i
  BY <1>1, NumberedIs
<1>4. Numbered(l, p, p[n]) = n
  BY NumberedIs
<1> HIDE DEF w
<1>5. \A i \in DOMAIN w : w[i] = n => i = p[n]
  BY <1>2, <1>3
<1>6. 0 \in T /\ p[n] \in T /\ p[n] \in Int /\ \A x \in T : x \in Int /\ x <= p[n]
  BY <1>1, <1>2, <1>4, <1>5
<1> HIDE DEF T
<1>7. Max(T) \in T /\ \A x \in T : x <= Max(T)
  BY <1>6, MaxIs
<1>8. Max(T) = p[n]
  BY <1>6, <1>7
<1>9. PlaceOf(l, n) = Max(T)
  BY DEF PlaceOf, T, w
<1> QED
  BY <1>8, <1>9

LEMMA LevelFacts ==
  ASSUME NEW l, NEW p, Whole(l, p), NEW n \in Node, NEW i \in DOMAIN l.levels[n]
  PROVE  /\ n \in Tall(l, i) /\ i \in 0..(MaxLevel - 1)
         /\ n # Header => i < l.level
<1>1. l.level \in 1..MaxLevel /\ MaxLevel \in Nat /\ Header \notin Uid
  BY ListFacts
<1>2. CASE n = Header
  BY <1>2, <1>1 DEF Whole, Shaped, Tall, Nodes
<1>3. CASE n # Header
  <2>1. n \in Listed(l)
    BY <1>3 DEF Node, Listed, Has
  <2>2. PICK h \in 1..l.level : DOMAIN l.levels[n] = 0..(h - 1)
    BY <2>1 DEF Whole, Shaped
  <2>3. n \in Tall(l, i)
    BY <2>1 DEF Tall, Nodes
  <2> QED
    BY <1>1, <2>2, <2>3
<1> QED
  BY <1>2, <1>3

LEMMA WholeSpans == SkipInv => SpansAreDistances
<1> SUFFICES ASSUME SkipInv, NEW n \in Node, NEW i \in DOMAIN list.levels[n], i < list.level
             PROVE  LET link == list.levels[n][i]
                        to == IF link.forward = Nil THEN list.length
                              ELSE PlaceOf(list, link.forward)
                    IN  link.span = to - PlaceOf(list, n)
  BY DEF SpansAreDistances
<1>1. PICK p : Whole(list, p)
  BY DEF SkipInv
<1> DEFINE link == list.levels[n][i]
<1>2. n \in Tall(list, i) /\ i \in 0..(MaxLevel - 1)
  BY <1>1, LevelFacts
<1>3. list.level \in Nat /\ MaxLevel \in Nat /\ Tall(list, i) \subseteq Nodes(list)
  BY <1>1, ListFacts
<1>4. i \in 0..(list.level - 1)
  BY <1>2, <1>3
<1>5. LinkOK(list, p, n, i)
  BY <1>1, <1>2, <1>4 DEF Whole, Leveled
<1>6. /\ link.forward # Nil => link.forward \in Nodes(list)
      /\ link.span = Far(list, p, link.forward) - p[n]
  BY <1>3, <1>5 DEF LinkOK
<1>7. PlaceOf(list, n) = p[n] /\ (link.forward # Nil => PlaceOf(list, link.forward) = p[link.forward])
  BY <1>1, <1>2, <1>3, <1>6, PlaceIs
<1> HIDE DEF link
<1> QED
  BY <1>6, <1>7 DEF Far, link

\* What LevelsAndBackAgree says of a link.
LEMMA LinkLeads ==
  ASSUME NEW l, NEW p, Whole(l, p), NEW n \in Node, NEW i \in DOMAIN l.levels[n]
  PROVE  LET behind == {u \in Uid : i \in DOMAIN l.levels[u] /\ PlaceOf(l, u) > PlaceOf(l, n)}
             next == l.levels[n][i].forward
         IN  IF behind = {} THEN next = Nil
             ELSE next \in behind /\ \A u \in behind : PlaceOf(l, next) <= PlaceOf(l, u)
<1> DEFINE behind == {u \in Uid : i \in DOMAIN l.levels[u] /\ PlaceOf(l, u) > PlaceOf(l, n)}
           next == l.levels[n][i].forward
<1>1. n \in Tall(l, i) /\ i \in 0..(MaxLevel - 1) /\ (n # Header => i < l.level)
  BY LevelFacts
<1>2. /\ l.level \in 1..MaxLevel /\ MaxLevel \in Nat /\ Tall(l, i) \subseteq Nodes(l)
      /\ p[Header] = 0 /\ Header \notin Uid /\ Nodes(l) \subseteq Node
      /\ l.length \in Nat /\ \A m \in Nodes(l) : p[m] \in 0..l.length
  BY ListFacts
<1>3. \A m \in Nodes(l) : PlaceOf(l, m) = p[m]
  BY PlaceIs
<1>4. \A u \in Uid : i \in DOMAIN l.levels[u] => u \in Tall(l, i) /\ i < l.level
  <2>1. ASSUME NEW u \in Uid, i \in DOMAIN l.levels[u] PROVE u \in Tall(l, i) /\ i < l.level
    <3>1. u \in Node /\ u # Header
      BY <1>2 DEF Node
    <3> QED
      BY <2>1, <3>1, LevelFacts
  <2> QED
    BY <2>1
<1>5. behind = {u \in Tall(l, i) : p[n] < p[u]}
  <2>1. ASSUME NEW u \in Uid, i \in DOMAIN l.levels[u], PlaceOf(l, u) > PlaceOf(l, n)
        PROVE  u \in Tall(l, i) /\ p[n] < p[u]
    <3>1. u \in Tall(l, i)
      BY <1>4, <2>1
    <3>2. PlaceOf(l, u) = p[u] /\ PlaceOf(l, n) = p[n] /\ p[u] \in Int /\ p[n] \in Int
      BY <1>1, <1>2, <1>3, <3>1
    <3> QED
      BY <2>1, <3>1, <3>2
  <2>2. ASSUME NEW u \in Tall(l, i), p[n] < p[u]
        PROVE  u \in Uid /\ i \in DOMAIN l.levels[u] /\ PlaceOf(l, u) > PlaceOf(l, n)
    <3>1. u \in Nodes(l) /\ n \in Nodes(l) /\ p[u] \in Nat /\ p[n] \in Nat
      BY <1>1, <1>2
    <3>2. u # Header
      BY <1>2, <2>2, <3>1
    <3>3. u \in Uid /\ i \in DOMAIN l.levels[u]
      BY <3>1, <3>2 DEF Nodes, Listed, Tall
    <3> QED
      BY <1>3, <2>2, <3>1, <3>3
  <2> QED
    BY <2>1, <2>2
<1>6. CASE i < l.level
  <2>1. i \in 0..(l.level - 1)
    BY <1>1, <1>2, <1>6
  <2>2. LinkOK(l, p, n, i)
    BY <1>1, <2>1 DEF Whole, Leveled
  <2> HIDE DEF next, behind
  <2>3. /\ next # Nil => next \in Tall(l, i) /\ p[n] < p[next]
        /\ \A m \in Tall(l, i) : p[n] < p[m] => next # Nil /\ p[next] <= p[m]
    BY <2>2 DEF LinkOK, next
  <2>4. CASE behind = {}
    <3>1. next = Nil
      BY <1>5, <2>3, <2>4
    <3> QED
      BY <2>4, <3>1 DEF behind, next
  <2>5. CASE behind # {}
    <3>1. next # Nil /\ next \in behind /\ \A u \in behind : p[next] <= p[u]
      BY <1>5, <2>3, <2>5
    <3>2. \A u \in behind : PlaceOf(l, u) = p[u]
      BY <1>2, <1>3, <1>5
    <3>3. \A u \in behind : PlaceOf(l, next) <= PlaceOf(l, u)
      BY <3>1, <3>2
    <3> QED
      BY <2>5, <3>1, <3>3 DEF behind, next
  <2> QED
    BY <2>4, <2>5
<1>7. CASE ~(i < l.level)
  <2>1. i \in l.level..(MaxLevel - 1) /\ n = Header
    BY <1>1, <1>2, <1>7
  <2>2. next = Nil
    BY <2>1 DEF Whole, Leveled
  <2>3. behind = {}
    BY <1>4, <1>7
  <2> QED
    BY <2>2, <2>3
<1> QED
  BY <1>6, <1>7

\* What LevelsAndBackAgree says of the way back.
LeadsBack(l, walk) ==
  /\ Len(walk) = l.length /\ {walk[i] : i \in DOMAIN walk} = {u \in Uid : Has(l, u)}
  /\ l.tail = IF walk = <<>> THEN Nil ELSE walk[Len(walk)]
  /\ \A i \in DOMAIN walk : l.backward[walk[i]] = IF i = 1 THEN Nil ELSE walk[i - 1]

LEMMA WalkLeadsBack ==
  ASSUME NEW l, NEW p, Whole(l, p)
  PROVE  LeadsBack(l, Walk(l))
<1> DEFINE w == Walk(l)
<1>1. l.length \in Nat /\ \A n \in Listed(l) : p[n] \in 1..l.length /\ n \in Nodes(l)
  BY ListFacts DEF Nodes
<1>2. w = [i \in 1..l.length |-> Numbered(l, p, i)]
  BY WalkIs
<1>3. /\ \A i \in 1..l.length : Numbered(l, p, i) \in Listed(l) /\ p[Numbered(l, p, i)] = i
      /\ \A n \in Nodes(l) : Numbered(l, p, p[n]) = n
  BY <1>1, NumberedIs
<1>4. Returning(l, p)
  BY DEF Whole
<1> HIDE DEF w
<1>5. DOMAIN w = 1..l.length /\ \A i \in 1..l.length : w[i] \in Listed(l) /\ p[w[i]] = i
  BY <1>2, <1>3
<1>6. \A n \in Listed(l) : w[p[n]] = n
  BY <1>1, <1>2, <1>3
<1>7. w \in Seq(Listed(l)) /\ Len(w) = l.length
  <2> DEFINE k == l.length
             S == Listed(l)
  <2>1. w = [i \in 1..k |-> w[i]]
    BY <1>2
  <2>2. k \in Nat /\ \A i \in 1..k : w[i] \in S
    BY <1>1, <1>5
  <2> HIDE DEF k, S
  <2>3. w \in [1..k -> S]
    BY <2>1, <2>2
  <2> QED
    BY <2>2, <2>3 DEF k, S
<1>8. {w[i] : i \in DOMAIN w} = {u \in Uid : Has(l, u)}
  <2>1. ASSUME NEW n \in Listed(l) PROVE p[n] \in DOMAIN w /\ w[p[n]] = n
    BY <1>1, <1>5, <1>6
  <2>2. {w[i] : i \in DOMAIN w} = Listed(l)
    BY <1>5, <2>1
  <2> QED
    BY <2>2 DEF Listed
<1>9. l.tail = IF w = <<>> THEN Nil ELSE w[Len(w)]
  <2>1. CASE l.length = 0
    BY <1>4, <1>7, <2>1 DEF Returning
  <2>2. CASE l.length # 0
    <3>1. l.tail \in Listed(l) /\ p[l.tail] = l.length
      BY <1>4, <2>2 DEF Returning
    <3>2. w # <<>>
      BY <1>7, <2>2
    <3> QED
      BY <1>6, <1>7, <3>1, <3>2
  <2> QED
    BY <2>1, <2>2
<1>10. ASSUME NEW i \in DOMAIN w PROVE l.backward[w[i]] = IF i = 1 THEN Nil ELSE w[i - 1]
  <2>1. PICK n : n = w[i] /\ n \in Listed(l) /\ p[n] = i
    BY <1>5
  <2>2. IF p[n] = 1 THEN l.backward[n] = Nil
        ELSE l.backward[n] \in Listed(l) /\ p[l.backward[n]] = p[n] - 1
    BY <1>4, <2>1 DEF Returning
  <2>3. CASE i = 1
    BY <2>1, <2>2, <2>3
  <2>4. CASE i # 1
    <3>1. PICK m : m = l.backward[n] /\ m \in Listed(l) /\ p[m] = i - 1
      BY <2>1, <2>2, <2>4
    <3>2. w[i - 1] = m
      BY <1>6, <3>1
    <3> QED
      BY <2>1, <2>4, <3>1, <3>2
  <2> QED
    BY <2>3, <2>4
<1>11. \A i \in DOMAIN w : l.backward[w[i]] = IF i = 1 THEN Nil ELSE w[i - 1]
  BY <1>10
<1>12. LeadsBack(l, w)
  BY <1>7, <1>8, <1>9, <1>11 DEF LeadsBack
<1> QED
  BY <1>12 DEF w

LEMMA WholeAgrees == SkipInv => LevelsAndBackAgree
<1> SUFFICES ASSUME SkipInv PROVE LevelsAndBackAgree
  OBVIOUS
<1>1. PICK p : Whole(list, p)
  BY DEF SkipInv
<1>2. PICK l : l = list
  OBVIOUS
<1>3. LeadsBack(l, Walk(l))
  BY <1>1, <1>2, WalkLeadsBack
<1>4. ASSUME NEW n \in Node, NEW i \in DOMAIN l.levels[n]
      PROVE  LET behind == {u \in Uid : i \in DOMAIN l.levels[u] /\ PlaceOf(l, u) > PlaceOf(l, n)}
                 next == l.levels[n][i].forward
             IN  IF behind = {} THEN next = Nil
                 ELSE next \in behind /\ \A u \in behind : PlaceOf(l, next) <= PlaceOf(l, u)
  BY <1>1, <1>2, LinkLeads
<1> QED
  BY <1>2, <1>3, <1>4 DEF LevelsAndBackAgree, LeadsBack

\* Insertion and deletion keep the spans, on every level, what they have to be
\* for a rank to be a sum of spans: the distances covered on the lowest level.
THEOREM SpansStayDistances == Spec => []SpansAreDistances
  BY ListStaysWhole, WholeSpans, PTL

\* Insertion and deletion link each level to exactly the nodes that have it, in
\* the order of the lowest level, and keep backward_ and tail_ the way back.
THEOREM LevelsStayLinked == Spec => []LevelsAndBackAgree
  BY ListStaysWhole, WholeAgrees, PTL
-----------------------------------------------------------------------------
(* The queries.                                                            *)

\* A search for a rank ends at the node of that number.
LEMMA NodeByRankIs ==
  ASSUME NEW l, NEW p, Whole(l, p), NEW r \in 1..l.length
  PROVE  GetNodeByRank(l, r) = Numbered(l, p, r)
<1> DEFINE pass == {q \in Position : r < 0 \/ q.rank <= r}
           at == Search(l, pass)
           T == {-1} \cup {j \in 0..(l.level - 1) : at[j].rank = r}
           i == Max(T)
<1>1. /\ l.length \in Nat /\ r \in 0..l.length /\ r \in Nat /\ r # 0 /\ ~(r < 0)
      /\ l.level \in 1..MaxLevel /\ MaxLevel \in Nat
      /\ \A n \in Listed(l) : n \in Node /\ p[n] \in Int
  BY ListFacts DEF Nodes
<1>2. Cuts(l, p, pass, r)
  <2>1. ASSUME NEW n \in Listed(l) PROVE Stand(p, n) \in pass <=> p[n] <= r
    <3>1. Stand(p, n) \in Position /\ Stand(p, n).rank = p[n]
      BY <1>1 DEF Stand, Position
    <3> QED
      BY <1>1, <3>1
  <2> QED
    BY <1>1, <2>1 DEF Cuts
<1>3. at = Found(l, p, r)
  BY <1>2, SearchIs
<1>4. GetNodeByRank(l, r) = IF r # 0 /\ i >= 0 THEN at[i].node ELSE Nil
  BY DEF GetNodeByRank, TopLevel
<1> HIDE DEF at
<1>5. \A j \in 0..(l.level - 1) :
        /\ at[j].rank = p[Last(l, p, j, r)] /\ at[j].node = Last(l, p, j, r)
        /\ Last(l, p, j, r) \in Nodes(l)
  <2>1. ASSUME NEW j \in 0..(l.level - 1)
        PROVE  /\ at[j].rank = p[Last(l, p, j, r)] /\ at[j].node = Last(l, p, j, r)
               /\ Last(l, p, j, r) \in Nodes(l)
    <3>1. j \in 0..(MaxLevel - 1) /\ j \in 0..l.level /\ j # l.level
      BY <1>1
    <3>2. at[j] = Stand(p, Last(l, p, j, r))
      BY <1>3, <3>1 DEF Found
    <3>3. Last(l, p, j, r) \in Nodes(l)
      BY <1>1, <3>1, LastIs, ListFacts
    <3> QED
      BY <3>2, <3>3 DEF Stand
  <2> QED
    BY <2>1
<1>6. 0 \in T /\ \A j \in T : j \in Int /\ j <= l.level
  <2>1. p[Last(l, p, 0, r)] = r
    BY <1>1, LowestIs
  <2>2. 0 \in 0..(l.level - 1)
    BY <1>1
  <2> QED
    BY <1>1, <1>5, <2>1, <2>2
<1> HIDE DEF i
<1>7. i \in T /\ \A j \in T : j <= i
  <2> HIDE DEF T
  <2>1. l.level \in Int
    BY <1>1
  <2> QED
    BY <1>6, <2>1, MaxIs DEF i
<1>8. i >= 0 /\ i \in 0..(l.level - 1) /\ at[i].rank = r
  BY <1>6, <1>7
<1>9. at[i].node \in Nodes(l) /\ p[at[i].node] = r
  BY <1>5, <1>8
<1>10. Numbered(l, p, r) = at[i].node
  BY <1>9, NumberedIs
<1> QED
  BY <1>1, <1>4, <1>8, <1>10

Visits(l, start, reverse, k, g) ==
  g = [i \in 1..k |->
         IF i = 1 THEN start
         ELSE IF g[i - 1] = Nil THEN Nil
              ELSE IF reverse THEN l.backward[g[i - 1]] ELSE l.levels[g[i - 1]][0].forward]
\* The nodes from number f on, up or down.
Passed(l, p, f, reverse, k) ==
  [i \in 1..k |-> Numbered(l, p, IF reverse THEN l.length + 2 - f - i ELSE f + i - 1)]

\* The node visited at place i, from the one before it.
Visited(l, start, reverse, g, i) ==
  IF i = 1 THEN start
  ELSE IF g[i - 1] = Nil THEN Nil
       ELSE IF reverse THEN l.backward[g[i - 1]] ELSE l.levels[g[i - 1]][0].forward

\* What Visits says of one place of the visit.
LEMMA VisitsAt ==
  ASSUME NEW l, NEW start, NEW reverse, NEW k \in Nat, NEW g, Visits(l, start, reverse, k, g),
         NEW i \in 1..k
  PROVE  g[i] = Visited(l, start, reverse, g, i)
<1> DEFINE v == [j \in 1..k |->
                   IF j = 1 THEN start
                   ELSE IF g[j - 1] = Nil THEN Nil
                        ELSE IF reverse THEN l.backward[g[j - 1]] ELSE l.levels[g[j - 1]][0].forward]
<1>1. g = v
  BY DEF Visits
<1>2. v[i] = Visited(l, start, reverse, g, i)
  BY DEF Visited
<1> HIDE DEF v
<1> QED
  BY <1>1, <1>2

LEMMA VisitsOnce ==
  ASSUME NEW l, NEW start, NEW reverse, NEW k \in Nat, NEW g, NEW h,
         Visits(l, start, reverse, k, g), Visits(l, start, reverse, k, h)
  PROVE  g = h
<1> DEFINE T == {i \in 1..k : g[i] # h[i]}
<1>1. T = {}
  <2> SUFFICES ASSUME T # {} PROVE FALSE
    OBVIOUS
  <2>1. T \subseteq Nat
    OBVIOUS
  <2>2. PICK i \in T : \A j \in T : i <= j
    BY <2>1, LeastNat
  <2>3. i \in 1..k /\ g[i] # h[i]
    OBVIOUS
  <2>4. g[i] = Visited(l, start, reverse, g, i) /\ h[i] = Visited(l, start, reverse, h, i)
    BY <2>3, VisitsAt
  <2>5. i # 1
    BY <2>3, <2>4 DEF Visited
  <2>6. i - 1 \in 1..k /\ ~(i <= i - 1)
    BY <2>3, <2>5
  <2>7. g[i - 1] = h[i - 1]
    BY <2>2, <2>6
  <2> QED
    BY <2>3, <2>4, <2>7 DEF Visited
<1>2. g = [i \in 1..k |-> g[i]] /\ h = [i \in 1..k |-> h[i]]
  BY DEF Visits
<1> QED
  BY <1>1, <1>2

LEMMA PassedVisits ==
  ASSUME NEW l, NEW p, Whole(l, p), NEW f \in 1..l.length, NEW reverse \in BOOLEAN,
         NEW k \in 1..(l.length + 1 - f)
  PROVE  Visits(l, Numbered(l, p, IF reverse THEN l.length + 1 - f ELSE f), reverse, k,
                Passed(l, p, f, reverse, k))
<1> DEFINE w == Passed(l, p, f, reverse, k)
           start == Numbered(l, p, IF reverse THEN l.length + 1 - f ELSE f)
           at(i) == IF reverse THEN l.length + 2 - f - i ELSE f + i - 1
<1>1. /\ l.length \in Nat /\ Nil \notin Node
      /\ Nodes(l) \subseteq Node /\ Listed(l) \subseteq Nodes(l)
  BY ListFacts DEF Nodes
<1>2. /\ \A i \in 1..l.length : Numbered(l, p, i) \in Listed(l) /\ p[Numbered(l, p, i)] = i
      /\ \A n \in Nodes(l) : Numbered(l, p, p[n]) = n
  BY <1>1, NumberedIs
<1>3. ASSUME NEW i \in 1..k PROVE at(i) \in 1..l.length
  BY <1>1
<1>4. ASSUME NEW i \in 1..k
      PROVE  w[i] = IF i = 1 THEN start
                    ELSE IF w[i - 1] = Nil THEN Nil
                         ELSE IF reverse THEN l.backward[w[i - 1]] ELSE l.levels[w[i - 1]][0].forward
  <2>1. w[i] = Numbered(l, p, at(i))
    BY DEF Passed
  <2>2. CASE i = 1
    <3>1. at(1) = IF reverse THEN l.length + 1 - f ELSE f
      BY <1>1
    <3> HIDE DEF w, at
    <3> QED
      BY <2>1, <2>2, <3>1
  <2>3. CASE i # 1
    <3>1. i - 1 \in 1..k /\ i \in Int
      BY <1>1, <2>3
    <3>2. w[i - 1] = Numbered(l, p, at(i - 1))
      BY <3>1 DEF Passed
    <3>3. at(i) \in 1..l.length /\ at(i - 1) \in 1..l.length
      BY <1>3, <3>1
    <3>4. IF reverse THEN at(i) = at(i - 1) - 1 ELSE at(i) = at(i - 1) + 1
      BY <1>1, <3>1
    <3> DEFINE n == Numbered(l, p, at(i - 1))
    <3> HIDE DEF w, at
    <3>5. n \in Listed(l) /\ n \in Nodes(l) /\ p[n] = at(i - 1) /\ n # Nil
      BY <1>1, <1>2, <3>3
    <3> HIDE DEF n
    <3>6. CASE reverse
      <4>1. at(i) = p[n] - 1 /\ p[n] # 1
        BY <1>1, <3>3, <3>4, <3>5, <3>6
      <4>2. l.backward[n] \in Listed(l) /\ p[l.backward[n]] = p[n] - 1
        BY <3>5, <4>1 DEF Whole, Returning
      <4>3. Numbered(l, p, at(i)) = l.backward[n]
        BY <1>1, <1>2, <4>1, <4>2
      <4> QED
        BY <2>1, <2>3, <3>2, <3>5, <3>6, <4>3 DEF n
    <3>7. CASE ~reverse
      <4>1. at(i) = p[n] + 1 /\ p[n] # l.length
        BY <1>1, <3>3, <3>4, <3>5, <3>7
      <4>2. l.levels[n][0].forward \in Listed(l) /\ p[l.levels[n][0].forward] = p[n] + 1
        BY <3>5, <4>1, NextIs
      <4>3. Numbered(l, p, at(i)) = l.levels[n][0].forward
        BY <1>1, <1>2, <4>1, <4>2
      <4> QED
        BY <2>1, <2>3, <3>2, <3>5, <3>7, <4>3 DEF n
    <3> QED
      BY <3>6, <3>7
  <2> QED
    BY <2>2, <2>3
<1>5. w = [i \in 1..k |-> w[i]]
  BY DEF Passed
<1> HIDE DEF w, start
<1>6. w = [i \in 1..k |->
             IF i = 1 THEN start
             ELSE IF w[i - 1] = Nil THEN Nil
                  ELSE IF reverse THEN l.backward[w[i - 1]] ELSE l.levels[w[i - 1]][0].forward]
  BY <1>4, <1>5
<1> QED
  BY <1>6 DEF Visits, w, start

\* What GetRangeWithFlag takes a range to be: where it starts, how many nodes.
First(l, first) == IF first = 0 \/ first > l.length THEN 1 ELSE first
Until(l, last)  == IF last = 0 \/ last > l.length THEN l.length ELSE last
Many(l, first, last) ==
  IF Until(l, last) < First(l, first) THEN 1 ELSE Until(l, last) - First(l, first) + 1

LEMMA RangeIs ==
  ASSUME NEW l, NEW p, Whole(l, p), l.length > 0, NEW first \in Nat, NEW last \in Nat,
         NEW reverse \in BOOLEAN
  PROVE  /\ First(l, first) \in 1..l.length
         /\ Many(l, first, last) \in 1..(l.length + 1 - First(l, first))
         /\ RangeNodes(l, first, last, reverse)
              = Passed(l, p, First(l, first), reverse, Many(l, first, last))
<1> DEFINE f == First(l, first)
           e == Until(l, last)
           k == Max({e, f}) - f + 1
           r == IF reverse THEN l.length + 1 - f ELSE f
           start == GetNodeByRank(l, r)
           node == RangeNodes(l, first, last, reverse)
<1>1. l.length \in Nat /\ f \in 1..l.length /\ e \in 1..l.length /\ r \in 1..l.length
  BY ListFacts DEF First, Until
<1>2. Max({e, f}) \in {e, f} /\ \A x \in {e, f} : x <= Max({e, f})
  <2>1. f \in {e, f} /\ l.length \in Int /\ \A x \in {e, f} : x \in Int /\ x <= l.length
    BY <1>1
  <2> HIDE DEF e, f
  <2> QED
    BY <2>1, MaxIs
<1>3. node = CHOOSE g : Visits(l, start, reverse, k, g)
  BY DEF RangeNodes, Visits, First, Until
<1> HIDE DEF node, e
<1>4. k = Many(l, first, last)
  <2> HIDE DEF f
  <2>1. k = IF e < f THEN 1 ELSE e - f + 1
    BY <1>1, <1>2
  <2> QED
    BY <2>1 DEF Many, e, f
<1>5. k \in 1..(l.length + 1 - f) /\ k \in Nat
  <2> HIDE DEF f
  <2> QED
    BY <1>1, <1>2
<1>6. start = Numbered(l, p, r)
  <2> HIDE DEF r
  <2> QED
    BY <1>1, NodeByRankIs
<1> HIDE DEF start, k, f
<1>7. Visits(l, start, reverse, k, Passed(l, p, f, reverse, k))
  BY <1>1, <1>5, <1>6, PassedVisits
<1>8. node = Passed(l, p, f, reverse, k)
  BY <1>3, <1>5, <1>7, VisitsOnce
<1> QED
  BY <1>1, <1>4, <1>5, <1>8 DEF node, f

\* The loop of GetRangeWithFlag visits nodes only.
LEMMA RangeVisitsNodes ==
  ASSUME NEW l, NEW p, Whole(l, p), l.length > 0, NEW first \in Nat, NEW last \in Nat,
         NEW reverse \in BOOLEAN
  PROVE  LET node == RangeNodes(l, first, last, reverse)
         IN  \A i \in DOMAIN node : node[i] \in Listed(l)
<1> DEFINE f == First(l, first)
           k == Many(l, first, last)
           node == RangeNodes(l, first, last, reverse)
<1>1. f \in 1..l.length /\ k \in 1..(l.length + 1 - f) /\ node = Passed(l, p, f, reverse, k)
  BY RangeIs
<1>2. l.length \in Nat
  BY ListFacts
<1> HIDE DEF node, f, k
<1>3. ASSUME NEW i \in 1..k PROVE node[i] \in Listed(l)
  <2>1. (IF reverse THEN l.length + 2 - f - i ELSE f + i - 1) \in 1..l.length
    BY <1>1, <1>2
  <2> QED
    BY <1>1, <2>1, NumberedIs DEF Passed
<1>4. DOMAIN node = 1..k
  BY <1>1 DEF Passed
<1> QED
  BY <1>3, <1>4 DEF node

\* No query follows a null pointer, as long as no range is asked of an empty
\* list: what the searches and loops of GetNodeByRank and GetRangeWithFlag
\* follow are links between nodes of the list.
THEOREM NoNullIsFollowed ==
  ASSUME ~AskEmpty
  PROVE  Spec => []NoNullFollowed
<1>1. Init => NoNullFollowed
  BY DEF Init, NoNullFollowed
<1>2. SkipInv /\ NoNullFollowed /\ [Next]_vars => NoNullFollowed'
  <2> SUFFICES ASSUME SkipInv, NoNullFollowed, [Next]_vars PROVE crashed' = FALSE \/ UNCHANGED crashed
    BY DEF NoNullFollowed
  <2>1. PICK p : Whole(list, p)
    BY DEF SkipInv
  <2>2. ASSUME NEW f \in Ranks, NEW e \in Ranks, AskRange(f, e) PROVE UNCHANGED crashed
    <3>1. list.length > 0 /\ f \in Nat /\ e \in Nat
      BY <2>2, RankAssumption DEF AskRange
    <3>2. \A reverse \in BOOLEAN :
            LET node == RangeNodes(list, f, e, reverse)
            IN  \A i \in DOMAIN node : node[i] \in Listed(list)
      BY <2>1, <3>1, RangeVisitsNodes
    <3>3. Nil \notin Listed(list)
      BY RankAssumption DEF Listed, Nil
    <3> QED
      BY <2>2, <3>2, <3>3 DEF AskRange
  <2>3. ASSUME NEW e \in Entry, Update(e) PROVE UNCHANGED crashed
    BY <2>3 DEF Update
  <2>4. ASSUME NEW u \in Uid, Delete(u) \/ AskUid(u) PROVE UNCHANGED crashed
    BY <2>4 DEF Delete, AskUid
  <2>5. ASSUME NEW r \in Ranks, AskRank(r) PROVE UNCHANGED crashed
    BY <2>5 DEF AskRank
  <2>6. Return \/ UNCHANGED vars => UNCHANGED crashed
    BY DEF Return, vars
  <2> QED
    BY <2>2, <2>3, <2>4, <2>5, <2>6 DEF Next
<1> QED
  BY <1>1, <1>2, ListStaysWhole, PTL DEF Spec
-----------------------------------------------------------------------------
(* What the list stands for.                                               *)

Ranked(l)  == [i \in DOMAIN Walk(l) |-> l.uaks[Walk(l)[i]]]
Entries(l) == {l.uaks[n] : n \in Listed(l)}

\* The order of Ranking is that of CompUaks.
LEMMA ComesBefore ==
  ASSUME Documented[Type] = Order, NEW e \in Entry, NEW f \in Entry, CompUaks(Order, e, f)
  PROVE  Promise!Before(e, f)
<1> DEFINE differ == {i \in 1..Order.keys : e[i] # f[i]}
<1>1. Order.keys \in 1..3
  BY RankAssumption, OrderOfType DEF Order
<1>2. Promise!Before(e, f) <=>
        IF differ = {} THEN e[0] < f[0]
        ELSE IF Min(differ) \in Order.desc THEN e[Min(differ)] > f[Min(differ)]
             ELSE e[Min(differ)] < f[Min(differ)]
  BY DEF Promise!Before, Promise!Min, Min
<1>3. CASE (\A i \in 1..Order.keys : e[i] = f[i]) /\ e[0] < f[0]
  <2>1. differ = {}
    BY <1>3
  <2> QED
    BY <1>2, <1>3, <2>1
<1>4. CASE \E i \in 1..Order.keys :
             Precedes(Order.desc, i, e, f) /\ \A j \in 1..(i - 1) : e[j] = f[j]
  <2>1. PICK i \in 1..Order.keys :
               Precedes(Order.desc, i, e, f) /\ \A j \in 1..(i - 1) : e[j] = f[j]
    BY <1>4
  <2>2. e[i] \in Nat /\ f[i] \in Nat
    <3>1. i \in 1..Order.keys /\ i \in 0..Order.keys
      BY <1>1
    <3> QED
      BY <3>1, RankAssumption DEF Entry
  <2>3. e[i] # f[i]
    BY <2>1, <2>2 DEF Precedes
  <2>4. i \in differ /\ \A j \in differ : i <= j /\ j \in Int
    BY <1>1, <2>1, <2>3
  <2> HIDE DEF differ
  <2>5. ASSUME NEW x \in differ, \A y \in differ : x <= y PROVE x = i
    <3>1. x \in Int /\ i \in Int /\ i <= x /\ x <= i
      BY <2>4, <2>5
    <3> QED
      BY <3>1
  <2>6. Min(differ) = i
    BY <2>4, <2>5 DEF Min
  <2> QED
    BY <1>2, <2>1, <2>4, <2>6 DEF Precedes
<1> QED
  BY <1>3, <1>4 DEF CompUaks

LEMMA RankedIs ==
  ASSUME NEW l, NEW p, Whole(l, p)
  PROVE  /\ Ranked(l) = [i \in 1..l.length |-> l.uaks[Numbered(l, p, i)]]
         /\ Ranked(l) \in Seq(Entries(l)) /\ Len(Ranked(l)) = l.length
         /\ \A i \in 1..l.length : Ranked(l)[i] \in Entry /\ Ranked(l)[i][0] = Numbered(l, p, i)
<1> DEFINE s == Ranked(l)
<1>1. l.length \in Nat
  BY ListFacts
<1>2. Walk(l) = [i \in 1..l.length |-> Numbered(l, p, i)]
  BY WalkIs
<1>3. s = [i \in 1..l.length |-> l.uaks[Numbered(l, p, i)]]
  <2> DEFINE w == Walk(l)
  <2> HIDE DEF w
  <2>1. DOMAIN w = 1..l.length /\ \A i \in 1..l.length : w[i] = Numbered(l, p, i)
    BY <1>2 DEF w
  <2>2. Ranked(l) = [i \in DOMAIN w |-> l.uaks[w[i]]]
    BY DEF Ranked, w
  <2> QED
    BY <2>1, <2>2
<1>4. \A i \in 1..l.length : Numbered(l, p, i) \in Listed(l)
  BY <1>1, NumberedIs
<1>5. \A n \in Listed(l) : l.uaks[n] \in Entry /\ l.uaks[n][0] = n /\ l.uaks[n] \in Entries(l)
  BY DEF Whole, Shaped, Entries
<1> HIDE DEF s
<1>6. s \in Seq(Entries(l)) /\ Len(s) = l.length
  <2> DEFINE k == l.length
             S == Entries(l)
  <2>1. k \in Nat /\ \A i \in 1..k : l.uaks[Numbered(l, p, i)] \in S
    BY <1>1, <1>4, <1>5
  <2>2. s \in [1..k -> S]
    <3>1. s = [i \in 1..k |-> l.uaks[Numbered(l, p, i)]]
      BY <1>3
    <3> HIDE DEF k, S
    <3> QED
      BY <2>1, <3>1
  <2> HIDE DEF k, S
  <2> QED
    BY <2>1, <2>2 DEF k, S
<1> QED
  BY <1>3, <1>4, <1>5, <1>6 DEF s

\* What the list stands for is its entries in their order.
LEMMA RankedArranged ==
  ASSUME NEW l, NEW p, Whole(l, p), Documented[Type] = Order
  PROVE  Promise!Arranged(Ranked(l), Entries(l))
<1> DEFINE s == Ranked(l)
<1>1. l.length \in Nat /\ \A n \in Listed(l) : p[n] \in 1..l.length /\ n \in Nodes(l)
  BY ListFacts DEF Nodes
<1>2. /\ \A i \in 1..l.length : s[i] = l.uaks[Numbered(l, p, i)]
      /\ s \in Seq(Entries(l)) /\ Len(s) = l.length
  BY RankedIs
<1>3. /\ \A i \in 1..l.length : Numbered(l, p, i) \in Listed(l) /\ p[Numbered(l, p, i)] = i
      /\ \A n \in Nodes(l) : Numbered(l, p, p[n]) = n
  BY <1>1, NumberedIs
<1> HIDE DEF s
<1>4. DOMAIN s = 1..l.length
  BY <1>2
<1>5. {s[i] : i \in DOMAIN s} = Entries(l)
  <2>1. ASSUME NEW i \in 1..l.length PROVE s[i] \in Entries(l)
    BY <1>2, <1>3 DEF Entries
  <2>2. ASSUME NEW n \in Listed(l) PROVE p[n] \in 1..l.length /\ s[p[n]] = l.uaks[n]
    BY <1>1, <1>2, <1>3
  <2> QED
    BY <1>4, <2>1, <2>2 DEF Entries
<1>6. ASSUME NEW i \in DOMAIN s, NEW j \in DOMAIN s, i < j PROVE Promise!Before(s[i], s[j])
  <2>1. PICK m \in Listed(l), n \in Listed(l) : p[m] = i /\ p[n] = j /\ s[i] = l.uaks[m] /\ s[j] = l.uaks[n]
    BY <1>2, <1>3, <1>4
  <2>2. CompUaks(Order, l.uaks[m], l.uaks[n])
    BY <1>6, <2>1 DEF Whole, Sorted
  <2>3. l.uaks[m] \in Entry /\ l.uaks[n] \in Entry
    BY DEF Whole, Shaped
  <2> QED
    BY <2>1, <2>2, <2>3, ComesBefore
<1> QED
  BY <1>2, <1>5, <1>6 DEF Promise!Arranged, Promise!ToSet, s

LEMMA EntriesOfInsert ==
  ASSUME NEW l, NEW p, Whole(l, p), NEW e \in Entry, e[0] \notin Listed(l),
         NEW height \in 1..MaxLevel
  PROVE  Entries(Insert(l, e, height)) = Entries(l) \cup {e}
<1>1. PICK t : Before(l, p, e, t)
  BY NewPlace
<1> DEFINE r == Insert(l, e, height)
<1>2. Inserted(l, p, t, e, height, r)
  BY <1>1, InsertIs
<1> HIDE DEF r
<1>3. e[0] \in Uid /\ Listed(r) = Listed(l) \cup {e[0]}
  BY <1>1, <1>2, InsertedNodes
<1>4. r.uaks = [l.uaks EXCEPT ![e[0]] = e]
  BY <1>2 DEF Inserted
<1>5. DOMAIN l.uaks = Uid /\ Listed(l) \subseteq Uid
  BY ListFacts DEF Whole, Shaped
<1>6. r.uaks[e[0]] = e /\ \A n \in Listed(l) : r.uaks[n] = l.uaks[n]
  BY <1>3, <1>4, <1>5
<1> QED
  BY <1>3, <1>6 DEF Entries, r

LEMMA EntriesOfDeleted ==
  ASSUME NEW l, NEW p, Whole(l, p), NEW u \in Uid
  PROVE  Entries(Deleted(l, u)) = {e \in Entries(l) : e[0] # u}
<1>1. \A n \in Listed(l) : l.uaks[n][0] = n
  BY DEF Whole, Shaped
<1>2. CASE ~Has(l, u)
  <2>1. Deleted(l, u) = l /\ u \notin Listed(l)
    BY <1>2 DEF Deleted, Listed
  <2> QED
    BY <1>1, <2>1 DEF Entries
<1>3. CASE Has(l, u)
  <2> DEFINE r == Remove(l, u)
  <2>1. u \in Listed(l) /\ Deleted(l, u) = r
    BY <1>3 DEF Listed, Deleted
  <2>2. Removed(l, p, u, r)
    BY <2>1, RemoveIs
  <2> HIDE DEF r
  <2>3. Listed(r) = Listed(l) \ {u}
    BY <2>1, <2>2, RemovedNodes
  <2>4. r.uaks = [l.uaks EXCEPT ![u] = <<>>] /\ DOMAIN l.uaks = Uid /\ Listed(l) \subseteq Uid
    BY <2>2, ListFacts DEF Removed, Whole, Shaped
  <2>5. \A n \in Listed(r) : r.uaks[n] = l.uaks[n]
    BY <2>3, <2>4
  <2> QED
    BY <1>1, <2>1, <2>3, <2>5 DEF Entries
<1> QED
  BY <1>2, <1>3

-----------------------------------------------------------------------------
(* What the queries return.                                                *)

\* A search for a uid returns the number of its node.
LEMMA RankIs ==
  ASSUME NEW l, NEW p, Whole(l, p), NEW u \in Uid
  PROVE  GetRank(l, u) = IF Has(l, u) THEN p[u] ELSE 0
<1>1. CASE ~Has(l, u)
  BY <1>1 DEF GetRank
<1>2. CASE Has(l, u)
  <2> DEFINE pass == {q \in Position : RankPasses(l, u, q.node)}
             at == Search(l, pass)
             T == {-1} \cup {j \in 0..(l.level - 1) : at[j].node = u}
             i == Max(T)
             r == p[u]
  <2>1. u \in Listed(l) /\ u \in Nodes(l)
    BY <1>2 DEF Listed, Nodes
  <2>2. /\ l.length \in Nat /\ r \in 0..l.length /\ r \in 1..l.length
        /\ l.level \in 1..MaxLevel /\ MaxLevel \in Nat
        /\ \A n \in Listed(l) : n \in Node /\ p[n] \in Int /\ n \in Nodes(l)
    BY <2>1, ListFacts DEF Nodes
  <2> HIDE DEF r
  <2>3. Cuts(l, p, pass, r)
    <3>1. ASSUME NEW n \in Listed(l) PROVE Stand(p, n) \in pass <=> p[n] <= r
      <4>1. Stand(p, n) \in Position /\ Stand(p, n).node = n
        BY <2>2 DEF Stand, Position
      <4>2. CompUaks(Order, l.uaks[n], l.uaks[u]) <=> p[n] <= r - 1
        BY <2>1, OldPlace DEF Before, r
      <4>3. n = u <=> p[n] = r
        BY <2>1, <2>2 DEF Whole, Numbers, r
      <4>4. RankPasses(l, u, n) <=> p[n] <= r
        BY <2>2, <4>2, <4>3 DEF RankPasses
      <4> QED
        BY <4>1, <4>4
    <3> QED
      BY <2>2, <3>1 DEF Cuts
  <2>4. at = Found(l, p, r)
    BY <2>3, SearchIs
  <2>5. GetRank(l, u) = IF i >= 0 THEN at[i].rank ELSE 0
    BY <1>2 DEF GetRank, TopLevel
  <2> HIDE DEF at
  <2>6. ASSUME NEW j \in 0..(l.level - 1)
        PROVE  /\ at[j].rank = p[Last(l, p, j, r)] /\ at[j].node = Last(l, p, j, r)
               /\ Last(l, p, j, r) \in Nodes(l)
    <3>1. j \in 0..(MaxLevel - 1) /\ j \in 0..l.level /\ j # l.level
      BY <2>2
    <3>2. at[j] = Stand(p, Last(l, p, j, r))
      BY <2>4, <3>1 DEF Found
    <3>3. Last(l, p, j, r) \in Nodes(l)
      BY <2>2, <3>1, LastIs, ListFacts
    <3> QED
      BY <3>2, <3>3 DEF Stand
  <2>7. 0 \in T /\ \A j \in T : j \in Int /\ j <= l.level
    <3>1. p[Last(l, p, 0, r)] = r /\ 0 \in 0..(l.level - 1)
      BY <2>2, LowestIs
    <3>2. Last(l, p, 0, r) \in Nodes(l) /\ at[0].node = Last(l, p, 0, r)
      BY <2>6, <3>1
    <3>3. at[0].node = u
      BY <2>1, <3>1, <3>2 DEF Whole, Numbers, r
    <3> QED
      BY <2>2, <3>1, <3>3
  <2> HIDE DEF i
  <2>8. i \in T /\ \A j \in T : j <= i
    <3> HIDE DEF T
    <3>1. l.level \in Int
      BY <2>2
    <3> QED
      BY <2>7, <3>1, MaxIs DEF i
  <2>9. i >= 0 /\ i \in 0..(l.level - 1) /\ at[i].node = u
    BY <2>7, <2>8
  <2>10. at[i].rank = r
    BY <2>6, <2>9 DEF r
  <2> QED
    BY <1>2, <2>5, <2>9, <2>10 DEF r
<1> QED
  BY <1>1, <1>2

\* A search for a rank beyond the end, or for a negative one, finds nothing.
LEMMA NoNodeByRank ==
  ASSUME NEW l, NEW p, Whole(l, p), NEW r \in Int, r \notin 1..l.length
  PROVE  GetNodeByRank(l, r) = Nil
<1>1. CASE r = 0
  BY <1>1 DEF GetNodeByRank
<1>2. CASE r # 0
  <2> DEFINE pass == {q \in Position : r < 0 \/ q.rank <= r}
             at == Search(l, pass)
             T == {-1} \cup {j \in 0..(l.level - 1) : at[j].rank = r}
             t == l.length
  <2>1. /\ t \in Nat /\ t \in 0..l.length /\ l.level \in 1..MaxLevel /\ MaxLevel \in Nat
        /\ \A n \in Listed(l) : n \in Node /\ p[n] \in 1..l.length
        /\ \A n \in Nodes(l) : p[n] \in 0..l.length
    BY ListFacts DEF Nodes
  <2>2. r < 0 \/ r > t
    BY <1>2, <2>1
  <2>3. Cuts(l, p, pass, t)
    <3>1. ASSUME NEW n \in Listed(l) PROVE Stand(p, n) \in pass <=> p[n] <= t
      <4>1. Stand(p, n) \in Position /\ Stand(p, n).rank = p[n]
        BY <2>1 DEF Stand, Position
      <4>2. p[n] <= t /\ (r < 0 \/ p[n] <= r)
        BY <2>1, <2>2
      <4> QED
        BY <4>1, <4>2
    <3> QED
      BY <2>1, <3>1 DEF Cuts
  <2>4. at = Found(l, p, t)
    BY <2>3, SearchIs
  <2>5. GetNodeByRank(l, r) = IF r # 0 /\ Max(T) >= 0 THEN at[Max(T)].node ELSE Nil
    BY DEF GetNodeByRank, TopLevel
  <2> HIDE DEF at
  <2>6. ASSUME NEW j \in 0..(l.level - 1) PROVE at[j].rank # r
    <3>1. j \in 0..(MaxLevel - 1) /\ j \in 0..l.level /\ j # l.level
      BY <2>1
    <3>2. at[j] = Stand(p, Last(l, p, j, t))
      BY <2>4, <3>1 DEF Found
    <3>3. Last(l, p, j, t) \in Nodes(l)
      BY <2>1, <3>1, LastIs, ListFacts
    <3>4. at[j].rank = p[Last(l, p, j, t)]
      BY <3>2 DEF Stand
    <3> QED
      BY <2>1, <2>2, <3>3, <3>4
  <2>7. T = {-1}
    BY <2>6
  <2>8. Max(T) = -1
    <3>1. -1 \in T /\ -1 \in Int /\ \A x \in T : x \in Int /\ x <= -1
      BY <2>7
    <3>2. Max(T) \in T
      <4> HIDE DEF T
      <4> QED
        BY <3>1, MaxIs
    <3> QED
      BY <2>7, <3>2
  <2> QED
    BY <2>5, <2>8
<1> QED
  BY <1>1, <1>2

\* A range of an empty list starts with a null pointer.
LEMMA EmptyRange ==
  ASSUME NEW l, NEW p, Whole(l, p), l.length = 0, NEW first \in Nat, NEW last \in Nat,
         NEW reverse \in BOOLEAN
  PROVE  \E i \in DOMAIN RangeNodes(l, first, last, reverse) :
           RangeNodes(l, first, last, reverse)[i] = Nil
<1> DEFINE f == First(l, first)
           e == Until(l, last)
           k == Max({e, f}) - f + 1
           r == IF reverse THEN l.length + 1 - f ELSE f
           start == GetNodeByRank(l, r)
           node == RangeNodes(l, first, last, reverse)
<1>1. f = 1 /\ e = 0 /\ r \in Int /\ r \notin 1..l.length
  BY DEF First, Until
<1>2. Max({e, f}) = 1
  <2>1. 1 \in {e, f} /\ 1 \in Int /\ \A x \in {e, f} : x \in Int /\ x <= 1
    BY <1>1
  <2> HIDE DEF e, f
  <2>2. Max({e, f}) \in {e, f} /\ 1 <= Max({e, f})
    BY <2>1, MaxIs
  <2> QED
    BY <1>1, <2>2 DEF e, f
<1>3. node = CHOOSE g : Visits(l, start, reverse, k, g)
  BY DEF RangeNodes, Visits, First, Until
<1> HIDE DEF node, e, f, r
<1>4. k = 1
  BY <1>1, <1>2
<1>5. start = Nil
  BY <1>1, NoNodeByRank
<1> HIDE DEF start, k
<1> DEFINE w == [i \in 1..1 |-> Nil]
<1>6. Visits(l, start, reverse, k, w)
  <2>1. \A i \in 1..1 : i = 1
    OBVIOUS
  <2>2. w = [i \in 1..k |-> IF i = 1 THEN start
                            ELSE IF w[i - 1] = Nil THEN Nil
                                 ELSE IF reverse THEN l.backward[w[i - 1]]
                                      ELSE l.levels[w[i - 1]][0].forward]
    BY <1>4, <1>5, <2>1
  <2> QED
    BY <2>2 DEF Visits
<1> HIDE DEF w
<1>7. Visits(l, start, reverse, k, node)
  BY <1>3, <1>6
<1>8. 1 \in DOMAIN node /\ node[1] = start
  BY <1>4, <1>7 DEF Visits
<1> QED
  BY <1>5, <1>8 DEF node

\* Ranking's range, entry by entry.
LEMMA BetweenIs ==
  ASSUME NEW l, NEW p, Whole(l, p), l.length > 0, NEW first \in Nat, NEW last \in Nat,
         NEW S, NEW s \in Seq(S), Len(s) = l.length
  PROVE  Promise!Between(s, first, last)
           = [i \in 1..Many(l, first, last) |-> s[First(l, first) + i - 1]]
<1> DEFINE f == First(l, first)
           e == Until(l, last)
           k == Many(l, first, last)
           z == IF e < f THEN f ELSE e
<1>1. l.length \in Nat /\ f \in 1..l.length /\ e \in 1..l.length
  BY ListFacts DEF First, Until
<1>2. DOMAIN s = 1..l.length /\ \A i \in 1..l.length : s[i] \in S
  OBVIOUS
<1>3. f = IF first \in DOMAIN s THEN first ELSE 1
  BY <1>1, <1>2 DEF First
<1>4. e = IF last \in DOMAIN s THEN last ELSE Len(s)
  BY <1>1, <1>2 DEF Until
<1>5. Promise!Between(s, first, last) = SubSeq(s, f, z)
  BY <1>3, <1>4 DEF Promise!Between
<1>6. k = z - f + 1
  BY <1>1 DEF Many
<1> HIDE DEF f, e, k
<1>7. z \in 1..l.length /\ f <= z
  BY <1>1
<1> HIDE DEF z
<1>8. f \in Int /\ z \in Int /\ \A i \in f..z : s[i] \in S
  BY <1>1, <1>2, <1>7
<1>9. /\ SubSeq(s, f, z) \in Seq(S) /\ Len(SubSeq(s, f, z)) = z - f + 1
      /\ \A i \in 1..(z - f + 1) : SubSeq(s, f, z)[i] = s[f + i - 1]
  BY <1>7, <1>8, SubSeqProperties
<1> DEFINE b == SubSeq(s, f, z)
<1> HIDE DEF b
<1>10. b \in Seq(S) /\ Len(b) = k /\ \A i \in 1..k : b[i] = s[f + i - 1]
  BY <1>6, <1>9 DEF b
<1>11. b = [i \in 1..k |-> s[f + i - 1]]
  BY <1>10
<1> QED
  BY <1>5, <1>11 DEF b, f, k

\* The list in the direction of a range.
Way(l, reverse) == IF reverse THEN Promise!Reverse(Ranked(l)) ELSE Ranked(l)

LEMMA WayIs ==
  ASSUME NEW l, NEW p, Whole(l, p), NEW reverse \in BOOLEAN
  PROVE  /\ Way(l, reverse) \in Seq(Entries(l)) /\ Len(Way(l, reverse)) = l.length
         /\ \A i \in 1..l.length :
              LET j == IF reverse THEN l.length + 1 - i ELSE i IN
              /\ j \in 1..l.length /\ Way(l, reverse)[i] = l.uaks[Numbered(l, p, j)]
              /\ Way(l, reverse)[i][0] = Numbered(l, p, j)
<1> DEFINE s == Ranked(l)
           n == l.length
           S == Entries(l)
<1>1. n \in Nat
  BY ListFacts
<1>2. /\ s \in Seq(S) /\ Len(s) = n
      /\ \A i \in 1..n : s[i] = l.uaks[Numbered(l, p, i)] /\ s[i][0] = Numbered(l, p, i)
  BY RankedIs
<1>3. Promise!Reverse(s) = [i \in 1..Len(s) |-> s[(Len(s) - i) + 1]]
  BY DEF Promise!Reverse
<1> DEFINE w == Promise!Reverse(s)
<1> HIDE DEF s, S, n, w
<1>4. \A i \in 1..n : n + 1 - i \in 1..n /\ n - i + 1 = n + 1 - i
  BY <1>1
<1>5. w = [i \in 1..n |-> s[n - i + 1]]
  BY <1>2, <1>3 DEF w
<1>6. \A i \in 1..n : s[n - i + 1] \in S
  BY <1>2, <1>4
<1>7. w \in [1..n -> S]
  BY <1>5, <1>6
<1>8. w \in Seq(S) /\ Len(w) = n
  BY <1>1, <1>7
<1>9. \A i \in 1..n : w[i] = s[n + 1 - i]
  BY <1>4, <1>5
<1>10. CASE reverse
  <2>1. Way(l, reverse) = w
    BY <1>10 DEF Way, s, w
  <2>2. \A i \in 1..n : w[i] = l.uaks[Numbered(l, p, n + 1 - i)] /\ w[i][0] = Numbered(l, p, n + 1 - i)
    BY <1>2, <1>4, <1>9
  <2> QED
    BY <1>4, <1>8, <1>10, <2>1, <2>2 DEF n, S
<1>11. CASE ~reverse
  <2>1. Way(l, reverse) = s
    BY <1>11 DEF Way, s
  <2> QED
    BY <1>2, <1>11, <2>1 DEF n, S
<1> QED
  BY <1>10, <1>11

\* A range of the list is the range of what it stands for.
LEMMA RangeAnswers ==
  ASSUME NEW l, NEW p, Whole(l, p), l.length > 0, NEW first \in Nat, NEW last \in Nat,
         NEW reverse \in BOOLEAN
  PROVE  LET node == RangeNodes(l, first, last, reverse)
             b == Promise!Between(Way(l, reverse), first, last)
         IN  /\ [i \in DOMAIN node |-> GetUid(node[i])] = Promise!Uids(b)
             /\ [i \in DOMAIN node |-> GetScore(l, node[i])] = Promise!Scores(b)
<1> DEFINE node == RangeNodes(l, first, last, reverse)
           b == Promise!Between(Way(l, reverse), first, last)
           w == Way(l, reverse)
           f == First(l, first)
           k == Many(l, first, last)
           n == l.length
           at(i) == IF reverse THEN n + 2 - f - i ELSE f + i - 1
<1>1. n \in Nat /\ Nil \notin Listed(l)
  BY ListFacts, RankAssumption DEF Listed, Nil
<1>2. f \in 1..n /\ k \in 1..(n + 1 - f) /\ node = Passed(l, p, f, reverse, k)
  BY RangeIs
<1>3. w \in Seq(Entries(l)) /\ Len(w) = n
  BY WayIs
<1>4. b = [i \in 1..k |-> w[f + i - 1]]
  <2> HIDE DEF w
  <2> QED
    BY <1>3, BetweenIs DEF w
<1>5. \A i \in 1..n : LET j == IF reverse THEN n + 1 - i ELSE i IN
                      /\ j \in 1..n /\ w[i] = l.uaks[Numbered(l, p, j)]
                      /\ w[i][0] = Numbered(l, p, j)
  BY WayIs
<1>6. DOMAIN node = 1..k /\ \A i \in 1..k : node[i] = Numbered(l, p, at(i))
  BY <1>2 DEF Passed
<1> HIDE DEF node, w, f, k, n
<1>7. ASSUME NEW i \in 1..k
      PROVE  /\ w[f + i - 1] = l.uaks[node[i]] /\ w[f + i - 1][0] = node[i] /\ node[i] # Nil
  <2>1. f + i - 1 \in 1..n
    BY <1>1, <1>2
  <2>2. at(i) = IF reverse THEN n + 1 - (f + i - 1) ELSE f + i - 1
    BY <1>1, <1>2
  <2>3. at(i) \in 1..n
    BY <1>5, <2>1, <2>2
  <2>4. node[i] \in Listed(l)
    BY <1>6, <2>3, NumberedIs DEF n
  <2> QED
    BY <1>1, <1>5, <1>6, <2>1, <2>2, <2>4
<1> HIDE DEF b, at
<1>8. DOMAIN b = 1..k /\ \A i \in 1..k : b[i] = w[f + i - 1]
  BY <1>4
<1>9. \A i \in 1..k : b[i][0] = GetUid(node[i]) /\ b[i][1] = GetScore(l, node[i])
  BY <1>7, <1>8 DEF GetUid, GetScore
<1>10. [i \in DOMAIN node |-> GetUid(node[i])] = [i \in DOMAIN b |-> b[i][0]]
  BY <1>6, <1>8, <1>9
<1>11. [i \in DOMAIN node |-> GetScore(l, node[i])] = [i \in DOMAIN b |-> b[i][1]]
  BY <1>6, <1>8, <1>9
<1> QED
  BY <1>10, <1>11 DEF Promise!Uids, Promise!Scores, b, node

\* So are the answers about one uid,
LEMMA RankAnswers ==
  ASSUME NEW l, NEW p, Whole(l, p), NEW u \in Uid, NEW s, s = Ranked(l)
  PROVE  LET places == {i \in DOMAIN s : s[i][0] = u}
             rank == IF places = {} THEN 0 ELSE CHOOSE i \in places : TRUE
         IN  /\ GetRank(l, u) = rank
             /\ GetRevRank(l, u) = IF places = {} THEN 0 ELSE Len(s) + 1 - rank
<1> DEFINE places == {i \in DOMAIN s : s[i][0] = u}
<1>1. l.length \in Nat /\ \A n \in Listed(l) : p[n] \in 1..l.length /\ n \in Nodes(l)
  BY ListFacts DEF Nodes
<1>2. /\ Len(s) = l.length /\ DOMAIN s = 1..l.length
      /\ \A i \in 1..l.length : s[i][0] = Numbered(l, p, i)
  <2>1. Len(s) = l.length /\ s \in Seq(Entries(l)) /\ \A i \in 1..l.length : s[i][0] = Numbered(l, p, i)
    BY RankedIs
  <2> QED
    BY <2>1
<1>3. /\ \A i \in 1..l.length : Numbered(l, p, i) \in Listed(l) /\ p[Numbered(l, p, i)] = i
      /\ \A n \in Nodes(l) : Numbered(l, p, p[n]) = n
  BY <1>1, NumberedIs
<1>4. GetRank(l, u) = IF Has(l, u) THEN p[u] ELSE 0
  BY RankIs
<1>5. GetRevRank(l, u) = IF GetRank(l, u) = 0 THEN 0 ELSE l.length - GetRank(l, u) + 1
  BY DEF GetRevRank
<1>6. CASE ~Has(l, u)
  <2>1. u \notin Listed(l)
    BY <1>6 DEF Listed
  <2>2. places = {}
    BY <1>2, <1>3, <2>1
  <2> QED
    BY <1>4, <1>5, <1>6, <2>2
<1>7. CASE Has(l, u)
  <2>1. u \in Listed(l)
    BY <1>7 DEF Listed
  <2>2. places = {p[u]}
    BY <1>1, <1>2, <1>3, <2>1
  <2>3. p[u] \in 1..l.length
    BY <1>1, <2>1
  <2> QED
    BY <1>1, <1>2, <1>4, <1>5, <1>7, <2>2, <2>3
<1> QED
  BY <1>6, <1>7

\* and about one rank, from the front and from the end.
LEMMA UidAnswers ==
  ASSUME NEW l, NEW p, Whole(l, p), NEW rank \in Nat
  PROVE  /\ GetUidByRank(l, rank) = Promise!UidAt(Ranked(l), rank)
         /\ GetUidByRevRank(l, rank) = Promise!UidAt(Promise!Reverse(Ranked(l)), rank)
<1> DEFINE n == l.length
<1>1. n \in Nat /\ Nil \notin Listed(l)
  BY ListFacts, RankAssumption DEF Listed, Nil
<1>2. ASSUME NEW reverse \in BOOLEAN
      PROVE  GetUid(GetNodeByRank(l, IF reverse THEN n + 1 - rank ELSE rank))
               = Promise!UidAt(Way(l, reverse), rank)
  <2> DEFINE w == Way(l, reverse)
             j == IF reverse THEN n + 1 - rank ELSE rank
  <2>1. w \in Seq(Entries(l)) /\ Len(w) = n
    BY WayIs
  <2>2. \A i \in 1..n : LET m == IF reverse THEN n + 1 - i ELSE i IN
                        m \in 1..n /\ w[i][0] = Numbered(l, p, m)
    BY WayIs
  <2> HIDE DEF w, n
  <2>3. DOMAIN w = 1..n
    BY <2>1
  <2>4. CASE rank \in 1..n
    <3>1. j \in 1..n /\ w[rank][0] = Numbered(l, p, j)
      BY <2>2, <2>4
    <3> HIDE DEF j
    <3>2. GetNodeByRank(l, j) = Numbered(l, p, j) /\ Numbered(l, p, j) \in Listed(l)
      BY <3>1, NodeByRankIs, NumberedIs DEF n
    <3> QED
      BY <1>1, <2>3, <2>4, <3>1, <3>2 DEF GetUid, Promise!UidAt, w, j
  <2>5. CASE rank \notin 1..n
    <3>1. j \notin 1..n /\ j \in Int
      BY <1>1, <2>5
    <3> HIDE DEF j
    <3>2. GetNodeByRank(l, j) = Nil
      BY <3>1, NoNodeByRank DEF n
    <3> QED
      BY <2>3, <2>5, <3>2 DEF GetUid, Promise!UidAt, w, j
  <2> QED
    BY <2>4, <2>5 DEF w
<1>3. /\ GetUid(GetNodeByRank(l, rank)) = Promise!UidAt(Way(l, FALSE), rank)
      /\ GetUid(GetNodeByRank(l, n + 1 - rank)) = Promise!UidAt(Way(l, TRUE), rank)
  BY <1>2
<1> QED
  BY <1>3 DEF Way, GetUidByRank, GetUidByRevRank

-----------------------------------------------------------------------------
(* The skip list implements the ranking.                                   *)

LEMMA PromisedSteps ==
  /\ \A e : Promise!Update(e) <=>
       Promise!Arranged(Ranked(list'), {r \in Promise!ToSet(Ranked(list)) : r[0] # e[0]} \cup {e})
  /\ \A u : Promise!Delete(u) <=>
       Promise!Arranged(Ranked(list'), {r \in Promise!ToSet(Ranked(list)) : r[0] # u})
  BY DEF Promise!Update, Promise!Delete, Promise!Without, Ranked, Walk

LEMMA PromisedInit == Init => Promise!Init
<1> SUFFICES ASSUME Init PROVE Promise!Init
  OBVIOUS
<1>1. PICK p : Whole(list, p)
  BY NewWhole DEF Init
<1>2. Ranked(list) = [i \in 1..list.length |-> list.uaks[Numbered(list, p, i)]]
  BY <1>1, RankedIs
<1>3. list.length = 0
  BY NewIs DEF Init
<1>4. Ranked(list) \in Seq(Entries(list)) /\ Len(Ranked(list)) = 0
  BY <1>1, <1>3, RankedIs
<1>5. Ranked(list) = <<>>
  <2> DEFINE s == Ranked(list)
             S == Entries(list)
  <2>1. s \in Seq(S) /\ Len(s) = 0
    BY <1>4
  <2> HIDE DEF s, S
  <2> QED
    BY <2>1 DEF s
<1>6. answer = Promise!Silent
  BY DEF Init, Silent, Promise!Silent
<1> QED
  BY <1>5, <1>6 DEF Promise!Init, Ranked

LEMMA PromisedUpdate ==
  ASSUME Documented[Type] = Order, SkipInv, SkipInv'
  PROVE  /\ \A e \in Entry : Update(e) => Promise!Update(e) /\ UNCHANGED answer
         /\ \A u \in Uid : Delete(u) => Promise!Delete(u) /\ UNCHANGED answer
<1>1. PICK p : Whole(list, p)
  BY DEF SkipInv
<1>2. Promise!ToSet(Ranked(list)) = Entries(list)
  <2>1. Promise!Arranged(Ranked(list), Entries(list))
    BY <1>1, RankedArranged
  <2> QED
    BY <2>1 DEF Promise!Arranged
<1>3. ASSUME NEW l, NEW q, Whole(l, q), list' = l
      PROVE  Promise!Arranged(Ranked(list'), Entries(l))
  BY <1>3, RankedArranged
<1>4. ASSUME NEW u \in Uid PROVE Entries(Deleted(list, u)) = {r \in Entries(list) : r[0] # u}
  BY <1>1, EntriesOfDeleted
<1>5. ASSUME NEW e \in Entry, Update(e) PROVE Promise!Update(e) /\ UNCHANGED answer
  <2>1. PICK height \in 1..MaxLevel : list' = Insert(Deleted(list, e[0]), e, height)
    BY <1>5 DEF Update
  <2>2. e[0] \in Uid
    BY DEF Entry
  <2> DEFINE d == Deleted(list, e[0])
             r == Insert(d, e, height)
  <2>3. (\E q : Whole(d, q)) /\ e[0] \notin Listed(d)
    BY <1>1, <2>2, DeleteKeeps
  <2>4. Entries(d) = {x \in Entries(list) : x[0] # e[0]}
    BY <1>4, <2>2
  <2> HIDE DEF d
  <2>5. (\E q : Whole(r, q)) /\ Entries(r) = Entries(d) \cup {e}
    BY <2>3, InsertKeeps, EntriesOfInsert
  <2>6. list' = r
    BY <2>1 DEF d
  <2> HIDE DEF r
  <2>7. Promise!Arranged(Ranked(list'), Entries(r))
    BY <1>3, <2>5, <2>6
  <2>8. Promise!Arranged(Ranked(list'), {x \in Promise!ToSet(Ranked(list)) : x[0] # e[0]} \cup {e})
    BY <1>2, <2>4, <2>5, <2>7
  <2> QED
    BY <1>5, <2>8, PromisedSteps DEF Update
<1>6. ASSUME NEW u \in Uid, Delete(u) PROVE Promise!Delete(u) /\ UNCHANGED answer
  <2> DEFINE d == Deleted(list, u)
  <2>1. \E q : Whole(d, q)
    BY <1>1, DeleteKeeps
  <2>2. Entries(d) = {x \in Entries(list) : x[0] # u}
    BY <1>4
  <2>3. list' = d
    BY <1>6 DEF Delete
  <2> HIDE DEF d
  <2>4. Promise!Arranged(Ranked(list'), Entries(d))
    BY <1>3, <2>1, <2>3
  <2>5. Promise!Arranged(Ranked(list'), {x \in Promise!ToSet(Ranked(list)) : x[0] # u})
    BY <1>2, <2>2, <2>4
  <2> QED
    BY <1>6, <2>5, PromisedSteps DEF Delete
<1> QED
  BY <1>5, <1>6

LEMMA PromisedAnswer ==
  ASSUME SkipInv
  PROVE  /\ \A u \in Uid : AskUid(u) => Promise!Ask
         /\ \A r \in Ranks : AskRank(r) => Promise!Ask
         /\ \A f, e \in Ranks : AskRange(f, e) => Promise!Ask \/ UNCHANGED answer
<1>1. PICK p : Whole(list, p)
  BY DEF SkipInv
<1> DEFINE s == Ranked(list)
<1>2. s = [i \in DOMAIN Walk(list) |-> list.uaks[Walk(list)[i]]]
  BY DEF Ranked
<1>3. ASSUME NEW u \in Uid, AskUid(u) PROVE Promise!Ask
  <2> DEFINE places == {i \in DOMAIN s : s[i][0] = u}
             rank == IF places = {} THEN 0 ELSE CHOOSE i \in places : TRUE
  <2>1. /\ GetRank(list, u) = rank
        /\ GetRevRank(list, u) = IF places = {} THEN 0 ELSE Len(s) + 1 - rank
    BY <1>1, RankAnswers
  <2>2. /\ Promise!RankOf(u) = rank
        /\ Promise!RevRankOf(u) = IF places = {} THEN 0 ELSE Len(s) + 1 - rank
    BY <1>2 DEF Promise!RankOf, Promise!RevRankOf, Promise!Places
  <2>3. \/ Promise!Answer("Rank", u, 0, <<Promise!RankOf(u)>>)
        \/ Promise!Answer("RevRank", u, 0, <<Promise!RevRankOf(u)>>)
    BY <1>3, <2>1, <2>2 DEF AskUid, Answer, Promise!Answer
  <2> QED
    BY <2>3 DEF Promise!Ask
<1>4. ASSUME NEW r \in Ranks, AskRank(r) PROVE Promise!Ask
  <2>1. r \in Nat
    BY RankAssumption
  <2>2. /\ GetUidByRank(list, r) = Promise!UidAt(s, r)
        /\ GetUidByRevRank(list, r) = Promise!UidAt(Promise!Reverse(s), r)
    BY <1>1, <2>1, UidAnswers
  <2>3. \/ Promise!Answer("UidByRank", r, 0, <<Promise!UidAt(s, r)>>)
        \/ Promise!Answer("UidByRevRank", r, 0, <<Promise!UidAt(Promise!Reverse(s), r)>>)
    BY <1>4, <2>2 DEF AskRank, Answer, Promise!Answer
  <2> QED
    BY <1>2, <2>3 DEF Promise!Ask
<1>5. ASSUME NEW f \in Ranks, NEW e \in Ranks, AskRange(f, e)
      PROVE  Promise!Ask \/ UNCHANGED answer
  <2>1. f \in Nat /\ e \in Nat /\ list.length \in Nat
    BY <1>1, RankAssumption, ListFacts
  <2>2. PICK reverse \in BOOLEAN :
          LET node == RangeNodes(list, f, e, reverse)
          IN  IF \E i \in DOMAIN node : node[i] = Nil
              THEN UNCHANGED answer
              ELSE \/ Answer(IF reverse THEN "RevRange" ELSE "Range", f, e,
                             [i \in DOMAIN node |-> GetUid(node[i])])
                   \/ Answer(IF reverse THEN "RevRangeWithScore" ELSE "RangeWithScore", f, e,
                             [i \in DOMAIN node |-> GetScore(list, node[i])])
    BY <1>5 DEF AskRange
  <2>3. CASE list.length = 0
    <3>1. \E i \in DOMAIN RangeNodes(list, f, e, reverse) :
            RangeNodes(list, f, e, reverse)[i] = Nil
      BY <1>1, <2>1, <2>3, EmptyRange
    <3> QED
      BY <2>2, <3>1
  <2>4. CASE list.length > 0
    <3> DEFINE node == RangeNodes(list, f, e, reverse)
               b == Promise!Between(Way(list, reverse), f, e)
               uids == [i \in DOMAIN node |-> GetUid(node[i])]
               scores == [i \in DOMAIN node |-> GetScore(list, node[i])]
    <3>1. uids = Promise!Uids(b) /\ scores = Promise!Scores(b)
      BY <1>1, <2>1, <2>4, RangeAnswers
    <3>2. \/ UNCHANGED answer
          \/ Answer(IF reverse THEN "RevRange" ELSE "Range", f, e, uids)
          \/ Answer(IF reverse THEN "RevRangeWithScore" ELSE "RangeWithScore", f, e, scores)
      BY <2>2
    <3> HIDE DEF uids, scores, b
    <3>3. s # <<>>
      <4>1. s \in Seq(Entries(list)) /\ Len(s) = list.length
        BY <1>1, RankedIs
      <4> QED
        BY <2>4, <4>1
    <3>4. \/ UNCHANGED answer
          \/ Promise!Answer(IF reverse THEN "RevRange" ELSE "Range", f, e, Promise!Uids(b))
          \/ Promise!Answer(IF reverse THEN "RevRangeWithScore" ELSE "RangeWithScore", f, e,
                            Promise!Scores(b))
      BY <3>1, <3>2 DEF Answer, Promise!Answer
    <3>5. CASE reverse
      <4>1. b = Promise!Between(Promise!Reverse(s), f, e)
        BY <3>5 DEF b, Way
      <4>2. \/ UNCHANGED answer
            \/ Promise!Answer("RevRange", f, e, Promise!Uids(Promise!Between(Promise!Reverse(s), f, e)))
            \/ Promise!Answer("RevRangeWithScore", f, e,
                              Promise!Scores(Promise!Between(Promise!Reverse(s), f, e)))
        BY <3>4, <3>5, <4>1
      <4> QED
        BY <1>2, <3>3, <4>2 DEF Promise!Ask
    <3>6. CASE ~reverse
      <4>1. b = Promise!Between(s, f, e)
        BY <3>6 DEF b, Way
      <4>2. \/ UNCHANGED answer
            \/ Promise!Answer("Range", f, e, Promise!Uids(Promise!Between(s, f, e)))
            \/ Promise!Answer("RangeWithScore", f, e, Promise!Scores(Promise!Between(s, f, e)))
        BY <3>4, <3>6, <4>1
      <4> QED
        BY <1>2, <3>3, <4>2 DEF Promise!Ask
    <3> QED
      BY <3>5, <3>6
  <2> QED
    BY <2>1, <2>3, <2>4
<1> QED
  BY <1>3, <1>4, <1>5

\* The skip list is a ranking list: for each rank type whose comment says what
\* the code sorts by, every answer of GetRank, GetUidByRank, GetRange and their
\* reverse and scored forms is the one the sorted sequence of entries gives.
THEOREM SkipListIsRanking ==
  ASSUME Documented[Type] = TransformRankType[Type]
  PROVE  Spec => ImplementsRanking
<1>1. Documented[Type] = Order
  BY DEF Order
<1>2. SkipInv /\ SkipInv' /\ [Next]_vars => [Promise!Next]_<<Ranked(list), answer>>
  <2> SUFFICES ASSUME SkipInv, SkipInv', [Next]_vars
               PROVE  [Promise!Next]_<<Ranked(list), answer>>
    OBVIOUS
  <2>0. UNCHANGED list => UNCHANGED Ranked(list)
    BY DEF Ranked, Walk
  <2>1. ASSUME NEW e \in Entry, Update(e) PROVE Promise!Next
    BY <1>1, <2>1, PromisedUpdate DEF Promise!Next
  <2>2. ASSUME NEW u \in Uid, Delete(u) PROVE Promise!Next
    BY <1>1, <2>2, PromisedUpdate DEF Promise!Next
  <2>3. ASSUME Promise!Ask, UNCHANGED list PROVE Promise!Next
    BY <2>0, <2>3 DEF Promise!Next, Ranked
  <2>4. ASSUME NEW u \in Uid, AskUid(u) PROVE Promise!Next
    BY <2>3, <2>4, PromisedAnswer DEF AskUid
  <2>5. ASSUME NEW r \in Ranks, AskRank(r) PROVE Promise!Next
    BY <2>3, <2>5, PromisedAnswer DEF AskRank
  <2>6. ASSUME NEW f \in Ranks, NEW e \in Ranks, AskRange(f, e)
        PROVE  [Promise!Next]_<<Ranked(list), answer>>
    <3>1. (Promise!Ask \/ UNCHANGED answer) /\ UNCHANGED list
      BY <2>6, PromisedAnswer DEF AskRange
    <3> QED
      BY <2>0, <2>3, <3>1
  <2>7. ASSUME Return PROVE Promise!Next
    <3>1. answer' = Promise!Silent /\ UNCHANGED list
      BY <2>7 DEF Return, Silent, Promise!Silent
    <3> QED
      BY <2>0, <3>1 DEF Promise!Next, Ranked
  <2>8. ASSUME UNCHANGED vars PROVE UNCHANGED <<Ranked(list), answer>>
    BY <2>0, <2>8 DEF vars
  <2> QED
    BY <2>1, <2>2, <2>4, <2>5, <2>6, <2>7, <2>8 DEF Next
<1>3. SkipInv /\ SkipInv' /\ [Next]_vars
        => [Promise!Next]_<<[i \in DOMAIN Walk(list) |-> list.uaks[Walk(list)[i]]], answer>>
  BY <1>2 DEF Ranked
<1> QED
  BY <1>3, PromisedInit, ListStaysWhole, PTL DEF Spec, ImplementsRanking, Promise!Spec
=============================================================================
