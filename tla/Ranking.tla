------------------------------ MODULE Ranking ------------------------------
(***************************************************************************)
(* What a ranking list promises: its entries in their order, one for each  *)
(* uid, and answers that agree with the positions in it, counted from 1.   *)
(* 0 stands for "none".                                                    *)
(***************************************************************************)
EXTENDS Naturals, SequencesExt

CONSTANTS
  Order,     \* which fields are descending, and how many there are
  Entry,     \* the entries that can be put on the list
  Uid,       \* their uids
  Ranks      \* the ranks that are asked for

VARIABLES
  ranking,   \* the entries, first to last
  answer     \* the last question and what was returned

Silent == [q |-> "none", a |-> 0, b |-> 0, got |-> <<>>]
Answer(q, a, b, got) == answer' = [q |-> q, a |-> a, b |-> b, got |-> got]

Init == ranking = <<>> /\ answer = Silent

\* The first key that differs decides, in its direction; then the uid.
Before(l, r) ==
  LET differ == {i \in 1..Order.keys : l[i] # r[i]}
  IN  IF differ = {} THEN l[0] < r[0]
      ELSE LET i == Min(differ)
           IN  IF i \in Order.desc THEN l[i] > r[i] ELSE l[i] < r[i]

\* The entries of S, in the order of the list.
Arranged(s, S) ==
  /\ s \in Seq(S) /\ ToSet(s) = S
  /\ \A i, j \in DOMAIN s : i < j => Before(s[i], s[j])

Without(uid) == {e \in ToSet(ranking) : e[0] # uid}

Update(e) == Arranged(ranking', Without(e[0]) \cup {e})

Delete(uid) == Arranged(ranking', Without(uid))

-----------------------------------------------------------------------------
Places(uid) == {i \in DOMAIN ranking : ranking[i][0] = uid}
RankOf(uid) == IF Places(uid) = {} THEN 0 ELSE CHOOSE i \in Places(uid) : TRUE
RevRankOf(uid) == IF Places(uid) = {} THEN 0 ELSE Len(ranking) + 1 - RankOf(uid)

UidAt(s, rank) == IF rank \in DOMAIN s THEN s[rank][0] ELSE 0

\* Ranks outside the list stand for its ends; the range has an entry at least.
Between(s, first, last) ==
  LET f == IF first \in DOMAIN s THEN first ELSE 1
      l == IF last \in DOMAIN s THEN last ELSE Len(s)
  IN  SubSeq(s, f, IF l < f THEN f ELSE l)

Uids(s) == [i \in DOMAIN s |-> s[i][0]]
Scores(s) == [i \in DOMAIN s |-> s[i][1]]

Ask ==
  LET back == Reverse(ranking) IN
  \/ \E u \in Uid : \/ Answer("Rank", u, 0, <<RankOf(u)>>)
                    \/ Answer("RevRank", u, 0, <<RevRankOf(u)>>)
  \/ \E r \in Ranks : \/ Answer("UidByRank", r, 0, <<UidAt(ranking, r)>>)
                      \/ Answer("UidByRevRank", r, 0, <<UidAt(back, r)>>)
  \/ \E f, l \in Ranks :
       LET there == Between(ranking, f, l)
           andBack == Between(back, f, l)
       IN  /\ ranking # <<>>
           /\ \/ Answer("Range", f, l, Uids(there))
              \/ Answer("RevRange", f, l, Uids(andBack))
              \/ Answer("RangeWithScore", f, l, Scores(there))
              \/ Answer("RevRangeWithScore", f, l, Scores(andBack))

Next ==
  \/ /\ (\E e \in Entry : Update(e)) \/ (\E u \in Uid : Delete(u))
     /\ UNCHANGED answer
  \/ Ask /\ UNCHANGED ranking
  \/ answer' = Silent /\ UNCHANGED ranking

Spec == Init /\ [][Next]_<<ranking, answer>>
=============================================================================
