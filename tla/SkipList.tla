----------------------------- MODULE SkipList ------------------------------
(***************************************************************************)
(* The skip list with spans behind a ranking list.  A node is named by its *)
(* uid, for uid_umap_ holds one node for a uid; 0 is the header.           *)
(***************************************************************************)
EXTENDS RankOrder, Integers, Sequences, FiniteSets, FiniteSetsExt

CONSTANTS
  Type,        \* the RankType of the list
  Uid, Key,    \* the uids, and the values of score, p1 and p2
  Ranks,       \* the ranks that are asked for
  MaxLevel,    \* kSkipListMaxLevel
  AskEmpty     \* TRUE: a range is asked of an empty list, too

ASSUME RankAssumption ==
  /\ Type \in RankType
  /\ Uid \subseteq Nat \ {0} /\ IsFiniteSet(Uid)
  /\ Key \subseteq Nat /\ Ranks \subseteq Nat
  /\ MaxLevel \in Nat \ {0}
  /\ AskEmpty \in BOOLEAN

VARIABLES
  list,        \* the list
  answer,      \* the last query and what it returned
  crashed      \* a null pointer was followed

vars == <<list, answer, crashed>>

Order == TransformRankType[Type]
Entry == {e \in [0..Order.keys -> Uid \cup Key] :
            e[0] \in Uid /\ \A i \in 1..Order.keys : e[i] \in Key}

Header == 0
Nil    == -1
Node   == Uid \cup {Header}

-----------------------------------------------------------------------------
(* The list.  levels[n] has an element for each level of n, 0 the lowest;  *)
(* it is empty for a uid that has no node.                                 *)

NoLink == [forward |-> Nil, span |-> 0]
NoLevels == [i \in {} |-> NoLink]

NewList ==
  [level |-> 1, length |-> 0, tail |-> Nil,
   levels |-> [n \in Node |->
     IF n = Header THEN [i \in 0..(MaxLevel - 1) |-> NoLink] ELSE NoLevels],
   backward |-> [n \in Uid |-> Nil],
   uaks |-> [n \in Uid |-> <<>>]]

Has(l, uid) == DOMAIN l.levels[uid] # {}

\* Where a search can be: at a node, that far from the header.
Position == [node : Node, rank : Int]

\* It moves on along level i while the position behind the link is in pass.
Step(l, i, pass, q) ==
  LET link == l.levels[q.node][i]
      next == [node |-> link.forward, rank |-> q.rank + link.span]
  IN  IF link.forward # Nil /\ next \in pass THEN next ELSE q

\* One level of a search, from q on.  A level has no more links than uids.
Along(l, i, pass, q) ==
  LET at[k \in 0..Cardinality(Uid)] ==
        IF k = 0 THEN q ELSE Step(l, i, pass, at[k - 1])
  IN  at[Cardinality(Uid)]

\* A search from the top level down: where it leaves each level.
Search(l, pass) ==
  LET at[i \in 0..l.level] ==
        IF i = l.level THEN [node |-> Header, rank |-> 0]
        ELSE Along(l, i, pass, at[i + 1])
  IN  at

\* The search of Insert and Delete: update[] and rank[].
PathTo(l, e) == Search(l, {q \in Position : CompUaks(Order, l.uaks[q.node], e)})

-----------------------------------------------------------------------------
(* Insertion and deletion.                                                 *)

\* Mutant: the span up to a new node is one too short.
SpliceShort(link, uid, before) ==
  <<[forward |-> uid, span |-> before], [link EXCEPT !.span = @ - before]>>

\* A link of update[i], cut by the new node that stands before + 1 behind it.
Splice(link, uid, before) ==
  <<[forward |-> uid, span |-> before + 1], [link EXCEPT !.span = @ - before]>>

\* Mutant: the level of the list grows, the header's new links keep the
\* span they had when the list was that high before.
GrownLinkKept(l, i) == l.levels[Header][i]

\* The header's link on a level that is new: it spans the whole list.
GrownLink(l, i) == [l.levels[Header][i] EXCEPT !.span = l.length]

\* Mutant: the old tail stays.
TailKept(l, next, uid) == IF l.tail = Nil THEN uid ELSE l.tail

TailAfter(l, next, uid) == IF next = Nil THEN uid ELSE l.tail

Insert(l, e, height) ==
  LET uid  == e[0]
      path == PathTo(l, e)
      top  == Max({height, l.level})
      at   == [i \in 0..(top - 1) |-> IF i < l.level THEN path[i]
                                      ELSE [node |-> Header, rank |-> 0]]
      old  == [i \in 0..(top - 1) |-> IF i < l.level THEN l.levels[at[i].node][i]
                                      ELSE GrownLink(l, i)]
      cut(i) == Splice(old[i], uid, at[0].rank - at[i].rank)
      new(i) == IF i < height THEN cut(i)[1] ELSE [old[i] EXCEPT !.span = @ + 1]
      next == old[0].forward
  IN  [level |-> top, length |-> l.length + 1, tail |-> TailAfter(l, next, uid),
       levels |-> [n \in Node |->
         IF n = uid THEN [i \in 0..(height - 1) |-> cut(i)[2]]
         ELSE [i \in DOMAIN l.levels[n] |->
                 IF i < top /\ at[i].node = n THEN new(i) ELSE l.levels[n][i]]],
       backward |-> [n \in Uid |->
         IF n = uid THEN (IF at[0].node = Header THEN Nil ELSE at[0].node)
         ELSE IF n = next THEN uid ELSE l.backward[n]],
       uaks |-> [l.uaks EXCEPT ![uid] = e]]

\* A link of update[i] once the node is gone; mine is the node's own link.
Unlinked(link, uid, mine) ==
  IF link.forward = uid
  THEN [forward |-> mine.forward, span |-> link.span + mine.span - 1]
  ELSE [link EXCEPT !.span = @ - 1]

Remove(l, uid) ==
  LET path == PathTo(l, l.uaks[uid])
      mine(i) == IF i \in DOMAIN l.levels[uid] THEN l.levels[uid][i] ELSE NoLink
      next == mine(0).forward
      levels == [n \in Node |->
        IF n = uid THEN NoLevels
        ELSE [i \in DOMAIN l.levels[n] |->
                IF i < l.level /\ path[i].node = n
                THEN Unlinked(l.levels[n][i], uid, mine(i)) ELSE l.levels[n][i]]]
  IN  [level |-> Max({1} \cup {i \in 1..l.level : levels[Header][i - 1].forward # Nil}),
       length |-> l.length - 1,
       tail |-> IF next = Nil THEN l.backward[uid] ELSE l.tail,
       levels |-> levels,
       backward |-> [n \in Uid |->
         IF n = uid THEN Nil ELSE IF n = next THEN l.backward[uid] ELSE l.backward[n]],
       uaks |-> [l.uaks EXCEPT ![uid] = <<>>]]

\* A uid that is not on the list is left alone.
Deleted(l, uid) == IF Has(l, uid) THEN Remove(l, uid) ELSE l

-----------------------------------------------------------------------------
(* Queries.                                                                *)

\* Mutant: the search stops before the node it looks for.
RankPassesBefore(l, uid, n) == CompUaks(Order, l.uaks[n], l.uaks[uid])

RankPasses(l, uid, n) == n = uid \/ CompUaks(Order, l.uaks[n], l.uaks[uid])

\* The highest level of a search at which P holds, -1 if there is none.
TopLevel(l, P(_)) == Max({-1} \cup {i \in 0..(l.level - 1) : P(i)})

GetRank(l, uid) ==
  LET at == Search(l, {q \in Position : RankPasses(l, uid, q.node)})
      i  == TopLevel(l, LAMBDA j : at[j].node = uid)
  IN  IF Has(l, uid) /\ i >= 0 THEN at[i].rank ELSE 0

GetRevRank(l, uid) ==
  LET rank == GetRank(l, uid) IN IF rank = 0 THEN 0 ELSE l.length - rank + 1

\* A rank beyond the end ends nowhere; so does a negative one, which as a
\* size_t is a huge one.
GetNodeByRank(l, rank) ==
  LET at == Search(l, {q \in Position : rank < 0 \/ q.rank <= rank})
      i  == TopLevel(l, LAMBDA j : at[j].rank = rank)
  IN  IF rank # 0 /\ i >= 0 THEN at[i].node ELSE Nil

GetUid(n) == IF n = Nil THEN 0 ELSE n
GetScore(l, n) == IF n = Nil THEN 0 ELSE l.uaks[n][1]

GetUidByRank(l, rank) == GetUid(GetNodeByRank(l, rank))
GetUidByRevRank(l, rank) == GetUid(GetNodeByRank(l, l.length + 1 - rank))

\* GetRangeWithFlag: the nodes its loop visits; Nil where it has run off the
\* list, to follow a null pointer next.
RangeNodes(l, first, last, reverse) ==
  LET f == IF first = 0 \/ first > l.length THEN 1 ELSE first
      e == IF last = 0 \/ last > l.length THEN l.length ELSE last
      start == GetNodeByRank(l, IF reverse THEN l.length + 1 - f ELSE f)
      step(n) == IF n = Nil THEN Nil
                 ELSE IF reverse THEN l.backward[n] ELSE l.levels[n][0].forward
      node[i \in 1..(Max({e, f}) - f + 1)] == IF i = 1 THEN start ELSE step(node[i - 1])
  IN  node

-----------------------------------------------------------------------------
Silent == [q |-> "none", a |-> 0, b |-> 0, got |-> <<>>]
Answer(q, a, b, got) == answer' = [q |-> q, a |-> a, b |-> b, got |-> got]

Init == list = NewList /\ answer = Silent /\ crashed = FALSE

Quiet == answer = Silent /\ ~crashed

\* UpdateRank: delete, then insert with a random height.
Update(e) ==
  /\ Quiet
  /\ \E height \in 1..MaxLevel : list' = Insert(Deleted(list, e[0]), e, height)
  /\ UNCHANGED <<answer, crashed>>

Delete(uid) ==
  /\ Quiet
  /\ list' = Deleted(list, uid)
  /\ UNCHANGED <<answer, crashed>>

AskUid(uid) ==
  /\ Quiet
  /\ \/ Answer("Rank", uid, 0, <<GetRank(list, uid)>>)
     \/ Answer("RevRank", uid, 0, <<GetRevRank(list, uid)>>)
  /\ UNCHANGED <<list, crashed>>

AskRank(rank) ==
  /\ Quiet
  /\ \/ Answer("UidByRank", rank, 0, <<GetUidByRank(list, rank)>>)
     \/ Answer("UidByRevRank", rank, 0, <<GetUidByRevRank(list, rank)>>)
  /\ UNCHANGED <<list, crashed>>

AskRange(first, last) ==
  /\ Quiet /\ (AskEmpty \/ list.length > 0)
  /\ \E reverse \in BOOLEAN :
       LET node == RangeNodes(list, first, last, reverse)
           Uids == [i \in DOMAIN node |-> GetUid(node[i])]
           Scores == [i \in DOMAIN node |-> GetScore(list, node[i])]
       IN  IF \E i \in DOMAIN node : node[i] = Nil
           THEN crashed' = TRUE /\ UNCHANGED answer
           ELSE /\ \/ Answer(IF reverse THEN "RevRange" ELSE "Range", first, last, Uids)
                   \/ Answer(IF reverse THEN "RevRangeWithScore" ELSE "RangeWithScore",
                             first, last, Scores)
                /\ UNCHANGED crashed
  /\ UNCHANGED list

\* The query has returned.
Return ==
  /\ answer # Silent
  /\ answer' = Silent
  /\ UNCHANGED <<list, crashed>>

Next ==
  \/ \E e \in Entry : Update(e)
  \/ \E u \in Uid : Delete(u) \/ AskUid(u)
  \/ \E r \in Ranks : AskRank(r)
  \/ \E f, e \in Ranks : AskRange(f, e)
  \/ Return

Spec == Init /\ [][Next]_vars

-----------------------------------------------------------------------------
(* Properties.                                                             *)

\* The walk along the lowest level.
Walk(l) ==
  LET at[i \in 1..Cardinality(Uid)] ==
        IF i = 1 THEN l.levels[Header][0].forward
        ELSE IF at[i - 1] = Nil THEN Nil ELSE l.levels[at[i - 1]][0].forward
  IN  [i \in {j \in DOMAIN at : at[j] # Nil} |-> at[i]]

\* Where a node stands on the walk; the header stands at 0.
PlaceOf(l, n) == Max({0} \cup {i \in DOMAIN Walk(l) : Walk(l)[i] = n})

\* A link's span is the distance it covers on the lowest level, on every
\* level in use; one that ends nowhere reaches to the end of the list.
SpansAreDistances ==
  \A n \in Node : \A i \in DOMAIN list.levels[n] :
    i < list.level =>
      LET link == list.levels[n][i]
          to == IF link.forward = Nil THEN list.length ELSE PlaceOf(list, link.forward)
      IN  link.span = to - PlaceOf(list, n)

\* Each level links exactly the nodes that have it; backward_ and tail_ are
\* the way back.
LevelsAndBackAgree ==
  LET walk == Walk(list) IN
  /\ Len(walk) = list.length /\ {walk[i] : i \in DOMAIN walk} = {u \in Uid : Has(list, u)}
  /\ list.tail = IF walk = <<>> THEN Nil ELSE walk[Len(walk)]
  /\ \A i \in DOMAIN walk : list.backward[walk[i]] = IF i = 1 THEN Nil ELSE walk[i - 1]
  /\ \A n \in Node : \A i \in DOMAIN list.levels[n] :
       LET behind == {u \in Uid : i \in DOMAIN list.levels[u]
                                    /\ PlaceOf(list, u) > PlaceOf(list, n)}
           next == list.levels[n][i].forward
       IN  IF behind = {} THEN next = Nil
           ELSE next \in behind
                  /\ \A u \in behind : PlaceOf(list, next) <= PlaceOf(list, u)

\* No query follows a null pointer.
NoNullFollowed == ~crashed

\* The list is a ranking in the order the comments of RankType promise: what
\* it returns are the positions in the sorted order of the entries.
Promise == INSTANCE Ranking WITH
  Order <- Documented[Type],
  ranking <- [i \in DOMAIN Walk(list) |-> list.uaks[Walk(list)[i]]]
ImplementsRanking == Promise!Spec

\* The lowest level is sorted as the comments of RankType say.
SortedAsDocumented ==
  LET walk == Walk(list) IN
  \A i \in 1..(Len(walk) - 1) :
    CompUaks(Documented[Type], list.uaks[walk[i]], list.uaks[walk[i + 1]])
=============================================================================
