----------------------------- MODULE RankOrder -----------------------------
(***************************************************************************)
(* What the ranking lists are sorted by.  An entry is the array uaks of    *)
(* the code: uid, score, p1, p2, at the indices 0 to 3, as many of them as *)
(* the type of the list has.                                               *)
(***************************************************************************)
EXTENDS Naturals

\* TransformRankType: which of the fields 1, 2, 3 are descending, and how
\* many fields there are besides the uid.
TransformRankType ==
  [Test     |-> [desc |-> {1, 2},    keys |-> 2],
   SA       |-> [desc |-> {},        keys |-> 1],
   SD       |-> [desc |-> {1},       keys |-> 1],
   SAP1A    |-> [desc |-> {},        keys |-> 2],
   SAP1D    |-> [desc |-> {2},       keys |-> 2],
   SDP1A    |-> [desc |-> {1},       keys |-> 2],
   SDP1D    |-> [desc |-> {1, 2},    keys |-> 2],
   SAP1AP2A |-> [desc |-> {},        keys |-> 3],
   SAP1AP2D |-> [desc |-> {3},       keys |-> 3],
   SAP1DP2A |-> [desc |-> {2},       keys |-> 3],
   SAP1DP2D |-> [desc |-> {2, 3},    keys |-> 3],
   SDP1AP2A |-> [desc |-> {1, 2},    keys |-> 3],
   SDP1AP2D |-> [desc |-> {1, 3},    keys |-> 3],
   SDP1DP2A |-> [desc |-> {1, 2},    keys |-> 3],
   SDP1DP2D |-> [desc |-> {1, 2, 3}, keys |-> 3]]

RankType == DOMAIN TransformRankType

\* The orders the comments of RankType promise: those of the code, but for
\* one type.
Documented ==
  [TransformRankType EXCEPT !["SDP1AP2A"] = [desc |-> {1}, keys |-> 3]]

\* The entries with that many keys.
Uaks(keys) == [0..keys -> Nat]

Precedes(desc, i, l, r) == IF i \in desc THEN l[i] > r[i] ELSE l[i] < r[i]

\* The loop of CompUaks: the first field that differs decides, else the uid.
CompUaks(order, l, r) ==
  \/ \E i \in 1..order.keys :
       Precedes(order.desc, i, l, r) /\ \A j \in 1..(i - 1) : l[j] = r[j]
  \/ (\A i \in 1..order.keys : l[i] = r[i]) /\ l[0] < r[0]
=============================================================================
