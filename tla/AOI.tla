-------------------------------- MODULE AOI --------------------------------
(***************************************************************************)
(* The area of interest manager: nodes on one doubly linked list per axis, *)
(* sorted by coordinate.  A node that moves passes its neighbours one by   *)
(* one, and each pass is told to both; who counts the passes knows who is  *)
(* in front of whom.  The calls come from one thread, one after the other; *)
(* their loops are steps of their own here.                                *)
(***************************************************************************)
EXTENDS Integers, Sequences, FiniteSets

CONSTANTS
  Node,                \* the nodes; a deleted one stands for a new one
  Axis,                \* the axes
  AxisOrder,           \* the order in which Update goes through them
  Coord,               \* the coordinates a subclass gives on an axis (GetExt)
  SinksOn,             \* the axes whose GetExt is lowest() while removing
  NegativeBoundary,    \* the nodes that carry these flags
  PositiveBoundary,
  Hide,
  Nil

ASSUME AOIAssumption ==
  /\ AxisOrder \in Seq(Axis) /\ \A a \in Axis : \E i \in DOMAIN AxisOrder : AxisOrder[i] = a
  /\ \A i, j \in DOMAIN AxisOrder : AxisOrder[i] = AxisOrder[j] => i = j
  /\ IsFiniteSet(Node)
  /\ Coord \in [Axis -> SUBSET (Nat \ {0})]
  /\ "x" \in Axis /\ SinksOn \subseteq Axis
  /\ NegativeBoundary \subseteq Node /\ PositiveBoundary \subseteq Node /\ Hide \subseteq Node
  /\ Nil \notin Node

VARIABLES
  wanted,     \* the coordinates the subclass returns
  pos,        \* x_, y_, z_
  oldExt,     \* old_ext_x_, old_ext_y_, old_ext_z_
  flags,      \* Removing and Removed of a node
  list,       \* first_, and prev_ and next_ of the nodes, per axis
  linked,     \* the nodes whose aoi_mgr_ is set
  size,       \* size_
  dels,       \* dels_
  releases,   \* releases_
  call,       \* the call that is running, and where it is
  before      \* history: whom a node was told to be in front of it, per axis

vars == <<wanted, pos, oldExt, flags, list, linked, size, dels, releases, call, before>>

-----------------------------------------------------------------------------
lowest == 0

AnyCoord == UNION {Coord[a] : a \in Axis}
Position == {p \in [Axis -> AnyCoord] : \A a \in Axis : p[a] \in Coord[a]}

NoCall == [op |-> "none", node |-> Nil, at |-> 1, loop |-> "back"]
Calling(op, n) == [NoCall EXCEPT !.op = op, !.node = n]

NoLinks == [first |-> Nil, prev |-> [n \in Node |-> Nil], next |-> [n \in Node |-> Nil]]

Init ==
  /\ wanted \in [Node -> [Axis -> {lowest}]]
  /\ pos = wanted /\ oldExt = wanted
  /\ flags = [n \in Node |-> {}]
  /\ list = [a \in Axis |-> NoLinks]
  /\ linked = {} /\ size = 0 /\ dels = <<>> /\ releases = <<>>
  /\ call = NoCall
  /\ before = [a \in Axis |-> [n \in Node |-> {}]]

IsEmpty == \A a \in Axis : list[a].first = Nil

\* GetExt of the subclass: the nodes of entities return lowest() on the
\* x axis as soon as they are being removed.
GetExt(n, a) == IF a \in SinksOn /\ flags[n] # {} THEN lowest ELSE wanted[n][a]

HideOrRemoved(n) == n \in Hide \/ "Removed" \in flags[n]

-----------------------------------------------------------------------------
(* The links of one axis.                                                  *)

PushedFront(l, n) ==
  [first |-> n, prev |-> [l.prev EXCEPT ![l.first] = n], next |-> [l.next EXCEPT ![n] = l.first]]

\* A node moves in front of its previous node c.
MovedBack(l, n, c) ==
  LET p == l.prev[c]
  IN  [first |-> IF p = Nil THEN n
                 ELSE IF n = l.first /\ l.next[n] # Nil THEN l.next[n] ELSE l.first,
       prev |-> [m \in Node |-> IF m = n THEN p ELSE IF m = c THEN n
                                ELSE IF m = l.next[n] THEN c ELSE l.prev[m]],
       next |-> [m \in Node |-> IF m = n THEN c ELSE IF m = c THEN l.next[n]
                                ELSE IF m = p THEN n ELSE l.next[m]]]

\* Mutant: a node that leaves the front stays first_.
MovedOnKeepsFirst(l, n, c) ==
  LET q == l.next[c]
  IN  [first |-> l.first,
       prev |-> [m \in Node |-> IF m = n THEN c ELSE IF m = c THEN l.prev[n]
                                ELSE IF m = q THEN n ELSE l.prev[m]],
       next |-> [m \in Node |-> IF m = c THEN n ELSE IF m = n THEN q
                                ELSE IF m = l.prev[n] THEN c ELSE l.next[m]]]

\* A node moves behind its next node c.
MovedOn(l, n, c) ==
  LET q == l.next[c]
  IN  [first |-> IF l.first = n THEN c ELSE l.first,
       prev |-> [m \in Node |-> IF m = n THEN c ELSE IF m = c THEN l.prev[n]
                                ELSE IF m = q THEN n ELSE l.prev[m]],
       next |-> [m \in Node |-> IF m = c THEN n ELSE IF m = n THEN q
                                ELSE IF m = l.prev[n] THEN c ELSE l.next[m]]]

Unlinked(l, n) ==
  [first |-> IF n = l.first THEN l.next[n] ELSE l.first,
   prev |-> [m \in Node |-> IF m = n THEN Nil
                            ELSE IF m = l.next[n] THEN (IF n = l.first THEN Nil ELSE l.prev[n])
                            ELSE l.prev[m]],
   next |-> [m \in Node |-> IF m = n THEN Nil
                            ELSE IF n # l.first /\ m = l.prev[n] THEN l.next[n] ELSE l.next[m]]]

-----------------------------------------------------------------------------
(* The application's calls.                                                *)

\* A new node is linked.  It is put in front of the others without a word to
\* them, and Update brings it to its place.
Insert(n) ==
  /\ call = NoCall /\ n \notin linked /\ \A i \in DOMAIN releases : releases[i] # n
  /\ linked' = linked \cup {n}
  /\ \E want \in Position :
       /\ wanted' = [wanted EXCEPT ![n] = want]
       /\ IF IsEmpty
          THEN /\ list' = [a \in Axis |->
                    [list[a] EXCEPT !.first = n, !.prev[n] = Nil, !.next[n] = Nil]]
               /\ pos' = [pos EXCEPT ![n] = want] /\ oldExt' = [oldExt EXCEPT ![n] = want]
               /\ size' = 1
               /\ UNCHANGED call
          ELSE /\ oldExt' = [oldExt EXCEPT ![n] = [a \in Axis |-> lowest]]
               /\ pos' = [pos EXCEPT ![n] = [a \in Axis |-> pos[list[a].first][a]]]
               /\ list' = [a \in Axis |-> PushedFront(list[a], n)]
               /\ size' = size + 1
               /\ call' = Calling("update", n)
  /\ before' = [a \in Axis |-> [m \in Node |->
                  IF m = n THEN {} ELSE IF m \in linked THEN before[a][m] \cup {n}
                  ELSE before[a][m]]]
  /\ UNCHANGED <<flags, dels, releases>>

\* The subclass's coordinates change; AOINode::Update is another call.
SetExt(n) ==
  /\ call = NoCall /\ n \in linked
  /\ \E want \in Position :
       /\ want # wanted[n]
       /\ wanted' = [wanted EXCEPT ![n] = want]
  /\ UNCHANGED <<pos, oldExt, flags, list, linked, size, dels, releases, call, before>>

Update(n) ==
  /\ call = NoCall /\ n \in linked
  /\ call' = Calling("update", n)
  /\ UNCHANGED <<wanted, pos, oldExt, flags, list, linked, size, dels, releases, before>>

\* OnRemove lowers x_ alone.
LoweredX(p) == [a \in Axis |-> IF a = "x" THEN lowest ELSE p[a]]

\* Mutant: x_ is lowered before it is kept.
KeptOnRemoveLate(p) == LoweredX(p)

KeptOnRemove(p) == p

Remove(n) ==
  /\ call = NoCall /\ n \in linked
  /\ flags' = [flags EXCEPT ![n] = @ \cup {"Removing"}]
  /\ oldExt' = [oldExt EXCEPT ![n] = KeptOnRemove(pos[n])]
  /\ pos' = [pos EXCEPT ![n] = LoweredX(@)]
  /\ call' = Calling("remove", n)
  /\ UNCHANGED <<wanted, list, linked, size, dels, releases, before>>

\* ReleaseNodes, and RemoveDelNodes on its own.
Release(op) ==
  /\ call = NoCall
  /\ call' = Calling(op, Nil)
  /\ UNCHANGED <<wanted, pos, oldExt, flags, list, linked, size, dels, releases, before>>

\* ~AOIMgr; its loop goes along the x axis.
Destroy ==
  /\ call = NoCall
  /\ dels' = <<>>
  /\ call' = Calling("destroy", list["x"].first)
  /\ UNCHANGED <<wanted, pos, oldExt, flags, list, linked, size, releases, before>>

-----------------------------------------------------------------------------
(* The loops of Update.                                                    *)

Updating == call.op \in {"update", "remove"} /\ call.at <= Len(AxisOrder)

ThisAxis == AxisOrder[call.at]
Ahead    == list[ThisAxis].prev[call.node]
Behind   == list[ThisAxis].next[call.node]
Target   == GetExt(call.node, ThisAxis)

HasMoved == Target # oldExt[call.node][ThisAxis]

GoesBack ==
  /\ Ahead # Nil
  /\ \/ pos[Ahead][ThisAxis] > Target
     \/ pos[Ahead][ThisAxis] = Target /\ Ahead \notin NegativeBoundary

\* Mutant: the boundary flag is asked the wrong way round.
GoesOnTooFar ==
  /\ Behind # Nil
  /\ \/ pos[Behind][ThisAxis] < Target
     \/ Behind \notin PositiveBoundary

GoesOn ==
  /\ Behind # Nil
  /\ \/ pos[Behind][ThisAxis] < Target
     \/ pos[Behind][ThisAxis] = Target /\ Behind \notin PositiveBoundary

\* m is told that n went past it: whom m had behind it is in front now.
Toggled(s, n) == IF n \in s THEN s \ {n} ELSE s \cup {n}

\* Mutant: who moves is told of nothing.
ToldOne(b, n, c) ==
  [m \in Node |-> IF m = c /\ ~HideOrRemoved(n) THEN Toggled(b[m], n) ELSE b[m]]

\* The calls of OnNodePass: c of n, and n of c.
Told(b, n, c) ==
  [m \in Node |-> IF m = c /\ ~HideOrRemoved(n) THEN Toggled(b[m], n)
                  ELSE IF m = n /\ ~HideOrRemoved(c) THEN Toggled(b[m], c)
                  ELSE b[m]]

MoveNode(c, moved) ==
  /\ pos' = [pos EXCEPT ![call.node][ThisAxis] = pos[c][ThisAxis]]
  /\ list' = [list EXCEPT ![ThisAxis] = moved]
  /\ before' = [before EXCEPT ![ThisAxis] = Told(@, call.node, c)]
  /\ UNCHANGED <<wanted, oldExt, flags, linked, size, dels, releases, call>>

StepBack ==
  /\ Updating /\ call.loop = "back" /\ HasMoved /\ GoesBack
  /\ MoveNode(Ahead, MovedBack(list[ThisAxis], call.node, Ahead))

TurnRound ==
  /\ Updating /\ call.loop = "back" /\ HasMoved /\ ~GoesBack
  /\ call' = [call EXCEPT !.loop = "on"]
  /\ UNCHANGED <<wanted, pos, oldExt, flags, list, linked, size, dels, releases, before>>

StepOn ==
  /\ Updating /\ call.loop = "on" /\ HasMoved /\ GoesOn
  /\ MoveNode(Behind, MovedOn(list[ThisAxis], call.node, Behind))

NextAxis == [call EXCEPT !.at = @ + 1, !.loop = "back"]

Arrive ==
  /\ Updating /\ call.loop = "on" /\ HasMoved /\ ~GoesOn
  /\ pos' = [pos EXCEPT ![call.node][ThisAxis] = Target]
  /\ call' = NextAxis
  /\ UNCHANGED <<wanted, oldExt, flags, list, linked, size, dels, releases, before>>

SkipAxis ==
  /\ Updating /\ ~HasMoved
  /\ call' = NextAxis
  /\ UNCHANGED <<wanted, pos, oldExt, flags, list, linked, size, dels, releases, before>>

\* The end of Update, and of Remove.
Updated ==
  /\ call.op \in {"update", "remove"} /\ call.at > Len(AxisOrder)
  /\ oldExt' = [oldExt EXCEPT ![call.node] = [a \in Axis |-> GetExt(call.node, a)]]
  /\ IF call.op = "remove"
     THEN /\ flags' = [flags EXCEPT ![call.node] = @ \cup {"Removed"}]
          /\ dels' = IF \E i \in DOMAIN dels : dels[i] = call.node THEN dels
                     ELSE Append(dels, call.node)
     ELSE UNCHANGED <<flags, dels>>
  /\ call' = NoCall
  /\ UNCHANGED <<wanted, pos, list, linked, size, releases, before>>

-----------------------------------------------------------------------------
(* Nodes leave the manager.                                                *)

\* RemoveReal: nothing happens to a node that has left already.
RemoveReal(n) ==
  IF n \in linked
  THEN /\ list' = [a \in Axis |-> Unlinked(list[a], n)]
       /\ linked' = linked \ {n}
       /\ releases' = Append(releases, n)
       /\ size' = size - 1
  ELSE UNCHANGED <<list, linked, releases, size>>

CallRemoveReal(n) ==
  /\ call = NoCall /\ n \in linked
  /\ RemoveReal(n)
  /\ UNCHANGED <<wanted, pos, oldExt, flags, dels, call, before>>

RemoveDelNode ==
  /\ call.op \in {"drop", "release"} /\ dels # <<>>
  /\ RemoveReal(Head(dels))
  /\ dels' = Tail(dels)
  /\ UNCHANGED <<wanted, pos, oldExt, flags, call, before>>

\* The nodes are deleted; what is left of them is what a new node has.
Delete(nodes) ==
  LET fresh == [a \in Axis |-> lowest]
      new(f, v) == [n \in Node |-> IF n \in nodes THEN v ELSE f[n]]
  IN  /\ wanted' = new(wanted, fresh) /\ pos' = new(pos, fresh) /\ oldExt' = new(oldExt, fresh)
      /\ flags' = new(flags, {})
      /\ before' = [a \in Axis |-> [n \in Node |-> IF n \in nodes THEN {}
                                                    ELSE before[a][n] \ nodes]]

EndDrop ==
  /\ call.op = "drop" /\ dels = <<>>
  /\ call' = NoCall
  /\ UNCHANGED <<wanted, pos, oldExt, flags, list, linked, size, dels, releases, before>>

EndRelease ==
  /\ call.op = "release" /\ dels = <<>>
  /\ Delete({releases[i] : i \in DOMAIN releases})
  /\ releases' = <<>>
  /\ call' = NoCall
  /\ UNCHANGED <<list, linked, size, dels>>

DestroyNode ==
  /\ call.op = "destroy" /\ call.node # Nil
  /\ LET n == call.node
         x == list["x"].next[n]
     IN  /\ list' = [a \in Axis |->
               [list[a] EXCEPT !.prev = [m \in Node |-> IF m = n \/ (a = "x" /\ m = x) THEN Nil
                                                         ELSE @[m]],
                               !.next[n] = Nil]]
         /\ linked' = linked \ {n}
         /\ Delete({n})
         /\ call' = [call EXCEPT !.node = x]
  /\ UNCHANGED <<size, dels, releases>>

\* The lists are empty; the nodes that wait are deleted, and the next manager
\* starts without any.
EndDestroy ==
  /\ call.op = "destroy" /\ call.node = Nil
  /\ list' = [a \in Axis |-> [list[a] EXCEPT !.first = Nil]]
  /\ size' = 0
  /\ call' = Calling("release", Nil)
  /\ UNCHANGED <<wanted, pos, oldExt, flags, linked, dels, releases, before>>

-----------------------------------------------------------------------------
Step ==
  \/ StepBack \/ TurnRound \/ StepOn \/ Arrive \/ SkipAxis \/ Updated
  \/ RemoveDelNode \/ EndDrop \/ EndRelease \/ DestroyNode \/ EndDestroy

Next ==
  \/ \E n \in Node : Insert(n) \/ SetExt(n) \/ Update(n) \/ Remove(n) \/ CallRemoveReal(n)
  \/ \E op \in {"drop", "release"} : Release(op)
  \/ Destroy
  \/ Step

Spec == Init /\ [][Next]_vars

-----------------------------------------------------------------------------
(* Properties.                                                             *)

\* The nodes of a list, from the first one on.
Walk(l) ==
  LET at[i \in 1..(Cardinality(Node) + 1)] ==
        IF i = 1 THEN l.first ELSE IF at[i - 1] = Nil THEN Nil ELSE l.next[at[i - 1]]
  IN  at

Place(l, n) == CHOOSE i \in DOMAIN Walk(l) : Walk(l)[i] = n

\* In every step of every call each axis links the same nodes, the ones the
\* manager holds, once and both ways; a node that left has let go of all
\* others, as ~AOINode asserts, and is deleted once.
ListsAreWhole ==
  /\ call.op # "destroy" =>
       /\ size = Cardinality(linked)
       /\ \A a \in Axis :
            LET l == list[a]
                at == Walk(l)
            IN  /\ {at[i] : i \in DOMAIN at} \ {Nil} = linked /\ at[size + 1] = Nil
                /\ \A i \in 1..size : l.prev[at[i]] = IF i = 1 THEN Nil ELSE at[i - 1]
  /\ \A n \in Node \ linked : \A a \in Axis : list[a].prev[n] = Nil /\ list[a].next[n] = Nil
  /\ \A i, j \in DOMAIN releases :
       releases[i] \notin linked /\ (i # j => releases[i] # releases[j])

\* Between two calls each axis is in the order of its coordinates, the nodes
\* that wait to be removed included; DebugX, DebugY and DebugZ report an
\* error where it is not.
SortedAtRest ==
  call = NoCall =>
    \A a \in Axis : \A n \in linked :
      list[a].next[n] # Nil => pos[n][a] <= pos[list[a].next[n]][a]

\* Who counts the passes it was told of knows at any time who is in front of
\* it and who behind, on every axis, whatever both have done since.
PassesTellTheOrder ==
  call.op # "destroy" =>
    \A a \in Axis : \A m \in linked : \A n \in linked \ ({m} \cup Hide) :
      "Removed" \notin flags[m] \cup flags[n] =>
        (n \in before[a][m] <=> Place(list[a], n) < Place(list[a], m))

\* When Remove returns every node has been told that the removed one left
\* towards the front of the x axis.
RemovalIsTold ==
  [][\A n \in Node \ Hide : "Removed" \in flags'[n] \ flags[n] =>
       \A m \in linked \ {n} : "Removed" \notin flags[m] =>
         \A a \in SinksOn : n \in before'[a][m]]_vars
=============================================================================
