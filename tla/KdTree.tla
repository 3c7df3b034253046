-------------------------------- MODULE KdTree --------------------------------
(***************************************************************************)
(* The map of FAST-LIO and Point-LIO: the incremental k-d tree of          *)
(* ikd-Tree/ikd_Tree.cpp (the two packages hold identical copies), with    *)
(* lazy deletion marks that are pushed down when a node is next visited.   *)
(*                                                                         *)
(* Trees here are smaller than Multi_Thread_Rebuild_Point_Num, so every    *)
(* rebuild runs in the caller and Rebuild_Ptr stays null; the second       *)
(* thread is the subject of KdTreeRebuild. Add_Point_Boxes, Delete_Points  *)
(* and Radius_Search have no caller in the repository and are left out.    *)
(***************************************************************************)
EXTENDS KdNode, Sequences, FiniteSets, Bags, SequencesExt

CONSTANTS
  Clouds,         \* sequences of points a tree is built from
  Points,         \* points that are added or searched for
  Boxes,          \* [min, max] boxes that are deleted
  downsample_size,
  DeletePercent, BalancePercent,   \* the two rebuild criteria, in percent
  MinUnbalanced,  \* Minimal_Unbalanced_Tree_Size
  MaxSize,        \* bound: nodes in the tree, deleted ones included
  MaxRemoved      \* bound: removed points that wait to be acquired

ASSUME KdTreeAssumption ==
  /\ Points \subseteq Point
  /\ \A b \in Boxes : b.min \in Point /\ b.max \in Point
  /\ MaxSize \in Nat
  /\ \A s \in Clouds : s \in Seq(Point) /\ Len(s) =< MaxSize
  /\ downsample_size \in Nat \ {0}

VARIABLES
  tree,       \* Root_Node
  removed,    \* Points_deleted, a bag
  content,    \* history: the live points, as flatten would return them
  gone        \* history: removed points that can still be acquired

vars == <<tree, removed, content, gone>>

-----------------------------------------------------------------------------
\* The voxel that downsampling keeps one point of, and its centre (doubled).
VoxelBox(p) ==
  LET corner == [a \in Axis |-> (p[a] \div downsample_size) * downsample_size] IN
  [min |-> corner, max |-> [a \in Axis |-> corner[a] + downsample_size]]
FromCentre(p, b) ==
  LET d(a) == Square(2 * p[a] - b.min[a] - b.max[a]) IN d(0) + d(1) + d(2)

-----------------------------------------------------------------------------
\* The subtrees that a visit of t meets, with the marks above them pushed
\* down, and the null one.
Visited(t) ==
  LET reach[n \in 0..Size(t)] ==
        IF n = 0 THEN {t, Nil}
        ELSE LET R == reach[n - 1] IN
             R \cup UNION {{Push_Down(u).left, Push_Down(u).right} : u \in R \ {Nil}}
  IN reach[Size(t)]

\* flatten: the tree with all marks pushed down, its live points, and the
\* dead ones that DELETE_POINTS_REC records.
BagOfSeq(s) == [p \in Range(s) |-> Cardinality({i \in DOMAIN s : s[i] = p})]

Rejoin(r, x, y) == [r EXCEPT !.left = x, !.right = y]

NodeCount(t) ==
  LET count[u \in Visited(t)] ==
        IF u = Nil THEN 0 ELSE 1 + count[Push_Down(u).left] + count[Push_Down(u).right]
  IN count[t]

flatten(t) ==
  LET flat[u \in Visited(t)] ==
        IF u = Nil THEN [t |-> Nil, live |-> <<>>, dead |-> <<>>]
        ELSE LET r == Push_Down(u)
                 a == flat[r.left]
                 b == flat[r.right] IN
             [t    |-> Rejoin(r, a.t, b.t),
              live |-> (IF r.pdel THEN <<>> ELSE <<r.pt>>) \o a.live \o b.live,
              dead |-> a.dead \o b.dead \o (IF r.pdel /\ ~r.pdown THEN <<r.pt>> ELSE <<>>)]
  IN flat[t]

\* The trees that a search may leave: it opens nodes from the root on.
Rejoined(r, X, Y) == {Rejoin(r, x, y) : x \in X, y \in Y}
Opened(t) ==
  LET open[u \in Visited(t)] ==
        IF u = Nil THEN {Nil}
        ELSE LET r == Push_Down(u) IN {u} \cup Rejoined(r, open[r.left], open[r.right])
  IN open[t]

\* The longest side of the box around the points s[i], i \in I.
DivisionAxis(s, I) ==
  LET side(a) == Max({s[i][a] : i \in I}) - Min({s[i][a] : i \in I}) IN
  CHOOSE a \in Axis : \A b \in Axis : side(b) =< side(a) /\ (side(b) = side(a) => a =< b)

\* nth_element puts some median m of J at the root, points that are not above
\* it on the left and points that are not below it on the right.
Cuts(s, J, axis) ==
  {c \in J \X SUBSET J :
    LET m == c[1]
        L == c[2] IN
    /\ m \notin L /\ Cardinality(L) = (Cardinality(J) - 1) \div 2
    /\ \A i \in L : s[i][axis] =< s[m][axis]
    /\ \A i \in J \ (L \cup {m}) : s[m][axis] =< s[i][axis]}

\* BuildTree
Nodes(p, axis, X, Y) == {Node(p, axis, l, r) : l \in X, r \in Y}
BuildTrees(s, I) ==
  LET build[J \in SUBSET I] ==
        IF J = {} THEN {Nil}
        ELSE LET axis == DivisionAxis(s, J) IN
             UNION {Nodes(s[c[1]], axis, build[c[2]], build[J \ (c[2] \cup {c[1]})]) :
                      c \in Cuts(s, J, axis)}
  IN build[I]

-----------------------------------------------------------------------------
\* An operation on a subtree ends in one of several [t, dead]: the subtree,
\* and the points that rebuilding it recorded.
Result(t, dead) == [t |-> t, dead |-> dead]

Criterion_Check(t) ==
  /\ t.size > MinUnbalanced
  /\ LET son == IF t.left # Nil THEN t.left ELSE t.right IN
     \/ t.invalid * 100 > DeletePercent * t.size
     \/ son.size * 100 > BalancePercent * (t.size - 1)
     \/ son.size * 100 < (100 - BalancePercent) * (t.size - 1)

Rebuild(t) ==
  LET f == flatten(t) IN
  {Result(u, f.dead) : u \in BuildTrees(f.live, DOMAIN f.live)}

\* How Add_by_point and Delete_by_range leave a node they descended from.
Leave(t, dead) ==
  LET u == Update(t) IN
  IF Criterion_Check(u)
  THEN {Result(v.t, dead \o v.dead) : v \in Rebuild(u)}
  ELSE {Result(u, dead)}

\* The box cuts the node r, and X and Y are the results for its sons.
DeleteCut(r, b, is_downsample, X, Y) ==
  UNION {Leave(DeletePoint(r, b, is_downsample, x.t, y.t), x.dead \o y.dead) :
           x \in X, y \in Y}

Delete_by_range(t, b, is_downsample) ==
  LET del[u \in Visited(t)] ==
        IF u = Nil THEN {Result(Nil, <<>>)}
        ELSE IF u.tdel THEN {Result(u, <<>>)}
        ELSE LET r == Push_Down(u) IN
             IF Outside(r, b) THEN {Result(r, <<>>)}
             ELSE IF Covers(b, r) THEN {Result(DeleteAll(r, is_downsample), <<>>)}
             ELSE DeleteCut(r, b, is_downsample, del[r.left], del[r.right])
  IN del[t]

\* A leaf is added where the search for p ends.
Add_by_point(t, p) ==
  LET add[u \in Visited(t)] ==
        IF u = Nil THEN {}
        ELSE LET r == Push_Down(u)
                 Son(s) == IF s = Nil THEN {Result(Node(p, (r.axis + 1) % 3, Nil, Nil), <<>>)}
                                      ELSE add[s] IN
             IF p[r.axis] < r.pt[r.axis]
             THEN UNION {Leave([r EXCEPT !.left = x.t], x.dead) : x \in Son(r.left)}
             ELSE UNION {Leave([r EXCEPT !.right = x.t], x.dead) : x \in Son(r.right)}
  IN add[t]

\* Search_by_range pushes marks down on its way: the tree it leaves and the
\* live points of the box.
Search_by_range(t, b) ==
  LET search[u \in Visited(t)] ==
        IF u = Nil THEN [t |-> Nil, live |-> <<>>]
        ELSE LET r == Push_Down(u) IN
             IF Outside(r, b) THEN [t |-> r, live |-> <<>>]
             ELSE IF Covers(b, r) THEN LET f == flatten(r) IN [t |-> f.t, live |-> f.live]
             ELSE LET x == search[r.left]
                      y == search[r.right] IN
                  [t    |-> Rejoin(r, x.t, y.t),
                   live |-> (IF InBox(r.pt, b) /\ ~r.pdel THEN <<r.pt>> ELSE <<>>)
                              \o x.live \o y.live]
  IN search[t]

-----------------------------------------------------------------------------
Room == IF tree = Nil THEN TRUE ELSE tree.size < MaxSize

Init ==
  /\ tree = Nil
  /\ removed = EmptyBag /\ content = EmptyBag /\ gone = EmptyBag

\* The tree becomes t, and dead are the points that rebuilds recorded.
Become(t, dead) ==
  LET f   == flatten(t)
      rec == removed (+) BagOfSeq(dead) IN
  /\ tree' = t
  /\ removed' = rec
  /\ content' = BagOfSeq(f.live)
  /\ gone' = rec (+) BagOfSeq(f.dead)

\* The callers build the tree when Root_Node is null (laserMapping.cpp:975).
Build ==
  /\ tree = Nil
  /\ \E s \in Clouds : \E t \in BuildTrees(s, DOMAIN s) : Become(t, <<>>)

\* Add_Points(_, false), one point.
Add ==
  /\ tree # Nil /\ Room
  /\ \E p \in Points : \E x \in Add_by_point(tree, p) : Become(x.t, x.dead)

\* The point of box b to keep: a strictly nearer old one, the first such of
\* the nearest, replaces the new one.
Keep(p, b, old) ==
  LET near == {i \in DOMAIN old : FromCentre(old[i], b) < FromCentre(p, b)} IN
  IF near = {} THEN p
  ELSE old[CHOOSE i \in near : \A j \in near :
              /\ FromCentre(old[i], b) =< FromCentre(old[j], b)
              /\ FromCentre(old[i], b) = FromCentre(old[j], b) => i =< j]

\* Add_Points(_, true), one point. Were the deletion to leave a null root, the
\* code would dereference it; RootStays says that it does not.
AddDownsampled ==
  /\ tree # Nil /\ Room
  /\ \E p \in Points :
     LET b     == VoxelBox(p)
         found == Search_by_range(tree, b)
         kept  == Keep(p, b, found.live)
     IN IF Len(found.live) =< 1 /\ kept # p
        THEN Become(found.t, <<>>)
        ELSE \E x \in IF found.live # <<>> THEN Delete_by_range(found.t, b, TRUE)
                                           ELSE {Result(found.t, <<>>)} :
             IF x.t = Nil THEN Become(Nil, x.dead)
             ELSE \E y \in Add_by_point(x.t, kept) :
                    Become(y.t, x.dead \o y.dead)

\* Delete_Point_Boxes, one box.
DeleteBox ==
  /\ tree # Nil
  /\ \E b \in Boxes : \E x \in Delete_by_range(tree, b, FALSE) : Become(x.t, x.dead)
  /\ BagCardinality(gone') =< MaxRemoved

\* acquire_removed_points
Acquire ==
  /\ gone' = gone (-) removed
  /\ removed' = EmptyBag
  /\ UNCHANGED <<tree, content>>

\* Searching changes the tree, too: it pushes marks down. Which nodes it
\* opens depends on the heap of KdSearch; here it may open any.
NearestSearch ==
  /\ tree # Nil
  /\ \E t \in Opened(tree) : Become(t, <<>>)

Next == Build \/ Add \/ AddDownsampled \/ DeleteBox \/ Acquire \/ NearestSearch
Spec == Init /\ [][Next]_vars

-----------------------------------------------------------------------------
\* Settled is what the theorems about nodes start from.
TypeOK ==
  /\ IsABag(removed) /\ removed \sqsubseteq gone
  /\ \A t \in Visited(tree) \ {Nil} : Settled(t)
  /\ tree # Nil => /\ tree.size \in 1..MaxSize
                   /\ tree.invalid \in 0..tree.size
                   /\ tree.axis \in Axis

CountsExact ==
  tree # Nil =>
    /\ tree.size = NodeCount(tree)
    /\ tree.size - tree.invalid = Len(flatten(tree).live)

RangeExact ==
  tree # Nil =>
    \A b \in Boxes \cup {VoxelBox(p) : p \in Points} :
      BagOfSeq(Search_by_range(tree, b).live) =
        [p \in {q \in BagToSet(content) : InBox(q, b)} |-> content[p]]

(***************************************************************************)
(* What the callers read of the tree is true although marks are pushed     *)
(* down late: size() counts every node and validnum() every live point,    *)
(* and Search_by_range, on which downsampling relies, returns exactly the  *)
(* live points of the box.                                                 *)
(***************************************************************************)
ReadsExact == CountsExact /\ RangeExact

(***************************************************************************)
(* The map never loses its root: Add_Points reads Root_Node->division_axis *)
(* without a test, so no deletion may let a rebuild find no live point.    *)
(***************************************************************************)
RootStays == [][tree # Nil => tree' # Nil]_vars

(***************************************************************************)
(* The tree is a store of points: marks, pushing down, pruning and         *)
(* rebuilding never lose, duplicate or revive a point, and a removed point *)
(* is handed out at most once.                                             *)
(***************************************************************************)
Store == INSTANCE PointStore
ImplementsStore == Store!Spec
=============================================================================
