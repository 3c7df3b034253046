------------------------------ MODULE KdSearch ------------------------------
(***************************************************************************)
(* Nearest_Search of the ikd-Tree (ikd_Tree.cpp): the heap of the nearest  *)
(* points found so far (MANUAL_HEAP of ikd_Tree.h), and the visit of the   *)
(* tree that it steers. In KdTree such a visit may open any of the nodes   *)
(* it meets.                                                               *)
(***************************************************************************)
EXTENDS KdTree

CONSTANTS
  Neighbours,     \* values of k_nearest
  MaxDists        \* squares of max_dist

ASSUME KdSearchAssumption ==
  /\ Neighbours \subseteq Nat \ {0}
  /\ MaxDists \subseteq Int

-----------------------------------------------------------------------------
\* PointType_CMP: a point and its distance, ties broken by x.
Entry == [pt : Point, dist : Int]
Less(x, y) == IF x.dist = y.dist THEN x.pt[0] < y.pt[0] ELSE x.dist < y.dist

\* MANUAL_HEAP has its largest entry on top; heap[i + 1] is the code's heap[i].
Swap(h, i, j) == [h EXCEPT ![i] = h[j], ![j] = h[i]]

\* One turn of the loop of FloatUp, at the entry that moves.
Rise(s) ==
  LET up == s.at \div 2 IN
  IF s.at > 1 /\ Less(s.heap[up], s.heap[s.at])
  THEN [heap |-> Swap(s.heap, s.at, up), at |-> up] ELSE s

FloatUp(h, i) ==
  LET turn[n \in 0..i] == IF n = 0 THEN [heap |-> h, at |-> i] ELSE Rise(turn[n - 1])
  IN turn[i].heap

\* One turn of the loop of MoveDown, with the larger son.
LargerSon(h, i) ==
  IF 2 * i < Len(h) /\ Less(h[2 * i], h[2 * i + 1]) THEN 2 * i + 1 ELSE 2 * i
Sink(s) ==
  LET l == LargerSon(s.heap, s.at) IN
  IF l =< Len(s.heap) /\ Less(s.heap[s.at], s.heap[l])
  THEN [heap |-> Swap(s.heap, s.at, l), at |-> l] ELSE s

MoveDown(h, i) ==
  LET turn[n \in 0..Len(h)] == IF n = 0 THEN [heap |-> h, at |-> i] ELSE Sink(turn[n - 1])
  IN turn[Len(h)].heap

HeapPush(h, x) == FloatUp(Append(h, x), Len(h) + 1)
HeapPop(h) == IF Len(h) =< 1 THEN <<>>
              ELSE MoveDown([i \in 1..(Len(h) - 1) |-> IF i = 1 THEN h[Len(h)] ELSE h[i]], 1)

\* Keep x among the k nearest found so far.
IsOpen(q, k, dist) == Len(q) < k \/ dist < q[1].dist
Offer(q, x, k) ==
  IF ~IsOpen(q, k, x.dist) THEN q
  ELSE HeapPush(IF Len(q) < k THEN q ELSE HeapPop(q), x)

-----------------------------------------------------------------------------
\* A son s, visited as x says if it may hold something nearer than the worst of
\* the k entries kept.
Visit(x, s, p, k, q) ==
  IF IsOpen(q, k, calc_box_dist(s, p)) THEN x[q] ELSE [t |-> s, q |-> q]

\* The own point of the opened node r.
OwnPoint(r, p, k, max, q) ==
  LET d == calc_dist(p, r.pt) IN
  IF ~r.pdel /\ d =< max THEN Offer(q, [pt |-> r.pt, dist |-> d], k) ELSE q

\* Its sons, the nearer one first when both are open.
LeftFirst(r, p, k, q) ==
  LET dl == calc_box_dist(r.left, p)
      dr == calc_box_dist(r.right, p) IN
  dl =< dr \/ ~(IsOpen(q, k, dl) /\ IsOpen(q, k, dr))
VisitSons(r, x, y, p, k, q) ==
  IF LeftFirst(r, p, k, q)
  THEN LET a == Visit(x, r.left, p, k, q)
           b == Visit(y, r.right, p, k, a.q) IN
       [t |-> Rejoin(r, a.t, b.t), q |-> b.q]
  ELSE LET b == Visit(y, r.right, p, k, q)
           a == Visit(x, r.left, p, k, b.q) IN
       [t |-> Rejoin(r, a.t, b.t), q |-> a.q]

\* Search, as a function of the heap: the tree with the marks pushed down on
\* the way, and the heap.
Search(t, k, p, max) ==
  LET search[u \in Visited(t)] ==
        IF u = Nil THEN [q \in Seq(Entry) |-> [t |-> Nil, q |-> q]]
        ELSE LET r == Push_Down(u) IN
             [q \in Seq(Entry) |->
               IF u.tdel \/ calc_box_dist(u, p) > max THEN [t |-> u, q |-> q]
               ELSE VisitSons(r, search[r.left], search[r.right], p, k,
                              OwnPoint(r, p, k, max, q))]
  IN search[t]

\* Nearest_Search empties the heap from its top into the front of the result:
\* the tree it leaves and the entries found.
Take(s) == [heap |-> HeapPop(s.heap), found |-> <<s.heap[1]>> \o s.found]
Drain(q, k) ==
  LET turn[n \in 0..k] == IF n = 0 THEN [heap |-> q, found |-> <<>>] ELSE Take(turn[n - 1])
  IN turn[k].found
Nearest_Search(p, k, max) ==
  LET s == Search(tree, k, p, max)[<<>>] IN
  [t |-> s.t, found |-> Drain(s.q, Min({k, Len(s.q)}))]

-----------------------------------------------------------------------------
\* How many numbers of s are at most d.
UpTo(s, d) == Cardinality({i \in DOMAIN s : s[i] =< d})
PointsOf(q)  == [i \in DOMAIN q |-> q[i].pt]
Distances(p, s) == [i \in DOMAIN s |-> calc_dist(p, s[i])]

\* found are k of the live points that are nearest to p within max, in order.
IsNearest(found, live, p, k, max) ==
  LET dist == Distances(p, live)
      near == Distances(p, PointsOf(found)) IN
  /\ BagOfSeq(PointsOf(found)) \sqsubseteq BagOfSeq(live)
  /\ \A i \in DOMAIN found : found[i].dist = near[i] /\ near[i] =< max
  /\ \A i, j \in DOMAIN found : i =< j => near[i] =< near[j]
  /\ \A d \in Range(dist) \cup {max} :
       d =< max => UpTo(near, d) = Min({k, UpTo(dist, d)})

(***************************************************************************)
(* Nearest_Search finds the k nearest live points within max_dist: no      *)
(* subtree it prunes, by a box that deletions shrank or a mark not yet     *)
(* pushed down, holds one of these. It leaves a tree that KdTree says a    *)
(* search may leave.                                                       *)
(***************************************************************************)
NearestExact ==
  LET live == flatten(tree).live
      may  == Opened(tree) IN
  tree # Nil =>
    \A p \in Points, k \in Neighbours, max \in MaxDists :
      LET s == Nearest_Search(p, k, max) IN
      /\ IsNearest(s.found, live, p, k, max)
      /\ s.t \in may
=============================================================================
