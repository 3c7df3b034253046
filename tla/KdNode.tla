------------------------------- MODULE KdNode -------------------------------
(***************************************************************************)
(* One node of the ikd-Tree (ikd_Tree.cpp, KD_TREE_NODE): its counters,    *)
(* deletion marks and box, how they follow from its sons', how a mark is   *)
(* pushed down, and the geometry by which a subtree is visited, skipped or *)
(* taken as a whole. A tree is a node whose sons are trees or Nil.         *)
(***************************************************************************)
EXTENDS Integers, FiniteSetsExt

Axis  == 0..2
Point == [Axis -> Int]

\* The null pointer: a record that is no node.
Nil == [null |-> TRUE]

Fields == {"pt", "axis", "left", "right", "size", "invalid", "downdel",
           "pdel", "tdel", "pdown", "tdown", "pushL", "pushR", "lo", "hi"}

\* A node, whatever its sons are.
IsNode(t) ==
  /\ DOMAIN t = Fields /\ t = [f \in DOMAIN t |-> t[f]]
  /\ t.pt \in Point /\ t.lo \in Point /\ t.hi \in Point /\ t.axis \in Axis
  /\ t.size \in Nat /\ t.invalid \in Nat /\ t.downdel \in Nat
  /\ \A f \in {"pdel", "tdel", "pdown", "tdown", "pushL", "pushR"} : t[f] \in BOOLEAN

Sons(t)    == {t.left, t.right} \ {Nil}
Size(s)    == IF s = Nil THEN 0 ELSE s.size
Invalid(s) == IF s = Nil THEN 0 ELSE s.invalid
Downdel(s) == IF s = Nil THEN 0 ELSE s.downdel
One(b)     == IF b THEN 1 ELSE 0

-----------------------------------------------------------------------------
\* Geometry: floats are integers, boxes are half open.
InBox(p, b)  == \A a \in Axis : b.min[a] =< p[a] /\ p[a] < b.max[a]
Square(n)    == n * n
calc_dist(p, q) == Square(p[0] - q[0]) + Square(p[1] - q[1]) + Square(p[2] - q[2])

\* Distance to the box of a node; nothing is further away than a null son.
Infinity == 1000000
Gap(t, p, a) == IF p[a] < t.lo[a] THEN t.lo[a] - p[a]
                ELSE IF p[a] > t.hi[a] THEN p[a] - t.hi[a] ELSE 0
calc_box_dist(t, p) ==
  IF t = Nil THEN Infinity
  ELSE Square(Gap(t, p, 0)) + Square(Gap(t, p, 1)) + Square(Gap(t, p, 2))

\* The node's box misses b, or lies in b.
Outside(t, b) == \E a \in Axis : b.max[a] =< t.lo[a] \/ b.min[a] > t.hi[a]
Covers(b, t)  == \A a \in Axis : b.min[a] =< t.lo[a] /\ b.max[a] > t.hi[a]

-----------------------------------------------------------------------------
MutUpdateLoose(t) ==
  [t EXCEPT
    !.size    = 1 + Size(t.left) + Size(t.right),
    !.invalid = One(t.pdel) + Invalid(t.left) + Invalid(t.right),
    !.downdel = One(t.pdown) + Downdel(t.left) + Downdel(t.right),
    !.tdown   = t.pdown /\ \A s \in Sons(t) : s.tdown,
    !.tdel    = t.pdel /\ \A s \in Sons(t) : s.tdel,
    !.lo = [a \in Axis |-> Min({t.pt[a]} \cup {s.lo[a] : s \in Sons(t)})],
    !.hi = [a \in Axis |-> Max({t.pt[a]} \cup {s.hi[a] : s \in Sons(t)})]]

MutUpdateTight(t) ==
  LET live == {s \in Sons(t) : ~s.tdel}
      own  == IF live = {} \/ ~t.pdel THEN {t.pt} ELSE {} IN
  [t EXCEPT
    !.size    = 1 + Size(t.left) + Size(t.right),
    !.invalid = One(t.pdel) + Invalid(t.left) + Invalid(t.right),
    !.downdel = One(t.pdown) + Downdel(t.left) + Downdel(t.right),
    !.tdown   = t.pdown /\ \A s \in Sons(t) : s.tdown,
    !.tdel    = t.pdel /\ \A s \in Sons(t) : s.tdel,
    !.lo = [a \in Axis |-> Min({p[a] : p \in own} \cup {s.lo[a] : s \in live})],
    !.hi = [a \in Axis |-> Max({p[a] : p \in own} \cup {s.lo[a] : s \in live})]]

\* A node's counters and marks follow from its sons'; its box spans what is
\* not deleted, or everything when all of it is.
Update(t) ==
  LET tdel == t.pdel /\ \A s \in Sons(t) : s.tdel
      live == {s \in Sons(t) : tdel \/ ~s.tdel}
      own  == IF tdel \/ ~t.pdel THEN {t.pt} ELSE {}
  IN [t EXCEPT
       !.size    = 1 + Size(t.left) + Size(t.right),
       !.invalid = One(t.pdel) + Invalid(t.left) + Invalid(t.right),
       !.downdel = One(t.pdown) + Downdel(t.left) + Downdel(t.right),
       !.tdown   = t.pdown /\ \A s \in Sons(t) : s.tdown,
       !.tdel    = tdel,
       !.lo = [a \in Axis |-> Min({p[a] : p \in own} \cup {s.lo[a] : s \in live})],
       !.hi = [a \in Axis |-> Max({p[a] : p \in own} \cup {s.hi[a] : s \in live})]]

\* InitTreeNode, linking the sons and Update.
Node(p, axis, l, r) ==
  Update([pt |-> p, axis |-> axis, left |-> l, right |-> r,
          size |-> 1, invalid |-> 0, downdel |-> 0,
          pdel |-> FALSE, tdel |-> FALSE, pdown |-> FALSE, tdown |-> FALSE,
          pushL |-> FALSE, pushR |-> FALSE, lo |-> p, hi |-> p])

MutPushToOnce(s, t) ==
  [s EXCEPT
    !.tdown = @ \/ t.tdown, !.pdown = @ \/ t.tdown,
    !.tdel = t.tdel \/ s.tdown, !.pdel = t.tdel \/ s.tdown \/ s.pdown,
    !.invalid = IF t.tdel THEN s.size ELSE s.downdel]

\* The marks of a node overwrite a son's, who owes them to its own sons.
PushTo(s, t) ==
  LET tdown == s.tdown \/ t.tdown
      pdown == s.pdown \/ t.tdown
      tdel  == t.tdel \/ tdown
      downdel == IF t.tdown THEN s.size ELSE s.downdel
  IN [s EXCEPT
       !.tdown = tdown, !.pdown = pdown, !.tdel = tdel, !.pdel = tdel \/ pdown,
       !.downdel = downdel, !.invalid = IF t.tdel THEN s.size ELSE downdel,
       !.pushL = TRUE, !.pushR = TRUE]

\* A mark for a null son stays.
Push_Down(t) ==
  [t EXCEPT
    !.left  = IF t.pushL /\ t.left # Nil THEN PushTo(t.left, t) ELSE @,
    !.right = IF t.pushR /\ t.right # Nil THEN PushTo(t.right, t) ELSE @,
    !.pushL = @ /\ t.left = Nil,
    !.pushR = @ /\ t.right = Nil]

MutDeleteAllAgain(t, is_downsample) ==
  [t EXCEPT
    !.tdel = TRUE, !.pdel = TRUE, !.pushL = TRUE, !.pushR = TRUE, !.invalid = @ + t.size,
    !.tdown = @ \/ is_downsample, !.pdown = @ \/ is_downsample,
    !.downdel = IF is_downsample THEN t.size ELSE @]

MutDeleteAll(t, is_downsample) ==
  [t EXCEPT
    !.tdel = TRUE, !.pdel = TRUE, !.pushL = TRUE, !.invalid = t.size,
    !.tdown = @ \/ is_downsample, !.pdown = @ \/ is_downsample,
    !.downdel = IF is_downsample THEN t.size ELSE @]

\* Delete_by_range on a node whose box the deleted box covers.
DeleteAll(t, is_downsample) ==
  [t EXCEPT
    !.tdel = TRUE, !.pdel = TRUE, !.pushL = TRUE, !.pushR = TRUE, !.invalid = t.size,
    !.tdown = @ \/ is_downsample, !.pdown = @ \/ is_downsample,
    !.downdel = IF is_downsample THEN t.size ELSE @]

\* ... and on one that the box cuts, once its sons became l and r.
DeletePoint(t, b, is_downsample, l, r) ==
  LET hit == ~t.pdel /\ InBox(t.pt, b) IN
  [t EXCEPT !.pdel = @ \/ hit, !.pdown = @ \/ (hit /\ is_downsample),
            !.left = l, !.right = r]

-----------------------------------------------------------------------------
\* What holds of every node of a tree when the marks above it are pushed down.

\* A mark that waited for a null son reaches a point that was added later: a
\* leaf, on which it has no effect once the node itself is not deleted.
Fresh(s) ==
  /\ s.left = Nil /\ s.right = Nil
  /\ s.size = 1 /\ s.invalid = 0 /\ s.downdel = 0
  /\ ~s.pdel /\ ~s.tdel /\ ~s.pdown /\ ~s.tdown
OwesNothing(t) ==
  ~t.tdel => /\ t.pushL /\ t.left # Nil => Fresh(t.left)
             /\ t.pushR /\ t.right # Nil => Fresh(t.right)

Inherits(t) ==
  /\ t.tdown => t.tdel /\ t.pdown /\ t.downdel = t.size
  /\ t.tdel => t.pdel
  /\ t.pdown => t.pdel
  /\ t.invalid =< t.size
  /\ t.tdel <=> t.invalid = t.size

UpToDate(t) == \A f \in {"size", "invalid", "downdel", "tdown", "tdel"} : t[f] = Update(t)[f]

Within(lo, hi, t) == \A a \in Axis : t.lo[a] =< lo[a] /\ hi[a] =< t.hi[a]
Boxed(t) ==
  /\ ~t.pdel => Within(t.pt, t.pt, t)
  /\ \A s \in Sons(t) : ~s.tdel => Within(s.lo, s.hi, t)
\* The box is no larger than that.
Tight(t) ==
  ~t.tdel => \A a \in Axis :
    /\ \/ ~t.pdel /\ t.lo[a] = t.pt[a]
       \/ \E s \in Sons(t) : ~s.tdel /\ t.lo[a] = s.lo[a]
    /\ \/ ~t.pdel /\ t.hi[a] = t.pt[a]
       \/ \E s \in Sons(t) : ~s.tdel /\ t.hi[a] = s.hi[a]

Settled(t) ==
  /\ IsNode(t) /\ \A s \in Sons(t) : IsNode(s)
  /\ OwesNothing(t) /\ Inherits(t)
  /\ UpToDate(Push_Down(t)) /\ Boxed(Push_Down(t)) /\ Tight(Push_Down(t))
=============================================================================
