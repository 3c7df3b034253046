------------------------------ MODULE PointStore ------------------------------
(***************************************************************************)
(* What the odometry expects of its map, whatever tree stores it: a bag of *)
(* points, and the points that box deletions removed and nobody has        *)
(* collected yet. A step is one call of the map's interface.               *)
(***************************************************************************)
EXTENDS Naturals, Sequences, FiniteSets, Bags, SequencesExt

CONSTANTS
  Clouds,             \* point clouds a map can be built from
  Points,             \* points that can be added
  Boxes,              \* boxes that can be deleted
  InBox(_, _),        \* is the point inside the box?
  VoxelBox(_),        \* the downsampling box around a point
  FromCentre(_, _)    \* distance of a point from the centre of a box

VARIABLES content, gone

BagOf(s) == [p \in Range(s) |-> Cardinality({i \in DOMAIN s : s[i] = p})]
Inside(bag, box) == [p \in {q \in BagToSet(bag) : InBox(q, box)} |-> bag[p]]

Init == content = EmptyBag /\ gone = EmptyBag

\* A map is built once, and never becomes empty of nodes again.
Build ==
  /\ content = EmptyBag /\ gone = EmptyBag
  /\ \E s \in Clouds : content' = BagOf(s)
  /\ UNCHANGED gone

\* A plain addition keeps what was there.
Add == \E p \in Points :
  content' = content (+) SetToBag({p}) /\ UNCHANGED gone

\* What may be left when p is added to the bag c and its box downsampled: one
\* point of the box, a closest to the centre.
Downsampled(c, p) ==
  LET box  == VoxelBox(p)
      old  == Inside(c, box)
      near == {q \in BagToSet(old) \cup {p} :
                 \A r \in BagToSet(old) \cup {p} : FromCentre(q, box) =< FromCentre(r, box)}
  IN {(c (-) old) (+) SetToBag({q}) : q \in near}

\* Points removed earlier may be forgotten on the way.
AddDownsampled ==
  /\ \E p \in Points : content' \in Downsampled(content, p)
  /\ gone' \sqsubseteq gone

DeleteBox == \E box \in Boxes :
  LET hit == Inside(content, box) IN
  content' = content (-) hit /\ gone' = gone (+) hit

\* Removed points are handed out, each at most once.
Acquire == gone' \sqsubseteq gone /\ UNCHANGED content

Next == Build \/ Add \/ AddDownsampled \/ DeleteBox \/ Acquire
Spec == Init /\ [][Next]_<<content, gone>>
=============================================================================
