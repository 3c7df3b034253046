------------------------------- MODULE LocalMap -------------------------------
(***************************************************************************)
(* The cube of the map that follows the lidar: lasermap_fov_segment of     *)
(* fastlio/src/laserMapping.cpp (Point_LIO has the same function). Lengths *)
(* are integers in a unit that makes mov_dist one; a position is a         *)
(* function from the axes, which one loop treats alike.                    *)
(***************************************************************************)
EXTENDS Integers

CONSTANTS
  Axes,     \* the loop's three axes
  CubeLen,  \* cube_len
  Edge,     \* MOV_THRESHOLD * DET_RANGE, MOV_THRESHOLD = 1.5
  DetRange  \* DET_RANGE

ASSUME LengthsAssumption ==
  /\ Axes # {}
  /\ CubeLen \in Nat \ {0} /\ Edge \in Nat /\ DetRange \in Nat
  /\ 2 * Edge = 3 * DetRange
  /\ CubeLen % 2 = 0 /\ Edge % 3 = 0 /\ (CubeLen - 2 * Edge) % 20 = 0

\* mov_dist
MovDist == LET wide   == (9 * (CubeLen - 2 * Edge)) \div 20
               narrow == Edge \div 3
           IN  IF wide > narrow THEN wide ELSE narrow

\* What every shipped configuration but avia.yaml gives: the slab dropped on
\* one side is out of the range of a lidar that is near the other.
ASSUME RoomAssumption == CubeLen - MovDist - Edge > DetRange

Positions == [Axes -> Int]
Boxes     == [min : Positions, max : Positions]

Cube(pos) == [min |-> [i \in Axes |-> pos[i] - CubeLen \div 2],
              max |-> [i \in Axes |-> pos[i] + CubeLen \div 2]]

\* dist_to_map_edge[i][side] =< MOV_THRESHOLD * DET_RANGE
IsNear(x, wall) == x - wall =< Edge /\ wall - x =< Edge

\* Where the cube goes along an axis: the lower wall is looked at first.
Direction(box, pos, i) ==
  IF IsNear(pos[i], box.min[i]) THEN -1
  ELSE IF IsNear(pos[i], box.max[i]) THEN 1 ELSE 0

\* New_LocalMap_Points
MovedBox(box, pos) ==
  LET shift(i) == Direction(box, pos, i) * MovDist
  IN  [min |-> [i \in Axes |-> box.min[i] + shift(i)],
       max |-> [i \in Axes |-> box.max[i] + shift(i)]]

\* Mutant of Slab: the slab is cut at the wall the lidar comes near.
MutSlab(box, pos, i) ==
  IF Direction(box, pos, i) = -1
  THEN [box EXCEPT !.max[i] = box.min[i] + MovDist]
  ELSE [box EXCEPT !.min[i] = box.max[i] - MovDist]

\* tmp_boxpoints: the slab of the old cube that the move leaves behind.
Slab(box, pos, i) ==
  IF Direction(box, pos, i) = -1
  THEN [box EXCEPT !.min[i] = box.max[i] - MovDist]
  ELSE [box EXCEPT !.max[i] = box.min[i] + MovDist]

\* cub_needrm
LeftBehind(box, pos) == {Slab(box, pos, i) : i \in {j \in Axes : Direction(box, pos, j) # 0}}

\* Delete_by_range takes the lower faces of a box and leaves the upper ones.
InBox(p, box) == \A i \in Axes : box.min[i] =< p[i] /\ p[i] < box.max[i]

Outdated(points, box, pos) == {p \in points : \E b \in LeftBehind(box, pos) : InBox(p, b)}
=============================================================================
