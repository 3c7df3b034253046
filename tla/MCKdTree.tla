------------------------------ MODULE MCKdTree ------------------------------
(***************************************************************************)
(* Points of a plane; two of them share a voxel, two share an x, and a     *)
(* tree of three nodes is already rebuilt.                                 *)
(***************************************************************************)
EXTENDS KdSearch

P(x, y) == [a \in Axis |-> IF a = 0 THEN x ELSE IF a = 1 THEN y ELSE 0]
B(x1, y1, x2, y2) == [min |-> [P(x1, y1) EXCEPT ![2] = -1], max |-> [P(x2, y2) EXCEPT ![2] = 1]]

MCPoints == {P(0, 0), P(1, 1), P(2, 0), P(3, 3)}
MCClouds == {<<P(1, 1)>>, <<P(0, 0), P(1, 1), P(3, 3), P(2, 0)>>}
MCBoxes  == {B(0, 0, 2, 2), B(1, 0, 3, 4)}
=============================================================================
