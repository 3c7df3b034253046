--------------------------- MODULE MCKdTreeRebuild ---------------------------
(***************************************************************************)
(* Two points, one box that holds one of them, two searching threads.      *)
(***************************************************************************)
EXTENDS KdTreeRebuild

CONSTANTS p, q

MCPoints == {p, q}
MCBoxes  == {{p}}
=============================================================================
