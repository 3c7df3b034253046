------------------------------- MODULE MCFastLio -------------------------------
(***************************************************************************)
(* Two axes; a cube of 38 with DET_RANGE 6 moves by 9, close to the ratios *)
(* of mid360.yaml (1000, 100, 315). Two moves of the lidar move the cube;  *)
(* of the points seen, one then is near the lidar and one in the slab.     *)
(***************************************************************************)
EXTENDS FastLio

MCAxes  == {1, 2}
MCMoves == {<<0, 0>>, <<10, 10>>}
MCSeen  == {<<12, 8>>, <<-6, 6>>, <<-12, -6>>}
=============================================================================
