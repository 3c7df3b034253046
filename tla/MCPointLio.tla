------------------------------ MODULE MCPointLio ------------------------------
(***************************************************************************)
(* One axis, along which the lidar goes out and back: a cube of 38 with    *)
(* DET_RANGE 6 moves by 9 when the lidar is within 9 of a wall. A second   *)
(* of two units, in which standard_pcl_cbk does not see the clock go back. *)
(***************************************************************************)
EXTENDS PointLio

MCAxes  == {1}
MCMoves == {<<-10>>, <<10>>}
MCSeen  == {<<-6>>, <<12>>}
=============================================================================
