---------------------------- MODULE MCObstacleFrames ----------------------------
(* Two obstacles of one size and a third one of another size between them,   *)
(* one unit of length for 0.1 m; the smoothing of go2.yaml.                  *)
EXTENDS ObstacleFrames

CONSTANTS near, far, other

MCWorld == near :> 0 @@ far :> 10 @@ other :> 4
MCClass == near :> "small" @@ far :> "small" @@ other :> "large"
MCTrack == 0 .. 2

=============================================================================
