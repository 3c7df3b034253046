----------------------------- MODULE MCLivoxDriver -----------------------------
(* A lidar with two options, as in MID360_config.json, and a ring of two     *)
(* slots whose indexes wrap at four; the lidar may report itself twice.      *)
EXTENDS LivoxDriver

=============================================================================
