--------------------------- MODULE GreedyMatching ---------------------------
(***************************************************************************)
(* What ObstacleDetector::hungarian (obstacle_detector.hpp:800-816) really *)
(* computes, one step per row of the connection matrix: a row takes its    *)
(* first column that no earlier row has taken, or stays unpaired.  It is   *)
(* the abstract specification that Hungarian implements.                   *)
(***************************************************************************)
EXTENDS Matching

CONSTANTS
  NLeft,   \* rows of connection_matrix: previous boxes with a connection
  NRight   \* columns: current boxes with a connection

Left  == 0 .. NLeft - 1
Right == 0 .. NRight - 1

(***************************************************************************)
(* connectionMatrix (hpp:745-781) makes a row and a column of each id that *)
(* connection_pairs mentions, so none is empty.  In which order columns    *)
(* are mentioned depends on the ids that previous boxes share, and is left *)
(* open.                                                                   *)
(***************************************************************************)
ConnectionMatrices ==
  { edges \in SUBSET (Left \X Right) :
      /\ \A r \in Left : \E c \in Right : <<r, c>> \in edges
      /\ \A c \in Right : \E r \in Left : <<r, c>> \in edges }

-----------------------------------------------------------------------------
VARIABLES
  matrix,       \* connection_matrix, as the set of its cells that are 1
  row,          \* the row the loop of hungarian serves next
  right_pair    \* right_pair: column -> row or Unpaired

vars == <<matrix, row, right_pair>>

Init ==
  /\ matrix \in ConnectionMatrices
  /\ row = 0
  /\ right_pair = [c \in Right |-> Unpaired]

Free == { c \in Right : <<row, c>> \in matrix /\ right_pair[c] = Unpaired }

PairRow ==
  /\ row < NLeft
  /\ \E c \in Free : /\ \A d \in Free : c =< d
                     /\ right_pair' = [right_pair EXCEPT ![c] = row]
  /\ row' = row + 1
  /\ UNCHANGED matrix

SkipRow ==
  /\ row < NLeft
  /\ Free = {}
  /\ row' = row + 1
  /\ UNCHANGED <<matrix, right_pair>>

Next == PairRow \/ SkipRow

Spec == Init /\ [][Next]_vars
=============================================================================
