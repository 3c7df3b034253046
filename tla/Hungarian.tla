----------------------------- MODULE Hungarian -----------------------------
(***************************************************************************)
(* ObstacleDetector::hungarian and its recursive helper hungarianFind      *)
(* (obstacle_detector.hpp:783-816), step by step: the outer loop over the  *)
(* rows, the call stack of hungarianFind with each frame's loop counter,   *)
(* and the two vectors the frames share.                                   *)
(***************************************************************************)
EXTENDS Matching, Sequences

CONSTANTS
  NLeft,    \* rows of connection_matrix: previous boxes with a connection
  NRight    \* columns: current boxes with a connection

\* obstacleTracking returns before the call when there is no connection (line 561).
ASSUME SizesAssumption ==
  /\ NLeft \in Nat \ {0}
  /\ NRight \in Nat \ {0}

VARIABLES
  matrix,            \* connection_matrix, as the set of its cells that are 1
  i,                 \* loop counter of hungarian
  stack,             \* frames [row, col] of hungarianFind, innermost first
  ret,               \* value a finished frame hands to its caller
  right_connected,   \* column -> BOOLEAN, shared by all frames
  right_pair         \* column -> row or Unpaired, the result

hungarianVars == <<matrix, i, stack, ret, right_connected, right_pair>>

Greedy == INSTANCE GreedyMatching
            WITH row <- IF stack = <<>> /\ ret # "none" THEN i + 1 ELSE i

Left  == 0 .. NLeft - 1
Right == 0 .. NRight - 1

HungarianInit ==
  /\ matrix \in Greedy!ConnectionMatrices
  /\ i = 0
  /\ stack = <<>>
  /\ ret = "none"
  /\ right_connected = [c \in Right |-> FALSE]
  /\ right_pair = [c \in Right |-> Unpaired]

Running == stack # <<>> /\ ret = "none"
Row     == Head(stack).row
Col     == Head(stack).col

\* The test of line 789 on the column the innermost frame has reached.
Candidate ==
  /\ Col < NRight
  /\ <<Row, Col>> \in matrix
  /\ ~right_connected[Col]

Advance(frames) ==
  <<[row |-> Head(frames).row, col |-> Head(frames).col + 1]>> \o Tail(frames)

\* Mutations of the code that the properties must notice.
MutCallFindResets ==
  /\ stack = <<>> /\ ret = "none" /\ i < NLeft
  /\ stack' = <<[row |-> i, col |-> 0]>>
  /\ right_connected' = [c \in Right |-> FALSE]
  /\ UNCHANGED <<matrix, i, ret, right_pair>>

\* hungarian calls hungarianFind for row i; right_connected keeps its contents.
CallFind ==
  /\ stack = <<>> /\ ret = "none" /\ i < NLeft
  /\ stack' = <<[row |-> i, col |-> 0]>>
  /\ UNCHANGED <<matrix, i, ret, right_connected, right_pair>>

MutNextColumnUnbounded ==
  /\ Running
  /\ Col =< NRight /\ ~Candidate
  /\ stack' = Advance(stack)
  /\ UNCHANGED <<matrix, i, ret, right_connected, right_pair>>

NextColumn ==
  /\ Running
  /\ Col < NRight /\ ~Candidate
  /\ stack' = Advance(stack)
  /\ UNCHANGED <<matrix, i, ret, right_connected, right_pair>>

\* Every frame on the stack gets the column it stands on: `return true` unwinds
\* the whole recursion, each caller executing right_pair[j] = i (line 793).
Augmented ==
  [c \in Right |->
     IF \E k \in DOMAIN stack : stack[k].col = c
     THEN LET k == CHOOSE k \in DOMAIN stack : stack[k].col = c IN stack[k].row
     ELSE right_pair[c]]

(***************************************************************************)
(* A candidate column is marked, then taken if it is free; otherwise the   *)
(* row that holds it is asked, recursively, to find another one.           *)
(***************************************************************************)
TryColumn ==
  /\ Running
  /\ Candidate
  /\ right_connected' = [right_connected EXCEPT ![Col] = TRUE]
  /\ IF right_pair[Col] = Unpaired
     THEN /\ right_pair' = Augmented
          /\ stack' = <<>>
          /\ ret' = "true"
     ELSE /\ stack' = <<[row |-> right_pair[Col], col |-> 0]>> \o stack
          /\ UNCHANGED <<ret, right_pair>>
  /\ UNCHANGED <<matrix, i>>

\* The loop is over: `return false`, to the calling frame or to hungarian.
ReturnFalse ==
  /\ Running
  /\ Col >= NRight
  /\ IF Tail(stack) = <<>>
     THEN stack' = <<>> /\ ret' = "false"
     ELSE stack' = Advance(Tail(stack)) /\ UNCHANGED ret
  /\ UNCHANGED <<matrix, i, right_connected, right_pair>>

MutFinishRowSameRow ==
  /\ stack = <<>> /\ ret # "none"
  /\ ret' = "none"
  /\ UNCHANGED <<matrix, i, stack, right_connected, right_pair>>

FinishRow ==
  /\ stack = <<>> /\ ret # "none"
  /\ i' = i + 1
  /\ ret' = "none"
  /\ UNCHANGED <<matrix, stack, right_connected, right_pair>>

HungarianNext ==
  \/ CallFind
  \/ NextColumn
  \/ TryColumn
  \/ ReturnFalse
  \/ FinishRow

HungarianSpec     == HungarianInit /\ [][HungarianNext]_hungarianVars
HungarianFairSpec == HungarianSpec /\ WF_hungarianVars(HungarianNext)

Done == i = NLeft

-----------------------------------------------------------------------------
HungarianTypeOK ==
  /\ matrix \subseteq Left \X Right
  /\ i \in 0 .. NLeft
  /\ stack \in Seq([row : Left, col : 0 .. NRight])
  /\ ret \in {"none", "true", "false"}
  /\ right_connected \in [Right -> BOOLEAN]
  /\ right_pair \in [Right -> Left \cup {Unpaired}]

(***************************************************************************)
(* At every step the partial result is a matching of the connection        *)
(* matrix: only connected boxes are paired, no previous box is given to    *)
(* two current boxes, and the shared marks are exactly the columns taken.  *)
(***************************************************************************)
PartialMatching ==
  \A c \in Right :
    /\ right_connected[c] <=> right_pair[c] # Unpaired
    /\ right_pair[c] # Unpaired => <<right_pair[c], c>> \in matrix
    /\ \A d \in Right : right_pair[c] = right_pair[d] =>
                          c = d \/ right_pair[c] = Unpaired

(***************************************************************************)
(* hungarianFind never calls itself: right_connected is not cleared        *)
(* between the rows of hungarian, so a column that is taken is never a     *)
(* candidate again and the augmenting call of line 792 is dead. What the   *)
(* comment of line 569 calls max-matching is not one.                      *)
(***************************************************************************)
AugmentingIsDead == Len(stack) =< 1

Below(S) == { p \in S \X S : p[1] < p[2] }

(***************************************************************************)
(* The vector hungarian returns is the first-fit matching: each row, in    *)
(* order, has the first of its columns that the earlier rows left free.    *)
(***************************************************************************)
FirstFitWhenDone ==
  Done => FirstFit(right_pair, Left, Right, matrix, Below(Left), Below(Right))

(***************************************************************************)
(* The recursive search implements the greedy matching row by row: no      *)
(* step of it ever takes a column back from a row that was served.         *)
(***************************************************************************)
RefinesGreedy == Greedy!Spec

\* Every call of hungarian returns, however the frames call one another.
Termination == <>Done
=============================================================================
