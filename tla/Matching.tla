------------------------------ MODULE Matching ------------------------------
(***************************************************************************)
(* The matching that obstacleTracking gets from hungarian, as a relation   *)
(* between its input and its result.  Hungarian shows that the code's      *)
(* recursive search produces it; Tracker uses it as one step.              *)
(***************************************************************************)
EXTENDS Integers

Unpaired == -1

(***************************************************************************)
(* matches assigns each right vertex a left vertex or Unpaired.  In a      *)
(* first-fit matching the left vertices are served in the order lbefore:   *)
(* each gets, of the right vertices adjacent to it that no earlier left    *)
(* vertex has, the first in the order rbefore.                             *)
(***************************************************************************)
FreeFor(l, matches, rights, edges, lbefore) ==
  { c \in rights : <<l, c>> \in edges /\ <<matches[c], l>> \notin lbefore }

FirstFit(matches, lefts, rights, edges, lbefore, rbefore) ==
  \A l \in lefts :
    LET free == FreeFor(l, matches, rights, edges, lbefore)
    IN  { c \in rights : matches[c] = l }
          = { c \in free : \A d \in free \ {c} : <<c, d>> \in rbefore }
=============================================================================
