------------------------- MODULE MCParameterTuning -------------------------
(***************************************************************************)
(* Three parameters: a checkbox and a scalar that the callback copies, and *)
(* a scalar that it does not.                                              *)
(***************************************************************************)
EXTENDS ParameterTuning

CONSTANTS use_tracking, ground_threshold, min_x, low, high

MCDisplayed == <<min_x, use_tracking, ground_threshold>>
MCScalars   == {min_x, ground_threshold}
MCReread    == {use_tracking, ground_threshold}
MCValues    == {low, high}
MCDefault   == [n \in {use_tracking, ground_threshold, min_x} |-> low]
=============================================================================
