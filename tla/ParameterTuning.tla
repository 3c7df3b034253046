--------------------------- MODULE ParameterTuning ---------------------------
(***************************************************************************)
(* Tuning the detector at run time: the window of reconfigure.py sends     *)
(* set_parameters requests, the detector's parameter callback              *)
(* (obstacle_detector.cpp:274-335) copies parameters to the globals that   *)
(* the next point clouds are processed with.                               *)
(*                                                                         *)
(* rclcpp calls the callback to validate a request, before it stores the   *)
(* new value, so get_parameter in the callback reads the old one.          *)
(***************************************************************************)
EXTENDS Naturals, Sequences, FiniteSets, SequencesExt

CONSTANTS
  Displayed,    \* the parameters of the window, in the order of the yaml file
  Scalars,      \* those with a text field
  Reread,       \* those the callback copies; min_x and its like are not
  Values,       \* well-typed values
  WrongType,    \* an integer typed for a parameter declared as a double
  Default,      \* parameter -> its value in the yaml file
  MaxQueue      \* bound: requests the detector has not handled

Names == ToSet(Displayed)

ASSUME TuningAssumption ==
  /\ Displayed \in Seq(Names) /\ IsInjective(Displayed)
  /\ Scalars \subseteq Names /\ Reread \subseteq Names
  /\ WrongType \notin Values
  /\ Default \in [Names -> Values]
  /\ MaxQueue \in Nat /\ Len(Displayed) =< MaxQueue

VARIABLES
  store,       \* the node's parameters
  globals,     \* what point clouds are processed with
  queue,       \* set_parameters requests on their way to the detector
  waiting,     \* is the window in spin_until_future_complete?
  todo,        \* what reset_defaults has still to send
  restored     \* history: the last thing the window did was reset_defaults

vars == <<store, globals, queue, waiting, todo, restored>>

Request == [name : Names, value : Values \cup {WrongType}]

Init ==
  /\ store = Default
  /\ globals = Default
  /\ queue = <<>>
  /\ waiting = FALSE
  /\ todo = <<>>
  /\ restored = FALSE

-----------------------------------------------------------------------------
\* set_parameter: send one parameter and block the window.
Send(n, v) ==
  /\ queue' = Append(queue, [name |-> n, value |-> v])
  /\ waiting' = TRUE

\* A checkbox is clicked, a slider released or a text entered.
SetParameter ==
  /\ ~waiting /\ todo = <<>> /\ Len(queue) < MaxQueue
  /\ \E n \in Names :
     \E v \in Values \cup (IF n \in Scalars THEN {WrongType} ELSE {}) : Send(n, v)
  /\ restored' = FALSE
  /\ UNCHANGED <<store, globals, todo>>

\* reset_defaults visits every widget.
ResetDefaults ==
  /\ ~waiting /\ todo = <<>> /\ Len(queue) + Len(Displayed) =< MaxQueue
  /\ todo' = Displayed
  /\ restored' = TRUE
  /\ UNCHANGED <<store, globals, queue, waiting>>

MutResetNext ==
  /\ ~waiting /\ todo # <<>>
  /\ IF queue = <<>>
     THEN Send(Head(todo), Default[Head(todo)])
     ELSE UNCHANGED <<queue, waiting>>
  /\ todo' = Tail(todo)
  /\ UNCHANGED <<store, globals, restored>>

ResetNext ==
  /\ ~waiting /\ todo # <<>>
  /\ Send(Head(todo), Default[Head(todo)])
  /\ todo' = Tail(todo)
  /\ UNCHANGED <<store, globals, restored>>

MutStopWaiting ==
  /\ waiting /\ queue = <<>>
  /\ waiting' = FALSE
  /\ UNCHANGED <<store, globals, queue, todo, restored>>

\* The reply has come, or timeout_sec has passed; the request stays sent.
StopWaiting ==
  /\ waiting
  /\ waiting' = FALSE
  /\ UNCHANGED <<store, globals, queue, todo, restored>>

-----------------------------------------------------------------------------
\* What the callback leaves in the globals.
Copied == [m \in Names |-> IF m \in Reread THEN store[m] ELSE globals[m]]

MutAcceptSet ==
  /\ queue # <<>> /\ Head(queue).value # WrongType
  /\ LET n == Head(queue).name IN
     /\ globals' = IF n \in Reread THEN [globals EXCEPT ![n] = store[n]] ELSE globals
     /\ store' = [store EXCEPT ![n] = Head(queue).value]
  /\ queue' = Tail(queue)
  /\ UNCHANGED <<waiting, todo, restored>>

\* The callback runs, then rclcpp stores the value.
AcceptSet ==
  /\ queue # <<>> /\ Head(queue).value # WrongType
  /\ globals' = Copied
  /\ store' = [store EXCEPT ![Head(queue).name] = Head(queue).value]
  /\ queue' = Tail(queue)
  /\ UNCHANGED <<waiting, todo, restored>>

MutRejectSet ==
  /\ queue # <<>> /\ Head(queue).value = WrongType
  /\ store' = [store EXCEPT ![Head(queue).name] = Head(queue).value]
  /\ queue' = Tail(queue)
  /\ UNCHANGED <<globals, waiting, todo, restored>>

\* A value of another type than the declared one never reaches the callback.
RejectSet ==
  /\ queue # <<>> /\ Head(queue).value = WrongType
  /\ queue' = Tail(queue)
  /\ UNCHANGED <<store, globals, waiting, todo, restored>>

Window   == ResetNext \/ StopWaiting
Next     == SetParameter \/ ResetDefaults \/ Window \/ AcceptSet \/ RejectSet

Spec     == Init /\ [][Next]_vars
\* The window's event loop runs; nothing is assumed of the detector.
FairSpec == Spec /\ WF_vars(Window)

-----------------------------------------------------------------------------
TypeOK ==
  /\ store \in [Names -> Values]
  /\ globals \in [Names -> Values]
  /\ queue \in Seq(Request)
  /\ todo \in Seq(Names)
  /\ Len(queue) + Len(todo) =< MaxQueue
  /\ waiting \in BOOLEAN
  /\ restored \in BOOLEAN

(***************************************************************************)
(* Point clouds are never processed with a mixture of old values: the      *)
(* parameters that the callback copies differ from the node's in at most   *)
(* one, the one that was set last.                                         *)
(***************************************************************************)
AtMostOneBehind ==
  Cardinality({ n \in Reread : globals[n] # store[n] }) =< 1

(***************************************************************************)
(* Once everything reset_defaults sent is handled, the node has the yaml   *)
(* file's values, whatever requests timed out before or on the way.        *)
(***************************************************************************)
ResetRestores ==
  restored /\ todo = <<>> /\ queue = <<>> => store = Default

(***************************************************************************)
(* reset_defaults always gets to its end, even when the detector never     *)
(* answers.                                                                *)
(***************************************************************************)
ResetEnds == todo # <<>> ~> todo = <<>>

(***************************************************************************)
(* lidarDetection/README.md:91, "It allows real-time tuning of parameters  *)
(* related to point cloud preprocessing and clustering": when no request   *)
(* is on its way, point clouds are processed with the node's parameters.   *)
(***************************************************************************)
TunedInRealTime == queue = <<>> => globals = store
=============================================================================
