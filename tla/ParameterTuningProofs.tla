----------------------- MODULE ParameterTuningProofs -----------------------
(***************************************************************************)
(* Tuning for every set of parameters and every bound on the queue.  Both  *)
(* safety properties are about what the last request of a parameter leaves *)
(* behind: AtMostOneBehind needs only the callback's order, ResetRestores  *)
(* needs to know, while reset_defaults is under way, where the default of  *)
(* each parameter is: still to be sent, last in the queue, or stored.      *)
(***************************************************************************)
EXTENDS ParameterTuning, SequenceTheorems, FiniteSetTheorems, TLAPS

\* No request for n is on its way.
Absent(n) == \A k \in 1..Len(queue) : queue[k].name # n

\* The last request for n on its way carries its default.
Pending(n) ==
  \E k \in 1..Len(queue) :
    /\ queue[k].name = n /\ queue[k].value = Default[n]
    /\ \A j \in k + 1 .. Len(queue) : queue[j].name # n

\* n will have its default when todo has been sent and handled.
Restoring(n) ==
  \/ \E k \in 1..Len(todo) : todo[k] = n
  \/ Pending(n)
  \/ (Absent(n) /\ store[n] = Default[n])

IInv ==
  /\ TypeOK
  /\ restored => \A n \in Names : Restoring(n)

-----------------------------------------------------------------------------
LEMMA InitIInv == Init => IInv
<1> SUFFICES ASSUME Init PROVE IInv
  OBVIOUS
<1>1. Len(queue) + Len(todo) =< MaxQueue /\ queue \in Seq(Request) /\ todo \in Seq(Names)
  BY TuningAssumption DEF Init
<1>2. store \in [Names -> Values] /\ globals \in [Names -> Values]
  BY TuningAssumption DEF Init
<1> QED
  BY <1>1, <1>2 DEF Init, IInv, TypeOK

\* A request put at the end of the queue.
LEMMA SendFacts ==
  ASSUME NEW n \in Names, NEW v \in Values \cup {WrongType},
         queue \in Seq(Request), Send(n, v)
  PROVE  /\ queue' \in Seq(Request)
         /\ Len(queue) \in Nat
         /\ Len(queue') = Len(queue) + 1
         /\ \A k \in 1..Len(queue) : queue'[k] = queue[k]
         /\ queue'[Len(queue')].name = n /\ queue'[Len(queue')].value = v
<1>1. [name |-> n, value |-> v] \in Request
  BY DEF Request
<1> QED
  BY <1>1 DEF Send

\* The request at the head of the queue taken off.
LEMMA TakeFacts ==
  ASSUME queue \in Seq(Request), queue # <<>>, queue' = Tail(queue)
  PROVE  /\ queue' \in Seq(Request)
         /\ Head(queue) \in Request /\ Head(queue) = queue[1]
         /\ Len(queue) \in Nat \ {0}
         /\ Len(queue') = Len(queue) - 1
         /\ \A k \in 1..Len(queue') : queue'[k] = queue[k + 1]
  BY HeadTailProperties, EmptySeq, LenProperties

\* Sending the default of n makes n Pending, and leaves the others as they were.
LEMMA SendDefault ==
  ASSUME queue \in Seq(Request), NEW n \in Names, Send(n, Default[n]),
         store' = store, NEW m \in Names,
         m = n \/ Pending(m) \/ (Absent(m) /\ store[m] = Default[m])
  PROVE  Pending(m)' \/ (Absent(m) /\ store[m] = Default[m])'
<1> USE SendFacts, TuningAssumption
<1>0. Default[n] \in Values \cup {WrongType}
  OBVIOUS
<1>1. CASE m = n
  <2>1. Len(queue') \in 1..Len(queue') /\ \A j \in Len(queue') + 1 .. Len(queue') : FALSE
    BY <1>0
  <2> QED
    BY <1>0, <1>1, <2>1 DEF Pending
<1>2. CASE m # n /\ Pending(m)
  <2>1. PICK k \in 1..Len(queue) :
           /\ queue[k].name = m /\ queue[k].value = Default[m]
           /\ \A j \in k + 1 .. Len(queue) : queue[j].name # m
    BY <1>2 DEF Pending
  <2>2. k \in 1..Len(queue') /\ queue'[k] = queue[k]
    BY <1>0
  <2>3. ASSUME NEW j \in k + 1 .. Len(queue') PROVE queue'[j].name # m
    <3>1. j \in k + 1 .. Len(queue) \/ j = Len(queue')
      BY <1>0
    <3> QED
      BY <1>0, <1>2, <2>1, <3>1
  <2> QED
    BY <2>1, <2>2, <2>3 DEF Pending
<1>3. CASE m # n /\ Absent(m) /\ store[m] = Default[m]
  <2>1. ASSUME NEW j \in 1 .. Len(queue') PROVE queue'[j].name # m
    <3>1. j \in 1 .. Len(queue) \/ j = Len(queue')
      BY <1>0
    <3> QED
      BY <1>0, <1>3, <3>1 DEF Absent
  <2> QED
    BY <1>3, <2>1 DEF Absent
<1> QED
  BY <1>1, <1>2, <1>3

\* Handling a request leaves every parameter with its default or on the way
\* to it, if the request is stored, or refused because its value is ill-typed.
LEMMA TakeRestoring ==
  ASSUME IInv, restored, queue # <<>>, queue' = Tail(queue),
         todo' = todo, NEW m \in Names,
         \/ store' = [store EXCEPT ![Head(queue).name] = Head(queue).value]
         \/ (store' = store /\ Head(queue).value = WrongType)
  PROVE  Restoring(m)'
<1> USE TakeFacts, TuningAssumption DEF IInv, TypeOK
<1>0. CASE \E k \in 1..Len(todo) : todo[k] = m
  BY <1>0 DEF Restoring
<1>1. CASE Pending(m)
  <2>1. PICK k \in 1..Len(queue) :
           /\ queue[k].name = m /\ queue[k].value = Default[m]
           /\ \A j \in k + 1 .. Len(queue) : queue[j].name # m
    BY <1>1 DEF Pending
  <2>2. CASE k = 1
    <3>1. ASSUME NEW j \in 1..Len(queue') PROVE queue'[j].name # m
      BY <2>1, <2>2
    <3>2. Head(queue).name = m /\ Head(queue).value = Default[m] /\ Default[m] \in Values
      BY <2>1, <2>2
    <3>3. store'[m] = Default[m]
      BY <3>2
    <3> QED
      BY <3>1, <3>3 DEF Restoring, Absent
  <2>3. CASE k # 1
    <3>1. k - 1 \in 1..Len(queue') /\ queue'[k - 1] = queue[k]
      BY <2>3
    <3>2. ASSUME NEW j \in k - 1 + 1 .. Len(queue') PROVE queue'[j].name # m
      BY <2>1, <2>3
    <3> DEFINE l == k - 1
    <3>3. /\ l \in 1..Len(queue') /\ queue'[l].name = m /\ queue'[l].value = Default[m]
          /\ \A j \in l + 1 .. Len(queue') : queue'[j].name # m
      BY <2>1, <3>1, <3>2
    <3> HIDE DEF l
    <3>4. Pending(m)'
      BY <3>3 DEF Pending
    <3> QED
      BY <3>4 DEF Restoring
  <2> QED
    BY <2>2, <2>3
<1>2. CASE Absent(m) /\ store[m] = Default[m]
  <2>1. ASSUME NEW j \in 1..Len(queue') PROVE queue'[j].name # m
    BY <1>2 DEF Absent
  <2>2. Head(queue).name # m
    BY <1>2 DEF Absent
  <2>3. store'[m] = store[m]
    BY <2>2
  <2> QED
    BY <1>2, <2>1, <2>3 DEF Restoring, Absent
<1> QED
  BY <1>0, <1>1, <1>2 DEF Restoring

-----------------------------------------------------------------------------
LEMMA StepTypeOK == TypeOK /\ [Next]_vars => TypeOK'
<1> SUFFICES ASSUME TypeOK, [Next]_vars PROVE TypeOK'
  OBVIOUS
<1>0. /\ MaxQueue \in Nat /\ Default \in [Names -> Values] /\ Reread \subseteq Names
      /\ store \in [Names -> Values] /\ globals \in [Names -> Values]
      /\ queue \in Seq(Request) /\ todo \in Seq(Names)
      /\ Len(queue) + Len(todo) =< MaxQueue
  BY TuningAssumption DEF TypeOK
<1>1. CASE SetParameter
  <2>1. PICK n \in Names, v \in Values \cup {WrongType} : Send(n, v)
    BY <1>1 DEF SetParameter
  <2>2. todo' = <<>> /\ Len(queue) < MaxQueue
    BY <1>1 DEF SetParameter
  <2>3. /\ queue' \in Seq(Request) /\ Len(queue) \in Nat
        /\ Len(queue') = Len(queue) + 1
    BY <1>0, <2>1, SendFacts
  <2>4. Len(queue') + Len(todo') =< MaxQueue /\ todo' \in Seq(Names)
    BY <1>0, <2>2, <2>3
  <2> QED
    BY <1>1, <2>1, <2>3, <2>4 DEF SetParameter, Send, TypeOK
<1>2. CASE ResetDefaults
  <2>1. todo' \in Seq(Names) /\ Len(queue) + Len(todo') =< MaxQueue
    BY <1>2, TuningAssumption DEF ResetDefaults
  <2>2. queue' = queue
    BY <1>2 DEF ResetDefaults
  <2>3. Len(queue') + Len(todo') =< MaxQueue
    BY <2>1, <2>2
  <2> QED
    BY <1>2, <2>1, <2>3 DEF ResetDefaults, TypeOK
<1>3. CASE ResetNext
  <2>1. /\ Head(todo) \in Names /\ todo' \in Seq(Names)
        /\ Len(todo) \in Nat /\ Len(todo') = Len(todo) - 1
    BY <1>0, <1>3, HeadTailProperties, LenProperties DEF ResetNext
  <2>2. Default[Head(todo)] \in Values \cup {WrongType}
    BY <1>0, <2>1
  <2>3. Send(Head(todo), Default[Head(todo)])
    BY <1>3 DEF ResetNext
  <2>4. /\ queue' \in Seq(Request) /\ Len(queue) \in Nat
        /\ Len(queue') = Len(queue) + 1
    BY <1>0, <2>1, <2>2, <2>3, SendFacts
  <2>5. Len(queue') + Len(todo') =< MaxQueue
    BY <1>0, <2>1, <2>4
  <2> QED
    BY <1>3, <2>1, <2>3, <2>4, <2>5 DEF ResetNext, Send, TypeOK
<1>4. CASE StopWaiting
  BY <1>4 DEF StopWaiting, TypeOK
<1>5. CASE AcceptSet
  <2>1. Head(queue) \in Request /\ Head(queue).value # WrongType
    BY <1>0, <1>5, TakeFacts DEF AcceptSet
  <2>2. store' \in [Names -> Values]
    BY <1>0, <1>5, <2>1 DEF AcceptSet, Request
  <2>3. globals' \in [Names -> Values]
    BY <1>0, <1>5 DEF AcceptSet, Copied
  <2>4. queue' \in Seq(Request) /\ Len(queue') + Len(todo') =< MaxQueue
    BY <1>0, <1>5, TakeFacts, LenProperties DEF AcceptSet
  <2> QED
    BY <1>5, <2>2, <2>3, <2>4 DEF AcceptSet, TypeOK
<1>6. CASE RejectSet
  <2>1. queue' \in Seq(Request) /\ Len(queue') + Len(todo') =< MaxQueue
    BY <1>0, <1>6, TakeFacts, LenProperties DEF RejectSet
  <2> QED
    BY <1>6, <2>1 DEF RejectSet, TypeOK
<1>7. CASE UNCHANGED vars
  BY <1>7 DEF vars, TypeOK
<1> QED
  BY <1>1, <1>2, <1>3, <1>4, <1>5, <1>6, <1>7 DEF Next, Window

LEMMA StepIInv == IInv /\ [Next]_vars => IInv'
<1> SUFFICES ASSUME IInv, [Next]_vars PROVE IInv'
  OBVIOUS
<1>0. TypeOK /\ TypeOK'
  BY StepTypeOK DEF IInv
<1> SUFFICES ASSUME restored', NEW m \in Names PROVE Restoring(m)'
  BY <1>0 DEF IInv
<1>1. CASE SetParameter
  BY <1>1 DEF SetParameter
<1>2. CASE ResetDefaults
  <2>1. \E k \in 1..Len(Displayed) : Displayed[k] = m
    BY TuningAssumption, LenProperties DEF Names, ToSet
  <2> QED
    BY <1>2, <2>1 DEF ResetDefaults, Restoring
<1>3. CASE ResetNext
  <2>1. /\ Head(todo) \in Names /\ Head(todo) = todo[1]
        /\ \A k \in 1..Len(todo) : k = 1 \/ (k - 1 \in 1..Len(todo') /\ todo'[k - 1] = todo[k])
    <3>1. todo \in Seq(Names) /\ todo # <<>> /\ todo' = Tail(todo)
      BY <1>0, <1>3 DEF ResetNext, TypeOK
    <3>2. /\ Head(todo) \in Names /\ Head(todo) = todo[1]
          /\ Len(todo) \in Nat /\ Len(todo') = Len(todo) - 1
          /\ \A k \in 1..Len(todo') : todo'[k] = todo[k + 1]
      BY <3>1, HeadTailProperties, LenProperties
    <3>3. ASSUME NEW k \in 1..Len(todo), k # 1
          PROVE  k - 1 \in 1..Len(todo') /\ todo'[k - 1] = todo[k]
      <4>1. k - 1 \in 1..Len(todo') /\ (k - 1) + 1 = k
        BY <3>2, <3>3
      <4> QED
        BY <3>2, <4>1
    <3> QED
      BY <3>2, <3>3
  <2>2. Restoring(m) /\ store' = store /\ Send(Head(todo), Default[Head(todo)])
    BY <1>3 DEF ResetNext, IInv
  <2>3. CASE \E k \in 1..Len(todo') : todo'[k] = m
    BY <2>3 DEF Restoring
  <2>4. CASE ~ \E k \in 1..Len(todo') : todo'[k] = m
    <3>1. m = Head(todo) \/ Pending(m) \/ (Absent(m) /\ store[m] = Default[m])
      <4>1. ASSUME NEW k \in 1..Len(todo), todo[k] = m PROVE m = Head(todo)
        BY <2>1, <2>4, <4>1
      <4> QED
        BY <2>2, <4>1 DEF Restoring
    <3>2. Pending(m)' \/ (Absent(m) /\ store[m] = Default[m])'
      BY <1>0, <2>1, <2>2, <3>1, SendDefault DEF TypeOK
    <3> QED
      BY <3>2 DEF Restoring
  <2> QED
    BY <2>3, <2>4
<1>4. CASE StopWaiting
  BY <1>4 DEF StopWaiting, IInv, Restoring, Pending, Absent
<1>5. CASE AcceptSet
  BY <1>5, TakeRestoring DEF AcceptSet
<1>6. CASE RejectSet
  BY <1>6, TakeRestoring DEF RejectSet
<1>7. CASE UNCHANGED vars
  BY <1>7 DEF vars, IInv, Restoring, Pending, Absent
<1> QED
  BY <1>1, <1>2, <1>3, <1>4, <1>5, <1>6, <1>7 DEF Next, Window

(***************************************************************************)
(* The stores, the queue and what reset_defaults has left to send are      *)
(* well-formed, and the queue has room for all of it.                      *)
(***************************************************************************)
THEOREM TypeCorrect == Spec => []TypeOK
<1>1. IInv => TypeOK
  BY DEF IInv
<1> QED
  BY <1>1, InitIInv, StepIInv, PTL DEF Spec

(***************************************************************************)
(* Once everything reset_defaults sent is handled, the node has the yaml   *)
(* file's values, whatever other requests were on their way.               *)
(***************************************************************************)
THEOREM DefaultsComeBack == Spec => []ResetRestores
<1>1. IInv => ResetRestores
  <2> SUFFICES ASSUME IInv, restored, todo = <<>>, queue = <<>> PROVE store = Default
    BY DEF ResetRestores
  <2>1. Len(queue) = 0 /\ Len(todo) = 0
    OBVIOUS
  <2>2. ASSUME NEW n \in Names PROVE store[n] = Default[n]
    <3>1. ~Pending(n) /\ ~ \E k \in 1..Len(todo) : todo[k] = n
      BY <2>1 DEF Pending
    <3> QED
      BY <3>1 DEF IInv, Restoring
  <2> QED
    BY <2>2, TuningAssumption DEF IInv, TypeOK
<1> QED
  BY <1>1, InitIInv, StepIInv, PTL DEF Spec

(***************************************************************************)
(* Of the parameters the callback copies, at most one has another value in *)
(* the globals than in the node.                                           *)
(***************************************************************************)
THEOREM GlobalsOneBehind == Spec => []AtMostOneBehind
<1> DEFINE Behind == { n \in Reread : globals[n] # store[n] }
<1>1. Init => AtMostOneBehind
  <2> SUFFICES ASSUME Init PROVE Cardinality(Behind) =< 1
    BY DEF AtMostOneBehind
  <2>1. Behind = {}
    BY DEF Init
  <2> QED
    BY <2>1, FS_EmptySet
<1>2. TypeOK /\ AtMostOneBehind /\ [Next]_vars => AtMostOneBehind'
  <2> SUFFICES ASSUME TypeOK, AtMostOneBehind, [Next]_vars PROVE AtMostOneBehind'
    OBVIOUS
  <2>1. CASE AcceptSet
    <3> DEFINE last == Head(queue).name
    <3>1. ASSUME NEW n \in Reread, n # last PROVE globals'[n] = store'[n]
      BY <2>1, <3>1, TuningAssumption DEF AcceptSet, Copied, TypeOK
    <3>2. Behind' \in SUBSET {last}
      BY <3>1
    <3>3. IsFiniteSet({last}) /\ Cardinality({last}) = 1
      BY FS_Singleton
    <3>4. Cardinality(Behind') =< 1
      <4> HIDE DEF Behind, last
      <4> QED
        BY <3>2, <3>3, FS_Subset
    <3> QED
      BY <3>4 DEF AtMostOneBehind
  <2>2. CASE UNCHANGED <<globals, store>>
    BY <2>2 DEF AtMostOneBehind
  <2>3. AcceptSet \/ UNCHANGED <<globals, store>>
    BY DEF Next, Window, SetParameter, ResetDefaults, ResetNext, StopWaiting, RejectSet, vars
  <2> QED
    BY <2>1, <2>2, <2>3
<1> QED
  BY <1>1, <1>2, TypeCorrect, PTL DEF Spec
=============================================================================
