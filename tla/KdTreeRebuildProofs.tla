-------------------------- MODULE KdTreeRebuildProofs --------------------------
(***************************************************************************)
(* The rebuild thread of the ikd-Tree for any number of searching threads, *)
(* points and logged operations: it is alone in the subtree when it reads  *)
(* or replaces it, deletes no node in which somebody still is, and loses   *)
(* none of the operations that were done meanwhile.                        *)
(***************************************************************************)
EXTENDS KdTreeRebuild, FiniteSetTheorems, SequenceTheorems, TLAPS

Counted == {r \in Readers : rpc[r] = "counted"}

\* search_mutex_counter is the number of searches that counted themselves in,
\* or -1 while the rebuild thread keeps them out (and for good if it crashes).
Excluding == tpc \in {"flatten", "swap", "unlock"}
Counting ==
  /\ Excluding => counter = -1 /\ Counted = {}
  /\ ~Excluding /\ Alive => counter = Cardinality(Counted)

\* The mapping thread runs an operation or the parallel region, not both.
OneAtATime == mpc # "idle" => Quiet

\* A rebuild of a son is known to everybody from its request to the swap (one of
\* the whole map may be withdrawn), and a search that went in uncounted is gone
\* before the request.
Running == tpc \in {"quiesce", "flatten", "drain", "replay", "quiesce2", "swap", "unlock"}
Announced ==
  /\ Running /\ ~whole => ptr
  /\ ptr => \A r \in Readers : rpc[r] # "free"

\* Operations to come have their place in the log.
RoomInLog ==
  /\ Len(log) + Len(todo) =< MaxLog
  /\ mpc \in {"check", "free", "locked"} <=> todo # <<>>

\* Who is still in the old tree got his pointer before he was counted, or holds
\* no lock; a box search that does keeps the rebuild thread waiting.
LeftBehind ==
  tpc \in {"unlock", "clear", "free"} =>
    /\ \A r \in replaced \cap Readers : ~whole /\ rpc[r] \in {"look", "free"}
    /\ "main" \in replaced => /\ mpc \in {"check", "free", "update", "inside"}
                              /\ search => tpc = "unlock"

IInv == TypeOK /\ Counting /\ OneAtATime /\ Announced /\ RoomInLog /\ LeftBehind

-----------------------------------------------------------------------------
(* Lemmas *)

LEMMA OperationType ==
  /\ DeleteX \in Operation /\ NoOp \in Operation
  /\ \A o \in Operation, s \in SUBSET Points : Applied(s, o) \in SUBSET Points
  /\ \A o \in Operation : o.pts \in SUBSET Points
BY RebuildAssumption DEF DeleteX, NoOp, Operation, Applied

LEMMA EffectType ==
  ASSUME NEW s \in SUBSET Points, NEW ops \in Seq(Operation), Len(ops) \in {1, 2}
  PROVE  Effect(s, ops) \in SUBSET Points
<1>1. ops[1] \in Operation /\ (Len(ops) = 2 => ops[2] \in Operation)
  OBVIOUS
<1>2. Applied(s, ops[1]) \in SUBSET Points
  BY <1>1, OperationType
<1> QED
  BY <1>1, <1>2, OperationType DEF Effect

LEMMA ShortSeq ==
  /\ <<>> \in Seq(Operation) /\ Len(<<>>) = 0
  /\ \A o \in Operation : <<o>> \in Seq(Operation) /\ Len(<<o>>) = 1
  /\ \A d, o \in Operation : <<d, o>> \in Seq(Operation) /\ Len(<<d, o>>) = 2
OBVIOUS

LEMMA CountedFinite ==
  /\ IsFiniteSet(Counted) /\ Cardinality(Counted) \in 0 .. Cardinality(Readers)
  /\ Cardinality(Readers) \in Nat
<1>1. Counted \subseteq Readers
  BY DEF Counted
<1> QED
  BY <1>1, RebuildAssumption, FS_Subset, FS_CardinalityType

LEMMA Init_IInv == Init => IInv
<1> SUFFICES ASSUME Init PROVE IInv
  OBVIOUS
<1>1. Counted = {} /\ Cardinality(Counted) = 0
  BY FS_EmptySet DEF Init, Counted
<1>2. TypeOK
  <2>1. counter \in -1 .. Cardinality(Readers)
    BY CountedFinite DEF Init
  <2>2. /\ log = <<>> /\ todo = <<>> /\ op \in Operation
        /\ log \in Seq(Operation) /\ Len(log) =< MaxLog /\ Len(todo) =< 2
    BY OperationType, RebuildAssumption DEF Init
  <2>3. rpc \in [Readers -> {"idle", "look", "wait", "counted", "free"}]
    BY DEF Init
  <2> QED
    BY <2>1, <2>2, <2>3 DEF Init, TypeOK
<1> QED
  BY <1>1, <1>2, RebuildAssumption
  DEF Init, IInv, Counting, Excluding, Alive, OneAtATime, Quiet, Announced, Running, RoomInLog, LeftBehind

-----------------------------------------------------------------------------
(* The mapping thread *)

\* A call has at most two operations on X.
LEMMA CallType ==
  ASSUME StartOperation
  PROVE  todo' \in Seq(Operation) /\ Len(todo') =< 2
<1>1. CASE whole
  <2>1. todo' \in Calls
    BY <1>1 DEF StartOperation
  <2>2. ASSUME NEW o \in Operation, todo' = <<o>> PROVE todo' \in Seq(Operation) /\ Len(todo') =< 2
    BY <2>2, ShortSeq
  <2>3. ASSUME NEW d \in Operation, NEW a \in Operation, todo' = <<d, a>>
        PROVE  todo' \in Seq(Operation) /\ Len(todo') =< 2
    BY <2>3, ShortSeq
  <2> QED
    BY <2>1, <2>2, <2>3 DEF Calls
<1>2. CASE ~whole
  <2>1. todo' \in Visits
    BY <1>2 DEF StartOperation
  <2>2. CASE todo' \in {<<>>, <<DeleteX>>}
    <3>1. CASE todo' = <<>>
      BY <3>1, ShortSeq
    <3>2. CASE todo' = <<DeleteX>>
      BY <3>2, OperationType, ShortSeq
    <3> QED
      BY <2>2, <3>1, <3>2
  <2>3. ASSUME NEW o \in Operation, todo' \in {<<o>>, <<DeleteX, o>>}
        PROVE  todo' \in Seq(Operation) /\ Len(todo') =< 2
    <3>1. todo' = <<o>> \/ todo' = <<DeleteX, o>>
      BY <2>3
    <3>2. CASE todo' = <<o>>
      BY <3>2, ShortSeq
    <3>3. CASE todo' = <<DeleteX, o>>
      BY <3>3, OperationType, ShortSeq
    <3> QED
      BY <3>1, <3>2, <3>3
  <2> QED
    BY <2>1, <2>2, <2>3 DEF Visits
<1> QED
  BY <1>1, <1>2

\* The next call finds nothing left to do, and leaves room in the log.
LEMMA CallStep ==
  ASSUME IInv, StartOperation \/ DeleteAbove \/ MissF \/ PushG \/ StartRangeSearch \/ Stop
  PROVE  IInv'
<1>1. /\ mpc = "idle" /\ Quiet /\ todo = <<>>
      /\ UNCHANGED <<whole, X, astray, lvars, working, search, counter, tvars, rpc, replaced>>
  BY DEF IInv, RoomInLog, StartOperation, DeleteAbove, MissF, PushG, StartRangeSearch,
         Stop, xvars, mvars
<1>2. Quiet' /\ Counted' = Counted
  BY <1>1 DEF Quiet, Counted
<1>3. /\ todo' \in Seq(Operation) /\ Len(todo') =< 2 /\ Len(log) + Len(todo') =< MaxLog
      /\ mpc' \in {"idle", "check", "update", "range", "join"}
      /\ (mpc' = "check" <=> todo' # <<>>)
      /\ owed' \in {"none", "F", "G"} /\ fw' \in BOOLEAN /\ ranging' \in BOOLEAN
      /\ expected' \subseteq Points
  <2>0. TypeOK /\ Len(log) \in Nat /\ MaxLog \in Nat /\ Len(log) =< MaxLog
    BY RebuildAssumption DEF IInv, TypeOK
  <2>1. CASE StartOperation
    <3>1. todo' \in Seq(Operation) /\ Len(todo') =< 2
      BY <2>1, CallType
    <3> QED
      BY <2>0, <2>1, <3>1 DEF StartOperation, TypeOK
  <2>2. CASE StartRangeSearch
    <3>1. \/ mpc' = "range" /\ todo' = <<>>
          \/ mpc' = "check" /\ todo' = <<DeleteX>>
      BY <2>2 DEF StartRangeSearch
    <3>2. CASE todo' = <<>>
      BY <2>0, <2>2, <3>1, <3>2 DEF StartRangeSearch, TypeOK, xvars
    <3>3. CASE todo' = <<DeleteX>>
      <4>1. todo' \in Seq(Operation) /\ Len(todo') = 1 /\ todo' # <<>> /\ mpc' = "check"
        BY <3>1, <3>3, OperationType
      <4>2. Len(log) < MaxLog /\ ranging' = TRUE /\ UNCHANGED <<owed, fw, expected>>
        BY <2>2 DEF StartRangeSearch, xvars
      <4> QED
        BY <2>0, <4>1, <4>2 DEF TypeOK
    <3> QED
      BY <3>1, <3>2, <3>3
  <2>3. CASE DeleteAbove \/ MissF \/ PushG \/ Stop
    <3>1. todo' = <<>> /\ ranging' = ranging /\ mpc' \in {"idle", "join"}
      BY <1>1, <2>3 DEF DeleteAbove, MissF, PushG, Stop, mvars
    <3>2. /\ owed' \in {"none", "F", "G"} /\ fw' \in BOOLEAN /\ expected' \subseteq Points
      BY <2>0, <2>3 DEF DeleteAbove, MissF, PushG, Stop, xvars, TypeOK
    <3> QED
      BY <2>0, <3>1, <3>2 DEF TypeOK
  <2> QED
    BY <2>1, <2>2, <2>3
<1>4. TypeOK'
  BY <1>1, <1>3 DEF IInv, TypeOK, lvars, tvars
<1>5. Counting' /\ OneAtATime' /\ Announced' /\ LeftBehind'
  BY <1>1, <1>2, <1>3
  DEF IInv, Counting, Excluding, Alive, OneAtATime, Announced, Running, LeftBehind, lvars, tvars
<1>6. RoomInLog'
  BY <1>1, <1>3 DEF IInv, RoomInLog, lvars, tvars
<1> QED
  BY <1>4, <1>5, <1>6 DEF IInv

\* The first of the operations to come is done, or all of them are.
LEMMA DoneFacts ==
  ASSUME IInv, mpc \in {"free", "locked"},
         NEW ops, ops = <<Head(todo)>> \/ (ops = todo /\ mpc = "locked"), Done(ops)
  PROVE  /\ ops \in Seq(Operation) /\ Len(ops) \in {1, 2} /\ Head(todo) \in Operation
         /\ expected' \subseteq Points /\ owed' = "none"
         /\ todo' \in Seq(Operation) /\ Len(todo') + Len(ops) = Len(todo)
         /\ ops = <<Head(todo)>> => todo' = Tail(todo)
         /\ mpc' \in {"check", "free", "range", "idle", "update"}
         /\ (mpc' \in {"check", "free"} <=> todo' # <<>>)
         /\ UNCHANGED <<whole, fw, ranging>>
<1>1. /\ todo \in Seq(Operation) /\ todo # <<>> /\ Len(todo) \in {1, 2}
      /\ expected \in SUBSET Points
  <2>1. /\ todo \in Seq(Operation) /\ todo # <<>> /\ Len(todo) =< 2
        /\ expected \in SUBSET Points
    BY DEF IInv, TypeOK, RoomInLog
  <2>2. Len(todo) \in Nat \ {0}
    BY <2>1, EmptySeq
  <2>3. \A n \in Nat \ {0} : n =< 2 => n \in {1, 2}
    OBVIOUS
  <2>4. Len(todo) \in {1, 2}
    BY <2>1, <2>2, <2>3, Zenon
  <2> QED
    BY <2>1, <2>4
<1>2. Head(todo) \in Operation /\ ops \in Seq(Operation) /\ Len(ops) \in {1, 2}
  BY <1>1
<1> DEFINE rest == SubSeq(todo, Len(ops) + 1, Len(todo))
<1>3. /\ rest \in Seq(Operation) /\ Len(rest) + Len(ops) = Len(todo)
      /\ ops = <<Head(todo)>> => rest = Tail(todo)
  <2>1. CASE ops = <<Head(todo)>>
    <3>1. rest = SubSeq(todo, 2, Len(todo)) /\ Len(ops) = 1
      BY <2>1
    <3>2. rest = Tail(todo)
      BY <1>1, <3>1, TailIsSubSeq
    <3> QED
      BY <1>1, <3>1, <3>2
  <2>2. CASE ops = todo
    <3>1. rest = <<>>
      BY <1>1, <2>2, SubSeqEmpty
    <3> QED
      BY <1>1, <2>2, <3>1
  <2> QED
    BY <2>1, <2>2
<1>4. Effect(expected, ops) \in SUBSET Points
  BY <1>1, <1>2, EffectType
<1>5. todo' = rest /\ expected' = Effect(expected, ops)
  BY DEF Done
<1>6. /\ mpc' \in {"check", "free", "range", "idle", "update"}
      /\ mpc' \in {"check", "free"} <=> rest # <<>>
  BY DEF Done
<1> HIDE DEF rest
<1> QED
  BY <1>2, <1>3, <1>4, <1>5, <1>6 DEF Done

LEMMA ApplyFreeStep == ASSUME IInv, ApplyFree PROVE IInv'
<1>1. /\ mpc = "free" /\ UNCHANGED <<flag, log, working, search, counter, tvars, rpc>>
      /\ Quiet /\ Done(<<Head(todo)>>)
  BY DEF ApplyFree, IInv, OneAtATime
<1>2. Quiet' /\ Counted' = Counted
  BY <1>1 DEF Quiet, Counted
<1>3. /\ expected' \subseteq Points /\ owed' = "none" /\ Head(todo) \in Operation
      /\ todo' \in Seq(Operation) /\ Len(todo') + 1 = Len(todo)
      /\ mpc' \in {"check", "free", "range", "idle", "update"}
      /\ (mpc' \in {"check", "free"} <=> todo' # <<>>)
      /\ UNCHANGED <<whole, fw, ranging>>
  <2>1. Len(<<Head(todo)>>) = 1
    OBVIOUS
  <2> QED
    BY <1>1, <2>1, DoneFacts
<1>4. /\ ptr' = ptr \/ ptr' = TRUE \/ whole
      /\ ptr' \in BOOLEAN
  BY DEF ApplyFree, IInv, TypeOK
<1>5. /\ Len(log) \in Nat /\ Len(todo) \in Nat /\ Len(todo') \in Nat /\ MaxLog \in Nat
      /\ Len(log) + Len(todo) =< MaxLog /\ Len(todo) =< 2
  BY <1>3, RebuildAssumption DEF IInv, TypeOK, RoomInLog
<1>6. X' \subseteq Points /\ astray' \subseteq Points
  <2>1. X \in SUBSET Points /\ astray \in SUBSET Points
    BY DEF IInv, TypeOK
  <2>2. Applied(X, Head(todo)) \in SUBSET Points /\ Head(todo).pts \in SUBSET Points
    BY <1>3, <2>1, OperationType
  <2>3. X' \in {Applied(X, Head(todo)), X, {}} \/ X' \in SUBSET Points
    BY DEF ApplyFree
  <2>4. astray' \in {Points, astray, astray \cup Head(todo).pts}
    BY DEF ApplyFree
  <2> QED
    BY <2>1, <2>2, <2>3, <2>4
<1>7. replaced' = IF mpc' = "update" THEN replaced ELSE replaced \ {"main"}
  BY DEF ApplyFree
<1>8. TypeOK'
  <2>1. Len(todo') =< 2
    BY <1>3, <1>5
  <2> QED
    BY <1>1, <1>3, <1>4, <1>6, <1>7, <2>1 DEF IInv, TypeOK, tvars
<1>9. Counting' /\ OneAtATime'
  BY <1>1, <1>2 DEF IInv, Counting, Excluding, Alive, OneAtATime, tvars
<1>10. Announced'
  <2>1. \A r \in Readers : rpc'[r] # "free"
    BY <1>2 DEF Quiet
  <2>2. Running' /\ ~whole' => ptr'
    BY <1>1, <1>3, <1>4 DEF IInv, Announced, Running, tvars
  <2> QED
    BY <2>1, <2>2 DEF Announced
<1>11. RoomInLog'
  BY <1>1, <1>3, <1>5 DEF RoomInLog
<1>12. LeftBehind'
  BY <1>1, <1>3, <1>7 DEF IInv, LeftBehind, tvars
<1> QED
  BY <1>8, <1>9, <1>10, <1>11, <1>12 DEF IInv

\* What is done under the mutex: the first operation, or on the whole map all.
Batch == IF whole THEN todo ELSE <<Head(todo)>>

LEMMA ApplyLockedFacts ==
  ASSUME IInv, ApplyLocked
  PROVE  /\ mpc = "locked" /\ ~working /\ Quiet /\ Done(Batch)
         /\ X' = Effect(X, Batch) /\ log' = (IF flag THEN log \o Batch ELSE log)
         /\ astray' = (IF flag /\ ~ptr THEN astray \cup Concerned(Batch) ELSE astray)
         /\ UNCHANGED <<ptr, flag, working, search, counter, tvars, rpc, replaced>>
         /\ Batch = <<Head(todo)>> \/ Batch = todo
         /\ Batch \in Seq(Operation) /\ Len(Batch) \in {1, 2}
<1>1. /\ mpc = "locked" /\ ~working /\ Quiet /\ Done(Batch)
      /\ X' = Effect(X, Batch) /\ log' = (IF flag THEN log \o Batch ELSE log)
      /\ astray' = (IF flag /\ ~ptr THEN astray \cup Concerned(Batch) ELSE astray)
      /\ UNCHANGED <<ptr, flag, working, search, counter, tvars, rpc, replaced>>
      /\ Batch = <<Head(todo)>> \/ Batch = todo
  BY DEF ApplyLocked, Batch, IInv, OneAtATime
<1> QED
  BY <1>1, DoneFacts

LEMMA ApplyLockedStep == ASSUME IInv, ApplyLocked PROVE IInv'
<1>1. /\ mpc = "locked" /\ Quiet
      /\ UNCHANGED <<ptr, flag, working, search, counter, tvars, rpc, replaced>>
  BY ApplyLockedFacts
<1>2. Quiet' /\ Counted' = Counted
  BY <1>1 DEF Quiet, Counted
<1>3. /\ expected' \subseteq Points /\ owed' = "none"
      /\ todo' \in Seq(Operation) /\ Len(todo') + Len(Batch) = Len(todo)
      /\ mpc' \in {"check", "free", "range", "idle", "update"}
      /\ (mpc' \in {"check", "free"} <=> todo' # <<>>)
      /\ UNCHANGED <<whole, fw, ranging>>
  BY ApplyLockedFacts, DoneFacts
<1>4. /\ Len(log) \in Nat /\ Len(todo) \in Nat /\ Len(todo') \in Nat /\ MaxLog \in Nat
      /\ Len(log) + Len(todo) =< MaxLog /\ Len(todo) =< 2 /\ log \in Seq(Operation)
      /\ Batch \in Seq(Operation) /\ Len(Batch) \in {1, 2}
  BY <1>3, RebuildAssumption, ApplyLockedFacts DEF IInv, TypeOK, RoomInLog
<1>5. log' \in Seq(Operation) /\ Len(log') =< Len(log) + Len(Batch) /\ Len(log') \in Nat
  <2>1. log \o Batch \in Seq(Operation) /\ Len(log \o Batch) = Len(log) + Len(Batch)
    BY <1>4, ConcatProperties
  <2>2. log' = log \o Batch \/ log' = log
    BY ApplyLockedFacts
  <2>3. CASE log' = log \o Batch
    BY <1>4, <2>1, <2>3
  <2>4. CASE log' = log
    BY <1>4, <2>4
  <2> QED
    BY <2>2, <2>3, <2>4
<1>6. X' \subseteq Points /\ astray' \subseteq Points
  <2>1. Effect(X, Batch) \in SUBSET Points
    BY <1>4, EffectType DEF IInv, TypeOK
  <2>2. Concerned(Batch) \subseteq Points
    <3>1. \A i \in DOMAIN Batch : Batch[i] \in Operation
      BY <1>4
    <3> QED
      BY <3>1, OperationType DEF Concerned
  <2> QED
    BY <2>1, <2>2, ApplyLockedFacts DEF IInv, TypeOK
<1>7. TypeOK'
  <2>1. Len(todo') =< 2 /\ Len(log') =< MaxLog
    BY <1>3, <1>4, <1>5
  <2> QED
    BY <1>1, <1>3, <1>5, <1>6, <2>1 DEF IInv, TypeOK, tvars
<1>8. Counting' /\ OneAtATime' /\ Announced'
  BY <1>1, <1>2, <1>3 DEF IInv, Counting, Excluding, Alive, OneAtATime, Announced, Running, tvars
<1>9. RoomInLog'
  BY <1>1, <1>3, <1>4, <1>5 DEF RoomInLog
<1>10. LeftBehind'
  BY <1>1, <1>3 DEF IInv, LeftBehind, tvars
<1> QED
  BY <1>7, <1>8, <1>9, <1>10 DEF IInv

\* Looking at Rebuild_Ptr, Update, and the box search, which takes
\* search_flag_mutex.
LEMMA LookStep ==
  ASSUME IInv, Check \/ UpdateF \/ RangeSearchEnter \/ RangeSearchLeave PROVE IInv'
<1>1. /\ UNCHANGED <<whole, X, owed, expected, astray, lvars, working, counter, tvars, rpc, todo>>
      /\ mpc \in {"check", "update", "range", "inside"} /\ Quiet
  BY DEF Check, UpdateF, RangeSearchEnter, RangeSearchLeave, IInv, OneAtATime, xvars
<1>2. Quiet' /\ Counted' = Counted
  BY <1>1 DEF Quiet, Counted
<1>3. /\ search' \in BOOLEAN /\ ranging' \in BOOLEAN /\ fw' \in BOOLEAN /\ replaced' \subseteq replaced
      /\ mpc' \in {"free", "locked", "inside", "idle"}
      /\ mpc' \in {"free", "locked"} <=> mpc = "check"
  BY DEF Check, UpdateF, RangeSearchEnter, RangeSearchLeave, IInv, TypeOK, xvars
<1>4. TypeOK'
  BY <1>1, <1>3 DEF IInv, TypeOK, lvars, tvars
<1>5. Counting' /\ OneAtATime' /\ Announced' /\ RoomInLog'
  BY <1>1, <1>2, <1>3
  DEF IInv, Counting, Excluding, Alive, OneAtATime, Announced, Running, RoomInLog, lvars, tvars
<1>6. LeftBehind'
  <2>1. ASSUME "main" \in replaced'
        PROVE  \/ mpc = "check" /\ mpc' = "free" /\ search' = search
               \/ mpc = "range"
    BY <2>1 DEF Check, UpdateF, RangeSearchEnter, RangeSearchLeave
  <2> QED
    BY <1>1, <1>3, <2>1 DEF IInv, LeftBehind, tvars
<1> QED
  BY <1>4, <1>5, <1>6 DEF IInv

-----------------------------------------------------------------------------
(* The searching threads *)

\* Its steps outside of the counter.
LEMMA ReaderLookStep ==
  ASSUME IInv, NEW r \in Readers, ReaderStart(r) \/ ReaderCheck(r) PROVE IInv'
<1>1. /\ rpc[r] \in {"idle", "look"} /\ (rpc[r] = "idle" => mpc = "idle")
      /\ UNCHANGED <<xvars, lvars, working, search, counter, tvars, mvars>>
  BY DEF ReaderStart, ReaderCheck
<1>2. PICK to \in {"idle", "look", "wait", "free"} :
        /\ rpc' = [rpc EXCEPT ![r] = to] /\ (to = "free" => ~ptr)
        /\ \/ replaced' = replaced \ {r}
           \/ (to = "free" \/ rpc[r] = "idle") /\ replaced' = replaced
        /\ to = "look" => rpc[r] = "idle"
  BY DEF ReaderStart, ReaderCheck
<1>3. rpc \in [Readers -> {"idle", "look", "wait", "counted", "free"}] /\ mpc = "idle"
  BY <1>1 DEF IInv, TypeOK, OneAtATime, Quiet
<1>4. Counted' = Counted
  BY <1>1, <1>2, <1>3 DEF Counted
<1>5. rpc' \in [Readers -> {"idle", "look", "wait", "counted", "free"}]
  BY <1>2, <1>3
<1>6. TypeOK'
  BY <1>1, <1>2, <1>5 DEF IInv, TypeOK, xvars, lvars, tvars, mvars
<1>7. Announced'
  BY <1>1, <1>2, <1>3 DEF IInv, Announced, Running, xvars, lvars, tvars
<1>8. Counting' /\ OneAtATime' /\ RoomInLog'
  BY <1>1, <1>3, <1>4
  DEF IInv, Counting, Excluding, Alive, OneAtATime, RoomInLog, xvars, lvars, tvars, mvars
<1>9. LeftBehind'
  <2> SUFFICES ASSUME tpc \in {"unlock", "clear", "free"} PROVE LeftBehind'
    BY <1>1 DEF LeftBehind, tvars
  <2>1. "main" \notin replaced /\ "main" \notin replaced'
    BY <1>2, <1>3 DEF IInv, LeftBehind
  <2>2. ASSUME NEW x \in replaced' \cap Readers PROVE ~whole /\ rpc'[x] \in {"look", "free"}
    <3>1. x \in replaced /\ ~whole /\ rpc[x] \in {"look", "free"}
      BY <1>2, <2>2 DEF IInv, LeftBehind
    <3>2. CASE x # r
      BY <1>2, <1>3, <3>1, <3>2
    <3>3. CASE x = r
      BY <1>2, <1>3, <2>2, <3>1, <3>3
    <3> QED
      BY <3>2, <3>3
  <2> QED
    BY <1>1, <2>1, <2>2 DEF LeftBehind, xvars
<1> QED
  BY <1>6, <1>7, <1>8, <1>9 DEF IInv

LEMMA ReaderEnterStep ==
  ASSUME IInv, Alive, NEW r \in Readers, ReaderEnter(r) PROVE IInv'
<1>1. /\ rpc[r] = "wait" /\ counter # -1 /\ counter' = counter + 1
      /\ rpc' = [rpc EXCEPT ![r] = "counted"]
      /\ UNCHANGED <<xvars, lvars, working, search, tvars, mvars, replaced>>
  BY DEF ReaderEnter
<1>2. rpc \in [Readers -> {"idle", "look", "wait", "counted", "free"}] /\ mpc = "idle"
  BY <1>1 DEF IInv, TypeOK, OneAtATime, Quiet
<1>3. rpc' \in [Readers -> {"idle", "look", "wait", "counted", "free"}]
  BY <1>1, <1>2
<1>4. ~Excluding /\ counter = Cardinality(Counted) /\ ~Excluding'
  BY <1>1 DEF IInv, Counting, Excluding, tvars
<1>5. Counted' = Counted \cup {r} /\ r \notin Counted
  BY <1>1, <1>2 DEF Counted
<1>6. counter' = Cardinality(Counted')
  BY <1>1, <1>4, <1>5, CountedFinite, FS_AddElement
<1>7. counter' \in -1 .. Cardinality(Readers)
  <2>1. Counted' \subseteq Readers
    BY DEF Counted
  <2> QED
    BY <1>6, <2>1, RebuildAssumption, FS_Subset, FS_CardinalityType
<1>8. TypeOK'
  BY <1>1, <1>3, <1>7 DEF IInv, TypeOK, xvars, lvars, tvars, mvars
<1>9. Announced'
  BY <1>1, <1>2 DEF IInv, Announced, Running, xvars, lvars, tvars
<1>10. Counting'
  BY <1>4, <1>6 DEF Counting
<1>11. OneAtATime' /\ RoomInLog' /\ LeftBehind'
  BY <1>1, <1>2
  DEF IInv, OneAtATime, RoomInLog, LeftBehind, xvars, lvars, tvars, mvars
<1> QED
  BY <1>8, <1>9, <1>10, <1>11 DEF IInv

LEMMA ReaderLeaveStep ==
  ASSUME IInv, Alive, NEW r \in Readers, ReaderLeave(r) PROVE IInv'
<1>1. /\ rpc[r] \in {"counted", "free"} /\ rpc' = [rpc EXCEPT ![r] = "idle"]
      /\ replaced' = replaced \ {r}
      /\ UNCHANGED <<xvars, lvars, working, search, tvars, mvars>>
  BY DEF ReaderLeave
<1>2. rpc \in [Readers -> {"idle", "look", "wait", "counted", "free"}] /\ mpc = "idle"
  BY <1>1 DEF IInv, TypeOK, OneAtATime, Quiet
<1>3. rpc' \in [Readers -> {"idle", "look", "wait", "counted", "free"}]
  BY <1>1, <1>2
<1>4. Counting' /\ counter' \in -1 .. Cardinality(Readers)
  <2>1. CASE rpc[r] = "counted" /\ counter' = counter - 1
    <3>1. r \in Counted /\ Counted' = Counted \ {r}
      BY <1>1, <1>2, <2>1 DEF Counted
    <3>2. ~Excluding /\ counter = Cardinality(Counted) /\ ~Excluding'
      BY <1>1, <3>1 DEF IInv, Counting, Excluding, tvars
    <3>3. Cardinality(Counted') = Cardinality(Counted) - 1
      BY <3>1, CountedFinite, FS_RemoveElement
    <3>4. Cardinality(Counted) \in 1 .. Cardinality(Readers)
      BY <3>1, CountedFinite, FS_EmptySet
    <3> QED
      BY <2>1, <3>2, <3>3, <3>4, CountedFinite DEF Counting
  <2>2. CASE rpc[r] = "free" /\ counter' = counter
    <3>1. Counted' = Counted
      BY <1>1, <1>2, <2>2 DEF Counted
    <3> QED
      BY <1>1, <2>2, <3>1 DEF IInv, TypeOK, Counting, Excluding, tvars
  <2> QED
    BY <2>1, <2>2 DEF ReaderLeave
<1>5. TypeOK'
  BY <1>1, <1>3, <1>4 DEF IInv, TypeOK, xvars, lvars, tvars, mvars
<1>6. Announced'
  BY <1>1, <1>2 DEF IInv, Announced, Running, xvars, lvars, tvars
<1>7. OneAtATime' /\ RoomInLog'
  BY <1>1, <1>2 DEF IInv, OneAtATime, RoomInLog, xvars, lvars, tvars, mvars
<1>8. LeftBehind'
  BY <1>1, <1>2, RebuildAssumption DEF IInv, LeftBehind, xvars, tvars, mvars
<1> QED
  BY <1>4, <1>5, <1>6, <1>7, <1>8 DEF IInv

-----------------------------------------------------------------------------
(* The rebuild thread *)

\* Its steps outside of the places where it keeps the searches out.
LEMMA RebuildOutsideStep ==
  ASSUME IInv, Begin \/ Drain \/ Replay \/ Drained \/ Clear \/ Free \/ End
  PROVE  IInv'
<1>1. /\ ~Excluding /\ ~Excluding' /\ tpc' # "unlock"
      /\ Alive
      /\ UNCHANGED <<xvars, ptr, search, counter, mvars, rpc, replaced>>
      /\ tpc' \in {"quiesce", "drain", "replay", "quiesce2"} /\ ~whole => ptr
      /\ tpc' \in {"quiesce", "drain", "replay", "quiesce2", "free", "idle", "ended"}
  BY DEF IInv, Announced, Running, Excluding, Alive, Begin, Drain, Replay, Drained, Clear, Free, End, lvars
<1>2. Quiet' = Quiet /\ Counted' = Counted
  BY <1>1 DEF Quiet, Counted
<1>3. /\ log' \in Seq(Operation) /\ Len(log') =< Len(log) /\ op' \in Operation
      /\ new' \subseteq Points
  <2>1. /\ log \in Seq(Operation) /\ op \in Operation /\ new \in SUBSET Points
    BY DEF IInv, TypeOK
  <2>2. CASE Drain
    <3>1. log # <<>> /\ log' = Tail(log) /\ op' = Head(log) /\ new' = new
      BY <2>2 DEF Drain
    <3> QED
      BY <2>1, <3>1
  <2>3. CASE Replay
    <3>1. new' = Applied(new, op) /\ op' = NoOp /\ log' = log
      BY <2>3 DEF Replay, lvars
    <3> QED
      BY <2>1, <3>1, OperationType
  <2>4. CASE Begin \/ Drained \/ Clear \/ Free \/ End
    <3>1. UNCHANGED <<log, new, op>>
      BY <2>4 DEF Begin, Drained, Clear, Free, End, lvars
    <3> QED
      BY <2>1, <3>1
  <2> QED
    BY <2>2, <2>3, <2>4
<1>4. working' \in BOOLEAN /\ flag' \in BOOLEAN
  BY DEF IInv, TypeOK, Begin, Drain, Replay, Drained, Clear, Free, End, lvars
<1>5. Len(log) \in Nat /\ Len(log') \in Nat /\ Len(todo) \in Nat /\ MaxLog \in Nat
  BY <1>3, RebuildAssumption DEF IInv, TypeOK
<1>6. TypeOK'
  BY <1>1, <1>3, <1>4, <1>5 DEF IInv, TypeOK, xvars, mvars
<1>7. Counting' /\ OneAtATime' /\ Announced'
  BY <1>1, <1>2 DEF IInv, Counting, Alive, OneAtATime, Announced, Running, xvars, mvars
<1>8. RoomInLog'
  BY <1>1, <1>3, <1>5 DEF IInv, RoomInLog, mvars
<1>9. LeftBehind'
  BY <1>1 DEF IInv, LeftBehind, Excluding, mvars, xvars, Begin, Drain, Replay, Drained, Clear, Free, End
<1> QED
  BY <1>6, <1>7, <1>8, <1>9 DEF IInv

\* It gets in when no search is counted, and then the counter keeps them out.
LEMMA LockSearchStep ==
  ASSUME IInv, LockSearch("quiesce", "flatten") \/ LockSearch("quiesce2", "swap")
  PROVE  IInv'
<1>1. /\ tpc \in {"quiesce", "quiesce2"} /\ tpc' \in {"flatten", "swap", "crashed"}
      /\ counter = 0 /\ counter' = -1
      /\ UNCHANGED <<xvars, lvars, working, search, new, op, mvars, rpc, replaced>>
  BY DEF LockSearch
<1>2. Quiet' = Quiet /\ Counted' = Counted
  BY <1>1 DEF Quiet, Counted
<1>3. Counted = {}
  BY <1>1, CountedFinite, FS_EmptySet DEF IInv, Counting, Excluding, Alive
<1>4. counter' \in -1 .. Cardinality(Readers)
  BY <1>1, CountedFinite
<1>5. TypeOK'
  BY <1>1, <1>4 DEF IInv, TypeOK, xvars, lvars, mvars
<1>6. Counting'
  BY <1>1, <1>2, <1>3 DEF Counting, Excluding, Alive
<1>7. OneAtATime' /\ Announced' /\ RoomInLog' /\ LeftBehind'
  BY <1>1, <1>2
  DEF IInv, OneAtATime, Announced, Running, RoomInLog, LeftBehind, xvars, lvars, mvars
<1> QED
  BY <1>5, <1>6, <1>7 DEF IInv

\* Letting the searches in again.
LEMMA LetInStep == ASSUME IInv, Flatten \/ Unlock PROVE IInv'
<1>1. /\ tpc \in {"flatten", "unlock"} /\ tpc' \in {"drain", "crashed", "clear"}
      /\ counter' = 0 /\ ~search /\ working' = FALSE
      /\ UNCHANGED <<xvars, flag, log, search, op, mvars, rpc, replaced>>
      /\ \/ tpc = "unlock" /\ ptr' = FALSE /\ tpc' = "clear"
         \/ tpc # "unlock" /\ ptr' = ptr /\ tpc' # "clear"
      /\ new' \in {new, X}
  BY DEF Flatten, Unlock, lvars
<1>2. Quiet' = Quiet /\ Counted' = Counted
  BY <1>1 DEF Quiet, Counted
<1>3. Cardinality(Counted) = 0
  BY <1>1, FS_EmptySet DEF IInv, Counting, Excluding
<1>4. counter' \in -1 .. Cardinality(Readers)
  BY <1>1, CountedFinite
<1>5. TypeOK'
  <2>1. new' \subseteq Points /\ ptr' \in BOOLEAN /\ working' \in BOOLEAN
    BY <1>1 DEF IInv, TypeOK
  <2>2. UNCHANGED <<whole, X, owed, fw, expected, astray, flag, log, search, op, mpc, todo,
                    ranging, rpc, replaced>>
    BY <1>1 DEF xvars, mvars
  <2>3. tpc' \in {"drain", "crashed", "clear"}
    BY <1>1
  <2> QED
    BY <1>4, <2>1, <2>2, <2>3 DEF IInv, TypeOK
<1>6. Counting'
  BY <1>1, <1>2, <1>3 DEF Counting, Excluding
<1>7. OneAtATime' /\ Announced' /\ RoomInLog'
  BY <1>1, <1>2, <1>3 DEF IInv, OneAtATime, Announced, Running, RoomInLog, xvars, mvars
<1>8. LeftBehind'
  BY <1>1 DEF IInv, LeftBehind, xvars, mvars
<1> QED
  BY <1>5, <1>6, <1>7, <1>8 DEF IInv

LEMMA SwapStep == ASSUME IInv, Swap PROVE IInv'
<1>1. /\ tpc = "swap" /\ tpc' = (IF ptr THEN "unlock" ELSE "crashed")
      /\ new' = {} /\ replaced' = Holders
      /\ UNCHANGED <<whole, fw, expected, lvars, working, search, counter, op, mvars, rpc>>
  BY DEF Swap
<1>2. Quiet' = Quiet /\ Counted' = Counted
  BY <1>1 DEF Quiet, Counted
<1>3. /\ X' \subseteq Points /\ astray' \subseteq Points /\ owed' \in {owed, "none"}
      /\ replaced' \subseteq Readers \cup {"main"}
  BY <1>1 DEF Swap, Holders, IInv, TypeOK
<1>4. TypeOK'
  BY <1>1, <1>3 DEF IInv, TypeOK, lvars, mvars
<1>5. Counting' /\ OneAtATime' /\ Announced' /\ RoomInLog'
  BY <1>1, <1>2
  DEF IInv, Counting, Excluding, Alive, OneAtATime, Announced, Running, RoomInLog, lvars, mvars
<1>6. LeftBehind'
  <2> SUFFICES ASSUME ptr PROVE LeftBehind'
    BY <1>1 DEF LeftBehind
  <2>1. \A r \in Readers : ~Inside(r)
    BY <1>1 DEF IInv, Counting, Excluding, Counted, Announced, Inside
  <2>2. \A r \in Holders \cap Readers : ~whole /\ rpc[r] = "look"
    BY <2>1, RebuildAssumption DEF Holders
  <2>3. "main" \in Holders => mpc \in {"check", "free", "update", "inside"}
    BY RebuildAssumption DEF Holders
  <2> QED
    BY <1>1, <2>2, <2>3 DEF LeftBehind, mvars
<1> QED
  BY <1>4, <1>5, <1>6 DEF IInv

-----------------------------------------------------------------------------
LEMMA Step == ASSUME IInv, [Next]_vars PROVE IInv'
<1>1. CASE Mapping
  BY <1>1, CallStep, ApplyFreeStep, ApplyLockedStep, LookStep DEF Mapping, MappingStep
<1>2. CASE Rebuilder
  BY <1>2, RebuildOutsideStep, LockSearchStep, LetInStep, SwapStep DEF Rebuilder
<1>3. CASE Alive /\ \E r \in Readers : ReaderStart(r) \/ ReaderStep(r)
  BY <1>3, ReaderLookStep, ReaderEnterStep, ReaderLeaveStep DEF ReaderStep
<1>4. CASE UNCHANGED vars
  BY <1>4
  DEF vars, xvars, lvars, tvars, mvars, IInv, TypeOK, Counting, Excluding, Counted, Alive,
      OneAtATime, Quiet, Announced, Running, RoomInLog, LeftBehind
<1> QED
  BY <1>1, <1>2, <1>3, <1>4 DEF Next

\* The inductive invariant: who may be where, with which lock, while a subtree
\* is rebuilt (multi_thread_rebuild, Search, Add_Points).
THEOREM Invariant == Spec => []IInv
BY Init_IInv, Step, PTL DEF Spec

\* The flags, the log with the operations to come and the counter of searches
\* stay within their types, whatever the order of the threads' steps
\* (search_mutex_counter, Rebuild_Logger).
THEOREM TypeCorrect == Spec => []TypeOK
<1>1. IInv => TypeOK
  BY DEF IInv
<1> QED
  BY <1>1, Invariant, PTL

\* No nearest neighbour search is inside the subtree while the rebuild thread
\* flattens or replaces it (Search, multi_thread_rebuild).
THEOREM RebuildExcludesSearch == Spec => []SearchExcluded
<1>1. IInv => SearchExcluded
  BY DEF IInv, SearchExcluded, Counting, Excluding, Counted, Announced, Inside
<1> QED
  BY <1>1, Invariant, PTL

\* When the rebuild thread deletes the nodes of the old tree, nobody is in it who
\* keeps to the protocol: a search that counted itself in, a box search with
\* search_flag_mutex, an operation with working_flag_mutex, or a nearest neighbour
\* search of the whole map (delete_tree_nodes in multi_thread_rebuild).
THEOREM FreedIsUnused == Spec => []NoUseAfterFree
<1>1. IInv => NoUseAfterFree
  BY DEF IInv, NoUseAfterFree, LeftBehind
<1> QED
  BY <1>1, Invariant, PTL
-----------------------------------------------------------------------------
(* The content of X *)

\* t is what the operations ops, one after the other, make of s: the last of them
\* that concerns a point decides whether it is there. (This says what a fold over
\* ops computes, point by point, so that no induction is needed.)
Concerns(ops, i, p) == p \in ops[i].pts
Decides(ops, i, p)  == /\ Concerns(ops, i, p)
                       /\ \A j \in 1 .. Len(ops) : i < j => ~Concerns(ops, j, p)
Outcome(s, ops, t, p) ==
  \/ (\A i \in 1 .. Len(ops) : ~Concerns(ops, i, p)) /\ (p \in s <=> p \in t)
  \/ \E i \in 1 .. Len(ops) : Decides(ops, i, p) /\ (ops[i].op = "add" <=> p \in t)
Untouched(ops, p) == \A i \in 1 .. Len(ops) : ~Concerns(ops, i, p)

\* The mutex and rebuild_flag over the course of a rebuild. A mark that waits is
\* taken down before anything else.
Phases ==
  /\ tpc \in {"quiesce", "flatten", "quiesce2", "swap", "unlock"} => working
  /\ tpc \in {"quiesce", "flatten", "drain", "replay"} => flag
  /\ tpc \in {"idle", "free", "ended"} => ~flag
  /\ tpc \in {"clear", "free"} => ~ptr
  /\ whole => owed = "none"
  /\ todo # <<>> /\ owed # "none" => Head(todo) = DeleteX

\* For a point that no race was about, the log leads from the new tree to X.
LogLeads == \A p \in Points \ astray :
  /\ tpc \in {"idle", "quiesce", "flatten", "quiesce2", "swap", "unlock", "clear", "free", "ended"}
       => Untouched(log, p)
  /\ tpc = "drain" => Outcome(new, log, X, p)
  /\ tpc = "replay" => Outcome(Applied(new, op), log, X, p)
  /\ tpc \in {"quiesce2", "swap"} => (p \in new <=> p \in X)

ExpectedHeld == ContentKept

CInv == Phases /\ LogLeads /\ ExpectedHeld

\* Logging what is done to t.
LEMMA OutcomeOn ==
  ASSUME NEW s, NEW t, NEW ops \in Seq(Operation), NEW o \in Operation, NEW p \in Points,
         Outcome(s, ops, t, p)
  PROVE  Outcome(s, Append(ops, o), Applied(t, o), p)
<1> DEFINE longer == Append(ops, o)
<1>1. /\ Len(ops) \in Nat /\ Len(longer) = Len(ops) + 1
      /\ \A i \in 1 .. Len(ops) : longer[i] = ops[i]
      /\ longer[Len(ops) + 1] = o
  OBVIOUS
<1>2. o.op \in {"add", "delete"}
  BY DEF Operation
<1> HIDE DEF longer
<1> SUFFICES Outcome(s, longer, Applied(t, o), p)
  BY DEF longer
<1>3. CASE p \in o.pts
  <2>1. Decides(longer, Len(ops) + 1, p)
    BY <1>1, <1>3 DEF Decides, Concerns
  <2>2. o.op = "add" <=> p \in Applied(t, o)
    BY <1>2, <1>3 DEF Applied
  <2> QED
    BY <1>1, <2>1, <2>2 DEF Outcome
<1>4. CASE p \notin o.pts
  <2>1. \A i \in 1 .. Len(longer) : i \in 1 .. Len(ops) \/ i = Len(ops) + 1
    BY <1>1
  <2>2. ~Concerns(longer, Len(ops) + 1, p)
    BY <1>1, <1>4 DEF Concerns
  <2>3. p \in Applied(t, o) <=> p \in t
    BY <1>4 DEF Applied
  <2>4. \A i \in 1 .. Len(ops) : Concerns(longer, i, p) <=> Concerns(ops, i, p)
    BY <1>1 DEF Concerns
  <2>5. CASE \A i \in 1 .. Len(ops) : ~Concerns(ops, i, p)
    <3>1. p \in s <=> p \in t
      BY <2>5 DEF Outcome, Decides
    <3> QED
      BY <2>1, <2>2, <2>3, <2>4, <2>5, <3>1 DEF Outcome
  <2>6. CASE \E i \in 1 .. Len(ops) : Decides(ops, i, p) /\ (ops[i].op = "add" <=> p \in t)
    <3>1. PICK i \in 1 .. Len(ops) : Decides(ops, i, p) /\ (ops[i].op = "add" <=> p \in t)
      BY <2>6
    <3>2. Decides(longer, i, p)
      BY <2>1, <2>2, <2>4, <3>1 DEF Decides
    <3>3. i \in 1 .. Len(longer) /\ longer[i] = ops[i]
      BY <1>1
    <3> QED
      BY <2>3, <3>1, <3>2, <3>3 DEF Outcome
  <2> QED
    BY <2>5, <2>6 DEF Outcome
<1> QED
  BY <1>3, <1>4

\* Replaying the first operation.
LEMMA OutcomeFrom ==
  ASSUME NEW s, NEW t, NEW ops \in Seq(Operation), ops # <<>>, NEW p \in Points,
         Outcome(s, ops, t, p)
  PROVE  Outcome(Applied(s, Head(ops)), Tail(ops), t, p)
<1> DEFINE o == Head(ops)
           rest == Tail(ops)
<1>1. /\ Len(ops) \in Nat /\ Len(ops) >= 1 /\ Len(rest) = Len(ops) - 1
      /\ \A i \in 1 .. Len(rest) : rest[i] = ops[i + 1]
      /\ o = ops[1] /\ o \in Operation
  OBVIOUS
<1>2. o.op \in {"add", "delete"}
  BY <1>1 DEF Operation
<1> HIDE DEF o, rest
<1> SUFFICES Outcome(Applied(s, o), rest, t, p)
  BY DEF o, rest
<1>3. \A i \in 1 .. Len(rest) : Concerns(rest, i, p) <=> Concerns(ops, i + 1, p)
  BY <1>1 DEF Concerns
<1>4. Outcome(s, ops, t, p)
  OBVIOUS
<1>5. CASE \A i \in 1 .. Len(ops) : ~Concerns(ops, i, p)
  <2>1. p \notin o.pts
    BY <1>1, <1>5 DEF Concerns
  <2>2. p \in s <=> p \in t
    BY <1>4, <1>5 DEF Outcome, Decides
  <2>3. \A i \in 1 .. Len(rest) : ~Concerns(rest, i, p)
    BY <1>1, <1>3, <1>5
  <2> QED
    BY <2>1, <2>2, <2>3 DEF Outcome, Applied
<1>6. CASE \E i \in 1 .. Len(ops) : Decides(ops, i, p) /\ (ops[i].op = "add" <=> p \in t)
  <2>1. PICK i \in 1 .. Len(ops) : Decides(ops, i, p) /\ (ops[i].op = "add" <=> p \in t)
    BY <1>6
  <2>2. CASE i = 1
    <3>1. p \in o.pts
      BY <1>1, <2>1, <2>2 DEF Decides, Concerns
    <3>2. \A j \in 1 .. Len(rest) : ~Concerns(rest, j, p)
      BY <1>1, <1>3, <2>1, <2>2 DEF Decides
    <3>3. p \in Applied(s, o) <=> p \in t
      BY <1>1, <1>2, <2>1, <2>2, <3>1 DEF Applied
    <3> QED
      BY <3>2, <3>3 DEF Outcome
  <2>3. CASE i # 1
    <3>1. i - 1 \in 1 .. Len(rest) /\ rest[i - 1] = ops[i]
      BY <1>1, <2>3
    <3>2. Concerns(rest, i - 1, p)
      BY <2>1, <3>1 DEF Decides, Concerns
    <3>3. ASSUME NEW j \in 1 .. Len(rest), i - 1 < j PROVE ~Concerns(rest, j, p)
      <4>1. j + 1 \in 1 .. Len(ops) /\ i < j + 1
        BY <1>1, <3>3
      <4> QED
        BY <1>3, <2>1, <4>1 DEF Decides
    <3>4. Decides(rest, i - 1, p)
      BY <3>2, <3>3 DEF Decides
    <3> QED
      BY <2>1, <3>1, <3>4 DEF Outcome
  <2> QED
    BY <2>2, <2>3
<1> QED
  BY <1>4, <1>5, <1>6 DEF Outcome

\* Logging one or two operations at once.
LEMMA OutcomeBatch ==
  ASSUME NEW s, NEW t, NEW ops \in Seq(Operation), NEW b \in Seq(Operation), Len(b) \in {1, 2},
         NEW p \in Points, Outcome(s, ops, t, p)
  PROVE  Outcome(s, ops \o b, Effect(t, b), p)
<1>0. \A i \in 1 .. Len(b) : b[i] \in Operation
  OBVIOUS
<1>1. CASE Len(b) = 1
  <2>1. b[1] \in Operation
    BY <1>0, <1>1
  <2>2. b = <<b[1]>>
    <3>1. <<b[1]>> \in Seq(Operation) /\ Len(<<b[1]>>) = 1
      BY <2>1, ShortSeq
    <3>2. \A i \in 1 .. Len(b) : b[i] = <<b[1]>>[i]
      BY <1>1
    <3> QED
      BY <1>1, <3>1, <3>2, SeqEqual
  <2>3. ops \o b = Append(ops, b[1])
    BY <2>1, <2>2, AppendIsConcat
  <2>4. Effect(t, b) = Applied(t, b[1])
    BY <1>1 DEF Effect
  <2> QED
    BY <2>1, <2>3, <2>4, OutcomeOn
<1>2. CASE Len(b) = 2
  <2>1. b[1] \in Operation /\ b[2] \in Operation
    BY <1>0, <1>2
  <2>2. Append(ops, b[1]) \in Seq(Operation)
    BY <2>1, AppendProperties
  <2>3. ops \o b = Append(Append(ops, b[1]), b[2])
    <3>1. b = <<b[1], b[2]>>
      <4>1. <<b[1], b[2]>> \in Seq(Operation) /\ Len(<<b[1], b[2]>>) = 2
        BY <2>1, ShortSeq
      <4>2. \A i \in 1 .. Len(b) : b[i] = <<b[1], b[2]>>[i]
        <5>1. \A i \in 1 .. 2 : i = 1 \/ i = 2
          OBVIOUS
        <5> QED
          BY <1>2, <5>1
      <4> QED
        BY <1>2, <4>1, <4>2, SeqEqual
    <3>2. <<b[1], b[2]>> = <<b[1]>> \o <<b[2]>>
      OBVIOUS
    <3>3. ops \o (<<b[1]>> \o <<b[2]>>) = (ops \o <<b[1]>>) \o <<b[2]>>
      BY <2>1, ShortSeq, ConcatAssociative
    <3>4. ops \o <<b[1]>> = Append(ops, b[1])
      BY <2>1, AppendIsConcat
    <3>5. Append(ops, b[1]) \o <<b[2]>> = Append(Append(ops, b[1]), b[2])
      BY <2>1, <2>2, AppendIsConcat
    <3> QED
      BY <3>1, <3>2, <3>3, <3>4, <3>5
  <2>4. Effect(t, b) = Applied(Applied(t, b[1]), b[2])
    BY <1>2 DEF Effect
  <2>5. Outcome(s, Append(ops, b[1]), Applied(t, b[1]), p)
    BY <2>1, OutcomeOn
  <2>6. Outcome(s, Append(Append(ops, b[1]), b[2]), Applied(Applied(t, b[1]), b[2]), p)
    BY <2>1, <2>2, <2>5, OutcomeOn
  <2> QED
    BY <2>3, <2>4, <2>6
<1> QED
  BY <1>1, <1>2

\* A point that no operation of b concerns.
LEMMA Unconcerned ==
  ASSUME NEW t, NEW b \in Seq(Operation), Len(b) \in {1, 2}, NEW p \in Points,
         p \notin Concerned(b)
  PROVE  (p \in Effect(t, b) <=> p \in t) /\ Untouched(b, p)
<1>1. \A i \in 1 .. Len(b) : p \notin b[i].pts
  BY DEF Concerned
<1>2. p \notin b[1].pts /\ (Len(b) = 2 => p \notin b[2].pts)
  BY <1>1
<1> QED
  BY <1>1, <1>2 DEF Effect, Applied, Untouched, Concerns

\* The same operations keep two sets together, and bring them together when the
\* first of them deletes everything.
LEMMA SameEffect ==
  ASSUME NEW s, NEW t, NEW b, Len(b) \in {1, 2}, NEW p \in Points,
         (p \in s <=> p \in t) \/ b[1] = DeleteX
  PROVE  p \in Effect(s, b) <=> p \in Effect(t, b)
<1>1. p \in Applied(s, b[1]) <=> p \in Applied(t, b[1])
  BY DEF Applied, DeleteX
<1> QED
  BY <1>1 DEF Effect, Applied

LEMMA Init_CInv == Init => CInv
BY DEF Init, CInv, Phases, LogLeads, Untouched, ExpectedHeld, ContentKept

\* Steps that neither work on X nor rebuild it.
LEMMA LookContent ==
  ASSUME IInv, CInv, UNCHANGED <<X, astray, lvars, working, tvars>>,
         todo' # <<>> /\ owed' # "none" => Head(todo') = DeleteX,
         whole' => owed' = "none", ExpectedHeld'
  PROVE  CInv'
<1>1. Phases'
  BY DEF CInv, Phases, lvars, tvars
<1>2. LogLeads'
  BY DEF CInv, LogLeads, Untouched, Outcome, Decides, Concerns, lvars, tvars
<1> QED
  BY <1>1, <1>2 DEF CInv

LEMMA CallContent ==
  ASSUME IInv, CInv,
         StartOperation \/ DeleteAbove \/ MissF \/ PushG \/ StartRangeSearch \/ Stop
  PROVE  CInv'
<1>1. UNCHANGED <<X, astray, lvars, working, tvars>> /\ todo = <<>>
  BY DEF IInv, RoomInLog, StartOperation, DeleteAbove, MissF, PushG, StartRangeSearch, Stop,
         xvars, mvars
<1>2. todo' # <<>> /\ owed' # "none" => Head(todo') = DeleteX
  <2>1. CASE StartOperation
    <3> SUFFICES ASSUME todo' # <<>>, owed # "none" PROVE Head(todo') = DeleteX
      BY <2>1 DEF StartOperation
    <3>1. CASE whole
      BY <3>1 DEF CInv, Phases
    <3>2. CASE ~whole
      <4>1. todo' \in Visits
        BY <2>1, <3>2 DEF StartOperation
      <4> QED
        BY <4>1 DEF Visits
    <3> QED
      BY <3>1, <3>2
  <2>2. CASE StartRangeSearch
    <3>1. owed' = owed /\ todo' = IF owed = "none" THEN <<>> ELSE <<DeleteX>>
      BY <2>2 DEF StartRangeSearch, xvars
    <3> QED
      BY <3>1
  <2>3. CASE DeleteAbove \/ MissF \/ PushG \/ Stop
    BY <1>1, <2>3 DEF DeleteAbove, MissF, PushG, Stop, mvars
  <2> QED
    BY <2>1, <2>2, <2>3
<1>3. ExpectedHeld'
  BY <1>1 DEF CInv, ExpectedHeld, ContentKept, StartOperation, DeleteAbove, MissF, PushG,
              StartRangeSearch, Stop, xvars, lvars
<1>4. whole' => owed' = "none"
  BY DEF CInv, Phases, StartOperation, DeleteAbove, MissF, PushG, StartRangeSearch, Stop, xvars
<1> QED
  BY <1>1, <1>2, <1>3, <1>4, LookContent

\* The calls' view and X take the same operations; what a mark owes X comes first.
LEMMA DoneContent ==
  ASSUME IInv, CInv, mpc \in {"free", "locked"}, NEW ops,
         ops = <<Head(todo)>> \/ (ops = todo /\ mpc = "locked"), Done(ops),
         NEW p \in Points \ astray
  PROVE  /\ owed' = "none"
         /\ p \in expected' <=> p \in Effect(X, ops)
<1>1. owed' = "none" /\ expected' = Effect(expected, ops)
  BY DEF Done
<1>2. ops \in Seq(Operation) /\ Len(ops) \in {1, 2} /\ todo # <<>> /\ todo \in Seq(Operation)
  BY DoneFacts DEF IInv, TypeOK, RoomInLog
<1>3. ops[1] = Head(todo)
  BY <1>2
<1>4. owed # "none" => Head(todo) = DeleteX
  BY <1>2 DEF CInv, Phases
<1>5. owed = "none" => (p \in expected <=> p \in X)
  BY DEF CInv, ExpectedHeld, ContentKept
<1> QED
  BY <1>1, <1>2, <1>3, <1>4, <1>5, SameEffect

LEMMA ApplyFreeContent == ASSUME IInv, CInv, ApplyFree PROVE CInv'
<1> DEFINE o == Head(todo)
           torn == "main" \in replaced \/ tpc = "flatten"
<1>1. /\ mpc = "free" /\ Done(<<o>>) /\ UNCHANGED <<flag, log, working, tvars>>
      /\ ptr' = TRUE => ptr \/ tpc = "idle"
      /\ astray' = IF torn THEN Points
                   ELSE IF tpc \in {"drain", "replay", "quiesce2", "swap"} THEN astray \cup o.pts
                   ELSE astray
      /\ ~torn => X' = Applied(X, o)
  BY DEF ApplyFree
<1>2. owed' = "none" /\ o \in Operation /\ log \in Seq(Operation) /\ ptr' \in BOOLEAN
  <2>1. owed' = "none" /\ o \in Operation
    BY <1>1, DoneFacts
  <2> QED
    BY <2>1 DEF ApplyFree, IInv, TypeOK
<1>3. Phases'
  BY <1>1, <1>2 DEF CInv, Phases, tvars
<1>4. ASSUME ~torn, NEW p \in Points \ astray' PROVE
        /\ p \notin astray
        /\ p \in expected' <=> p \in X'
        /\ tpc \in {"drain", "replay", "quiesce2", "swap"} => (p \in X' <=> p \in X)
  <2>1. p \notin astray
    BY <1>1, <1>4
  <2>2. Effect(X, <<o>>) = Applied(X, o)
    BY DEF Effect
  <2>3. p \in expected' <=> p \in Effect(X, <<o>>)
    BY <1>1, <2>1, DoneContent
  <2>4. tpc \in {"drain", "replay", "quiesce2", "swap"} => p \notin o.pts
    BY <1>1, <1>4
  <2> QED
    BY <1>1, <1>4, <2>1, <2>2, <2>3, <2>4 DEF Applied
<1>5. ExpectedHeld'
  BY <1>1, <1>2, <1>4 DEF ExpectedHeld, ContentKept
<1>6. LogLeads'
  <2> SUFFICES ASSUME ~torn, NEW p \in Points \ astray'
               PROVE  /\ tpc \in {"idle", "quiesce", "flatten", "quiesce2", "swap", "unlock", "clear",
                                  "free", "ended"} => Untouched(log, p)
                      /\ tpc = "drain" => Outcome(new, log, X', p)
                      /\ tpc = "replay" => Outcome(Applied(new, op), log, X', p)
                      /\ tpc \in {"quiesce2", "swap"} => (p \in new <=> p \in X')
    BY <1>1 DEF LogLeads, Untouched, Outcome, Decides, Concerns, tvars
  <2>1. p \in Points \ astray /\ (tpc \in {"drain", "replay", "quiesce2", "swap"} => (p \in X' <=> p \in X))
    BY <1>4
  <2> QED
    BY <2>1 DEF CInv, LogLeads, Outcome
<1> QED
  BY <1>3, <1>5, <1>6 DEF CInv

LEMMA ApplyLockedContent == ASSUME IInv, CInv, ApplyLocked PROVE CInv'
<1>1. /\ mpc = "locked" /\ ~working /\ Done(Batch)
      /\ X' = Effect(X, Batch) /\ log' = (IF flag THEN log \o Batch ELSE log)
      /\ astray' = (IF flag /\ ~ptr THEN astray \cup Concerned(Batch) ELSE astray)
      /\ UNCHANGED <<ptr, flag, working, tvars>>
      /\ Batch = <<Head(todo)>> \/ Batch = todo
      /\ Batch \in Seq(Operation) /\ Len(Batch) \in {1, 2}
  BY ApplyLockedFacts
<1>2. tpc \in {"idle", "drain", "replay", "clear", "free", "crashed", "ended"}
  BY <1>1 DEF CInv, Phases, IInv, TypeOK
<1>3. owed' = "none" /\ log \in Seq(Operation) /\ flag \in BOOLEAN
  BY <1>1, DoneFacts DEF IInv, TypeOK
<1>4. ExpectedHeld'
  <2>1. ASSUME NEW p \in Points \ astray' PROVE p \in expected' <=> p \in X'
    <3>1. p \in Points \ astray
      BY <1>1, <2>1
    <3> QED
      BY <1>1, <3>1, DoneContent
  <2> QED
    BY <1>3, <2>1 DEF ExpectedHeld, ContentKept
<1>5. Phases'
  BY <1>1, <1>3 DEF CInv, Phases, tvars
<1>6. LogLeads'
  <2> SUFFICES ASSUME NEW p \in Points \ astray'
               PROVE  /\ tpc \in {"idle", "clear", "free", "ended"} => Untouched(log', p)
                      /\ tpc = "drain" => Outcome(new, log', X', p)
                      /\ tpc = "replay" => Outcome(Applied(new, op), log', X', p)
    <3>1. UNCHANGED <<tpc, new, op>>
      BY <1>1 DEF tvars
    <3> QED
      BY <1>2, <3>1 DEF LogLeads, Untouched, Outcome, Decides, Concerns
  <2>1. p \in Points \ astray
    BY <1>1
  <2>2. CASE tpc \in {"drain", "replay"}
    <3>1. log' = log \o Batch
      BY <1>1, <2>2 DEF CInv, Phases
    <3>2. tpc = "drain" => Outcome(new, log \o Batch, Effect(X, Batch), p)
      BY <1>1, <1>3, <2>1, OutcomeBatch DEF CInv, LogLeads
    <3>3. tpc = "replay" => Outcome(Applied(new, op), log \o Batch, Effect(X, Batch), p)
      BY <1>1, <1>3, <2>1, OutcomeBatch DEF CInv, LogLeads
    <3> QED
      BY <1>1, <2>2, <3>1, <3>2, <3>3
  <2>3. CASE tpc \in {"idle", "clear", "free", "ended"}
    <3>1. Untouched(log, p)
      BY <2>1, <2>3 DEF CInv, LogLeads
    <3>2. CASE ~flag
      BY <1>1, <2>3, <3>1, <3>2
    <3>3. CASE flag
      <4>1. ~ptr /\ log' = log \o Batch
        BY <1>1, <2>3, <3>3 DEF CInv, Phases
      <4>2. Untouched(Batch, p)
        BY <1>1, <3>3, <4>1, Unconcerned
      <4>3. ASSUME NEW i \in 1 .. Len(log \o Batch) PROVE ~Concerns(log \o Batch, i, p)
        <5>1. /\ Len(log) \in Nat /\ Len(Batch) \in Nat /\ Len(log \o Batch) = Len(log) + Len(Batch)
              /\ (log \o Batch)[i] = IF i <= Len(log) THEN log[i] ELSE Batch[i - Len(log)]
          BY <1>1, <1>3, <4>3, ConcatProperties, LenProperties
        <5>2. CASE i =< Len(log)
          BY <3>1, <5>1, <5>2 DEF Untouched, Concerns
        <5>3. CASE ~(i =< Len(log))
          <6>1. i - Len(log) \in 1 .. Len(Batch)
            BY <5>1, <5>3
          <6> QED
            BY <4>2, <5>1, <5>3, <6>1 DEF Untouched, Concerns
        <5> QED
          BY <5>2, <5>3
      <4> QED
        BY <2>3, <4>1, <4>3 DEF Untouched
    <3> QED
      BY <1>3, <3>2, <3>3
  <2> QED
    BY <2>2, <2>3
<1> QED
  BY <1>4, <1>5, <1>6 DEF CInv

LEMMA MappingLookContent ==
  ASSUME IInv, CInv, Check \/ UpdateF \/ RangeSearchEnter \/ RangeSearchLeave PROVE CInv'
<1>1. UNCHANGED <<whole, X, astray, owed, expected, lvars, working, tvars, todo>>
  BY DEF Check, UpdateF, RangeSearchEnter, RangeSearchLeave, xvars
<1>2. (todo' # <<>> /\ owed' # "none" => Head(todo') = DeleteX) /\ (whole' => owed' = "none")
  BY <1>1 DEF CInv, Phases
<1>3. ExpectedHeld'
  BY <1>1 DEF CInv, ExpectedHeld, ContentKept
<1> QED
  BY <1>1, <1>2, <1>3, LookContent

LEMMA SameContent ==
  ASSUME IInv, CInv, UNCHANGED <<xvars, lvars, working, tvars, mvars>> PROVE CInv'
<1>1. (todo' # <<>> /\ owed' # "none" => Head(todo') = DeleteX) /\ (whole' => owed' = "none")
  BY DEF CInv, Phases, xvars, mvars
<1>2. ExpectedHeld'
  BY DEF CInv, ExpectedHeld, ContentKept, xvars, lvars
<1> QED
  BY <1>1, <1>2, LookContent DEF xvars, mvars

LEMMA RebuildContent == ASSUME IInv, CInv, Rebuilder PROVE CInv'
<1>1. UNCHANGED <<todo, mpc, expected, whole>>
  BY DEF Rebuilder, Begin, LockSearch, Flatten, Drain, Replay, Drained, Swap, Unlock, Clear, Free,
         End, xvars, mvars
<1>2. X \in SUBSET Points /\ new \in SUBSET Points /\ op \in Operation /\ log \in Seq(Operation)
  BY DEF IInv, TypeOK
<1>3. CASE Swap
  <2>1. /\ tpc = "swap" /\ tpc' \in {"unlock", "crashed"} /\ UNCHANGED <<lvars, working>>
        /\ \/ owed' = "none" /\ astray' = Points
           \/ X' = new /\ owed' = owed /\ astray' = astray
    BY <1>3 DEF Swap
  <2>2. Phases'
    BY <1>1, <2>1 DEF CInv, Phases, lvars
  <2>3. LogLeads'
    BY <2>1 DEF CInv, LogLeads, Untouched, Concerns, lvars
  <2>4. ExpectedHeld'
    BY <1>1, <2>1 DEF CInv, ExpectedHeld, ContentKept, LogLeads
  <2> QED
    BY <2>2, <2>3, <2>4 DEF CInv
<1>4. ASSUME UNCHANGED xvars PROVE ExpectedHeld' /\ UNCHANGED <<X, owed, astray>>
  BY <1>4 DEF CInv, ExpectedHeld, ContentKept, xvars
<1>5. CASE Flatten
  <2>1. ExpectedHeld' /\ UNCHANGED <<X, owed, astray>>
    BY <1>4, <1>5 DEF Flatten
  <2>2. Phases'
    BY <1>1, <1>5, <2>1 DEF Flatten, CInv, Phases, lvars
  <2>3. LogLeads'
    BY <1>5, <2>1 DEF Flatten, CInv, LogLeads, Untouched, Outcome, Decides, Concerns, lvars
  <2> QED
    BY <2>1, <2>2, <2>3 DEF CInv
<1>6. CASE Drain
  <2>1. \A p \in Points \ astray : Outcome(Applied(new, Head(log)), Tail(log), X, p)
    BY <1>2, <1>6, OutcomeFrom DEF Drain, CInv, LogLeads
  <2>2. ExpectedHeld' /\ UNCHANGED <<X, owed, astray>>
    BY <1>4, <1>6 DEF Drain
  <2>3. Phases'
    BY <1>1, <1>6, <2>2 DEF Drain, CInv, Phases
  <2>4. LogLeads'
    BY <1>6, <2>1, <2>2 DEF Drain, LogLeads, Outcome, Decides, Concerns
  <2> QED
    BY <2>2, <2>3, <2>4 DEF CInv
<1>7. CASE Replay
  <2>2. ExpectedHeld' /\ UNCHANGED <<X, owed, astray>>
    BY <1>4, <1>7 DEF Replay
  <2>3. Phases'
    BY <1>1, <1>7, <2>2 DEF Replay, CInv, Phases, lvars
  <2>4. LogLeads'
    BY <1>7, <2>2 DEF Replay, CInv, LogLeads, Outcome, Decides, Concerns, lvars
  <2> QED
    BY <2>2, <2>3, <2>4 DEF CInv
<1>8. CASE Drained
  <2>1. ASSUME NEW p \in Points \ astray PROVE (p \in new <=> p \in X) /\ Untouched(log, p)
    <3>1. log = <<>> /\ tpc = "drain"
      BY <1>8 DEF Drained
    <3>2. Outcome(new, log, X, p) /\ \A i \in 1 .. Len(log) : FALSE
      BY <3>1 DEF CInv, LogLeads
    <3> QED
      BY <3>2 DEF Outcome, Untouched
  <2>2. ExpectedHeld' /\ UNCHANGED <<X, owed, astray>>
    BY <1>4, <1>8 DEF Drained
  <2>3. Phases'
    BY <1>1, <1>8, <2>2 DEF Drained, CInv, Phases, lvars
  <2>4. LogLeads'
    BY <1>8, <2>1, <2>2 DEF Drained, LogLeads, Untouched, Concerns, lvars
  <2> QED
    BY <2>2, <2>3, <2>4 DEF CInv
<1>9. CASE Begin \/ LockSearch("quiesce", "flatten") \/ LockSearch("quiesce2", "swap")
             \/ Unlock \/ Clear \/ Free \/ End
  <2>1. UNCHANGED <<xvars, new, op, log>>
    BY <1>9 DEF Begin, LockSearch, Unlock, Clear, Free, End, lvars
  <2>2. ExpectedHeld' /\ UNCHANGED <<X, owed, astray>>
    BY <1>4, <2>1
  <2>3. Phases'
    BY <1>1, <1>9, <2>2 DEF Begin, LockSearch, Unlock, Clear, Free, End, CInv, Phases, lvars
  <2>4. LogLeads'
    BY <1>9, <2>1, <2>2
    DEF Begin, LockSearch, Unlock, Clear, Free, End, CInv, LogLeads, Untouched, Concerns
  <2> QED
    BY <2>2, <2>3, <2>4 DEF CInv
<1> QED
  BY <1>3, <1>5, <1>6, <1>7, <1>8, <1>9 DEF Rebuilder

LEMMA ContentStep == ASSUME IInv, CInv, [Next]_vars PROVE CInv'
<1>1. CASE Mapping
  BY <1>1, CallContent, ApplyFreeContent, ApplyLockedContent, MappingLookContent
  DEF Mapping, MappingStep
<1>2. CASE Rebuilder
  BY <1>2, RebuildContent
<1>3. CASE \E r \in Readers : ReaderStart(r) \/ ReaderStep(r)
  BY <1>3, SameContent DEF ReaderStep, ReaderStart, ReaderCheck, ReaderEnter, ReaderLeave
<1>4. CASE UNCHANGED vars
  BY <1>4, SameContent DEF vars
<1> QED
  BY <1>1, <1>2, <1>3, <1>4 DEF Next

\* Of every point that none of the races was about, a search finds in X what the
\* calls made of it, before, during and after a rebuild (Operation_Logger,
\* run_operation, the swap in multi_thread_rebuild).
THEOREM RebuildKeepsContent == Spec => []ContentKept
<1>1. IInv /\ CInv /\ [Next]_vars => CInv'
  BY ContentStep
<1>2. CInv => ContentKept
  BY DEF CInv, ExpectedHeld
<1> QED
  BY Init_CInv, <1>1, <1>2, Invariant, PTL DEF Spec

=============================================================================
