---------------------------- MODULE MatchingProofs ----------------------------
(***************************************************************************)
(* Frame-to-frame matching: first what hungarian computes, then what the   *)
(* identity keeping makes of such a matching.                              *)
(*                                                                         *)
(* hungarian, for connection matrices of every size. The argument: because *)
(* right_connected is never cleared, it always marks exactly the paired    *)
(* columns, so hungarianFind never recurses, the stack holds at most the   *)
(* frame of row i, and each row keeps what it took.                        *)
(*                                                                         *)
(* Identity keeping, for every number of clusters, every id limit and      *)
(* every value the out-of-bounds read can yield. A frame is one step, so   *)
(* the proofs are about two operators: PublishFacts says what Publish does *)
(* to ids and heights, MatchingInjective that two current boxes get one id *)
(* from hungarian only through the out-of-bounds read.                     *)
(***************************************************************************)
EXTENDS Hungarian, Tracker, SequenceTheorems, FiniteSetTheorems, WellFoundedInduction, TLAPS

\* Control: at most one frame, which scans for row i.
Control ==
  /\ Len(stack) =< 1
  /\ stack # <<>> => stack[1].row = i /\ i < NLeft /\ ret = "none"
  /\ ret # "none" => i < NLeft

\* Columns belong to rows already served, or to row i once it has succeeded.
Owners ==
  /\ \A c \in Right : right_pair[c] # Unpaired =>
                        right_pair[c] < i \/ (ret = "true" /\ right_pair[c] = i)
  /\ ret = "true" => \E c \in Right : right_pair[c] = i

\* A row has passed only columns that earlier rows hold.
Passed ==
  /\ stack # <<>> => \A d \in Right :
       d < stack[1].col /\ <<i, d>> \in matrix => right_pair[d] # Unpaired
  /\ \A l \in Left : l < i \/ (l = i /\ ret # "none") =>
       \A d \in Right :
         /\ <<l, d>> \in matrix
         /\ \A c \in Right : right_pair[c] = l => d < c
         => right_pair[d] # Unpaired /\ right_pair[d] < l

HungarianInv == HungarianTypeOK /\ PartialMatching /\ Control /\ Owners /\ Passed

-----------------------------------------------------------------------------
LEMMA SingletonSeq ==
  ASSUME NEW S, NEW s \in Seq(S), s # <<>>, Len(s) =< 1
  PROVE  /\ Len(s) = 1 /\ s[1] \in S /\ s = <<s[1]>>
         /\ Head(s) = s[1] /\ Tail(s) = <<>>
<1>1. Len(s) = 1
  <2>1. Len(s) \in Nat \ {0}
    BY EmptySeq, Zenon
  <2> QED
    BY <2>1
<1>2. s[1] \in S
  BY <1>1, ElementOfSeq
<1>3. <<s[1]>> \in Seq(S) /\ Len(<<s[1]>>) = 1 /\ <<s[1]>>[1] = s[1]
  BY <1>2
<1>4. s = <<s[1]>>
  BY <1>1, <1>3, SeqEqual
<1>5. Head(s) = s[1]
  BY <1>1
<1>6. Tail(s) = <<>>
  <2>1. Tail(s) \in Seq(S) /\ Len(Tail(s)) = 0
    BY <1>1, HeadTailProperties
  <2> QED
    BY <2>1, EmptySeq
<1> QED
  BY <1>1, <1>2, <1>4, <1>5, <1>6

Frames == [row : Left, col : 0 .. NRight]

\* The one frame the stack can hold.
LEMMA OneFrame ==
  ASSUME HungarianTypeOK, Control, stack # <<>>
  PROVE  /\ stack = <<stack[1]>> /\ Len(stack) = 1
         /\ Head(stack) = stack[1] /\ Tail(stack) = <<>>
         /\ stack[1] \in Frames
         /\ Row = i /\ Col = stack[1].col /\ Col \in 0 .. NRight
         /\ i \in Left /\ i < NLeft /\ ret = "none"
<1>1. stack \in Seq(Frames) /\ Len(stack) =< 1
  BY DEF HungarianTypeOK, Control, Frames
<1>2. /\ stack = <<stack[1]>> /\ Len(stack) = 1 /\ stack[1] \in Frames
      /\ Head(stack) = stack[1] /\ Tail(stack) = <<>>
  BY <1>1, SingletonSeq
<1>4. stack[1].row = i /\ i < NLeft /\ ret = "none"
  BY DEF Control
<1>5. Row = i /\ Col = stack[1].col /\ Col \in 0 .. NRight /\ i \in Left
  BY <1>2, <1>4 DEF Row, Col, Frames
<1> QED
  BY <1>2, <1>4, <1>5

\* With one frame, `return true` sets one entry.
LEMMA AugmentedIsUpdate ==
  ASSUME HungarianTypeOK, Control, stack # <<>>
  PROVE  Augmented = [right_pair EXCEPT ![Col] = Row]
<1>1. DOMAIN stack = {1} /\ Row = stack[1].row /\ Col = stack[1].col
  BY OneFrame DEF Row, Col
<1>2. ASSUME NEW c \in Right
      PROVE  (IF \E k \in DOMAIN stack : stack[k].col = c
              THEN LET k == CHOOSE k \in DOMAIN stack : stack[k].col = c
                   IN  stack[k].row
              ELSE right_pair[c])
             = (IF c = Col THEN Row ELSE right_pair[c])
  <2>1. CASE c = Col
    <3>1. stack[1].col = c
      BY <1>1, <2>1
    <3>2. (CHOOSE k \in DOMAIN stack : stack[k].col = c) = 1
      BY <1>1, <3>1
    <3> QED
      BY <1>1, <2>1, <3>1, <3>2
  <2>2. CASE c # Col
    BY <1>1, <2>2
  <2> QED
    BY <2>1, <2>2
<1>3. right_pair \in [Right -> Left \cup {Unpaired}]
  BY DEF HungarianTypeOK
<1> QED
  BY <1>2, <1>3 DEF Augmented

LEMMA InitHungarianInv == HungarianInit => HungarianInv
<1> SUFFICES ASSUME HungarianInit PROVE HungarianInv
  OBVIOUS
<1> USE SizesAssumption
<1>1. matrix \subseteq Left \X Right
  BY DEF HungarianInit, Greedy!ConnectionMatrices, Greedy!Left, Greedy!Right, Left, Right
<1>2. HungarianTypeOK
  BY <1>1 DEF HungarianInit, HungarianTypeOK, Left, Right, Unpaired
<1>3. PartialMatching
  BY DEF HungarianInit, PartialMatching
<1>4. Control /\ Owners /\ Passed
  BY DEF HungarianInit, Control, Owners, Passed, Left, Unpaired
<1> QED
  BY <1>2, <1>3, <1>4 DEF HungarianInv

-----------------------------------------------------------------------------
\* The steps that only move the loop counter of the frame, or open or close it.
LEMMA CallFindIInv == HungarianInv /\ CallFind => HungarianInv'
<1> SUFFICES ASSUME HungarianInv, CallFind PROVE HungarianInv'
  OBVIOUS
<1> USE SizesAssumption DEF HungarianInv, CallFind
<1>1. i \in Left
  BY DEF HungarianTypeOK, Left
<1>2. stack' = <<[row |-> i, col |-> 0]>> /\ stack' \in Seq(Frames) /\ Len(stack') = 1
  BY <1>1 DEF Frames
<1>3. HungarianTypeOK'
  BY <1>2 DEF HungarianTypeOK, Frames
<1>4. PartialMatching'
  BY DEF PartialMatching
<1>5. Control'
  BY <1>2 DEF Control
<1>6. Owners'
  BY DEF Owners
<1>7. stack'[1].col = 0
  BY <1>2
<1>8. Passed'
  BY <1>7 DEF Passed, Right
<1> QED
  BY <1>3, <1>4, <1>5, <1>6, <1>8

LEMMA NextColumnIInv == HungarianInv /\ NextColumn => HungarianInv'
<1> SUFFICES ASSUME HungarianInv, NextColumn PROVE HungarianInv'
  OBVIOUS
<1> USE SizesAssumption
<1>0. stack # <<>> /\ HungarianTypeOK /\ PartialMatching /\ Control /\ Owners /\ Passed
  BY DEF HungarianInv, NextColumn, Running
<1>1. /\ Tail(stack) = <<>> /\ Row = i /\ Col \in 0 .. NRight /\ Col = stack[1].col
      /\ Head(stack) = stack[1] /\ i \in Left /\ stack[1] \in Frames
      /\ stack[1].row = i /\ i < NLeft /\ ret = "none"
  BY <1>0, OneFrame DEF Control
<1>2. Col < NRight /\ ~Candidate /\ UNCHANGED <<matrix, i, ret, right_connected, right_pair>>
  BY DEF NextColumn
<1>3. stack' = <<[row |-> i, col |-> Col + 1]>>
  <2>1. stack' = <<[row |-> i, col |-> Col + 1]>> \o <<>>
    BY <1>1 DEF NextColumn, Advance
  <2>2. [row |-> i, col |-> Col + 1] \in Frames
    BY <1>1, <1>2 DEF Frames
  <2> QED
    BY <2>1, <2>2, ConcatEmptySeq
<1>4. stack' \in Seq(Frames) /\ Len(stack') = 1 /\ stack'[1] = [row |-> i, col |-> Col + 1]
  <2>1. [row |-> i, col |-> Col + 1] \in Frames
    BY <1>1, <1>2 DEF Frames
  <2> QED
    BY <1>3, <2>1
<1>5. HungarianTypeOK'
  BY <1>0, <1>2, <1>4 DEF HungarianTypeOK, Frames
<1>6. PartialMatching' /\ Owners'
  BY <1>0, <1>2 DEF PartialMatching, Owners
<1>7. Control'
  BY <1>1, <1>2, <1>4 DEF Control
<1>8. Passed'
  <2>1. ASSUME NEW d \in Right, d < Col + 1, <<i, d>> \in matrix
        PROVE  right_pair[d] # Unpaired
    <3>1. CASE d = Col
      BY <1>0, <1>1, <1>2, <2>1, <3>1 DEF Candidate, PartialMatching
    <3>2. CASE d < Col
      BY <1>0, <1>1, <2>1, <3>2 DEF Passed
    <3> QED
      BY <1>1, <2>1, <3>1, <3>2 DEF Right
  <2> QED
    BY <1>0, <1>2, <1>4, <2>1 DEF Passed
<1> QED
  BY <1>5, <1>6, <1>7, <1>8 DEF HungarianInv

LEMMA ReturnFalseIInv == HungarianInv /\ ReturnFalse => HungarianInv'
<1> SUFFICES ASSUME HungarianInv, ReturnFalse PROVE HungarianInv'
  OBVIOUS
<1> USE SizesAssumption
<1>0. stack # <<>> /\ HungarianTypeOK /\ PartialMatching /\ Control /\ Owners /\ Passed
  BY DEF HungarianInv, ReturnFalse, Running
<1>1. /\ Tail(stack) = <<>> /\ Col = stack[1].col /\ Col \in 0 .. NRight
      /\ i \in Left /\ i < NLeft /\ ret = "none"
  BY <1>0, OneFrame
<1>2. /\ stack' = <<>> /\ ret' = "false" /\ Col >= NRight
      /\ UNCHANGED <<matrix, i, right_connected, right_pair>>
  BY <1>1 DEF ReturnFalse
<1>3. HungarianTypeOK'
  BY <1>0, <1>2, EmptySeq DEF HungarianTypeOK
<1>4. PartialMatching'
  BY <1>0, <1>2 DEF PartialMatching
<1>5. Control'
  BY <1>1, <1>2 DEF Control
<1>6. Owners'
  BY <1>0, <1>1, <1>2 DEF Owners
<1>7. \A d \in Right : <<i, d>> \in matrix => right_pair[d] # Unpaired /\ right_pair[d] < i
  BY <1>0, <1>1, <1>2 DEF Passed, Owners, Right
<1>8. Passed'
  BY <1>0, <1>1, <1>2, <1>7 DEF Passed
<1> QED
  BY <1>3, <1>4, <1>5, <1>6, <1>8 DEF HungarianInv

LEMMA FinishRowIInv == HungarianInv /\ FinishRow => HungarianInv'
<1> SUFFICES ASSUME HungarianInv, FinishRow PROVE HungarianInv'
  OBVIOUS
<1> USE SizesAssumption DEF FinishRow
<1>0. HungarianTypeOK /\ PartialMatching /\ Control /\ Owners /\ Passed
  BY DEF HungarianInv
<1>1. i < NLeft /\ i \in Left
  BY <1>0 DEF Control, HungarianTypeOK, Left
<1>2. HungarianTypeOK'
  BY <1>0, <1>1 DEF HungarianTypeOK, Left
<1>3. PartialMatching'
  BY <1>0 DEF PartialMatching
<1>4. Control'
  BY <1>0 DEF Control
<1>5. Owners'
  <2>1. ASSUME NEW c \in Right, right_pair[c] # Unpaired PROVE right_pair[c] < i + 1
    <3>1. right_pair[c] \in Left
      BY <1>0, <2>1 DEF HungarianTypeOK
    <3> QED
      BY <1>0, <1>1, <2>1, <3>1 DEF Owners, Left
  <2> QED
    BY <2>1 DEF Owners
<1>6. Passed'
  BY <1>0, <1>1 DEF Passed, Left
<1> QED
  BY <1>2, <1>3, <1>4, <1>5, <1>6 DEF HungarianInv

\* The column a row takes is free: that the recursion is dead is used here.
LEMMA TryColumnTakes ==
  ASSUME HungarianInv, TryColumn
  PROVE  /\ Col \in Right /\ i \in Left /\ i < NLeft /\ <<i, Col>> \in matrix
         /\ right_pair[Col] = Unpaired /\ Col = stack[1].col /\ stack # <<>>
         /\ right_pair' = [right_pair EXCEPT ![Col] = i]
         /\ right_connected' = [right_connected EXCEPT ![Col] = TRUE]
         /\ stack' = <<>> /\ ret' = "true" /\ ret = "none"
         /\ UNCHANGED <<matrix, i>>
<1>0. stack # <<>> /\ HungarianTypeOK /\ PartialMatching /\ Control
  BY DEF HungarianInv, TryColumn, Running
<1>1. /\ Row = i /\ Col \in 0 .. NRight /\ Col = stack[1].col
      /\ i \in Left /\ i < NLeft /\ ret = "none"
  BY <1>0, OneFrame
<1>2. Col \in Right /\ <<i, Col>> \in matrix /\ ~right_connected[Col]
  BY <1>1, SizesAssumption DEF TryColumn, Candidate, Right
<1>3. right_pair[Col] = Unpaired
  BY <1>0, <1>2 DEF PartialMatching
<1>4. Augmented = [right_pair EXCEPT ![Col] = i]
  BY <1>0, <1>1, AugmentedIsUpdate
<1> QED
  BY <1>0, <1>1, <1>2, <1>3, <1>4 DEF TryColumn

LEMMA TryColumnIInv == HungarianInv /\ TryColumn => HungarianInv'
<1> SUFFICES ASSUME HungarianInv, TryColumn PROVE HungarianInv'
  OBVIOUS
<1> USE SizesAssumption
<1>0. HungarianTypeOK /\ PartialMatching /\ Control /\ Owners /\ Passed
  BY DEF HungarianInv
<1>1. /\ Col \in Right /\ i \in Left /\ i < NLeft /\ <<i, Col>> \in matrix
      /\ right_pair[Col] = Unpaired /\ Col = stack[1].col /\ stack # <<>>
      /\ right_pair' = [right_pair EXCEPT ![Col] = i]
      /\ right_connected' = [right_connected EXCEPT ![Col] = TRUE]
      /\ stack' = <<>> /\ ret' = "true" /\ ret = "none"
      /\ UNCHANGED <<matrix, i>>
  BY TryColumnTakes
<1>2. right_pair \in [Right -> Left \cup {Unpaired}] /\ right_connected \in [Right -> BOOLEAN]
  BY <1>0 DEF HungarianTypeOK
<1>3. /\ right_pair'[Col] = i
      /\ \A c \in Right : c # Col => right_pair'[c] = right_pair[c]
  BY <1>1, <1>2
<1>4. \A c \in Right : right_pair[c] # Unpaired => right_pair[c] < i
  BY <1>0, <1>1 DEF Owners
<1>5. HungarianTypeOK'
  BY <1>0, <1>1, <1>2, EmptySeq DEF HungarianTypeOK
<1>6. PartialMatching'
  <2> SUFFICES ASSUME NEW c \in Right
               PROVE  /\ right_connected'[c] <=> right_pair'[c] # Unpaired
                      /\ right_pair'[c] # Unpaired => <<right_pair'[c], c>> \in matrix
                      /\ \A d \in Right : right_pair'[c] = right_pair'[d] =>
                                            c = d \/ right_pair'[c] = Unpaired
    BY <1>1 DEF PartialMatching
  <2>1. i # Unpaired
    BY <1>1 DEF Left, Unpaired
  <2>2. right_connected'[c] <=> right_pair'[c] # Unpaired
    <3>1. CASE c = Col
      BY <1>1, <1>2, <1>3, <2>1, <3>1
    <3>2. CASE c # Col
      BY <1>0, <1>1, <1>2, <1>3, <3>2 DEF PartialMatching
    <3> QED
      BY <3>1, <3>2
  <2>3. right_pair'[c] # Unpaired => <<right_pair'[c], c>> \in matrix
    BY <1>0, <1>1, <1>3 DEF PartialMatching
  <2>4. ASSUME NEW d \in Right, right_pair'[c] = right_pair'[d], right_pair'[c] # Unpaired
        PROVE  c = d
    <3>1. ASSUME NEW e \in Right, e # Col PROVE right_pair'[e] # i
      <4>1. right_pair[e] \in Left \cup {Unpaired}
        BY <1>2
      <4> QED
        BY <1>1, <1>3, <1>4, <2>1, <3>1, <4>1 DEF Left
    <3> QED
      BY <1>0, <1>3, <2>4, <3>1 DEF PartialMatching
  <2> QED
    BY <2>2, <2>3, <2>4
<1>7. Control'
  <2>1. Len(stack') = 0
    BY <1>1
  <2> QED
    BY <1>1, <2>1 DEF Control
<1>8. Owners'
  BY <1>1, <1>3, <1>4 DEF Owners
<1>9. Passed'
  <2> SUFFICES ASSUME NEW l \in Left, l =< i, NEW d \in Right, <<l, d>> \in matrix,
                      \A c \in Right : right_pair'[c] = l => d < c
               PROVE  right_pair'[d] # Unpaired /\ right_pair'[d] < l
    BY <1>1 DEF Passed, Left
  <2>1. CASE l = i
    <3>1. d < Col
      BY <1>1, <1>3, <2>1
    <3>2. right_pair[d] # Unpaired
      BY <1>0, <1>1, <2>1, <3>1 DEF Passed
    <3> QED
      BY <1>3, <1>4, <2>1, <3>1, <3>2 DEF Right
  <2>2. CASE l # i
    <3>1. l < i
      BY <1>1, <2>2 DEF Left
    <3>2. \A c \in Right : right_pair[c] = l => d < c
      BY <1>1, <1>3, <3>1 DEF Left, Unpaired
    <3>3. right_pair[d] # Unpaired /\ right_pair[d] < l
      BY <1>0, <3>1, <3>2 DEF Passed
    <3> QED
      BY <1>1, <1>3, <3>3
  <2> QED
    BY <2>1, <2>2
<1> QED
  BY <1>5, <1>6, <1>7, <1>8, <1>9 DEF HungarianInv

(***************************************************************************)
(* The inductive invariant holds for matrices of every size.               *)
(***************************************************************************)
THEOREM HungarianInvariance == HungarianSpec => []HungarianInv
<1>1. HungarianInv /\ [HungarianNext]_hungarianVars => HungarianInv'
  <2> SUFFICES ASSUME HungarianInv, [HungarianNext]_hungarianVars PROVE HungarianInv'
    OBVIOUS
  <2>1. CASE CallFind
    BY <2>1, CallFindIInv
  <2>2. CASE NextColumn
    BY <2>2, NextColumnIInv
  <2>3. CASE TryColumn
    BY <2>3, TryColumnIInv
  <2>4. CASE ReturnFalse
    BY <2>4, ReturnFalseIInv
  <2>5. CASE FinishRow
    BY <2>5, FinishRowIInv
  <2>6. CASE UNCHANGED hungarianVars
    BY <2>6 DEF HungarianInv, HungarianTypeOK, PartialMatching, Control, Owners, Passed, hungarianVars
  <2> QED
    BY <2>1, <2>2, <2>3, <2>4, <2>5, <2>6 DEF HungarianNext
<1> QED
  BY <1>1, InitHungarianInv, PTL DEF HungarianSpec

\* Every value of every variable is the one its C++ type and loop bounds allow.
THEOREM HungarianTypeCorrect == HungarianSpec => []HungarianTypeOK
BY HungarianInvariance, PTL DEF HungarianInv

(***************************************************************************)
(* hungarian pairs only connected boxes and gives a previous box to at     *)
(* most one current box, whatever the connection matrix.                   *)
(***************************************************************************)
THEOREM MatchingCorrect == HungarianSpec => []PartialMatching
BY HungarianInvariance, PTL DEF HungarianInv

(***************************************************************************)
(* hungarianFind never calls itself: what the code runs is a first-fit     *)
(* search and not the augmenting-path algorithm.                           *)
(***************************************************************************)
THEOREM AugmentingNeverRuns == HungarianSpec => []AugmentingIsDead
<1>1. HungarianInv => AugmentingIsDead
  BY DEF HungarianInv, Control, AugmentingIsDead
<1> QED
  BY <1>1, HungarianInvariance, PTL

-----------------------------------------------------------------------------
LEMMA FirstFitFromInvariant == HungarianInv => FirstFitWhenDone
<1> SUFFICES ASSUME HungarianInv, Done, NEW l \in Left
             PROVE  LET free == FreeFor(l, right_pair, Right, matrix, Below(Left))
                    IN  { c \in Right : right_pair[c] = l }
                          = { c \in free : \A d \in free \ {c} : <<c, d>> \in Below(Right) }
  BY DEF FirstFitWhenDone, FirstFit
<1> DEFINE free == FreeFor(l, right_pair, Right, matrix, Below(Left))
           minimal(c) == \A d \in free \ {c} : <<c, d>> \in Below(Right)
<1>0. HungarianTypeOK /\ PartialMatching /\ Passed /\ l < i /\ l # Unpaired
  BY SizesAssumption DEF HungarianInv, Done, Left, Unpaired
<1>1. ASSUME NEW c \in Right
      PROVE  c \in free <=> <<l, c>> \in matrix /\ (right_pair[c] = Unpaired \/ right_pair[c] >= l)
  BY <1>0 DEF FreeFor, Below, HungarianTypeOK, Left, Unpaired
<1>2. ASSUME NEW c \in Right, right_pair[c] = l
      PROVE  /\ c \in free
             /\ \A d \in Right : right_pair[d] = l => d = c
  <2>1. <<l, c>> \in matrix
    BY <1>0, <1>2 DEF PartialMatching
  <2>2. c \in free
    BY <1>1, <1>2, <2>1 DEF Left
  <2>3. ASSUME NEW d \in Right, right_pair[d] = l PROVE d = c
    BY <1>0, <1>2, <2>3 DEF PartialMatching
  <2> QED
    BY <2>2, <2>3
<1>3. ASSUME NEW d \in free, d \in Right
      PROVE  \E e \in Right : right_pair[e] = l /\ ~(d < e)
  <2> SUFFICES ASSUME \A e \in Right : right_pair[e] = l => d < e
               PROVE  FALSE
    OBVIOUS
  <2>1. <<l, d>> \in matrix /\ (right_pair[d] = Unpaired \/ right_pair[d] >= l)
    BY <1>1, <1>3
  <2>2. right_pair[d] # Unpaired /\ right_pair[d] < l
    BY <1>0, <1>3, <2>1 DEF Passed
  <2> QED
    BY <1>0, <1>3, <2>1, <2>2 DEF HungarianTypeOK, Left, Unpaired
<1>4. ASSUME NEW c \in Right, right_pair[c] = l, NEW d \in free \ {c}
      PROVE  <<c, d>> \in Below(Right)
  <2>1. d \in Right
    BY DEF FreeFor
  <2>2. \E e \in Right : right_pair[e] = l /\ ~(d < e)
    BY <1>3, <1>4, <2>1
  <2>3. ~(d < c)
    BY <1>2, <1>4, <2>2
  <2> QED
    BY <1>4, <2>1, <2>3 DEF Below, Right
<1>5. ASSUME NEW c \in free, minimal(c)
      PROVE  right_pair[c] = l
  <2>1. c \in Right
    BY DEF FreeFor
  <2>2. PICK e \in Right : right_pair[e] = l /\ ~(c < e)
    BY <1>3, <2>1
  <2>3. e \in free
    BY <1>2, <2>2
  <2>4. e # c => c < e
    BY <1>5, <2>3 DEF Below
  <2> QED
    BY <2>2, <2>4
<1>6. ASSUME NEW c \in free PROVE c \in Right
  BY DEF FreeFor
<1> HIDE DEF free
<1>7. { c \in Right : right_pair[c] = l } = { c \in free : minimal(c) }
  BY <1>2, <1>4, <1>5, <1>6
<1> QED
  BY <1>7 DEF free

(***************************************************************************)
(* The vector hungarian returns is the first-fit matching of the           *)
(* connection matrix: the fact that Tracker builds on.                     *)
(***************************************************************************)
THEOREM ResultIsFirstFit == HungarianSpec => []FirstFitWhenDone
BY HungarianInvariance, FirstFitFromInvariant, PTL

-----------------------------------------------------------------------------
\* The row the abstract specification serves next.
ServedRow == IF stack = <<>> /\ ret # "none" THEN i + 1 ELSE i

LEMMA InitRefines == HungarianInit => Greedy!Init
BY DEF HungarianInit, Greedy!Init, Right, Greedy!Right, Unpaired, Greedy!Unpaired

LEMMA TryColumnRefines == HungarianInv /\ TryColumn => Greedy!PairRow
<1> SUFFICES ASSUME HungarianInv, TryColumn PROVE Greedy!PairRow
  OBVIOUS
<1>1. /\ Col \in Right /\ i \in Left /\ i < NLeft /\ <<i, Col>> \in matrix
      /\ right_pair[Col] = Unpaired /\ Col = stack[1].col /\ stack # <<>>
      /\ right_pair' = [right_pair EXCEPT ![Col] = i]
      /\ stack' = <<>> /\ ret' = "true" /\ ret = "none"
      /\ UNCHANGED <<matrix, i>>
  BY TryColumnTakes
<1>2. ServedRow = i /\ ServedRow' = i + 1
  BY <1>1 DEF ServedRow
<1>3. Greedy!Free = { c \in Right : <<i, c>> \in matrix /\ right_pair[c] = Unpaired }
  BY <1>1 DEF Greedy!Free, Right, Greedy!Right, Unpaired, Greedy!Unpaired
<1>4. Col \in Greedy!Free
  BY <1>1, <1>3
<1>5. \A d \in Greedy!Free : Col =< d
  BY <1>1, <1>3 DEF HungarianInv, Passed, Right
<1> QED
  BY <1>1, <1>4, <1>5 DEF Greedy!PairRow

LEMMA ReturnFalseRefines == HungarianInv /\ ReturnFalse => Greedy!SkipRow
<1> SUFFICES ASSUME HungarianInv, ReturnFalse PROVE Greedy!SkipRow
  OBVIOUS
<1>0. stack # <<>> /\ HungarianTypeOK /\ PartialMatching /\ Control /\ Passed
  BY DEF HungarianInv, ReturnFalse, Running
<1>1. /\ Tail(stack) = <<>> /\ Col = stack[1].col /\ Col \in 0 .. NRight
      /\ i < NLeft /\ ret = "none"
  BY <1>0, OneFrame
<1>2. /\ stack' = <<>> /\ ret' = "false" /\ Col >= NRight
      /\ UNCHANGED <<matrix, i, right_pair>>
  BY <1>1 DEF ReturnFalse
<1>3. Greedy!Free = {}
  BY <1>0, <1>1, <1>2, SizesAssumption
    DEF Greedy!Free, Passed, Right, Greedy!Right, Unpaired, Greedy!Unpaired
<1> QED
  BY <1>0, <1>1, <1>2, <1>3 DEF Greedy!SkipRow

LEMMA NextRefines == HungarianInv /\ HungarianInv' /\ [HungarianNext]_hungarianVars => [Greedy!Next]_(Greedy!vars)
<1> SUFFICES ASSUME HungarianInv, HungarianInv', [HungarianNext]_hungarianVars PROVE [Greedy!Next]_(Greedy!vars)
  OBVIOUS
<1>1. CASE CallFind
  <2>1. stack = <<>> /\ ret = "none" /\ ret' = "none"
    BY <1>1 DEF CallFind
  <2> QED
    BY <1>1, <2>1 DEF CallFind, Greedy!vars
<1>2. CASE NextColumn
  <2>1. stack # <<>> /\ ret = "none" /\ ret' = "none"
    BY <1>2 DEF NextColumn, Running
  <2> QED
    BY <1>2, <2>1 DEF NextColumn, Greedy!vars
<1>3. CASE TryColumn
  BY <1>3, TryColumnRefines DEF Greedy!Next
<1>4. CASE ReturnFalse
  BY <1>4, ReturnFalseRefines DEF Greedy!Next
<1>5. CASE FinishRow
  BY <1>5 DEF FinishRow, Greedy!vars
<1>6. CASE UNCHANGED hungarianVars
  BY <1>6 DEF hungarianVars, Greedy!vars
<1> QED
  BY <1>1, <1>2, <1>3, <1>4, <1>5, <1>6 DEF HungarianNext

(***************************************************************************)
(* The recursive search implements the greedy matching: every step serves  *)
(* one more row of the abstract specification or changes nothing in it.    *)
(***************************************************************************)
THEOREM Refinement == HungarianSpec => RefinesGreedy
<1>1. HungarianInit => Greedy!Init
  BY InitRefines
<1>2. HungarianInv /\ HungarianInv' /\ [HungarianNext]_hungarianVars => [Greedy!Next]_(Greedy!vars)
  BY NextRefines
<1> QED
  BY <1>1, <1>2, HungarianInvariance, PTL DEF HungarianSpec, RefinesGreedy, Greedy!Spec

-----------------------------------------------------------------------------
\* Every published id has a history, and it holds the published height.
Remembered ==
  \A c \in DOMAIN prev_boxes :
    /\ prev_boxes[c].id \in DOMAIN bbox_size_history_
    /\ prev_boxes[c].z = bbox_size_history_[prev_boxes[c].id]

\* Until the counter wraps it is above every id in use.
CounterAhead ==
  ~wrapped => \A k \in DOMAIN bbox_size_history_ \cup DOMAIN ukf_states :
                k < next_obstacle_id_

IInv ==
  /\ TypeOK
  /\ Remembered
  /\ CounterAhead
  /\ DistinctIds
  /\ FilterFollowsFrame
  /\ FiltersBounded

-----------------------------------------------------------------------------
LEMMA ClustersFinite ==
  /\ IsFiniteSet(Clusters) /\ Cardinality(Clusters) = MaxClusters
  /\ \A S \in SUBSET Clusters : /\ IsFiniteSet(S)
                                /\ Cardinality(S) \in Nat
                                /\ Cardinality(S) =< MaxClusters
<1>1. IsFiniteSet(Clusters) /\ Cardinality(Clusters) = MaxClusters
  BY FS_Interval, TrackerAssumption DEF Clusters
<1>2. ASSUME NEW S \in SUBSET Clusters
      PROVE  IsFiniteSet(S) /\ Cardinality(S) \in Nat /\ Cardinality(S) =< MaxClusters
  BY <1>1, FS_Subset, FS_CardinalityType
<1> QED
  BY <1>1, <1>2

\* Min is a member and a lower bound.
LEMMA MinOfNaturals ==
  ASSUME NEW S \in SUBSET Nat, S # {}
  PROVE  Min(S) \in S /\ \A y \in S : Min(S) =< y
<1> DEFINE R == { ss \in Nat \X Nat : ss[1] < ss[2] }
<1>1. IsWellFoundedOn(R, Nat)
  BY NatLessThanWellFounded DEF OpToRel
<1>2. \E x \in S : \A y \in S : ~(<<y, x>> \in R)
  <2> HIDE DEF R
  <2> QED
    BY <1>1, WFMin
<1>3. \E x \in S : \A y \in S : x =< y
  <2>1. PICK x \in S : \A y \in S : ~(<<y, x>> \in R)
    BY <1>2
  <2>2. ASSUME NEW y \in S PROVE x =< y
    <3>1. <<y, x>> \in Nat \X Nat /\ <<y, x>>[1] = y /\ <<y, x>>[2] = x
      OBVIOUS
    <3>2. y < x => <<y, x>> \in R
      BY <3>1
    <3> QED
      BY <2>1, <3>2
  <2> QED
    BY <2>2
<1> QED
  BY <1>3 DEF Min

\* The number of earlier elements tells the elements of a set of clusters apart.
LEMMA RankStrict ==
  ASSUME NEW S \in SUBSET Clusters, NEW c \in S, NEW d \in S, c < d
  PROVE  /\ Cardinality({ e \in S : e < c }) \in Nat
         /\ Cardinality({ e \in S : e < c }) < Cardinality({ e \in S : e < d })
         /\ Cardinality({ e \in S : e < d }) < Cardinality(S)
<1> DEFINE A == { e \in S : e < c }
           B == { e \in S : e < d }
<1>1. \A e \in S : e \in Nat
  BY DEF Clusters
<1>2. A \in SUBSET B /\ A # B /\ B \in SUBSET S /\ B # S
  BY <1>1
<1>3. IsFiniteSet(S) /\ IsFiniteSet(A) /\ IsFiniteSet(B)
  BY ClustersFinite, <1>2, FS_Subset
<1>4. Cardinality(A) \in Nat /\ Cardinality(B) \in Nat /\ Cardinality(S) \in Nat
  BY <1>3, FS_CardinalityType
<1>5. Cardinality(A) =< Cardinality(B) /\ Cardinality(A) # Cardinality(B)
  BY <1>2, <1>3, FS_Subset
<1>6. Cardinality(B) =< Cardinality(S) /\ Cardinality(B) # Cardinality(S)
  BY <1>2, <1>3, FS_Subset
<1> QED
  BY <1>4, <1>5, <1>6

LEMMA RankBelow ==
  ASSUME NEW S \in SUBSET Clusters, NEW c \in S
  PROVE  /\ Cardinality({ e \in S : e < c }) \in Nat
         /\ Cardinality({ e \in S : e < c }) < Cardinality(S)
<1> DEFINE A == { e \in S : e < c }
<1>1. c \in Nat
  BY DEF Clusters
<1>2. A \in SUBSET S /\ A # S
  BY <1>1
<1>3. IsFiniteSet(S) /\ IsFiniteSet(A)
  BY ClustersFinite, <1>2, FS_Subset
<1>4. Cardinality(A) \in Nat /\ Cardinality(S) \in Nat
  BY <1>3, FS_CardinalityType
<1>5. Cardinality(A) =< Cardinality(S) /\ Cardinality(A) # Cardinality(S)
  BY <1>2, <1>3, FS_Subset
<1> QED
  BY <1>4, <1>5

-----------------------------------------------------------------------------
(***************************************************************************)
(* What Publish does, whoever called it: temp are the detections, and the  *)
(* boxes in the domain of inherited already have an id of prev_boxes.      *)
(***************************************************************************)
Fresh(temp, inherited) == DOMAIN temp \ DOMAIN inherited

LEMMA DetectionsType ==
  ASSUME NEW temp \in Detections
  PROVE  DOMAIN temp \in SUBSET Clusters /\ temp \in [DOMAIN temp -> Heights]
BY DEF Detections

LEMMA PublishFacts ==
  ASSUME TypeOK, Remembered, CounterAhead,
         NEW temp \in Detections, NEW inherited, NEW via,
         IsMap(inherited, DOMAIN temp, PrevIds),
         via \in [DOMAIN inherited -> {"connected", "stray"}],
         Publish(temp, inherited, via)
  PROVE  /\ IsMap(prev_boxes', Clusters, Boxes)
         /\ DOMAIN prev_boxes' = DOMAIN temp
         /\ next_obstacle_id_' \in Ids
         /\ IsMap(bbox_size_history_', Ids, Heights)
         /\ wrapped' \in BOOLEAN
         /\ wrapped => wrapped'
         /\ DOMAIN bbox_size_history_' = DOMAIN bbox_size_history_ \cup IdsOf(prev_boxes')
         /\ \A k \in DOMAIN bbox_size_history_ :
              bbox_size_history_'[k] \in {bbox_size_history_[k], Lifted(bbox_size_history_[k])}
         /\ Remembered'
         /\ \A c \in DOMAIN inherited : prev_boxes'[c].id = inherited[c]
         /\ ~wrapped' =>
              /\ next_obstacle_id_ =< next_obstacle_id_'
              /\ \A c \in Fresh(temp, inherited) :
                   /\ next_obstacle_id_ =< prev_boxes'[c].id
                   /\ prev_boxes'[c].id < next_obstacle_id_'
              /\ \A c, d \in Fresh(temp, inherited) :
                   c < d => prev_boxes'[c].id < prev_boxes'[d].id
<1> DEFINE fresh == Fresh(temp, inherited)
           id(c) == IF c \in fresh THEN FreshId(c, fresh) ELSE inherited[c]
           owner(k) == CHOOSE c \in DOMAIN temp : id(c) = k
           n == Cardinality(fresh)
           rank(c) == Cardinality({ e \in fresh : e < c })
           hist == bbox_size_history_
           all == DOMAIN hist \cup { id(c) : c \in DOMAIN temp }
           sizes == [k \in all |-> IF \E c \in DOMAIN temp : id(c) = k
                                   THEN Height(hist, k, temp[owner(k)])
                                   ELSE hist[k]]
<1> USE TrackerAssumption
<1>1. /\ hist' = sizes
      /\ prev_boxes' = [c \in DOMAIN temp |->
           [id |-> id(c), z |-> sizes[id(c)], via |-> IF c \in fresh THEN "new" ELSE via[c]]]
      /\ next_obstacle_id_' = NextId(n)
      /\ wrapped' = (wrapped \/ next_obstacle_id_ + n > IdLimit)
  BY DEF Publish, Fresh
<1>2. /\ DOMAIN temp \in SUBSET Clusters /\ temp \in [DOMAIN temp -> Heights]
      /\ DOMAIN inherited \subseteq DOMAIN temp
      /\ \A c \in DOMAIN inherited : inherited[c] \in PrevIds
  BY DetectionsType DEF IsMap
<1>3. fresh \in SUBSET Clusters /\ n \in Nat /\ n =< MaxClusters
  BY <1>2, ClustersFinite DEF Fresh
<1>4. next_obstacle_id_ \in 0 .. IdLimit /\ IsMap(hist, Ids, Heights)
  BY DEF TypeOK, Ids
<1>5. PrevIds \subseteq DOMAIN hist /\ PrevIds \subseteq Ids
  BY DEF PrevIds, IdsOf, Remembered, TypeOK, IsMap, Boxes
<1>6. ASSUME NEW c \in fresh
      PROVE  /\ rank(c) \in Nat /\ rank(c) < n
             /\ id(c) = Wrap(next_obstacle_id_ + rank(c)) /\ id(c) \in Ids
             /\ next_obstacle_id_ + n =< IdLimit => id(c) = next_obstacle_id_ + rank(c)
  <2>1. rank(c) \in Nat /\ rank(c) < n
    BY <1>3, RankBelow
  <2>2. id(c) = Wrap(next_obstacle_id_ + rank(c))
    BY DEF FreshId
  <2> QED
    BY <1>3, <1>4, <2>1, <2>2 DEF Wrap, Ids
<1>7. ASSUME NEW c \in DOMAIN temp
      PROVE  id(c) \in Ids /\ (c \notin fresh => id(c) \in DOMAIN hist)
  <2>1. CASE c \in fresh
    BY <1>6, <2>1
  <2>2. CASE c \notin fresh
    BY <1>2, <1>5, <2>2 DEF Fresh
  <2> QED
    BY <2>1, <2>2
<1>8. ASSUME NEW k \in all
      PROVE  /\ sizes[k] \in Heights
             /\ k \in DOMAIN hist => sizes[k] \in {hist[k], Lifted(hist[k])}
  <2>1. CASE k \in DOMAIN hist
    BY <1>4, <2>1 DEF Height, Lifted, IsMap
  <2>2. CASE k \notin DOMAIN hist
    <3>1. \E c \in DOMAIN temp : id(c) = k
      BY <2>2
    <3>2. owner(k) \in DOMAIN temp
      <4> HIDE DEF id
      <4> QED
        BY <3>1
    <3> QED
      BY <1>2, <2>2, <3>1, <3>2 DEF Height
  <2> QED
    BY <2>1, <2>2
<1> HIDE DEF id, sizes, fresh
<1>9. /\ IsMap(prev_boxes', Clusters, Boxes)
      /\ DOMAIN prev_boxes' = DOMAIN temp
      /\ \A c \in DOMAIN temp : prev_boxes'[c].id = id(c) /\ prev_boxes'[c].z = sizes[id(c)]
  <2>1. ASSUME NEW c \in DOMAIN temp
        PROVE  [id |-> id(c), z |-> sizes[id(c)], via |-> IF c \in fresh THEN "new" ELSE via[c]]
               \in Boxes
    <3>1. sizes[id(c)] \in Heights
      BY <1>8
    <3>2. (IF c \in fresh THEN "new" ELSE via[c]) \in {"new", "connected", "stray"}
      BY <1>2 DEF fresh, Fresh
    <3> QED
      BY <1>7, <3>1, <3>2 DEF Boxes
  <2> QED
    BY <1>1, <1>2, <2>1 DEF IsMap
<1>10. DOMAIN sizes = all /\ IdsOf(prev_boxes') = { id(c) : c \in DOMAIN temp }
  <2>1. DOMAIN sizes = all
    BY DEF sizes
  <2> QED
    BY <1>9, <2>1 DEF IdsOf
<1>11. DOMAIN hist' = DOMAIN hist \cup IdsOf(prev_boxes')
  BY <1>1, <1>10
<1>12. IsMap(hist', Ids, Heights)
  <2>1. all \subseteq Ids
    BY <1>4, <1>7 DEF IsMap
  <2>2. sizes \in [all -> Heights]
    BY <1>8, <1>10 DEF sizes
  <2> QED
    BY <1>1, <1>10, <2>1, <2>2 DEF IsMap
<1>13. \A k \in DOMAIN hist : hist'[k] \in {hist[k], Lifted(hist[k])}
  BY <1>1, <1>8
<1>14. Remembered'
  BY <1>1, <1>9, <1>10 DEF Remembered
<1>15. \A c \in DOMAIN inherited : prev_boxes'[c].id = inherited[c]
  BY <1>2, <1>9 DEF id, fresh, Fresh
<1>16. next_obstacle_id_' \in Ids /\ wrapped' \in BOOLEAN /\ (wrapped => wrapped')
  BY <1>1, <1>3, <1>4 DEF NextId, Wrap, Ids, TypeOK
<1>17. ASSUME ~wrapped'
       PROVE  /\ next_obstacle_id_' = next_obstacle_id_ + n
              /\ next_obstacle_id_ + n =< IdLimit
  <2> HIDE DEF n
  <2>1. ~(next_obstacle_id_ + n > IdLimit)
    BY <1>1, <1>17, Zenon
  <2>2. next_obstacle_id_' = NextId(n)
    BY <1>1
  <2> QED
    BY <1>3, <1>4, <2>1, <2>2 DEF NextId, Wrap
<1>18. ASSUME ~wrapped', NEW c \in fresh
       PROVE  /\ prev_boxes'[c].id = next_obstacle_id_ + rank(c)
              /\ rank(c) \in Nat /\ rank(c) < n
  <2>1. c \in DOMAIN temp
    BY DEF fresh, Fresh
  <2> QED
    BY <1>6, <1>9, <1>17, <1>18, <2>1
<1>19. ASSUME ~wrapped', NEW c \in fresh, NEW d \in fresh, c < d
       PROVE  prev_boxes'[c].id < prev_boxes'[d].id
  <2>1. rank(c) < rank(d)
    BY <1>3, <1>19, RankStrict
  <2> QED
    BY <1>4, <1>18, <1>19, <2>1
<1>20. ~wrapped' =>
         /\ next_obstacle_id_ =< next_obstacle_id_'
         /\ \A c \in fresh : /\ next_obstacle_id_ =< prev_boxes'[c].id
                             /\ prev_boxes'[c].id < next_obstacle_id_'
         /\ \A c, d \in fresh : c < d => prev_boxes'[c].id < prev_boxes'[d].id
  <2> SUFFICES ASSUME ~wrapped'
               PROVE  /\ next_obstacle_id_ =< next_obstacle_id_'
                      /\ \A c \in fresh : /\ next_obstacle_id_ =< prev_boxes'[c].id
                                          /\ prev_boxes'[c].id < next_obstacle_id_'
    BY <1>19
  <2> HIDE DEF n, rank
  <2> QED
    BY <1>3, <1>4, <1>17, <1>18
<1> QED
  BY <1>9, <1>11, <1>12, <1>13, <1>14, <1>15, <1>16, <1>20 DEF fresh

-----------------------------------------------------------------------------
\* The first row of a column is the index of a previous box.
LEMMA FirstRowType ==
  ASSUME NEW assoc \in SUBSET (Clusters \X Clusters), NEW c \in Rights(assoc)
  PROVE  FirstRow(assoc, c) \in Nat
<1> DEFINE rows == { a[1] : a \in { b \in assoc : b[2] = c } }
<1>1. rows \in SUBSET Nat /\ rows # {}
  BY DEF Rights, Clusters
<1> HIDE DEF rows
<1>2. Min(rows) \in Nat
  BY <1>1, MinOfNaturals
<1> QED
  BY <1>2 DEF FirstRow, rows

(***************************************************************************)
(* hungarian gives a previous box to at most one current box, because the  *)
(* columns of its matrix are in a strict order.                            *)
(***************************************************************************)
LEMMA MatchingInjective ==
  ASSUME NEW assoc \in SUBSET (Clusters \X Clusters), NEW matches,
         IsMatching(matches, assoc),
         NEW c \in Rights(assoc), NEW d \in Rights(assoc),
         matches[c] \in Lefts(assoc), matches[d] = matches[c]
  PROVE  c = d
<1> SUFFICES ASSUME c # d PROVE FALSE
  OBVIOUS
<1> DEFINE l == matches[c]
           rb == RightBefore(assoc)
           free == FreeFor(l, matches, Rights(assoc), Edges(assoc), LeftBefore(assoc))
           first == { e \in free : \A f \in free \ {e} : <<e, f>> \in rb }
<1>1. { e \in Rights(assoc) : matches[e] = l } = first
  BY DEF IsMatching, FirstFit
<1>2. c \in first /\ d \in first
  BY <1>1
<1>3. <<c, d>> \in rb /\ <<d, c>> \in rb
  <2> HIDE DEF rb, free
  <2> QED
    BY <1>2
<1>4. FirstRow(assoc, c) \in Nat /\ FirstRow(assoc, d) \in Nat
  BY FirstRowType
<1>5. c \in Nat /\ d \in Nat
  BY DEF Rights, Clusters
<1> QED
  BY <1>3, <1>4, <1>5 DEF RightBefore

(***************************************************************************)
(* What a frame with connected boxes does: inherited are the ids of the    *)
(* boxes that got one, and exactly these ids have a filter afterwards.     *)
(***************************************************************************)
Hits(inherited, k) == { c \in DOMAIN inherited : inherited[c] = k }

Inherits(temp, inherited, via) ==
  /\ IsMap(inherited, DOMAIN temp, PrevIds)
  /\ via \in [DOMAIN inherited -> {"connected", "stray"}]
  /\ Publish(temp, inherited, via)
  /\ \A c, d \in DOMAIN inherited :
       inherited[c] = inherited[d] => c = d \/ inherited[c] \in JunkIds
  /\ DOMAIN ukf_states' = { inherited[c] : c \in DOMAIN inherited }
  /\ DOMAIN match_counts' = { inherited[c] : c \in DOMAIN inherited }
  /\ IsMap(ukf_states', Ids, BOOLEAN)
  /\ IsMap(match_counts', Ids, 1 .. MaxCount)
  /\ \A k \in DOMAIN ukf_states' : ukf_states'[k]
  /\ \A k \in DOMAIN match_counts \cap DOMAIN match_counts' :
       match_counts'[k] = match_counts[k] + Cardinality(Hits(inherited, k))

LEMMA TrackInherits ==
  ASSUME IInv,
         NEW temp \in Detections,
         NEW assoc \in SUBSET ((DOMAIN prev_boxes) \X (DOMAIN temp)),
         NEW matches \in [Rights(assoc) -> Lefts(assoc) \cup {Unpaired}],
         NEW junk \in [Rights(assoc) -> JunkIds],
         IsMatching(matches, assoc), Track(temp, assoc, matches, junk)
  PROVE  \E inherited, via : Inherits(temp, inherited, via)
<1> USE TrackerAssumption
<1> DEFINE preId == [c \in Rights(assoc) |-> PreId(matches, junk, c)]
           hits == { c \in Rights(assoc) : preId[c] \in PrevIds }
           via == [c \in hits |-> IF <<preId[c], c>> \in Edges(assoc)
                                  THEN "connected" ELSE "stray"]
           matched == { preId[c] : c \in hits }
           kept == Kept(match_counts, matched)
           base(k) == IF k \in DOMAIN ukf_states THEN match_counts[k] ELSE 0
           inherited == [c \in hits |-> preId[c]]
           of(k) == { c \in hits : preId[c] = k }
<1>1. /\ \A k \in kept : match_counts'[k] =< MaxCount
      /\ match_counts' = [k \in kept |-> base(k) + Cardinality(of(k))]
      /\ ukf_states' = [k \in kept |-> \E c \in hits : preId[c] = k]
      /\ Publish(temp, inherited, via)
  BY DEF Track
<1>2. kept = matched
  BY DEF Kept
<1>3. /\ TypeOK /\ PrevIds \subseteq Ids
      /\ DOMAIN ukf_states = DOMAIN match_counts
  BY DEF IInv, FiltersBounded, TypeOK, PrevIds, IdsOf, IsMap, Boxes
<1>4. DOMAIN temp \in SUBSET Clusters /\ DOMAIN prev_boxes \in SUBSET Clusters
  BY DetectionsType, <1>3 DEF TypeOK, IsMap
<1>5. assoc \in SUBSET (Clusters \X Clusters) /\ Rights(assoc) \in SUBSET (DOMAIN temp)
  BY <1>4 DEF Rights
<1>6. /\ hits \in SUBSET (DOMAIN temp)
      /\ DOMAIN inherited = hits
      /\ \A c \in hits : inherited[c] = preId[c] /\ preId[c] \in PrevIds
      /\ matched \in SUBSET PrevIds
  BY <1>5
<1>7. IsMap(inherited, DOMAIN temp, PrevIds)
  BY <1>6 DEF IsMap
<1>8. via \in [DOMAIN inherited -> {"connected", "stray"}]
  BY <1>6
<1>9. ASSUME NEW c \in hits, NEW d \in hits, preId[c] = preId[d]
       PROVE  c = d \/ preId[c] \in JunkIds
  <2>1. c \in Rights(assoc) /\ d \in Rights(assoc)
    OBVIOUS
  <2>2. CASE matches[c] = Unpaired
    <3>1. preId[c] = junk[c]
      BY <2>1, <2>2 DEF PreId
    <3> QED
      BY <2>1, <3>1
  <2>3. CASE matches[d] = Unpaired
    <3>1. preId[d] = junk[d]
      BY <2>1, <2>3 DEF PreId
    <3> QED
      BY <1>9, <2>1, <3>1
  <2>4. CASE matches[c] # Unpaired /\ matches[d] # Unpaired
    <3>1. matches[c] \in Lefts(assoc) /\ matches[d] = matches[c]
      BY <1>9, <2>1, <2>4 DEF PreId
    <3> QED
      BY <1>5, <2>1, <3>1, MatchingInjective
  <2> QED
    BY <2>2, <2>3, <2>4
<1> HIDE DEF preId, hits, of, via
<1>10. ASSUME NEW k \in matched
       PROVE  /\ k \in Ids
              /\ match_counts'[k] = base(k) + Cardinality(of(k))
              /\ match_counts'[k] \in 1 .. MaxCount
  <2>1. k \in Ids
    BY <1>3, <1>6
  <2>2. match_counts'[k] = base(k) + Cardinality(of(k))
    BY <1>1, <1>2
  <2>3. IsFiniteSet(of(k)) /\ of(k) # {}
    <3>1. of(k) \in SUBSET Clusters
      BY <1>4, <1>6 DEF of
    <3>2. of(k) # {}
      BY DEF of
    <3> QED
      BY <3>1, <3>2, ClustersFinite
  <2>4. Cardinality(of(k)) \in Nat /\ Cardinality(of(k)) # 0
    BY <2>3, FS_CardinalityType, FS_EmptySet
  <2>5. base(k) \in Nat
    BY <1>3 DEF TypeOK, IsMap
  <2>6. match_counts'[k] =< MaxCount
    BY <1>1, <1>2
  <2> QED
    BY <2>1, <2>2, <2>4, <2>5, <2>6
<1>11. DOMAIN match_counts' = matched /\ IsMap(match_counts', Ids, 1 .. MaxCount)
  <2>1. match_counts' = [k \in matched |-> match_counts'[k]]
    BY <1>1, <1>2
  <2> QED
    BY <1>10, <2>1 DEF IsMap
<1>12. ukf_states' = [k \in matched |-> \E c \in hits : preId[c] = k]
  BY <1>1, <1>2
<1>13. DOMAIN ukf_states' = matched /\ \A k \in matched : ukf_states'[k] = TRUE
  BY <1>12
<1>14. IsMap(ukf_states', Ids, BOOLEAN)
  BY <1>10, <1>12 DEF IsMap
<1>15. \A k : of(k) = Hits(inherited, k)
  BY <1>6 DEF of, Hits
<1>16. matched = { inherited[c] : c \in DOMAIN inherited }
  BY <1>6
<1> HIDE DEF inherited, matched
<1>17. \A k \in DOMAIN match_counts \cap DOMAIN match_counts' :
         match_counts'[k] = match_counts[k] + Cardinality(Hits(inherited, k))
  BY <1>3, <1>10, <1>11, <1>15
<1>18. \A c, d \in DOMAIN inherited :
         inherited[c] = inherited[d] => c = d \/ inherited[c] \in JunkIds
  BY <1>6, <1>9
<1>19. Inherits(temp, inherited, via)
  BY <1>1, <1>7, <1>8, <1>11, <1>13, <1>14, <1>16, <1>17, <1>18 DEF Inherits
<1> QED
  BY <1>19

-----------------------------------------------------------------------------
(***************************************************************************)
(* Both kinds of frame publish with some inherited ids.  FrameFacts is all *)
(* the rest of the proof uses: what a frame does to ids and to the maps.   *)
(***************************************************************************)
Inherited(inherited) ==
  /\ DOMAIN inherited \subseteq DOMAIN prev_boxes'
  /\ \A c \in DOMAIN inherited :
       inherited[c] \in PrevIds /\ prev_boxes'[c].id = inherited[c]
  /\ \A c, d \in DOMAIN inherited :
       inherited[c] = inherited[d] => c = d \/ inherited[c] \in JunkIds

FreshIds(inherited) ==
  ~wrapped' =>
    /\ next_obstacle_id_ =< next_obstacle_id_'
    /\ \A c \in DOMAIN prev_boxes' \ DOMAIN inherited :
         /\ next_obstacle_id_ =< prev_boxes'[c].id
         /\ prev_boxes'[c].id < next_obstacle_id_'
    /\ \A c, d \in DOMAIN prev_boxes' \ DOMAIN inherited :
         c < d => prev_boxes'[c].id < prev_boxes'[d].id

Histories ==
  /\ DOMAIN bbox_size_history_' = DOMAIN bbox_size_history_ \cup IdsOf(prev_boxes')
  /\ \A k \in DOMAIN bbox_size_history_ :
              bbox_size_history_'[k] \in {bbox_size_history_[k], Lifted(bbox_size_history_[k])}
  /\ Remembered'

Filters(inherited) ==
  \/ /\ DOMAIN inherited = {}
     /\ ukf_states' = Idle(ukf_states)
     /\ UNCHANGED match_counts
  \/ /\ DOMAIN ukf_states' = { inherited[c] : c \in DOMAIN inherited }
     /\ DOMAIN match_counts' = DOMAIN ukf_states'
     /\ \A k \in DOMAIN ukf_states' : ukf_states'[k]
     /\ \A k \in DOMAIN match_counts \cap DOMAIN match_counts' :
          match_counts'[k] = match_counts[k] + Cardinality(Hits(inherited, k))

FrameFacts(inherited) ==
  /\ TypeOK'
  /\ wrapped => wrapped'
  /\ Inherited(inherited)
  /\ FreshIds(inherited)
  /\ Histories
  /\ Filters(inherited)

LEMMA UntrackedFrame ==
  ASSUME IInv, PublishUntracked
  PROVE  \E inherited : FrameFacts(inherited)
<1>1. PICK temp \in Detections : /\ Publish(temp, EmptyMap, EmptyMap)
                                 /\ ukf_states' = Idle(ukf_states)
                                 /\ UNCHANGED <<use_tracking, match_counts>>
  BY DEF PublishUntracked
<1>2. /\ DOMAIN EmptyMap = {}
      /\ IsMap(EmptyMap, DOMAIN temp, PrevIds)
      /\ EmptyMap \in [DOMAIN EmptyMap -> {"connected", "stray"}]
  BY DEF EmptyMap, IsMap
<1>3. TypeOK /\ Remembered /\ CounterAhead
  BY DEF IInv
<1> HIDE DEF EmptyMap
<1>4. /\ IsMap(prev_boxes', Clusters, Boxes)
      /\ DOMAIN prev_boxes' = DOMAIN temp
      /\ next_obstacle_id_' \in Ids
      /\ IsMap(bbox_size_history_', Ids, Heights)
      /\ wrapped' \in BOOLEAN
      /\ wrapped => wrapped'
      /\ Histories
      /\ FreshIds(EmptyMap)
  BY <1>1, <1>2, <1>3, PublishFacts DEF Histories, FreshIds, Fresh
<1>5. Inherited(EmptyMap)
  BY <1>2 DEF Inherited
<1>6. IsMap(ukf_states', Ids, BOOLEAN)
  BY <1>1, <1>3 DEF Idle, IsMap, TypeOK
<1>7. TypeOK'
  BY <1>1, <1>3, <1>4, <1>6 DEF TypeOK
<1>8. Filters(EmptyMap)
  BY <1>1, <1>2 DEF Filters
<1>9. FrameFacts(EmptyMap)
  BY <1>4, <1>5, <1>7, <1>8 DEF FrameFacts
<1> QED
  BY <1>9

LEMMA TrackedFrame ==
  ASSUME IInv, PublishTracked
  PROVE  \E inherited : FrameFacts(inherited)
<1>1. PICK temp \in Detections : \E inherited, via : Inherits(temp, inherited, via)
  BY TrackInherits DEF PublishTracked
<1>2. PICK inherited, via : Inherits(temp, inherited, via)
  BY <1>1
<1>3. TypeOK /\ Remembered /\ CounterAhead
  BY DEF IInv
<1>4. /\ IsMap(inherited, DOMAIN temp, PrevIds)
      /\ via \in [DOMAIN inherited -> {"connected", "stray"}]
      /\ Publish(temp, inherited, via)
  BY <1>2 DEF Inherits
<1>5. /\ IsMap(prev_boxes', Clusters, Boxes)
      /\ DOMAIN prev_boxes' = DOMAIN temp
      /\ next_obstacle_id_' \in Ids
      /\ IsMap(bbox_size_history_', Ids, Heights)
      /\ wrapped' \in BOOLEAN
      /\ wrapped => wrapped'
      /\ Histories
      /\ FreshIds(inherited)
      /\ \A c \in DOMAIN inherited : prev_boxes'[c].id = inherited[c]
  BY <1>3, <1>4, PublishFacts DEF Histories, FreshIds, Fresh
<1>6. Inherited(inherited)
  BY <1>2, <1>4, <1>5 DEF Inherited, Inherits, IsMap
<1>7. TypeOK'
  BY <1>2, <1>3, <1>5 DEF TypeOK, Inherits, PublishTracked
<1>8. Filters(inherited)
  BY <1>2 DEF Filters, Inherits
<1>9. FrameFacts(inherited)
  BY <1>5, <1>6, <1>7, <1>8 DEF FrameFacts
<1> QED
  BY <1>9

-----------------------------------------------------------------------------
LEMMA FrameCounterAhead ==
  ASSUME IInv, NEW inherited, FrameFacts(inherited)
  PROVE  CounterAhead'
<1> SUFFICES ASSUME ~wrapped',
                    NEW k \in DOMAIN bbox_size_history_' \cup DOMAIN ukf_states'
             PROVE  k < next_obstacle_id_'
  BY DEF CounterAhead
<1>1. /\ ~wrapped
      /\ next_obstacle_id_ \in Nat /\ next_obstacle_id_' \in Nat
      /\ next_obstacle_id_ =< next_obstacle_id_'
  BY DEF FrameFacts, FreshIds, IInv, TypeOK, Ids
<1>2. /\ DOMAIN bbox_size_history_ \in SUBSET Nat /\ DOMAIN ukf_states \in SUBSET Nat
      /\ PrevIds \in SUBSET DOMAIN bbox_size_history_
  BY DEF IInv, TypeOK, IsMap, Ids, Remembered, PrevIds, IdsOf
<1>3. \A j \in DOMAIN bbox_size_history_ \cup DOMAIN ukf_states : j < next_obstacle_id_'
  BY <1>1, <1>2 DEF IInv, CounterAhead
<1>4. CASE k \in IdsOf(prev_boxes')
  <2>1. PICK c \in DOMAIN prev_boxes' : k = prev_boxes'[c].id
    BY <1>4 DEF IdsOf
  <2>2. CASE c \in DOMAIN inherited
    BY <1>2, <1>3, <2>1, <2>2 DEF FrameFacts, Inherited
  <2>3. CASE c \notin DOMAIN inherited
    BY <2>1, <2>3 DEF FrameFacts, FreshIds
  <2> QED
    BY <2>2, <2>3
<1>5. CASE k \in DOMAIN bbox_size_history_
  BY <1>3, <1>5
<1>6. CASE k \in DOMAIN ukf_states'
  <2>1. CASE ukf_states' = Idle(ukf_states)
    BY <1>3, <1>6, <2>1 DEF Idle
  <2>2. CASE DOMAIN ukf_states' = { inherited[c] : c \in DOMAIN inherited }
    BY <1>2, <1>3, <1>6, <2>2 DEF FrameFacts, Inherited
  <2> QED
    BY <2>1, <2>2 DEF FrameFacts, Filters
<1> QED
  BY <1>4, <1>5, <1>6 DEF FrameFacts, Histories

\* An id that is not inherited is new: nothing in memory has it.
LEMMA FreshIsNew ==
  ASSUME IInv, NEW inherited, FrameFacts(inherited), ~wrapped',
         NEW c \in DOMAIN prev_boxes', c \notin DOMAIN inherited
  PROVE  /\ prev_boxes'[c].id \notin DOMAIN bbox_size_history_
         /\ prev_boxes'[c].id \notin DOMAIN ukf_states
         /\ prev_boxes'[c].id \notin PrevIds
<1>1. /\ ~wrapped /\ next_obstacle_id_ \in Nat
      /\ prev_boxes'[c].id \in Nat /\ next_obstacle_id_ =< prev_boxes'[c].id
  BY DEF FrameFacts, FreshIds, IInv, TypeOK, Ids, IsMap, Boxes
<1>2. /\ DOMAIN bbox_size_history_ \in SUBSET Nat /\ DOMAIN ukf_states \in SUBSET Nat
      /\ PrevIds \in SUBSET DOMAIN bbox_size_history_
  BY DEF IInv, TypeOK, IsMap, Ids, Remembered, PrevIds, IdsOf
<1>3. \A j \in DOMAIN bbox_size_history_ \cup DOMAIN ukf_states : j < next_obstacle_id_
  BY <1>1 DEF IInv, CounterAhead
<1> QED
  BY <1>1, <1>2, <1>3

LEMMA FrameDistinctIds ==
  ASSUME IInv, NEW inherited, FrameFacts(inherited)
  PROVE  DistinctIds'
<1> SUFFICES ASSUME ~wrapped', NEW c \in DOMAIN prev_boxes', NEW d \in DOMAIN prev_boxes',
                    prev_boxes'[c].id = prev_boxes'[d].id
             PROVE  c = d \/ prev_boxes'[c].id \in JunkIds
  BY DEF DistinctIds
<1>1. CASE c \in DOMAIN inherited /\ d \in DOMAIN inherited
  BY <1>1 DEF FrameFacts, Inherited
<1>2. CASE c \in DOMAIN inherited /\ d \notin DOMAIN inherited
  BY <1>2, FreshIsNew DEF FrameFacts, Inherited
<1>3. CASE c \notin DOMAIN inherited /\ d \in DOMAIN inherited
  BY <1>3, FreshIsNew DEF FrameFacts, Inherited
<1>4. CASE c \notin DOMAIN inherited /\ d \notin DOMAIN inherited
  <2>1. c \in Nat /\ d \in Nat /\ prev_boxes'[c].id \in Nat
    BY DEF FrameFacts, TypeOK, IsMap, Boxes, Clusters, Ids
  <2>2. ~(c < d) /\ ~(d < c)
    BY <1>4, <2>1 DEF FrameFacts, FreshIds
  <2> QED
    BY <2>1, <2>2
<1> QED
  BY <1>1, <1>2, <1>3, <1>4

LEMMA FrameFilterFollows ==
  ASSUME IInv, NEW inherited, FrameFacts(inherited)
  PROVE  FilterFollowsFrame'
<1> SUFFICES ASSUME ~wrapped', NEW k \in IdsOf(prev_boxes') \cap DOMAIN ukf_states'
             PROVE  ukf_states'[k]
  BY DEF FilterFollowsFrame, PrevIds, IdsOf
<1>1. CASE DOMAIN inherited = {} /\ ukf_states' = Idle(ukf_states)
  <2>1. k \in DOMAIN ukf_states
    BY <1>1 DEF Idle
  <2>2. PICK c \in DOMAIN prev_boxes' : k = prev_boxes'[c].id
    BY DEF IdsOf
  <2> QED
    BY <1>1, <2>1, <2>2, FreshIsNew
<1>2. CASE \A j \in DOMAIN ukf_states' : ukf_states'[j]
  BY <1>2, Zenon
<1> QED
  BY <1>1, <1>2 DEF FrameFacts, Filters

LEMMA FrameFiltersBounded ==
  ASSUME IInv, NEW inherited, FrameFacts(inherited)
  PROVE  FiltersBounded'
<1>1. CASE ukf_states' = Idle(ukf_states) /\ UNCHANGED match_counts
  <2>1. DOMAIN ukf_states' = DOMAIN ukf_states
    BY <1>1 DEF Idle
  <2> QED
    BY <1>1, <2>1 DEF IInv, FiltersBounded
<1>2. CASE /\ DOMAIN ukf_states' = { inherited[c] : c \in DOMAIN inherited }
           /\ DOMAIN match_counts' = DOMAIN ukf_states'
  <2> DEFINE hits == DOMAIN inherited
             matched == { inherited[c] : c \in hits }
  <2>1. hits \in SUBSET Clusters
    BY DEF FrameFacts, Inherited, TypeOK, IsMap
  <2>2. IsFiniteSet(hits) /\ Cardinality(hits) \in Nat /\ Cardinality(hits) =< MaxClusters
    BY <2>1, ClustersFinite
  <2>3. [c \in hits |-> inherited[c]] \in Surjection(hits, matched)
    BY DEF Surjection
  <2> HIDE DEF hits, matched
  <2>4. IsFiniteSet(matched) /\ Cardinality(matched) =< Cardinality(hits)
    BY <2>2, <2>3, FS_Surjection
  <2>5. Cardinality(matched) \in Nat
    BY <2>4, FS_CardinalityType
  <2>6. Cardinality(matched) =< MaxClusters
    BY <2>2, <2>4, <2>5, TrackerAssumption
  <2> QED
    BY <1>2, <2>6 DEF FiltersBounded, hits, matched
<1> QED
  BY <1>1, <1>2 DEF FrameFacts, Filters

LEMMA FrameIInv ==
  ASSUME IInv, NEW inherited, FrameFacts(inherited)
  PROVE  IInv'
BY FrameCounterAhead, FrameDistinctIds, FrameFilterFollows, FrameFiltersBounded
  DEF IInv, FrameFacts, Histories

-----------------------------------------------------------------------------
LEMMA InitIInv == Init => IInv
<1> SUFFICES ASSUME Init PROVE IInv
  OBVIOUS
<1> USE TrackerAssumption
<1>1. /\ DOMAIN prev_boxes = {} /\ DOMAIN ukf_states = {}
      /\ DOMAIN match_counts = {} /\ DOMAIN bbox_size_history_ = {}
  BY DEF Init, EmptyMap
<1>2. \A K, V : IsMap(EmptyMap, K, V)
  BY DEF IsMap, EmptyMap
<1>3. TypeOK
  <2>1. /\ prev_boxes = EmptyMap /\ ukf_states = EmptyMap
        /\ match_counts = EmptyMap /\ bbox_size_history_ = EmptyMap
    BY DEF Init
  <2>2. 0 \in Ids
    BY DEF Ids
  <2>3. next_obstacle_id_ \in Ids /\ use_tracking \in BOOLEAN /\ wrapped \in BOOLEAN
    BY <2>2 DEF Init
  <2> QED
    BY <1>2, <2>1, <2>3, Zenon DEF TypeOK
<1>4. Cardinality({}) = 0
  BY FS_EmptySet
<1> QED
  BY <1>1, <1>3, <1>4
    DEF IInv, Remembered, CounterAhead, DistinctIds, FilterFollowsFrame, FiltersBounded

\* The variables that the invariant is about, without use_tracking.
LEMMA KeepsIInv ==
  ASSUME IInv, use_tracking' \in BOOLEAN,
         UNCHANGED <<prev_boxes, next_obstacle_id_, ukf_states, match_counts,
                     bbox_size_history_, wrapped>>
  PROVE  IInv'
BY DEF IInv, TypeOK, Remembered, CounterAhead, DistinctIds, FilterFollowsFrame,
       FiltersBounded, PrevIds

THEOREM Invariance == Spec => []IInv
<1>1. IInv /\ [Next]_vars => IInv'
  <2> SUFFICES ASSUME IInv, [Next]_vars PROVE IInv'
    OBVIOUS
  <2>1. CASE PublishUntracked
    BY <2>1, UntrackedFrame, FrameIInv
  <2>2. CASE PublishTracked
    BY <2>2, TrackedFrame, FrameIInv
  <2>3. CASE ToggleTracking
    BY <2>3, KeepsIInv DEF ToggleTracking, IInv, TypeOK
  <2>4. CASE UNCHANGED vars
    BY <2>4, KeepsIInv DEF vars, IInv, TypeOK
  <2> QED
    BY <2>1, <2>2, <2>3, <2>4 DEF Next
<1> QED
  BY <1>1, InitIInv, PTL DEF Spec

\* Every value of every variable is one its type and the named bounds allow.
THEOREM TypeCorrect == Spec => []TypeOK
BY Invariance, PTL DEF IInv

(***************************************************************************)
(* Two boxes of a published frame have different ids until the id counter  *)
(* wraps at line 588, unless the id is one the read of pre_ids[-1] yields. *)
(***************************************************************************)
THEOREM IdsAreDistinct == Spec => []DistinctIds
BY Invariance, PTL DEF IInv

(***************************************************************************)
(* A filter that a coming frame can pick up was updated in this frame,     *)
(* although the early returns of obstacleTracking leave filters behind.    *)
(***************************************************************************)
THEOREM FiltersFollowFrames == Spec => []FilterFollowsFrame
BY Invariance, PTL DEF IInv

\* The tracker's maps agree and hold at most one frame's boxes.
THEOREM FiltersAreBounded == Spec => []FiltersBounded
BY Invariance, PTL DEF IInv

-----------------------------------------------------------------------------
\* Each step of the three action properties, from the invariant.
LEMMA StepIsFrame ==
  ASSUME IInv, [Next]_vars
  PROVE  \/ \E inherited : FrameFacts(inherited)
         \/ UNCHANGED <<prev_boxes, match_counts, bbox_size_history_>>
<1>1. CASE PublishUntracked
  BY <1>1, UntrackedFrame
<1>2. CASE PublishTracked
  BY <1>2, TrackedFrame
<1>3. CASE ToggleTracking
  BY <1>3 DEF ToggleTracking
<1>4. CASE UNCHANGED vars
  BY <1>4 DEF vars
<1> QED
  BY <1>1, <1>2, <1>3, <1>4 DEF Next

(***************************************************************************)
(* Until the counter wraps, no obstacle is published under the id of one   *)
(* that was lost earlier.                                                  *)
(***************************************************************************)
THEOREM LostIdsStayLost == Spec => IdsNeverReturn
<1>1. IInv /\ [Next]_vars =>
        [~wrapped' => \A c \in DOMAIN prev_boxes' :
           prev_boxes'[c].id \in DOMAIN bbox_size_history_ => prev_boxes'[c].id \in PrevIds]_vars
  <2> SUFFICES ASSUME IInv, [Next]_vars, ~wrapped', NEW c \in DOMAIN prev_boxes',
                      prev_boxes'[c].id \in DOMAIN bbox_size_history_
               PROVE  prev_boxes'[c].id \in PrevIds
    OBVIOUS
  <2>1. CASE UNCHANGED prev_boxes
    BY <2>1 DEF PrevIds, IdsOf
  <2>2. CASE \E inherited : FrameFacts(inherited)
    <3>1. PICK inherited : FrameFacts(inherited)
      BY <2>2
    <3>2. c \in DOMAIN inherited
      BY <3>1, FreshIsNew
    <3> QED
      BY <3>1, <3>2 DEF FrameFacts, Inherited
  <2> QED
    BY <2>1, <2>2, StepIsFrame
<1> QED
  BY <1>1, Invariance, PTL DEF Spec, IdsNeverReturn

\* As long as an obstacle keeps its id, it keeps its published height, but for
\* the lifting of a height below the floor.
THEOREM HeightsStay == Spec => HeightKept
<1>1. IInv /\ [Next]_vars =>
        [\A c \in DOMAIN prev_boxes, d \in DOMAIN prev_boxes' :
           prev_boxes[c].id = prev_boxes'[d].id =>
             prev_boxes'[d].z \in {prev_boxes[c].z, Lifted(prev_boxes[c].z)}]_vars
  <2> SUFFICES ASSUME IInv, [Next]_vars,
                      NEW c \in DOMAIN prev_boxes, NEW d \in DOMAIN prev_boxes',
                      prev_boxes[c].id = prev_boxes'[d].id
               PROVE  prev_boxes'[d].z \in {prev_boxes[c].z, Lifted(prev_boxes[c].z)}
    OBVIOUS
  <2>1. /\ prev_boxes[c].id \in DOMAIN bbox_size_history_
        /\ prev_boxes[c].z = bbox_size_history_[prev_boxes[c].id]
    BY DEF IInv, Remembered
  <2>2. CASE UNCHANGED <<prev_boxes, bbox_size_history_>>
    BY <2>1, <2>2 DEF IInv, Remembered
  <2>3. CASE \E inherited : FrameFacts(inherited)
    BY <2>1, <2>3 DEF FrameFacts, Histories, Remembered
  <2> QED
    BY <2>2, <2>3, StepIsFrame
<1> QED
  BY <1>1, Invariance, PTL DEF Spec, HeightKept

(***************************************************************************)
(* One frame gives one filter two measurements only through the read of    *)
(* pre_ids[-1].                                                            *)
(***************************************************************************)
THEOREM MeasuredOnce == Spec => OneMeasurementPerFrame
<1>1. IInv /\ [Next]_vars =>
        [\A k \in DOMAIN match_counts \cap DOMAIN match_counts' :
           match_counts'[k] =< match_counts[k] + 1 \/ k \in JunkIds]_vars
  <2> SUFFICES ASSUME IInv, [Next]_vars,
                      NEW k \in DOMAIN match_counts \cap DOMAIN match_counts', k \notin JunkIds
               PROVE  match_counts'[k] =< match_counts[k] + 1
    OBVIOUS
  <2>1. match_counts[k] \in Nat
    BY DEF IInv, TypeOK, IsMap
  <2>2. CASE UNCHANGED match_counts
    BY <2>1, <2>2
  <2>3. CASE \E inherited : FrameFacts(inherited)
    <3>1. PICK inherited : FrameFacts(inherited)
      BY <2>3
    <3> DEFINE hits == Hits(inherited, k)
    <3>2. CASE match_counts'[k] = match_counts[k] + Cardinality(hits)
      <4>1. \A c, d \in hits : c = d
        BY <3>1 DEF FrameFacts, Inherited, Hits
      <4>2. Cardinality(hits) \in Nat /\ Cardinality(hits) =< 1
        <5>1. CASE hits = {}
          BY <5>1, FS_EmptySet
        <5>2. ASSUME NEW c \in hits PROVE hits = {c}
          BY <4>1
        <5> HIDE DEF hits
        <5>3. ASSUME NEW c \in hits PROVE Cardinality(hits) = 1
          BY <5>2, FS_Singleton
        <5> QED
          BY <5>1, <5>3
      <4> QED
        BY <2>1, <3>2, <4>2
    <3> QED
      BY <2>2, <3>1, <3>2 DEF FrameFacts, Filters
  <2> QED
    BY <2>2, <2>3, StepIsFrame
<1> QED
  BY <1>1, Invariance, PTL DEF Spec, OneMeasurementPerFrame
=============================================================================
