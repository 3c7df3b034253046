----------------------------- MODULE PointLioProofs -----------------------------
(***************************************************************************)
(* The Point-LIO node for every cube that leaves room, every sensor timing *)
(* and every number of messages: the loops that pop imu_deque never find   *)
(* it empty, the filter's time stays between its two inputs, and moving    *)
(* the local map deletes what is in range only in slabs dropped before.    *)
(***************************************************************************)
EXTENDS PointLio, FiniteSetTheorems, SequenceTheorems, WellFoundedInduction, TLAPS

Measure    == [lidar : Scans, end : Int, imu : Nat]
ImuProcess == [need_init : BOOLEAN, n : Nat, first : BOOLEAN, aligned : BOOLEAN]

\* The map is a cube of the configured length once it exists, and there are no
\* points before the map is built.
MapInv ==
  /\ pos_lid \in Positions /\ LocalMap_Points \in Boxes /\ ikdtree \in SUBSET Positions
  /\ LocalMap_Points # NoBox =>
       \A i \in Axes : LocalMap_Points.max[i] - LocalMap_Points.min[i] = CubeLen
  /\ LocalMap_Points = NoBox => cub_needrm = {} /\ ~init_map
  /\ ~init_map => ikdtree = {}

\* Messages wait in the order of their stamps, the newest one is the last, and
\* when none waits the newest one is the filter's second input.
Queue(deque, newest, next) ==
  /\ deque \in Seq(Time) /\ newest \in Time \cup {-1} /\ next \in Time
  /\ \A i, j \in 1 .. Len(deque) : i < j => deque[i] < deque[j]
  /\ deque # <<>> => deque[Len(deque)] = newest /\ next =< deque[1]
  /\ deque = <<>> => next = newest \/ (newest = -1 /\ next = 0)

ImuInv == Queue(imu_deque, last_timestamp_imu, imu_next) /\ imu_last \in Time /\ imu_time_offset \in Nat

ScanEnd(s) == s.beg + s.last

\* The scan of a measure that waits for messages is the front one.
ScanInv ==
  /\ lidar_buffer \in Seq(Scans) /\ last_timestamp_lidar \in Time \cup {-1}
  /\ covered \in Int /\ late \in BOOLEAN /\ lidar_pushed \in BOOLEAN
  /\ meas \in Measure
  /\ lidar_pushed => /\ pc = "spin" /\ lidar_buffer # <<>> /\ meas.lidar = lidar_buffer[1]
                     /\ meas.end = ScanEnd(meas.lidar) /\ meas.lidar.last >= 0

\* From sync_packages on, the messages reach the end of the scan, and its
\* points lie within it. IMU_init is over before the map is begun.
PhaseInv ==
  /\ pc \in {"spin", "align", "segment", "points"}
  /\ init_map \in BOOLEAN /\ is_first_frame \in BOOLEAN
  /\ imu \in ImuProcess /\ (imu.need_init <=> imu.n =< MaxInit)
  /\ t_last \in Time /\ time_update_last \in Time /\ groups \in SUBSET Int
  /\ pc # "spin" => /\ meas.lidar.last >= 0 /\ meas.end = ScanEnd(meas.lidar)
                    /\ meas.end =< last_timestamp_imu /\ ~imu.need_init
  /\ imu.need_init \/ pc = "align" => ~init_map
  /\ pc = "points" => init_map /\ \A g \in groups : meas.lidar.beg =< g /\ g =< meas.end
  /\ ~init_map => groups = {} /\ is_first_frame

\* What no scan still to be handled begins before.
Frontier == IF is_first_frame THEN imu_last ELSE t_last

\* While no scan was accepted that begins before another's end.
OrderInv ==
  ~late =>
    /\ \A i \in 1 .. Len(lidar_buffer) : ScanEnd(lidar_buffer[i]) =< covered
    /\ \A i, j \in 1 .. Len(lidar_buffer) :
         i < j => ScanEnd(lidar_buffer[i]) =< lidar_buffer[j].beg
    /\ pc = "spin" =>
         /\ Frontier =< covered \/ Frontier = 0
         /\ \A i \in 1 .. Len(lidar_buffer) : Frontier =< lidar_buffer[i].beg
    /\ pc # "spin" =>
         /\ meas.end =< covered /\ Frontier =< meas.end
         /\ \A i \in 1 .. Len(lidar_buffer) : meas.end =< lidar_buffer[i].beg
    /\ pc = "segment" /\ init_map => Frontier =< meas.lidar.beg
    /\ \A g \in groups : pc = "points" => Frontier =< g
    /\ ~is_first_frame => imu_last =< t_last /\ t_last =< imu_next /\ time_update_last =< t_last

IInv == MapInv /\ ImuInv /\ ScanInv /\ PhaseInv /\ OrderInv

-----------------------------------------------------------------------------
(* The local map, as in FastLioProofs *)

LEMMA LengthTypes ==
  /\ CubeLen \in Nat /\ Edge \in Nat /\ DetRange \in Nat /\ MovDist \in Int
  /\ CubeLen \div 2 \in Int /\ CubeLen = CubeLen \div 2 + CubeLen \div 2
  /\ CubeLen - MovDist - Edge > DetRange
<1>1. (9 * (CubeLen - 2 * Edge)) \div 20 \in Int /\ Edge \div 3 \in Int
  BY LengthsAssumption
<1> QED
  BY <1>1, LengthsAssumption, RoomAssumption DEF MovDist

LEMMA DirectionType ==
  ASSUME NEW box, NEW pos, NEW i PROVE Direction(box, pos, i) \in {-1, 0, 1}
BY DEF Direction

\* A slab that a move leaves behind is out of the lidar's range: it ends MovDist
\* before the far wall, and the lidar is within Edge of the near one.
LEMMA SlabIsFar ==
  ASSUME NEW box \in Boxes, NEW pos \in Positions, NEW p \in Positions, NEW i \in Axes,
         box.max[i] - box.min[i] = CubeLen,
         Direction(box, pos, i) # 0, InBox(p, Slab(box, pos, i))
  PROVE  p[i] - pos[i] > DetRange \/ pos[i] - p[i] > DetRange
<1>1. /\ p[i] \in Int /\ pos[i] \in Int
      /\ box.min \in Positions /\ box.max \in Positions
      /\ box.min[i] \in Int /\ box.max[i] \in Int
      /\ box = [min |-> box.min, max |-> box.max]
  BY DEF Boxes, Positions
<1>2. CASE Direction(box, pos, i) = -1
  <2>1. p[i] >= box.max[i] - MovDist
    BY <1>1, <1>2, LengthTypes DEF InBox, Slab, Positions
  <2>2. pos[i] - box.min[i] =< Edge
    BY <1>1, <1>2, LengthTypes DEF Direction, IsNear
  <2> QED
    BY <1>1, <2>1, <2>2, LengthTypes
<1>3. CASE Direction(box, pos, i) = 1
  <2>1. p[i] < box.min[i] + MovDist
    BY <1>1, <1>3, LengthTypes DEF InBox, Slab, Positions
  <2>2. box.max[i] - pos[i] =< Edge
    BY <1>1, <1>3, LengthTypes DEF Direction, IsNear
  <2> QED
    BY <1>1, <2>1, <2>2, LengthTypes
<1> QED
  BY <1>2, <1>3, DirectionType

\* A moved cube is a cube of the same length.
LEMMA MovedIsCube ==
  ASSUME NEW box \in Boxes, NEW pos \in Positions
  PROVE  /\ MovedBox(box, pos) \in Boxes
         /\ \A i \in Axes : MovedBox(box, pos).max[i] - MovedBox(box, pos).min[i]
                              = box.max[i] - box.min[i]
<1> DEFINE shift(i) == Direction(box, pos, i) * MovDist
<1>1. ASSUME NEW i \in Axes PROVE shift(i) \in Int
  BY DirectionType, LengthTypes
<1>2. /\ box.min \in Positions /\ box.max \in Positions
      /\ \A i \in Axes : box.min[i] \in Int /\ box.max[i] \in Int
  BY DEF Boxes, Positions
<1> HIDE DEF shift
<1>3. MovedBox(box, pos) = [min |-> [i \in Axes |-> box.min[i] + shift(i)],
                            max |-> [i \in Axes |-> box.max[i] + shift(i)]]
  BY DEF MovedBox, shift
<1> QED
  BY <1>1, <1>2, <1>3 DEF Boxes, Positions

LEMMA CubeIsCube ==
  ASSUME NEW pos \in Positions
  PROVE  /\ Cube(pos) \in Boxes
         /\ \A i \in Axes : Cube(pos).max[i] - Cube(pos).min[i] = CubeLen
<1>1. \A i \in Axes : pos[i] \in Int
  BY DEF Positions
<1> QED
  BY <1>1, LengthTypes DEF Cube, Boxes, Positions

\* The cube after a move, and what the move deletes.
LEMMA FovSegmentFacts ==
  ASSUME MapInv, FovSegment
  PROVE  /\ LocalMap_Points' \in Boxes /\ LocalMap_Points' # NoBox
         /\ \A i \in Axes : LocalMap_Points'.max[i] - LocalMap_Points'.min[i] = CubeLen
         /\ \A p \in Deleted :
              \/ \E i \in Axes : p[i] - pos_lid[i] > DetRange \/ pos_lid[i] - p[i] > DetRange
              \/ \E b \in cub_needrm : InBox(p, b)
<1>1. LocalMap_Points \in Boxes /\ pos_lid \in Positions /\ ikdtree \in SUBSET Positions
  BY DEF MapInv
<1>2. ASSUME NEW box, \A i \in Axes : box.max[i] - box.min[i] = CubeLen
      PROVE  box # NoBox
  BY <1>2, LengthsAssumption DEF NoBox, Origin
<1>3. CASE LocalMap_Points = NoBox
  <2>1. LocalMap_Points' = Cube(pos_lid) /\ Deleted = {}
    BY <1>3 DEF FovSegment, Deleted
  <2> QED
    BY <1>1, <1>2, <2>1, CubeIsCube
<1>4. CASE LocalMap_Points # NoBox
  <2>1. \A i \in Axes : LocalMap_Points.max[i] - LocalMap_Points.min[i] = CubeLen
    BY <1>4 DEF MapInv
  <2>2. /\ LocalMap_Points' = MovedBox(LocalMap_Points, pos_lid)
        /\ cub_needrm' = cub_needrm \cup LeftBehind(LocalMap_Points, pos_lid)
    BY <1>4 DEF FovSegment
  <2>3. LocalMap_Points' \in Boxes /\ LocalMap_Points' # NoBox
        /\ \A i \in Axes : LocalMap_Points'.max[i] - LocalMap_Points'.min[i] = CubeLen
    BY <1>1, <1>2, <2>1, <2>2, MovedIsCube
  <2>4. ASSUME NEW p \in Deleted, \A b \in cub_needrm : ~InBox(p, b)
        PROVE  \E i \in Axes : p[i] - pos_lid[i] > DetRange \/ pos_lid[i] - p[i] > DetRange
    <3>1. p \in Positions /\ \E b \in cub_needrm' : InBox(p, b)
      BY <1>1 DEF Deleted
    <3>2. PICK b \in LeftBehind(LocalMap_Points, pos_lid) : InBox(p, b)
      BY <2>2, <2>4, <3>1
    <3>3. PICK i \in Axes : Direction(LocalMap_Points, pos_lid, i) # 0
                            /\ InBox(p, Slab(LocalMap_Points, pos_lid, i))
      BY <3>2 DEF LeftBehind
    <3> QED
      BY <1>1, <2>1, <3>1, <3>3, SlabIsFar
  <2> QED
    BY <2>3, <2>4
<1> QED
  BY <1>3, <1>4

LEMMA PositionsMoved ==
  ASSUME NEW pos \in Positions, NEW m \in Moves
  PROVE  [i \in Axes |-> pos[i] + m[i]] \in Positions
BY PointLioAssumption DEF Positions

LEMMA WorldPointsType ==
  ASSUME NEW pos \in Positions PROVE WorldPoints(pos) \in SUBSET Positions
BY PointLioAssumption DEF WorldPoints, Positions

\* What a step may delete from the map.
OnlyFarOrDropped ==
  \A p \in ikdtree \ ikdtree' :
    \/ \E i \in Axes : p[i] - pos_lid'[i] > DetRange \/ pos_lid'[i] - p[i] > DetRange
    \/ \E b \in cub_needrm : InBox(p, b)

\* The actions that leave the map alone.
Elsewhere ==
  \/ LidarCallback \/ ImuCallback \/ SyncLoses \/ SyncWaits \/ (SyncTakes /\ Process)
  \/ AlignPop \/ AlignDone \/ FirstPop \/ FirstDone \/ ImuPop \/ PointUpdate
  \/ UNCHANGED vars

LEMMA MapStep ==
  ASSUME MapInv, PhaseInv, [Next]_vars PROVE MapInv' /\ OnlyFarOrDropped
<1>1. CASE Elsewhere
  <2>1. UNCHANGED <<pos_lid, LocalMap_Points, cub_needrm, ikdtree, init_map>>
    BY <1>1 DEF Elsewhere, LidarCallback, ImuCallback, SyncLoses, SyncWaits, SyncTakes,
                AlignPop, AlignDone, FirstPop, FirstDone, ImuPop, PointUpdate, mapVars, vars
  <2> QED
    BY <2>1 DEF MapInv, OnlyFarOrDropped
<1>2. CASE SegmentInit
  <2>1. /\ ~init_map /\ FovSegment /\ pos_lid' = pos_lid
        /\ \E enough \in BOOLEAN :
             /\ init_map' = enough
             /\ ikdtree' = IF enough THEN WorldPoints(pos_lid) ELSE ikdtree
    BY <1>2 DEF SegmentInit
  <2>2. ikdtree = {} /\ pos_lid \in Positions
    BY <2>1 DEF MapInv
  <2>3. ikdtree' \in SUBSET Positions /\ (~init_map' => ikdtree' = {})
    BY <2>1, <2>2, WorldPointsType
  <2> QED
    BY <2>1, <2>2, <2>3, FovSegmentFacts DEF MapInv, OnlyFarOrDropped
<1>3. CASE SegmentScan
  <2>1. init_map /\ init_map' = init_map /\ FovSegment /\ ikdtree' = ikdtree \ Deleted
        /\ pos_lid' = pos_lid
    BY <1>3 DEF SegmentScan
  <2> QED
    BY <2>1, FovSegmentFacts DEF MapInv, OnlyFarOrDropped
<1>4. CASE ScanDone
  <2>1. PICK m \in Moves : pos_lid' = [i \in Axes |-> pos_lid[i] + m[i]]
    BY <1>4 DEF ScanDone
  <2>2. /\ ikdtree' = ikdtree \cup WorldPoints(pos_lid')
        /\ UNCHANGED <<LocalMap_Points, cub_needrm, init_map>>
    BY <1>4 DEF ScanDone
  <2>3. pos_lid' \in Positions
    BY <2>1, PositionsMoved DEF MapInv
  <2>4. WorldPoints(pos_lid') \in SUBSET Positions
    BY <2>3, WorldPointsType
  <2>5. init_map
    BY <1>4 DEF ScanDone, PhaseInv
  <2> QED
    BY <2>2, <2>3, <2>4, <2>5 DEF MapInv, OnlyFarOrDropped
<1> QED
  BY <1>1, <1>2, <1>3, <1>4 DEF Next, Elsewhere

-----------------------------------------------------------------------------
(* The IMU messages *)

LEMMA TimeType ==
  /\ Time \subseteq Nat /\ -1 \notin Time /\ 0 \in Time /\ MaxTime \in Nat /\ ScanTime \in Nat
  /\ NoScan \in Scans
BY PointLioAssumption DEF Time, Scans, NoScan

LEMMA Stamps ==
  ASSUME NEW deque \in Seq(Time)
  PROVE  /\ Len(deque) \in Nat /\ DOMAIN deque = 1 .. Len(deque)
         /\ \A i \in 1 .. Len(deque) : deque[i] \in Time /\ deque[i] \in Nat
<1>1. Len(deque) \in Nat /\ DOMAIN deque = 1 .. Len(deque)
      /\ \A i \in 1 .. Len(deque) : deque[i] \in Time
  OBVIOUS
<1> QED
  BY <1>1, TimeType

\* After n messages were popped the last of them is the filter's second input.
LEMMA QueuePopped ==
  ASSUME NEW deque, NEW newest, NEW next, Queue(deque, newest, next),
         NEW n \in 1 .. Len(deque), NEW rest \in Seq(Time), Len(rest) = Len(deque) - n,
         \A i \in 1 .. Len(rest) : rest[i] = deque[n + i]
  PROVE  Queue(rest, newest, deque[n])
<1>1. deque \in Seq(Time) /\ Len(deque) \in Nat /\ Len(rest) \in Nat /\ n \in Nat
      /\ deque # <<>> /\ newest \in Time \cup {-1}
      /\ deque[n] \in Time
      /\ deque[Len(deque)] = newest
  BY DEF Queue
<1>2. ASSUME NEW i \in 1 .. Len(rest), NEW j \in 1 .. Len(rest), i < j
      PROVE  rest[i] < rest[j]
  <2>1. n + i \in 1 .. Len(deque) /\ n + j \in 1 .. Len(deque) /\ n + i < n + j
    BY <1>1, <1>2
  <2>2. deque[n + i] < deque[n + j]
    BY <2>1 DEF Queue
  <2> QED
    BY <2>2
<1>3. ASSUME rest # <<>> PROVE rest[Len(rest)] = newest /\ deque[n] =< rest[1]
  <2>1. Len(rest) # 0
    BY <1>3
  <2>2. /\ Len(rest) \in 1 .. Len(rest) /\ 1 \in 1 .. Len(rest)
        /\ n + Len(rest) = Len(deque) /\ n + 1 \in 1 .. Len(deque) /\ n < n + 1
    BY <1>1, <2>1
  <2>3. deque[n] < deque[n + 1]
    BY <2>2 DEF Queue
  <2>4. rest[1] = deque[n + 1] /\ rest[Len(rest)] = deque[Len(deque)]
    BY <2>2
  <2>5. deque[n] \in Int /\ deque[n + 1] \in Int
    BY <1>1, <2>2, Stamps
  <2> QED
    BY <1>1, <2>3, <2>4, <2>5
<1>4. ASSUME rest = <<>> PROVE deque[n] = newest
  <2>1. n = Len(deque)
    BY <1>1, <1>4
  <2> QED
    BY <1>1, <2>1
<1> QED
  BY <1>1, <1>2, <1>3, <1>4 DEF Queue

\* The next message is not before the second input, and the newest not before it.
LEMMA QueueBounds ==
  ASSUME NEW deque, NEW newest, NEW next, Queue(deque, newest, next), newest # -1
  PROVE  next =< newest
<1>1. deque \in Seq(Time) /\ Len(deque) \in Nat /\ newest \in Nat /\ next \in Nat
  BY TimeType DEF Queue
<1>2. CASE deque = <<>>
  BY <1>1, <1>2 DEF Queue
<1>3. CASE deque # <<>>
  <2>1. Len(deque) # 0
    BY <1>1, <1>3
  <2>2. 1 \in 1 .. Len(deque) /\ Len(deque) \in 1 .. Len(deque)
    BY <1>1, <2>1
  <2>3. next =< deque[1] /\ deque[Len(deque)] = newest
    BY <1>3 DEF Queue
  <2>4. deque[1] \in Nat
    BY <1>1, <2>2, Stamps
  <2>5. CASE Len(deque) = 1
    <3>1. deque[Len(deque)] = deque[1]
      BY <2>5
    <3> QED
      BY <2>3, <3>1
  <2>6. CASE 1 < Len(deque)
    <3>1. deque[1] < deque[Len(deque)]
      BY <2>2, <2>6 DEF Queue
    <3> QED
      BY <1>1, <2>3, <2>4, <3>1
  <2>7. Len(deque) = 1 \/ 1 < Len(deque)
    <3> DEFINE l == Len(deque)
    <3>1. l \in Nat /\ l # 0
      BY <1>1, <2>1
    <3> HIDE DEF l
    <3>2. l = 1 \/ 1 < l
      BY <3>1
    <3> QED
      BY <3>2 DEF l
  <2> QED
    BY <2>5, <2>6, <2>7
<1> QED
  BY <1>2, <1>3

\* The messages not later than e are the first ones.
LEMMA SortedPrefix ==
  ASSUME NEW deque, NEW newest, NEW next, Queue(deque, newest, next), NEW e \in Int
  PROVE  LET n == Cardinality({i \in DOMAIN deque : deque[i] =< e}) IN
           n \in 0 .. Len(deque) /\ \A i \in 1 .. n : deque[i] =< e
<1> DEFINE S == {i \in DOMAIN deque : deque[i] =< e}
           n == Cardinality(S)
<1>1. /\ deque \in Seq(Time) /\ Len(deque) \in Nat /\ DOMAIN deque = 1 .. Len(deque)
      /\ \A i \in 1 .. Len(deque) : deque[i] \in Int
  <2>1. deque \in Seq(Time)
    BY DEF Queue
  <2> QED
    BY <2>1, Stamps
<1>2. ASSUME NEW k \in Nat
      PROVE  IsFiniteSet(1 .. k) /\ Cardinality(1 .. k) = k
  <2>1. /\ IsFiniteSet(1 .. k)
        /\ Cardinality(1 .. k) = IF 1 > k THEN 0 ELSE k - 1 + 1
    BY FS_Interval
  <2> QED
    BY <2>1
<1>3. n \in 0 .. Len(deque)
  BY <1>1, <1>2, FS_Subset, FS_CardinalityType
<1>4. ASSUME NEW i \in 1 .. n, ~(deque[i] =< e) PROVE FALSE
  <2>1. i \in 1 .. Len(deque) /\ i - 1 \in Nat /\ i =< n
    BY <1>1, <1>3
  <2>2. ASSUME NEW j \in S PROVE j \in 1 .. i - 1
    <3>1. j \in 1 .. Len(deque) /\ deque[j] =< e
      BY <1>1
    <3>2. i # j
      BY <1>4, <3>1
    <3>3. i < j => deque[i] < deque[j]
      BY <2>1, <3>1 DEF Queue
    <3>4. ~(i < j)
      BY <1>1, <1>4, <2>1, <3>1, <3>3
    <3> QED
      BY <2>1, <3>1, <3>2, <3>4
  <2>3. S \in SUBSET (1 .. i - 1)
    BY <2>2
  <2>4. n =< i - 1
    <3> HIDE DEF S
    <3>1. IsFiniteSet(1 .. i - 1) /\ Cardinality(1 .. i - 1) = i - 1
      BY <1>2, <2>1
    <3> QED
      BY <2>3, <3>1, FS_Subset
  <2> QED
    BY <1>3, <2>1, <2>4
<1> QED
  BY <1>3, <1>4

\* A popped message becomes the second input, the second the first.
LEMMA PopFacts ==
  ASSUME ImuInv, PopImu
  PROVE  /\ ImuInv' /\ imu_last' = imu_next /\ imu_next =< imu_next'
         /\ last_timestamp_imu' = last_timestamp_imu
<1>1. /\ imu_deque # <<>> /\ imu_last' = imu_next /\ imu_next' = Head(imu_deque)
      /\ imu_deque' = Tail(imu_deque)
      /\ UNCHANGED <<last_timestamp_imu, imu_time_offset>>
  BY DEF PopImu
<1>2. Queue(imu_deque, last_timestamp_imu, imu_next) /\ imu_deque \in Seq(Time)
      /\ imu_next \in Time
  BY DEF ImuInv, Queue
<1>3. /\ Len(imu_deque) \in Nat \ {0} /\ imu_deque' \in Seq(Time)
      /\ Len(imu_deque') = Len(imu_deque) - 1
      /\ \A i \in 1 .. Len(imu_deque') : imu_deque'[i] = imu_deque[1 + i]
      /\ imu_next' = imu_deque[1] /\ 1 \in 1 .. Len(imu_deque)
  BY <1>1, <1>2
<1>4. Queue(imu_deque', last_timestamp_imu, imu_deque[1])
  BY <1>2, <1>3, QueuePopped
<1>5. imu_next =< imu_deque[1]
  BY <1>1, <1>2 DEF Queue
<1> QED
  BY <1>1, <1>2, <1>3, <1>4, <1>5 DEF ImuInv

\* What sync_packages takes, and what it leaves.
LEMMA TakenFacts ==
  ASSUME ImuInv, SyncTakes, Pending.end \in Int
  PROVE  /\ ImuInv'
         /\ UNCHANGED last_timestamp_imu /\ imu_next =< imu_next'
         /\ TakenCount \in Nat
         /\ \/ UNCHANGED <<imu_last, imu_next>>
            \/ ~init_map /\ imu_last' =< Pending.end
<1> DEFINE n      == TakenCount
           recent == <<imu_last, imu_next>> \o SubSeq(imu_deque, 1, n)
<1>1. /\ IsServed /\ imu_last' = recent[Len(recent) - 1] /\ imu_next' = Last(recent)
      /\ imu_deque' = SubSeq(imu_deque, n + 1, Len(imu_deque))
      /\ UNCHANGED <<last_timestamp_imu, imu_time_offset>>
  BY DEF SyncTakes
<1>2. Queue(imu_deque, last_timestamp_imu, imu_next) /\ imu_deque \in Seq(Time)
      /\ Len(imu_deque) \in Nat /\ imu_last \in Time /\ imu_next \in Time
      /\ imu_time_offset \in Nat
  BY DEF ImuInv, Queue
<1>3. n \in 0 .. Len(imu_deque)
      /\ (n # 0 => ~init_map /\ \A i \in 1 .. n : imu_deque[i] =< Pending.end)
  <2>1. LET m == Cardinality({i \in DOMAIN imu_deque : imu_deque[i] =< Pending.end}) IN
          m \in 0 .. Len(imu_deque) /\ \A i \in 1 .. m : imu_deque[i] =< Pending.end
    BY <1>2, SortedPrefix
  <2> QED
    BY <1>2, <2>1 DEF TakenCount
<1> HIDE DEF n
<1>4. /\ SubSeq(imu_deque, 1, n) \in Seq(Time) /\ Len(SubSeq(imu_deque, 1, n)) = n
      /\ \A i \in 1 .. n : SubSeq(imu_deque, 1, n)[i] = imu_deque[i]
      /\ \A i \in 1 .. Len(imu_deque) : imu_deque[i] \in Time
  BY <1>2, <1>3
<1>5. /\ recent \in Seq(Time) /\ Len(recent) = n + 2 /\ recent[1] = imu_last /\ recent[2] = imu_next
      /\ \A i \in 1 .. n : recent[i + 2] = imu_deque[i]
  BY <1>2, <1>3, <1>4
<1> HIDE DEF recent
<1>6. imu_last' = recent[n + 1] /\ imu_next' = recent[n + 2]
  BY <1>1, <1>3, <1>5 DEF Last
<1>7. CASE n = 0
  <2>1. imu_last' = imu_last /\ imu_next' = imu_next
    BY <1>5, <1>6, <1>7
  <2>2. imu_deque' = imu_deque
    BY <1>1, <1>2, <1>7
  <2> QED
    <3>1. imu_next =< imu_next' /\ n \in Nat
      BY <1>2, <1>3, <2>1, TimeType
    <3>2. ImuInv'
      BY <1>1, <1>2, <2>1, <2>2 DEF ImuInv
    <3> QED
      BY <1>1, <2>1, <3>1, <3>2 DEF n
<1>8. CASE n # 0
  <2>1. n \in 1 .. Len(imu_deque) /\ n \in Nat /\ imu_deque # <<>> /\ 1 \in 1 .. n
    BY <1>2, <1>3, <1>8
  <2>2. imu_next' = imu_deque[n]
    BY <1>5, <1>6, <2>1
  <2>3. /\ imu_deque' \in Seq(Time) /\ Len(imu_deque') = Len(imu_deque) - n
        /\ \A i \in 1 .. Len(imu_deque') : imu_deque'[i] = imu_deque[n + i]
    BY <1>1, <1>2, <2>1
  <2>4. Queue(imu_deque', last_timestamp_imu, imu_deque[n])
    BY <1>2, <2>1, <2>3, QueuePopped
  <2>5. imu_next =< imu_deque[1] /\ imu_deque[1] =< Pending.end
        /\ imu_deque[1] \in Nat /\ imu_deque[n] \in Nat /\ imu_next \in Nat
    <3>1. imu_next =< imu_deque[1]
      BY <1>2, <2>1 DEF Queue
    <3>2. imu_deque[1] =< Pending.end
      BY <1>3, <1>8, <2>1
    <3>3. 1 \in 1 .. Len(imu_deque)
      BY <1>2, <2>1
    <3> QED
      BY <1>2, <2>1, <3>1, <3>2, <3>3, Stamps, TimeType
  <2>6. imu_next =< imu_deque[n]
    <3>1. 1 < n => imu_deque[1] < imu_deque[n]
      BY <1>2, <2>1 DEF Queue
    <3> QED
      BY <2>1, <2>5, <3>1
  <2>7. imu_last' \in Time /\ imu_last' =< Pending.end
    <3>1. CASE n = 1
      BY <1>2, <1>5, <1>6, <2>5, <3>1
    <3>2. CASE n > 1
      <4>1. n - 1 \in 1 .. n /\ (n - 1) + 2 = n + 1 /\ n - 1 \in 1 .. Len(imu_deque)
        BY <2>1, <3>2
      <4>2. imu_last' = imu_deque[n - 1]
        BY <1>5, <1>6, <4>1
      <4> QED
        BY <1>3, <1>4, <1>8, <4>1, <4>2
    <3> QED
      BY <2>1, <3>1, <3>2
  <2> QED
    BY <1>1, <1>2, <1>3, <1>8, <2>1, <2>2, <2>4, <2>6, <2>7 DEF ImuInv, n
<1> QED
  BY <1>7, <1>8

\* A message arrives; a clock that went back leaves it alone in the deque.
LEMMA ImuArrives ==
  ASSUME ImuInv, ImuCallback
  PROVE  ImuInv' /\ last_timestamp_imu =< last_timestamp_imu'
<1> DEFINE T == last_timestamp_imu
           off == imu_time_offset
<1>1. PICK raw \in Time \ {T - off} :
        LET back  == raw + off < T
            stamp == IF back THEN T + 1 ELSE raw + off
        IN  /\ stamp =< MaxTime
            /\ imu_deque' = Append(IF back THEN <<>> ELSE imu_deque, stamp)
            /\ last_timestamp_imu' = stamp
            /\ imu_time_offset' = stamp - raw
  BY DEF ImuCallback
<1>2. imu_last' = imu_last /\ imu_next' = imu_next
  BY DEF ImuCallback, timeVars
<1>3. /\ Queue(imu_deque, T, imu_next) /\ imu_deque \in Seq(Time) /\ Len(imu_deque) \in Nat
      /\ T \in Int /\ T >= -1 /\ off \in Nat /\ raw \in Nat /\ imu_next \in Nat /\ imu_last \in Time
      /\ raw # T - off /\ imu_next \in Time
      /\ (imu_deque # <<>> => imu_deque[Len(imu_deque)] = T)
      /\ (imu_deque = <<>> => imu_next = T \/ (T = -1 /\ imu_next = 0))
      /\ (imu_deque # <<>> => imu_next =< imu_deque[1])
  BY <1>1, TimeType DEF ImuInv, Queue
<1> HIDE DEF T, off
<1> DEFINE stamp == IF raw + off < T THEN T + 1 ELSE raw + off
<1>4. stamp \in Nat /\ stamp > T /\ stamp - raw \in Nat
  BY <1>3
<1>5. stamp \in Time
  BY <1>1, <1>4 DEF Time, T, off
<1>6. imu_next =< stamp
  <2>1. CASE T = -1
    <3>1. imu_deque = <<>>
      <4>1. ASSUME imu_deque # <<>> PROVE FALSE
        <5>1. Len(imu_deque) \in 1 .. Len(imu_deque)
          BY <1>3, <4>1
        <5> QED
          BY <1>3, <2>1, <4>1, <5>1, TimeType
      <4> QED
        BY <4>1
    <3> QED
      BY <1>3, <1>4, <2>1, <3>1
  <2>2. CASE T # -1
    BY <1>3, <1>4, <2>2, QueueBounds
  <2> QED
    BY <2>1, <2>2
<1>7. CASE raw + off < T
  <2>1. imu_deque' = <<stamp>>
    BY <1>1, <1>7 DEF T, off
  <2>2. imu_deque' \in Seq(Time) /\ Len(imu_deque') = 1 /\ imu_deque'[1] = stamp
    BY <1>5, <2>1
  <2>3. last_timestamp_imu' = stamp /\ imu_time_offset' = stamp - raw
    BY <1>1 DEF T, off
  <2> HIDE DEF stamp
  <2>4. Queue(imu_deque', stamp, imu_next)
    <3>1. \A i, j \in 1 .. Len(imu_deque') : ~(i < j)
      BY <2>2
    <3>2. imu_deque' # <<>>
      BY <2>1
    <3> QED
      BY <1>3, <1>5, <1>6, <2>2, <3>1, <3>2 DEF Queue
  <2> QED
    BY <1>2, <1>3, <1>4, <2>3, <2>4 DEF ImuInv, T
<1>8. CASE ~(raw + off < T)
  <2>1. imu_deque' = Append(imu_deque, stamp)
    BY <1>1, <1>8 DEF T, off
  <2>2. /\ imu_deque' \in Seq(Time) /\ Len(imu_deque') = Len(imu_deque) + 1
        /\ imu_deque'[Len(imu_deque) + 1] = stamp
        /\ \A i \in 1 .. Len(imu_deque) : imu_deque'[i] = imu_deque[i] /\ imu_deque[i] \in Int
    <3> HIDE DEF stamp
    <3>1. /\ imu_deque' \in Seq(Time) /\ Len(imu_deque') = Len(imu_deque) + 1
          /\ imu_deque'[Len(imu_deque) + 1] = stamp
          /\ \A i \in 1 .. Len(imu_deque) : imu_deque'[i] = imu_deque[i]
      BY <1>3, <1>5, <2>1
    <3> QED
      BY <1>3, <3>1, Stamps
  <2>3. last_timestamp_imu' = stamp /\ imu_time_offset' = stamp - raw
    BY <1>1 DEF T, off
  <2> HIDE DEF stamp
  <2>4. ASSUME NEW i \in 1 .. Len(imu_deque) PROVE imu_deque[i] =< T
    <3>1. i \in Nat /\ i =< Len(imu_deque) /\ imu_deque # <<>> /\ Len(imu_deque) \in 1 .. Len(imu_deque)
      BY <1>3
    <3>2. i < Len(imu_deque) => imu_deque[i] < imu_deque[Len(imu_deque)]
      BY <1>3, <3>1 DEF Queue
    <3> QED
      BY <1>3, <2>2, <3>1, <3>2
  <2>5. ASSUME NEW i \in 1 .. Len(imu_deque'), NEW j \in 1 .. Len(imu_deque'), i < j
        PROVE  imu_deque'[i] < imu_deque'[j]
    <3>1. i \in 1 .. Len(imu_deque) /\ (j \in 1 .. Len(imu_deque) \/ j = Len(imu_deque) + 1)
      BY <1>3, <2>2, <2>5
    <3>2. CASE j \in 1 .. Len(imu_deque)
      BY <1>3, <2>2, <2>5, <3>1, <3>2 DEF Queue
    <3>3. CASE j = Len(imu_deque) + 1
      BY <1>3, <1>4, <2>2, <2>4, <3>1, <3>3
    <3> QED
      BY <3>1, <3>2, <3>3
  <2>6. imu_next =< imu_deque'[1] /\ imu_deque'[Len(imu_deque')] = stamp
    <3>1. CASE imu_deque = <<>>
      BY <1>3, <1>6, <2>2, <3>1
    <3>2. CASE imu_deque # <<>>
      <4>1. 1 \in 1 .. Len(imu_deque)
        BY <1>3, <3>2
      <4> QED
        BY <1>3, <2>2, <3>2, <4>1
    <3> QED
      BY <3>1, <3>2
  <2>7. imu_deque' # <<>>
    BY <1>3, <2>2
  <2>8. Queue(imu_deque', stamp, imu_next)
    BY <1>3, <1>5, <2>2, <2>5, <2>6, <2>7 DEF Queue
  <2> QED
    BY <1>2, <1>3, <1>4, <2>3, <2>8 DEF ImuInv, T
<1> QED
  BY <1>7, <1>8

-----------------------------------------------------------------------------
(* The scans *)

LEMMA ScanFacts ==
  ASSUME NEW s \in Scans
  PROVE  /\ s.beg \in Nat /\ s.beg \in Time /\ s.last \in Int /\ s.last >= -1
         /\ s.last =< ScanTime /\ ScanEnd(s) \in Int /\ ScanEnd(s) = s.beg + s.last
<1>1. s.beg \in Time /\ s.last \in -1 .. ScanTime
  BY DEF Scans
<1>2. s.beg \in Nat /\ ScanTime \in Nat
  BY <1>1, TimeType
<1> QED
  BY <1>1, <1>2 DEF ScanEnd

LEMMA BufferFacts ==
  ASSUME NEW b \in Seq(Scans)
  PROVE  /\ Len(b) \in Nat
         /\ \A i \in 1 .. Len(b) : /\ b[i] \in Scans /\ b[i].beg \in Nat
                                   /\ ScanEnd(b[i]) \in Int
<1>1. Len(b) \in Nat /\ \A i \in 1 .. Len(b) : b[i] \in Scans
  OBVIOUS
<1> QED
  BY <1>1, ScanFacts

LEMMA FrontierType ==
  ASSUME ImuInv, PhaseInv
  PROVE  Frontier \in Nat /\ imu_last \in Nat /\ imu_next \in Nat /\ t_last \in Nat
         /\ time_update_last \in Nat
BY TimeType DEF ImuInv, Queue, PhaseInv, Frontier

\* The stamp a callback remembers is one of the clock's.
LEMMA RememberedType ==
  ASSUME NEW t \in Time PROVE Remembered(t) \in Time
<1>1. t \in Nat /\ t =< MaxTime /\ MaxTime \in Nat /\ Second \in Nat \ {0}
  BY TimeType, PointLioAssumption DEF Time
<1> DEFINE q == (t \div Second) * Second
<1>2. q \in Nat /\ q =< t
  <2> DEFINE d == t \div Second
  <2>1. d \in Nat /\ Second * d =< t
    BY <1>1
  <2> HIDE DEF d
  <2>2. d * Second = Second * d /\ d * Second \in Nat
    BY <1>1, <2>1
  <2> QED
    BY <1>1, <2>1, <2>2 DEF d
<1> HIDE DEF q
<1>3. q \in Time
  BY <1>1, <1>2 DEF Time
<1> QED
  BY <1>3 DEF Remembered, q

\* The measure that sync_packages looks at is of the front scan.
LEMMA PendingFacts ==
  ASSUME ScanInv, HasBoth
  PROVE  /\ Pending \in Measure /\ Pending.lidar = lidar_buffer[1]
         /\ Pending.end = ScanEnd(lidar_buffer[1]) /\ Pending.end \in Int
         /\ lidar_buffer[1] \in Scans /\ Len(lidar_buffer) \in Nat \ {0}
         /\ lidar_pushed => Pending.lidar.last >= 0
<1>1. /\ lidar_buffer \in Seq(Scans) /\ Len(lidar_buffer) \in Nat \ {0}
      /\ lidar_buffer[1] \in Scans /\ Head(lidar_buffer) = lidar_buffer[1]
  BY DEF ScanInv, HasBoth
<1>2. ScanEnd(lidar_buffer[1]) \in Int
      /\ ScanEnd(lidar_buffer[1]) = lidar_buffer[1].beg + lidar_buffer[1].last
  BY <1>1, ScanFacts
<1>3. meas \in Measure
  BY DEF ScanInv
<1>4. CASE lidar_pushed
  BY <1>1, <1>2, <1>3, <1>4 DEF Pending, ScanInv
<1>5. CASE ~lidar_pushed
  <2> DEFINE s == lidar_buffer[1]
             e == ScanEnd(lidar_buffer[1])
  <2>1. Pending = [meas EXCEPT !.lidar = s, !.end = e]
    BY <1>1, <1>2, <1>5 DEF Pending
  <2> HIDE DEF s, e
  <2>2. s \in Scans /\ e \in Int
    BY <1>1, <1>2 DEF s, e
  <2>3. Pending \in Measure /\ Pending.lidar = s /\ Pending.end = e
    BY <1>3, <2>1, <2>2 DEF Measure
  <2> QED
    BY <1>1, <1>2, <1>5, <2>3 DEF s, e
<1> QED
  BY <1>4, <1>5

\* Taking the front scan away.
LEMMA TailFacts ==
  ASSUME NEW b \in Seq(Scans), b # <<>>
  PROVE  /\ Tail(b) \in Seq(Scans) /\ Len(Tail(b)) \in Nat /\ Len(Tail(b)) = Len(b) - 1
         /\ \A i \in 1 .. Len(Tail(b)) :
              Tail(b)[i] = b[i + 1] /\ i + 1 \in 1 .. Len(b) /\ 1 < i + 1
         /\ 1 \in 1 .. Len(b)
<1>1. Len(b) \in Nat \ {0} /\ Tail(b) \in Seq(Scans) /\ Len(Tail(b)) = Len(b) - 1
  OBVIOUS
<1>2. \A i \in 1 .. Len(Tail(b)) : Tail(b)[i] = b[i + 1]
  OBVIOUS
<1> DEFINE l == Len(b)
           m == Len(Tail(b))
<1>3. l \in Nat \ {0} /\ m = l - 1
  BY <1>1
<1> HIDE DEF l, m
<1>4. m \in Nat /\ 1 \in 1 .. l /\ \A i \in 1 .. m : i + 1 \in 1 .. l /\ 1 < i + 1
  BY <1>3
<1> QED
  BY <1>1, <1>2, <1>4 DEF l, m

LEMMA ScanArrives ==
  ASSUME ImuInv, ScanInv, PhaseInv, OrderInv, LidarCallback
  PROVE  ScanInv' /\ OrderInv'
<1>1. PICK s \in Scans :
        IF IsLoopBack(s)
        THEN UNCHANGED <<lidar_buffer, last_timestamp_lidar, covered, late>>
        ELSE /\ lidar_buffer' = Append(lidar_buffer, s)
             /\ last_timestamp_lidar' = Remembered(s.beg)
             /\ late' = (late \/ s.beg < covered)
             /\ covered' = IF s.beg + s.last > covered THEN s.beg + s.last ELSE covered
  BY DEF LidarCallback
<1>2. /\ pc = "spin"
      /\ UNCHANGED <<meas, lidar_pushed, imu, imu_last, imu_next, is_first_frame, t_last,
                     time_update_last, init_map, groups, pc>>
  BY DEF LidarCallback, syncVars, timeVars
<1>3. Frontier' = Frontier
  BY <1>2 DEF Frontier
<1>4. CASE IsLoopBack(s)
  <2>1. UNCHANGED <<lidar_buffer, last_timestamp_lidar, covered, late>>
    BY <1>1, <1>4
  <2> QED
    BY <1>2, <1>3, <2>1 DEF ScanInv, OrderInv
<1>5. CASE ~IsLoopBack(s)
  <2>1. /\ lidar_buffer' = Append(lidar_buffer, s)
        /\ last_timestamp_lidar' = Remembered(s.beg)
        /\ late' = (late \/ s.beg < covered)
        /\ covered' = IF ScanEnd(s) > covered THEN ScanEnd(s) ELSE covered
    BY <1>1, <1>5 DEF ScanEnd
  <2>2. s.beg \in Nat /\ ScanEnd(s) \in Int /\ covered \in Int /\ last_timestamp_lidar' \in Time
    BY <2>1, ScanFacts, RememberedType DEF ScanInv
  <2>3. covered' \in Int /\ ScanEnd(s) =< covered' /\ covered =< covered'
    BY <2>1, <2>2
  <2>4. /\ lidar_buffer' \in Seq(Scans) /\ Len(lidar_buffer') = Len(lidar_buffer) + 1
        /\ Len(lidar_buffer) \in Nat /\ lidar_buffer' # <<>>
        /\ \A i \in 1 .. Len(lidar_buffer) : lidar_buffer'[i] = lidar_buffer[i]
        /\ lidar_buffer'[Len(lidar_buffer) + 1] = s
        /\ \A i \in 1 .. Len(lidar_buffer') :
             i \in 1 .. Len(lidar_buffer) \/ i = Len(lidar_buffer) + 1
    BY <2>1 DEF ScanInv
  <2>5. ScanInv'
    <3>1. ASSUME lidar_pushed PROVE meas.lidar = lidar_buffer'[1]
      <4>1. 1 \in 1 .. Len(lidar_buffer)
        BY <2>4, <3>1 DEF ScanInv
      <4> QED
        BY <2>4, <3>1, <4>1 DEF ScanInv
    <3>2. late' \in BOOLEAN
      BY <2>1 DEF ScanInv
    <3> QED
      BY <1>2, <2>2, <2>3, <2>4, <3>1, <3>2 DEF ScanInv
  <2>6. ASSUME ~late'
        PROVE  /\ \A i \in 1 .. Len(lidar_buffer') : ScanEnd(lidar_buffer'[i]) =< covered'
               /\ \A i, j \in 1 .. Len(lidar_buffer') :
                    i < j => ScanEnd(lidar_buffer'[i]) =< lidar_buffer'[j].beg
               /\ Frontier =< covered' \/ Frontier = 0
               /\ \A i \in 1 .. Len(lidar_buffer') : Frontier =< lidar_buffer'[i].beg
    <3>1. /\ ~late /\ covered =< s.beg
          /\ \A i \in 1 .. Len(lidar_buffer) :
               /\ ScanEnd(lidar_buffer[i]) =< covered
               /\ ScanEnd(lidar_buffer[i]) \in Int /\ Frontier =< lidar_buffer[i].beg
          /\ \A i, j \in 1 .. Len(lidar_buffer) :
               i < j => ScanEnd(lidar_buffer[i]) =< lidar_buffer[j].beg
          /\ Frontier =< covered \/ Frontier = 0
          /\ Frontier \in Nat
      <4>1. ~late /\ ~(s.beg < covered)
        BY <2>1, <2>6
      <4>2. \A i \in 1 .. Len(lidar_buffer) : ScanEnd(lidar_buffer[i]) \in Int
        BY BufferFacts DEF ScanInv
      <4>3. covered =< s.beg
        BY <2>2, <4>1
      <4>4. Frontier \in Nat
        BY FrontierType
      <4> QED
        BY <1>2, <4>1, <4>2, <4>3, <4>4 DEF OrderInv
    <3>2. ASSUME NEW i \in 1 .. Len(lidar_buffer')
          PROVE  ScanEnd(lidar_buffer'[i]) =< covered' /\ Frontier =< lidar_buffer'[i].beg
      BY <2>2, <2>3, <2>4, <3>1
    <3>3. ASSUME NEW i \in 1 .. Len(lidar_buffer'), NEW j \in 1 .. Len(lidar_buffer'), i < j
          PROVE  ScanEnd(lidar_buffer'[i]) =< lidar_buffer'[j].beg
      <4>1. i \in 1 .. Len(lidar_buffer)
        BY <2>4, <3>3
      <4>2. CASE j \in 1 .. Len(lidar_buffer)
        BY <2>4, <3>1, <3>3, <4>1, <4>2
      <4>3. CASE j = Len(lidar_buffer) + 1
        <5>1. ScanEnd(lidar_buffer[i]) =< s.beg
          BY <2>2, <3>1, <4>1
        <5> QED
          BY <2>4, <4>1, <4>3, <5>1
      <4> QED
        BY <2>4, <4>2, <4>3
    <3>4. Frontier =< covered' \/ Frontier = 0
      BY <2>2, <2>3, <3>1
    <3> QED
      BY <3>2, <3>3, <3>4
  <2>7. OrderInv'
    <3>1. ~is_first_frame /\ ~late' =>
            imu_last =< t_last /\ t_last =< imu_next /\ time_update_last =< t_last
      BY <2>1 DEF OrderInv
    <3> QED
      BY <1>2, <1>3, <2>6, <3>1 DEF OrderInv
  <2> QED
    BY <2>5, <2>7
<1> QED
  BY <1>4, <1>5

\* A scan without points is dropped, or sync_packages waits with the front one.
LEMMA SyncKeeps ==
  ASSUME ImuInv, ScanInv, PhaseInv, OrderInv, SyncLoses \/ SyncWaits
  PROVE  ImuInv' /\ ScanInv' /\ PhaseInv' /\ OrderInv'
<1>1. /\ pc = "spin" /\ HasBoth
      /\ UNCHANGED <<last_timestamp_lidar, covered, late, imu, imu_deque, last_timestamp_imu,
                     imu_time_offset, imu_last, imu_next, is_first_frame, t_last,
                     time_update_last, init_map, groups, pc>>
  BY DEF SyncLoses, SyncWaits, lidarVars, imuVars, timeVars
<1>2. ImuInv'
  BY <1>1 DEF ImuInv
<1>3. PhaseInv'
  BY <1>1 DEF PhaseInv
<1>4. Frontier' = Frontier
  BY <1>1 DEF Frontier
<1>5. CASE SyncLoses
  <2> DEFINE s == lidar_buffer[1]
  <2>1. /\ Pending.lidar.last = -1 /\ meas' = [meas EXCEPT !.lidar = Head(lidar_buffer)]
        /\ lidar_buffer' = Tail(lidar_buffer) /\ lidar_pushed' = lidar_pushed
    BY <1>5 DEF SyncLoses
  <2>2. ~lidar_pushed
    BY <1>1, <2>1, PendingFacts
  <2>3. s \in Scans /\ Head(lidar_buffer) = s /\ lidar_buffer \in Seq(Scans) /\ lidar_buffer # <<>>
    BY <1>1, PendingFacts DEF ScanInv, HasBoth
  <2>4. meas' \in Measure
    <3> HIDE DEF s
    <3>1. meas' = [meas EXCEPT !.lidar = s] /\ meas \in Measure
      BY <2>1, <2>3 DEF ScanInv
    <3> QED
      BY <2>3, <3>1 DEF Measure
  <2>5. /\ lidar_buffer' \in Seq(Scans) /\ Len(lidar_buffer') \in Nat
        /\ \A i \in 1 .. Len(lidar_buffer') :
             lidar_buffer'[i] = lidar_buffer[i + 1] /\ i + 1 \in 1 .. Len(lidar_buffer)
    BY <2>1, <2>3, TailFacts
  <2>6. ScanInv'
    BY <1>1, <2>1, <2>2, <2>4, <2>5 DEF ScanInv
  <2>7. \A i, j \in 1 .. Len(lidar_buffer') : i < j => i + 1 < j + 1
    BY <2>5
  <2>8. OrderInv'
    BY <1>1, <1>4, <2>5, <2>7 DEF OrderInv
  <2> QED
    BY <1>2, <1>3, <2>6, <2>8
<1>6. CASE SyncWaits
  <2>1. /\ Pending.lidar.last >= 0 /\ meas' = Pending /\ lidar_pushed' = TRUE
        /\ lidar_buffer' = lidar_buffer
    BY <1>6 DEF SyncWaits, lidarVars
  <2>2. ScanInv'
    BY <1>1, <2>1, PendingFacts DEF ScanInv, HasBoth
  <2>3. OrderInv'
    BY <1>1, <1>4, <2>1 DEF OrderInv
  <2> QED
    BY <1>2, <1>3, <2>2, <2>3
<1> QED
  BY <1>5, <1>6

\* ImuProcess: where main() goes on, and that IMU_init is over then.
LEMMA ProcessFacts ==
  ASSUME PhaseInv, Process, meas'.imu \in Nat
  PROVE  /\ imu' \in ImuProcess /\ (imu'.need_init <=> imu'.n =< MaxInit)
         /\ pc' \in {"spin", "align", "segment"}
         /\ pc' # "spin" => ~imu'.need_init
         /\ imu'.need_init \/ pc' = "align" => imu.need_init
<1>1. imu \in ImuProcess /\ (imu.need_init <=> imu.n =< MaxInit)
  BY DEF PhaseInv
<1>2. CASE ProcessNothing
  BY <1>1, <1>2 DEF ProcessNothing
<1>3. CASE ProcessInit
  <2> DEFINE n == (IF imu.first THEN 1 ELSE imu.n) + meas'.imu
             b == n =< MaxInit
  <2>1. /\ imu.need_init
        /\ imu' = [imu EXCEPT !.first = FALSE, !.n = n, !.need_init = b]
        /\ pc' = IF b THEN "spin" ELSE "align"
    BY <1>3 DEF ProcessInit
  <2>2. n \in Nat /\ b \in BOOLEAN
    <3>1. imu.n \in Nat
      BY <1>1 DEF ImuProcess
    <3> QED
      BY <3>1
  <2>3. imu'.need_init = b /\ imu'.n = n /\ imu' \in ImuProcess
    <3> HIDE DEF n, b
    <3> QED
      BY <1>1, <2>1, <2>2 DEF ImuProcess
  <2> QED
    BY <2>1, <2>3
<1>4. CASE ProcessScan
  <2>1. ~imu.need_init /\ imu' = [imu EXCEPT !.aligned = TRUE] /\ pc' = "segment"
    BY <1>4 DEF ProcessScan
  <2>2. imu' \in ImuProcess /\ imu'.need_init = imu.need_init /\ imu'.n = imu.n
    BY <1>1, <2>1 DEF ImuProcess
  <2> QED
    BY <1>1, <2>1, <2>2
<1> QED
  BY <1>2, <1>3, <1>4 DEF Process

LEMMA SyncTakesInv ==
  ASSUME ImuInv, ScanInv, PhaseInv, OrderInv, SyncTakes, Process
  PROVE  ImuInv' /\ ScanInv' /\ PhaseInv' /\ OrderInv'
<1> DEFINE s == lidar_buffer[1]
           e == ScanEnd(s)
<1>1. /\ pc = "spin" /\ HasBoth /\ Pending.lidar.last >= 0 /\ last_timestamp_imu >= Pending.end
      /\ lidar_buffer' = Tail(lidar_buffer) /\ lidar_pushed' = FALSE
      /\ meas' = [Pending EXCEPT !.imu = IF imu.need_init THEN @ + TakenCount ELSE @]
      /\ UNCHANGED <<last_timestamp_lidar, covered, late, last_timestamp_imu, is_first_frame,
                     t_last, time_update_last, init_map, groups>>
  BY DEF SyncTakes, IsServed
<1>2. /\ Pending \in Measure /\ Pending.lidar = s /\ Pending.end = e /\ e \in Int
      /\ s \in Scans /\ lidar_buffer # <<>> /\ lidar_buffer \in Seq(Scans)
  BY <1>1, PendingFacts DEF HasBoth, ScanInv
<1>3. /\ ImuInv' /\ imu_next =< imu_next' /\ TakenCount \in Nat
      /\ \/ UNCHANGED <<imu_last, imu_next>>
         \/ ~init_map /\ imu_last' =< e
  <2>1. Pending.end \in Int /\ Pending.end = e
    BY <1>2
  <2> HIDE DEF e
  <2> QED
    BY <2>1, TakenFacts
<1>4. /\ s.beg \in Nat /\ e = s.beg + s.last /\ s.last >= 0 /\ s.last \in Int /\ s.beg =< e
  BY <1>1, <1>2, ScanFacts
<1> HIDE DEF s, e
<1>5. meas' \in Measure /\ meas'.lidar = s /\ meas'.end = e /\ meas'.imu \in Nat
  <2> DEFINE k == IF imu.need_init THEN Pending.imu + TakenCount ELSE Pending.imu
  <2>1. k \in Nat /\ meas' = [Pending EXCEPT !.imu = k]
    BY <1>1, <1>2, <1>3 DEF Measure
  <2> HIDE DEF k
  <2> QED
    BY <1>2, <2>1 DEF Measure
<1>6. /\ lidar_buffer' \in Seq(Scans) /\ Len(lidar_buffer') \in Nat
      /\ \A i \in 1 .. Len(lidar_buffer') :
           lidar_buffer'[i] = lidar_buffer[i + 1] /\ i + 1 \in 1 .. Len(lidar_buffer) /\ 1 < i + 1
      /\ 1 \in 1 .. Len(lidar_buffer)
  BY <1>1, <1>2, TailFacts
<1>7. ScanInv'
  BY <1>1, <1>5, <1>6 DEF ScanInv
<1>8. PhaseInv'
  <2>1. /\ imu' \in ImuProcess /\ (imu'.need_init <=> imu'.n =< MaxInit)
        /\ pc' \in {"spin", "align", "segment"}
        /\ pc' # "spin" => ~imu'.need_init
        /\ imu'.need_init \/ pc' = "align" => imu.need_init
    BY <1>5, ProcessFacts
  <2>2. e =< last_timestamp_imu
    <3>1. last_timestamp_imu \in Int
      BY TimeType DEF ImuInv, Queue
    <3> QED
      BY <1>1, <1>2, <3>1
  <2>3. meas'.lidar.last >= 0 /\ meas'.end = ScanEnd(meas'.lidar)
    BY <1>4, <1>5 DEF e
  <2> QED
    BY <1>1, <1>5, <2>1, <2>2, <2>3 DEF PhaseInv
<1>9. OrderInv'
  <2> SUFFICES ASSUME ~late
               PROVE  /\ \A i \in 1 .. Len(lidar_buffer') : ScanEnd(lidar_buffer'[i]) =< covered
                      /\ \A i, j \in 1 .. Len(lidar_buffer') :
                           i < j => ScanEnd(lidar_buffer'[i]) =< lidar_buffer'[j].beg
                      /\ e =< covered /\ Frontier' =< e
                      /\ Frontier' =< covered
                      /\ \A i \in 1 .. Len(lidar_buffer') : e =< lidar_buffer'[i].beg
                      /\ \A i \in 1 .. Len(lidar_buffer') : Frontier' =< lidar_buffer'[i].beg
                      /\ init_map => Frontier' =< s.beg
                      /\ pc' # "points"
                      /\ ~is_first_frame => imu_last' =< t_last /\ t_last =< imu_next'
                                            /\ time_update_last =< t_last
    BY <1>1, <1>5 DEF OrderInv
  <2>1. /\ \A i \in 1 .. Len(lidar_buffer) : ScanEnd(lidar_buffer[i]) =< covered
        /\ \A i, j \in 1 .. Len(lidar_buffer) :
             i < j => ScanEnd(lidar_buffer[i]) =< lidar_buffer[j].beg
        /\ \A i \in 1 .. Len(lidar_buffer) : Frontier =< lidar_buffer[i].beg
        /\ ~is_first_frame => imu_last =< t_last /\ t_last =< imu_next /\ time_update_last =< t_last
    BY <1>1 DEF OrderInv
  <2>2. e =< covered /\ \A i \in 1 .. Len(lidar_buffer') : e =< lidar_buffer'[i].beg
    BY <1>6, <2>1 DEF e, s
  <2>3. \A i, j \in 1 .. Len(lidar_buffer') : i < j => i + 1 < j + 1
    BY <1>6
  <2>4. Frontier =< s.beg
    BY <1>6, <2>1 DEF s
  <2>5. Frontier \in Nat /\ Frontier' \in Nat
    BY <1>3, <1>8, FrontierType, TimeType DEF ImuInv, Queue, PhaseInv, Frontier
  <2>6. Frontier' =< e /\ (init_map => Frontier' =< s.beg)
    <3>1. CASE Frontier' = Frontier
      BY <1>2, <1>4, <2>4, <2>5, <3>1
    <3>2. CASE Frontier' # Frontier
      <4>1. is_first_frame /\ Frontier' = imu_last' /\ Frontier = imu_last
        BY <1>1, <3>2 DEF Frontier
      <4> QED
        BY <1>3, <3>2, <4>1
    <3> QED
      BY <3>1, <3>2
  <2>7. ~is_first_frame => imu_last' = imu_last /\ imu_next' = imu_next
    BY <1>3 DEF PhaseInv
  <2>8. \A i \in 1 .. Len(lidar_buffer') : lidar_buffer'[i].beg \in Nat
    BY <1>6, BufferFacts
  <2>9. Frontier' =< covered /\ \A i \in 1 .. Len(lidar_buffer') : Frontier' =< lidar_buffer'[i].beg
    BY <1>2, <2>2, <2>5, <2>6, <2>8 DEF ScanInv
  <2>10. pc' # "points"
    BY <1>5, ProcessFacts
  <2> QED
    BY <1>6, <2>1, <2>2, <2>3, <2>6, <2>7, <2>9, <2>10
<1> QED
  BY <1>3, <1>7, <1>8, <1>9

-----------------------------------------------------------------------------
(* The loops of main() *)

\* Handling a scan leaves the buffers alone.
LEMMA WorkingFacts ==
  ASSUME ScanInv, PhaseInv, OrderInv, pc # "spin", Working
  PROVE  /\ ScanInv'
         /\ UNCHANGED <<lidar_buffer, covered, late, meas, imu>>
         /\ meas.lidar.beg \in Nat /\ meas.end \in Nat /\ meas.lidar.beg =< meas.end
         /\ meas.lidar.last \in Nat /\ meas.end = meas.lidar.beg + meas.lidar.last
         /\ ~late => /\ meas.end =< covered /\ Frontier =< meas.end
                     /\ \A i \in 1 .. Len(lidar_buffer) :
                          meas.end =< lidar_buffer[i].beg /\ lidar_buffer[i].beg \in Nat
<1>1. UNCHANGED <<lidar_buffer, last_timestamp_lidar, covered, late, meas, lidar_pushed, imu>>
  BY DEF Working, lidarVars, syncVars
<1>2. ScanInv'
  BY <1>1 DEF ScanInv
<1>3. meas.lidar \in Scans /\ meas.lidar.last >= 0 /\ meas.end = ScanEnd(meas.lidar)
  BY DEF ScanInv, Measure, PhaseInv
<1>4. /\ meas.lidar.beg \in Nat /\ meas.lidar.last \in Nat
      /\ meas.end = meas.lidar.beg + meas.lidar.last
  BY <1>3, ScanFacts
<1>5. \A i \in 1 .. Len(lidar_buffer) : lidar_buffer[i].beg \in Nat
  BY BufferFacts DEF ScanInv
<1> QED
  BY <1>1, <1>2, <1>4, <1>5 DEF OrderInv

\* A set of naturals that is not empty has a least element.
LEMMA LeastNatural ==
  ASSUME NEW S \in SUBSET Nat, S # {}
  PROVE  \E x \in S : \A y \in S : x =< y
<1> DEFINE R == { ss \in Nat \X Nat : ss[1] < ss[2] }
<1>1. IsWellFoundedOn(R, Nat)
  BY NatLessThanWellFounded DEF OpToRel
<1> HIDE DEF R
<1>2. PICK x \in S : \A y \in S : ~(<<y, x>> \in R)
  BY <1>1, WFMin
<1>3. ASSUME NEW y \in S PROVE x =< y
  <2>1. y < x => <<y, x>> \in R
    BY DEF R
  <2> QED
    BY <1>2, <2>1
<1> QED
  BY <1>3

\* The first point left is in the scan, and the messages reach it.
LEMMA CurrentFacts ==
  ASSUME ImuInv, ScanInv, PhaseInv, AtPoint
  PROVE  /\ time_current \in groups /\ \A g \in groups : time_current =< g /\ g \in Nat
         /\ time_current \in Nat /\ time_current =< meas.end
         /\ time_current =< last_timestamp_imu /\ time_current \in Time
         /\ last_timestamp_imu # -1 /\ init_map
<1>1. /\ pc = "points" /\ groups # {} /\ groups \in SUBSET Int /\ init_map
      /\ \A g \in groups : meas.lidar.beg =< g /\ g =< meas.end
      /\ meas.end =< last_timestamp_imu /\ meas.end = ScanEnd(meas.lidar)
  BY DEF AtPoint, PhaseInv
<1>2. meas.lidar.beg \in Nat /\ meas.end \in Int
  BY <1>1, ScanFacts DEF ScanInv, Measure
<1>3. groups \in SUBSET Nat
  BY <1>1, <1>2
<1>4. \E t \in groups : \A u \in groups : t =< u
  BY <1>1, <1>3, LeastNatural
<1>5. time_current \in groups /\ \A g \in groups : time_current =< g
  BY <1>4 DEF time_current
<1>6. last_timestamp_imu \in Int /\ last_timestamp_imu \in Time \cup {-1}
  BY TimeType DEF ImuInv, Queue
<1> DEFINE tc == time_current
           T  == last_timestamp_imu
           e  == meas.end
<1>7. tc \in Nat /\ tc =< e /\ e =< T /\ e \in Int /\ T \in Int /\ T \in Time \cup {-1}
  BY <1>1, <1>2, <1>3, <1>5, <1>6
<1> HIDE DEF tc, T, e
<1>8. tc =< T /\ T # -1 /\ T \in Time
  BY <1>7
<1>9. tc \in Time
  BY <1>7, <1>8, TimeType DEF Time
<1> QED
  BY <1>1, <1>3, <1>5, <1>7, <1>8, <1>9 DEF tc, T, e

LEMMA AlignInv ==
  ASSUME ImuInv, ScanInv, PhaseInv, OrderInv, AlignPop \/ AlignDone
  PROVE  ImuInv' /\ ScanInv' /\ PhaseInv' /\ OrderInv'
<1>1. /\ pc = "align" /\ Working
      /\ UNCHANGED <<is_first_frame, t_last, time_update_last, init_map, groups>>
  BY DEF AlignPop, AlignDone, Behind, timeVars
<1>2. ~init_map /\ is_first_frame /\ groups = {}
  BY <1>1 DEF PhaseInv
<1>3. /\ ScanInv'
      /\ UNCHANGED <<lidar_buffer, covered, late, meas, imu>>
      /\ meas.lidar.beg \in Nat /\ meas.end \in Nat /\ meas.lidar.beg =< meas.end
      /\ ~late => meas.end =< covered /\ Frontier =< meas.end
  BY <1>1, WorkingFacts
<1>4. CASE AlignPop
  <2>1. Behind /\ PopImu /\ pc' = pc
    BY <1>4 DEF AlignPop
  <2>2. ImuInv' /\ imu_last' = imu_next /\ last_timestamp_imu' = last_timestamp_imu
    BY <2>1, PopFacts
  <2>3. Frontier' = imu_next /\ imu_next =< meas.end
    <3>1. imu_next \in Nat /\ meas.lidar.beg > imu_next
      BY <2>1, FrontierType DEF Behind
    <3> QED
      BY <1>1, <1>2, <1>3, <2>2, <3>1 DEF Frontier
  <2>4. PhaseInv'
    BY <1>1, <1>2, <1>3, <2>1, <2>2 DEF PhaseInv
  <2>5. OrderInv'
    BY <1>1, <1>2, <1>3, <2>1, <2>3 DEF OrderInv
  <2> QED
    BY <1>3, <2>2, <2>4, <2>5
<1>5. CASE AlignDone
  <2>1. pc' = "segment" /\ UNCHANGED <<imu_deque, last_timestamp_imu, imu_time_offset, imu_last, imu_next>>
    BY <1>5 DEF AlignDone, imuVars, timeVars
  <2>2. Frontier' = Frontier
    BY <1>1, <2>1 DEF Frontier
  <2>3. ImuInv'
    BY <2>1 DEF ImuInv
  <2>4. PhaseInv'
    BY <1>1, <1>2, <1>3, <2>1 DEF PhaseInv
  <2>5. OrderInv'
    BY <1>1, <1>2, <1>3, <2>1, <2>2 DEF OrderInv
  <2> QED
    BY <1>3, <2>3, <2>4, <2>5
<1> QED
  BY <1>4, <1>5

LEMMA SegmentInv ==
  ASSUME ImuInv, ScanInv, PhaseInv, OrderInv, SegmentInit \/ SegmentScan
  PROVE  ImuInv' /\ ScanInv' /\ PhaseInv' /\ OrderInv'
<1>1. /\ pc = "segment" /\ Working
      /\ UNCHANGED <<imu_deque, last_timestamp_imu, imu_time_offset, imu_last, imu_next,
                     is_first_frame, t_last, time_update_last>>
  BY DEF SegmentInit, SegmentScan, imuVars, timeVars
<1>2. /\ ScanInv'
      /\ UNCHANGED <<lidar_buffer, covered, late, meas, imu>>
      /\ meas.lidar.beg \in Nat /\ meas.end \in Nat /\ meas.lidar.beg =< meas.end
      /\ meas.lidar.last \in Nat /\ meas.end = meas.lidar.beg + meas.lidar.last
      /\ ~late => /\ meas.end =< covered /\ Frontier =< meas.end
                  /\ \A i \in 1 .. Len(lidar_buffer) :
                       meas.end =< lidar_buffer[i].beg /\ lidar_buffer[i].beg \in Nat
  BY <1>1, WorkingFacts
<1>3. Frontier' = Frontier /\ Frontier \in Nat
  BY <1>1, FrontierType DEF Frontier
<1>4. ImuInv'
  BY <1>1 DEF ImuInv
<1>5. CASE SegmentInit
  <2>1. ~init_map /\ init_map' \in BOOLEAN /\ pc' = "spin" /\ groups' = groups
    BY <1>5 DEF SegmentInit
  <2>2. PhaseInv'
    BY <1>1, <1>2, <2>1 DEF PhaseInv
  <2>3. ASSUME ~late
        PROVE  Frontier =< covered /\ \A i \in 1 .. Len(lidar_buffer) : Frontier =< lidar_buffer[i].beg
    <3>1. covered \in Int
      BY DEF ScanInv
    <3> QED
      BY <1>2, <1>3, <2>3, <3>1
  <2>4. OrderInv'
    BY <1>1, <1>2, <1>3, <2>1, <2>3 DEF OrderInv
  <2> QED
    BY <1>2, <1>4, <2>2, <2>4
<1>6. CASE SegmentScan
  <2>1. PICK offsets \in SUBSET (0 .. meas.lidar.last) \ {{}} :
          groups' = {meas.lidar.beg + o : o \in offsets}
    BY <1>6 DEF SegmentScan
  <2>2. init_map /\ init_map' = init_map /\ pc' = "points"
    BY <1>6 DEF SegmentScan
  <2>3. groups' \in SUBSET Int /\ \A g \in groups' : meas.lidar.beg =< g /\ g =< meas.end
    BY <1>2, <2>1
  <2>4. PhaseInv'
    BY <1>1, <1>2, <2>2, <2>3 DEF PhaseInv
  <2>5. ~late => Frontier =< meas.lidar.beg /\ \A g \in groups' : Frontier =< g
    <3>1. ~late => Frontier =< meas.lidar.beg
      BY <1>1, <2>2 DEF OrderInv
    <3> QED
      BY <1>2, <1>3, <2>3, <3>1
  <2>6. OrderInv'
    BY <1>1, <1>2, <1>3, <2>2, <2>5 DEF OrderInv
  <2> QED
    BY <1>2, <1>4, <2>4, <2>6
<1> QED
  BY <1>5, <1>6

\* The filter's time moves to the next message or to the points.
LEMMA PointsInv ==
  ASSUME ImuInv, ScanInv, PhaseInv, OrderInv, FirstPop \/ FirstDone \/ ImuPop \/ PointUpdate
  PROVE  ImuInv' /\ ScanInv' /\ PhaseInv' /\ OrderInv'
<1>1. /\ AtPoint /\ pc = "points" /\ Working /\ UNCHANGED <<init_map, pc>>
  BY DEF FirstPop, FirstDone, ImuPop, PointUpdate, ImuComes, AtPoint
<1>2. /\ ScanInv'
      /\ UNCHANGED <<lidar_buffer, covered, late, meas, imu>>
      /\ meas.end \in Nat
      /\ ~late => meas.end =< covered /\ Frontier =< meas.end
  BY <1>1, WorkingFacts
<1>3. /\ time_current \in groups /\ \A g \in groups : time_current =< g /\ g \in Nat
      /\ time_current \in Nat /\ time_current =< meas.end /\ time_current \in Time /\ init_map
  BY <1>1, CurrentFacts
<1>4. /\ imu_last \in Nat /\ imu_next \in Nat /\ t_last \in Nat /\ time_update_last \in Nat
      /\ imu_next \in Time
  BY FrontierType DEF ImuInv, Queue
<1>5. ~late =>
        /\ \A g \in groups : Frontier =< g
        /\ ~is_first_frame => imu_last =< t_last /\ t_last =< imu_next /\ time_update_last =< t_last
  BY <1>1 DEF OrderInv
<1> DEFINE tc == time_current
<1> HIDE DEF tc
<1>6. ASSUME ImuInv', last_timestamp_imu' = last_timestamp_imu, is_first_frame' \in BOOLEAN,
             t_last' \in Time, time_update_last' \in Time, groups' \in SUBSET groups
      PROVE  PhaseInv'
  BY <1>1, <1>2, <1>3, <1>6 DEF PhaseInv
<1>7. ASSUME groups' \in SUBSET groups,
             ~late => /\ Frontier' =< meas.end /\ \A g \in groups' : Frontier' =< g
                      /\ ~is_first_frame' => imu_last' =< t_last' /\ t_last' =< imu_next'
                                             /\ time_update_last' =< t_last'
      PROVE  OrderInv'
  BY <1>1, <1>2, <1>7 DEF OrderInv
<1>8. CASE FirstPop
  <2>1. /\ is_first_frame /\ tc > imu_next /\ PopImu
        /\ UNCHANGED <<is_first_frame, t_last, time_update_last, groups>>
    BY <1>8 DEF FirstPop, ImuComes, tc
  <2>2. ImuInv' /\ imu_last' = imu_next /\ last_timestamp_imu' = last_timestamp_imu
    BY <2>1, PopFacts
  <2>3. Frontier' = imu_next /\ imu_next =< meas.end /\ \A g \in groups : imu_next =< g
    BY <1>2, <1>3, <1>4, <2>1, <2>2 DEF Frontier, tc
  <2>4. PhaseInv'
    BY <1>6, <2>1, <2>2 DEF PhaseInv
  <2>5. OrderInv'
    BY <1>7, <2>1, <2>3
  <2> QED
    BY <1>2, <2>2, <2>4, <2>5
<1>9. CASE FirstDone
  <2>1. /\ is_first_frame /\ ~(tc > imu_next)
        /\ is_first_frame' = FALSE /\ t_last' = tc /\ time_update_last' = tc
        /\ UNCHANGED <<imu_deque, last_timestamp_imu, imu_time_offset, imu_last, imu_next, groups>>
    BY <1>9, <1>1 DEF FirstDone, ImuComes, imuVars, tc
  <2>2. ImuInv'
    BY <2>1 DEF ImuInv
  <2>3. PhaseInv'
    BY <1>3, <1>6, <2>1, <2>2 DEF tc
  <2>4. ASSUME ~late PROVE imu_last =< tc
    BY <1>3, <1>5, <2>1, <2>4 DEF Frontier, tc
  <2>5. tc =< imu_next /\ tc =< tc /\ Frontier' = tc
    BY <1>3, <1>4, <2>1 DEF Frontier, tc
  <2>6. tc =< meas.end /\ \A g \in groups : tc =< g
    BY <1>3 DEF tc
  <2>7. OrderInv'
    BY <1>7, <2>1, <2>4, <2>5, <2>6
  <2> QED
    BY <1>2, <2>2, <2>3, <2>7
<1>10. CASE ImuPop
  <2>1. /\ ~is_first_frame /\ tc > imu_next /\ PopImu /\ t_last' = imu_next
        /\ time_update_last' = IF imu_next > time_update_last THEN imu_next ELSE time_update_last
        /\ UNCHANGED <<is_first_frame, groups>>
    BY <1>10 DEF ImuPop, ImuComes, tc
  <2>2. ImuInv' /\ imu_last' = imu_next /\ imu_next =< imu_next'
        /\ last_timestamp_imu' = last_timestamp_imu
    BY <2>1, PopFacts
  <2>3. PhaseInv'
    BY <1>4, <1>6, <2>1, <2>2 DEF PhaseInv
  <2>4. Frontier' = imu_next /\ imu_next =< meas.end /\ \A g \in groups : imu_next =< g
    BY <1>2, <1>3, <1>4, <2>1 DEF Frontier, tc
  <2>5. ~late => time_update_last' =< imu_next
    BY <1>4, <1>5, <2>1
  <2>6. imu_next =< imu_next
    BY <1>4
  <2>7. OrderInv'
    BY <1>7, <2>1, <2>2, <2>4, <2>5, <2>6
  <2> QED
    BY <1>2, <2>2, <2>3, <2>7
<1>11. CASE PointUpdate
  <2>1. /\ ~is_first_frame /\ ~(tc > imu_next) /\ t_last' = tc /\ groups' = groups \ {tc}
        /\ UNCHANGED <<imu_deque, last_timestamp_imu, imu_time_offset, imu_last, imu_next,
                       is_first_frame, time_update_last>>
    BY <1>11, <1>1 DEF PointUpdate, ImuComes, imuVars, tc
  <2>2. ImuInv'
    BY <2>1 DEF ImuInv
  <2>3. PhaseInv'
    BY <1>3, <1>6, <2>1, <2>2 DEF tc, PhaseInv
  <2>4. Frontier' = tc /\ tc =< imu_next /\ tc =< meas.end /\ \A g \in groups' : tc =< g
    BY <1>3, <1>4, <2>1 DEF Frontier, tc
  <2>5. ASSUME ~late PROVE imu_last =< tc /\ time_update_last =< tc
    <3>1. t_last =< tc
      BY <1>3, <1>5, <2>1, <2>5 DEF Frontier, tc
    <3> QED
      BY <1>3, <1>4, <1>5, <2>1, <2>5, <3>1 DEF tc
  <2>6. OrderInv'
    BY <1>7, <2>1, <2>4, <2>5
  <2> QED
    BY <1>2, <2>2, <2>3, <2>6
<1> QED
  BY <1>8, <1>9, <1>10, <1>11

LEMMA DoneInv ==
  ASSUME ImuInv, ScanInv, PhaseInv, OrderInv, ScanDone
  PROVE  ImuInv' /\ ScanInv' /\ PhaseInv' /\ OrderInv'
<1>1. /\ pc = "points" /\ groups = {} /\ Working /\ pc' = "spin"
      /\ UNCHANGED <<imu_deque, last_timestamp_imu, imu_time_offset, imu_last, imu_next,
                     is_first_frame, t_last, time_update_last, init_map, groups>>
  BY DEF ScanDone, imuVars, timeVars
<1>2. /\ ScanInv'
      /\ UNCHANGED <<lidar_buffer, covered, late, meas, imu>>
      /\ meas.end \in Nat
      /\ ~late => /\ meas.end =< covered /\ Frontier =< meas.end
                  /\ \A i \in 1 .. Len(lidar_buffer) :
                       meas.end =< lidar_buffer[i].beg /\ lidar_buffer[i].beg \in Nat
  BY <1>1, WorkingFacts
<1>3. Frontier' = Frontier /\ Frontier \in Nat
  BY <1>1, FrontierType DEF Frontier
<1>4. ImuInv' /\ PhaseInv'
  BY <1>1, <1>2 DEF ImuInv, PhaseInv
<1>5. ASSUME ~late
      PROVE  Frontier =< covered /\ \A i \in 1 .. Len(lidar_buffer) : Frontier =< lidar_buffer[i].beg
  <2>1. covered \in Int
    BY DEF ScanInv
  <2> QED
    BY <1>2, <1>3, <1>5, <2>1
<1>6. OrderInv'
  BY <1>1, <1>2, <1>3, <1>5 DEF OrderInv
<1> QED
  BY <1>2, <1>4, <1>6

-----------------------------------------------------------------------------
(* The invariant *)

LEMMA InitInv == Init => IInv
<1> SUFFICES ASSUME Init PROVE IInv
  OBVIOUS
<1>1. MapInv
  <2>1. Origin \in Positions
    BY DEF Origin, Positions
  <2> QED
    BY <2>1 DEF Init, MapInv, NoBox, Boxes
<1>2. ImuInv
  <2>1. /\ imu_deque = <<>> /\ last_timestamp_imu = -1 /\ imu_next = 0 /\ imu_last = 0
        /\ imu_time_offset = 0
    BY DEF Init
  <2>2. Len(imu_deque) = 0 /\ imu_deque \in Seq(Time)
    BY <2>1
  <2>3. \A i, j \in 1 .. Len(imu_deque) : i < j => imu_deque[i] < imu_deque[j]
    BY <2>2
  <2> QED
    BY <2>1, <2>2, <2>3, TimeType DEF ImuInv, Queue
<1>3. ScanInv
  <2>1. /\ lidar_buffer = <<>> /\ last_timestamp_lidar = -1 /\ covered = -1 /\ late = FALSE
        /\ lidar_pushed = FALSE /\ meas = [lidar |-> NoScan, end |-> 0, imu |-> 0]
    BY DEF Init
  <2>2. meas \in Measure
    BY <2>1, TimeType DEF Measure
  <2>3. lidar_buffer \in Seq(Scans) /\ covered \in Int
    BY <2>1
  <2> QED
    BY <2>1, <2>2, <2>3 DEF ScanInv
<1>4. PhaseInv
  <2>1. /\ pc = "spin" /\ init_map = FALSE /\ is_first_frame = TRUE /\ groups = {}
        /\ t_last = 0 /\ time_update_last = 0
        /\ imu = [need_init |-> TRUE, n |-> 1, first |-> TRUE, aligned |-> FALSE]
    BY DEF Init
  <2>2. imu \in ImuProcess /\ imu.need_init = TRUE /\ imu.n = 1 /\ 1 =< MaxInit
    BY <2>1, PointLioAssumption DEF ImuProcess
  <2> QED
    BY <2>1, <2>2, TimeType DEF PhaseInv
<1>5. OrderInv
  <2>1. /\ pc = "spin" /\ groups = {} /\ lidar_buffer = <<>> /\ is_first_frame = TRUE
        /\ imu_last = 0
    BY DEF Init
  <2>2. Len(lidar_buffer) = 0 /\ Frontier = 0
    BY <2>1 DEF Frontier
  <2> QED
    BY <2>1, <2>2 DEF OrderInv
<1> QED
  BY <1>1, <1>2, <1>3, <1>4, <1>5 DEF IInv

LEMMA ImuCallbackInv ==
  ASSUME ImuInv, ScanInv, PhaseInv, OrderInv, ImuCallback
  PROVE  ImuInv' /\ ScanInv' /\ PhaseInv' /\ OrderInv'
<1>1. /\ pc = "spin"
      /\ UNCHANGED <<lidar_buffer, last_timestamp_lidar, covered, late, meas, lidar_pushed, imu,
                     imu_last, imu_next, is_first_frame, t_last, time_update_last, init_map,
                     groups, pc>>
  BY DEF ImuCallback, lidarVars, syncVars, timeVars
<1>2. ScanInv' /\ PhaseInv'
  BY <1>1 DEF ScanInv, PhaseInv
<1>3. Frontier' = Frontier
  BY <1>1 DEF Frontier
<1>4. OrderInv'
  BY <1>1, <1>3 DEF OrderInv
<1> QED
  BY <1>2, <1>4, ImuArrives

LEMMA LidarCallbackInv ==
  ASSUME ImuInv, ScanInv, PhaseInv, OrderInv, LidarCallback
  PROVE  ImuInv' /\ ScanInv' /\ PhaseInv' /\ OrderInv'
<1>1. /\ pc = "spin"
      /\ UNCHANGED <<imu_deque, last_timestamp_imu, imu_time_offset, meas, lidar_pushed, imu,
                     imu_last, imu_next, is_first_frame, t_last, time_update_last, init_map,
                     groups, pc>>
  BY DEF LidarCallback, imuVars, syncVars, timeVars
<1>2. ImuInv' /\ PhaseInv'
  BY <1>1 DEF ImuInv, PhaseInv
<1> QED
  BY <1>2, ScanArrives

LEMMA StutterInv ==
  ASSUME ImuInv, ScanInv, PhaseInv, OrderInv, UNCHANGED vars
  PROVE  ImuInv' /\ ScanInv' /\ PhaseInv' /\ OrderInv'
<1>1. UNCHANGED <<lidar_buffer, last_timestamp_lidar, covered, late, imu_deque,
                  last_timestamp_imu, imu_time_offset, meas, lidar_pushed, imu, imu_last,
                  imu_next, is_first_frame, t_last, time_update_last, init_map, groups, pc>>
  BY DEF vars, lidarVars, imuVars, syncVars, timeVars
<1>2. Frontier' = Frontier
  BY <1>1 DEF Frontier
<1> QED
  BY <1>1, <1>2 DEF ImuInv, ScanInv, PhaseInv, OrderInv

\* Every step keeps the invariant.
LEMMA NextInv == IInv /\ [Next]_vars => IInv'
<1> SUFFICES ASSUME IInv, [Next]_vars PROVE IInv'
  OBVIOUS
<1>1. MapInv /\ ImuInv /\ ScanInv /\ PhaseInv /\ OrderInv
  BY DEF IInv
<1>2. MapInv'
  BY <1>1, MapStep
<1>3. ImuInv' /\ ScanInv' /\ PhaseInv' /\ OrderInv'
  <2>1. CASE LidarCallback
    BY <1>1, <2>1, LidarCallbackInv
  <2>2. CASE ImuCallback
    BY <1>1, <2>2, ImuCallbackInv
  <2>3. CASE SyncLoses \/ SyncWaits
    BY <1>1, <2>3, SyncKeeps
  <2>4. CASE SyncTakes /\ Process
    BY <1>1, <2>4, SyncTakesInv
  <2>5. CASE AlignPop \/ AlignDone
    BY <1>1, <2>5, AlignInv
  <2>6. CASE SegmentInit \/ SegmentScan
    BY <1>1, <2>6, SegmentInv
  <2>7. CASE FirstPop \/ FirstDone \/ ImuPop \/ PointUpdate
    BY <1>1, <2>7, PointsInv
  <2>8. CASE ScanDone
    BY <1>1, <2>8, DoneInv
  <2>9. CASE UNCHANGED vars
    BY <1>1, <2>9, StutterInv
  <2> QED
    BY <2>1, <2>2, <2>3, <2>4, <2>5, <2>6, <2>7, <2>8, <2>9 DEF Next
<1> QED
  BY <1>1, <1>2, <1>3 DEF IInv

\* The buffers, the phase of main() and the filter's time always fit together.
THEOREM Invariant == Spec => []IInv
<1> QED
  BY InitInv, NextInv, PTL DEF Spec

-----------------------------------------------------------------------------
(* Properties *)

\* The state is well-formed, and the IMU messages wait in order.
THEOREM TypeCorrect == Spec => []TypeOK
<1>1. IInv => TypeOK
  <2> SUFFICES ASSUME IInv PROVE TypeOK
    OBVIOUS
  <2>1. /\ imu_deque \in Seq(Time) /\ Len(imu_deque) \in Nat
        /\ \A i, j \in 1 .. Len(imu_deque) : i < j => imu_deque[i] < imu_deque[j]
        /\ imu_deque # <<>> => imu_deque[Len(imu_deque)] = last_timestamp_imu
                               /\ imu_next =< imu_deque[1]
        /\ last_timestamp_imu \in Time \cup {-1} /\ imu_next \in Time /\ imu_last \in Time
        /\ imu_time_offset \in Nat
    BY DEF IInv, ImuInv, Queue
  <2>2. ASSUME NEW i \in 1 .. Len(imu_deque) - 1 PROVE imu_deque[i] < imu_deque[i + 1]
    <3> DEFINE l == Len(imu_deque)
    <3>1. l \in Nat
      BY <2>1
    <3>2. i \in 1 .. l /\ i + 1 \in 1 .. l /\ i < i + 1
      <4> HIDE DEF l
      <4> QED
        BY <3>1 DEF l
    <3> QED
      BY <2>1, <3>2
  <2>3. imu_deque # <<>> => Last(imu_deque) = last_timestamp_imu /\ imu_next =< Head(imu_deque)
    BY <2>1 DEF Last
  <2>4. /\ lidar_buffer \in Seq(Scans) /\ last_timestamp_lidar \in Time \cup {-1}
        /\ late \in BOOLEAN /\ lidar_pushed \in BOOLEAN
        /\ meas.lidar \in Scans /\ meas.imu \in Nat
    BY DEF IInv, ScanInv, Measure
  <2>5. /\ init_map \in BOOLEAN /\ is_first_frame \in BOOLEAN
        /\ (imu.need_init <=> imu.n =< MaxInit)
        /\ t_last \in Time /\ time_update_last \in Time /\ groups \subseteq Int
        /\ pc \in {"spin", "align", "segment", "points"}
        /\ ~init_map => groups = {} /\ is_first_frame
    BY DEF IInv, PhaseInv
  <2>6. (LocalMap_Points = NoBox => cub_needrm = {} /\ ~init_map) /\ (~init_map => ikdtree = {})
    BY DEF IInv, MapInv
  <2> QED
    BY <2>1, <2>2, <2>3, <2>4, <2>5, <2>6 DEF TypeOK
<1> QED
  BY <1>1, Invariant, PTL

\* No loop that pops imu_deque up to a time in the scan ever finds it empty.
THEOREM PopsFindAFront == Spec => []FrontExists
<1>1. IInv => FrontExists
  <2> SUFFICES ASSUME IInv, Behind \/ ImuComes, imu_deque = <<>> PROVE FALSE
    BY DEF FrontExists
  <2>1. ImuInv /\ ScanInv /\ PhaseInv
    BY DEF IInv
  <2>2. imu_next = last_timestamp_imu \/ (last_timestamp_imu = -1 /\ imu_next = 0)
    BY <2>1 DEF ImuInv, Queue
  <2>3. last_timestamp_imu \in Int /\ imu_next \in Int
    BY <2>1, TimeType DEF ImuInv, Queue
  <2>4. CASE Behind
    <3>1. /\ meas.lidar.beg > imu_next /\ meas.lidar.last >= 0
          /\ meas.end = ScanEnd(meas.lidar) /\ meas.end =< last_timestamp_imu
      BY <2>1, <2>4 DEF Behind, PhaseInv
    <3>2. meas.lidar.beg \in Nat /\ ScanEnd(meas.lidar) = meas.lidar.beg + meas.lidar.last
          /\ meas.lidar.last \in Int
      BY <2>1, ScanFacts DEF ScanInv, Measure
    <3> QED
      BY <2>2, <2>3, <3>1, <3>2
  <2>5. CASE ImuComes
    <3>1. time_current > imu_next /\ time_current \in Nat /\ time_current =< last_timestamp_imu
      BY <2>1, <2>5, CurrentFacts DEF ImuComes
    <3> QED
      BY <2>2, <2>3, <3>1
  <2> QED
    BY <2>4, <2>5
<1> QED
  BY <1>1, Invariant, PTL

\* The filter's time lies between its two inputs, the covariance behind it.
THEOREM StateBetweenInputs == Spec => []InputsAroundState
<1>1. IInv => InputsAroundState
  BY DEF IInv, OrderInv, InputsAroundState
<1> QED
  BY <1>1, Invariant, PTL

\* Moving the local map deletes what is in range only in slabs dropped before.
THEOREM RangeKept == Spec => RangeKeptAtFirst
<1>1. IInv /\ [Next]_vars => [OnlyFarOrDropped]_vars
  BY MapStep DEF IInv
<1> QED
  BY <1>1, Invariant, PTL DEF Spec, RangeKeptAtFirst, OnlyFarOrDropped

=============================================================================
