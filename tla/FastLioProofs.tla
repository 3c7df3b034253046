----------------------------- MODULE FastLioProofs -----------------------------
(***************************************************************************)
(* The FAST-LIO node for every cube that leaves room, every sensor timing  *)
(* and every number of messages: the state is well-formed, a scan is       *)
(* registered with its own begin time, moving the local map keeps what is  *)
(* in range, and the filter is propagated to the end of each scan.         *)
(***************************************************************************)
EXTENDS FastLio, FiniteSetTheorems, SequenceTheorems, WellFoundedInduction, TLAPS

-----------------------------------------------------------------------------
(* The local map *)

\* Types of what the timer does with the map.
MapType ==
  /\ pos_lid \in Positions /\ LocalMap_Points \in Boxes
  /\ ikdtree \in [root : BOOLEAN, points : SUBSET Positions]
  /\ ~ikdtree.root => ikdtree.points = {}

\* Wherever it went, the map is a cube of the configured length.
MapIsCube ==
  LocalMap_Points # NoBox =>
    \A i \in Axes : LocalMap_Points.max[i] - LocalMap_Points.min[i] = CubeLen

MapInv == MapType /\ MapIsCube

LEMMA LengthTypes ==
  /\ CubeLen \in Nat /\ Edge \in Nat /\ DetRange \in Nat /\ MovDist \in Int
  /\ CubeLen \div 2 \in Int /\ CubeLen = CubeLen \div 2 + CubeLen \div 2
  /\ CubeLen - MovDist - Edge > DetRange
<1>1. (9 * (CubeLen - 2 * Edge)) \div 20 \in Int /\ Edge \div 3 \in Int
  BY LengthsAssumption
<1> QED
  BY <1>1, LengthsAssumption, RoomAssumption DEF MovDist

LEMMA DirectionType ==
  ASSUME NEW box, NEW pos, NEW i PROVE Direction(box, pos, i) \in {-1, 0, 1}
BY DEF Direction

\* A slab that a move leaves behind is out of the lidar's range: it ends MovDist
\* before the far wall, and the lidar is within Edge of the near one.
LEMMA SlabIsFar ==
  ASSUME NEW box \in Boxes, NEW pos \in Positions, NEW p \in Positions, NEW i \in Axes,
         box.max[i] - box.min[i] = CubeLen,
         Direction(box, pos, i) # 0, InBox(p, Slab(box, pos, i))
  PROVE  p[i] - pos[i] > DetRange \/ pos[i] - p[i] > DetRange
<1>1. /\ p[i] \in Int /\ pos[i] \in Int
      /\ box.min \in Positions /\ box.max \in Positions
      /\ box.min[i] \in Int /\ box.max[i] \in Int
      /\ box = [min |-> box.min, max |-> box.max]
  BY DEF Boxes, Positions
<1>2. CASE Direction(box, pos, i) = -1
  <2>1. p[i] >= box.max[i] - MovDist
    BY <1>1, <1>2, LengthTypes DEF InBox, Slab, Positions
  <2>2. pos[i] - box.min[i] =< Edge
    BY <1>1, <1>2, LengthTypes DEF Direction, IsNear
  <2> QED
    BY <1>1, <2>1, <2>2, LengthTypes
<1>3. CASE Direction(box, pos, i) = 1
  <2>1. p[i] < box.min[i] + MovDist
    BY <1>1, <1>3, LengthTypes DEF InBox, Slab, Positions
  <2>2. box.max[i] - pos[i] =< Edge
    BY <1>1, <1>3, LengthTypes DEF Direction, IsNear
  <2> QED
    BY <1>1, <2>1, <2>2, LengthTypes
<1> QED
  BY <1>2, <1>3, DirectionType

LEMMA OutdatedIsFar ==
  ASSUME NEW box \in Boxes, NEW pos \in Positions, NEW points \in SUBSET Positions,
         \A i \in Axes : box.max[i] - box.min[i] = CubeLen,
         NEW p \in Outdated(points, box, pos)
  PROVE  \E i \in Axes : p[i] - pos[i] > DetRange \/ pos[i] - p[i] > DetRange
<1>1. PICK i \in Axes : Direction(box, pos, i) # 0 /\ InBox(p, Slab(box, pos, i))
  BY DEF Outdated, LeftBehind
<1>2. p \in Positions
  BY DEF Outdated
<1> QED
  BY <1>1, <1>2, SlabIsFar

\* A moved cube is a cube of the same length.
LEMMA MovedIsCube ==
  ASSUME NEW box \in Boxes, NEW pos \in Positions
  PROVE  /\ MovedBox(box, pos) \in Boxes
         /\ \A i \in Axes : MovedBox(box, pos).max[i] - MovedBox(box, pos).min[i]
                              = box.max[i] - box.min[i]
<1> DEFINE shift(i) == Direction(box, pos, i) * MovDist
<1>1. ASSUME NEW i \in Axes PROVE shift(i) \in Int
  BY DirectionType, LengthTypes
<1>2. /\ box.min \in Positions /\ box.max \in Positions
      /\ \A i \in Axes : box.min[i] \in Int /\ box.max[i] \in Int
  BY DEF Boxes, Positions
<1> HIDE DEF shift
<1>3. MovedBox(box, pos) = [min |-> [i \in Axes |-> box.min[i] + shift(i)],
                            max |-> [i \in Axes |-> box.max[i] + shift(i)]]
  BY DEF MovedBox, shift
<1> QED
  BY <1>1, <1>2, <1>3 DEF Boxes, Positions

LEMMA CubeIsCube ==
  ASSUME NEW pos \in Positions
  PROVE  /\ Cube(pos) \in Boxes
         /\ \A i \in Axes : Cube(pos).max[i] - Cube(pos).min[i] = CubeLen
<1>1. \A i \in Axes : pos[i] \in Int
  BY DEF Positions
<1> QED
  BY <1>1, LengthTypes DEF Cube, Boxes, Positions

-----------------------------------------------------------------------------
(* RangeKept *)

\* Nothing within DET_RANGE is deleted by this step.
NothingNearDeleted ==
  \A p \in ikdtree.points \ ikdtree'.points :
    \E i \in Axes : p[i] - pos_lid'[i] > DetRange \/ pos_lid'[i] - p[i] > DetRange

LEMMA PositionsMoved ==
  ASSUME pos_lid \in Positions, NEW m \in Moves
  PROVE  [i \in Axes |-> pos_lid[i] + m[i]] \in Positions
BY FastLioAssumption DEF Positions

LEMMA ProcessMoves ==
  ASSUME pos_lid \in Positions, Process PROVE pos_lid' \in Positions
BY PositionsMoved DEF Process

LEMMA WorldPointsType ==
  ASSUME pos_lid' \in Positions PROVE WorldPoints \in SUBSET Positions
BY FastLioAssumption DEF WorldPoints, Positions

\* Moving the map leaves a cube, and takes only far points away.
LEMMA FovSegmentFacts ==
  ASSUME MapInv, pos_lid' \in Positions, FovSegment
  PROVE  /\ LocalMap_Points' \in Boxes /\ MapIsCube' /\ LocalMap_Points' # NoBox
         /\ SegmentedMap \in SUBSET ikdtree.points
         /\ \A p \in ikdtree.points \ SegmentedMap :
              \E i \in Axes : p[i] - pos_lid'[i] > DetRange \/ pos_lid'[i] - p[i] > DetRange
<1>1. LocalMap_Points \in Boxes /\ ikdtree.points \in SUBSET Positions
  BY DEF MapInv, MapType
<1>0. ASSUME NEW box, \A i \in Axes : box.max[i] - box.min[i] = CubeLen
      PROVE  box # NoBox
  BY <1>0, LengthsAssumption DEF NoBox, Origin
<1>2. CASE LocalMap_Points = NoBox
  <2>1. LocalMap_Points' = Cube(pos_lid') /\ SegmentedMap = ikdtree.points
    BY <1>2 DEF FovSegment, SegmentedMap
  <2> QED
    BY <1>0, <1>1, <2>1, CubeIsCube DEF MapIsCube
<1>3. CASE LocalMap_Points # NoBox
  <2>1. \A i \in Axes : LocalMap_Points.max[i] - LocalMap_Points.min[i] = CubeLen
    BY <1>3 DEF MapInv, MapIsCube
  <2>2. LocalMap_Points' = MovedBox(LocalMap_Points, pos_lid')
    BY <1>3 DEF FovSegment
  <2>3. LocalMap_Points' \in Boxes /\ MapIsCube' /\ LocalMap_Points' # NoBox
    BY <1>0, <1>1, <2>1, <2>2, MovedIsCube DEF MapIsCube
  <2>4. SegmentedMap = ikdtree.points \ Outdated(ikdtree.points, LocalMap_Points, pos_lid')
    BY <1>3 DEF SegmentedMap
  <2> QED
    BY <1>1, <2>1, <2>3, <2>4, OutdatedIsFar
<1> QED
  BY <1>2, <1>3

LEMMA MapInit == Init => MapInv
<1> SUFFICES ASSUME Init PROVE MapInv
  OBVIOUS
<1>1. Origin \in Positions
  BY DEF Origin, Positions
<1> QED
  BY <1>1 DEF Init, MapInv, MapType, MapIsCube, NoBox, Boxes

LEMMA MapStep ==
  ASSUME MapInv, [Next]_vars PROVE MapInv' /\ (NothingNearDeleted \/ UNCHANGED vars)
<1>1. ASSUME UNCHANGED mapVars PROVE MapInv' /\ NothingNearDeleted
  BY <1>1 DEF mapVars, MapInv, MapType, MapIsCube, NothingNearDeleted
<1>2. CASE LidarCallback
  BY <1>1, <1>2 DEF LidarCallback
<1>3. CASE ImuCallback
  BY <1>1, <1>3 DEF ImuCallback
<1>4. CASE TimerWaits
  BY <1>1, <1>4 DEF TimerWaits
<1>5. CASE TimerFirstScan
  BY <1>1, <1>5 DEF TimerFirstScan
<1>6. CASE TimerNoPoint
  <2>1. UNCHANGED <<LocalMap_Points, ikdtree>> /\ pos_lid' \in Positions
    BY <1>6, ProcessMoves DEF TimerNoPoint, MapInv, MapType
  <2> QED
    BY <2>1 DEF MapInv, MapType, MapIsCube, NothingNearDeleted
<1>7. CASE TimerBuild
  <2>1. pos_lid' \in Positions /\ FovSegment /\ ikdtree.points = {}
    BY <1>7, ProcessMoves DEF TimerBuild, MapInv, MapType
  <2>2. ikdtree' \in [root : BOOLEAN, points : SUBSET Positions]
        /\ (~ikdtree'.root => ikdtree'.points = {})
    <3>1. WorldPoints \in SUBSET Positions
      BY <2>1, WorldPointsType
    <3>2. \/ ikdtree' = [root |-> TRUE, points |-> WorldPoints]
          \/ ikdtree' = ikdtree
      BY <1>7 DEF TimerBuild
    <3>3. CASE ikdtree' = [root |-> TRUE, points |-> WorldPoints]
      BY <3>1, <3>3
    <3>4. CASE ikdtree' = ikdtree
      BY <3>4 DEF MapInv, MapType
    <3> QED
      BY <3>2, <3>3, <3>4
  <2> QED
    BY <2>1, <2>2, FovSegmentFacts DEF MapInv, MapType, NothingNearDeleted
<1>8. CASE TimerUpdate
  <2>1. pos_lid' \in Positions /\ FovSegment /\ ikdtree.root
    BY <1>8, ProcessMoves DEF TimerUpdate, MapInv, MapType
  <2>2. \/ ikdtree' = [ikdtree EXCEPT !.points = SegmentedMap \cup WorldPoints]
        \/ ikdtree' = [ikdtree EXCEPT !.points = SegmentedMap]
    BY <1>8 DEF TimerUpdate
  <2>3. /\ ikdtree' \in [root : BOOLEAN, points : SUBSET Positions]
        /\ ikdtree'.root /\ SegmentedMap \in SUBSET ikdtree'.points
    BY <2>1, <2>2, WorldPointsType, FovSegmentFacts DEF MapInv, MapType
  <2> QED
    BY <2>1, <2>3, FovSegmentFacts DEF MapInv, MapType, NothingNearDeleted
<1>9. CASE UNCHANGED vars
  BY <1>1, <1>9 DEF vars
<1> QED
  BY <1>2, <1>3, <1>4, <1>5, <1>6, <1>7, <1>8, <1>9 DEF Next, Timer

\* Moving the local map never deletes a point within DET_RANGE of the lidar
\* (lasermap_fov_segment), for every cube that fulfils RoomAssumption.
THEOREM MapKeepsRange == Spec => RangeKept
<1>1. Init => MapInv
  BY MapInit
<1>2. MapInv /\ [Next]_vars => MapInv'
  BY MapStep
<1>3. MapInv /\ [Next]_vars => [NothingNearDeleted]_vars
  BY MapStep
<1> QED
  BY <1>1, <1>2, <1>3, PTL DEF Spec, RangeKept, NothingNearDeleted

-----------------------------------------------------------------------------
(* Types, and the pairing of scans and times *)

Measure == [lidar : Scans \cup {NoScan}, beg : Time, end : Int, imu : Seq(Time)]
ImuProcess == [need_init : BOOLEAN, n : Nat, last : Time, end : Int]

\* The shapes that TypeOK leaves open. No dropped scan leaves the deques with
\* fewer stamps than scans.
Shapes ==
  /\ meas \in Measure /\ imu \in ImuProcess
  /\ Len(lidar_buffer) =< Len(time_buffer)

\* Until the lidar's clock goes back, the deques run in parallel, and the scan
\* sync_packages has taken carries its own time.
Parallel ==
  jumps.lidar = 0 =>
    /\ Len(time_buffer) = Len(lidar_buffer)
    /\ \A k \in 1 .. Len(lidar_buffer) : time_buffer[k] = lidar_buffer[k].beg
    /\ meas.lidar.beg = meas.beg \/ ~lidar_pushed

\* While the IMU is being initialized no scan is undistorted.
NothingUndistorted == imu.need_init => feats_undistort = NoScan

IInv == MapInv /\ TypeOK /\ Shapes /\ Parallel /\ NothingUndistorted /\ RegisteredAtItsTime

\* The part of TypeOK and Shapes about buffers and measures.
SyncInv ==
  /\ lidar_buffer \in Seq(Scans) /\ time_buffer \in Seq(Time) /\ imu_buffer \in Seq(Time)
  /\ \A i \in 1 .. Len(imu_buffer) - 1 : imu_buffer[i] < imu_buffer[i + 1]
  /\ imu_buffer # <<>> => Last(imu_buffer) = last_timestamp_imu
  /\ meas \in Measure /\ lidar_mean_scantime \in {0, ScanTime}
  /\ lidar_pushed \in BOOLEAN
  /\ Len(lidar_buffer) =< Len(time_buffer)
  /\ Parallel

LEMMA TimeType == Time \subseteq Int /\ -1 \notin Time /\ 0 \in Time /\ NoScan \notin Scans
BY FastLioAssumption DEF Time, Scans, NoScan

LEMMA PendingFacts ==
  ASSUME SyncInv, HasBoth
  PROVE  /\ Pending \in Measure /\ MeanAfter \in {0, ScanTime}
         /\ jumps.lidar = 0 => Pending.lidar.beg = Pending.beg
<1> USE DEF SyncInv
<1>1. CASE lidar_pushed
  BY <1>1 DEF Pending, MeanAfter, Parallel
<1>2. CASE ~lidar_pushed
  <2>1. lidar_buffer # <<>> /\ Len(lidar_buffer) \in Nat \ {0} /\ Len(time_buffer) \in Nat \ {0}
    BY DEF HasBoth
  <2> DEFINE s == Head(lidar_buffer)
             b == Head(time_buffer)
  <2>2. s \in Scans /\ b \in Time /\ s = lidar_buffer[1] /\ b = time_buffer[1]
    BY <2>1
  <2>3. EndTime(s, b) \in Int
    <3> HIDE DEF s, b
    <3>1. b \in Int
      BY <2>2, TimeType
    <3>2. ScanTime \in Int
      BY FastLioAssumption
    <3>3. lidar_mean_scantime \in Int
      BY <3>2
    <3> QED
      BY <3>1, <3>2, <3>3 DEF EndTime
  <2>4. Pending = [lidar |-> s, beg |-> b, end |-> EndTime(s, b), imu |-> meas.imu]
    BY <1>2 DEF Pending, Measure
  <2>5. jumps.lidar = 0 => s.beg = b
    BY <2>1, <2>2 DEF Parallel
  <2> HIDE DEF s, b
  <2> QED
    BY <2>2, <2>3, <2>4, <2>5 DEF Measure, MeanAfter
<1> QED
  BY <1>1, <1>2

LEMMA TakenFacts ==
  ASSUME SyncInv, HasBoth, NEW e \in Int
  PROVE  TakenCount(e) \in 0 .. Len(imu_buffer) /\ TakenImu(e) \in Seq(Time)
<1> DEFINE S == {i \in DOMAIN imu_buffer : imu_buffer[i] =< e}
<1>1. Len(imu_buffer) \in Nat /\ DOMAIN imu_buffer = 1 .. Len(imu_buffer)
  BY DEF SyncInv
<1>2. /\ IsFiniteSet(1 .. Len(imu_buffer))
      /\ Cardinality(1 .. Len(imu_buffer)) = Len(imu_buffer)
  <2>1. 1 \in Int /\ Len(imu_buffer) \in Int
    BY <1>1
  <2>2. /\ IsFiniteSet(1 .. Len(imu_buffer))
        /\ Cardinality(1 .. Len(imu_buffer)) =
             IF 1 > Len(imu_buffer) THEN 0 ELSE Len(imu_buffer) - 1 + 1
    BY <2>1, FS_Interval
  <2> QED
    BY <1>1, <2>2
<1>3. Cardinality(S) \in 0 .. Len(imu_buffer)
  BY <1>1, <1>2, FS_Subset, FS_CardinalityType
<1>4. TakenCount(e) \in 0 .. Len(imu_buffer)
  BY <1>1, <1>3 DEF TakenCount
<1> QED
  BY <1>1, <1>4 DEF TakenImu, SyncInv

\* A complete measure, and what is left in the buffers.
LEMMA SyncFacts ==
  ASSUME SyncInv, Sync, jumps' = jumps
  PROVE  SyncInv' /\ (jumps.lidar = 0 => meas'.lidar.beg = meas'.beg)
<1> DEFINE n == TakenCount(Pending.end)
<1>0. HasBoth
  BY DEF Sync, IsServed
<1>1. Pending \in Measure /\ Pending.end \in Int
  BY <1>0, PendingFacts DEF Measure
<1>2. n \in 0 .. Len(imu_buffer) /\ TakenImu(Pending.end) \in Seq(Time)
  BY <1>0, <1>1, TakenFacts
<1>3. meas' = [Pending EXCEPT !.imu = TakenImu(Pending.end)]
  BY DEF Sync
<1>4. /\ meas' \in Measure /\ meas'.lidar = Pending.lidar /\ meas'.beg = Pending.beg
      /\ lidar_mean_scantime' \in {0, ScanTime} /\ lidar_pushed' \in BOOLEAN
  BY <1>0, <1>1, <1>2, <1>3, PendingFacts DEF Measure, Sync
<1>5. /\ lidar_buffer # <<>> /\ lidar_buffer \in Seq(Scans) /\ time_buffer \in Seq(Time)
      /\ time_buffer # <<>> /\ Len(lidar_buffer) =< Len(time_buffer)
      /\ lidar_buffer' = Tail(lidar_buffer) /\ time_buffer' = Tail(time_buffer)
  BY <1>0 DEF SyncInv, HasBoth, Sync
<1>6. /\ lidar_buffer' \in Seq(Scans) /\ time_buffer' \in Seq(Time)
      /\ Len(lidar_buffer') = Len(lidar_buffer) - 1 /\ Len(time_buffer') = Len(time_buffer) - 1
      /\ \A k \in 1 .. Len(lidar_buffer') : lidar_buffer'[k] = lidar_buffer[k + 1]
      /\ \A k \in 1 .. Len(time_buffer') : time_buffer'[k] = time_buffer[k + 1]
  BY <1>5, HeadTailProperties
<1>7. Parallel'
  <2> SUFFICES ASSUME jumps.lidar = 0
               PROVE  /\ Len(time_buffer') = Len(lidar_buffer')
                      /\ \A k \in 1 .. Len(lidar_buffer') : time_buffer'[k] = lidar_buffer'[k].beg
                      /\ ~lidar_pushed'
    BY DEF Parallel
  <2>1. /\ Len(time_buffer) = Len(lidar_buffer) /\ Len(lidar_buffer) \in Nat
        /\ \A k \in 1 .. Len(lidar_buffer) : time_buffer[k] = lidar_buffer[k].beg
    BY <1>5 DEF SyncInv, Parallel
  <2>2. ~lidar_pushed'
    BY DEF Sync
  <2> QED
    BY <1>6, <2>1, <2>2
<1>8. /\ imu_buffer' \in Seq(Time)
      /\ \A i \in 1 .. Len(imu_buffer') - 1 : imu_buffer'[i] < imu_buffer'[i + 1]
      /\ imu_buffer' # <<>> => Last(imu_buffer') = last_timestamp_imu'
  <2> DEFINE N == Len(imu_buffer)
  <2>1. /\ imu_buffer \in Seq(Time) /\ N \in Nat
        /\ \A i \in 1 .. N - 1 : imu_buffer[i] < imu_buffer[i + 1]
        /\ imu_buffer # <<>> => imu_buffer[N] = last_timestamp_imu
    BY DEF SyncInv, Last
  <2>2. imu_buffer' = SubSeq(imu_buffer, n + 1, N) /\ last_timestamp_imu' = last_timestamp_imu
    BY DEF Sync
  <2> HIDE DEF n
  <2>3. /\ imu_buffer' \in Seq(Time) /\ Len(imu_buffer') = N - n
        /\ \A i \in 1 .. N - n : imu_buffer'[i] = imu_buffer[n + i]
    BY <1>2, <2>1, <2>2
  <2>4. imu_buffer' # <<>> => imu_buffer'[N - n] = imu_buffer[N] /\ imu_buffer # <<>>
    BY <1>2, <2>1, <2>3
  <2>5. ASSUME NEW i \in 1 .. Len(imu_buffer') - 1 PROVE imu_buffer'[i] < imu_buffer'[i + 1]
    <3>1. i \in 1 .. N - n /\ i + 1 \in 1 .. N - n /\ n + i \in 1 .. N - 1
      BY <1>2, <2>1, <2>3
    <3>2. imu_buffer[n + i] < imu_buffer[(n + i) + 1] /\ (n + i) + 1 = n + (i + 1)
      BY <1>2, <2>1, <3>1
    <3> QED
      BY <2>3, <3>1, <3>2
  <2> QED
    BY <2>1, <2>2, <2>3, <2>4, <2>5 DEF Last
<1> QED
  BY <1>0, <1>4, <1>5, <1>6, <1>7, <1>8, PendingFacts DEF SyncInv

\* A measure that waits for IMU messages.
LEMMA WaitFacts == ASSUME SyncInv, TimerWaits PROVE SyncInv'
<1>0. HasBoth
  BY DEF TimerWaits
<1>1. /\ meas' \in Measure /\ lidar_mean_scantime' \in {0, ScanTime}
      /\ jumps.lidar = 0 => meas'.lidar.beg = meas'.beg
  BY <1>0, PendingFacts DEF TimerWaits
<1>2. UNCHANGED <<lidar_buffer, time_buffer, imu_buffer, last_timestamp_imu, jumps>>
      /\ lidar_pushed' = TRUE
  BY DEF TimerWaits, lidarVars, imuVars
<1>3. Parallel'
  BY <1>1, <1>2 DEF SyncInv, Parallel
<1> QED
  BY <1>1, <1>2, <1>3 DEF SyncInv

\* What Process makes of a complete measure.
LEMMA ProcessFacts ==
  ASSUME IInv, meas' \in Measure, Process
  PROVE  /\ imu' \in ImuProcess /\ (imu'.need_init <=> imu'.n =< MaxInit)
         /\ feats_undistort' \in Scans \cup {NoScan}
         /\ NothingUndistorted' /\ gaps' \in Nat /\ late' \in BOOLEAN
         /\ gaps' = 0 => \/ feats_undistort'.size = "none"
                         \/ feats_undistort' = meas'.lidar
<1>0. /\ imu \in ImuProcess /\ (imu.need_init <=> imu.n =< MaxInit)
      /\ feats_undistort \in Scans \cup {NoScan} /\ gaps \in Nat /\ late \in BOOLEAN
      /\ imu.need_init => feats_undistort = NoScan
      /\ MaxInit \in Nat
  BY FastLioAssumption DEF IInv, TypeOK, Shapes, NothingUndistorted
<1>1. /\ meas'.imu \in Seq(Time) /\ meas'.end \in Int
      /\ meas'.lidar \in Scans \cup {NoScan}
      /\ meas'.imu # <<>> => Last(meas'.imu) \in Time /\ Len(meas'.imu) \in Nat
  BY DEF Measure, Last
<1>2. CASE ProcessNothing
  BY <1>0, <1>2 DEF ProcessNothing, NothingUndistorted
<1>3. CASE ProcessInit
  <2> DEFINE n == imu.n + Len(meas'.imu)
             b == n =< MaxInit
  <2>1. n \in Nat /\ Last(meas'.imu) \in Time /\ b \in BOOLEAN /\ (b <=> n =< MaxInit)
    BY <1>0, <1>1, <1>3 DEF ProcessInit, ImuProcess
  <2>2. imu' = [imu EXCEPT !.n = n, !.last = Last(meas'.imu), !.need_init = b]
    BY <1>3 DEF ProcessInit
  <2> HIDE DEF n, b
  <2>3. imu' \in ImuProcess /\ imu'.n = n /\ imu'.need_init = b
    BY <1>0, <2>1, <2>2 DEF ImuProcess
  <2>4. feats_undistort' = NoScan /\ gaps' = gaps /\ late' = late
    BY <1>0, <1>3 DEF ProcessInit
  <2> QED
    BY <1>0, <2>1, <2>3, <2>4 DEF NothingUndistorted, NoScan
<1>4. CASE ProcessScan
  <2>1. /\ imu' = [imu EXCEPT !.last = Last(meas'.imu), !.end = meas'.end]
        /\ Last(meas'.imu) \in Time /\ ~imu.need_init
        /\ feats_undistort' = meas'.lidar /\ gaps' = gaps /\ late' \in BOOLEAN
    BY <1>1, <1>4 DEF ProcessScan
  <2>2. imu' \in ImuProcess /\ imu'.n = imu.n /\ imu'.need_init = imu.need_init
    BY <1>0, <1>1, <2>1 DEF ImuProcess
  <2> QED
    BY <1>0, <1>1, <2>1, <2>2 DEF NothingUndistorted
<1> QED
  BY <1>2, <1>3, <1>4 DEF Process

LEMMA SyncInvHolds == IInv => SyncInv
BY DEF IInv, TypeOK, Shapes, SyncInv

LEMMA ScanArrives ==
  ASSUME SyncInv, LidarCallback, last_timestamp_lidar \in Time, is_first_lidar \in BOOLEAN,
         jumps \in [lidar : 0 .. MaxJumps, imu : 0 .. MaxJumps]
  PROVE  /\ SyncInv' /\ last_timestamp_lidar' \in Time /\ is_first_lidar' \in BOOLEAN
         /\ jumps' \in [lidar : 0 .. MaxJumps, imu : 0 .. MaxJumps]
         /\ jumps'.lidar = 0 => jumps.lidar = 0
<1>1. PICK s \in Scans :
        LET back == ~is_first_lidar /\ s.beg < last_timestamp_lidar IN
        /\ jumps' = IF back THEN [jumps EXCEPT !.lidar = @ + 1] ELSE jumps
        /\ lidar_buffer' = Append(IF back THEN <<>> ELSE lidar_buffer, s)
        /\ time_buffer' = Append(time_buffer, s.beg)
        /\ last_timestamp_lidar' = s.beg
  BY DEF LidarCallback
<1>2. /\ is_first_lidar' = FALSE
      /\ UNCHANGED <<imu_buffer, last_timestamp_imu, meas, lidar_pushed, lidar_mean_scantime>>
      /\ jumps'.lidar + jumps'.imu =< MaxJumps
  BY DEF LidarCallback, imuVars, syncVars
<1>3. s.beg \in Time /\ MaxJumps \in Nat
  BY FastLioAssumption DEF Scans
<1>4. /\ lidar_buffer \in Seq(Scans) /\ time_buffer \in Seq(Time)
      /\ Len(lidar_buffer) \in Nat /\ Len(time_buffer) \in Nat
      /\ Len(lidar_buffer) =< Len(time_buffer)
      /\ time_buffer' \in Seq(Time) /\ Len(time_buffer') = Len(time_buffer) + 1
      /\ \A k \in 1 .. Len(time_buffer) : time_buffer'[k] = time_buffer[k]
      /\ time_buffer'[Len(time_buffer) + 1] = s.beg
  BY <1>1, <1>3 DEF SyncInv
<1>5. CASE ~is_first_lidar /\ s.beg < last_timestamp_lidar
  <2>1. jumps' = [jumps EXCEPT !.lidar = jumps.lidar + 1] /\ lidar_buffer' = <<s>>
    BY <1>1, <1>5
  <2>2. /\ jumps.lidar \in Nat /\ jumps.imu \in Nat
        /\ jumps' = [lidar |-> jumps.lidar + 1, imu |-> jumps.imu]
    BY <2>1, <1>3
  <2>3. jumps' \in [lidar : 0 .. MaxJumps, imu : 0 .. MaxJumps] /\ jumps'.lidar # 0
    BY <1>2, <1>3, <2>2
  <2>4. lidar_buffer' \in Seq(Scans) /\ Len(lidar_buffer') = 1
    BY <2>1
  <2>5. SyncInv'
    BY <1>2, <1>4, <2>3, <2>4 DEF SyncInv, Parallel
  <2> QED
    BY <1>1, <1>2, <1>3, <2>3, <2>5
<1>6. CASE ~(~is_first_lidar /\ s.beg < last_timestamp_lidar)
  <2>1. jumps' = jumps /\ lidar_buffer' = Append(lidar_buffer, s)
    BY <1>1, <1>6
  <2>2. /\ lidar_buffer' \in Seq(Scans) /\ Len(lidar_buffer') = Len(lidar_buffer) + 1
        /\ \A k \in 1 .. Len(lidar_buffer) : lidar_buffer'[k] = lidar_buffer[k]
        /\ lidar_buffer'[Len(lidar_buffer) + 1] = s
    BY <1>4, <2>1
  <2>3. Parallel'
    <3> SUFFICES ASSUME jumps.lidar = 0
                 PROVE  /\ Len(time_buffer') = Len(lidar_buffer')
                        /\ \A k \in 1 .. Len(lidar_buffer') : time_buffer'[k] = lidar_buffer'[k].beg
                        /\ meas'.lidar.beg = meas'.beg \/ ~lidar_pushed'
      BY <2>1 DEF Parallel
    <3>1. /\ Len(time_buffer) = Len(lidar_buffer)
          /\ \A k \in 1 .. Len(lidar_buffer) : time_buffer[k] = lidar_buffer[k].beg
          /\ meas.lidar.beg = meas.beg \/ ~lidar_pushed
      BY DEF SyncInv, Parallel
    <3>2. meas'.lidar.beg = meas'.beg \/ ~lidar_pushed'
      BY <1>2, <3>1
    <3>3. ASSUME NEW k \in 1 .. Len(lidar_buffer')
          PROVE  time_buffer'[k] = lidar_buffer'[k].beg
      <4>1. k \in 1 .. Len(lidar_buffer) \/ k = Len(lidar_buffer) + 1
        BY <1>4, <2>2
      <4> QED
        BY <1>4, <2>2, <3>1, <4>1
    <3>4. Len(time_buffer') = Len(lidar_buffer')
      BY <1>4, <2>2, <3>1
    <3> QED
      BY <3>2, <3>3, <3>4
  <2>4. SyncInv'
    BY <1>2, <1>4, <2>2, <2>3 DEF SyncInv
  <2> QED
    BY <1>1, <1>2, <1>3, <2>1, <2>4
<1> QED
  BY <1>5, <1>6

LEMMA ImuArrives ==
  ASSUME SyncInv, ImuCallback, last_timestamp_imu \in Time \cup {-1},
         jumps \in [lidar : 0 .. MaxJumps, imu : 0 .. MaxJumps]
  PROVE  /\ SyncInv' /\ last_timestamp_imu' \in Time
         /\ jumps' \in [lidar : 0 .. MaxJumps, imu : 0 .. MaxJumps]
         /\ jumps'.lidar = jumps.lidar
<1>1. PICK t \in Time \ {last_timestamp_imu} :
        LET back == t < last_timestamp_imu IN
        /\ jumps' = IF back THEN [jumps EXCEPT !.imu = @ + 1] ELSE jumps
        /\ imu_buffer' = Append(IF back THEN <<>> ELSE imu_buffer, t)
        /\ last_timestamp_imu' = t
  BY DEF ImuCallback
<1>2. /\ UNCHANGED <<lidar_buffer, time_buffer, meas, lidar_pushed, lidar_mean_scantime>>
      /\ jumps'.lidar + jumps'.imu =< MaxJumps
  BY DEF ImuCallback, lidarVars, syncVars
<1>3. t \in Int /\ last_timestamp_imu \in Int /\ MaxJumps \in Nat
  BY TimeType, FastLioAssumption
<1>4. /\ imu_buffer \in Seq(Time) /\ Len(imu_buffer) \in Nat
      /\ \A i \in 1 .. Len(imu_buffer) - 1 : imu_buffer[i] < imu_buffer[i + 1]
      /\ imu_buffer # <<>> => imu_buffer[Len(imu_buffer)] = last_timestamp_imu
  BY DEF SyncInv, Last
<1>5. /\ jumps' \in [lidar : 0 .. MaxJumps, imu : 0 .. MaxJumps] /\ jumps'.lidar = jumps.lidar
  <2>1. jumps.lidar \in Nat /\ jumps.imu \in Nat
    BY <1>3
  <2>2. \/ jumps' = [lidar |-> jumps.lidar, imu |-> jumps.imu + 1]
        \/ jumps' = jumps
    BY <1>1
  <2> QED
    BY <1>2, <1>3, <2>1, <2>2
<1>6. /\ imu_buffer' \in Seq(Time)
      /\ \A i \in 1 .. Len(imu_buffer') - 1 : imu_buffer'[i] < imu_buffer'[i + 1]
      /\ imu_buffer' # <<>> /\ imu_buffer'[Len(imu_buffer')] = t
  <2>1. CASE t < last_timestamp_imu
    <3>1. imu_buffer' = <<t>>
      BY <1>1, <2>1
    <3> QED
      BY <3>1
  <2>2. CASE ~(t < last_timestamp_imu)
    <3>1. imu_buffer' = Append(imu_buffer, t) /\ last_timestamp_imu < t
      BY <1>1, <1>3, <2>2
    <3>2. /\ imu_buffer' \in Seq(Time) /\ Len(imu_buffer') = Len(imu_buffer) + 1
          /\ \A i \in 1 .. Len(imu_buffer) : imu_buffer'[i] = imu_buffer[i]
          /\ imu_buffer'[Len(imu_buffer) + 1] = t
      BY <1>4, <3>1
    <3>3. ASSUME NEW i \in 1 .. Len(imu_buffer') - 1 PROVE imu_buffer'[i] < imu_buffer'[i + 1]
      <4>1. CASE i < Len(imu_buffer)
        BY <1>4, <3>2, <4>1
      <4>2. CASE i = Len(imu_buffer)
        BY <1>4, <3>1, <3>2, <4>2
      <4> QED
        BY <1>4, <3>2, <4>1, <4>2
    <3> QED
      BY <1>4, <3>2, <3>3
  <2> QED
    BY <2>1, <2>2
<1>7. SyncInv'
  BY <1>1, <1>2, <1>5, <1>6 DEF SyncInv, Parallel, Last
<1> QED
  BY <1>1, <1>5, <1>7

LEMMA InitInv == Init => IInv
<1> SUFFICES ASSUME Init PROVE IInv
  OBVIOUS
<1>1. MapInv
  BY MapInit
<1>2. NoScan \in Scans \cup {NoScan} /\ garbage \in Int /\ 0 \in Time
      /\ NoScan.beg = -1
  BY FastLioAssumption, TimeType DEF Init, NoScan
<1>3. Shapes
  BY <1>2 DEF Init, Shapes, Measure, ImuProcess
<1>4. TypeOK
  <2>1. /\ lidar_buffer = <<>> /\ time_buffer = <<>> /\ imu_buffer = <<>>
        /\ last_timestamp_lidar \in Time /\ last_timestamp_imu \in Time \cup {-1}
    BY <1>2 DEF Init
  <2>2. /\ is_first_lidar \in BOOLEAN /\ lidar_pushed \in BOOLEAN /\ flg_first_scan \in BOOLEAN
    BY DEF Init
  <2>3. /\ meas.lidar \in Scans \cup {NoScan} /\ meas.imu \in Seq(Time)
        /\ lidar_mean_scantime \in {0, ScanTime} /\ feats_undistort \in Scans \cup {NoScan}
    BY DEF Init
  <2>4. imu.need_init <=> imu.n =< MaxInit
    <3>1. imu = [need_init |-> TRUE, n |-> 1, last |-> 0, end |-> garbage]
      BY DEF Init
    <3>2. imu.need_init = TRUE /\ imu.n = 1
      BY <3>1
    <3> QED
      BY <3>2, FastLioAssumption
  <2>5. jumps \in [lidar : 0 .. MaxJumps, imu : 0 .. MaxJumps] /\ gaps \in Nat
    BY FastLioAssumption DEF Init
  <2>7. late \in BOOLEAN
    BY DEF Init
  <2>6. ~ikdtree.root /\ ikdtree.points = {}
    BY DEF Init
  <2> QED
    BY <2>1, <2>2, <2>3, <2>4, <2>5, <2>6, <2>7 DEF TypeOK
<1> QED
  BY <1>1, <1>2, <1>3, <1>4 DEF Init, IInv, Parallel, NothingUndistorted, RegisteredAtItsTime

\* The parts of the invariant that concern the map and the registered scan.
MapPart ==
  /\ MapInv /\ (LocalMap_Points = NoBox => ~ikdtree.root)
  /\ RegisteredAtItsTime

\* Any step of the timer that completes a measure, but for the first scan.
LEMMA ProcessStep ==
  ASSUME IInv, Sync, Process, MapPart', flg_first_scan' = flg_first_scan
  PROVE  IInv'
<1>1. SyncInv /\ jumps' = jumps
  BY SyncInvHolds DEF Sync
<1>2. SyncInv' /\ meas' \in Measure
  BY <1>1, SyncFacts DEF SyncInv
<1>3. /\ imu' \in ImuProcess /\ (imu'.need_init <=> imu'.n =< MaxInit)
      /\ feats_undistort' \in Scans \cup {NoScan}
      /\ NothingUndistorted' /\ gaps' \in Nat /\ late' \in BOOLEAN
  BY <1>2, ProcessFacts
<1>4. /\ last_timestamp_lidar' \in Time /\ last_timestamp_imu' \in Time \cup {-1}
      /\ is_first_lidar' \in BOOLEAN /\ flg_first_scan' \in BOOLEAN
      /\ jumps' \in [lidar : 0 .. MaxJumps, imu : 0 .. MaxJumps]
  BY DEF Sync, IInv, TypeOK
<1>5. meas'.lidar \in Scans \cup {NoScan} /\ meas'.imu \in Seq(Time)
  BY <1>2 DEF Measure
<1>6. TypeOK'
  BY <1>2, <1>3, <1>4, <1>5 DEF TypeOK, SyncInv, MapPart, MapInv, MapType
<1> QED
  BY <1>2, <1>3, <1>6 DEF IInv, Shapes, SyncInv, MapPart

\* A scan is registered under the time it was taken from the buffer with.
LEMMA RegisterFacts ==
  ASSUME IInv, Sync, Process, feats_undistort'.size # "none",
         Register \/ registered' = registered
  PROVE  RegisteredAtItsTime'
<1>1. SyncInv /\ jumps' = jumps
  BY SyncInvHolds DEF Sync
<1>2. meas' \in Measure /\ (jumps.lidar = 0 => meas'.lidar.beg = meas'.beg)
  BY <1>1, SyncFacts DEF SyncInv
<1>3. gaps' = 0 => feats_undistort' = meas'.lidar /\ gaps = 0
  <2>1. gaps \in Nat
    BY DEF IInv, TypeOK
  <2>2. gaps' = gaps \/ gaps' = gaps + 1
    BY DEF Process, ProcessNothing, ProcessInit, ProcessScan
  <2> QED
    BY <1>2, <2>1, <2>2, ProcessFacts
<1> QED
  BY <1>1, <1>2, <1>3 DEF Register, RegisteredAtItsTime, IInv

LEMMA Step == ASSUME IInv, [Next]_vars PROVE IInv'
<1>0. /\ MapInv' /\ SyncInv
      /\ last_timestamp_lidar \in Time /\ last_timestamp_imu \in Time \cup {-1}
      /\ is_first_lidar \in BOOLEAN
      /\ jumps \in [lidar : 0 .. MaxJumps, imu : 0 .. MaxJumps]
  BY MapStep, SyncInvHolds DEF IInv, TypeOK
<1>1. ASSUME SyncInv', UNCHANGED <<workVars, mapVars>>,
             last_timestamp_lidar' \in Time, last_timestamp_imu' \in Time \cup {-1},
             is_first_lidar' \in BOOLEAN,
             jumps' \in [lidar : 0 .. MaxJumps, imu : 0 .. MaxJumps],
             jumps'.lidar = 0 => jumps.lidar = 0
      PROVE  IInv'
  <2>1. meas'.lidar \in Scans \cup {NoScan} /\ meas'.imu \in Seq(Time)
    BY <1>1 DEF SyncInv, Measure
  <2>2. UNCHANGED <<flg_first_scan, imu, feats_undistort, registered, gaps, late,
                    LocalMap_Points, ikdtree>>
    BY <1>1 DEF workVars, mapVars
  <2>3. TypeOK'
    BY <1>1, <2>1, <2>2 DEF IInv, TypeOK, SyncInv
  <2> QED
    BY <1>0, <1>1, <2>2, <2>3 DEF IInv, Shapes, SyncInv, NothingUndistorted, RegisteredAtItsTime
<1>2. CASE LidarCallback
  <2>1. UNCHANGED <<workVars, mapVars, last_timestamp_imu>>
    BY <1>2 DEF LidarCallback, imuVars
  <2> QED
    BY <1>0, <1>1, <1>2, <2>1, ScanArrives
<1>3. CASE ImuCallback
  <2>1. UNCHANGED <<workVars, mapVars, last_timestamp_lidar, is_first_lidar>>
    BY <1>3 DEF ImuCallback, lidarVars
  <2> QED
    BY <1>0, <1>1, <1>3, <2>1, ImuArrives
<1>4. CASE TimerWaits
  <2>1. UNCHANGED <<workVars, mapVars, last_timestamp_lidar, is_first_lidar,
                    last_timestamp_imu, jumps>>
    BY <1>4 DEF TimerWaits, lidarVars, imuVars
  <2> QED
    BY <1>0, <1>1, <1>4, <2>1, WaitFacts
<1>5. CASE TimerFirstScan
  <2>1. /\ UNCHANGED <<LocalMap_Points, ikdtree, imu, feats_undistort, registered, gaps, late>>
        /\ flg_first_scan' = FALSE
    BY <1>5 DEF TimerFirstScan, mapVars
  <2>2. UNCHANGED <<last_timestamp_lidar, is_first_lidar, last_timestamp_imu, jumps>>
    BY <1>5 DEF TimerFirstScan, Sync
  <2>3. SyncInv'
    BY <1>0, <1>5, <2>2, SyncFacts DEF TimerFirstScan
  <2>4. meas'.lidar \in Scans \cup {NoScan} /\ meas'.imu \in Seq(Time)
    BY <2>3 DEF SyncInv, Measure
  <2>5. TypeOK'
    BY <2>1, <2>2, <2>3, <2>4 DEF IInv, TypeOK, SyncInv
  <2> QED
    BY <1>0, <2>1, <2>2, <2>3, <2>5 DEF IInv, Shapes, SyncInv, NothingUndistorted, RegisteredAtItsTime
<1>6. CASE TimerNoPoint
  <2>1. /\ Sync /\ Process /\ flg_first_scan' = flg_first_scan
        /\ UNCHANGED <<LocalMap_Points, ikdtree, registered>>
    BY <1>6 DEF TimerNoPoint
  <2>2. jumps' = jumps /\ (gaps' = gaps \/ gaps' = gaps + 1) /\ gaps \in Nat
    BY <2>1 DEF Sync, Process, ProcessNothing, ProcessInit, ProcessScan, IInv, TypeOK
  <2>3. MapPart'
    BY <1>0, <2>1, <2>2 DEF MapPart, IInv, TypeOK, RegisteredAtItsTime
  <2> QED
    BY <2>1, <2>3, ProcessStep
<1>7. CASE TimerBuild \/ TimerUpdate
  <2>1. /\ Sync /\ Process /\ flg_first_scan' = flg_first_scan /\ FovSegment
        /\ feats_undistort'.size # "none"
        /\ Register \/ registered' = registered
    BY <1>7 DEF TimerBuild, TimerUpdate
  <2>2. RegisteredAtItsTime'
    BY <2>1, RegisterFacts
  <2>3. LocalMap_Points' # NoBox
    BY <1>0, <2>1, FovSegmentFacts DEF IInv, MapInv, MapType
  <2>4. MapPart'
    BY <1>0, <2>2, <2>3 DEF MapPart
  <2> QED
    BY <2>1, <2>4, ProcessStep
<1>8. CASE UNCHANGED vars
  <2>1. SyncInv' /\ UNCHANGED <<workVars, mapVars, last_timestamp_lidar, is_first_lidar,
                               last_timestamp_imu, jumps>>
    BY <1>0, <1>8 DEF vars, lidarVars, imuVars, syncVars, SyncInv, Parallel
  <2> QED
    BY <1>0, <1>1, <2>1
<1> QED
  BY <1>2, <1>3, <1>4, <1>5, <1>6, <1>7, <1>8 DEF Next, Timer

\* The buffers, the measure and the IMU's initialization keep their types, and
\* the IMU messages that wait stay in order (laserMapping.cpp, imu_cbk).
THEOREM TypeCorrect == Spec => []TypeOK
<1>1. Init => IInv
  BY InitInv
<1>2. IInv /\ [Next]_vars => IInv'
  BY Step
<1>3. IInv => TypeOK
  BY DEF IInv
<1> QED
  BY <1>1, <1>2, <1>3, PTL DEF Spec

\* A scan is registered with its own begin time (sync_packages, Process), until
\* the lidar's clock goes back or a measure has no IMU message.
THEOREM ScansKeepTheirTimes == Spec => []RegisteredAtItsTime
<1>1. Init => IInv
  BY InitInv
<1>2. IInv /\ [Next]_vars => IInv'
  BY Step
<1>3. IInv => RegisteredAtItsTime
  BY DEF IInv
<1> QED
  BY <1>1, <1>2, <1>3, PTL DEF Spec

-----------------------------------------------------------------------------
(* The time the filter's state refers to *)

LEMMA LeastNatural ==
  ASSUME NEW S \in SUBSET Nat, S # {}
  PROVE  \E x \in S : \A y \in S : x =< y
<1> DEFINE R == { ss \in Nat \X Nat : ss[1] < ss[2] }
<1>1. IsWellFoundedOn(R, Nat)
  BY NatLessThanWellFounded DEF OpToRel
<1> HIDE DEF R
<1>2. PICK x \in S : \A y \in S : ~(<<y, x>> \in R)
  BY <1>1, WFMin
<1>3. ASSUME NEW y \in S PROVE x =< y
  <2>1. y < x => <<y, x>> \in R
    BY DEF R
  <2> QED
    BY <1>2, <2>1
<1> QED
  BY <1>3

LEMMA StampTypes ==
  ASSUME NEW v \in Seq(Time)
  PROVE  /\ Len(v) \in Nat /\ DOMAIN v = 1 .. Len(v)
         /\ \A k \in 1 .. Len(v) : v[k] \in Time /\ v[k] \in Int
<1>1. Len(v) \in Nat /\ DOMAIN v = 1 .. Len(v)
  OBVIOUS
<1>2. ASSUME NEW k \in 1 .. Len(v) PROVE v[k] \in Time
  OBVIOUS
<1> QED
  BY <1>1, <1>2, TimeType

Stamps(v) == v \in Seq(Time) /\ \A i \in 1 .. Len(v) - 1 : v[i] < v[i + 1]

\* Each of a buffer's stamps is below every later one.
LEMMA StampsOrdered ==
  ASSUME NEW v, Stamps(v), NEW i \in 1 .. Len(v), NEW j \in 1 .. Len(v), i < j
  PROVE  v[i] < v[j]
<1> DEFINE n == Len(v)
           Bad == {k \in 1 .. n : i < k /\ ~(v[i] < v[k])}
<1>1. n \in Nat /\ \A k \in 1 .. n : v[k] \in Int
  BY StampTypes DEF Stamps
<1>2. \A k \in 1 .. n - 1 : v[k] < v[k + 1]
  BY DEF Stamps
<1> HIDE DEF n
<1>3. ASSUME Bad # {} PROVE FALSE
  <2>1. Bad \in SUBSET Nat
    OBVIOUS
  <2>2. PICK x \in Bad : \A y \in Bad : x =< y
    <3> HIDE DEF Bad
    <3> QED
      BY <1>3, <2>1, LeastNatural
  <2>3. x \in 1 .. n /\ i < x /\ ~(v[i] < v[x]) /\ i \in Nat
    BY DEF n
  <2> DEFINE w == x - 1
  <2>4. w \in 1 .. n - 1 /\ w \in 1 .. n /\ w + 1 = x /\ w < x /\ i \in 1 .. n
    BY <1>1, <2>3 DEF n
  <2>5. w \notin Bad
    BY <1>1, <2>2, <2>4
  <2> HIDE DEF w
  <2>6. v[w] < v[x]
    BY <1>2, <2>4
  <2>7. CASE i = w
    BY <2>3, <2>6, <2>7
  <2>8. CASE i # w
    <3>1. i < w
      BY <1>1, <2>3, <2>4, <2>8
    <3>2. v[i] < v[w]
      BY <2>4, <2>5, <3>1
    <3> QED
      BY <1>1, <2>3, <2>4, <2>6, <3>2
  <2> QED
    BY <2>7, <2>8
<1>4. j \in 1 .. n
  BY DEF n
<1> QED
  BY <1>3, <1>4

\* The intervals add up, whatever was cut off: to the last stamp from `end` or,
\* when no stamp is before it, from the first.
LEMMA IntegratedFacts ==
  ASSUME NEW v \in Seq(Time), Len(v) # 0, NEW end \in Int,
         \A i, j \in 2 .. Len(v) : i < j => v[i] < v[j],
         v[1] =< end \/ \A i \in 1 .. Len(v) : end =< v[i]
  PROVE  Integrated(v, end) = IF v[Len(v)] < end THEN 0
                              ELSE v[Len(v)] - (IF v[1] < end THEN end ELSE v[1])
<1> DEFINE n == Len(v)
           step(j) == IF v[j] < end THEN 0
                      ELSE v[j] - IF v[j - 1] < end THEN end ELSE v[j - 1]
           base == IF v[1] < end THEN end ELSE v[1]
           T == [j \in DOMAIN v |-> IF v[j] < end THEN 0 ELSE v[j] - base]
           sum == CHOOSE f : f = [j \in DOMAIN v |-> IF j = 1 THEN 0 ELSE f[j - 1] + step(j)]
<1>1. /\ n \in Nat \ {0} /\ DOMAIN v = 1 .. n /\ \A k \in 1 .. n : v[k] \in Int
      /\ \A i, j \in 2 .. n : i < j => v[i] < v[j]
      /\ v[1] =< end \/ \A i \in 1 .. n : end =< v[i]
  BY StampTypes
<1>2. Integrated(v, end) = sum[n]
  BY DEF Integrated
<1> HIDE DEF n
<1>3. 1 \in 1 .. n /\ n \in 1 .. n /\ base \in Int /\ end =< base
  BY <1>1
<1>4. ASSUME NEW j \in 1 .. n, j # 1
      PROVE  T[j - 1] \in Int /\ j - 1 \in 1 .. n /\ T[j] = T[j - 1] + step(j)
  <2> DEFINE k == j - 1
  <2>1. k \in 1 .. n /\ k < j /\ k + 1 = j /\ v[k] \in Int /\ v[j] \in Int
    BY <1>1, <1>4
  <2>2. k = 1 \/ (k \in 2 .. n /\ j \in 2 .. n)
    BY <1>1, <1>4, <2>1
  <2> HIDE DEF k
  <2>3. k = 1 \/ v[k] < v[j]
    BY <1>1, <2>1, <2>2
  <2>4. T[j] = (IF v[j] < end THEN 0 ELSE v[j] - base)
        /\ T[k] = (IF v[k] < end THEN 0 ELSE v[k] - base)
    BY <1>1, <2>1
  <2>5. step(j) = IF v[j] < end THEN 0 ELSE v[j] - IF v[k] < end THEN end ELSE v[k]
    BY <2>1 DEF k
  <2>6. v[j] < end => v[k] < end \/ k = 1
    BY <1>1, <2>1, <2>3
  <2>7. v[1] < end \/ v[1] = end \/ (end =< v[k] /\ end =< v[j])
    BY <1>1, <1>3, <2>1
  <2>8. base = IF v[1] < end THEN end ELSE v[1]
    OBVIOUS
  <2> HIDE DEF T, step, base
  <2> DEFINE a == v[k]
             b == v[j]
             Tk == T[k]
             Tj == T[j]
             stepj == step(j)
  <2>10. /\ a \in Int /\ b \in Int /\ base \in Int /\ end \in Int /\ end =< base
         /\ Tj = (IF b < end THEN 0 ELSE b - base)
         /\ Tk = (IF a < end THEN 0 ELSE a - base)
         /\ stepj = IF b < end THEN 0 ELSE b - IF a < end THEN end ELSE a
    BY <1>3, <2>1, <2>4, <2>5
  <2>11. a < end \/ a = base \/ (a < b /\ (base = end \/ end =< a))
    BY <1>1, <1>3, <2>1, <2>3, <2>7, <2>8
  <2>12. a < end => base = end \/ b < end
    BY <1>1, <1>3, <2>1, <2>7, <2>8
  <2>13. b < end => a < end \/ a = base
    BY <1>1, <1>3, <2>6, <2>8
  <2> HIDE DEF a, b, Tk, Tj, stepj
  <2>14. Tj = Tk + stepj /\ Tk \in Int
    BY <2>10, <2>11, <2>12, <2>13
  <2>9. T[j] = T[k] + step(j) /\ T[k] \in Int
    BY <2>14 DEF Tj, Tk, stepj
  <2> QED
    BY <2>1, <2>9 DEF k
<1>5. T[1] = 0
  BY <1>1, <1>3
<1>6. T = [j \in DOMAIN v |-> IF j = 1 THEN 0 ELSE T[j - 1] + step(j)]
  <2>1. \A j \in DOMAIN v : T[j] = IF j = 1 THEN 0 ELSE T[j - 1] + step(j)
    BY <1>1, <1>4, <1>5
  <2> HIDE DEF step
  <2> QED
    BY <2>1
<1> HIDE DEF T, step, base
<1>7. sum = [j \in DOMAIN v |-> IF j = 1 THEN 0 ELSE sum[j - 1] + step(j)]
  BY <1>6
<1> HIDE DEF sum
<1>8. \A j \in 1 .. n : sum[j] = IF j = 1 THEN 0 ELSE sum[j - 1] + step(j)
  BY <1>1, <1>7
<1> DEFINE Bad == {j \in 1 .. n : sum[j] # T[j]}
<1>9. ASSUME Bad # {} PROVE FALSE
  <2>1. Bad \in SUBSET Nat
    OBVIOUS
  <2>2. PICK x \in Bad : \A y \in Bad : x =< y
    <3> HIDE DEF Bad
    <3> QED
      BY <1>9, <2>1, LeastNatural
  <2>3. x \in 1 .. n /\ sum[x] # T[x] /\ x # 1
    BY <1>5, <1>8
  <2>4. x - 1 \in 1 .. n /\ T[x] = T[x - 1] + step(x)
    BY <1>4, <2>3
  <2>5. x - 1 \notin Bad
    BY <2>2, <2>3
  <2>6. sum[x - 1] = T[x - 1]
    BY <2>4, <2>5
  <2> QED
    BY <1>8, <2>3, <2>4, <2>6
<1>10. sum[n] = T[n]
  BY <1>3, <1>9
<1> QED
  BY <1>1, <1>2, <1>3, <1>10 DEF T, base, n

\* The messages up to e are the first ones of the buffer.
LEMMA PrefixCount ==
  ASSUME NEW v, Stamps(v), NEW e \in Int
  PROVE  LET n == Cardinality({i \in DOMAIN v : v[i] =< e}) IN
           /\ n \in 0 .. Len(v)
           /\ \A i \in 1 .. n : v[i] =< e
           /\ \A i \in n + 1 .. Len(v) : e < v[i]
<1> DEFINE S == {i \in DOMAIN v : v[i] =< e}
           n == Cardinality(S)
<1>1. /\ Len(v) \in Nat /\ DOMAIN v = 1 .. Len(v)
      /\ \A i \in 1 .. Len(v) : v[i] \in Int
  BY StampTypes DEF Stamps
<1>2. ASSUME NEW k \in Nat
      PROVE  IsFiniteSet(1 .. k) /\ Cardinality(1 .. k) = k
  <2>1. /\ IsFiniteSet(1 .. k)
        /\ Cardinality(1 .. k) = IF 1 > k THEN 0 ELSE k - 1 + 1
    BY FS_Interval
  <2> QED
    BY <2>1
<1>3. n \in 0 .. Len(v) /\ IsFiniteSet(S)
  BY <1>1, <1>2, FS_Subset, FS_CardinalityType
<1>4. ASSUME NEW i \in 1 .. n, ~(v[i] =< e) PROVE FALSE
  <2>1. i \in 1 .. Len(v) /\ i - 1 \in Nat /\ i =< n
    BY <1>1, <1>3
  <2>2. ASSUME NEW j \in S PROVE j \in 1 .. i - 1
    <3>1. j \in 1 .. Len(v) /\ v[j] =< e /\ i # j
      BY <1>1, <1>4
    <3>2. ~(i < j)
      BY <1>1, <1>4, <2>1, <3>1, StampsOrdered
    <3> QED
      BY <2>1, <3>1, <3>2
  <2>3. S \in SUBSET (1 .. i - 1)
    BY <2>2
  <2>4. n =< i - 1
    <3> HIDE DEF S
    <3>1. IsFiniteSet(1 .. i - 1) /\ Cardinality(1 .. i - 1) = i - 1
      BY <1>2, <2>1
    <3> QED
      BY <2>3, <3>1, FS_Subset
  <2> QED
    BY <1>3, <2>1, <2>4
<1>5. ASSUME NEW i \in n + 1 .. Len(v), ~(e < v[i]) PROVE FALSE
  <2>1. i \in 1 .. Len(v) /\ i \in Nat /\ n < i
    BY <1>1, <1>3
  <2>2. ASSUME NEW j \in 1 .. i PROVE j \in S
    <3>1. j \in 1 .. Len(v) /\ (j = i \/ j < i)
      BY <1>1, <2>1
    <3>2. j < i => v[j] < v[i]
      BY <2>1, <3>1, StampsOrdered
    <3> QED
      BY <1>1, <1>5, <2>1, <3>1, <3>2
  <2>3. 1 .. i \in SUBSET S
    BY <2>2
  <2>4. i =< n
    <3> HIDE DEF S
    <3>1. Cardinality(1 .. i) = i
      BY <1>2, <2>1
    <3> QED
      BY <1>3, <2>3, <3>1, FS_Subset
  <2> QED
    BY <1>3, <2>1, <2>4
<1> QED
  BY <1>3, <1>4, <1>5

\* What sync_packages takes are the messages up to the scan's end, and what it
\* leaves are messages from then on.
LEMMA SyncTimes ==
  ASSUME SyncInv, Sync, lidar_pushed => meas.lidar \in Scans
  PROVE  /\ meas'.lidar \in Scans /\ meas'.end \in Int
         /\ Stamps(meas'.imu)
         /\ \A i \in 1 .. Len(meas'.imu) :
              meas'.imu[i] =< meas'.end /\ \E j \in 1 .. Len(imu_buffer) : meas'.imu[i] = imu_buffer[j]
         /\ \A i \in 1 .. Len(imu_buffer') :
              meas'.end =< imu_buffer'[i] /\ \E j \in 1 .. Len(imu_buffer) : imu_buffer'[i] = imu_buffer[j]
         /\ meas'.end =< last_timestamp_imu /\ last_timestamp_imu' = last_timestamp_imu
<1> DEFINE e == Pending.end
           n == TakenCount(e)
           N == Len(imu_buffer)
<1>0. HasBoth /\ last_timestamp_imu >= e /\ last_timestamp_imu' = last_timestamp_imu
  BY DEF Sync, IsServed
<1>1. Pending \in Measure /\ e \in Int
  BY <1>0, PendingFacts DEF Measure
<1>2. Pending.lidar \in Scans
  <2>1. CASE lidar_pushed
    BY <2>1 DEF Pending
  <2>2. CASE ~lidar_pushed
    <3>1. Head(lidar_buffer) \in Scans
      BY <1>0 DEF HasBoth, SyncInv
    <3>2. Pending.lidar = Head(lidar_buffer)
      BY <2>2 DEF Pending, SyncInv, Measure
    <3> QED
      BY <3>1, <3>2
  <2> QED
    BY <2>1, <2>2
<1>3. meas' = [Pending EXCEPT !.imu = TakenImu(e)]
  BY DEF Sync
<1>4. meas'.lidar \in Scans /\ meas'.end = e /\ meas'.imu = TakenImu(e)
  BY <1>1, <1>2, <1>3 DEF Measure
<1>5. Stamps(imu_buffer) /\ imu_buffer # <<>>
  BY <1>0 DEF SyncInv, Stamps, HasBoth
<1>6. /\ N \in Nat \ {0} /\ \A i \in 1 .. N : imu_buffer[i] \in Int
      /\ imu_buffer \in Seq(Time)
  BY <1>5, StampTypes DEF Stamps
<1>7. /\ n \in 0 .. N
      /\ \A i \in 1 .. n : imu_buffer[i] =< e
      /\ \A i \in n + 1 .. N : e =< imu_buffer[i]
  <2>1. CASE Head(imu_buffer) >= e
    <3>1. n = 0 /\ imu_buffer[1] >= e
      BY <1>5, <2>1 DEF TakenCount
    <3>2. ASSUME NEW i \in 1 .. N PROVE e =< imu_buffer[i]
      <4>1. 1 \in 1 .. N /\ (i = 1 \/ 1 < i)
        BY <1>6
      <4>2. 1 < i => imu_buffer[1] < imu_buffer[i]
        BY <1>5, <4>1, StampsOrdered
      <4> QED
        BY <1>1, <1>6, <3>1, <4>1, <4>2
    <3> HIDE DEF n
    <3> QED
      BY <1>6, <3>1, <3>2
  <2>2. CASE ~(Head(imu_buffer) >= e)
    <3>1. n = Cardinality({i \in DOMAIN imu_buffer : imu_buffer[i] =< e})
      BY <2>2 DEF TakenCount
    <3> HIDE DEF n, e
    <3>2. /\ n \in 0 .. N
          /\ \A i \in 1 .. n : imu_buffer[i] =< e
          /\ \A i \in n + 1 .. N : e < imu_buffer[i]
      BY <1>1, <1>5, <3>1, PrefixCount
    <3> QED
      BY <1>1, <1>6, <3>2
  <2> QED
    BY <2>1, <2>2
<1>8. meas'.imu = SubSeq(imu_buffer, 1, n) /\ imu_buffer' = SubSeq(imu_buffer, n + 1, N)
  BY <1>4 DEF TakenImu, Sync
<1> HIDE DEF n, e
<1>9. /\ meas'.imu \in Seq(Time) /\ Len(meas'.imu) = n
      /\ \A i \in 1 .. n : meas'.imu[i] = imu_buffer[i] /\ i \in 1 .. N
  BY <1>6, <1>7, <1>8
<1>10. /\ Len(imu_buffer') = N - n
       /\ \A i \in 1 .. N - n : /\ imu_buffer'[i] = imu_buffer[n + i]
                                /\ n + i \in 1 .. N /\ n + i \in n + 1 .. N
  BY <1>6, <1>7, <1>8
<1>11. Stamps(meas'.imu)
  <2>1. ASSUME NEW i \in 1 .. n - 1 PROVE meas'.imu[i] < meas'.imu[i + 1]
    <3>1. i \in 1 .. n /\ i + 1 \in 1 .. n /\ i \in 1 .. N - 1
      BY <1>6, <1>7
    <3> QED
      BY <1>5, <1>9, <3>1 DEF Stamps
  <2> QED
    BY <1>9, <2>1 DEF Stamps
<1> QED
  BY <1>0, <1>1, <1>4, <1>7, <1>9, <1>10, <1>11

\* Before the first scan is undistorted the state refers to the last IMU message.
\* From then on it refers to last_lidar_end_time_, and no message of an IMU
\* whose clock did not go back is from before it.
Clock ==
  /\ lidar_pushed => meas.lidar \in Scans
  /\ garbage \in Int
  /\ garbage =< 0 =>
       /\ feats_undistort = NoScan => imu.end = garbage /\ clock = imu.last /\ ~late
       /\ feats_undistort # NoScan => imu.last =< imu.end /\ (~late => clock = imu.end)
       /\ jumps.imu = 0 =>
            /\ ~late
            /\ imu.end =< last_timestamp_imu \/ imu.end =< 0
            /\ \A i \in 1 .. Len(imu_buffer) : imu.end =< imu_buffer[i]

LEMMA ClockInit == Init => Clock
<1> SUFFICES ASSUME Init PROVE Clock
  OBVIOUS
<1>1. garbage \in Int /\ ~lidar_pushed /\ Len(imu_buffer) = 0 /\ ~late
  BY FastLioAssumption DEF Init
<1>2. imu.end = garbage /\ clock = imu.last /\ feats_undistort = NoScan
  BY DEF Init
<1> QED
  BY <1>1, <1>2 DEF Clock

\* The steps that leave the filter alone.
LEMMA ClockKept ==
  ASSUME Clock, UNCHANGED <<imu, feats_undistort, clock, late, garbage>>,
         lidar_pushed' => meas'.lidar \in Scans,
         garbage =< 0 /\ jumps'.imu = 0 =>
           /\ jumps.imu = 0
           /\ imu.end =< last_timestamp_imu' \/ imu.end =< 0
           /\ \A i \in 1 .. Len(imu_buffer') : imu.end =< imu_buffer'[i]
  PROVE  Clock'
BY DEF Clock

LEMMA ClockScanArrives == ASSUME Clock, IInv, LidarCallback, garbage' = garbage PROVE Clock'
<1>1. /\ UNCHANGED <<imu, feats_undistort, clock, late, lidar_pushed, meas,
                     imu_buffer, last_timestamp_imu>>
  BY DEF LidarCallback, imuVars, syncVars, workVars
<1>2. jumps'.imu = jumps.imu
  <2>1. jumps' = jumps \/ jumps' = [jumps EXCEPT !.lidar = @ + 1]
    BY DEF LidarCallback
  <2>2. jumps \in [lidar : 0 .. MaxJumps, imu : 0 .. MaxJumps]
    BY DEF IInv, TypeOK
  <2> QED
    BY <2>1, <2>2
<1> QED
  BY <1>1, <1>2, ClockKept DEF Clock

LEMMA ClockImuArrives == ASSUME Clock, IInv, ImuCallback, garbage' = garbage PROVE Clock'
<1>1. UNCHANGED <<imu, feats_undistort, clock, late, lidar_pushed, meas>>
  BY DEF ImuCallback, lidarVars, syncVars, workVars
<1>2. /\ jumps \in [lidar : 0 .. MaxJumps, imu : 0 .. MaxJumps] /\ jumps.imu \in Nat
      /\ last_timestamp_imu \in Int /\ imu_buffer \in Seq(Time) /\ imu.end \in Int
  BY TimeType, FastLioAssumption DEF IInv, TypeOK, Shapes, ImuProcess
<1>3. PICK t \in Time \ {last_timestamp_imu} :
        LET back == t < last_timestamp_imu IN
        /\ jumps' = IF back THEN [jumps EXCEPT !.imu = @ + 1] ELSE jumps
        /\ imu_buffer' = Append(IF back THEN <<>> ELSE imu_buffer, t)
        /\ last_timestamp_imu' = t
  BY DEF ImuCallback
<1>4. t \in Int /\ t >= 0
  BY FastLioAssumption DEF Time
<1>5. ASSUME garbage =< 0, jumps'.imu = 0
      PROVE  /\ jumps.imu = 0
             /\ imu.end =< last_timestamp_imu' \/ imu.end =< 0
             /\ \A i \in 1 .. Len(imu_buffer') : imu.end =< imu_buffer'[i]
  <2>1. ~(t < last_timestamp_imu)
    <3> SUFFICES ASSUME t < last_timestamp_imu PROVE FALSE
      OBVIOUS
    <3>1. jumps' = [jumps EXCEPT !.imu = @ + 1]
      BY <1>3
    <3>2. jumps'.imu = jumps.imu + 1
      BY <1>2, <3>1
    <3> QED
      BY <1>2, <1>5, <3>2
  <2>2. /\ jumps' = jumps /\ imu_buffer' = Append(imu_buffer, t)
        /\ last_timestamp_imu' = t /\ last_timestamp_imu < t
    BY <1>2, <1>3, <1>4, <2>1
  <2>3. /\ imu.end =< last_timestamp_imu \/ imu.end =< 0
        /\ \A i \in 1 .. Len(imu_buffer) : imu.end =< imu_buffer[i]
    BY <1>5, <2>2 DEF Clock
  <2>4. imu.end =< t
    BY <1>2, <1>4, <2>2, <2>3
  <2>5. /\ Len(imu_buffer') = Len(imu_buffer) + 1 /\ Len(imu_buffer) \in Nat
        /\ imu_buffer'[Len(imu_buffer) + 1] = t
        /\ \A i \in 1 .. Len(imu_buffer) : imu_buffer'[i] = imu_buffer[i]
    BY <1>2, <2>2
  <2>6. ASSUME NEW i \in 1 .. Len(imu_buffer') PROVE imu.end =< imu_buffer'[i]
    <3>1. i \in 1 .. Len(imu_buffer) \/ i = Len(imu_buffer) + 1
      BY <2>5
    <3> QED
      BY <2>3, <2>4, <2>5, <3>1
  <2> QED
    BY <1>5, <2>2, <2>4, <2>6
<1> QED
  BY <1>1, <1>5, ClockKept DEF Clock

LEMMA ClockWaits == ASSUME Clock, IInv, TimerWaits, garbage' = garbage PROVE Clock'
<1>1. UNCHANGED <<imu, feats_undistort, clock, late, imu_buffer, last_timestamp_imu, jumps>>
  BY DEF TimerWaits, imuVars, workVars
<1>2. meas' = Pending /\ HasBoth
  BY DEF TimerWaits
<1>3. meas'.lidar \in Scans
  <2>1. CASE lidar_pushed
    BY <1>2, <2>1 DEF Pending, Clock
  <2>2. CASE ~lidar_pushed
    <3>1. Head(lidar_buffer) \in Scans
      BY <1>2 DEF HasBoth, IInv, TypeOK
    <3>2. Pending.lidar = Head(lidar_buffer)
      BY <2>2 DEF Pending, IInv, Shapes, Measure
    <3> QED
      BY <1>2, <3>1, <3>2
  <2> QED
    BY <2>1, <2>2
<1> QED
  BY <1>1, <1>3, ClockKept DEF Clock

\* Any measure: what is known of its messages, and of those left behind.
LEMMA ClockMeasure ==
  ASSUME Clock, IInv, Sync
  PROVE  /\ meas'.lidar \in Scans /\ meas'.lidar # NoScan /\ meas'.end \in Int
         /\ Stamps(meas'.imu) /\ ~lidar_pushed' /\ jumps' = jumps
         /\ \A i \in 1 .. Len(meas'.imu) : meas'.imu[i] =< meas'.end
         /\ \A i \in 1 .. Len(imu_buffer') : meas'.end =< imu_buffer'[i]
         /\ meas'.end =< last_timestamp_imu'
         /\ garbage =< 0 /\ jumps'.imu = 0 =>
              /\ jumps.imu = 0 /\ ~late
              /\ imu.end =< last_timestamp_imu' \/ imu.end =< 0
              /\ \A i \in 1 .. Len(imu_buffer') : imu.end =< imu_buffer'[i]
              /\ \A i \in 1 .. Len(meas'.imu) : imu.end =< meas'.imu[i]
<1>1. SyncInv /\ (lidar_pushed => meas.lidar \in Scans) /\ jumps' = jumps /\ ~lidar_pushed'
  BY SyncInvHolds DEF Clock, Sync
<1>2. /\ meas'.lidar \in Scans /\ meas'.end \in Int
      /\ Stamps(meas'.imu)
      /\ \A i \in 1 .. Len(meas'.imu) :
           meas'.imu[i] =< meas'.end /\ \E j \in 1 .. Len(imu_buffer) : meas'.imu[i] = imu_buffer[j]
      /\ \A i \in 1 .. Len(imu_buffer') :
           meas'.end =< imu_buffer'[i] /\ \E j \in 1 .. Len(imu_buffer) : imu_buffer'[i] = imu_buffer[j]
      /\ meas'.end =< last_timestamp_imu /\ last_timestamp_imu' = last_timestamp_imu
  BY <1>1, SyncTimes
<1>3. meas'.lidar # NoScan
  BY <1>2, TimeType
<1>4. ASSUME garbage =< 0, jumps'.imu = 0
      PROVE  /\ jumps.imu = 0 /\ ~late
             /\ imu.end =< last_timestamp_imu' \/ imu.end =< 0
             /\ \A i \in 1 .. Len(imu_buffer') : imu.end =< imu_buffer'[i]
             /\ \A i \in 1 .. Len(meas'.imu) : imu.end =< meas'.imu[i]
  <2>1. /\ jumps.imu = 0 /\ ~late
        /\ imu.end =< last_timestamp_imu \/ imu.end =< 0
        /\ \A i \in 1 .. Len(imu_buffer) : imu.end =< imu_buffer[i]
    BY <1>1, <1>4 DEF Clock
  <2> QED
    BY <1>2, <2>1
<1> QED
  BY <1>1, <1>2, <1>3, <1>4

\* What UndistortPcl propagates by, from last_lidar_end_time_ or, before the first
\* scan, from the last message.
LEMMA PropagatedFacts ==
  ASSUME NEW m \in Measure, Stamps(m.imu), m.imu # <<>>,
         \A i \in 1 .. Len(m.imu) : m.imu[i] =< m.end,
         imu \in ImuProcess, imu.end =< Last(m.imu),
         imu.last =< imu.end \/ imu.end =< 0
  PROVE  Propagated(m) = m.end - IF imu.last < imu.end THEN imu.end ELSE imu.last
<1> DEFINE v == <<imu.last>> \o m.imu
           n == Len(m.imu)
           a == imu.last
           E == imu.end
           z == m.imu[n]
<1>1. /\ m.imu \in Seq(Time) /\ n \in Nat \ {0} /\ a \in Time /\ a \in Int /\ E \in Int
      /\ m.end \in Int /\ z \in Int /\ z =< m.end /\ Last(m.imu) = z /\ E =< z
      /\ \A i \in 1 .. n : m.imu[i] \in Int /\ m.imu[i] >= 0
  <2>1. m.imu \in Seq(Time) /\ n \in Nat \ {0} /\ a \in Time /\ E \in Int /\ m.end \in Int
    BY DEF Stamps, ImuProcess, Measure
  <2>2. \A i \in 1 .. n : m.imu[i] \in Time
    BY <2>1
  <2>3. n \in 1 .. n /\ Last(m.imu) = z
    BY <2>1 DEF Last
  <2>4. \A t \in Time : t \in Int /\ t >= 0
    BY FastLioAssumption DEF Time
  <2>5. z \in Int /\ z =< m.end /\ E =< z
    <3>1. z \in Time /\ z =< m.end
      BY <2>2, <2>3
    <3>2. E =< z
      BY <2>3
    <3> QED
      BY <2>4, <3>1, <3>2
  <2>6. ASSUME NEW i \in 1 .. n PROVE m.imu[i] \in Int /\ m.imu[i] >= 0
    BY <2>2, <2>4
  <2> HIDE DEF n, z, a, E
  <2> QED
    BY <2>1, <2>3, <2>4, <2>5, <2>6
<1>2. /\ v \in Seq(Time) /\ Len(v) = n + 1 /\ v[1] = a
      /\ \A i \in 1 .. n : v[i + 1] = m.imu[i]
      /\ Last(v) = z
  <2>1. /\ v \in Seq(Time) /\ Len(v) = n + 1 /\ v[1] = a
        /\ \A i \in 1 .. n : v[i + 1] = m.imu[i]
    BY <1>1
  <2>2. n \in 1 .. n
    BY <1>1
  <2> HIDE DEF v, n
  <2> QED
    BY <1>1, <2>1, <2>2 DEF Last
<1>3. a >= 0
  BY <1>1, FastLioAssumption DEF Time
<1> HIDE DEF v, n, a, E, z
<1>4. ASSUME NEW i \in 2 .. Len(v), NEW j \in 2 .. Len(v), i < j PROVE v[i] < v[j]
  <2> DEFINE k == i - 1
             l == j - 1
  <2>1. k \in 1 .. n /\ l \in 1 .. n /\ k < l /\ k + 1 = i /\ l + 1 = j
    BY <1>1, <1>2, <1>4
  <2> HIDE DEF k, l
  <2>2. m.imu[k] < m.imu[l]
    BY <2>1, StampsOrdered DEF n
  <2> QED
    BY <1>2, <2>1, <2>2
<1>5. a =< E \/ \A i \in 1 .. Len(v) : E =< v[i]
  <2>1. CASE a =< E
    BY <2>1
  <2>2. CASE ~(a =< E)
    <3>1. E =< 0
      BY <2>2 DEF a, E
    <3>2. ASSUME NEW i \in 1 .. Len(v) PROVE E =< v[i]
      <4>1. i = 1 \/ (i - 1 \in 1 .. n /\ (i - 1) + 1 = i)
        BY <1>1, <1>2
      <4>2. v[i] \in Int /\ v[i] >= 0
        BY <1>1, <1>2, <1>3, <4>1
      <4> QED
        BY <1>1, <3>1, <4>2
    <3> QED
      BY <3>2
  <2> QED
    BY <2>1, <2>2
<1>6. v[Len(v)] = z /\ Len(v) # 0
  BY <1>1, <1>2 DEF z
<1>7. Integrated(v, E) = IF v[Len(v)] < E THEN 0 ELSE v[Len(v)] - (IF v[1] < E THEN E ELSE v[1])
  BY <1>1, <1>2, <1>4, <1>5, <1>6, IntegratedFacts
<1>8. Integrated(v, E) = z - IF a < E THEN E ELSE a
  BY <1>1, <1>2, <1>6, <1>7
<1>9. Propagated(m) = Integrated(v, E) + IF m.end - z > 0 THEN m.end - z ELSE -(m.end - z)
  BY <1>2 DEF Propagated, v, E
<1>10. (IF m.end - z > 0 THEN m.end - z ELSE -(m.end - z)) = m.end - z
  BY <1>1
<1>11. Propagated(m) = m.end - IF a < E THEN E ELSE a
  BY <1>1, <1>8, <1>9, <1>10
<1> QED
  BY <1>11 DEF a, E

LEMMA ClockProcess ==
  ASSUME Clock, IInv, Sync, Process, garbage' = garbage PROVE Clock'
<1>1. /\ imu \in ImuProcess /\ gaps \in Nat /\ late \in BOOLEAN /\ meas' \in Measure
      /\ imu.need_init => feats_undistort = NoScan
  <2>1. SyncInv /\ jumps' = jumps
    BY SyncInvHolds DEF Sync
  <2> QED
    BY <2>1, SyncFacts DEF IInv, TypeOK, Shapes, NothingUndistorted, SyncInv
<1>2. CASE ProcessNothing
  BY <1>2, ClockMeasure, ClockKept DEF ProcessNothing
<1>3. CASE ProcessInit
  <2> DEFINE n == imu.n + Len(meas'.imu)
             b == n =< MaxInit
             z == Last(meas'.imu)
  <2>1. imu' = [imu EXCEPT !.n = n, !.last = z, !.need_init = b]
    BY <1>3 DEF ProcessInit
  <2>2. /\ UNCHANGED <<feats_undistort, late>> /\ feats_undistort = NoScan /\ clock' = z
    BY <1>1, <1>3 DEF ProcessInit
  <2> HIDE DEF n, b, z
  <2>3. imu'.end = imu.end /\ imu'.last = z
    BY <1>1, <2>1 DEF ImuProcess
  <2> QED
    BY <2>2, <2>3, ClockMeasure DEF Clock
<1>4. CASE ProcessScan
  <2> DEFINE z == Last(meas'.imu)
             e == meas'.end
             short == z < imu.end
  <2>1. /\ meas'.imu # <<>> /\ clock' = clock + Propagated(meas')
        /\ imu' = [imu EXCEPT !.last = z, !.end = e]
        /\ feats_undistort' = meas'.lidar
        /\ late' = (late \/ short)
    BY <1>4 DEF ProcessScan
  <2>2. imu'.end = e /\ imu'.last = z
    BY <1>1, <2>1 DEF ImuProcess
  <2>3. /\ meas'.lidar \in Scans /\ feats_undistort' # NoScan /\ e \in Int
        /\ Stamps(meas'.imu) /\ ~lidar_pushed'
        /\ \A i \in 1 .. Len(meas'.imu) : meas'.imu[i] =< e
        /\ \A i \in 1 .. Len(imu_buffer') : e =< imu_buffer'[i]
        /\ e =< last_timestamp_imu'
    BY <2>1, ClockMeasure
  <2>4. z \in Time /\ z \in Int /\ z >= 0 /\ z =< e /\ imu.end \in Int /\ imu.last \in Int
        /\ imu.last >= 0 /\ \E k \in 1 .. Len(meas'.imu) : z = meas'.imu[k]
    <3>1. meas'.imu \in Seq(Time) /\ Len(meas'.imu) \in Nat \ {0}
          /\ z = meas'.imu[Len(meas'.imu)]
      BY <2>1, <2>3 DEF Stamps, Last
    <3>2. Len(meas'.imu) \in 1 .. Len(meas'.imu)
      BY <3>1
    <3>3. z \in Time /\ z =< e
      BY <2>3, <3>1, <3>2
    <3>4. imu.last \in Time /\ imu.end \in Int
      BY <1>1 DEF ImuProcess
    <3>5. \A t \in Time : t \in Int /\ t >= 0
      BY FastLioAssumption DEF Time
    <3> HIDE DEF z, e
    <3> QED
      BY <3>1, <3>2, <3>3, <3>4, <3>5
  <2>5. ASSUME garbage =< 0
        PROVE  /\ ~late' => clock' = e
               /\ jumps'.imu = 0 => ~late'
    <3>1. ASSUME ~late' PROVE clock' = e
      <4>0. ~late /\ ~short
        <5> HIDE DEF short
        <5> QED
          BY <2>1, <3>1
      <4>1. ~late /\ imu.end =< z
        BY <2>4, <4>0
      <4>2. CASE feats_undistort = NoScan
        <5>1. imu.end =< 0 /\ clock = imu.last
          BY <2>5, <4>2 DEF Clock
        <5>2. Propagated(meas') = e - IF imu.last < imu.end THEN imu.end ELSE imu.last
          BY <1>1, <2>1, <2>3, <4>1, <5>1, PropagatedFacts
        <5> HIDE DEF e
        <5> QED
          BY <2>1, <2>3, <2>4, <5>1, <5>2
      <4>3. CASE feats_undistort # NoScan
        <5>1. imu.last =< imu.end /\ clock = imu.end
          BY <2>5, <4>1, <4>3 DEF Clock
        <5>2. Propagated(meas') = e - IF imu.last < imu.end THEN imu.end ELSE imu.last
          BY <1>1, <2>1, <2>3, <4>1, <5>1, PropagatedFacts
        <5> HIDE DEF e
        <5> QED
          BY <2>1, <2>3, <2>4, <5>1, <5>2
      <4> QED
        BY <4>2, <4>3
    <3>2. ASSUME jumps'.imu = 0 PROVE ~late'
      <4>1. ~late /\ \A i \in 1 .. Len(meas'.imu) : imu.end =< meas'.imu[i]
        BY <2>5, <3>2, ClockMeasure
      <4>2. imu.end =< z
        BY <2>4, <4>1
      <4>3. ~short
        BY <2>4, <4>2
      <4> HIDE DEF short
      <4> QED
        BY <2>1, <4>1, <4>3
    <3> QED
      BY <3>1, <3>2
  <2> HIDE DEF z, e, short
  <2> QED
    BY <2>2, <2>3, <2>4, <2>5 DEF Clock
<1> QED
  BY <1>2, <1>3, <1>4 DEF Process

LEMMA ClockStep == ASSUME Clock, IInv, [Next]_vars PROVE Clock'
<1>1. CASE LidarCallback /\ garbage' = garbage
  BY <1>1, ClockScanArrives
<1>2. CASE ImuCallback /\ garbage' = garbage
  BY <1>2, ClockImuArrives
<1>3. CASE TimerWaits /\ garbage' = garbage
  BY <1>3, ClockWaits
<1>4. CASE TimerFirstScan /\ garbage' = garbage
  <2>1. Sync /\ UNCHANGED <<imu, feats_undistort, clock, late>>
    BY <1>4 DEF TimerFirstScan
  <2> QED
    BY <1>4, <2>1, ClockMeasure, ClockKept
<1>5. CASE (TimerNoPoint \/ TimerBuild \/ TimerUpdate) /\ garbage' = garbage
  BY <1>5, ClockProcess DEF TimerNoPoint, TimerBuild, TimerUpdate
<1>6. CASE UNCHANGED vars
  <2>1. UNCHANGED <<imu, feats_undistort, clock, late, garbage, lidar_pushed, meas,
                    imu_buffer, last_timestamp_imu, jumps>>
    BY <1>6 DEF vars, imuVars, syncVars, workVars
  <2> QED
    BY <2>1, ClockKept DEF Clock
<1> QED
  BY <1>1, <1>2, <1>3, <1>4, <1>5, <1>6 DEF Next, Timer

\* After every propagation (ImuProcess::UndistortPcl) the filter's state refers to
\* the end of the scan, as long as no scan's IMU messages all precede the end of the
\* scan before; and while the IMU's clock does not go back there is no such scan.
THEOREM TimeIntegratedOnce == Spec => []FilterAtScanEnd
<1>1. Init => IInv /\ Clock
  BY InitInv, ClockInit
<1>2. IInv /\ Clock /\ [Next]_vars => (IInv /\ Clock)'
  BY Step, ClockStep
<1>3. IInv /\ Clock => FilterAtScanEnd
  <2>1. IInv => jumps.imu \in Nat
    BY FastLioAssumption DEF IInv, TypeOK
  <2> QED
    BY <2>1 DEF Clock, FilterAtScanEnd
<1> QED
  BY <1>1, <1>2, <1>3, PTL DEF Spec

=============================================================================
