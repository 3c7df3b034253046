------------------------------- MODULE PointLio -------------------------------
(***************************************************************************)
(* The Point-LIO node (Point_LIO/src/laserMapping.cpp, IMU_Processing.hpp).*)
(* It buffers scans and IMU messages as FAST-LIO does, but the messages of *)
(* a scan stay in imu_deque and are popped while the filter goes through   *)
(* the scan's points in the order of their times. imu_last and imu_next    *)
(* are the two messages around the filter's time.                          *)
(*                                                                         *)
(* main() spins the callbacks once and then runs the body of its loop, so  *)
(* callbacks run only while pc = "spin". A scan is its stamp and the time  *)
(* of its last point after it (-1: no point); IMU messages are stamps. The *)
(* two filters, with the IMU as input or as output, keep time in the same  *)
(* way. Modelled for imu_en, which every configuration sets, and without   *)
(* cut_frame and con_frame, which none does.                               *)
(***************************************************************************)
EXTENDS LocalMap, Sequences, SequencesExt, FiniteSets

CONSTANTS
  Second,     \* a second, in the unit of the stamps
  ScanTime,   \* bound on the duration of a scan
  MaxTime,    \* bound on the stamps
  MaxScanGap, MaxImuGap, \* bounds on the time between two stamps of a sensor
  MaxInit,    \* MAX_INI_COUNT
  MaxScans,   \* bound on lidar_buffer
  MaxImu,     \* bound on imu_deque
  MaxJumps,   \* bound on the times a sensor's clock goes back
  Restarts,   \* the stamps it goes back to
  Moves,      \* steps the lidar makes between two scans
  Seen        \* where a scan has points, relative to the lidar

ASSUME PointLioAssumption ==
  /\ Second \in Nat \ {0} /\ ScanTime \in Nat /\ MaxTime \in Nat
  /\ MaxScanGap \in Nat /\ MaxImuGap \in Nat /\ MaxInit \in Nat \ {0}
  /\ MaxScans \in Nat /\ MaxImu \in Nat /\ MaxJumps \in Nat
  /\ Restarts \subseteq Nat
  /\ Moves \subseteq Positions /\ Seen \subseteq Positions

VARIABLES
  use_livox_custom_msg, \* livox_pcl_cbk or standard_pcl_cbk
  lidar_buffer,         \* with time_buffer, which is pushed and popped with it
  last_timestamp_lidar,
  imu_deque, last_timestamp_imu, imu_time_offset,
  meas,                 \* Measures: scan, begin (in the scan), end, size of imu
  lidar_pushed,
  imu,                  \* ImuProcess: imu_need_init_, init_iter_num,
                        \* b_first_frame_, gravity_align_
  init_map,
  imu_last, imu_next,   \* stamps; 0 in a message without content
  is_first_frame,
  t_last,               \* time of the state (time_predict_last_const, t_last)
  time_update_last,     \* time of the covariance
  groups,               \* times left in the scan: feats_down_body by time_seq
  pc,                   \* "spin", "align", "segment", "points"
  pos_lid, LocalMap_Points, cub_needrm, ikdtree,
  lidar_clock,          \* the lidar's clock: stamp of the newest scan it sent
  covered,              \* history: end of the newest scan accepted
  late,                 \* history: a scan was accepted that begins before that
  jumps                 \* history: clocks set back

lidarVars == <<lidar_buffer, last_timestamp_lidar, lidar_clock, covered, late>>
imuVars   == <<imu_deque, last_timestamp_imu, imu_time_offset>>
syncVars  == <<meas, lidar_pushed, imu>>
timeVars  == <<imu_last, imu_next, is_first_frame, t_last, time_update_last>>
mapVars   == <<pos_lid, LocalMap_Points, cub_needrm, ikdtree>>
fixed     == <<use_livox_custom_msg>>
vars == <<lidarVars, imuVars, syncVars, timeVars, mapVars, fixed, init_map, groups, pc, jumps>>

Time   == 0 .. MaxTime
Scans  == [beg : Time, last : -1 .. ScanTime]
NoScan == [beg |-> 0, last |-> -1]
Origin == [i \in Axes |-> 0]
NoBox  == [min |-> Origin, max |-> Origin]

Init ==
  /\ use_livox_custom_msg \in BOOLEAN
  /\ lidar_buffer = <<>> /\ last_timestamp_lidar = -1
  /\ imu_deque = <<>> /\ last_timestamp_imu = -1 /\ imu_time_offset = 0
  /\ meas = [lidar |-> NoScan, end |-> 0, imu |-> 0] /\ lidar_pushed = FALSE
  /\ imu = [need_init |-> TRUE, n |-> 1, first |-> TRUE, aligned |-> FALSE]
  /\ init_map = FALSE
  /\ imu_last = 0 /\ imu_next = 0
  /\ is_first_frame = TRUE /\ t_last = 0 /\ time_update_last = 0
  /\ groups = {} /\ pc = "spin"
  /\ pos_lid = Origin /\ LocalMap_Points = NoBox /\ cub_needrm = {} /\ ikdtree = {}
  /\ lidar_clock = -1 /\ covered = -1 /\ late = FALSE
  /\ jumps = [lidar |-> 0, imu |-> 0]

-----------------------------------------------------------------------------
(* Messages *)

\* What a callback remembers of a stamp: standard_pcl_cbk keeps the whole seconds.
Remembered(t) == IF use_livox_custom_msg THEN t ELSE (t \div Second) * Second

\* "lidar loop back, clear buffer": nothing is cleared, the scan is dropped.
IsLoopBack(s) == s.beg < last_timestamp_lidar

\* The lidar's next scan begins when the one before has ended, or its clock goes back.
Sent(s) ==
  LET back == s.beg < lidar_clock IN
  /\ back => s.beg \in Restarts
  /\ ~back => lidar_clock = -1 \/ s.beg >= lidar_clock + ScanTime
  /\ s.beg =< lidar_clock + MaxScanGap
  /\ jumps' = IF back THEN [jumps EXCEPT !.lidar = @ + 1] ELSE jumps
  /\ jumps'.lidar + jumps'.imu =< MaxJumps
  /\ lidar_clock' = s.beg

LidarCallback ==
  /\ pc = "spin" /\ Len(lidar_buffer) < MaxScans
  /\ \E s \in Scans :
       /\ Sent(s)
       /\ IF IsLoopBack(s)
          THEN UNCHANGED <<lidar_buffer, last_timestamp_lidar, covered, late>>
          ELSE /\ lidar_buffer' = Append(lidar_buffer, s)
               /\ last_timestamp_lidar' = Remembered(s.beg)
               /\ late' = (late \/ s.beg < covered)
               /\ covered' = IF s.beg + s.last > covered THEN s.beg + s.last ELSE covered
  /\ UNCHANGED <<imuVars, syncVars, timeVars, mapVars, fixed, init_map, groups, pc>>

\* Mutant of ImuCallback: a stamp that goes back is stored as it is.
MutImuCallback ==
  /\ pc = "spin" /\ Len(imu_deque) < MaxImu
  /\ \E raw \in Time \ {last_timestamp_imu} :
       /\ raw < last_timestamp_imu => raw \in Restarts
       /\ raw =< last_timestamp_imu + MaxImuGap
       /\ jumps' = IF raw < last_timestamp_imu THEN [jumps EXCEPT !.imu = @ + 1] ELSE jumps
       /\ imu_deque' = Append(imu_deque, raw)
       /\ last_timestamp_imu' = raw
  /\ jumps'.lidar + jumps'.imu =< MaxJumps
  /\ UNCHANGED <<lidarVars, syncVars, timeVars, mapVars, fixed, init_map, groups, pc,
                 imu_time_offset>>

\* A stamp that goes back is moved just behind the newest one, and with it
\* all later stamps; the messages that wait are dropped.
ImuCallback ==
  /\ pc = "spin" /\ Len(imu_deque) < MaxImu
  /\ \E raw \in Time \ {last_timestamp_imu - imu_time_offset} :
       LET timestamp == raw + imu_time_offset
           back      == timestamp < last_timestamp_imu
           stamp     == IF back THEN last_timestamp_imu + 1 ELSE timestamp
       IN
       /\ back => raw \in Restarts
       /\ stamp =< last_timestamp_imu + MaxImuGap /\ stamp =< MaxTime
       /\ jumps' = IF back THEN [jumps EXCEPT !.imu = @ + 1] ELSE jumps
       /\ imu_deque' = Append(IF back THEN <<>> ELSE imu_deque, stamp)
       /\ last_timestamp_imu' = stamp
       /\ imu_time_offset' = stamp - raw
  /\ jumps'.lidar + jumps'.imu =< MaxJumps
  /\ UNCHANGED <<lidarVars, syncVars, timeVars, mapVars, fixed, init_map, groups, pc>>

-----------------------------------------------------------------------------
(* sync_packages *)

HasBoth == lidar_buffer # <<>> /\ imu_deque # <<>>

\* The measure after the first block: the scan taken earlier, or the front one.
Pending ==
  IF lidar_pushed THEN meas
  ELSE LET s == Head(lidar_buffer) IN [meas EXCEPT !.lidar = s, !.end = s.beg + s.last]

\* Mutant of IsServed: the messages need only reach the begin of the scan.
MutIsServed == HasBoth /\ Pending.lidar.last >= 0 /\ last_timestamp_imu >= Pending.lidar.beg

IsServed == HasBoth /\ Pending.lidar.last >= 0 /\ last_timestamp_imu >= Pending.end

\* "lose lidar": a scan without points.
SyncLoses ==
  /\ pc = "spin" /\ HasBoth /\ Pending.lidar.last = -1
  /\ meas' = [meas EXCEPT !.lidar = Head(lidar_buffer)]
  /\ lidar_buffer' = Tail(lidar_buffer)
  /\ UNCHANGED <<last_timestamp_lidar, lidar_clock, covered, late, lidar_pushed, imu,
                 imuVars, timeVars, mapVars, fixed, init_map, groups, pc, jumps>>

SyncWaits ==
  /\ pc = "spin" /\ HasBoth /\ Pending.lidar.last >= 0 /\ ~IsServed
  /\ meas' = Pending /\ lidar_pushed' = TRUE
  /\ UNCHANGED <<lidarVars, imuVars, imu, timeVars, mapVars, fixed, init_map, groups, pc, jumps>>

\* Mutant of TakenCount: messages are taken here also when there is a map.
MutTakenCount ==
  IF Head(imu_deque) >= Pending.end THEN 0
  ELSE Cardinality({i \in DOMAIN imu_deque : imu_deque[i] =< Pending.end})

\* Until there is a map the messages up to the end of the scan are taken here. The
\* loop is not entered when the front one is not before the end.
TakenCount ==
  IF init_map \/ Head(imu_deque) >= Pending.end THEN 0
  ELSE Cardinality({i \in DOMAIN imu_deque : imu_deque[i] =< Pending.end})

\* meas.imu is never cleared; the size counts while ImuProcess initializes.
SyncTakes ==
  /\ pc = "spin" /\ IsServed
  /\ LET recent == <<imu_last, imu_next>> \o SubSeq(imu_deque, 1, TakenCount)
     IN  imu_last' = recent[Len(recent) - 1] /\ imu_next' = Last(recent)
  /\ imu_deque' = SubSeq(imu_deque, TakenCount + 1, Len(imu_deque))
  /\ meas' = [Pending EXCEPT !.imu = IF imu.need_init THEN @ + TakenCount ELSE @]
  /\ lidar_buffer' = Tail(lidar_buffer) /\ lidar_pushed' = FALSE
  /\ UNCHANGED <<last_timestamp_lidar, lidar_clock, covered, late, last_timestamp_imu,
                 imu_time_offset, is_first_frame, t_last, time_update_last, mapVars,
                 fixed, init_map, groups, jumps>>

-----------------------------------------------------------------------------
(* ImuProcess::Process, and where main() goes on. *)

\* No IMU message yet: feats_undistort stays empty.
ProcessNothing == meas'.imu = 0 /\ pc' = "spin" /\ UNCHANGED imu

\* IMU_init averages all of meas.imu again with every scan. The scan that
\* completes it is the first to be used.
ProcessInit ==
  /\ meas'.imu > 0 /\ imu.need_init
  /\ LET n == (IF imu.first THEN 1 ELSE imu.n) + meas'.imu
     IN  /\ imu' = [imu EXCEPT !.first = FALSE, !.n = n, !.need_init = n =< MaxInit]
         /\ pc' = IF n =< MaxInit THEN "spin" ELSE "align"

ProcessScan ==
  /\ meas'.imu > 0 /\ ~imu.need_init
  /\ imu' = [imu EXCEPT !.aligned = TRUE]
  /\ pc' = "segment"

Process == ProcessNothing \/ ProcessInit \/ ProcessScan

\* imu_next = *(imu_deque.front()); imu_deque.pop_front(): undefined without a front.
PopImu ==
  /\ imu_deque # <<>>
  /\ imu_last' = imu_next /\ imu_next' = Head(imu_deque)
  /\ imu_deque' = Tail(imu_deque)
  /\ UNCHANGED <<last_timestamp_imu, imu_time_offset>>

Working == UNCHANGED <<lidarVars, syncVars, fixed, jumps>>

\* ~gravity_align_: imu_last and imu_next are moved to the begin of the scan.
Behind == pc = "align" /\ meas.lidar.beg > imu_next

AlignPop == /\ Behind /\ PopImu
            /\ UNCHANGED <<is_first_frame, t_last, time_update_last, mapVars, init_map, groups, pc>>
            /\ Working

AlignDone == /\ pc = "align" /\ ~Behind /\ pc' = "segment"
             /\ UNCHANGED <<imuVars, timeVars, mapVars, init_map, groups>> /\ Working

-----------------------------------------------------------------------------
(* The map. *)

\* lasermap_fov_segment. cub_needrm is not cleared: every move deletes the
\* slabs of all moves before it as well.
FovSegment ==
  IF LocalMap_Points = NoBox
  THEN LocalMap_Points' = Cube(pos_lid) /\ UNCHANGED cub_needrm
  ELSE /\ LocalMap_Points' = MovedBox(LocalMap_Points, pos_lid)
       /\ cub_needrm' = cub_needrm \cup LeftBehind(LocalMap_Points, pos_lid)

Deleted == IF LocalMap_Points = NoBox \/ LeftBehind(LocalMap_Points, pos_lid) = {} THEN {}
           ELSE {p \in ikdtree : \E b \in cub_needrm' : InBox(p, b)}

WorldPoints(pos) == {[i \in Axes |-> pos[i] + o[i]] : o \in Seen}

\* The first scans become the map when they have init_map_size points.
SegmentInit ==
  /\ pc = "segment" /\ ~init_map
  /\ FovSegment
  /\ \E enough \in BOOLEAN :
       /\ init_map' = enough
       /\ ikdtree' = IF enough THEN WorldPoints(pos_lid) ELSE ikdtree
  /\ pc' = "spin"
  /\ UNCHANGED <<imuVars, timeVars, pos_lid, groups>> /\ Working

\* Later scans are thinned out, sorted by time and grouped (time_compressing).
SegmentScan ==
  /\ pc = "segment" /\ init_map
  /\ FovSegment
  /\ ikdtree' = ikdtree \ Deleted
  /\ \E offsets \in SUBSET (0 .. meas.lidar.last) \ {{}} :
       groups' = {meas.lidar.beg + o : o \in offsets}
  /\ pc' = "points"
  /\ UNCHANGED <<imuVars, timeVars, pos_lid, init_map>> /\ Working

-----------------------------------------------------------------------------
(* The loop over the points. *)

time_current == CHOOSE t \in groups : \A u \in groups : t =< u
AtPoint   == pc = "points" /\ groups # {}
ImuComes  == AtPoint /\ time_current > imu_next

\* is_first_frame: the inputs are moved to the first point, nothing is predicted.
FirstPop ==
  /\ is_first_frame /\ ImuComes /\ PopImu
  /\ UNCHANGED <<is_first_frame, t_last, time_update_last, mapVars, init_map, groups, pc>>
  /\ Working

FirstDone ==
  /\ is_first_frame /\ AtPoint /\ ~ImuComes
  /\ is_first_frame' = FALSE
  /\ t_last' = time_current /\ time_update_last' = time_current
  /\ UNCHANGED <<imuVars, imu_last, imu_next, mapVars, init_map, groups, pc>> /\ Working

\* The state, and the covariance if it is behind, are predicted to the message
\* that comes before the point.
ImuPop ==
  /\ ~is_first_frame /\ ImuComes /\ PopImu
  /\ t_last' = imu_next
  /\ time_update_last' = IF imu_next > time_update_last THEN imu_next ELSE time_update_last
  /\ UNCHANGED <<is_first_frame, mapVars, init_map, groups, pc>> /\ Working

\* The state is predicted to the points and updated with them.
PointUpdate ==
  /\ ~is_first_frame /\ AtPoint /\ ~ImuComes
  /\ t_last' = time_current
  /\ groups' = groups \ {time_current}
  /\ UNCHANGED <<imuVars, imu_last, imu_next, is_first_frame, time_update_last, mapVars,
                 init_map, pc>>
  /\ Working

\* map_incremental and publishing; the updates have moved the lidar. Scans of fewer
\* than five points are not added: every scan with points has that many here.
ScanDone ==
  /\ pc = "points" /\ groups = {}
  /\ \E m \in Moves : pos_lid' = [i \in Axes |-> pos_lid[i] + m[i]]
  /\ ikdtree' = ikdtree \cup WorldPoints(pos_lid')
  /\ pc' = "spin"
  /\ UNCHANGED <<imuVars, timeVars, LocalMap_Points, cub_needrm, init_map, groups>> /\ Working

-----------------------------------------------------------------------------

Next ==
  \/ LidarCallback \/ ImuCallback
  \/ SyncLoses \/ SyncWaits \/ (SyncTakes /\ Process)
  \/ AlignPop \/ AlignDone \/ SegmentInit \/ SegmentScan
  \/ FirstPop \/ FirstDone \/ ImuPop \/ PointUpdate \/ ScanDone

Spec == Init /\ [][Next]_vars

-----------------------------------------------------------------------------
(* Properties *)

\* Types, and: the IMU messages wait in order, after those already taken.
TypeOK ==
  /\ lidar_buffer \in Seq(Scans) /\ imu_deque \in Seq(Time)
  /\ \A i \in 1 .. Len(imu_deque) - 1 : imu_deque[i] < imu_deque[i + 1]
  /\ imu_deque # <<>> => Last(imu_deque) = last_timestamp_imu /\ imu_next =< Head(imu_deque)
  /\ last_timestamp_lidar \in Time \cup {-1} /\ last_timestamp_imu \in Time \cup {-1}
  /\ imu_time_offset \in Nat
  /\ {lidar_pushed, init_map, is_first_frame, late} \subseteq BOOLEAN
  /\ meas.lidar \in Scans /\ meas.imu \in Nat
  /\ imu.need_init <=> imu.n =< MaxInit
  /\ {imu_last, imu_next, t_last, time_update_last} \subseteq Time
  /\ groups \subseteq Int /\ pc \in {"spin", "align", "segment", "points"}
  /\ LocalMap_Points = NoBox => cub_needrm = {} /\ ~init_map
  /\ ~init_map => ikdtree = {} /\ groups = {} /\ is_first_frame

\* None of the four loops that pop imu_deque up to a point's time looks whether it
\* is empty: that sync_packages has seen a message as late as the end of the scan must be
\* enough, also when messages went to the initialization, when the deque was
\* cleared because the IMU's clock went back, and after scans that were dropped.
FrontExists == Behind \/ ImuComes => imu_deque # <<>>

\* The filter's time lies between the two messages imu_last and imu_next, so that
\* the newest message not after it is its input, and the covariance is never
\* ahead of the state: across scans, scans without messages, the hand-over
\* from sync_packages to the loops when the map is built, and an IMU clock that
\* goes back. Not once a scan was accepted that begins before another's end.
InputsAroundState ==
  ~is_first_frame /\ ~late =>
    imu_last =< t_last /\ t_last =< imu_next /\ time_update_last =< t_last

\* Moving the local map deletes no point within DET_RANGE of the lidar, but in
\* slabs that earlier moves had dropped: those are deleted again with every move,
\* though the lidar may have come back to them.
RangeKeptAtFirst ==
  [][\A p \in ikdtree \ ikdtree' :
        \/ \E i \in Axes : p[i] - pos_lid'[i] > DetRange \/ pos_lid'[i] - p[i] > DetRange
        \/ \E b \in cub_needrm : InBox(p, b)]_vars
=============================================================================
