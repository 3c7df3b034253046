-------------------------------- MODULE FastLio --------------------------------
(***************************************************************************)
(* The FAST-LIO node (fastlio/src/laserMapping.cpp, IMU_Processing.hpp):   *)
(* two callbacks fill lidar_buffer/time_buffer and imu_buffer, a timer     *)
(* pairs a scan with the IMU messages up to its end (sync_packages),       *)
(* propagates the filter through them (ImuProcess::Process), moves the     *)
(* local map, registers the scan and adds its points to the map.           *)
(* rclcpp::spin runs one callback at a time, so each is one action.        *)
(*                                                                         *)
(* A scan is its stamp and how many points it has after preprocessing:     *)
(* none, too few to register, or many; its last point comes ScanTime after *)
(* its stamp. An IMU message is its stamp. Of the filter the model keeps   *)
(* the time its state refers to (clock) and the lidar's position.          *)
(***************************************************************************)
EXTENDS LocalMap, Sequences, SequencesExt, FiniteSets

CONSTANTS
  ScanTime,   \* duration of a scan
  MaxTime,    \* bound on the stamps
  MaxScanGap, MaxImuGap, \* bounds on the time between two stamps of a sensor
  MaxInit,    \* MAX_INI_COUNT
  MaxScans,   \* bound on lidar_buffer
  MaxImu,     \* bound on imu_buffer
  MaxJumps,   \* bound on the times a sensor's clock goes back
  Restarts,   \* the stamps it goes back to
  Garbage,    \* what an uninitialized last_lidar_end_time_ may hold
  Moves,      \* steps the lidar makes between two scans
  Seen        \* where a scan has points, relative to the lidar

ASSUME FastLioAssumption ==
  /\ ScanTime \in Nat \ {0} /\ MaxTime \in Nat /\ MaxScanGap \in Nat /\ MaxImuGap \in Nat
  /\ MaxInit \in Nat \ {0}
  /\ MaxScans \in Nat /\ MaxImu \in Nat /\ MaxJumps \in Nat
  /\ Garbage \subseteq Int
  /\ Moves \subseteq Positions /\ Seen \subseteq Positions

VARIABLES
  lidar_buffer, time_buffer, last_timestamp_lidar, is_first_lidar,
  imu_buffer, last_timestamp_imu,
  meas,                \* Measures: scan, begin, end, IMU messages
  lidar_pushed, lidar_mean_scantime, flg_first_scan,
  imu,                 \* ImuProcess: imu_need_init_, init_iter_num, last_imu_,
                       \* last_lidar_end_time_
  feats_undistort,     \* the scan in it; NoScan when it is empty
  pos_lid,
  LocalMap_Points,     \* a cube, or NoBox before Localmap_Initialized
  ikdtree,             \* is there a Root_Node, and the points of the map
  clock,               \* history: the time the filter's state refers to
  registered,          \* history: the scan last registered, the begin of its measure
  jumps, gaps,         \* history: clocks set back; measures without IMU messages
  late,                \* history: was a scan propagated to with IMU messages that
                       \* all precede the end of the scan before
  garbage              \* history: what last_lidar_end_time_ held at first

lidarVars == <<lidar_buffer, time_buffer, last_timestamp_lidar, is_first_lidar>>
imuVars   == <<imu_buffer, last_timestamp_imu>>
syncVars  == <<meas, lidar_pushed, lidar_mean_scantime>>
mapVars   == <<pos_lid, LocalMap_Points, ikdtree>>
workVars  == <<flg_first_scan, imu, feats_undistort, clock, registered, gaps, late>>
vars      == <<lidarVars, imuVars, syncVars, mapVars, workVars, jumps, garbage>>

Time   == 0 .. MaxTime
Scans  == [beg : Time, size : {"none", "few", "many"}]
NoScan == [beg |-> -1, size |-> "none"]
Origin == [i \in Axes |-> 0]
NoBox  == [min |-> Origin, max |-> Origin]

Init ==
  /\ lidar_buffer = <<>> /\ time_buffer = <<>> /\ imu_buffer = <<>>
  /\ last_timestamp_lidar = 0 /\ last_timestamp_imu = -1
  /\ is_first_lidar = TRUE /\ lidar_pushed = FALSE /\ flg_first_scan = TRUE
  /\ meas = [lidar |-> NoScan, beg |-> 0, end |-> 0, imu |-> <<>>]
  /\ lidar_mean_scantime = 0
  /\ garbage \in Garbage
  /\ imu = [need_init |-> TRUE, n |-> 1, last |-> 0, end |-> garbage]
  /\ feats_undistort = NoScan
  /\ pos_lid = Origin /\ LocalMap_Points = NoBox
  /\ ikdtree = [root |-> FALSE, points |-> {}]
  /\ clock = 0 /\ registered = [scan |-> NoScan, beg |-> -1]
  /\ jumps = [lidar |-> 0, imu |-> 0] /\ gaps = 0 /\ late = FALSE

-----------------------------------------------------------------------------
(* Messages *)

\* A later scan starts when the one before has ended. When the stamps go back,
\* lidar_buffer is cleared and time_buffer is not.
LidarCallback ==
  /\ Len(time_buffer) < MaxScans
  /\ \E s \in Scans :
       LET back == ~is_first_lidar /\ s.beg < last_timestamp_lidar IN
       /\ back => s.beg \in Restarts
       /\ is_first_lidar \/ back \/ s.beg >= last_timestamp_lidar + ScanTime
       /\ s.beg =< last_timestamp_lidar + MaxScanGap
       /\ jumps' = IF back THEN [jumps EXCEPT !.lidar = @ + 1] ELSE jumps
       /\ lidar_buffer' = Append(IF back THEN <<>> ELSE lidar_buffer, s)
       /\ time_buffer' = Append(time_buffer, s.beg)
       /\ last_timestamp_lidar' = s.beg
  /\ jumps'.lidar + jumps'.imu =< MaxJumps
  /\ is_first_lidar' = FALSE
  /\ UNCHANGED <<imuVars, syncVars, mapVars, workVars>>

\* Mutant of ImuCallback: messages from before the clock went back are kept.
MutImuCallback ==
  /\ Len(imu_buffer) < MaxImu
  /\ \E t \in Time \ {last_timestamp_imu} :
       LET back == t < last_timestamp_imu IN
       /\ t =< last_timestamp_imu + MaxImuGap
       /\ back => t \in Restarts
       /\ jumps' = IF back THEN [jumps EXCEPT !.imu = @ + 1] ELSE jumps
       /\ imu_buffer' = Append(imu_buffer, t)
       /\ last_timestamp_imu' = t
  /\ jumps'.lidar + jumps'.imu =< MaxJumps
  /\ UNCHANGED <<lidarVars, syncVars, mapVars, workVars>>

\* IMU messages may be lost before this (the subscription keeps 10 of them while
\* a scan is processed), so any later stamp may be the next one.
ImuCallback ==
  /\ Len(imu_buffer) < MaxImu
  /\ \E t \in Time \ {last_timestamp_imu} :
       LET back == t < last_timestamp_imu IN
       /\ back => t \in Restarts
       /\ t =< last_timestamp_imu + MaxImuGap
       /\ jumps' = IF back THEN [jumps EXCEPT !.imu = @ + 1] ELSE jumps
       /\ imu_buffer' = Append(IF back THEN <<>> ELSE imu_buffer, t)
       /\ last_timestamp_imu' = t
  /\ jumps'.lidar + jumps'.imu =< MaxJumps
  /\ UNCHANGED <<lidarVars, syncVars, mapVars, workVars>>

-----------------------------------------------------------------------------
(* sync_packages *)

\* lidar_end_time of a scan: the mean duration stands in when it has no points
\* (size "none": at most one). A scan shorter than half the mean (line 401) does
\* not occur, because every scan with points lasts ScanTime.
EndTime(s, beg) == beg + IF s.size = "none" THEN lidar_mean_scantime ELSE ScanTime

\* The measure after the first block: the scan taken earlier, or the front one.
Pending ==
  IF lidar_pushed THEN meas
  ELSE [meas EXCEPT !.lidar = Head(lidar_buffer), !.beg = Head(time_buffer),
                    !.end = EndTime(Head(lidar_buffer), Head(time_buffer))]

\* Every scan with points lasts ScanTime, so the mean is ScanTime after one.
MeanAfter == IF ~lidar_pushed /\ Head(lidar_buffer).size # "none"
             THEN ScanTime ELSE lidar_mean_scantime

\* imu_buffer is sorted. The loop is not entered when its front is not before
\* the end; otherwise it takes the messages up to the end, the end included.
TakenCount(end) ==
  IF Head(imu_buffer) >= end THEN 0
  ELSE Cardinality({i \in DOMAIN imu_buffer : imu_buffer[i] =< end})
TakenImu(end) == SubSeq(imu_buffer, 1, TakenCount(end))

\* Mutant of IsServed: waits for a message after the end of the scan.
MutIsServed == /\ lidar_buffer # <<>> /\ imu_buffer # <<>>
               /\ last_timestamp_imu > Pending.end

HasBoth  == lidar_buffer # <<>> /\ imu_buffer # <<>>
IsServed == HasBoth /\ last_timestamp_imu >= Pending.end

\* sync_packages returns false.
TimerWaits ==
  /\ HasBoth /\ ~IsServed
  /\ meas' = Pending
  /\ lidar_mean_scantime' = MeanAfter
  /\ lidar_pushed' = TRUE
  /\ UNCHANGED <<lidarVars, imuVars, mapVars, workVars, jumps>>

\* Mutant of Sync: the time of a scan without points stays in time_buffer.
MutSync ==
  /\ IsServed
  /\ meas' = [Pending EXCEPT !.imu = TakenImu(Pending.end)]
  /\ lidar_mean_scantime' = MeanAfter
  /\ lidar_pushed' = FALSE
  /\ imu_buffer' = SubSeq(imu_buffer, TakenCount(Pending.end) + 1, Len(imu_buffer))
  /\ lidar_buffer' = Tail(lidar_buffer)
  /\ time_buffer' = IF Head(lidar_buffer).size = "none" THEN time_buffer ELSE Tail(time_buffer)
  /\ UNCHANGED <<last_timestamp_lidar, is_first_lidar, last_timestamp_imu, jumps>>

\* sync_packages returns true: the measure is complete and its parts are popped.
Sync ==
  /\ IsServed
  /\ meas' = [Pending EXCEPT !.imu = TakenImu(Pending.end)]
  /\ lidar_mean_scantime' = MeanAfter
  /\ lidar_pushed' = FALSE
  /\ imu_buffer' = SubSeq(imu_buffer, TakenCount(Pending.end) + 1, Len(imu_buffer))
  /\ lidar_buffer' = Tail(lidar_buffer)
  /\ time_buffer' = Tail(time_buffer)
  /\ UNCHANGED <<last_timestamp_lidar, is_first_lidar, last_timestamp_imu, jumps>>

-----------------------------------------------------------------------------
(* ImuProcess::Process *)

\* Mutant of Integrated: an interval that begins before `end` is not cut off.
MutIntegrated(v, end) ==
  LET sum[j \in DOMAIN v] ==
        IF j = 1 THEN 0
        ELSE sum[j - 1] + IF v[j] < end THEN 0 ELSE v[j] - v[j - 1]
  IN  sum[Len(v)]

\* The time that the forward propagation integrates from the stamp v[1] to the last
\* one: nothing up to a stamp before `end`, and no interval from before it.
Integrated(v, end) ==
  LET sum[j \in DOMAIN v] ==
        IF j = 1 THEN 0
        ELSE sum[j - 1] + IF v[j] < end THEN 0
                          ELSE v[j] - IF v[j - 1] < end THEN end ELSE v[j - 1]
  IN  sum[Len(v)]

\* What UndistortPcl propagates by: from the last message of the scan before,
\* through this measure's, to the scan's end.
Propagated(m) ==
  LET v    == <<imu.last>> \o m.imu
      rest == m.end - Last(v)
  IN  Integrated(v, imu.end) + IF rest > 0 THEN rest ELSE -rest

\* No message: feats_undistort keeps the scan before.
ProcessNothing ==
  /\ meas'.imu = <<>>
  /\ gaps' = gaps + 1
  /\ UNCHANGED <<imu, feats_undistort, clock, late>>

\* IMU_init over this measure's messages; the scan is not used.
ProcessInit ==
  /\ meas'.imu # <<>> /\ imu.need_init
  /\ LET n == imu.n + Len(meas'.imu)
     IN  imu' = [imu EXCEPT !.n = n, !.last = Last(meas'.imu), !.need_init = n =< MaxInit]
  /\ clock' = Last(meas'.imu)
  /\ UNCHANGED <<feats_undistort, gaps, late>>

\* UndistortPcl
ProcessScan ==
  /\ meas'.imu # <<>> /\ ~imu.need_init
  /\ clock' = clock + Propagated(meas')
  /\ imu' = [imu EXCEPT !.last = Last(meas'.imu), !.end = meas'.end]
  /\ feats_undistort' = meas'.lidar
  /\ late' = (late \/ Last(meas'.imu) < imu.end)
  /\ UNCHANGED gaps

Process == \/ ProcessNothing /\ UNCHANGED pos_lid
           \/ ProcessInit /\ UNCHANGED pos_lid
           \/ /\ ProcessScan
              /\ \E m \in Moves : pos_lid' = [i \in Axes |-> pos_lid[i] + m[i]]

-----------------------------------------------------------------------------
(* timer_callback *)

\* The first scan only sets first_lidar_time.
TimerFirstScan ==
  /\ flg_first_scan /\ Sync
  /\ flg_first_scan' = FALSE
  /\ UNCHANGED <<mapVars, imu, feats_undistort, clock, registered, gaps, late>>

\* "No point, skip this scan!": also while ImuProcess initializes.
TimerNoPoint ==
  /\ ~flg_first_scan /\ Sync /\ Process
  /\ feats_undistort'.size = "none"
  /\ UNCHANGED <<flg_first_scan, LocalMap_Points, ikdtree, registered>>

\* lasermap_fov_segment. What it leaves of the map's points.
SegmentedMap == ikdtree.points \ (IF LocalMap_Points = NoBox THEN {}
                                  ELSE Outdated(ikdtree.points, LocalMap_Points, pos_lid'))
FovSegment == LocalMap_Points' = IF LocalMap_Points = NoBox THEN Cube(pos_lid')
                                 ELSE MovedBox(LocalMap_Points, pos_lid')

\* The points of a scan in the map's frame.
WorldPoints == {[i \in Axes |-> pos_lid'[i] + o[i]] : o \in Seen}

Register == registered' = [scan |-> feats_undistort', beg |-> meas'.beg]

\* No map yet: a scan of more than five points becomes the map (Build).
TimerBuild ==
  /\ ~flg_first_scan /\ Sync /\ Process
  /\ feats_undistort'.size # "none" /\ ~ikdtree.root
  /\ FovSegment
  /\ IF feats_undistort'.size = "many"
     THEN ikdtree' = [root |-> TRUE, points |-> WorldPoints] /\ Register
     ELSE UNCHANGED <<ikdtree, registered>>
  /\ UNCHANGED flg_first_scan

\* The filter is updated with the scan, the odometry published with the stamp
\* meas.end, and the scan added to the map (map_incremental). Fewer than five
\* points: skipped after the map has been moved.
TimerUpdate ==
  /\ ~flg_first_scan /\ Sync /\ Process
  /\ feats_undistort'.size # "none" /\ ikdtree.root
  /\ FovSegment
  /\ IF feats_undistort'.size = "many"
     THEN ikdtree' = [ikdtree EXCEPT !.points = SegmentedMap \cup WorldPoints] /\ Register
     ELSE ikdtree' = [ikdtree EXCEPT !.points = SegmentedMap] /\ UNCHANGED registered
  /\ UNCHANGED flg_first_scan

Timer == TimerWaits \/ TimerFirstScan \/ TimerNoPoint \/ TimerBuild \/ TimerUpdate

Next == (LidarCallback \/ ImuCallback \/ Timer) /\ UNCHANGED garbage

\* The timer fires every 10 ms and the executor runs what is ready.
Spec == Init /\ [][Next]_vars /\ WF_vars(Timer /\ UNCHANGED garbage)

-----------------------------------------------------------------------------
(* Properties *)

\* Types, and: the IMU messages wait in order, after those already taken.
TypeOK ==
  /\ lidar_buffer \in Seq(Scans) /\ time_buffer \in Seq(Time) /\ imu_buffer \in Seq(Time)
  /\ \A i \in 1 .. Len(imu_buffer) - 1 : imu_buffer[i] < imu_buffer[i + 1]
  /\ imu_buffer # <<>> => Last(imu_buffer) = last_timestamp_imu
  /\ last_timestamp_lidar \in Time /\ last_timestamp_imu \in Time \cup {-1}
  /\ {is_first_lidar, lidar_pushed, flg_first_scan} \subseteq BOOLEAN
  /\ meas.lidar \in Scans \cup {NoScan} /\ meas.imu \in Seq(Time)
  /\ lidar_mean_scantime \in {0, ScanTime}
  /\ imu.need_init <=> imu.n =< MaxInit
  /\ feats_undistort \in Scans \cup {NoScan}
  /\ LocalMap_Points = NoBox => ~ikdtree.root
  /\ ~ikdtree.root => ikdtree.points = {}
  /\ jumps \in [lidar : 0 .. MaxJumps, imu : 0 .. MaxJumps]
  /\ gaps \in Nat /\ late \in BOOLEAN

\* A scan is registered with its own begin time: sync_packages takes scan and time
\* from two deques and may keep a scan over several calls, and Process may leave
\* another scan behind. Not after the lidar's clock went back (time_buffer then
\* keeps the stamps of scans that were dropped), nor when a measure had no IMU
\* message (the scan before is then registered again).
RegisteredAtItsTime ==
  jumps.lidar = 0 /\ gaps = 0 => registered.scan.beg = registered.beg

\* After every propagation the filter's state refers to the end of the scan that
\* was undistorted: each stretch of time is integrated once, over the borders of
\* scans, over scans whose IMU messages were lost, messages left in the buffer and
\* clocks that went back. Not once the messages of a scan all precede the end of
\* the scan before (none of them is integrated, and the rest from the last of them
\* to the scan's end reaches back over time that was): only an IMU clock that goes
\* back makes such a scan. Nor if last_lidar_end_time_, which nothing initializes,
\* starts above the IMU's stamps.
FilterAtScanEnd ==
  garbage =< 0 =>
    /\ late => jumps.imu > 0
    /\ ~late /\ feats_undistort # NoScan => clock = imu.end

\* Moving the local map never deletes a point within DET_RANGE of the lidar.
RangeKept ==
  [][\A p \in ikdtree.points \ ikdtree'.points :
        \E i \in Axes : p[i] - pos_lid'[i] > DetRange \/ pos_lid'[i] - p[i] > DetRange]_vars

\* The scan at the front only ever waits for IMU messages up to its end: again and
\* again a scan is taken, or the IMU has not passed the front one. Not after the
\* lidar's clock went back.
ScansTaken ==
  \/ []<>(\/ lidar_buffer = <<>> \/ jumps.lidar > 0
          \/ last_timestamp_imu < Head(lidar_buffer).beg + ScanTime)
  \/ []<><<Len(lidar_buffer') < Len(lidar_buffer)>>_vars
=============================================================================
