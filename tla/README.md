# TLA+ verification of lidar_detection

This directory holds TLA+ models of the perception stack of this repository,
TLC configurations that check them, and TLAPS proofs about them. Paths below
are relative to the repository root; `LD` is
`lidarDetection/src/lidarDetection`, `LIO` is `lidarDetection/src/fastlio`,
`PLIO` is `lidarDetection/src/Point_LIO` and `DRV` is
`lidarDetection/src/livox_ros_driver2/src`.

## 1. The system

Point clouds flow through a chain of ROS 2 nodes. Each node of `LD` is its own
process and spins one thread, so its callbacks never overlap; only tf2's
listener has a thread of its own. The driver and the map of the odometry have
threads that share memory.

| Component | Source | State | Operations |
|---|---|---|---|
| Obstacle detector | `LD/src/obstacle_detector.cpp`, `LD/include/lidar_detection/obstacle_detector.hpp` | previous frame, id counter, size history, UKF filters, match counts, smoothing pool, global parameters | `lidarPointsCallback` (one frame), `odomCallback`, the parameter callback |
| Matching | `obstacle_detector.hpp:745-816` | vectors local to one call | `connectionMatrix`, `hungarian`, `hungarianFind` |
| UKF | `LD/include/lidar_detection/ukf.hpp` | state, covariance, time of the last measurement | `ProcessMeasurement` |
| Reconfigure window | `LD/scripts/reconfigure.py` | widgets, defaults, a request in flight | `set_parameter`, `reset_defaults` |
| Obstacle frame transformer | `LD/src/obstacle_to_other_frame_transformer.cpp` | two smoothing caches, the TF buffer | `ObstacleCallback` |
| Odometry transformer | `LD/src/odom_to_baselink_transformer.cpp` | TF buffer | `odomCallback` |
| Navigation interface | `LD/src/interface.cpp` | TF buffer | four callbacks |
| Map launcher | `LD/src/map_launcher.cpp` | the loaded map | constructor, timer |
| SORT tracker | `lidarDetection/src/lidarSORT/src` | tracks, dead tracks | `SORT.update` |
| YOLO node | `realsense/yolo_realsense/yolo_realsense/detection_node.py` | last images, camera intrinsics | three camera callbacks, one timer, on a multi-threaded executor |
| Livox driver | `DRV` | handshake bits and connection state per lidar, ring of frames, semaphore, exit signal | SDK callbacks, `PushLidarData`, the poll thread, `~DriverNode` |
| FAST-LIO node | `LIO/src/laserMapping.cpp`, `LIO/src/IMU_Processing.hpp` | message buffers, the scan being assembled, IMU bookkeeping, local map cube | scan and IMU callbacks, the timer |
| Point-LIO node | `PLIO/src/laserMapping.cpp`, `PLIO/src/IMU_Processing.hpp` | message buffers, the two IMU messages around the filter's time, times of state and covariance, local map cube | scan and IMU callbacks, the body of `main`'s loop |
| ikd-Tree | `ikd-Tree/ikd_Tree.cpp`, the same file in both LIO packages | the tree, points removed, the log of a rebuild, three mutexes, a counter | `Build`, `Add_Points`, `Delete_Point_Boxes`, `acquire_removed_points`, `Nearest_Search`, the rebuild thread |

Interaction: driver and LIO publish `/cloud_registered_body` and `/Odometry`;
the detector publishes `/detected_objects`; the transformer classifies the
detections as static or dynamic and publishes them in the map, base_link or
lidar_body frame; the interface forwards them to navigation. The reconfigure
window calls the detector's `set_parameters` service. Nothing is persisted.

What is hard here, and what makes each part correct:

* *Matching* mutates the vectors it searches, recursively and across rows. It
  must return a matching, terminate, and its result must be understood: it is
  not the maximum matching a comment promises.
* *Identity keeping* spreads one obstacle's identity over five containers that
  are updated at different points of a frame, with early returns between them
  and an index that can be -1. Ids must be unique in a frame, a lost id must not
  come back, filters must belong to obstacles of the last frame.
* *Tuning* crosses two processes, a timeout, a queue and a callback that runs
  before the value it is told about is stored.
* *Frames and transforms*: a transform may be missing or newer than the data, and
  the smoothing caches carry what was published from frame to frame. A published
  box must stay near its obstacle.
* *The map*: deletion marks are lazy, so what a node says of its subtree, what a
  search prunes and what a rebuild keeps all depend on which marks have been
  pushed down. The tree must behave as a bag of points. A second thread rebuilds
  subtrees while the first changes and searches them.
* *Assembling measures*: scans and IMU messages arrive in any relative order, get
  lost or go back in time, and are popped from three deques. Every scan must be
  registered with its own time and every stretch of time integrated once; the
  local map must not drop what the lidar sees.
* *Point by point*: Point-LIO takes IMU messages from the deque in five places,
  four of which do not look whether there is one. The filter's time must stay between the
  two messages it works with.
* *The driver*: a ring without a lock, a wake-up that depends on an unlocked read,
  SDK answers in any order, a destructor that joins a thread that may be blocked.
* *YOLO node* (not modelled): two threads share unprotected fields.

## 2. Modules and code

| Module | Models |
|---|---|
| `Matching` | the relation between a connection matrix and the vector `hungarian` returns (first-fit) |
| `GreedyMatching` | abstract specification: one row per step takes its first free column |
| `Hungarian` | the code: the row loop, the call stack of `hungarianFind` with each frame's `j`, `right_connected`, `right_pair` |
| `Tracker` | `publishDetectedObjects` with `obstacleTracking`: one action per frame |
| `MatchingProofs` | theorems about `Hungarian` and `Tracker` |
| `ParameterTuning` | reconfigure window, request queue, parameter callback |
| `ParameterTuningProofs` | its theorems |
| `ObstacleFrames` | `ObstacleCallback` of the frame transformer, with the transform listener |
| `ObstacleFramesProofs` | its theorems |
| `PointStore` | abstract specification of the odometry's map: a bag of points, and the removed ones |
| `KdNode` | one node of the ikd-Tree: counters, marks, box, and how they pass between a node and its sons |
| `KdTree` | the ikd-Tree as one thread sees it |
| `KdSearch` | its nearest neighbour search, with the heap |
| `KdTreeProofs` | theorems about `KdNode`, `KdTree` and `KdSearch` |
| `KdTreeRebuild` | its rebuild thread against the mapping thread and parallel searches |
| `KdTreeRebuildProofs` | its theorems |
| `LocalMap` | `lasermap_fov_segment`, the cube that follows the lidar |
| `FastLio` | the FAST-LIO node: two callbacks and the timer, with `LocalMap` |
| `FastLioProofs` | theorems about both |
| `PointLio` | the Point-LIO node: two callbacks and the loop of `main`, with `LocalMap` |
| `PointLioProofs` | theorems about both |
| `LivoxDriver` | handshake, ring, poll thread and shutdown of the driver |
| `LivoxDriverProofs` | its theorems |
| `MC...` | instances for TLC |

### Hungarian

`matrix` is the set of the cells that are 1. The initial states are the
matrices without an empty row or column. `connectionMatrix` builds no others; not all of these,
because it numbers rows and columns as the pairs mention them, but which orders occur
depends on the ids that previous boxes share, and nothing here depends on the order. Actions are the code's steps: `CallFind`
(line 808), `NextColumn` (the loop's increment when the test of line 789
fails), `TryColumn` (lines 790-795, with the recursive call), `ReturnFalse`
(line 798), `FinishRow` (line 807). `return true` unwinds the whole stack at once
because every caller does the same assignment on the way (`Augmented`).

The recursion is modelled although it turns out to be dead: `AugmentingIsDead`
says that the stack never holds two frames. The reason is that
`right_connected` is created once, outside the row loop, and marks exactly the
columns that are taken. So the search is first-fit, which is what
`GreedyMatching` specifies and `RefinesGreedy` checks.

### Tracker

A frame is a function from cluster index to box; the temporary id `-(i+1)`
identifies the same index. `compareBoxes` depends on positions and sizes that are
abstracted, so the similar pairs are an arbitrary relation `assoc`. The matching
of a frame is any `matches` that satisfies `FirstFit`; by theorem
`ResultIsFirstFit` of `MatchingProofs` that is what the code computes.
`pre_ids[matches[j]]` (line 577) with `matches[j] = -1` reads the word before the
vector's buffer. `JunkIds` is the set of values that read can yield; on the
64-bit glibc builds the node targets this is the high half of the chunk size, 0.
`PublishTracked` is a frame in which `obstacleTracking` reaches its loop,
`PublishUntracked` one in which it is not called or returns early,
`ToggleTracking` a change of `use_tracking`. `wrapped` and the `via` field are
history variables. Of a box the model keeps its id and its height, which
`publishDetectedObjects` fixes at first sight (lines 607-625). `Lifted` is the `cwiseMax` of
line 621: the height a box has in its first frame is published as it is, and from the second on it is
at least `Floor`.

### ParameterTuning

`queue` are `set_parameters` requests that the detector has not handled,
`waiting` is the window inside `spin_until_future_complete`, `todo` what
`reset_defaults` has left to send. `AcceptSet` is rclcpp handling one request: the
callback copies the node's parameters to the globals, then rclcpp stores the new
value. `RejectSet` is a value of the wrong type, e.g. `1` typed for a double.
`StopWaiting` covers the reply, the one-second timeout and an exception alike:
in each case the window goes on and the request stays sent. Text out of the
window's range is never sent and is left out. `min_x` and the five bounds like it
are shown by the window and never copied to `MIN_POINT`/`MAX_POINT`; such a
parameter is in `Displayed` and not in `Reread`.

### ObstacleFrames

`Scan` is external: a scan moves the lidar, sends a transform (`tfs`) and, through
the detector, the detections of any of the obstacles (`msgs`). `ReceiveTransform`
is the listener's thread. `Classify` is the callback up to its publication in the
modes `map` and `lidar_body` (which publishes the same arrays: line 57 speaks of
the lidar's frame, the code leaves them in the map's). In mode `baselink` the callback
looks up transforms twice more, `StaticToBase` and `DynamicToBase`, and the
listener may run in between. A failed lookup gives an empty array, which is
smoothed, cached and published like any other. Obstacles stand still, velocities are exact, so
whatever is misplaced or misclassified is so by this node. Places are integers
on a line; a box's size is a class, because smoothing only asks whether two sizes
are close. `AlignObstacleToFrame` leaves the centre and is left out. The two arrays
`Classify` makes are the message restricted to the slow and to the fast detections: boxes keep
the place they had in the message, so an array is a function on some of the places and its
order is theirs; nothing in the code depends on the indexes.

### PointStore, KdNode, KdTree and KdSearch

A node (`KdNode`) is a record with the fields of `KD_TREE_NODE` that decide
something: counts, box, the marks and their pending copies for the sons. The
operators bear the names of the code's functions and return the tree as the
function leaves it; every action is one call of the map's interface, for one
point or one box, because the code's loops over points and boxes do the same
for each. Floats are integers. `nth_element` puts points of
equal coordinate in any order, so `BuildTrees` is the set of the trees that
`BuildTree` may yield. `content` and `gone` are history variables, computed from the nodes, and
are the refinement mapping to `PointStore`.

The code's recursive functions are recursive functions on `Visited(t)`, the subtrees a visit of
`t` can meet with the marks above them pushed down, so that they can be reasoned about.
`Search` of `KdSearch` hands one heap from subtree to subtree, so its value at a subtree is a function of the
heap; the loops of the heap (`FloatUp`, `MoveDown`) and of `Nearest_Search` (`Drain`) are functions of the
number of turns. A search
changes the tree, too, because it pushes marks down; which nodes it opens depends on the heap, so in `KdTree`
`NearestSearch` may open any (`Opened`), and `NearestExact` says that the search of `KdSearch` leaves one
of these trees. Which of several equally near points are found is up to the tree's shape; `NearestExact` asks that
what is found is live, in order, and has as many points within each distance as the tree has, or `k`.

`Multi_Thread_Rebuild_Point_Num` is larger than any tree here, so rebuilds run in
the caller. That `Rebuild` can find no live point, would leave the root null and make `Add_Points`
dereference it is what `RootStays` excludes.

### KdTreeRebuild

One subtree `X` that is being rebuilt, with the set of its live points, and of the rest of the
tree the two ancestors `F` and `G` that deletion marks pass on their way to `X`; or `X` is the `whole` map.
`Rebuilder` is `multi_thread_rebuild` lock by lock; `Mapping` is the thread that
calls `Add_Points` and the like; `Readers` are the OpenMP threads of the
parallel `Nearest_Search` (`laserMapping.cpp:672`), during which the mapping thread
does nothing else.

An operation of the mapping thread is cut where another thread can come between:

* `Check` reads `Rebuild_Ptr`. Below `F` every operation on `X` has a check of its own (lines 810, 1014, 1370). On the
  whole map `Add_Points` looks once (line 513), and the deletion and the addition that follow run under that
  one look (`Calls`). When it found no rebuild, both run without a lock (`ApplyFree`), and the
  deletion may ask for the rebuild of the root.
* `ApplyLocked` is what is done under `working_flag_mutex`, with its log entry; for the pair of `Add_Points` it is one
  critical section (lines 532-545).
* `UpdateF` is what follows the unlock at 840, 1028 or 1047: `Update(F)` reads `X` and writes its `father_ptr` through copies of
  `F`'s pointers.
* A search first reads the boxes of `F`'s sons (`"look"`), then `Rebuild_Ptr` (`ReaderCheck`), then counts itself in. A box
  search takes `search_flag_mutex` only for a son that is being rebuilt, and not even there when the box covers `F`.

The test `Rebuild_Ptr == nullptr || *Rebuild_Ptr != ...` is one step: the pointer
is no atomic and the optimized build loads it once, so what decides is when it is read.

`Holders` are the threads with a pointer into `X`; at the swap they become `replaced`, and a thread leaves that set
when it drops the pointer. So when the old tree is freed `replaced` names those who may still read it.
The code does leave some there: `Update` after the unlock, a search between the boxes and its check, the
pointer of `Push_Down`, a box search without the mutex, the second operation of `Add_Points`. All five are
behaviours of the model. `NoUseAfterFree` says that there is nobody else, i.e. that who keeps to the protocol is safe.

`astray` collects the points that a race was about; `ContentKept` is a statement on each
other point, and goes on after a race. The races are: a log entry that is stale
because `rebuild_flag` is reset after the mutexes are released (line 352; the operation's points); an addition of
`Add_Points` after its deletion asked for the rebuild (line 519; its point when it comes after `flatten` and before the end of the
rebuild, since it is neither locked nor logged, and all points when it runs during `flatten` or in the old tree); and,
for all points, a mark that the swap's update of the ancestors clears before it has reached the sons
(line 345) or that is written into the old tree.

The state `crashed` is a null pointer read by the rebuild thread: the new root of
a subtree without a live point (line 332), or `*Rebuild_Ptr` after `Add_by_point` or
`Delete_by_range` withdrew a rebuild of the whole map without a lock (lines 843, 1051). `SearchExcluded` says `ptr` because a
withdrawn rebuild lets searches in before the rebuild thread notices. Nothing is claimed of what follows a crash.

### LocalMap and FastLio

`LidarCallback` and `ImuCallback` are the subscriptions, `Timer...` the outcomes of
one timer call: it always runs `sync_packages` (`TimerWaits`, `Sync`), then, in this order,
takes note of the first scan, runs `ImuProcess::Process`, skips an empty
scan, moves the local map and registers. `clock` is the time that the
propagation has brought the filter to: the sum of the intervals that `UndistortPcl` integrates, cut at
`last_lidar_end_time_` as line 262 does. `late` records that a scan was propagated to with IMU
messages that all precede the end of the scan before. This happens when the IMU's clock goes back
and the messages that follow are sparse: line 249 then skips every interval, but the rest that is
propagated at the end (lines 293-294) runs from the last of these messages, over time that was already
integrated, and the filter's time stays ahead of the scans for good. `FilterAtScanEnd` says that
without such a scan the filter is at the scan's end, and that only an IMU clock that goes
back makes one. `registered` pairs the scan last
registered with the begin time it was registered under. `Garbage` is what the
uninitialized `last_lidar_end_time_` may hold. `time_sync_en` is false in every
configuration, so the IMU's stamps are taken as they are. Every scan with points
lasts `ScanTime`; size `"none"` is a scan of at most one point, for which `sync_packages` uses the mean duration. The branch for a
scan shorter than half the mean (lines 401-402) has no counterpart, since no such scan occurs under this assumption. `flg_EKF_inited` and the thinning in `map_incremental` choose
which points are added; the model adds all.

`RoomAssumption` states when the dropped slab is out of range. The configurations
fulfil it except `avia.yaml` (`det_range` 450 in a cube of 1000, where the
walls are both near from the start).

### PointLio

`main` spins the callbacks, then runs the body of its loop, all in one thread:
callbacks are enabled while `pc` is `"spin"`. `SyncLoses`, `SyncWaits`, `SyncTakes` are the
outcomes of `sync_packages`; the last one is conjoined with `Process`, because
`ImuProcess::Process` runs in the same iteration and decides where it goes on. `"align"` is the loop
that runs once, when the IMU is initialized; `"segment"` moves the map and, until there is one, only
collects points; `"points"` is the loop over the groups of points of equal time
(`time_compressing`), whose times are `groups`. The code has that loop twice, for the IMU as
input and as output of the filter; both keep the same times (`t_last` is called
`time_predict_last_const` in one of them), so one model stands for both.
Each pop of `imu_deque` is a step of its own, and `FrontExists` asks of the state before it
that there is something to pop.

The lidar's and the IMU's clocks may go back (a driver that restarts, a bag that is
played again). `standard_pcl_cbk` remembers whole seconds only (line 214), which `Remembered`
keeps; `late` records that a scan was accepted that begins before another's
end, and `InputsAroundState` is claimed until then. `imu_cbk` moves a stamp that goes back, and all after it,
behind the newest one. `cub_needrm` is emptied by the FAST-LIO
node with every move and never by this one: line 151 only releases unused capacity.
`RangeKeptAtFirst` therefore excepts points in slabs dropped earlier; without
the exception the property fails as soon as the lidar comes back.

### LivoxDriver

`InfoChange`, `SendOption`, `InfoDone` are `LidarInfoChangeCallback`, which holds
`config_mutex_` while it sends one command per option; `OptionSet`,
`OptionTimeout`, `OptionRefused` are the answers. `PushBegin` to `PushSignal` are
`StoragePointData` and `PushLidarData` of the raw data thread; `stored` is its
write of `wr_idx` while it is in the store buffer of an x86 core. `Poll...`
is the poll thread, `RequestExit`, `SetValue`, `Join` the destructor. A slot holds
the index of the frame in it, so that a frame that is overwritten or read while
it is written is noticed. One lidar; the IMU thread runs the same loop on a list
with a mutex and is left out, so is the format `PclMsg`. On ARM, which
reorders more, the ring has no fence at all and nothing is claimed.

## 3. Runs

| Run | Shows |
|---|---|
| `hungarian` | for all matrices of 3 x 4 without an empty row or column: no recursion, the greedy specification is implemented, every call returns |
| `tracker` | ids, filters and heights over all frames of up to 2 clusters |
| `tracker_stray` (violation) | a box inherits an id from a box it was not matched with (`obstacle_detector.hpp:576-577`) |
| `tuning` | late, rejected and timed-out requests: the globals are at most one parameter behind, a reset restores the node's parameters and always ends |
| `tuning_stale` (violation) | after an accepted change clouds are processed with the old value (`lidarDetection/README.md:91`) |
| `kdtree` | the ikd-Tree is a bag of points for every sequence of calls; what is read of it (`size`, `validnum`, box and nearest neighbour searches) is exact; the root stays |
| `kdtree_rebuild` | rebuilding excludes searches, frees no tree in which a thread is that keeps to the protocol, loses and revives no point but those the listed races were about, and ends |
| `fastlio` | scans keep their times, the filter's time is the scan's end unless the IMU's clock went back too far, the moving map keeps what is in range, scans are taken |
| `point_lio` | no loop pops an empty deque, the filter's time stays between its two IMU messages, a move of the map drops nothing in range that earlier moves had not dropped |
| `livox_driver` | frames leave the ring whole and in order, sampling waits for every option, no wake-up is lost for good, the destructor returns |
| `obstacle_frames` | published boxes are as near their obstacles as the transforms are late |
| `obstacle_static` (violation) | a standing obstacle is published as dynamic when the lidar moves (`obstacle_to_other_frame_transformer.cpp:150`) |

Bounds. *hungarian*: 3 rows and 4 columns contain rows that compete for a
column, rows that stay unpaired and columns that no row takes; theorems cover
every size. *tracker*: two clusters give a contested match and an unpaired box;
`IdLimit` 3 makes the counter wrap within a few frames; `MaxCount` 2 stops the
match counters, and only frames that would exceed it are cut; of three heights one is below the floor. Theorems cover
every number of clusters, limit and junk set. *tuning*: three parameters (a
checkbox, a scalar, and one the callback does not copy), two values, four
requests in the queue: a whole reset and one earlier late request fit.

*kdtree*: four nodes, deleted ones included, rebuild at the root and below it, hold a
marked subtree under a marked one, and let a son be null; two points share a voxel and two an x.
`MaxRemoved` cuts the removed points that wait. *kdtree_rebuild*: two points,
a box with one of them, two searching threads, two log entries (a mark that is
pushed down and the operation after it, or the deletion and the addition of `Add_Points`). *fastlio*: a scan every 2 or 3 units up to 8, IMU messages with gaps up
to 4 (so a scan may have none), one jump back of either clock, the IMU's to 3, where the next gap
can leave a scan with nothing but messages from before the last one's end, two
places in each buffer; a cube of 38 that a move of 10 shifts by 9, and points near
the lidar as well as in the slab it leaves. *point_lio*: the same map on one axis; stamps up to 5,
scans without points, with points at one time or at two, two of them and two IMU messages waiting, one jump back of either clock,
within a second (two units) or across one: a message can be taken by the
initialization, by the map's first scans, by the alignment or by the loop over points, and a jump can fall between any two of them. *livox_driver*: two slots and indexes that wrap at four fill
and wrap within a few frames; the lidar may report itself twice, so two
configurations overlap. *obstacle_frames*: two obstacles of one size with one of
another size between them, three poses; one transform and one
array under way, which is how late a message can be.

Deadlock is checked except where the system stops: `hungarian` (the call returns),
`kdtree_rebuild` (the destructor has joined the thread, or the process crashed),
`fastlio` and `point_lio` (stamps are bounded by `MaxTime`).

Fairness. `HungarianFairSpec` assumes that the thread that runs the function
goes on (weak fairness of `HungarianNext`): no other thread touches its data. `ParameterTuning!FairSpec`
assumes weak fairness of the window's own steps: Qt's event loop returns from
`spin_until_future_complete` by its timeout and continues the loop of
`reset_defaults`. Nothing is assumed of the detector, which may never answer.
`KdTreeRebuild!FairSpec` assumes that each thread runs and that a mutex or counter
that becomes free again and again is got at last (strong fairness; the
code polls every microsecond or blocks in `pthread_mutex_lock`). Calls of the
mapping thread are not fair. `FastLio!Spec` assumes that the timer, which is due every
10 ms, is served by the single-threaded executor; nothing is assumed of the sensors.
`LivoxDriver!FairSpec` assumes that the threads run and that a lidar that streams
keeps sending; strong fairness only for the two tests that find the ring empty,
because frames are 50 ms or more apart. `ShutdownEnds` has as premises what the code needs: the lidar
streams and publishing keeps up with it, since the drain loop does not look at
`request_exit_` and `Wait` has no timeout.

## 4. Proofs

`MatchingProofs`, on `Hungarian`. The inductive invariant adds three facts to the type
invariant and `PartialMatching`: `Control` (at most one frame, for row `i`),
`Owners` (columns belong to served rows), `Passed` (a row has passed only columns
that earlier rows hold). `PartialMatching` alone is not inductive because
`TryColumn` could recurse if the marks and the pairs disagreed; with the
equivalence of marks and pairs a candidate column is always free: so the result is not the maximum matching that the
comment at `obstacle_detector.hpp:569` speaks of. From the
invariant follow `HungarianTypeCorrect`, `MatchingCorrect`, `AugmentingNeverRuns`,
`ResultIsFirstFit`, and `Refinement`: every step of the search is a step of
`GreedyMatching` or a stutter under `row <- IF stack = <<>> /\ ret # "none" THEN
i + 1 ELSE i`. Assumption: `NLeft, NRight \in Nat \ {0}`.

`MatchingProofs`, on `Tracker`. Two lemmas carry the proof: `PublishFacts` (new ids are strictly
increasing from the counter, heights are remembered) and `MatchingInjective`
(two columns with the same row are equal, because columns are strictly ordered).
`FrameFacts` collects what either kind of frame does. The invariant is the four
checked invariants with `Remembered` (every published id has a history with its
height) and `CounterAhead` (until the counter wraps it is above every id in
memory). The action properties follow from the same facts. Assumption:
`TrackerAssumption`, which asks that one frame cannot wrap the counter twice.

`ParameterTuningProofs`. `ResetRestores` says something only when nothing is on
its way; the invariant says where each parameter's default is until then
(`Restoring`): still in `todo`, carried by the parameter's last request in the
queue (`Pending`), or stored with no request for it in the queue. A late request
sent before the reset is handled before the reset's own, so it cannot be the
last. `SendDefault` and `TakeRestoring` are this argument for the two ends of the
queue. `AtMostOneBehind` needs no more than the types: `AcceptSet` copies every
value before it changes one. Assumption: `TuningAssumption`.

`KdTreeProofs`. The tree is a recursive value that is only up to date where it has been opened, so the
invariant cannot speak of the stored nodes. It speaks of the nodes as a visit would find them. `Settled` (in
`KdNode`) says of one node that, opened, its counters, marks and box are those of its sons, that a deleted node
is counted as deleted as a whole, that its box spans exactly its live points, and that an undeleted node owes its sons nothing but marks a new leaf is free
to ignore: `Push_Down` keeps the mark for a null son (lines 1368 and 1411 test the pointer), and the leaf that is added there later receives it.
A tree is `Sound` when every node that can be opened in it is settled. The proof has seven layers:

1. *One node.* `Push_Down`, `Update`, `DeleteAll` and the work of each function at one node
   keep a tree sound (`PushDownKeepsTree`, `UpdateKeepsTree`, `DeleteAllKeepsTree`, `AddKeepsTree`, ...). The heart is
   `PushTwice`: marking a son for its father and then its son for it leaves what the stronger mark alone leaves.
2. *Recursion.* A function on `Visited(t)` is shown once to unfold over the two opened sons, by
   induction on the size: two tables of results agree wherever both are defined (`StepsAgree`) and a
   table exists (`StepsExist`). Each function of the code then is one instance (`FlattenUnfolds`, `DeleteUnfolds`, ...).
   Operators as parameters of an induction theorem being out of reach, the property is always a *set* of trees
   (`TreeInduction`) or of numbers (`Induction`). `BuildTree` recurses over sets of indexes (`BuildUnfolds`).
3. *Shape.* Every function leaves a sound tree (`BuildMakesTree`, `FlattenKeepsTree`, `OpeningKeepsTree`,
   `RangeKeepsTree`, `RebuildKeepsTree`, `DeletionKeepsTree`, `AdditionKeepsTree`). This is where the root
   stays: boxes are tight, so a box that does not cover a subtree's box misses one of its live points, so no
   subtree that is rebuilt is empty.
4. *Points.* `Live` and `Dead` count how often a point is live in a tree and how often it is still to be recorded as
   removed. Opening nodes does not change them, and each function changes them as it should
   (`RangeIsExact`, `DeletionIsExact`, `AdditionIsExact`), through every rebuild (`RebuiltCounts`).
5. *The heap.* Every loop is an instance of one lemma (`LoopKeeps`). `RisesIn` and `SinksIn` are heaps but for one entry;
   a turn moves the exception (`RiseKeeps`, `SinkKeeps`) until there is none (`FloatUpSpec`, `MoveDownSpec`), so a push
   adds its entry (`PushAdds`), a pop takes a furthest one away (`PopRemoves`) and draining yields all in
   order (`DrainSpec`).
6. *The search.* `Gathers` says that a piece of the search keeps the `k` nearest of what the heap held and of the points it is
   responsible for: for every distance up to `max` the heap holds as many entries within it as there are, or `k`. It
   counts, so equal distances and repeated points need no care, and it composes (`GatherTwice`). A subtree
   may be skipped since none of its live points is nearer than its box (`BoxIsNearer`, `LiveWithin`,
   `PruningIsSafe`), the sons may come in either order (`SonsGather`), and `SearchIsExact` is the induction over
   the tree.
7. *The store.* With bags for sequences each action is a step of `PointStore` (`EveryStep`). The
   inductive invariant `TreeInv` adds to a sound tree of at most `MaxSize` nodes that `content` and `gone` are
   what the tree holds.

From it follow `TreeTypeCorrect`, `TreeReadsExact`, `TreeNearestExact`, `TreeRootStays` and `TreeImplementsStore`. Assumptions:
`KdSearchAssumption` (at least one neighbour is asked for, distances are integers) and `KdTreeAssumption`, which asks that points are integer triples, that the clouds a tree is built from fit into the bound, and that voxels have a
size; the criteria for rebuilding are arbitrary.

`KdTreeRebuildProofs`. `SearchExcluded` and `NoUseAfterFree` are about where the
threads are, so the invariant ties every place to the lock that led there:
`Counting` (`search_mutex_counter` is the number of searches that counted
themselves in, or -1 while the rebuild thread keeps them out), `OneAtATime` (the mapping thread
makes no call during its own parallel region), `Announced` (from the request to the swap `Rebuild_Ptr` is known, unless a
rebuild of the whole map was withdrawn, and while it is no search is inside uncounted), `RoomInLog`, and `LeftBehind`
(who is left in a tree that was swapped out, and in which place). Neither property is inductive without them:
that a counted search is not in `replaced` when the tree is freed needs `Counting` at the swap, and that a box search with the
mutex is not needs that the rebuild thread cannot pass `Unlock` while the mutex is held.
`ContentKept` has an invariant of its own on top of these, `CInv`. `Phases` says in which places of the two threads an
operation is under way; `LogLeads`, for each point that is not astray, that what the rebuild thread read or
built, with the logged operations applied in order, is what the calls made of the point; and
`ExpectedHeld` that the calls' view of it is `X` unless a deletion mark is still owed. An
outcome of the log is described point by point, by the last operation
that concerns the point, and not as a fold over the log: so appending an operation or a pair and taking the first one
away are one step of reasoning each (`OutcomeOn`, `OutcomeBatch`, `OutcomeFrom`), and an operation that is astray leaves every other point's
argument as it was (`Unconcerned`). Assumption: `RebuildAssumption`; points,
readers and the log's size are arbitrary.

`FastLioProofs`. `MapKeepsRange` rests on `SlabIsFar`: what a move drops ends `MovDist`
before the far wall while the lidar is within `Edge` of the near one, so
`RoomAssumption` puts it out of range, in any dimension; the invariant it needs is that the map
is a cube of `CubeLen` (`MapIsCube`). `RegisteredAtItsTime` needs `Parallel` (the two lidar deques
correspond until the lidar's clock goes back, with the scan that `lidar_pushed`
remembers at their heads), `Shapes` (`time_buffer` is never the shorter one, and
the newest IMU stamp is the last of its buffer) and `NothingUndistorted`
(a measure that has not been through `Process` leaves nothing to register).
`TimeIntegratedOnce` is about a loop over any number of messages. `IntegratedFacts` adds its
intervals up: the recursive function `sum` of `Integrated` has a closed form, and the least stamp at which
the two differ cannot exist. `SyncTimes` says what `sync_packages` takes and
leaves; the invariant `Clock` that joins them says that no waiting message is from before
`last_lidar_end_time_` while the IMU's clock has not gone back. The
attempt to prove an earlier form of `FilterAtScanEnd`, which allowed any jump of the IMU's clock, failed at
`late`; with wider bounds TLC then found the behaviour described in section 2.
Assumptions: `FastLioAssumption`, `LengthsAssumption`, `RoomAssumption`.

`PointLioProofs`. The invariant is a conjunction of five parts. `Queue`: messages wait in order, none is before
`imu_next`, and when none waits `imu_next` is the newest message. `PhaseInv`: outside `"spin"` the
newest message is not before the scan's end, and the points' times lie in the scan. Together
they give `PopsFindAFront`: a loop pops only while `imu_next` is before a time in the
scan, so not when `imu_next` is the newest message. `OrderInv` carries
`StateBetweenInputs`: `Frontier`, the time the filter has reached, is before
every scan that waits, as long as scans come in order (`~late`). `SortedPrefix`
(the messages up to a time are the first ones) and `QueuePopped` are the lemmas about the
deque. `RangeKept` is `SlabIsFar` once more, with the slabs of earlier moves. Assumptions: `PointLioAssumption`,
`LengthsAssumption`, `RoomAssumption`.

`LivoxDriverProofs`. `OnlyConfiguredIsSampled` needs to know which options are accounted for
while answers are due: `BitsCoverOptions` says that as soon as the callback has left the lock with
a request in flight, every option has its bit set or is applied, so the answer that clears the last bit finds all
of them applied; `AskedOnce` bounds the requests by the lidar's reports. `FramesAreCopiedWhole`
rests on `RingHolds`: counted from `rd_idx` modulo `Wrap` (`Ahead`), the ring holds at most
`Size` frames, with the one whose index is still in the store buffer (`Held`), and
each of them is in its slot. That neighbours within `Size` never share a slot although the
indexes wrap is `ModApart`, and needs that `Size` divides `Wrap`. Assumption: `RingAssumption`.

`ObstacleFramesProofs`. That a transform is late is a statement about the past. `Underway` makes it one about
the state: there is a history of poses, numbered by age, of which every transform
and every message under way is the entry its place in the queue says, and a step of the lidar
shifts the history by one. `InMap` says of the arrays and caches that each box is within `Lag` of its
obstacle; smoothing keeps this because the nearest cached box of the class is the
same obstacle's (`ApartAssumption`: obstacles of one class are further apart than the
matching distance and two lags). `BoxesPlacedInBase` adds the delays of the second and third
lookup. Assumptions: `FramesAssumption` (finitely many obstacles), `ApartAssumption`.


Only model-checked:

* liveness, which needs fairness and ENABLED: `Termination`, `ResetEnds`,
  `RebuildEnds`, `ScansTaken`, `FramesPublished`, `ShutdownEnds`;
* the three violations.

Every other property that a run checks is a theorem.

## 5. Not modelled, and the plan

Not modelled, and why:

* PCL filtering, segmentation, clustering and hulls: numeric and stateless; their
  result is an arbitrary set of clusters in `Tracker`.
* The estimates of the UKF, of FAST-LIO and of Point-LIO, the manifold toolkit and
  the plotting header: floating-point algebra.
* The preprocessing of scans: it keeps no state; a scan is anything with no, few or many points.
* The smoothing pool of the detector: averages of poses; `Tracker` takes
  whatever similarity the boxes then have.
* The odometry transformer, the navigation interface and the map launcher: no
  state outlives a callback.
* `lidarSORT`: `main.py:116` calls `update` without its argument `current_time`,
  so no frame ever changes a track.
* The YOLO node: its results depend on images and a network.
* Of the Point-LIO node `cut_frame`, `con_frame`, `imu_en` false and `prop_at_freq_of_imu` false: no
  configuration or launch file sets them so.
* `Add_Point_Boxes`, `Delete_Points`, `Radius_Search` of the ikd-Tree: no caller.

Known gaps in what is modelled: the lidar that leaves its cube by more than
`1.5 * DET_RANGE` in one step never moves it again (`laserMapping.cpp:264` compares
absolute distances to the walls); `s_plot11` and its siblings are indexed by
`scan_count` without a test beyond `MAXN` scans (`laserMapping.cpp:313`);
`PclMsg` is a busy loop (`lddc.cpp:243`). Of FAST-LIO: the propagation over
time that was already integrated, after the IMU's clock went back (section 2). Of Point-LIO: after the IMU's clock went
back its stamps stay off the lidar's for good (`PLIO/src/laserMapping.cpp:348`); `meas.imu` is never cleared
(line 419 only releases capacity), so the first messages are averaged again with every scan of
the initialization; IMU stamps are rounded to nanoseconds when they are shifted, of which the model knows nothing.

What is left for TLC alone is liveness. What would extend the project next is composition: the
rebuild thread (`KdTreeRebuild`) treats a subtree as the set of its points, not as the tree of `KdTree`.
