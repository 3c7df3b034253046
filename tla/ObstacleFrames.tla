----------------------------- MODULE ObstacleFrames -----------------------------
(***************************************************************************)
(* ObstacleToOtherFrameNode: it puts the detections, which are relative to *)
(* the moving lidar, into the map (and from there into base_link), sorts   *)
(* them into static and dynamic ones and smooths each box with the box it  *)
(* matches in the previous frame.                                          *)
(*                                                                         *)
(* The odometry (external) sends a transform with every scan; the detector *)
(* sends its detections of that scan later, and a transform listener       *)
(* thread of this node takes the transforms in while the callback runs.    *)
(* Positions are integers on a line, averages are rounded down; box sizes  *)
(* are a class: boxes of one class have the same size, boxes of different  *)
(* classes differ by more than match_size_ratio_thresh. The obstacles      *)
(* stand still and the detector's velocities are exact. An array holds its *)
(* boxes at their places in the message, so the arrays a message is sorted *)
(* into have gaps; the order, all that the callback reads, is the same.    *)
(***************************************************************************)
EXTENDS Integers, Sequences, FiniteSets, SequencesExt

CONSTANTS
  Obstacles, World, Class,   \* obstacles, their places in the map, their size classes
  Modes,                     \* values of visualization_mode
  Track,                     \* poses of the lidar on the map's line
  Stride,                    \* how far it moves between two scans
  MaxAhead,                  \* bound on messages under way on a topic
  Mount,                     \* base_link in lidar_body
  SpeedThresh,               \* static_velocity_thresh, per scan
  PositionThresh,            \* match_position_thresh
  AlphaNum, AlphaDen         \* smoothing_alpha = AlphaNum / AlphaDen

ASSUME FramesAssumption ==
  /\ IsFiniteSet(Obstacles)
  /\ World \in [Obstacles -> Int] /\ Track \subseteq Int
  /\ Stride \in Nat /\ MaxAhead \in Nat /\ Mount \in Int
  /\ PositionThresh \in Nat /\ SpeedThresh \in Nat
  /\ AlphaDen \in Nat \ {0} /\ AlphaNum \in 0 .. AlphaDen

VARIABLES
  mode,             \* visualization_mode_
  pose,             \* where the lidar is
  tfs, msgs,        \* transforms and detection arrays under way
  tf, mounted,      \* in tf_buffer_: newest map pose of lidar_body; lidar_body -> base_link
  pc,               \* place of ObstacleCallback between its lookups
  still, moving,    \* static_obstacle_msgs, dynamic_obstacle_msgs
  stillCache, movingCache,   \* static_obstacle_cache_, dynamic_obstacle_cache_
  stillOut, movingOut        \* the arrays published last

world  == <<mode, pose, tfs, msgs, tf, mounted>>
caches == <<stillCache, movingCache, stillOut, movingOut>>
vars   == <<world, pc, still, moving, caches>>

None == 1000                 \* no transform yet
ASSUME NoneAssumption == None \notin Track

Abs(n) == IF n < 0 THEN -n ELSE n

Init ==
  /\ mode \in Modes /\ pose \in Track
  /\ tfs = <<>> /\ msgs = <<>> /\ tf = None /\ mounted = FALSE
  /\ pc = "idle" /\ still = <<>> /\ moving = <<>>
  /\ stillCache = <<>> /\ movingCache = <<>> /\ stillOut = <<>> /\ movingOut = <<>>

-----------------------------------------------------------------------------
(* External: the scans, and the transform listener. *)

\* The detections of a scan taken at pose p by a lidar that came from q: some
\* of the obstacles, relative to the lidar.
Detections(seen, p, q) ==
  LET det(o) == [of |-> o, class |-> Class[o], pos |-> World[o] - p, speed |-> q - p]
      order  == SetToSeq(seen)
  IN  [i \in DOMAIN order |-> det(order[i])]

Scan ==
  /\ Len(tfs) < MaxAhead /\ Len(msgs) < MaxAhead
  /\ \E p \in Track, seen \in SUBSET Obstacles :
       /\ Abs(p - pose) <= Stride
       /\ pose' = p
       /\ tfs' = Append(tfs, p)
       /\ msgs' = Append(msgs, Detections(seen, p, pose))
  /\ UNCHANGED <<mode, tf, mounted, pc, still, moving, caches>>

ReceiveTransform ==
  /\ tfs # <<>>
  /\ tf' = Head(tfs) /\ tfs' = Tail(tfs)
  /\ UNCHANGED <<mode, pose, msgs, mounted, pc, still, moving, caches>>

ReceiveMount ==
  /\ ~mounted /\ mounted' = TRUE
  /\ UNCHANGED <<mode, pose, tfs, msgs, tf, pc, still, moving, caches>>

-----------------------------------------------------------------------------
(* ObstacleCallback. *)

Moved(dets, by) == [i \in DOMAIN dets |-> [dets[i] EXCEPT !.pos = @ + by]]

\* TransformObstacle: the newest transforms, whatever the detections' stamp; a
\* failed lookup leaves the output empty. Velocities are only rotated, which
\* on a line changes nothing.
ToMap(dets)  == IF tf = None THEN <<>> ELSE Moved(dets, tf)
MutToBase(dets) == IF tf = None \/ ~mounted THEN <<>> ELSE Moved(dets, Mount - tf)
ToBase(dets) == IF tf = None \/ ~mounted THEN <<>> ELSE Moved(dets, -tf - Mount)

IsStill(d) == Abs(d.speed) <= SpeedThresh

Distance(a, b) == Abs(a.pos - b.pos)

MutMatches(a, b) == a.class = b.class
\* ComputeMatchScore gives less than infinity.
Matches(a, b) == a.class = b.class /\ Distance(a, b) <= PositionThresh

\* The first box of the cache with the lowest score.
IsBest(d, cache, i) ==
  /\ Matches(d, cache[i])
  /\ \A j \in DOMAIN cache : Matches(d, cache[j]) =>
       \/ Distance(d, cache[i]) < Distance(d, cache[j])
       \/ Distance(d, cache[i]) = Distance(d, cache[j]) /\ i <= j

Blend(prev, curr) == (AlphaNum * prev + (AlphaDen - AlphaNum) * curr) \div AlphaDen

Smoothed(d, cache) ==
  IF \A i \in DOMAIN cache : ~Matches(d, cache[i]) THEN d
  ELSE LET i == CHOOSE i \in DOMAIN cache : IsBest(d, cache, i)
       IN  [d EXCEPT !.pos = Blend(cache[i].pos, @)]

\* ApplySmoothing; with an empty cache nothing matches.
ApplySmoothing(dets, cache) == [i \in DOMAIN dets |-> Smoothed(dets[i], cache)]

\* The end of the callback: smooth, remember and publish both arrays.
Publish(s, m) ==
  /\ stillOut' = ApplySmoothing(s, stillCache)
  /\ movingOut' = ApplySmoothing(m, movingCache)
  /\ stillCache' = stillOut' /\ movingCache' = movingOut'
  /\ still' = <<>> /\ moving' = <<>> /\ pc' = "idle"

\* Into the map, static or dynamic; the modes map and lidar_body publish these.
Classify ==
  /\ pc = "idle" /\ msgs # <<>>
  /\ msgs' = Tail(msgs)
  /\ LET dets == ToMap(Head(msgs))
         slow == {i \in DOMAIN dets : IsStill(dets[i])}
         st   == Restrict(dets, slow)
         dyn  == Restrict(dets, DOMAIN dets \ slow)
     IN  IF mode = "baselink"
         THEN /\ still' = st /\ moving' = dyn /\ pc' = "static"
              /\ UNCHANGED caches
         ELSE Publish(st, dyn)
  /\ UNCHANGED <<mode, pose, tfs, tf, mounted>>

\* Mode baselink: two more lookups, the listener may run before each.
StaticToBase ==
  /\ pc = "static"
  /\ still' = ToBase(still) /\ pc' = "dynamic"
  /\ UNCHANGED <<world, moving, caches>>

DynamicToBase ==
  /\ pc = "dynamic"
  /\ Publish(still, ToBase(moving))
  /\ UNCHANGED world

Next == Scan \/ ReceiveTransform \/ ReceiveMount \/ Classify \/ StaticToBase \/ DynamicToBase

Spec == Init /\ [][Next]_vars

-----------------------------------------------------------------------------
(* Properties. *)

\* A transform is at most this far from the pose of a scan whose detections
\* are handled with it, or from the present pose.
Lag == Stride * MaxAhead

ASSUME ApartAssumption ==
  \A a, b \in Obstacles : Class[a] = Class[b] /\ a # b =>
    Abs(World[a] - World[b]) > PositionThresh + 2 * Lag

Published == Range(stillOut) \cup Range(movingOut)

\* In the modes map and lidar_body a published box is as near its obstacle as
\* the transforms are late, however often it was smoothed, went from one
\* array to the other or was not seen: the cache carries no error of its own
\* and never mixes two obstacles that stand apart.
PlacedInMap ==
  mode # "baselink" => \A d \in Published : Abs(d.pos - World[d.of]) <= Lag

\* In the mode baselink, where the cache holds places relative to a lidar that
\* has moved on and each lookup may see another pose, a published box is at
\* most three such delays and one smoothing step away.
PlacedInBase ==
  [][pc = "dynamic" =>
       \A d \in Published' : Abs(d.pos - (World[d.of] - pose - Mount)) <=
                               3 * Lag + (AlphaNum * PositionThresh) \div AlphaDen + 1
    ]_<<pc, stillOut, movingOut>>

\* The comment at line 150 says that an obstacle that is static in the map
\* frame is marked as static; here every obstacle is.
StaticInMap == movingOut = <<>>
=============================================================================
