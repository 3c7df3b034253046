------------------------------ MODULE Tracker ------------------------------
(***************************************************************************)
(* The obstacle detector's identity keeping: publishDetectedObjects        *)
(* (obstacle_detector.cpp:533-647) with the obstacleTracking it calls      *)
(* (obstacle_detector.hpp:541-661).  One action is one point cloud: the    *)
(* node spins one thread, so nothing interleaves with a frame.             *)
(*                                                                         *)
(* A frame is the function of the clusters that survive the height and     *)
(* range filter, cluster index -> box.  The temporary id -(i+1) of a box   *)
(* is its cluster index; the order of the vectors is the order of the      *)
(* indices.  Which boxes compareBoxes accepts is an arbitrary relation.    *)
(***************************************************************************)
EXTENDS Matching, FiniteSets, FiniteSetsExt

CONSTANTS
  MaxClusters,   \* bound: clusters in one point cloud
  IdLimit,       \* the largest id, 100000 in the code
  JunkIds,       \* what the read of pre_ids[-1] can yield, see PreId
  Heights,       \* values of a box's z dimension
  Floor,         \* 1e-3 in line 621
  MaxCount       \* bound: match_counts of one id

ASSUME TrackerAssumption ==
  /\ MaxClusters \in Nat \ {0}
  /\ IdLimit \in Nat /\ MaxClusters =< IdLimit
  /\ JunkIds \subseteq Int /\ JunkIds # {}
  /\ Heights \subseteq Int /\ Floor \in Heights
  /\ MaxCount \in Nat \ {0}

VARIABLES
  use_tracking,        \* the global USE_TRACKING
  prev_boxes,          \* the last published frame
  next_obstacle_id_,
  ukf_states,          \* id -> is the filter's last measurement of the last frame?
  match_counts,        \* id -> measurements the filter has had
  bbox_size_history_,  \* id -> z dimension last published for the id
  wrapped              \* history: next_obstacle_id_ has been reset to 0

vars == <<use_tracking, prev_boxes, next_obstacle_id_, ukf_states, match_counts,
          bbox_size_history_, wrapped>>

Clusters == 1 .. MaxClusters
Ids      == 0 .. IdLimit

(***************************************************************************)
(* via is a history field: the id is newly allocated, inherited from a     *)
(* previous box the box was connected to, or inherited from another one.   *)
(***************************************************************************)
Boxes  == [id : Ids, z : Heights, via : {"new", "connected", "stray"}]

\* f is a map (std::unordered_map, or a frame) with keys in K and values in V.
IsMap(f, K, V) == DOMAIN f \subseteq K /\ f \in [DOMAIN f -> V]

EmptyMap == [k \in {} |-> k]

IdsOf(frame) == { frame[c].id : c \in DOMAIN frame }
PrevIds      == IdsOf(prev_boxes)

Init ==
  /\ use_tracking \in BOOLEAN
  /\ prev_boxes = EmptyMap
  /\ next_obstacle_id_ = 0
  /\ ukf_states = EmptyMap
  /\ match_counts = EmptyMap
  /\ bbox_size_history_ = EmptyMap
  /\ wrapped = FALSE

-----------------------------------------------------------------------------
\* The connection matrix of a relation assoc between previous and current boxes.
Edges(assoc)  == { <<prev_boxes[a[1]].id, a[2]>> : a \in assoc }
Lefts(assoc)  == { prev_boxes[a[1]].id : a \in assoc }
Rights(assoc) == { a[2] : a \in assoc }

\* Ids get their row or column when associateBoxes first mentions them: rows in
\* the order of the previous boxes, columns by their first row, then in order.
FirstPrev(assoc, l) == Min({ a[1] : a \in { b \in assoc : prev_boxes[b[1]].id = l } })
FirstRow(assoc, c)  == Min({ a[1] : a \in { b \in assoc : b[2] = c } })

LeftBefore(assoc) ==
  { p \in Lefts(assoc) \X Lefts(assoc) : FirstPrev(assoc, p[1]) < FirstPrev(assoc, p[2]) }

RightBefore(assoc) ==
  { p \in Rights(assoc) \X Rights(assoc) :
      \/ FirstRow(assoc, p[1]) < FirstRow(assoc, p[2])
      \/ FirstRow(assoc, p[1]) = FirstRow(assoc, p[2]) /\ p[1] < p[2] }

\* The vector hungarian returns for the connection matrix of assoc.
IsMatching(matches, assoc) ==
  FirstFit(matches, Lefts(assoc), Rights(assoc), Edges(assoc),
           LeftBefore(assoc), RightBefore(assoc))

(***************************************************************************)
(* pre_ids[matches[j]] of line 577.  For a column hungarian left unpaired  *)
(* matches[j] is -1, and the int before the vector's buffer is read: the   *)
(* high half of the allocator's chunk size, which is 0 on the 64-bit       *)
(* platforms the node runs on.                                             *)
(***************************************************************************)
PreId(matches, junk, c) == IF matches[c] = Unpaired THEN junk[c] ELSE matches[c]

-----------------------------------------------------------------------------
\* next_obstacle_id_ after n increments, each followed by the test of line 588.
Wrap(n) == IF n > IdLimit THEN n - (IdLimit + 1) ELSE n

\* Boxes still carrying a temporary id are numbered in order (lines 585-590).
MutFreshId(c, fresh) == next_obstacle_id_

FreshId(c, fresh) ==
  Wrap(next_obstacle_id_ + Cardinality({ d \in fresh : d < c }))

MutNextIdKept(n) == IF n = 0 THEN next_obstacle_id_ ELSE Wrap(next_obstacle_id_ + n - 1)

MutNextIdUnbounded(n) == next_obstacle_id_ + n

NextId(n) == Wrap(next_obstacle_id_ + n)

MutHeight(old, id, z) == z

\* The z dimension an id was first published with stays, but for the cwiseMax
\* that a box without height meets in its second frame (lines 607-625).
Lifted(h) == IF h < Floor THEN Floor ELSE h
Height(old, id, z) == IF id \in DOMAIN old THEN Lifted(old[id]) ELSE z

(***************************************************************************)
(* Lines 585-646: number the boxes that inherited nothing, fix every box's *)
(* height, publish, and keep the frame as the next prev_boxes.  Only an id *)
(* without a history takes its owner's height, and such an id is new, so   *)
(* it has one owner.                                                       *)
(***************************************************************************)
Publish(temp, inherited, via) ==
  LET fresh   == DOMAIN temp \ DOMAIN inherited
      id(c)   == IF c \in fresh THEN FreshId(c, fresh) ELSE inherited[c]
      owner(k) == CHOOSE c \in DOMAIN temp : id(c) = k
      n       == Cardinality(fresh)
      sizes   == [k \in DOMAIN bbox_size_history_ \cup { id(c) : c \in DOMAIN temp } |->
                    IF \E c \in DOMAIN temp : id(c) = k
                    THEN Height(bbox_size_history_, k, temp[owner(k)])
                    ELSE bbox_size_history_[k]]
  IN  /\ bbox_size_history_' = sizes
      /\ prev_boxes' = [c \in DOMAIN temp |->
           [id  |-> id(c),
            z   |-> sizes[id(c)],
            via |-> IF c \in fresh THEN "new" ELSE via[c]]]
      /\ next_obstacle_id_' = NextId(n)
      /\ wrapped' = (wrapped \/ next_obstacle_id_ + n > IdLimit)

\* temp_boxes after the filters: the heights of the surviving clusters.
Detections == UNION { [S -> Heights] : S \in SUBSET Clusters }

\* No filter gets a measurement in this frame.
Idle(filters) == [k \in DOMAIN filters |-> FALSE]

(***************************************************************************)
(* A frame in which obstacleTracking is not called, or returns at line 550 *)
(* or 561 because a frame is empty or no pair of boxes is similar.  The    *)
(* filters and counters of earlier frames stay.                            *)
(***************************************************************************)
PublishUntracked ==
  \E temp \in Detections :
    /\ Publish(temp, EmptyMap, EmptyMap)
    /\ ukf_states' = Idle(ukf_states)
    /\ UNCHANGED <<use_tracking, match_counts>>

MutKept(counts, matched) == matched \cup DOMAIN counts

\* Filters and counters without a match are erased (lines 644-659).
Kept(counts, matched) == matched

(***************************************************************************)
(* The loop of lines 575-642 and the erasures after it.  A current box     *)
(* whose pre_id names a previous box takes that id, and the id's filter,   *)
(* made if missing, gets its measurement; the other boxes keep their       *)
(* temporary id.                                                           *)
(***************************************************************************)
Track(temp, assoc, matches, junk) ==
  LET preId   == [c \in Rights(assoc) |-> PreId(matches, junk, c)]
      hits    == { c \in Rights(assoc) : preId[c] \in PrevIds }
      via     == [c \in hits |-> IF <<preId[c], c>> \in Edges(assoc)
                                 THEN "connected" ELSE "stray"]
      kept    == Kept(match_counts, { preId[c] : c \in hits })
      base(k) == IF k \in DOMAIN ukf_states THEN match_counts[k] ELSE 0
      counts  == [k \in kept |-> base(k) + Cardinality({ c \in hits : preId[c] = k })]
  IN  /\ \A k \in kept : counts[k] =< MaxCount
      /\ match_counts' = counts
      /\ ukf_states' = [k \in kept |-> \E c \in hits : preId[c] = k]
      /\ Publish(temp, [c \in hits |-> preId[c]], via)

\* A frame in which compareBoxes connects at least one pair of boxes.
PublishTracked ==
  /\ use_tracking
  /\ \E clusters \in SUBSET Clusters :
     \E assoc \in SUBSET ((DOMAIN prev_boxes) \X clusters) \ {{}} :
     \E matches \in [Rights(assoc) -> Lefts(assoc) \cup {Unpaired}] :
       /\ IsMatching(matches, assoc)
       /\ \E temp \in { d \in Detections : DOMAIN d = clusters } :
          \E junk \in [Rights(assoc) -> JunkIds] : Track(temp, assoc, matches, junk)
  /\ UNCHANGED use_tracking

\* The parameter callback stores another value of use_tracking.
ToggleTracking ==
  /\ use_tracking' = ~use_tracking
  /\ UNCHANGED <<prev_boxes, next_obstacle_id_, ukf_states, match_counts,
                 bbox_size_history_, wrapped>>

Next ==
  \/ PublishUntracked
  \/ PublishTracked
  \/ ToggleTracking

Spec == Init /\ [][Next]_vars

-----------------------------------------------------------------------------
TypeOK ==
  /\ use_tracking \in BOOLEAN
  /\ IsMap(prev_boxes, Clusters, Boxes)
  /\ next_obstacle_id_ \in Ids
  /\ IsMap(ukf_states, Ids, BOOLEAN)
  /\ IsMap(match_counts, Ids, 1 .. MaxCount)
  /\ IsMap(bbox_size_history_, Ids, Heights)
  /\ wrapped \in BOOLEAN

(***************************************************************************)
(* Until the counter wraps, an id names one obstacle of a frame, except an *)
(* id that the out-of-bounds read can yield.                               *)
(***************************************************************************)
DistinctIds ==
  ~wrapped => \A c, d \in DOMAIN prev_boxes :
    prev_boxes[c].id = prev_boxes[d].id => c = d \/ prev_boxes[c].id \in JunkIds

(***************************************************************************)
(* Until the counter wraps, a filter that a coming frame can pick up had   *)
(* its last measurement in this frame: the prediction interval of the UKF  *)
(* never spans frames in which the obstacle was not matched, although the  *)
(* early returns of obstacleTracking leave stale filters in ukf_states.    *)
(***************************************************************************)
FilterFollowsFrame ==
  ~wrapped => \A k \in PrevIds \cap DOMAIN ukf_states : ukf_states[k]

(***************************************************************************)
(* The two maps of the tracker hold the same ids, and never more than one  *)
(* frame's boxes, however many obstacles have come and gone.               *)
(***************************************************************************)
FiltersBounded ==
  /\ DOMAIN ukf_states = DOMAIN match_counts
  /\ Cardinality(DOMAIN ukf_states) =< MaxClusters

(***************************************************************************)
(* Until the counter wraps, an id that was absent from a frame has never   *)
(* been published before when it appears: no obstacle inherits the id of   *)
(* one that was lost.                                                      *)
(***************************************************************************)
IdsNeverReturn ==
  [][~wrapped' => \A c \in DOMAIN prev_boxes' :
       prev_boxes'[c].id \in DOMAIN bbox_size_history_ => prev_boxes'[c].id \in PrevIds]_vars

(***************************************************************************)
(* An obstacle keeps its published height from frame to frame, but for a   *)
(* height below the floor, which is lifted to it: the fixed-z version that *)
(* the comment of line 617 names.                                          *)
(***************************************************************************)
HeightKept ==
  [][\A c \in DOMAIN prev_boxes, d \in DOMAIN prev_boxes' :
       prev_boxes[c].id = prev_boxes'[d].id =>
         prev_boxes'[d].z \in {prev_boxes[c].z, Lifted(prev_boxes[c].z)}]_vars

(***************************************************************************)
(* A filter gets at most one measurement per frame, except that of an id   *)
(* the out-of-bounds read can yield.                                       *)
(***************************************************************************)
OneMeasurementPerFrame ==
  [][\A k \in DOMAIN match_counts \cap DOMAIN match_counts' :
       match_counts'[k] =< match_counts[k] + 1 \/ k \in JunkIds]_vars

(***************************************************************************)
(* obstacle_detector.hpp:576, "find the index of the previous box that the *)
(* current box corresponds to": an id is inherited only from a previous    *)
(* box that compareBoxes found similar.                                    *)
(***************************************************************************)
InheritsFromSimilar ==
  \A c \in DOMAIN prev_boxes : prev_boxes[c].via # "stray"
=============================================================================
