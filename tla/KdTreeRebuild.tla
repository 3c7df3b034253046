----------------------------- MODULE KdTreeRebuild -----------------------------
(***************************************************************************)
(* The second thread of the ikd-Tree (ikd_Tree.cpp): it flattens a subtree *)
(* X of at least Multi_Thread_Rebuild_Point_Num nodes, builds it anew      *)
(* without locks while the mapping thread goes on changing X and logs what *)
(* it does, replays the log and swaps the new tree in.                     *)
(*                                                                         *)
(* Of X the model keeps the set of its live points. X is the whole map     *)
(* (Rebuild_Ptr = &Root_Node) or a son of a node F, itself a son of G;     *)
(* deletions mark F or G and reach X when the marks are pushed down.       *)
(* The mapping thread either runs one operation or, in a parallel region,  *)
(* several nearest neighbour searches (Readers).                           *)
(***************************************************************************)
EXTENDS Integers, Sequences, FiniteSets, SequencesExt

CONSTANTS
  Points,     \* points of X
  Boxes,      \* sets of points that a box contains
  Readers,    \* threads of the parallel search
  MaxLog      \* bound on Rebuild_Logger (Q_LEN)

ASSUME RebuildAssumption ==
  /\ IsFiniteSet(Readers) /\ "main" \notin Readers /\ MaxLog \in Nat
  /\ Boxes \subseteq SUBSET Points

VARIABLES
  whole,      \* is X the whole map?
  X,          \* live points in the nodes of the subtree now linked
  owed,       \* where a deletion mark waits that X has still to get
  fw,         \* F->working_flag
  ptr,        \* Rebuild_Ptr # nullptr (then it points to X)
  flag,       \* rebuild_flag
  log,        \* Rebuild_Logger
  working,    \* working_flag_mutex is held by the rebuild thread
  search,     \* search_flag_mutex is held by the mapping thread
  counter,    \* search_mutex_counter
  tpc, new, op,       \* rebuild thread: place, tree it builds, operation it replays
  mpc, todo, ranging, \* mapping thread: place, operations on X left, is it a search?
  rpc,        \* the readers' places
  replaced,   \* history: who still has a pointer into the tree swapped out
  expected,   \* history: the points that the calls put into X
  astray      \* history: the points that one of the races below was about

xvars == <<whole, X, owed, fw, expected, astray>>
lvars == <<ptr, flag, log>>
tvars == <<tpc, new, op>>
mvars == <<mpc, todo, ranging>>
vars  == <<xvars, lvars, working, search, counter, tvars, mvars, rpc, replaced>>

Operation == [op : {"add"}, pts : {{p} : p \in Points}]
               \cup [op : {"delete"}, pts : Boxes \cup {Points}]
\* What the PUSH_DOWN of a deletion mark does to X.
DeleteX == [op |-> "delete", pts |-> Points]
NoOp    == DeleteX
\* run_operation
Applied(s, o)  == IF o.op = "add" THEN s \cup o.pts ELSE s \ o.pts
\* At most two operations, one after the other.
Effect(s, ops) == IF Len(ops) = 2 THEN Applied(Applied(s, ops[1]), ops[2])
                                  ELSE Applied(s, ops[1])
Concerned(ops) == UNION {ops[i].pts : i \in DOMAIN ops}

Inside(r) == rpc[r] \in {"counted", "free"}
Quiet     == \A r \in Readers : rpc[r] = "idle"

Init ==
  /\ whole \in BOOLEAN
  /\ X = Points /\ expected = Points
  /\ owed = "none" /\ fw = FALSE /\ astray = {}
  /\ ptr = FALSE /\ flag = FALSE /\ log = <<>>
  /\ working = FALSE /\ search = FALSE /\ counter = 0
  /\ tpc = "idle" /\ new = {} /\ op = NoOp
  /\ mpc = "idle" /\ todo = <<>> /\ ranging = FALSE
  /\ rpc = [r \in Readers |-> "idle"]
  /\ replaced = {}

-----------------------------------------------------------------------------
(* The mapping thread *)

\* A point is added or a box deleted: F is visited, its mark is pushed down,
\* then X is, if the operation meets it. A deleted F is left before that by a
\* deletion. On the whole map Add_Points may delete a box and add one of its
\* points after a single look at Rebuild_Ptr.
Visits ==
  (IF owed = "none" THEN {<<>>} ELSE {<<DeleteX>>})
    \cup {IF owed = "none" THEN <<o>> ELSE <<DeleteX, o>> :
            o \in {k \in Operation : owed = "none" \/ k.op = "add"}}
Calls ==
  {<<o>> : o \in Operation}
    \cup {<<d, a>> : d \in {k \in Operation : k.op = "delete"},
                    a \in {k \in Operation : k.op = "add"}}

StartOperation ==
  /\ mpc = "idle" /\ Quiet /\ owed \in {"none", "F"}
  /\ todo' \in IF whole THEN Calls ELSE Visits
  /\ (whole /\ Len(todo') = 2) => todo'[2].pts \subseteq todo'[1].pts
  /\ Len(log) + Len(todo') =< MaxLog
  /\ mpc' = IF todo' = <<>> THEN "update" ELSE "check"
  /\ ranging' = FALSE
  /\ fw' = ~whole
  /\ UNCHANGED <<whole, X, owed, expected, astray, lvars, working, search, counter, tvars,
                 rpc, replaced>>

\* A deletion covers F or G, marks it and returns; working_flag stays set.
DeleteAbove ==
  /\ mpc = "idle" /\ Quiet /\ ~whole /\ owed = "none"
  /\ \/ owed' = "F" /\ fw' = TRUE
     \/ owed' = "G" /\ UNCHANGED fw
  /\ expected' = {}
  /\ UNCHANGED <<whole, X, astray, lvars, working, search, counter, tvars, mvars, rpc,
                 replaced>>

\* An operation whose box misses F returns early, and working_flag stays set.
MissF ==
  /\ mpc = "idle" /\ Quiet /\ ~whole /\ owed = "none"
  /\ fw' = TRUE
  /\ UNCHANGED <<whole, X, owed, expected, astray, lvars, working, search, counter, tvars,
                 mvars, rpc, replaced>>

\* Whatever visits G first pushes its mark down to F.
PushG ==
  /\ mpc = "idle" /\ Quiet /\ ~whole /\ owed = "G"
  /\ owed' = "F"
  /\ UNCHANGED <<whole, X, fw, expected, astray, lvars, working, search, counter, tvars,
                 mvars, rpc, replaced>>

\* Search_by_range visits F, pushes its mark down, and then visits X.
StartRangeSearch ==
  /\ mpc = "idle" /\ Quiet /\ owed \in {"none", "F"} /\ Len(log) < MaxLog
  /\ ranging' = TRUE
  /\ IF owed = "none" THEN mpc' = "range" /\ todo' = <<>>
                      ELSE mpc' = "check" /\ todo' = <<DeleteX>>
  /\ UNCHANGED <<xvars, lvars, working, search, counter, tvars, rpc, replaced>>

\* Rebuild_Ptr is read without a lock. The son is read again once the mutex is
\* held; without it Push_Down may go on with the pointer it already has.
Check ==
  /\ mpc = "check"
  /\ IF ptr THEN mpc' = "locked" /\ replaced' = replaced \ {"main"}
            ELSE mpc' = "free" /\ UNCHANGED replaced
  /\ UNCHANGED <<xvars, lvars, working, search, counter, tvars, todo, ranging, rpc>>

\* The operations ops, the first of todo, are done.
Done(ops) ==
  LET rest == SubSeq(todo, Len(ops) + 1, Len(todo)) IN
  /\ owed' = "none"
  /\ expected' = Effect(expected, ops)
  /\ todo' = rest
  /\ mpc' = IF rest # <<>> THEN (IF whole THEN "free" ELSE "check")
            ELSE IF ranging THEN "range"
            ELSE IF whole /\ mpc = "locked" THEN "idle" ELSE "update"
  /\ UNCHANGED <<whole, fw, ranging>>

\* X was not being rebuilt when Check looked. It may be now, in the second
\* operation of Add_Points: the first one asked for it. The second runs beside
\* flatten, which may come out with anything, or after it, and then is
\* missing from the copy and from the log. A pointer into the tree swapped out
\* leaves marks on nodes of the old tree or of nobody.
\* An operation that changed X may ask for its rebuild, unless the rebuild
\* thread holds rebuild_ptr_mutex_lock, or withdraw a rebuild of the whole map
\* that it made small, without a lock.
ApplyFree ==
  LET o == Head(todo)
      torn == "main" \in replaced \/ tpc = "flatten" IN
  /\ mpc = "free"
  /\ X' \in IF ~torn THEN {Applied(X, o)} ELSE IF whole THEN SUBSET Points ELSE {X, {}}
  /\ astray' = IF torn THEN Points
              ELSE IF tpc \in {"drain", "replay", "quiesce2", "swap"} THEN astray \cup o.pts
              ELSE astray
  /\ Done(<<o>>)
  /\ \/ UNCHANGED ptr
     \/ o # DeleteX /\ tpc = "idle" /\ ptr' = TRUE
     \/ whole /\ ptr /\ ptr' = FALSE
  /\ replaced' = IF mpc' = "update" THEN replaced ELSE replaced \ {"main"}
  /\ UNCHANGED <<flag, log, working, search, counter, tvars, rpc>>

MutApplyLocked ==
  LET ops == IF whole THEN todo ELSE <<Head(todo)>> IN
  /\ mpc = "locked" /\ ~working
  /\ X' = Effect(X, ops)
  /\ Done(ops)
  /\ log' = IF flag THEN Append(log, Head(todo)) ELSE log
  /\ astray' = IF flag /\ ~ptr THEN astray \cup Concerned(ops) ELSE astray
  /\ UNCHANGED <<ptr, flag, working, search, counter, tvars, rpc, replaced>>

\* X is being rebuilt: change it under the mutex and log that. The log entry
\* is stale when the rebuild ended since Check and rebuild_flag is not yet
\* reset: the tree now linked has the change, and the log is not empty.
ApplyLocked ==
  LET ops == IF whole THEN todo ELSE <<Head(todo)>> IN
  /\ mpc = "locked" /\ ~working
  /\ X' = Effect(X, ops)
  /\ Done(ops)
  /\ log' = IF flag THEN log \o ops ELSE log
  /\ astray' = IF flag /\ ~ptr THEN astray \cup Concerned(ops) ELSE astray
  /\ UNCHANGED <<ptr, flag, working, search, counter, tvars, rpc, replaced>>

\* The mutex is free again, but the visit of F ends with Update(F), which reads
\* X and writes its father_ptr through copies of F's pointers, and with F's
\* working_flag; a visit of X without the mutex ends with X's working_flag, after
\* X may have asked for its rebuild.
UpdateF ==
  /\ mpc = "update"
  /\ mpc' = "idle"
  /\ fw' = FALSE
  /\ replaced' = replaced \ {"main"}
  /\ UNCHANGED <<whole, X, owed, expected, astray, lvars, working, search, counter, tvars,
                 todo, ranging, rpc>>

\* Search_by_range enters the son that is being rebuilt under search_flag_mutex,
\* any other son, the root, and the sons of an F that the box covers, without.
RangeSearchEnter ==
  /\ mpc = "range"
  /\ \/ ptr /\ ~whole /\ ~search /\ search' = TRUE
     \/ UNCHANGED search
  /\ mpc' = "inside"
  /\ UNCHANGED <<xvars, lvars, working, counter, tvars, todo, ranging, rpc, replaced>>

RangeSearchLeave ==
  /\ mpc = "inside"
  /\ search' = FALSE
  /\ mpc' = "idle" /\ ranging' = FALSE
  /\ replaced' = replaced \ {"main"}
  /\ UNCHANGED <<xvars, lvars, working, counter, tvars, todo, rpc>>

\* The destructor asks the thread to end, and joins it.
Stop ==
  /\ mpc = "idle" /\ Quiet
  /\ mpc' = "join"
  /\ UNCHANGED <<xvars, lvars, working, search, counter, tvars, todo, ranging, rpc, replaced>>

-----------------------------------------------------------------------------
(* Nearest neighbour searches, which end at a deleted F or G *)

\* Search(F) reads the boxes of both sons; Nearest_Search reads nothing of X.
ReaderStart(r) ==
  /\ mpc = "idle" /\ owed = "none" /\ rpc[r] = "idle"
  /\ rpc' = [rpc EXCEPT ![r] = "look"]
  /\ UNCHANGED <<xvars, lvars, working, search, counter, tvars, mvars, replaced>>

\* A son X is too far, or Rebuild_Ptr is read. When X is not being rebuilt the
\* search enters the son it has looked at, or reads F's pointer again.
ReaderCheck(r) ==
  /\ rpc[r] = "look"
  /\ \E to \in {IF ptr THEN "wait" ELSE "free"} \cup (IF whole THEN {} ELSE {"idle"}) :
       /\ rpc' = [rpc EXCEPT ![r] = to]
       /\ \/ replaced' = replaced \ {r}
          \/ to = "free" /\ UNCHANGED replaced
  /\ UNCHANGED <<xvars, lvars, working, search, counter, tvars, mvars>>

MutReaderEnter(r) ==
  /\ rpc[r] = "wait" /\ ~search
  /\ counter' = IF counter = -1 THEN counter ELSE counter + 1
  /\ rpc' = [rpc EXCEPT ![r] = "counted"]
  /\ UNCHANGED <<xvars, lvars, working, search, tvars, mvars, replaced>>

ReaderEnter(r) ==
  /\ rpc[r] = "wait" /\ ~search /\ counter # -1
  /\ counter' = counter + 1
  /\ rpc' = [rpc EXCEPT ![r] = "counted"]
  /\ UNCHANGED <<xvars, lvars, working, search, tvars, mvars, replaced>>

ReaderLeave(r) ==
  /\ \/ rpc[r] = "counted" /\ ~search /\ counter' = counter - 1
     \/ rpc[r] = "free" /\ UNCHANGED counter
  /\ rpc' = [rpc EXCEPT ![r] = "idle"]
  /\ replaced' = replaced \ {r}
  /\ UNCHANGED <<xvars, lvars, working, search, tvars, mvars>>

-----------------------------------------------------------------------------
(* The rebuild thread *)

\* Both mutexes are taken; rebuild_ptr_mutex_lock is held until the end.
Begin ==
  /\ tpc = "idle" /\ ~working /\ ptr
  /\ working' = TRUE
  /\ flag' = TRUE
  /\ tpc' = "quiesce"
  /\ UNCHANGED <<xvars, ptr, log, search, counter, new, op, mvars, rpc, replaced>>

MutLockSearch(from, to) ==
  /\ tpc = from /\ ~search
  /\ counter' = -1
  /\ tpc' = IF ptr THEN to ELSE "crashed"
  /\ UNCHANGED <<xvars, lvars, working, search, new, op, mvars, rpc, replaced>>

\* Poll until no search is inside X, and keep new ones out. Then *Rebuild_Ptr is
\* read again, and is null when the rebuild was withdrawn.
LockSearch(from, to) ==
  /\ tpc = from /\ ~search /\ counter = 0
  /\ counter' = -1
  /\ tpc' = IF ptr THEN to ELSE "crashed"
  /\ UNCHANGED <<xvars, lvars, working, search, new, op, mvars, rpc, replaced>>

\* flatten; let searches and the mapping thread go on. With no live point
\* new_root_node stays null and is dereferenced a few lines on.
Flatten ==
  /\ tpc = "flatten" /\ ~search
  /\ new' = X
  /\ counter' = 0
  /\ working' = FALSE
  /\ tpc' = IF X = {} THEN "crashed" ELSE "drain"
  /\ UNCHANGED <<xvars, lvars, search, op, mvars, rpc, replaced>>

\* Take one logged operation and release the mutexes to replay it.
Drain ==
  /\ tpc = "drain" /\ ~working /\ log # <<>>
  /\ op' = Head(log)
  /\ log' = Tail(log)
  /\ tpc' = "replay"
  /\ UNCHANGED <<xvars, ptr, flag, working, search, counter, new, mvars, rpc, replaced>>

Replay ==
  /\ tpc = "replay"
  /\ new' = Applied(new, op)
  /\ op' = NoOp
  /\ tpc' = "drain"
  /\ UNCHANGED <<xvars, lvars, working, search, counter, mvars, rpc, replaced>>

\* The log is empty: keep working_flag_mutex for the swap.
Drained ==
  /\ tpc = "drain" /\ ~working /\ log = <<>>
  /\ working' = TRUE
  /\ tpc' = "quiesce2"
  /\ UNCHANGED <<xvars, lvars, search, counter, new, op, mvars, rpc, replaced>>

\* Who holds a pointer into X here: readers inside, those that have looked at
\* F's sons, and the mapping thread, in Push_Down too.
Holders ==
  {r \in Readers : Inside(r) \/ (~whole /\ rpc[r] = "look")}
    \cup IF \/ mpc \in {"free", "update", "inside"}
           \/ (mpc = "check" /\ ~whole /\ Head(todo) = DeleteX)
         THEN {"main"} ELSE {}

\* The new tree is linked and the ancestors updated up to one that is working
\* or that is owed a mark. Update(F) takes F for alive again when its own mark
\* has not reached its sons: the mark is lost, and pushed down as the mark of a
\* living node, which brings deleted points back.
Swap ==
  /\ tpc = "swap"
  /\ new' = {}
  /\ replaced' = Holders
  /\ IF owed = "F" /\ ~fw
     THEN /\ X' \in {s \in SUBSET Points : new \subseteq s}
          /\ owed' = "none" /\ astray' = Points
     ELSE X' = new /\ UNCHANGED <<owed, astray>>
  /\ tpc' = IF ptr THEN "unlock" ELSE "crashed"
  /\ UNCHANGED <<whole, fw, expected, lvars, working, search, counter, op, mvars, rpc>>

MutUnlock ==
  /\ tpc = "unlock" /\ ~search
  /\ counter' = counter
  /\ ptr' = FALSE
  /\ working' = FALSE
  /\ tpc' = "clear"
  /\ UNCHANGED <<xvars, flag, log, search, new, op, mvars, rpc, replaced>>

Unlock ==
  /\ tpc = "unlock" /\ ~search
  /\ counter' = 0
  /\ ptr' = FALSE
  /\ working' = FALSE
  /\ tpc' = "clear"
  /\ UNCHANGED <<xvars, flag, log, search, new, op, mvars, rpc, replaced>>

\* Only now, without a lock, rebuild_flag is reset.
Clear ==
  /\ tpc = "clear"
  /\ flag' = FALSE
  /\ tpc' = "free"
  /\ UNCHANGED <<xvars, ptr, log, working, search, counter, new, op, mvars, rpc, replaced>>

\* delete_tree_nodes on the old subtree ends.
Free ==
  /\ tpc = "free"
  /\ tpc' = "idle"
  /\ UNCHANGED <<xvars, lvars, working, search, counter, new, op, mvars, rpc, replaced>>

End ==
  /\ tpc = "idle" /\ mpc = "join"
  /\ tpc' = "ended"
  /\ UNCHANGED <<xvars, lvars, working, search, counter, new, op, mvars, rpc, replaced>>

-----------------------------------------------------------------------------
Alive == tpc # "crashed"

MappingStep == Check \/ ApplyFree \/ ApplyLocked \/ UpdateF \/ RangeSearchEnter
                 \/ RangeSearchLeave
Mapping     == StartOperation \/ DeleteAbove \/ MissF \/ PushG \/ StartRangeSearch
                 \/ Stop \/ MappingStep
ReaderStep(r) == ReaderCheck(r) \/ ReaderEnter(r) \/ ReaderLeave(r)
Rebuilder   == Begin \/ LockSearch("quiesce", "flatten") \/ Flatten \/ Drain \/ Replay
                 \/ Drained \/ LockSearch("quiesce2", "swap") \/ Swap \/ Unlock \/ Clear
                 \/ Free \/ End

Next == Alive /\ \/ Mapping
                 \/ Rebuilder
                 \/ \E r \in Readers : ReaderStart(r) \/ ReaderStep(r)
Spec == Init /\ [][Next]_vars

\* Every thread runs; a thread that polls or waits for a mutex that becomes
\* free again and again gets it.
FairSpec ==
  /\ Spec
  /\ SF_vars(Alive /\ Rebuilder)
  /\ SF_vars(Alive /\ MappingStep)
  /\ \A r \in Readers : SF_vars(Alive /\ ReaderStep(r))

-----------------------------------------------------------------------------
TypeOK ==
  /\ whole \in BOOLEAN /\ fw \in BOOLEAN /\ ptr \in BOOLEAN /\ flag \in BOOLEAN
  /\ working \in BOOLEAN /\ search \in BOOLEAN /\ ranging \in BOOLEAN
  /\ X \subseteq Points /\ new \subseteq Points /\ expected \subseteq Points
  /\ astray \subseteq Points
  /\ owed \in {"none", "F", "G"}
  /\ log \in Seq(Operation) /\ Len(log) =< MaxLog
  /\ op \in Operation
  /\ counter \in -1..Cardinality(Readers)
  /\ tpc \in {"idle", "quiesce", "flatten", "drain", "replay", "quiesce2", "swap",
              "unlock", "clear", "free", "crashed", "ended"}
  /\ mpc \in {"idle", "check", "free", "locked", "update", "range", "inside", "join"}
  /\ todo \in Seq(Operation) /\ Len(todo) =< 2
  /\ rpc \in [Readers -> {"idle", "look", "wait", "counted", "free"}]
  /\ replaced \subseteq Readers \cup {"main"}

(***************************************************************************)
(* While the rebuild thread flattens X or replaces it, no nearest          *)
(* neighbour search is inside X, whether it counted itself in or had found *)
(* no rebuild going on; unless the rebuild was withdrawn meanwhile.        *)
(***************************************************************************)
SearchExcluded ==
  ptr /\ tpc \in {"flatten", "swap", "unlock"} => \A r \in Readers : ~Inside(r)

(***************************************************************************)
(* When the nodes of the old tree are deleted, whoever is still in it is   *)
(* there outside the protocol: no search that counted itself in or holds   *)
(* search_flag_mutex, no operation that holds or waits for                 *)
(* working_flag_mutex, and of the whole map no nearest neighbour search at *)
(* all. (Outside it the code leaves Update after the unlock, the boxes     *)
(* that Search reads before it counts itself in, a pointer kept by         *)
(* Push_Down, box searches without the mutex, and Add_Points' second       *)
(* operation.)                                                             *)
(***************************************************************************)
NoUseAfterFree ==
  tpc = "free" =>
    /\ \A r \in replaced \cap Readers : ~whole /\ rpc[r] \in {"look", "free"}
    /\ "main" \in replaced => ~search /\ mpc \in {"check", "free", "update", "inside"}

(***************************************************************************)
(* What the calls made of X is what a search finds, before, during and     *)
(* after a rebuild, for every point that none of the races was about: a    *)
(* stale log entry, an operation of Add_Points that runs beside a rebuild  *)
(* or is missing in the log, and, about all points, a mark lost at the     *)
(* swap or written through a pointer into the old tree.                    *)
(***************************************************************************)
ContentKept ==
  \A p \in Points \ astray : p \in expected <=> owed = "none" /\ p \in X

(***************************************************************************)
(* Once the mapping thread makes no more calls, a rebuild ends: the log is *)
(* drained, no search keeps the thread out and no mutex is waited for in a *)
(* circle; and the destructor's join returns. (While calls keep coming the *)
(* log may be refilled as fast as it is replayed.)                         *)
(***************************************************************************)
Still == mpc \in {"idle", "join"} /\ Quiet
RebuildEnds ==
  /\ <>[]Still => []<>(tpc \in {"idle", "ended", "crashed"})
  /\ mpc = "join" ~> tpc \in {"ended", "crashed"}
=============================================================================
