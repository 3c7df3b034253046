------------------------------ MODULE LivoxDriver ------------------------------
(***************************************************************************)
(* The Livox driver node (livox_ros_driver2) with one lidar: the handshake *)
(* that configures the lidar, the ring in which the raw data thread leaves *)
(* frames of points for the poll thread, and the shutdown of the node.     *)
(*                                                                         *)
(* The handshake runs in the SDK's threads: LidarInfoChangeCallback sends  *)
(* one command per configured option and the answers come back in any      *)
(* order. The ring has one writer and one reader and no lock, only two     *)
(* volatile indexes; the writer wakes the reader through a semaphore whose *)
(* count it looks at without the mutex. On the machines this is built for  *)
(* (x86-64) a store may become visible after a later load of the same      *)
(* thread: stored says that wr_idx is still in the writer's store buffer.  *)
(***************************************************************************)
EXTENDS Integers, FiniteSets

CONSTANTS
  Options,    \* options the lidar's configuration sets (kConfig... bits), not empty
  Size,       \* slots of the ring, a power of two
  Wrap,       \* the indexes wrap at Wrap (2^32)
  MaxInfos    \* bound on the calls of LidarInfoChangeCallback

ASSUME RingAssumption ==
  /\ MaxInfos \in Nat
  /\ Size \in Nat \ {0} /\ Wrap \in Nat
  /\ Wrap > Size /\ Wrap % Size = 0

VARIABLES
  known,      \* the lidar has an index (cache_index_)
  setBits,    \* livox_config.set_bits
  todo,       \* options LidarInfoChangeCallback has yet to send; it holds config_mutex_
  calling,    \* is LidarInfoChangeCallback in its locked section?
  infos,      \* calls of LidarInfoChangeCallback so far
  asked,      \* requests in flight per option
  applied,    \* options the lidar has taken over
  sampling,   \* connect_state = kConnectStateSampling
  streaming,  \* the lidar sends points
  wr, rd,     \* wr_idx and rd_idx in memory
  stored,     \* the writer has advanced wr_idx, the memory does not show it yet
  slots,      \* storage_packet: for each slot the index of the frame in it
  prod,       \* place of the raw data thread in PushLidarData
  sem,        \* count_ of pcd_semaphore_
  poll,       \* place of the poll thread
  main        \* place of ~DriverNode

config == <<known, setBits, todo, calling, infos, asked, applied, sampling>>
ring   == <<wr, rd, stored, slots>>
vars   == <<config, streaming, ring, prod, sem, poll, main>>

Index   == 0 .. Wrap - 1
Slot(i) == i % Size
Next1(i) == (i + 1) % Wrap

\* The file may list the lidar or not. A lidar it does not list gets an
\* all-zero configuration, in which every option is set (none is -1).
Init ==
  /\ known \in BOOLEAN
  /\ setBits = {} /\ todo = {} /\ calling = FALSE /\ infos = 0
  /\ asked = [o \in Options |-> 0] /\ applied = {} /\ sampling = FALSE
  /\ streaming \in BOOLEAN
  /\ wr = 0 /\ rd = 0 /\ stored = FALSE
  /\ slots = [s \in 0 .. Size - 1 |-> s]
  /\ prod = "idle" /\ sem = 0 /\ poll = "top" /\ main = "run"

-----------------------------------------------------------------------------
(* The handshake. *)

\* An unlisted lidar only gets an index; a known one is configured under the
\* lock.
InfoChange ==
  /\ ~calling /\ infos < MaxInfos
  /\ infos' = infos + 1
  /\ known' = TRUE
  /\ calling' = known
  /\ todo' = IF known THEN Options ELSE {}
  /\ UNCHANGED <<setBits, asked, applied, sampling, streaming, ring, prod,
                 sem, poll, main>>

SendOption(o) ==
  /\ calling /\ o \in todo
  /\ todo' = todo \ {o}
  /\ setBits' = setBits \cup {o}
  /\ asked' = [asked EXCEPT ![o] = @ + 1]
  /\ UNCHANGED <<known, calling, infos, applied, sampling, streaming, ring,
                 prod, sem, poll, main>>

InfoDone ==
  /\ calling /\ todo = {}
  /\ calling' = FALSE
  /\ UNCHANGED <<known, setBits, todo, infos, asked, applied, sampling,
                 streaming, ring, prod, sem, poll, main>>

MutOptionSet(o) ==
  /\ asked[o] > 0
  /\ asked' = [asked EXCEPT ![o] = @ - 1]
  /\ applied' = applied \cup {o}
  /\ setBits' = setBits \ {o}
  /\ sampling' = (sampling \/ setBits' = {})
  /\ UNCHANGED <<known, todo, calling, infos, streaming, ring, prod, sem,
                 poll, main>>

\* SetDataTypeCallback, SetPatternModeCallback, SetBlindSpotCallback and
\* SetDualEmitCallback with status success; the lock makes it wait for
\* LidarInfoChangeCallback.
OptionSet(o) ==
  /\ asked[o] > 0 /\ ~calling
  /\ asked' = [asked EXCEPT ![o] = @ - 1]
  /\ applied' = applied \cup {o}
  /\ setBits' = setBits \ {o}
  /\ sampling' = (sampling \/ setBits' = {})
  /\ UNCHANGED <<known, todo, calling, infos, streaming, ring, prod, sem,
                 poll, main>>

\* Timeout: the same command is sent again; the lidar may have obeyed the
\* first one.
OptionTimeout(o) ==
  /\ asked[o] > 0
  /\ applied' \in {applied, applied \cup {o}}
  /\ UNCHANGED <<known, setBits, todo, calling, infos, asked, sampling,
                 streaming, ring, prod, sem, poll, main>>

\* Any other status: a message, and the bit stays.
OptionRefused(o) ==
  /\ asked[o] > 0
  /\ asked' = [asked EXCEPT ![o] = @ - 1]
  /\ UNCHANGED <<known, setBits, todo, calling, infos, applied, sampling,
                 streaming, ring, prod, sem, poll, main>>

\* The lidar begins or stops to send points.
Stream ==
  /\ streaming' = ~streaming
  /\ UNCHANGED <<config, ring, prod, sem, poll, main>>

-----------------------------------------------------------------------------
(* PushLidarData, in the raw data thread. *)

WriterIndex == IF stored THEN Next1(wr) ELSE wr
Used        == (WriterIndex - rd) % Wrap

MutIsFull == Used > Size
IsFull    == Used > Size - 1

MutPushBegin ==
  /\ prod = "idle" /\ streaming /\ known /\ ~stored
  /\ prod' = IF IsFull THEN "idle" ELSE "write"
  /\ UNCHANGED <<config, streaming, ring, sem, poll, main>>

\* A frame is ready; frames of an unknown lidar are dropped (GetIndex). A
\* store of the previous frame, a publishing period ago, is visible by now.
PushBegin ==
  /\ prod = "idle" /\ streaming /\ known /\ ~stored
  /\ prod' = IF IsFull THEN "count" ELSE "write"
  /\ UNCHANGED <<config, streaming, ring, sem, poll, main>>

\* While prod = "write" QueuePushAny overwrites the slot.
PushWrite ==
  /\ prod = "write"
  /\ slots' = [slots EXCEPT ![Slot(wr)] = wr]
  /\ stored' = TRUE
  /\ prod' = "check"
  /\ UNCHANGED <<config, streaming, wr, rd, sem, poll, main>>

StoreVisible ==
  /\ stored
  /\ wr' = Next1(wr) /\ stored' = FALSE
  /\ UNCHANGED <<config, streaming, rd, slots, prod, sem, poll, main>>

\* if (!QueueIsEmpty(queue))
PushCheck ==
  /\ prod = "check"
  /\ prod' = IF WriterIndex = rd THEN "idle" ELSE "count"
  /\ UNCHANGED <<config, streaming, ring, sem, poll, main>>

MutPushCount ==
  /\ prod = "count"
  /\ prod' = "signal"
  /\ UNCHANGED <<config, streaming, ring, sem, poll, main>>

\* if (pcd_semaphore_.GetCount() <= 0), without the mutex
PushCount ==
  /\ prod = "count"
  /\ prod' = IF sem > 0 THEN "idle" ELSE "signal"
  /\ UNCHANGED <<config, streaming, ring, sem, poll, main>>

\* Signal: locking the mutex empties the store buffer first.
PushSignal ==
  /\ prod = "signal" /\ ~stored
  /\ sem' = sem + 1 /\ prod' = "idle"
  /\ UNCHANGED <<config, streaming, ring, poll, main>>

-----------------------------------------------------------------------------
(* PointCloudDataPollThread. *)

IsEmpty == rd = wr

Poll(from, to) ==
  /\ poll = from /\ poll' = to
  /\ UNCHANGED <<config, streaming, ring, prod, main>>

\* DistributePointCloudData
PollTop == Poll("top", IF main = "run" THEN "wait" ELSE "future") /\ UNCHANGED sem

PollWait == sem > 0 /\ sem' = sem - 1 /\ Poll("wait", "state")

MutPollState == Poll("state", IF sampling THEN "loop" ELSE "wait") /\ UNCHANGED sem

PollState == Poll("state", IF sampling THEN "loop" ELSE "future") /\ UNCHANGED sem

\* PollingLidarPointCloudData
PollLoop ==
  /\ Poll("loop", IF main # "run" \/ IsEmpty THEN "future" ELSE "drain")
  /\ UNCHANGED sem

\* PublishPointcloud2 and PublishCustomPointcloud: pop until the ring is empty
PollDrain == Poll("drain", IF IsEmpty THEN "loop" ELSE "copy") /\ UNCHANGED sem

\* QueuePop has copied the slot, and moves on.
PollPop ==
  /\ poll = "copy"
  /\ rd' = Next1(rd) /\ poll' = "drain"
  /\ UNCHANGED <<config, streaming, wr, stored, slots, prod, sem, main>>

\* The loop ends when the future of exit_signal_ is ready.
PollFuture ==
  /\ Poll("future", IF main \in {"run", "asked"} THEN "top" ELSE "done")
  /\ UNCHANGED sem

-----------------------------------------------------------------------------
(* ~DriverNode. *)

Shut(from, to) ==
  /\ main = from /\ main' = to
  /\ UNCHANGED <<config, streaming, ring, prod, sem, poll>>

RequestExit == Shut("run", "asked")
SetValue    == Shut("asked", "signalled")
Join        == poll = "done" /\ Shut("signalled", "joined")

-----------------------------------------------------------------------------

Handshake == InfoChange \/ InfoDone
               \/ \E o \in Options : SendOption(o) \/ OptionSet(o)
                                       \/ OptionTimeout(o) \/ OptionRefused(o)

Push == PushWrite \/ StoreVisible \/ PushCheck \/ PushCount \/ PushSignal

PollThread == PollTop \/ PollWait \/ PollState \/ PollLoop \/ PollDrain \/ PollPop
                \/ PollFuture

Shutdown == SetValue \/ Join

Next == Handshake \/ Stream \/ PushBegin \/ Push \/ PollThread \/ RequestExit \/ Shutdown

Spec == Init /\ [][Next]_vars

\* The threads run, and a streaming lidar keeps sending. A frame is published
\* every 50 ms or more: a ring that is empty again and again is also found
\* empty by the poll thread's two tests (strong fairness).
FairSpec ==
  /\ Spec
  /\ WF_vars(PushBegin) /\ WF_vars(StoreVisible)
  /\ WF_vars(PushWrite \/ PushCheck \/ PushCount \/ PushSignal)
  /\ WF_vars(PollThread) /\ WF_vars(Shutdown)
  /\ SF_vars(PollLoop /\ poll' = "future")
  /\ SF_vars(PollDrain /\ poll' = "loop")

-----------------------------------------------------------------------------
(* Properties. *)

\* Every variable stays in its type; the semaphore never counts beyond one,
\* since its only writer signals when it has read zero.
TypeOK ==
  /\ known \in BOOLEAN /\ setBits \subseteq Options
  /\ todo \subseteq Options /\ calling \in BOOLEAN /\ infos \in 0 .. MaxInfos
  /\ asked \in [Options -> 0 .. MaxInfos] /\ applied \subseteq Options
  /\ sampling \in BOOLEAN /\ streaming \in BOOLEAN
  /\ wr \in Index /\ rd \in Index /\ stored \in BOOLEAN
  /\ slots \in [0 .. Size - 1 -> Index]
  /\ prod \in {"idle", "write", "check", "count", "signal"}
  /\ sem \in {0, 1}
  /\ poll \in {"top", "wait", "state", "loop", "drain", "copy", "future", "done"}
  /\ main \in {"run", "asked", "signalled", "joined"}

\* The frame that the poll thread copies out of the ring is the next one in
\* the order they were stored, whole: it was not overwritten, the writer is
\* not at work on its slot, and this stays so when the indexes wrap.
NoOverwrite ==
  poll = "copy" => /\ slots[Slot(rd)] = rd
                   /\ ~(prod = "write" /\ Slot(wr) = Slot(rd))

\* Points are published only once the lidar has taken over every option of
\* the configuration, in whichever order the answers come and while
\* LidarInfoChangeCallback is still sending.
SamplingConfigured == sampling => applied = Options

\* While a configured lidar goes on sending, the oldest frame in the ring is
\* always taken out and published in the end (or the node exits): no wake-up is lost for
\* good, not even after a ring that filled up before the lidar was sampling.
FramesPublished ==
  (<>[]streaming) => (sampling /\ rd # wr ~> poll = "copy" \/ main # "run")

\* The loop that empties the ring does not look at request_exit_: it ends
\* only if publishing is faster than the lidar.
KeepsUp == poll = "drain" ~> rd = wr

\* While a known lidar goes on sending and publishing keeps up with it, the
\* destructor gets its poll thread joined, wherever that thread was.
ShutdownEnds ==
  (KeepsUp /\ <>[](streaming /\ known)) => (main # "run" ~> main = "joined")

=============================================================================
