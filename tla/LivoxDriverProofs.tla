--------------------------- MODULE LivoxDriverProofs ---------------------------
(***************************************************************************)
(* The Livox driver for every set of options, every size of the ring and   *)
(* every width of its indexes: the state is well-formed, no frame is       *)
(* overwritten while it is copied, and points are published only from a    *)
(* lidar that has taken over its whole configuration.                      *)
(***************************************************************************)
EXTENDS LivoxDriver, TLAPS

-----------------------------------------------------------------------------
(* The inductive invariant *)

HandshakeType ==
  /\ known \in BOOLEAN /\ setBits \subseteq Options
  /\ todo \subseteq Options /\ calling \in BOOLEAN /\ infos \in 0 .. MaxInfos
  /\ asked \in [Options -> Nat] /\ applied \subseteq Options
  /\ sampling \in BOOLEAN

\* Every call of LidarInfoChangeCallback asks for an option at most once.
AskedOnce == \A o \in Options : asked[o] + (IF o \in todo THEN 1 ELSE 0) =< infos

\* An option that was sent has its bit set until the lidar has taken it over; once
\* a request is in flight and the callback has left the lock, that is all options.
Sent == Options \subseteq setBits \cup applied \cup todo
BitsCoverOptions ==
  /\ ~calling => todo = {}
  /\ calling \/ (\E o \in Options : asked[o] > 0) => Sent

HandshakeInv == HandshakeType /\ AskedOnce /\ BitsCoverOptions /\ SamplingConfigured

RingType ==
  /\ streaming \in BOOLEAN
  /\ wr \in Index /\ rd \in Index /\ stored \in BOOLEAN
  /\ slots \in [0 .. Size - 1 -> Index]
  /\ prod \in {"idle", "write", "check", "count", "signal"}
  /\ sem \in {0, 1}
  /\ poll \in {"top", "wait", "state", "loop", "drain", "copy", "future", "done"}
  /\ main \in {"run", "asked", "signalled", "joined"}

\* How far an index is ahead of rd_idx, and how many frames the ring holds with the
\* one whose index is still in the store buffer.
Ahead(j) == (j - rd) % Wrap
Held     == Ahead(wr) + (IF stored THEN 1 ELSE 0)

\* The ring holds at most Size frames, fewer while one is written; the frames it
\* holds are in their slots; what is copied has been stored.
RingHolds ==
  /\ Held =< Size
  /\ prod = "write" => ~stored /\ Held < Size
  /\ poll = "copy" => Ahead(wr) > 0
  /\ \A j \in Index : Ahead(j) < Held => slots[Slot(j)] = j

\* The writer has read zero, and nobody else counts up.
SignalAtZero == prod = "signal" => sem = 0

RingInv == RingType /\ RingHolds /\ SignalAtZero

IInv == HandshakeInv /\ RingInv

-----------------------------------------------------------------------------
(* Indexes that wrap *)

LEMMA DivMod ==
  ASSUME NEW a \in Int, NEW s \in Nat \ {0}
  PROVE  a = (s * (a \div s)) + (a % s) /\ a % s \in 0 .. s - 1 /\ a \div s \in Int
OBVIOUS

\* Two numbers less than s apart have different remainders.
LEMMA ModApart ==
  ASSUME NEW a \in Int, NEW d \in Int, NEW s \in Nat \ {0}, 0 < d, d < s
  PROVE  (a + d) % s # a % s
<1> SUFFICES ASSUME (a + d) % s = a % s PROVE FALSE
  OBVIOUS
<1> DEFINE n == ((a + d) \div s) - (a \div s)
<1>1. n \in Int /\ s * n = d
  <2>1. /\ a = (s * (a \div s)) + (a % s) /\ a \div s \in Int
        /\ a + d = (s * ((a + d) \div s)) + ((a + d) % s) /\ (a + d) \div s \in Int
    BY DivMod
  <2>2. s * n = (s * ((a + d) \div s)) - (s * (a \div s))
    BY <2>1
  <2> QED
    BY <2>1, <2>2
<1> HIDE DEF n
<1>2. n >= 1 => s * n >= s
  BY <1>1
<1>3. n =< 0 => s * n =< 0
  BY <1>1
<1> QED
  BY <1>1, <1>2, <1>3

LEMMA ModUnique ==
  ASSUME NEW a \in Int, NEW s \in Nat \ {0}, NEW q \in Int, NEW r \in 0 .. s - 1,
         a = (s * q) + r
  PROVE  a % s = r
OBVIOUS

LEMMA ModAdd ==
  ASSUME NEW a \in Int, NEW w \in Nat, NEW s \in Nat \ {0}, w % s = 0
  PROVE  (a + w) % s = a % s
<1> DEFINE q == (a \div s) + (w \div s)
<1>1. /\ a = (s * (a \div s)) + (a % s) /\ a \div s \in Int /\ a % s \in 0 .. s - 1
      /\ w = (s * (w \div s)) + (w % s) /\ w \div s \in Int
  BY DivMod
<1>2. q \in Int /\ s * q = (s * (a \div s)) + (s * (w \div s))
  BY <1>1
<1>3. a + w = (s * q) + (a % s)
  BY <1>1, <1>2
<1> DEFINE r == a % s
<1>4. r \in 0 .. s - 1 /\ a + w = (s * q) + r /\ q \in Int /\ a + w \in Int
  BY <1>1, <1>2, <1>3
<1> HIDE DEF q, r
<1>5. (a + w) % s = r
  BY <1>4, ModUnique
<1> QED
  BY <1>5 DEF r

LEMMA Sizes ==
  /\ Size \in Nat \ {0} /\ Wrap \in Nat \ {0} /\ Size < Wrap
  /\ \A j \in Index : j \in Int /\ 0 =< j /\ j < Wrap
BY RingAssumption DEF Index

\* Differences and successors of indexes without the modulus.
LEMMA Distance ==
  ASSUME NEW i \in Index, NEW j \in Index
  PROVE  /\ (j - i) % Wrap = IF i =< j THEN j - i ELSE j - i + Wrap
         /\ Next1(j) = IF j = Wrap - 1 THEN 0 ELSE j + 1
         /\ Next1(j) \in Index
<1>1. /\ i \in Int /\ 0 =< i /\ i < Wrap /\ j \in Int /\ 0 =< j /\ j < Wrap
      /\ Wrap \in Nat \ {0}
  BY Sizes
<1>2. (j - i) % Wrap = IF i =< j THEN j - i ELSE j - i + Wrap
  BY <1>1
<1>3. Next1(j) = IF j = Wrap - 1 THEN 0 ELSE j + 1
  BY <1>1 DEF Next1
<1> QED
  BY <1>1, <1>2, <1>3 DEF Index

LEMMA SlotType == ASSUME NEW j \in Index PROVE Slot(j) \in 0 .. Size - 1
BY Sizes DEF Slot

\* Indexes less than Size apart have different slots, also across the wrap.
LEMMA SlotsApart ==
  ASSUME NEW i \in Index, NEW j \in Index, 0 < (j - i) % Wrap, (j - i) % Wrap < Size
  PROVE  Slot(i) # Slot(j)
<1>1. CASE i =< j
  <2>1. j - i \in Int /\ 0 < j - i /\ j - i < Size /\ i \in Int /\ j = i + (j - i)
    BY <1>1, Sizes, Distance
  <2> QED
    BY <2>1, Sizes, ModApart DEF Slot
<1>2. CASE ~(i =< j)
  <2> DEFINE d == j - i + Wrap
  <2>1. d \in Int /\ 0 < d /\ d < Size /\ i \in Int /\ j \in Int /\ j + Wrap = i + d
    BY <1>2, Sizes, Distance
  <2> HIDE DEF d
  <2>2. (j + Wrap) % Size # i % Size
    BY <2>1, Sizes, ModApart
  <2>3. (j + Wrap) % Size = j % Size
    BY <2>1, Sizes, ModAdd, RingAssumption
  <2> QED
    BY <2>2, <2>3 DEF Slot
<1> QED
  BY <1>1, <1>2

-----------------------------------------------------------------------------
(* The initial states *)

LEMMA InitHandshake == Init => HandshakeInv
<1> SUFFICES ASSUME Init PROVE HandshakeInv
  OBVIOUS
<1>1. /\ known \in BOOLEAN /\ setBits = {} /\ todo = {} /\ calling = FALSE /\ infos = 0
      /\ asked = [o \in Options |-> 0] /\ applied = {} /\ sampling = FALSE
      /\ MaxInfos \in Nat
  BY RingAssumption DEF Init
<1>2. HandshakeType
  <2>1. asked \in [Options -> Nat] /\ infos \in 0 .. MaxInfos
    BY <1>1
  <2> QED
    BY <1>1, <2>1 DEF HandshakeType
<1>3. AskedOnce
  BY <1>1 DEF AskedOnce
<1>4. BitsCoverOptions
  BY <1>1 DEF BitsCoverOptions
<1> QED
  BY <1>1, <1>2, <1>3, <1>4 DEF HandshakeInv, SamplingConfigured

LEMMA InitRing == Init => RingInv
<1> SUFFICES ASSUME Init PROVE RingInv
  OBVIOUS
<1>1. RingType
  <2>1. wr \in Index /\ rd \in Index
    BY Sizes DEF Init, Index
  <2>2. slots \in [0 .. Size - 1 -> Index]
    BY Sizes DEF Init, Index
  <2> QED
    BY <2>1, <2>2 DEF Init, RingType
<1>2. 0 \in Index /\ \A j \in Index : Ahead(j) \in Nat
  BY Sizes, Distance DEF Init, Ahead, Index
<1>3. Ahead(wr) = 0
  BY <1>2, Distance DEF Init, Ahead
<1> QED
  BY <1>1, <1>2, <1>3, Sizes DEF Init, RingInv, RingHolds, Held, SignalAtZero

-----------------------------------------------------------------------------
(* The handshake *)

LEMMA HandshakeStep ==
  ASSUME HandshakeInv, Handshake
  PROVE  HandshakeInv'
<1> USE DEF HandshakeInv, HandshakeType
<1>0. MaxInfos \in Nat
  BY RingAssumption
<1>1. CASE InfoChange
  <2>1. HandshakeType'
    BY <1>0, <1>1 DEF InfoChange
  <2>2. AskedOnce'
    BY <1>1 DEF InfoChange, AskedOnce
  <2> QED
    BY <1>1, <2>1, <2>2 DEF InfoChange, BitsCoverOptions, Sent, SamplingConfigured
<1>2. CASE InfoDone
  BY <1>2 DEF InfoDone, AskedOnce, BitsCoverOptions, Sent, SamplingConfigured
<1>3. ASSUME NEW o \in Options, SendOption(o) PROVE HandshakeInv'
  <2>1. HandshakeType'
    BY <1>3 DEF SendOption
  <2>2. AskedOnce'
    BY <1>3 DEF SendOption, AskedOnce
  <2> QED
    BY <1>3, <2>1, <2>2 DEF SendOption, BitsCoverOptions, Sent, SamplingConfigured
<1>4. ASSUME NEW o \in Options, OptionSet(o) PROVE HandshakeInv'
  <2>1. HandshakeType'
    BY <1>4 DEF OptionSet
  <2>2. AskedOnce'
    BY <1>4 DEF OptionSet, AskedOnce
  <2>3. Sent' /\ todo' = {}
    BY <1>4 DEF OptionSet, BitsCoverOptions, Sent
  <2>4. BitsCoverOptions' /\ SamplingConfigured'
    BY <1>4, <2>1, <2>3 DEF OptionSet, BitsCoverOptions, Sent, SamplingConfigured
  <2> QED
    BY <2>1, <2>2, <2>4
<1>5. ASSUME NEW o \in Options, OptionTimeout(o) PROVE HandshakeInv'
  <2>1. HandshakeType' /\ AskedOnce'
    BY <1>5 DEF OptionTimeout, AskedOnce
  <2> QED
    BY <1>5, <2>1 DEF OptionTimeout, BitsCoverOptions, Sent, SamplingConfigured
<1>6. ASSUME NEW o \in Options, OptionRefused(o) PROVE HandshakeInv'
  <2>1. HandshakeType'
    BY <1>6 DEF OptionRefused
  <2>2. AskedOnce'
    BY <1>6 DEF OptionRefused, AskedOnce
  <2>3. BitsCoverOptions' /\ SamplingConfigured'
    BY <1>6, <2>1 DEF OptionRefused, BitsCoverOptions, Sent, SamplingConfigured
  <2> QED
    BY <2>1, <2>2, <2>3
<1> QED
  BY <1>1, <1>2, <1>3, <1>4, <1>5, <1>6 DEF Handshake

LEMMA HandshakeKept == ASSUME HandshakeInv, UNCHANGED config PROVE HandshakeInv'
BY DEF config, HandshakeInv, HandshakeType, AskedOnce, BitsCoverOptions, Sent, SamplingConfigured

-----------------------------------------------------------------------------
(* The ring *)

\* Steps that move no index: if they start to write or to copy, there is room for
\* a frame or one to copy.
LEMMA RingKept ==
  ASSUME RingInv, UNCHANGED ring, RingType', SignalAtZero',
         prod' = "write" => prod = "write" \/ (~stored /\ Held < Size),
         poll' = "copy" => poll = "copy" \/ Ahead(wr) > 0
  PROVE  RingInv'
BY DEF RingInv, ring, RingHolds, Held, Ahead

LEMMA AheadType ==
  ASSUME RingType PROVE \A j \in Index : Ahead(j) \in 0 .. Wrap - 1
BY Sizes, Distance DEF RingType, Ahead, Index

\* A frame is stored behind those the ring holds.
LEMMA WriteStep == ASSUME RingInv, PushWrite PROVE RingInv'
<1>1. /\ prod = "write" /\ slots' = [slots EXCEPT ![Slot(wr)] = wr] /\ stored' = TRUE
      /\ prod' = "check" /\ UNCHANGED <<streaming, wr, rd, sem, poll, main>>
  BY DEF PushWrite
<1>2. RingType /\ wr \in Index /\ rd \in Index /\ slots \in [0 .. Size - 1 -> Index]
      /\ ~stored /\ Held < Size /\ Slot(wr) \in 0 .. Size - 1
  BY <1>1, SlotType DEF RingInv, RingHolds, RingType
<1>3. RingType'
  BY <1>1, <1>2 DEF RingType
<1>4. Ahead(wr) \in Nat /\ Held = Ahead(wr) /\ Held' = Ahead(wr) + 1
      /\ \A j \in Index : Ahead(j)' = Ahead(j)
  BY <1>1, <1>2, AheadType DEF Held, Ahead
<1>5. ASSUME NEW j \in Index, Ahead(j) < Ahead(wr) + 1 PROVE slots'[Slot(j)] = j
  <2>1. CASE j = wr
    BY <1>1, <1>2, <2>1
  <2>2. CASE j # wr
    <3>1. 0 < (wr - j) % Wrap /\ (wr - j) % Wrap < Size /\ Ahead(j) < Ahead(wr)
      <4>1. /\ Ahead(j) = IF rd =< j THEN j - rd ELSE j - rd + Wrap
            /\ Ahead(wr) = IF rd =< wr THEN wr - rd ELSE wr - rd + Wrap
            /\ (wr - j) % Wrap = IF j =< wr THEN wr - j ELSE wr - j + Wrap
        BY <1>2, Distance DEF Ahead
      <4>2. /\ j \in Int /\ wr \in Int /\ rd \in Int /\ Wrap \in Nat /\ Size \in Nat
            /\ 0 =< j /\ j < Wrap /\ 0 =< wr /\ wr < Wrap /\ 0 =< rd /\ rd < Wrap
        BY <1>2, Sizes
      <4> QED
        BY <1>2, <1>4, <1>5, <2>2, <4>1, <4>2
    <3>2. Slot(j) # Slot(wr) /\ Slot(j) \in 0 .. Size - 1
      BY <1>2, <3>1, SlotsApart, SlotType
    <3>3. slots[Slot(j)] = j
      BY <1>4, <3>1 DEF RingInv, RingHolds
    <3> QED
      BY <1>1, <1>2, <3>2, <3>3
  <2> QED
    BY <2>1, <2>2
<1>6. RingHolds'
  BY <1>1, <1>2, <1>4, <1>5, Sizes DEF RingInv, RingHolds
<1> QED
  BY <1>1, <1>3, <1>6 DEF RingInv, SignalAtZero

\* The store buffer is emptied.
LEMMA VisibleStep == ASSUME RingInv, StoreVisible PROVE RingInv'
<1>1. /\ stored /\ wr' = Next1(wr) /\ stored' = FALSE
      /\ UNCHANGED <<streaming, rd, slots, prod, sem, poll, main>>
  BY DEF StoreVisible
<1>2. RingType /\ wr \in Index /\ rd \in Index /\ Held =< Size /\ prod # "write"
  BY <1>1 DEF RingInv, RingHolds, RingType
<1>3. wr' \in Index
  BY <1>1, <1>2, Distance
<1>4. Ahead(wr) \in Nat /\ Held = Ahead(wr) + 1
  BY <1>1, <1>2, AheadType DEF Held
<1>5. (wr' - rd) % Wrap = Ahead(wr) + 1
  <2>1. /\ Ahead(wr) = IF rd =< wr THEN wr - rd ELSE wr - rd + Wrap
        /\ (wr' - rd) % Wrap = IF rd =< wr' THEN wr' - rd ELSE wr' - rd + Wrap
        /\ wr' = IF wr = Wrap - 1 THEN 0 ELSE wr + 1
    BY <1>1, <1>2, <1>3, Distance DEF Ahead
  <2> QED
    BY <1>2, <1>4, <2>1, Sizes
<1>6. Held' = Held /\ Ahead(wr)' > 0 /\ \A j \in Index : Ahead(j)' = Ahead(j)
  BY <1>1, <1>4, <1>5 DEF Held, Ahead
<1>7. RingType'
  BY <1>1, <1>3 DEF RingInv, RingType
<1> QED
  BY <1>1, <1>2, <1>6, <1>7 DEF RingInv, RingHolds, SignalAtZero

\* The poll thread has copied the oldest frame.
LEMMA PopStep == ASSUME RingInv, PollPop PROVE RingInv'
<1>1. /\ poll = "copy" /\ rd' = Next1(rd) /\ poll' = "drain"
      /\ UNCHANGED <<streaming, wr, stored, slots, prod, sem, main>>
  BY DEF PollPop
<1>2. RingType /\ wr \in Index /\ rd \in Index /\ Held =< Size /\ Ahead(wr) > 0
  BY <1>1 DEF RingInv, RingHolds, RingType
<1>3. rd' \in Index
  BY <1>1, <1>2, Distance
<1>4. ASSUME NEW j \in Index PROVE Ahead(j)' = IF Ahead(j) = 0 THEN Wrap - 1 ELSE Ahead(j) - 1
  <2>1. /\ Ahead(j) = IF rd =< j THEN j - rd ELSE j - rd + Wrap
        /\ Ahead(j)' = IF rd' =< j THEN j - rd' ELSE j - rd' + Wrap
        /\ rd' = IF rd = Wrap - 1 THEN 0 ELSE rd + 1
    BY <1>1, <1>2, <1>3, Distance DEF Ahead
  <2> QED
    BY <1>2, <2>1, Sizes
<1>5. Held' = Held - 1 /\ Held \in Nat
  BY <1>1, <1>2, <1>4, AheadType DEF Held
<1>6. \A j \in Index : Ahead(j)' < Held' => Ahead(j) < Held
  BY <1>2, <1>4, <1>5, AheadType, Sizes
<1>7. RingType'
  BY <1>1, <1>3 DEF RingInv, RingType
<1> QED
  BY <1>1, <1>2, <1>5, <1>6, <1>7, Sizes DEF RingInv, RingHolds, SignalAtZero

LEMMA RingStep == ASSUME RingInv, [Next]_vars PROVE RingInv'
<1> USE DEF RingInv
<1>1. CASE Handshake
  <2>1. UNCHANGED <<streaming, ring, prod, sem, poll, main>>
    BY <1>1 DEF Handshake, InfoChange, InfoDone, SendOption, OptionSet, OptionTimeout, OptionRefused
  <2> QED
    BY <2>1, RingKept DEF RingType, SignalAtZero, ring
<1>2. CASE Stream \/ RequestExit \/ Shutdown
  <2>1. UNCHANGED <<ring, prod, sem, poll>> /\ streaming' \in BOOLEAN
        /\ main' \in {"run", "asked", "signalled", "joined"}
    BY <1>2 DEF Stream, RequestExit, Shutdown, SetValue, Join, Shut, RingType
  <2> QED
    BY <2>1, RingKept DEF RingType, SignalAtZero, ring
<1>3. CASE PushBegin
  <2>1. UNCHANGED <<streaming, ring, sem, poll, main>> /\ ~stored
        /\ prod' = IF IsFull THEN "count" ELSE "write"
    BY <1>3 DEF PushBegin
  <2>2. ~IsFull => Held < Size
    BY <2>1, AheadType, Sizes DEF IsFull, Used, WriterIndex, Held, Ahead, RingType
  <2> QED
    BY <2>1, <2>2, RingKept DEF RingType, SignalAtZero, ring
<1>4. CASE PushCheck \/ PushCount
  <2>1. UNCHANGED <<streaming, ring, sem, poll, main>> /\ prod' \in {"idle", "count", "signal"}
        /\ (prod' = "signal" => sem = 0)
    BY <1>4 DEF PushCheck, PushCount, RingType
  <2> QED
    BY <2>1, RingKept DEF RingType, SignalAtZero, ring
<1>5. CASE PushSignal
  <2>1. UNCHANGED <<streaming, ring, poll, main>> /\ prod' = "idle" /\ sem' = 1
    BY <1>5 DEF PushSignal, RingType, SignalAtZero
  <2> QED
    BY <2>1, RingKept DEF RingType, SignalAtZero, ring
<1>6. CASE PollThread /\ ~PollPop
  <2>1. UNCHANGED <<streaming, ring, prod, main>> /\ sem' \in {0, sem}
        /\ poll' \in {"top", "wait", "state", "loop", "drain", "copy", "future", "done"}
        /\ (poll' = "copy" => ~IsEmpty)
    BY <1>6 DEF PollThread, PollTop, PollWait, PollState, PollLoop, PollDrain, PollFuture, Poll,
                RingType
  <2>2. ~IsEmpty => Ahead(wr) > 0
    <3>1. /\ wr \in Index /\ rd \in Index
          /\ Ahead(wr) = IF rd =< wr THEN wr - rd ELSE wr - rd + Wrap
      BY Distance DEF Ahead, RingType
    <3> QED
      BY <3>1, Sizes DEF IsEmpty
  <2> QED
    BY <2>1, <2>2, RingKept DEF RingType, SignalAtZero, ring
<1>7. CASE UNCHANGED vars
  BY <1>7, RingKept DEF vars, RingType, SignalAtZero, ring
<1> QED
  BY <1>1, <1>2, <1>3, <1>4, <1>5, <1>6, <1>7, WriteStep, VisibleStep, PopStep
  DEF Next, Push, PollThread

LEMMA Step == ASSUME IInv, [Next]_vars PROVE IInv'
<1>1. RingInv'
  BY RingStep DEF IInv
<1>2. Handshake \/ UNCHANGED config
  BY DEF Next, vars, Stream, PushBegin, Push, PushWrite, StoreVisible, PushCheck, PushCount,
         PushSignal, PollThread, PollTop, PollWait, PollState, PollLoop, PollDrain, PollPop,
         PollFuture, Poll, RequestExit, Shutdown, SetValue, Join, Shut
<1> QED
  BY <1>1, <1>2, HandshakeStep, HandshakeKept DEF IInv

\* The inductive invariant of the handshake and the ring.
THEOREM Invariant == Spec => []IInv
<1>1. Init => IInv
  BY InitHandshake, InitRing DEF IInv
<1>2. IInv /\ [Next]_vars => IInv'
  BY Step
<1> QED
  BY <1>1, <1>2, PTL DEF Spec

\* Indexes, bits, counts and the semaphore stay within their types; the semaphore
\* never counts beyond one (semaphore.h, PushLidarData).
THEOREM TypeCorrect == Spec => []TypeOK
<1>1. IInv => TypeOK
  <2> SUFFICES ASSUME IInv PROVE TypeOK
    OBVIOUS
  <2>1. asked \in [Options -> 0 .. MaxInfos]
    BY RingAssumption DEF IInv, HandshakeInv, HandshakeType, AskedOnce
  <2> QED
    BY <2>1 DEF IInv, HandshakeInv, HandshakeType, RingInv, RingType, TypeOK
<1> QED
  BY <1>1, Invariant, PTL

\* The frame that the poll thread copies is the oldest one and is not written at the
\* same time, for every size of the ring and every width of the indexes of which the
\* size is a divisor (QueuePushAny, QueuePop, QueueIsFull).
THEOREM FramesAreCopiedWhole == Spec => []NoOverwrite
<1>1. IInv => NoOverwrite
  <2> SUFFICES ASSUME IInv, poll = "copy"
               PROVE  slots[Slot(rd)] = rd /\ ~(prod = "write" /\ Slot(wr) = Slot(rd))
    BY DEF NoOverwrite
  <2>1. RingType /\ RingHolds /\ wr \in Index /\ rd \in Index /\ Ahead(wr) > 0
    BY DEF IInv, RingInv, RingHolds, RingType
  <2>2. Ahead(rd) = 0 /\ Held >= Ahead(wr) /\ Ahead(wr) \in Nat
    BY <2>1, Sizes, Distance, AheadType DEF Ahead, Held
  <2>3. slots[Slot(rd)] = rd
    BY <2>1, <2>2, AheadType DEF RingHolds, Held
  <2>4. prod = "write" => Slot(wr) # Slot(rd)
    BY <2>1, <2>2, SlotsApart DEF RingHolds, Held, Ahead
  <2> QED
    BY <2>3, <2>4
<1> QED
  BY <1>1, Invariant, PTL

\* sampling is set only when every option is applied, in whichever order the answers
\* and timeouts come (livox_lidar_callback.cpp).
THEOREM OnlyConfiguredIsSampled == Spec => []SamplingConfigured
<1>1. IInv => SamplingConfigured
  BY DEF IInv, HandshakeInv
<1> QED
  BY <1>1, Invariant, PTL

=============================================================================
