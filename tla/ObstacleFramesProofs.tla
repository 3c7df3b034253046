--------------------------- MODULE ObstacleFramesProofs ---------------------------
(***************************************************************************)
(* Where the frame transformer's boxes are, for every set of obstacles,    *)
(* every track and every number of messages under way.  The transforms and *)
(* the detections under way are poses of the last few scans; the invariant *)
(* names that history by age, so that "late by at most MaxAhead scans" is  *)
(* a statement about one state.                                            *)
(***************************************************************************)
EXTENDS ObstacleFrames, FunctionTheorems, FiniteSetTheorems, WellFoundedInduction, TLAPS

\* Places in a message, and the arrays of boxes, gaps included.
Places == 1 .. Cardinality(Obstacles)

Boxes ==
  {d \in [of : Obstacles, class : {Class[o] : o \in Obstacles}, pos : Int, speed : Int] :
     d.class = Class[d.of]}

Arrays == UNION {[S -> Boxes] : S \in SUBSET Places}

\* Every box of s is within err of its obstacle, seen from a frame at p.
Placed(s, p, err) ==
  \A i \in DOMAIN s : Abs(s[i].pos - (World[s[i].of] - p)) <= err

TypeOK ==
  /\ pose \in Int /\ tf \in Int
  /\ tfs \in Seq(Int) /\ Len(tfs) <= MaxAhead
  /\ msgs \in Seq(Arrays) /\ Len(msgs) <= MaxAhead
  /\ pc \in {"idle", "static", "dynamic"}
  /\ still \in Arrays /\ moving \in Arrays
  /\ stillCache \in Arrays /\ movingCache \in Arrays

\* h[n] is the pose n scans ago: each transform and each array under way is of
\* one of these poses, and static boxes already in base_link were put there
\* with one that is at most 2 * MaxAhead scans old.
History(h) ==
  /\ h \in [Nat -> Int] /\ h[0] = pose
  /\ \A i, j \in Nat : i <= j => Abs(h[i] - h[j]) <= Stride * (j - i)
  /\ tf # None => tf = h[Len(tfs)]
  /\ \A i \in DOMAIN tfs : tfs[i] = h[Len(tfs) - i]
  /\ \A i \in DOMAIN msgs : Placed(msgs[i], h[Len(msgs) - i], 0)
  /\ pc = "dynamic" => \E a \in 0 .. MaxAhead + Len(msgs) : Placed(still, h[a] + Mount, Lag)

Underway == \E h \in [Nat -> Int] : History(h)

\* What is still in the map's coordinates.
InMap ==
  /\ pc = "static" => Placed(still, 0, Lag)
  /\ pc # "idle" => Placed(moving, 0, Lag)
  /\ mode # "baselink" => /\ pc = "idle"
                          /\ Placed(stillCache, 0, Lag) /\ Placed(movingCache, 0, Lag)

\* The caches are the arrays published last.
Remembered == stillOut = stillCache /\ movingOut = movingCache

IInv == TypeOK /\ Underway /\ InMap /\ Remembered

-----------------------------------------------------------------------------
(* Arithmetic *)

LEMMA AbsFacts ==
  ASSUME NEW a \in Int
  PROVE  Abs(a) \in Nat /\ Abs(-a) = Abs(a) /\ -Abs(a) <= a /\ a <= Abs(a)
         /\ \A n \in Int : (-n <= a /\ a <= n) <=> Abs(a) <= n
BY DEF Abs

LEMMA LagNat == Lag \in Nat
BY FramesAssumption DEF Lag

\* a divided by s, rounded down.
LEMMA DivFacts ==
  ASSUME NEW a \in Int, NEW s \in Nat \ {0}
  PROVE  /\ a \div s \in Int
         /\ s * (a \div s) <= a /\ a < s * (a \div s) + s
OBVIOUS

\* A quotient rounded down is at least q exactly if the number is at least s * q.
LEMMA DivAtLeast ==
  ASSUME NEW a \in Int, NEW s \in Nat \ {0}, NEW q \in Int
  PROVE  (q <= a \div s) <=> (s * q <= a)
<1> DEFINE d == a \div s
<1>1. d \in Int /\ s * d <= a /\ a < s * d + s
  BY DivFacts
<1> HIDE DEF d
<1>2. q <= d => s * q <= s * d
  BY <1>1
<1>3. q >= d + 1 => s * q >= s * (d + 1)
  BY <1>1
<1>4. s * (d + 1) = s * d + s
  BY <1>1
<1>5. q <= d <=> s * q <= a
  BY <1>1, <1>2, <1>3, <1>4
<1> QED
  BY <1>5 DEF d

LEMMA BlendInt ==
  ASSUME NEW p \in Int, NEW c \in Int
  PROVE  Blend(p, c) \in Int
<1> DEFINE x == AlphaNum * p + (AlphaDen - AlphaNum) * c
<1>1. x \in Int /\ AlphaDen \in Nat \ {0}
  BY FramesAssumption
<1> HIDE DEF x
<1>2. x \div AlphaDen \in Int
  BY <1>1
<1> QED
  BY <1>2 DEF Blend, x

\* A blend lies between the two numbers.
LEMMA BlendBetween ==
  ASSUME NEW lo \in Int, NEW hi \in Int, NEW p \in lo .. hi, NEW c \in lo .. hi
  PROVE  Blend(p, c) \in lo .. hi
<1> DEFINE A == AlphaNum
           B == AlphaDen - AlphaNum
           x == A * p + B * c
<1>1. A \in Nat /\ B \in Nat /\ AlphaDen \in Nat \ {0} /\ A + B = AlphaDen
  BY FramesAssumption
<1> HIDE DEF A, B
<1>2. A * lo <= A * p /\ A * p <= A * hi /\ B * lo <= B * c /\ B * c <= B * hi
  BY <1>1
<1>3. /\ A * lo + B * lo = AlphaDen * lo /\ A * hi + B * hi = AlphaDen * hi
      /\ AlphaDen * (hi + 1) = AlphaDen * hi + AlphaDen
  BY <1>1
<1>4. x \in Int /\ AlphaDen * lo <= x /\ x < AlphaDen * (hi + 1)
  BY <1>1, <1>2, <1>3
<1> HIDE DEF x
<1>5. x \div AlphaDen \in Int /\ lo <= x \div AlphaDen /\ ~(hi + 1 <= x \div AlphaDen)
  BY <1>1, <1>4, DivAtLeast, DivFacts
<1>6. x \div AlphaDen \in lo .. hi
  BY <1>5
<1> QED
  BY <1>6 DEF Blend, x, A, B

\* A blend with a number at most PositionThresh away moves by the smoothing share.
LEMMA BlendNear ==
  ASSUME NEW p \in Int, NEW c \in Int, Abs(c - p) <= PositionThresh
  PROVE  Abs(Blend(p, c) - c) <= (AlphaNum * PositionThresh) \div AlphaDen + 1
<1> DEFINE A == AlphaNum
           D == AlphaDen
           P == PositionThresh
           k == p - c
           x == A * p + (D - A) * c
           b == x \div D
           q == (A * P) \div D
<1>1. A \in Nat /\ D \in Nat \ {0} /\ P \in Nat /\ k \in Int /\ -P <= k /\ k <= P
  BY FramesAssumption, AbsFacts
<1> HIDE DEF A, D, P
<1>2. A * P \in Nat /\ A * k \in Int /\ -(A * P) <= A * k /\ A * k <= A * P
  <2>1. A * (P - k) >= 0 /\ A * (P + k) >= 0
    BY <1>1
  <2>2. A * (P - k) = A * P - A * k /\ A * (P + k) = A * P + A * k /\ A * P \in Nat /\ A * k \in Int
    BY <1>1
  <2> QED
    BY <2>1, <2>2
<1>3. x = A * k + D * c /\ x \in Int
  BY <1>1
<1>4. /\ b \in Int /\ D * b <= x /\ x < D * b + D
      /\ q \in Int /\ D * q <= A * P /\ A * P < D * q + D
  BY <1>1, <1>2, <1>3, DivFacts
<1> HIDE DEF x, b, q, k
<1>5. /\ D * (b - c) = D * b - D * c /\ D * (q + 1) = D * q + D
      /\ D * (b - c + (q + 1)) = D * b - D * c + D * q + D
      /\ D * ((q + 1) - (b - c)) = D * q + D - (D * b - D * c)
  BY <1>1, <1>4
<1>6. b - c <= q + 1
  <2>1. D * ((q + 1) - (b - c)) > 0
    BY <1>1, <1>2, <1>3, <1>4, <1>5
  <2> QED
    BY <2>1, <1>1, <1>4
<1>7. -(q + 1) <= b - c
  <2>1. D * (b - c + (q + 1)) > 0 - D
    BY <1>1, <1>2, <1>3, <1>4, <1>5
  <2>2. b - c + (q + 1) <= -1 => D * (b - c + (q + 1)) <= D * (-1)
    BY <1>1, <1>4
  <2> QED
    BY <2>1, <2>2, <1>1, <1>4
<1>8. Abs(b - c) <= q + 1
  BY <1>4, <1>6, <1>7, AbsFacts
<1> QED
  BY <1>8 DEF Blend, b, q, x, A, D, P

-----------------------------------------------------------------------------
(* Arrays of boxes *)

LEMMA BoxFacts ==
  ASSUME NEW d \in Boxes
  PROVE  /\ d.of \in Obstacles /\ d.pos \in Int /\ d.speed \in Int /\ d.class = Class[d.of]
         /\ World[d.of] \in Int
         /\ \A x \in Int : /\ [d EXCEPT !.pos = x] \in Boxes
                           /\ [d EXCEPT !.pos = x].pos = x
                           /\ [d EXCEPT !.pos = x].of = d.of
BY FramesAssumption DEF Boxes

LEMMA ArrayFacts ==
  ASSUME NEW s
  PROVE  s \in Arrays <=> /\ DOMAIN s \subseteq Places
                          /\ s \in [DOMAIN s -> Boxes]
BY DEF Arrays

LEMMA EmptyArray == <<>> \in Arrays /\ \A p, e : Placed(<<>>, p, e)
<1>1. DOMAIN <<>> = {}
  OBVIOUS
<1>2. <<>> = [i \in {} |-> <<>>]
  OBVIOUS
<1> QED
  BY <1>1, <1>2, ArrayFacts DEF Placed

\* Some listing of a finite set is one of its own elements.
LEMMA Listing ==
  ASSUME NEW S, IsFiniteSet(S)
  PROVE  SetToSeq(S) \in [1 .. Cardinality(S) -> S]
<1>1. PICK n \in Nat : ExistsBijection(1 .. n, S)
  BY FS_NatBijection
<1>2. Cardinality(S) = n
  BY <1>1, FS_CountingElements
<1>3. \E f \in [1 .. Cardinality(S) -> S] : IsInjective(f)
  BY <1>1, <1>2 DEF ExistsBijection, Bijection, Injection
<1> QED
  BY <1>3 DEF SetToSeq

LEMMA DetectionsFacts ==
  ASSUME NEW seen \in SUBSET Obstacles, NEW p \in Int, NEW q \in Int
  PROVE  Detections(seen, p, q) \in Arrays /\ Placed(Detections(seen, p, q), p, 0)
<1> DEFINE order == SetToSeq(seen)
           dets  == Detections(seen, p, q)
<1>1. IsFiniteSet(seen) /\ Cardinality(seen) \in Nat /\ Cardinality(Obstacles) \in Nat
      /\ Cardinality(seen) <= Cardinality(Obstacles)
  BY FramesAssumption, FS_Subset, FS_CardinalityType
<1>2. order \in [1 .. Cardinality(seen) -> seen]
  BY <1>1, Listing
<1> HIDE DEF order
<1>3. /\ DOMAIN dets = DOMAIN order
      /\ \A i \in DOMAIN order :
           dets[i] = [of |-> order[i], class |-> Class[order[i]],
                      pos |-> World[order[i]] - p, speed |-> q - p]
  BY DEF Detections, order
<1>4. dets = [i \in DOMAIN order |-> dets[i]]
  BY <1>3 DEF Detections, order
<1> HIDE DEF dets
<1>5. ASSUME NEW i \in DOMAIN order
      PROVE  dets[i] \in Boxes /\ dets[i].pos = World[dets[i].of] - p
             /\ World[dets[i].of] \in Int
  <2>1. order[i] \in Obstacles /\ World[order[i]] \in Int
    BY <1>2, FramesAssumption
  <2> QED
    BY <1>3, <2>1 DEF Boxes
<1>6. dets \in Arrays
  BY <1>1, <1>2, <1>3, <1>4, <1>5, ArrayFacts DEF Places
<1>7. Placed(dets, p, 0)
  BY <1>3, <1>5 DEF Placed, Abs
<1> QED
  BY <1>6, <1>7 DEF dets

LEMMA MovedFacts ==
  ASSUME NEW s \in Arrays, NEW by \in Int, NEW p \in Int, NEW e \in Int
  PROVE  /\ Moved(s, by) \in Arrays
         /\ Placed(s, p, e) => Placed(Moved(s, by), p - by, e)
<1> DEFINE t == Moved(s, by)
<1>1. DOMAIN s \subseteq Places /\ s \in [DOMAIN s -> Boxes]
  BY ArrayFacts
<1>2. /\ DOMAIN t = DOMAIN s /\ t = [i \in DOMAIN s |-> t[i]]
      /\ \A i \in DOMAIN s : t[i] = [s[i] EXCEPT !.pos = @ + by]
  BY DEF Moved
<1> HIDE DEF t
<1>3. ASSUME NEW i \in DOMAIN s
      PROVE  t[i] \in Boxes /\ t[i].of = s[i].of /\ t[i].pos = s[i].pos + by
             /\ World[s[i].of] \in Int /\ s[i].pos \in Int
  <2> DEFINE d == s[i]
             x == d.pos + by
  <2>1. d \in Boxes
    BY <1>1
  <2>2. x \in Int /\ t[i] = [d EXCEPT !.pos = x]
    BY <1>2, <2>1, BoxFacts
  <2> HIDE DEF x, d
  <2>3. t[i] \in Boxes /\ t[i].of = d.of /\ t[i].pos = x /\ d.pos \in Int /\ World[d.of] \in Int
    BY <2>1, <2>2, BoxFacts
  <2> QED
    BY <2>3 DEF d, x
<1>4. t \in Arrays
  BY <1>1, <1>2, <1>3, ArrayFacts
<1>5. ASSUME Placed(s, p, e) PROVE Placed(t, p - by, e)
  <2> SUFFICES ASSUME NEW i \in DOMAIN s
               PROVE  Abs(t[i].pos - (World[t[i].of] - (p - by))) <= e
    BY <1>2 DEF Placed
  <2>1. t[i].pos - (World[t[i].of] - (p - by)) = s[i].pos - (World[s[i].of] - p)
    BY <1>3
  <2> QED
    BY <1>5, <2>1 DEF Placed
<1> QED
  BY <1>4, <1>5 DEF t

\* Seen from a frame f away, a box is at most f further off.
LEMMA PlacedNear ==
  ASSUME NEW s \in Arrays, NEW p \in Int, NEW r \in Int, NEW e \in Int, NEW f \in Int,
         Placed(s, p, e), Abs(p - r) <= f
  PROVE  Placed(s, r, e + f)
<1> SUFFICES ASSUME NEW i \in DOMAIN s
             PROVE  Abs(s[i].pos - (World[s[i].of] - r)) <= e + f
  BY DEF Placed
<1> DEFINE x == s[i].pos
           w == World[s[i].of]
<1>1. x \in Int /\ w \in Int
  BY ArrayFacts, BoxFacts
<1>2. Abs(x - (w - p)) <= e
  BY DEF Placed
<1> HIDE DEF x, w
<1>3. -e <= x - (w - p) /\ x - (w - p) <= e /\ -f <= p - r /\ p - r <= f
  BY <1>1, <1>2, AbsFacts
<1>4. Abs(x - (w - r)) <= e + f
  BY <1>1, <1>3, AbsFacts
<1> QED
  BY <1>4 DEF x, w

LEMMA RestrictFacts ==
  ASSUME NEW s \in Arrays, NEW T \in SUBSET DOMAIN s
  PROVE  /\ Restrict(s, T) \in Arrays
         /\ \A p, e : Placed(s, p, e) => Placed(Restrict(s, T), p, e)
<1>1. DOMAIN s \subseteq Places /\ s \in [DOMAIN s -> Boxes]
  BY ArrayFacts
<1> QED
  BY <1>1, ArrayFacts DEF Restrict, Placed

-----------------------------------------------------------------------------
(* Smoothing *)

\* A set of naturals that is not empty has a least element.
LEMMA LeastNatural ==
  ASSUME NEW S \in SUBSET Nat, S # {}
  PROVE  \E x \in S : \A y \in S : x <= y
<1> DEFINE R == { ss \in Nat \X Nat : ss[1] < ss[2] }
<1>1. IsWellFoundedOn(R, Nat)
  BY NatLessThanWellFounded DEF OpToRel
<1> HIDE DEF R
<1>2. PICK x \in S : \A y \in S : ~(<<y, x>> \in R)
  BY <1>1, WFMin
<1>3. ASSUME NEW y \in S PROVE x <= y
  <2>1. y < x => <<y, x>> \in R
    BY DEF R
  <2> QED
    BY <1>2, <2>1
<1> QED
  BY <1>3

\* If some box of the cache matches, one of them is the best match.
LEMMA BestExists ==
  ASSUME NEW d \in Boxes, NEW cache \in Arrays,
         NEW k \in DOMAIN cache, Matches(d, cache[k])
  PROVE  \E i \in DOMAIN cache : IsBest(d, cache, i)
<1> DEFINE M == {i \in DOMAIN cache : Matches(d, cache[i])}
           dist(i) == Distance(d, cache[i])
<1>1. \A i \in DOMAIN cache : i \in Nat /\ dist(i) \in Nat
  <2>1. DOMAIN cache \subseteq Places /\ \A i \in DOMAIN cache : cache[i] \in Boxes
    BY ArrayFacts
  <2> QED
    BY <2>1, BoxFacts, AbsFacts DEF Distance, Places
<1> HIDE DEF dist
<1>2. PICK m \in {dist(i) : i \in M} : \A n \in {dist(i) : i \in M} : m <= n
  <2>1. {dist(i) : i \in M} \in SUBSET Nat /\ {dist(i) : i \in M} # {}
    BY <1>1
  <2> QED
    BY <2>1, LeastNatural
<1> DEFINE N == {i \in M : dist(i) = m}
<1>3. PICK i \in N : \A j \in N : i <= j
  <2>1. N \in SUBSET Nat /\ N # {}
    BY <1>1, <1>2
  <2> QED
    BY <2>1, LeastNatural
<1>4. ASSUME NEW j \in DOMAIN cache, Matches(d, cache[j])
      PROVE  dist(i) < dist(j) \/ (dist(i) = dist(j) /\ i <= j)
  <2>1. j \in M /\ i \in DOMAIN cache /\ dist(i) = m /\ m <= dist(j)
    BY <1>2, <1>3, <1>4
  <2> QED
    BY <1>1, <1>3, <2>1
<1>5. i \in DOMAIN cache /\ Matches(d, cache[i])
  BY <1>3
<1> QED
  BY <1>4, <1>5 DEF IsBest, dist

\* The share of a smoothing step, and what a smoothed box keeps.
Step == (AlphaNum * PositionThresh) \div AlphaDen + 1

LEMMA StepNat == Step \in Nat
<1> DEFINE x == AlphaNum * PositionThresh
<1>1. x \in Nat /\ AlphaDen \in Nat \ {0}
  BY FramesAssumption
<1> HIDE DEF x
<1>2. x \div AlphaDen \in Nat
  BY <1>1
<1> QED
  BY <1>2 DEF Step, x

LEMMA SmoothedFacts ==
  ASSUME NEW d \in Boxes, NEW cache \in Arrays
  PROVE  /\ Smoothed(d, cache) \in Boxes
         /\ Smoothed(d, cache).of = d.of
         /\ Abs(Smoothed(d, cache).pos - d.pos) <= Step
         /\ Placed(cache, 0, Lag) /\ Abs(d.pos - World[d.of]) <= Lag =>
              Abs(Smoothed(d, cache).pos - World[d.of]) <= Lag
<1>1. CASE \A i \in DOMAIN cache : ~Matches(d, cache[i])
  <2>1. Smoothed(d, cache) = d
    BY <1>1 DEF Smoothed
  <2>2. d.pos \in Int /\ d.pos - d.pos = 0 /\ Abs(0) = 0
    BY BoxFacts DEF Abs
  <2> QED
    BY <2>1, <2>2, StepNat
<1>2. CASE ~ \A i \in DOMAIN cache : ~Matches(d, cache[i])
  <2>1. \E i \in DOMAIN cache : IsBest(d, cache, i)
    BY <1>2, BestExists
  <2>2. PICK i \in DOMAIN cache :
          IsBest(d, cache, i) /\ Smoothed(d, cache) = [d EXCEPT !.pos = Blend(cache[i].pos, @)]
    <3> DEFINE b == CHOOSE i \in DOMAIN cache : IsBest(d, cache, i)
    <3>1. b \in DOMAIN cache /\ IsBest(d, cache, b)
      BY <2>1
    <3>2. Smoothed(d, cache) = [d EXCEPT !.pos = Blend(cache[b].pos, @)]
      BY <1>2 DEF Smoothed
    <3> QED
      BY <3>1, <3>2
  <2> DEFINE c == cache[i]
             x == Blend(c.pos, d.pos)
  <2>3. c \in Boxes /\ d.class = c.class /\ Abs(d.pos - c.pos) <= PositionThresh
    BY <2>2, ArrayFacts DEF IsBest, Matches, Distance
  <2>4. /\ c.pos \in Int /\ d.pos \in Int /\ World[c.of] \in Int /\ World[d.of] \in Int
        /\ c.of \in Obstacles /\ d.of \in Obstacles /\ Class[c.of] = Class[d.of]
    BY <2>3, BoxFacts
  <2>5. x \in Int /\ Abs(x - d.pos) <= Step
    <3>1. x \in Int
      BY <2>4, BlendInt
    <3>2. Abs(x - d.pos) <= Step
      BY <2>3, <2>4, BlendNear DEF Step
    <3> QED
      BY <3>1, <3>2
  <2>6. Smoothed(d, cache) \in Boxes /\ Smoothed(d, cache).of = d.of
        /\ Smoothed(d, cache).pos = x
    BY <2>2, <2>5, BoxFacts
  <2>7. ASSUME Placed(cache, 0, Lag), Abs(d.pos - World[d.of]) <= Lag
        PROVE  Abs(x - World[d.of]) <= Lag
    <3>1. Abs(c.pos - World[c.of]) <= Lag
      <4>1. Abs(c.pos - (World[c.of] - 0)) <= Lag
        BY <2>7 DEF Placed
      <4> QED
        BY <4>1, <2>4
    <3> DEFINE u == World[c.of]
               w == World[d.of]
               y == c.pos
               z == d.pos
    <3>2. /\ -Lag <= y - u /\ y - u <= Lag /\ -Lag <= z - w /\ z - w <= Lag
          /\ -PositionThresh <= z - y /\ z - y <= PositionThresh
          /\ y \in Int /\ z \in Int /\ u \in Int /\ w \in Int /\ Lag \in Nat
      BY <2>3, <2>4, <2>7, <3>1, AbsFacts, LagNat, FramesAssumption
    <3>3. c.of = d.of
      <4>1. Abs(u - w) <= PositionThresh + 2 * Lag
        <5> HIDE DEF u, w, y, z
        <5> QED
          BY <3>2, AbsFacts, FramesAssumption
      <4> QED
        BY <2>4, <4>1, <3>2, ApartAssumption, FramesAssumption, AbsFacts
    <3>4. y \in w - Lag .. w + Lag /\ z \in w - Lag .. w + Lag
      BY <3>2, <3>3
    <3>5. x \in w - Lag .. w + Lag
      <4> DEFINE lo == w - Lag
                 hi == w + Lag
      <4>1. lo \in Int /\ hi \in Int /\ y \in lo .. hi /\ z \in lo .. hi
        BY <3>2, <3>4
      <4> HIDE DEF lo, hi, y, z
      <4>2. Blend(y, z) \in lo .. hi
        BY <4>1, BlendBetween
      <4> QED
        BY <4>2 DEF lo, hi, y, z
    <3> QED
      BY <3>2, <3>5, AbsFacts
  <2> QED
    BY <2>5, <2>6, <2>7
<1> QED
  BY <1>1, <1>2

\* Smoothed with a cache that is right to within Lag, boxes stay within Lag;
\* whatever the cache, a box moves by one step at most.
LEMMA SmoothingFacts ==
  ASSUME NEW s \in Arrays, NEW cache \in Arrays
  PROVE  /\ ApplySmoothing(s, cache) \in Arrays
         /\ Placed(cache, 0, Lag) /\ Placed(s, 0, Lag) =>
              Placed(ApplySmoothing(s, cache), 0, Lag)
         /\ \A p, e \in Int : Placed(s, p, e) => Placed(ApplySmoothing(s, cache), p, e + Step)
<1> DEFINE t == ApplySmoothing(s, cache)
<1>1. DOMAIN s \subseteq Places /\ \A i \in DOMAIN s : s[i] \in Boxes
  BY ArrayFacts
<1>2. /\ DOMAIN t = DOMAIN s /\ t = [i \in DOMAIN s |-> t[i]]
      /\ \A i \in DOMAIN s : t[i] = Smoothed(s[i], cache)
  BY DEF ApplySmoothing
<1> HIDE DEF t
<1>3. t \in Arrays
  BY <1>1, <1>2, SmoothedFacts, ArrayFacts
<1>4. ASSUME Placed(cache, 0, Lag), Placed(s, 0, Lag)
      PROVE  Placed(t, 0, Lag)
  <2> SUFFICES ASSUME NEW i \in DOMAIN s
               PROVE  Abs(t[i].pos - (World[t[i].of] - 0)) <= Lag
    BY <1>2 DEF Placed
  <2>1. World[s[i].of] \in Int /\ World[s[i].of] - 0 = World[s[i].of]
    BY <1>1, BoxFacts
  <2>2. Abs(s[i].pos - World[s[i].of]) <= Lag
    BY <1>4, <2>1 DEF Placed
  <2>3. t[i].of = s[i].of /\ Abs(t[i].pos - World[s[i].of]) <= Lag
    BY <1>1, <1>2, <1>4, <2>2, SmoothedFacts
  <2> QED
    BY <2>1, <2>3
<1>5. ASSUME NEW p \in Int, NEW e \in Int, Placed(s, p, e)
      PROVE  Placed(t, p, e + Step)
  <2> SUFFICES ASSUME NEW i \in DOMAIN s
               PROVE  Abs(t[i].pos - (World[t[i].of] - p)) <= e + Step
    BY <1>2 DEF Placed
  <2> DEFINE x == s[i].pos
             w == World[s[i].of]
             y == t[i].pos
  <2>1. x \in Int /\ w \in Int /\ y \in Int /\ t[i].of = s[i].of /\ Abs(y - x) <= Step
    BY <1>1, <1>2, SmoothedFacts, BoxFacts
  <2>2. Abs(x - (w - p)) <= e
    BY <1>5 DEF Placed
  <2> HIDE DEF x, w, y
  <2>3. Abs(y - (w - p)) <= e + Step
    <3>1. /\ -e <= x - (w - p) /\ x - (w - p) <= e
          /\ -Step <= y - x /\ y - x <= Step /\ Step \in Nat
      BY <2>1, <2>2, AbsFacts, StepNat
    <3> QED
      BY <2>1, <3>1, AbsFacts
  <2> QED
    BY <2>1, <2>3 DEF x, w, y
<1> QED
  BY <1>3, <1>4, <1>5 DEF t

-----------------------------------------------------------------------------
(* The invariant *)

LEMMA InitInv == Init => IInv
<1> SUFFICES ASSUME Init PROVE IInv
  OBVIOUS
<1> USE DEF Init
<1>1. pose \in Int /\ None \in Int
  BY FramesAssumption DEF None
<1>2. TypeOK
  BY <1>1, EmptyArray, FramesAssumption DEF TypeOK
<1>3. Underway
  <2> DEFINE h == [n \in Nat |-> pose]
  <2>1. h \in [Nat -> Int] /\ h[0] = pose
    BY <1>1
  <2>2. ASSUME NEW i \in Nat, NEW j \in Nat, i <= j
        PROVE  Abs(h[i] - h[j]) <= Stride * (j - i)
    <3>1. h[i] - h[j] = 0 /\ j - i \in Nat /\ Abs(0) = 0
      BY <1>1, <2>2 DEF Abs
    <3>2. Stride * (j - i) \in Nat
      BY <3>1, FramesAssumption
    <3> QED
      BY <3>1, <3>2
  <2>3. DOMAIN tfs = {} /\ DOMAIN msgs = {}
    OBVIOUS
  <2> HIDE DEF h
  <2>4. History(h)
    BY <2>1, <2>2, <2>3 DEF History
  <2> QED
    BY <2>1, <2>4 DEF Underway
<1>4. InMap /\ Remembered
  BY EmptyArray DEF InMap, Remembered
<1> QED
  BY <1>2, <1>3, <1>4 DEF IInv

\* The poses of a history that are at most MaxAhead scans apart are within Lag.
LEMMA HistoryNear ==
  ASSUME TypeOK, NEW h \in [Nat -> Int], History(h),
         NEW i \in Nat, NEW j \in Nat
  PROVE  /\ Abs(h[i] - h[j]) \in Nat
         /\ i - j <= MaxAhead /\ j - i <= MaxAhead => Abs(h[i] - h[j]) <= Lag
         /\ i - j <= 2 * MaxAhead /\ j - i <= 2 * MaxAhead => Abs(h[i] - h[j]) <= 2 * Lag
<1>1. h[i] \in Int /\ h[j] \in Int /\ Abs(h[i] - h[j]) \in Nat
      /\ Abs(h[j] - h[i]) = Abs(h[i] - h[j])
  BY AbsFacts
<1>2. ASSUME NEW n \in Nat, NEW m \in Nat, n <= m
      PROVE  Stride * n <= Stride * m /\ Stride * n \in Int /\ Stride * m \in Int
  BY <1>2, FramesAssumption
<1>3. Stride * (2 * MaxAhead) = 2 * Lag /\ Stride * MaxAhead = Lag /\ 2 * MaxAhead \in Nat
      /\ MaxAhead \in Nat /\ Lag \in Nat
  BY FramesAssumption, LagNat DEF Lag
<1>4. CASE i <= j
  <2>1. Abs(h[i] - h[j]) <= Stride * (j - i) /\ j - i \in Nat
    BY <1>4 DEF History
  <2>2. /\ j - i <= MaxAhead => Stride * (j - i) <= Stride * MaxAhead
        /\ j - i <= 2 * MaxAhead => Stride * (j - i) <= Stride * (2 * MaxAhead)
        /\ Stride * (j - i) \in Int
    BY <1>2, <1>3, <2>1
  <2> QED
    BY <1>1, <1>3, <2>1, <2>2
<1>5. CASE j <= i
  <2>1. Abs(h[i] - h[j]) <= Stride * (i - j) /\ i - j \in Nat
    BY <1>1, <1>5 DEF History
  <2>2. /\ i - j <= MaxAhead => Stride * (i - j) <= Stride * MaxAhead
        /\ i - j <= 2 * MaxAhead => Stride * (i - j) <= Stride * (2 * MaxAhead)
        /\ Stride * (i - j) \in Int
    BY <1>2, <1>3, <2>1
  <2> QED
    BY <1>1, <1>3, <2>1, <2>2
<1> QED
  BY <1>4, <1>5

\* A scan makes every pose of the history one scan older.
LEMMA ScanInv ==
  ASSUME IInv, Scan
  PROVE  IInv'
<1> USE DEF IInv
<1>1. PICK p \in Track, seen \in SUBSET Obstacles :
        /\ Abs(p - pose) <= Stride
        /\ pose' = p
        /\ tfs' = Append(tfs, p)
        /\ msgs' = Append(msgs, Detections(seen, p, pose))
  BY DEF Scan
<1>2. /\ Len(tfs) < MaxAhead /\ Len(msgs) < MaxAhead
      /\ UNCHANGED <<mode, tf, mounted, pc, still, moving, stillCache, movingCache,
                     stillOut, movingOut>>
  BY DEF Scan, caches
<1> DEFINE new == Detections(seen, p, pose)
<1>3. p \in Int /\ pose \in Int /\ MaxAhead \in Nat /\ Stride \in Nat
  BY FramesAssumption DEF TypeOK
<1>4. new \in Arrays /\ Placed(new, p, 0)
  BY <1>3, DetectionsFacts
<1> HIDE DEF new
<1>5. /\ tfs \in Seq(Int) /\ msgs \in Seq(Arrays)
      /\ tfs' \in Seq(Int) /\ Len(tfs') = Len(tfs) + 1 /\ Len(tfs) \in Nat
      /\ msgs' \in Seq(Arrays) /\ Len(msgs') = Len(msgs) + 1 /\ Len(msgs) \in Nat
      /\ \A i \in DOMAIN tfs' : \/ i \in DOMAIN tfs /\ tfs'[i] = tfs[i] /\ i <= Len(tfs)
                                \/ i = Len(tfs) + 1 /\ tfs'[i] = p
      /\ \A i \in DOMAIN msgs' : \/ i \in DOMAIN msgs /\ msgs'[i] = msgs[i] /\ i <= Len(msgs)
                                 \/ i = Len(msgs) + 1 /\ msgs'[i] = new
      /\ DOMAIN tfs = 1 .. Len(tfs) /\ DOMAIN tfs' = 1 .. Len(tfs')
      /\ DOMAIN msgs = 1 .. Len(msgs) /\ DOMAIN msgs' = 1 .. Len(msgs')
  BY <1>1, <1>3, <1>4 DEF TypeOK, new
<1>6. TypeOK'
  BY <1>1, <1>2, <1>3, <1>5 DEF TypeOK
<1>7. Underway'
  <2>1. PICK h \in [Nat -> Int] : History(h)
    BY DEF Underway
  <2> DEFINE g == [n \in Nat |-> IF n = 0 THEN p ELSE h[n - 1]]
  <2>2. g \in [Nat -> Int] /\ g[0] = p /\ \A n \in Nat : n # 0 => n - 1 \in Nat /\ g[n] = h[n - 1]
    BY <1>3
  <2> HIDE DEF g
  <2>3. ASSUME NEW i \in Nat, NEW j \in Nat, i <= j
        PROVE  Abs(g[i] - g[j]) <= Stride * (j - i)
    <3>1. CASE i # 0
      <4>1. j # 0 /\ i - 1 <= j - 1 /\ (j - 1) - (i - 1) = j - i
        BY <2>3, <3>1
      <4> QED
        BY <2>1, <2>2, <3>1, <4>1 DEF History
    <3>2. CASE i = 0 /\ j # 0
      <4> DEFINE k == j - 1
                 x == h[k]
      <4>1. k \in Nat /\ x \in Int /\ g[i] = p /\ g[j] = x /\ h[0] = pose
        BY <2>1, <2>2, <3>2 DEF History
      <4>2. Abs(h[0] - h[k]) <= Stride * (k - 0)
        BY <2>1, <4>1 DEF History
      <4>3. Stride * (j - i) = Stride * k + Stride /\ k - 0 = k /\ Stride * k \in Nat
        BY <1>3, <3>2, <4>1
      <4>4. Abs(pose - x) <= Stride * k
        BY <4>1, <4>2, <4>3
      <4> HIDE DEF x
      <4>5. Abs(p - x) <= Stride * k + Stride
        <5> DEFINE e == Stride * k
        <5>1. /\ -Stride <= p - pose /\ p - pose <= Stride
              /\ -e <= pose - x /\ pose - x <= e /\ e \in Nat
          BY <1>1, <1>3, <4>1, <4>3, <4>4, AbsFacts
        <5> HIDE DEF e
        <5>2. Abs(p - x) <= e + Stride
          BY <1>3, <4>1, <5>1, AbsFacts
        <5> QED
          BY <5>2 DEF e
      <4> QED
        BY <4>1, <4>3, <4>5
    <3>3. CASE i = 0 /\ j = 0
      BY <1>3, <2>2, <3>3 DEF Abs
    <3> QED
      BY <3>1, <3>2, <3>3
  <2>4. tf' # None => tf' = g[Len(tfs')]
    BY <1>2, <1>5, <2>1, <2>2 DEF History
  <2>5. ASSUME NEW i \in DOMAIN tfs'
        PROVE  tfs'[i] = g[Len(tfs') - i]
    <3>1. CASE i \in DOMAIN tfs /\ tfs'[i] = tfs[i] /\ i <= Len(tfs)
      <4> DEFINE l == Len(tfs)
                 m == Len(tfs')
      <4>0. l \in Nat /\ m = l + 1 /\ i \in Int /\ i <= l
        BY <1>5, <3>1
      <4> HIDE DEF l, m
      <4>1. m - i \in Nat /\ m - i # 0 /\ (m - i) - 1 = l - i
        BY <4>0
      <4> USE DEF l, m
      <4> QED
        BY <2>1, <2>2, <3>1, <4>1 DEF History
    <3>2. CASE i = Len(tfs) + 1 /\ tfs'[i] = p
      <4>1. Len(tfs') - i = 0
        BY <1>5, <3>2
      <4> QED
        BY <2>2, <3>2, <4>1
    <3> QED
      BY <1>5, <3>1, <3>2
  <2>6. ASSUME NEW i \in DOMAIN msgs'
        PROVE  Placed(msgs'[i], g[Len(msgs') - i], 0)
    <3>1. CASE i \in DOMAIN msgs /\ msgs'[i] = msgs[i] /\ i <= Len(msgs)
      <4> DEFINE l == Len(msgs)
                 m == Len(msgs')
      <4>0. l \in Nat /\ m = l + 1 /\ i \in Int /\ i <= l
        BY <1>5, <3>1
      <4> HIDE DEF l, m
      <4>1. m - i \in Nat /\ m - i # 0 /\ (m - i) - 1 = l - i
        BY <4>0
      <4> USE DEF l, m
      <4>2. g[Len(msgs') - i] = h[Len(msgs) - i]
        BY <2>2, <4>1
      <4> QED
        BY <2>1, <3>1, <4>2 DEF History
    <3>2. CASE i = Len(msgs) + 1 /\ msgs'[i] = new
      <4>1. Len(msgs') - i = 0
        BY <1>5, <3>2
      <4> QED
        BY <1>4, <2>2, <3>2, <4>1
    <3> QED
      BY <1>5, <3>1, <3>2
  <2>7. ASSUME pc' = "dynamic"
        PROVE  \E a \in 0 .. MaxAhead + Len(msgs') : Placed(still', g[a] + Mount, Lag)
    <3>1. PICK a \in 0 .. MaxAhead + Len(msgs) : Placed(still, h[a] + Mount, Lag)
      BY <1>2, <2>1, <2>7 DEF History
    <3>2. a \in Nat /\ a <= MaxAhead + Len(msgs) /\ MaxAhead + Len(msgs) \in Nat
      BY <1>3, <1>5
    <3>3. a + 1 \in Nat /\ a + 1 # 0 /\ (a + 1) - 1 = a
      BY <3>2
    <3> DEFINE l == Len(msgs)
               m == Len(msgs')
    <3>7. l \in Nat /\ m = l + 1 /\ a <= MaxAhead + l
      BY <1>5, <3>2
    <3> HIDE DEF l, m
    <3>8. a + 1 <= MaxAhead + m /\ MaxAhead + m \in Nat
      BY <1>3, <3>2, <3>7
    <3> USE DEF l, m
    <3>4. a + 1 <= MaxAhead + Len(msgs') /\ MaxAhead + Len(msgs') \in Nat
      BY <3>8
    <3>5. a + 1 \in 0 .. MaxAhead + Len(msgs')
      BY <3>3, <3>4
    <3>6. g[a + 1] = h[a]
      BY <2>2, <3>3
    <3> QED
      BY <1>2, <3>1, <3>5, <3>6
  <2>8. History(g)'
    BY <1>1, <2>2, <2>3, <2>4, <2>5, <2>6, <2>7 DEF History
  <2> QED
    BY <2>2, <2>8 DEF Underway
<1>8. InMap' /\ Remembered'
  BY <1>2 DEF InMap, Remembered, Placed
<1> QED
  BY <1>6, <1>7, <1>8

LEMMA ReceiveInv ==
  ASSUME IInv, ReceiveTransform
  PROVE  IInv'
<1> USE DEF IInv
<1>1. /\ tfs # <<>> /\ tf' = Head(tfs) /\ tfs' = Tail(tfs)
      /\ UNCHANGED <<mode, pose, msgs, mounted, pc, still, moving, stillCache, movingCache,
                     stillOut, movingOut>>
  BY DEF ReceiveTransform, caches
<1>2. /\ tfs \in Seq(Int) /\ Len(tfs) \in Nat \ {0} /\ tf' = tfs[1] /\ tf' \in Int
      /\ tfs' \in Seq(Int) /\ Len(tfs') = Len(tfs) - 1
      /\ DOMAIN tfs = 1 .. Len(tfs) /\ DOMAIN tfs' = 1 .. Len(tfs')
      /\ \A i \in DOMAIN tfs' : i + 1 \in DOMAIN tfs /\ tfs'[i] = tfs[i + 1]
  BY <1>1 DEF TypeOK
<1>3. MaxAhead \in Nat
  BY FramesAssumption
<1>4. TypeOK'
  BY <1>1, <1>2, <1>3 DEF TypeOK
<1>5. Underway'
  <2>1. PICK h \in [Nat -> Int] : History(h)
    BY DEF Underway
  <2>2. tf' = h[Len(tfs')]
    <3>1. 1 \in DOMAIN tfs /\ Len(tfs) - 1 = Len(tfs')
      BY <1>2
    <3>2. tfs[1] = h[Len(tfs) - 1]
      BY <2>1, <3>1 DEF History
    <3> QED
      BY <1>2, <3>1, <3>2
  <2>3. ASSUME NEW i \in DOMAIN tfs'
        PROVE  tfs'[i] = h[Len(tfs') - i]
    <3>1. Len(tfs) - (i + 1) = Len(tfs') - i
      BY <1>2
    <3>2. tfs[i + 1] = h[Len(tfs) - (i + 1)]
      BY <1>2, <2>1 DEF History
    <3> QED
      BY <1>2, <3>1, <3>2
  <2>4. History(h)'
    BY <1>1, <2>1, <2>2, <2>3 DEF History, Placed
  <2> QED
    BY <2>4 DEF Underway
<1>6. InMap' /\ Remembered'
  BY <1>1 DEF InMap, Remembered, Placed
<1> QED
  BY <1>4, <1>5, <1>6

LEMMA MountInv ==
  ASSUME IInv, ReceiveMount \/ UNCHANGED vars
  PROVE  IInv'
<1>1. UNCHANGED <<mode, pose, tfs, msgs, tf, pc, still, moving, stillCache, movingCache,
                  stillOut, movingOut>>
  BY DEF ReceiveMount, vars, world, caches
<1>2. TypeOK' /\ InMap' /\ Remembered'
  BY <1>1 DEF IInv, TypeOK, InMap, Remembered, Placed
<1>3. Underway'
  BY <1>1 DEF IInv, Underway, History, Placed
<1> QED
  BY <1>2, <1>3 DEF IInv

\* Publishing arrays that are right to within Lag, in the modes that keep them
\* in the map, keeps the caches right.
LEMMA PublishFacts ==
  ASSUME IInv, NEW s \in Arrays, NEW m \in Arrays, Publish(s, m)
  PROVE  /\ stillOut' = ApplySmoothing(s, stillCache)
         /\ movingOut' = ApplySmoothing(m, movingCache)
         /\ stillCache' \in Arrays /\ movingCache' \in Arrays
         /\ still' = <<>> /\ moving' = <<>> /\ pc' = "idle"
         /\ Remembered'
         /\ Placed(stillCache, 0, Lag) /\ Placed(s, 0, Lag) => Placed(stillCache', 0, Lag)
         /\ Placed(movingCache, 0, Lag) /\ Placed(m, 0, Lag) => Placed(movingCache', 0, Lag)
<1>1. stillCache \in Arrays /\ movingCache \in Arrays
  BY DEF IInv, TypeOK
<1>2. /\ stillOut' = ApplySmoothing(s, stillCache) /\ stillCache' = stillOut'
      /\ movingOut' = ApplySmoothing(m, movingCache) /\ movingCache' = movingOut'
      /\ still' = <<>> /\ moving' = <<>> /\ pc' = "idle"
  BY DEF Publish
<1> QED
  BY <1>1, <1>2, SmoothingFacts DEF Remembered

\* The first array under way, put into the map with the newest transform.
LEMMA ToMapFacts ==
  ASSUME IInv, msgs # <<>>
  PROVE  ToMap(Head(msgs)) \in Arrays /\ Placed(ToMap(Head(msgs)), 0, Lag)
<1> DEFINE s == Head(msgs)
<1>1. /\ msgs \in Seq(Arrays) /\ Len(msgs) \in Nat \ {0} /\ Len(msgs) <= MaxAhead
      /\ s = msgs[1] /\ s \in Arrays /\ 1 \in DOMAIN msgs
      /\ tfs \in Seq(Int) /\ Len(tfs) \in Nat /\ Len(tfs) <= MaxAhead
      /\ MaxAhead \in Nat /\ tf \in Int
  BY FramesAssumption DEF IInv, TypeOK
<1> HIDE DEF s
<1>2. CASE tf = None
  <2>1. ToMap(s) = <<>>
    BY <1>2 DEF ToMap
  <2> QED
    BY <2>1, EmptyArray DEF s
<1>3. CASE tf # None
  <2>1. PICK h \in [Nat -> Int] : History(h)
    BY DEF IInv, Underway
  <2> DEFINE i == Len(tfs)
             j == Len(msgs) - 1
             p == h[j]
             r == p - tf
             t == Moved(s, tf)
  <2>2. i \in Nat /\ j \in Nat /\ i - j <= MaxAhead /\ j - i <= MaxAhead /\ p \in Int
    BY <1>1
  <2>3. tf = h[i] /\ Placed(s, p, 0)
    BY <1>1, <1>3, <2>1 DEF History
  <2>4. Abs(h[j] - h[i]) <= Lag
    BY <2>1, <2>2, HistoryNear DEF IInv
  <2>5. r \in Int /\ Abs(r - 0) <= Lag
    <3>1. r = h[j] - h[i]
      BY <2>3
    <3>2. r \in Int
      BY <1>1, <2>2
    <3> HIDE DEF r
    <3>3. r - 0 = r
      BY <3>2
    <3> QED
      BY <2>4, <3>1, <3>2, <3>3
  <2> HIDE DEF i, j, p
  <2>6. t \in Arrays /\ Placed(t, r, 0)
    BY <1>1, <2>2, <2>3, MovedFacts
  <2> HIDE DEF r, t
  <2>7. Placed(t, 0, 0 + Lag)
    BY <2>5, <2>6, PlacedNear, LagNat
  <2>8. Placed(t, 0, Lag)
    BY <2>7, LagNat
  <2>9. ToMap(s) = t
    BY <1>3 DEF ToMap, t
  <2> QED
    BY <2>6, <2>8, <2>9 DEF s
<1> QED
  BY <1>2, <1>3

\* From the map into base_link: the frame is at the newest pose plus Mount.
LEMMA ToBaseFacts ==
  ASSUME IInv, NEW s \in Arrays, Placed(s, 0, Lag)
  PROVE  /\ ToBase(s) \in Arrays
         /\ \A h \in [Nat -> Int] :
              History(h) => Placed(ToBase(s), h[Len(tfs)] + Mount, Lag)
<1>1. tf \in Int /\ Mount \in Int /\ Lag \in Int
  BY FramesAssumption, LagNat DEF IInv, TypeOK
<1>2. CASE tf = None \/ ~mounted
  <2>1. ToBase(s) = <<>>
    BY <1>2 DEF ToBase
  <2> QED
    BY <2>1, EmptyArray
<1>3. CASE tf # None /\ mounted
  <2> DEFINE by == -tf - Mount
             t  == Moved(s, by)
  <2>1. ToBase(s) = t
    BY <1>3 DEF ToBase
  <2>2. by \in Int /\ 0 - by = tf + Mount
    BY <1>1
  <2> HIDE DEF by
  <2>3. t \in Arrays /\ Placed(t, 0 - by, Lag)
    <3>1. 0 \in Int /\ Lag \in Int /\ by \in Int
      BY <1>1, <2>2
    <3> QED
      BY <3>1, MovedFacts
  <2>4. Placed(t, tf + Mount, Lag)
    BY <2>2, <2>3
  <2>5. \A h \in [Nat -> Int] : History(h) => tf = h[Len(tfs)]
    BY <1>3 DEF History
  <2> QED
    BY <2>1, <2>3, <2>4, <2>5
<1> QED
  BY <1>2, <1>3

LEMMA ClassifyInv ==
  ASSUME IInv, Classify
  PROVE  IInv'
<1> DEFINE dets == ToMap(Head(msgs))
           slow == {i \in DOMAIN dets : IsStill(dets[i])}
           st   == Restrict(dets, slow)
           dyn  == Restrict(dets, DOMAIN dets \ slow)
<1>1. /\ pc = "idle" /\ msgs # <<>> /\ msgs' = Tail(msgs)
      /\ UNCHANGED <<mode, pose, tfs, tf, mounted>>
      /\ IF mode = "baselink"
         THEN still' = st /\ moving' = dyn /\ pc' = "static" /\ UNCHANGED caches
         ELSE Publish(st, dyn)
  BY DEF Classify
<1>2. dets \in Arrays /\ Placed(dets, 0, Lag)
  BY <1>1, ToMapFacts
<1> HIDE DEF dets
<1>3. slow \in SUBSET DOMAIN dets /\ (DOMAIN dets \ slow) \in SUBSET DOMAIN dets
  OBVIOUS
<1> HIDE DEF slow
<1>4. /\ st \in Arrays /\ Placed(st, 0, Lag)
      /\ dyn \in Arrays /\ Placed(dyn, 0, Lag)
  BY <1>2, <1>3, RestrictFacts
<1> HIDE DEF st, dyn
<1>5. /\ msgs \in Seq(Arrays) /\ Len(msgs) \in Nat \ {0} /\ Len(msgs) <= MaxAhead
      /\ MaxAhead \in Nat
      /\ msgs' \in Seq(Arrays) /\ Len(msgs') = Len(msgs) - 1
      /\ DOMAIN msgs = 1 .. Len(msgs) /\ DOMAIN msgs' = 1 .. Len(msgs')
      /\ \A i \in DOMAIN msgs' : i + 1 \in DOMAIN msgs /\ msgs'[i] = msgs[i + 1]
  BY <1>1, FramesAssumption DEF IInv, TypeOK
<1>6. Underway'
  <2>1. PICK h \in [Nat -> Int] : History(h)
    BY DEF IInv, Underway
  <2>2. pc' # "dynamic"
    BY <1>1 DEF Publish
  <2>3. ASSUME NEW i \in DOMAIN msgs'
        PROVE  Placed(msgs'[i], h[Len(msgs') - i], 0)
    <3>1. Len(msgs) - (i + 1) = Len(msgs') - i
      BY <1>5
    <3>2. Placed(msgs[i + 1], h[Len(msgs) - (i + 1)], 0)
      BY <1>5, <2>1 DEF History
    <3> QED
      BY <1>5, <3>1, <3>2
  <2>4. History(h)'
    BY <1>1, <2>1, <2>2, <2>3 DEF History, Placed
  <2> QED
    BY <2>4 DEF Underway
<1>7. CASE mode = "baselink"
  <2>1. /\ still' = st /\ moving' = dyn /\ pc' = "static"
        /\ UNCHANGED <<stillCache, movingCache, stillOut, movingOut>>
    BY <1>1, <1>7 DEF caches
  <2>2. TypeOK'
    BY <1>1, <1>4, <1>5, <2>1 DEF IInv, TypeOK
  <2>3. InMap' /\ Remembered'
    BY <1>1, <1>4, <1>7, <2>1 DEF IInv, InMap, Remembered, Placed
  <2> QED
    BY <1>6, <2>2, <2>3 DEF IInv
<1>8. CASE mode # "baselink"
  <2>1. Publish(st, dyn)
    BY <1>1, <1>8
  <2>2. /\ stillCache' \in Arrays /\ movingCache' \in Arrays
        /\ still' = <<>> /\ moving' = <<>> /\ pc' = "idle" /\ Remembered'
        /\ Placed(stillCache, 0, Lag) => Placed(stillCache', 0, Lag)
        /\ Placed(movingCache, 0, Lag) => Placed(movingCache', 0, Lag)
    BY <1>4, <2>1, PublishFacts
  <2>3. TypeOK'
    BY <1>1, <1>5, <2>2, EmptyArray DEF IInv, TypeOK
  <2>4. Placed(stillCache, 0, Lag) /\ Placed(movingCache, 0, Lag)
    BY <1>8 DEF IInv, InMap
  <2>5. InMap'
    BY <1>1, <2>2, <2>4, EmptyArray DEF InMap, Placed
  <2> QED
    BY <1>6, <2>2, <2>3, <2>5 DEF IInv
<1> QED
  BY <1>7, <1>8

LEMMA StaticInv ==
  ASSUME IInv, StaticToBase
  PROVE  IInv'
<1>1. /\ pc = "static" /\ pc' = "dynamic" /\ still' = ToBase(still)
      /\ UNCHANGED <<mode, pose, tfs, msgs, tf, mounted, moving, stillCache, movingCache,
                     stillOut, movingOut>>
  BY DEF StaticToBase, world, caches
<1>2. still \in Arrays /\ Placed(still, 0, Lag) /\ mode = "baselink"
  BY <1>1 DEF IInv, TypeOK, InMap
<1>3. still' \in Arrays
  BY <1>1, <1>2, ToBaseFacts
<1>4. TypeOK'
  BY <1>1, <1>3 DEF IInv, TypeOK
<1>5. Underway'
  <2>1. PICK h \in [Nat -> Int] : History(h)
    BY DEF IInv, Underway
  <2>2. Placed(still', h[Len(tfs)] + Mount, Lag)
    BY <1>1, <1>2, <2>1, ToBaseFacts
  <2>3. Len(tfs) \in 0 .. MaxAhead + Len(msgs)
    BY FramesAssumption DEF IInv, TypeOK
  <2>4. \E a \in 0 .. MaxAhead + Len(msgs) : Placed(still', h[a] + Mount, Lag)
    BY <2>2, <2>3
  <2>5. History(h)'
    BY <1>1, <2>1, <2>4 DEF History, Placed
  <2> QED
    BY <2>5 DEF Underway
<1>6. InMap' /\ Remembered'
  BY <1>1, <1>2 DEF IInv, InMap, Remembered, Placed
<1> QED
  BY <1>4, <1>5, <1>6 DEF IInv

LEMMA DynamicInv ==
  ASSUME IInv, DynamicToBase
  PROVE  IInv'
<1>1. /\ pc = "dynamic" /\ Publish(still, ToBase(moving))
      /\ UNCHANGED <<mode, pose, tfs, msgs, tf, mounted>>
  BY DEF DynamicToBase, world
<1>2. moving \in Arrays /\ still \in Arrays /\ Placed(moving, 0, Lag) /\ mode = "baselink"
  BY <1>1 DEF IInv, TypeOK, InMap
<1>3. ToBase(moving) \in Arrays
  BY <1>2, ToBaseFacts
<1>4. /\ stillCache' \in Arrays /\ movingCache' \in Arrays
      /\ still' = <<>> /\ moving' = <<>> /\ pc' = "idle" /\ Remembered'
  BY <1>1, <1>2, <1>3, PublishFacts
<1>5. TypeOK'
  BY <1>1, <1>4, EmptyArray DEF IInv, TypeOK
<1>6. Underway'
  <2>1. PICK h \in [Nat -> Int] : History(h)
    BY DEF IInv, Underway
  <2>2. History(h)'
    BY <1>1, <1>4, <2>1 DEF History, Placed
  <2> QED
    BY <2>2 DEF Underway
<1>7. InMap'
  BY <1>1, <1>2, <1>4 DEF InMap
<1> QED
  BY <1>4, <1>5, <1>6, <1>7 DEF IInv

\* Every step keeps the invariant.
LEMMA NextInv == IInv /\ [Next]_vars => IInv'
<1> SUFFICES ASSUME IInv, [Next]_vars PROVE IInv'
  OBVIOUS
<1> QED
  BY ScanInv, ReceiveInv, MountInv, ClassifyInv, StaticInv, DynamicInv DEF Next

\* Transforms, detections and caches are always what the history of poses says.
THEOREM Invariant == Spec => []IInv
<1> QED
  BY InitInv, NextInv, PTL DEF Spec

-----------------------------------------------------------------------------
(* Where published boxes are *)

\* In the modes map and lidar_body a published box is within Lag of its
\* obstacle, whatever was smoothed with what before.
THEOREM BoxesPlacedInMap == Spec => []PlacedInMap
<1>1. IInv => PlacedInMap
  <2> SUFFICES ASSUME IInv, mode # "baselink", NEW d \in Published
               PROVE  Abs(d.pos - World[d.of]) <= Lag
    BY DEF PlacedInMap
  <2>1. PICK s \in {stillCache, movingCache} : \E i \in DOMAIN s : d = s[i]
    BY DEF Published, Range, IInv, Remembered
  <2>2. PICK i \in DOMAIN s : d = s[i]
    BY <2>1
  <2>3. s \in Arrays /\ Placed(s, 0, Lag)
    BY <2>1 DEF IInv, TypeOK, InMap
  <2>4. World[d.of] \in Int /\ World[d.of] - 0 = World[d.of]
    BY <2>2, <2>3, ArrayFacts, BoxFacts
  <2> QED
    BY <2>2, <2>3, <2>4 DEF Placed
<1> QED
  BY <1>1, Invariant, PTL

\* In the mode baselink a published box is within three delays and one
\* smoothing step of where its obstacle now is in base_link.
THEOREM BoxesPlacedInBase == Spec => PlacedInBase
<1> DEFINE Off(d) == Abs(d.pos - (World[d.of] - pose - Mount)) <=
                       3 * Lag + (AlphaNum * PositionThresh) \div AlphaDen + 1
<1>1. ASSUME IInv, [Next]_vars, <<pc, stillOut, movingOut>>' # <<pc, stillOut, movingOut>>,
             pc = "dynamic", NEW d \in Published'
      PROVE  Off(d)
  <2>1. DynamicToBase
    BY <1>1 DEF Next, vars, world, caches, Scan, ReceiveTransform, ReceiveMount, Classify,
                StaticToBase
  <2>2. Publish(still, ToBase(moving))
    BY <2>1 DEF DynamicToBase
  <2>3. still \in Arrays /\ moving \in Arrays /\ Placed(moving, 0, Lag)
        /\ stillCache \in Arrays /\ movingCache \in Arrays
    BY <1>1 DEF IInv, TypeOK, InMap
  <2>4. PICK h \in [Nat -> Int] : History(h)
    BY <1>1 DEF IInv, Underway
  <2>5. PICK a \in 0 .. MaxAhead + Len(msgs) : Placed(still, h[a] + Mount, Lag)
    BY <1>1, <2>4 DEF History
  <2> DEFINE b == Len(tfs)
             t == ToBase(moving)
             q == pose + Mount
  <2>6. t \in Arrays /\ Placed(t, h[b] + Mount, Lag)
    BY <1>1, <2>3, <2>4, ToBaseFacts
  <2>7. /\ MaxAhead \in Nat /\ Len(msgs) \in Nat /\ Len(msgs) <= MaxAhead
        /\ b \in Nat /\ b <= MaxAhead /\ pose \in Int /\ Mount \in Int
    BY <1>1, FramesAssumption DEF IInv, TypeOK
  <2>8. a \in Nat /\ a - 0 <= 2 * MaxAhead /\ 0 - a <= 2 * MaxAhead
        /\ b - 0 <= 2 * MaxAhead /\ 0 - b <= 2 * MaxAhead
    BY <2>7
  <2> DEFINE x == h[a] + Mount
             y == h[b] + Mount
  <2>9. h[0] = pose /\ h[a] \in Int /\ h[b] \in Int
    BY <2>4, <2>8, <2>7 DEF History
  <2>10. Abs(h[a] - h[0]) <= 2 * Lag /\ Abs(h[b] - h[0]) <= 2 * Lag
    <3>1. TypeOK /\ 0 \in Nat
      BY <1>1 DEF IInv
    <3> QED
      BY <2>4, <2>7, <2>8, <3>1, HistoryNear
  <2>11. /\ x \in Int /\ y \in Int /\ q \in Int
         /\ x - q = h[a] - h[0] /\ y - q = h[b] - h[0]
    <3> DEFINE m == h[a]
               n == h[b]
    <3>1. m \in Int /\ n \in Int /\ h[0] = pose
      BY <2>9
    <3> HIDE DEF m, n
    <3>2. /\ (m + Mount) - (pose + Mount) = m - pose
          /\ (n + Mount) - (pose + Mount) = n - pose
          /\ m + Mount \in Int /\ n + Mount \in Int /\ pose + Mount \in Int
      BY <2>7, <3>1
    <3> QED
      BY <3>1, <3>2 DEF m, n
  <2>12. Placed(still, x, Lag) /\ Placed(t, y, Lag)
    BY <2>5, <2>6
  <2>13. Abs(x - q) <= 2 * Lag /\ Abs(y - q) <= 2 * Lag
    BY <2>10, <2>11
  <2> HIDE DEF b, t, q, x, y
  <2>14. Lag \in Int /\ 2 * Lag \in Int /\ Lag + 2 * Lag = 3 * Lag /\ 3 * Lag \in Int
    BY LagNat
  <2>15. Placed(still, q, 3 * Lag) /\ Placed(t, q, 3 * Lag)
    <3>1. Placed(still, q, Lag + 2 * Lag)
      BY <2>3, <2>11, <2>12, <2>13, <2>14, PlacedNear
    <3>2. Placed(t, q, Lag + 2 * Lag)
      BY <2>6, <2>11, <2>12, <2>13, <2>14, PlacedNear
    <3> QED
      BY <2>14, <3>1, <3>2
  <2>16. /\ stillOut' = ApplySmoothing(still, stillCache)
         /\ movingOut' = ApplySmoothing(t, movingCache)
    BY <2>2 DEF Publish, t
  <2>17. /\ stillOut' \in Arrays /\ Placed(stillOut', q, 3 * Lag + Step)
         /\ movingOut' \in Arrays /\ Placed(movingOut', q, 3 * Lag + Step)
    BY <2>3, <2>6, <2>11, <2>14, <2>15, <2>16, SmoothingFacts
  <2>18. PICK s \in {stillOut', movingOut'} : \E i \in DOMAIN s : d = s[i]
    BY <1>1 DEF Published, Range
  <2>19. PICK i \in DOMAIN s : d = s[i]
    BY <2>18
  <2>20. s \in Arrays /\ Placed(s, q, 3 * Lag + Step)
    BY <2>17, <2>18
  <2>21. Abs(d.pos - (World[d.of] - q)) <= 3 * Lag + Step
    BY <2>19, <2>20 DEF Placed
  <2>22. World[d.of] \in Int
    BY <2>19, <2>20, ArrayFacts, BoxFacts
  <2>23. World[d.of] - q = World[d.of] - pose - Mount
    <3> DEFINE w == World[d.of]
    <3>1. w \in Int /\ pose \in Int /\ Mount \in Int /\ q = pose + Mount
      BY <2>7, <2>22 DEF q
    <3> HIDE DEF w
    <3>2. w - q = w - pose - Mount
      BY <3>1
    <3> QED
      BY <3>2 DEF w
  <2>24. 3 * Lag + Step = 3 * Lag + (AlphaNum * PositionThresh) \div AlphaDen + 1
    <3> DEFINE u == (AlphaNum * PositionThresh) \div AlphaDen
               v == 3 * Lag
    <3>1. u \in Int /\ v \in Int /\ Step = u + 1
      <4>1. AlphaNum * PositionThresh \in Int /\ AlphaDen \in Nat \ {0}
        BY FramesAssumption
      <4>2. u \in Int
        <5> DEFINE w == AlphaNum * PositionThresh
        <5> HIDE DEF w
        <5>1. w \div AlphaDen \in Int
          BY <4>1, DivFacts DEF w
        <5> QED
          BY <5>1 DEF w
      <4> QED
        BY <4>2, <2>14 DEF Step
    <3> HIDE DEF u, v
    <3>2. v + Step = v + u + 1
      BY <3>1
    <3> QED
      BY <3>2 DEF u, v
  <2> QED
    BY <2>21, <2>23, <2>24
<1>2. IInv /\ [Next]_vars =>
        [pc = "dynamic" => \A d \in Published' : Off(d)]_<<pc, stillOut, movingOut>>
  BY <1>1
<1>3. Spec => [][pc = "dynamic" => \A d \in Published' : Off(d)]_<<pc, stillOut, movingOut>>
  BY <1>2, Invariant, PTL DEF Spec
<1> QED
  BY <1>3 DEF PlacedInBase

=============================================================================
