---------------------------- MODULE KdTreeProofs ----------------------------
(***************************************************************************)
(* The ikd-Tree for every space of points, rebuild criterion and size:     *)
(* whatever is built, added, deleted, searched and rebuilt, in whatever    *)
(* order, the lazily marked tree holds and reports the multiset of points  *)
(* that PointStore keeps, and its search finds the nearest of them.        *)
(*                                                                         *)
(* A tree is Sound when every node that Push_Down can open agrees with its *)
(* opened sons. The proof goes up from one node to the recursive functions,*)
(* by induction over the nodes below, and to the calls: first that each    *)
(* keeps a tree sound, then how often each point is in the tree it leaves, *)
(* then how many entries within a distance its search leaves in the heap.  *)
(***************************************************************************)
EXTENDS KdSearch, FiniteSetTheorems, SequenceTheorems, WellFoundedInduction, TLAPS

(***************************************************************************)
(* Nodes: what Push_Down, Update and DeleteAll leave in the fields.        *)
(***************************************************************************)
\* The marks a node pushes down.
IsMark(m) == m.tdel \in BOOLEAN /\ m.tdown \in BOOLEAN

\* A node is never the null pointer: Push_Down and Update may follow a pointer they tested.
LEMMA NodeIsNotNil == ASSUME NEW t, IsNode(t) PROVE t # Nil
<1>1. DOMAIN Nil = {"null"}
  BY DEF Nil
<1> QED
  BY <1>1 DEF IsNode, Fields

\* What PushTo, Push_Down, DeleteAll and Update make of each field.
IsPushTo(u, s, m) ==
  /\ IsNode(u)
  /\ u.pt = s.pt /\ u.axis = s.axis /\ u.left = s.left /\ u.right = s.right
  /\ u.lo = s.lo /\ u.hi = s.hi /\ u.size = s.size
  /\ u.tdown = (s.tdown \/ m.tdown) /\ u.pdown = (s.pdown \/ m.tdown)
  /\ u.tdel = (m.tdel \/ s.tdown \/ m.tdown)
  /\ u.pdel = (m.tdel \/ s.tdown \/ m.tdown \/ s.pdown)
  /\ u.downdel = IF m.tdown THEN s.size ELSE s.downdel
  /\ u.invalid = IF m.tdel \/ m.tdown THEN s.size ELSE s.downdel
  /\ u.pushL = TRUE /\ u.pushR = TRUE

IsPushDown(r, t) ==
  /\ IsNode(r)
  /\ r.pt = t.pt /\ r.axis = t.axis /\ r.lo = t.lo /\ r.hi = t.hi
  /\ r.size = t.size /\ r.invalid = t.invalid /\ r.downdel = t.downdel
  /\ r.pdel = t.pdel /\ r.tdel = t.tdel /\ r.pdown = t.pdown /\ r.tdown = t.tdown
  /\ r.left = IF t.pushL /\ t.left # Nil THEN PushTo(t.left, t) ELSE t.left
  /\ r.right = IF t.pushR /\ t.right # Nil THEN PushTo(t.right, t) ELSE t.right
  /\ r.pushL = (t.pushL /\ t.left = Nil) /\ r.pushR = (t.pushR /\ t.right = Nil)

IsDeleteAll(u, t, d) ==
  /\ IsNode(u)
  /\ u.pt = t.pt /\ u.axis = t.axis /\ u.lo = t.lo /\ u.hi = t.hi /\ u.size = t.size
  /\ u.left = t.left /\ u.right = t.right
  /\ u.pdel = TRUE /\ u.tdel = TRUE /\ u.pushL = TRUE /\ u.pushR = TRUE
  /\ u.invalid = t.size /\ u.downdel = IF d THEN t.size ELSE t.downdel
  /\ u.tdown = (t.tdown \/ d) /\ u.pdown = (t.pdown \/ d)

IsUpdate(u, t) ==
  /\ IsNode(u)
  /\ u.pt = t.pt /\ u.axis = t.axis /\ u.left = t.left /\ u.right = t.right
  /\ u.pdel = t.pdel /\ u.pdown = t.pdown /\ u.pushL = t.pushL /\ u.pushR = t.pushR
  /\ u.size = 1 + Size(t.left) + Size(t.right)
  /\ u.invalid = One(t.pdel) + Invalid(t.left) + Invalid(t.right)
  /\ u.downdel = One(t.pdown) + Downdel(t.left) + Downdel(t.right)
  /\ u.tdown = (t.pdown /\ \A s \in Sons(t) : s.tdown)
  /\ u.tdel = (t.pdel /\ \A s \in Sons(t) : s.tdel)
  /\ ~t.pdel => Within(t.pt, t.pt, u)
  /\ \A s \in Sons(t) : ~s.tdel => Within(s.lo, s.hi, u)
  /\ Tight(u)

\* The fields of a son after Push_Down marked it.
LEMMA PushToFields ==
  ASSUME NEW s, NEW m, IsNode(s), IsMark(m)
  PROVE  IsPushTo(PushTo(s, m), s, m)
BY ZenonT(60) DEF IsPushTo, PushTo, IsNode, IsMark, Fields

\* The fields of a node after Push_Down; size, invalid count and box are not touched.
LEMMA PushDownFields ==
  ASSUME NEW t, IsNode(t)
  PROVE  IsPushDown(Push_Down(t), t)
BY DEF IsPushDown, Push_Down, IsNode, Fields

\* The fields of a node that Delete_by_range deletes as a whole.
LEMMA DeleteAllFields ==
  ASSUME NEW t, NEW d \in BOOLEAN, IsNode(t)
  PROVE  IsDeleteAll(DeleteAll(t, d), t, d)
BY ZenonT(60) DEF IsDeleteAll, DeleteAll, IsNode, Fields

\* Update takes the minimum and maximum of at most three numbers; they exist.
LEMMA SmallExtremes ==
  ASSUME NEW x \in Int, NEW y \in Int, NEW z \in Int, NEW S, S \subseteq {x, y, z}, S # {}
  PROVE  /\ Min(S) \in S /\ Max(S) \in S /\ Min(S) \in Int /\ Max(S) \in Int
         /\ \A n \in S : Min(S) =< n /\ n =< Max(S)
<1>1. \E m \in S : \A n \in S : m =< n
  <2>1. PICK k \in S : TRUE
    OBVIOUS
  <2> QED
    BY <2>1
<1>2. \E m \in S : \A n \in S : m >= n
  <2>1. PICK k \in S : TRUE
    OBVIOUS
  <2> QED
    BY <2>1
<1>3. Min(S) \in S /\ \A n \in S : Min(S) =< n
  BY <1>1 DEF Min
<1>4. Max(S) \in S /\ \A n \in S : Max(S) >= n
  BY <1>2 DEF Max
<1> QED
  BY <1>3, <1>4

\* The counters of a node or a null pointer are natural numbers.
LEMMA SizesAreNat ==
  ASSUME NEW s, s = Nil \/ IsNode(s)
  PROVE  Size(s) \in Nat /\ Invalid(s) \in Nat /\ Downdel(s) \in Nat
BY DEF Size, Invalid, Downdel, IsNode

\* The fields of a node after Update.
LEMMA UpdateFields ==
  ASSUME NEW t, IsNode(t), \A s \in Sons(t) : IsNode(s)
  PROVE  IsUpdate(Update(t), t)
<1> DEFINE tdel == t.pdel /\ \A s \in Sons(t) : s.tdel
           tdown == t.pdown /\ \A s \in Sons(t) : s.tdown
           live == {s \in Sons(t) : tdel \/ ~s.tdel}
           own == IF tdel \/ ~t.pdel THEN {t.pt} ELSE {}
           Lows(a) == {p[a] : p \in own} \cup {s.lo[a] : s \in live}
           Highs(a) == {p[a] : p \in own} \cup {s.hi[a] : s \in live}
           lo == [a \in Axis |-> Min(Lows(a))]
           hi == [a \in Axis |-> Max(Highs(a))]
           size == 1 + Size(t.left) + Size(t.right)
           invalid == One(t.pdel) + Invalid(t.left) + Invalid(t.right)
           downdel == One(t.pdown) + Downdel(t.left) + Downdel(t.right)
<1>1. Update(t) = [t EXCEPT !.size = size, !.invalid = invalid, !.downdel = downdel,
                            !.tdown = tdown, !.tdel = tdel, !.lo = lo, !.hi = hi]
  BY DEF Update
<1>2. size \in Nat /\ invalid \in Nat /\ downdel \in Nat
  <2>1. (t.left = Nil \/ IsNode(t.left)) /\ (t.right = Nil \/ IsNode(t.right))
    BY DEF Sons
  <2> QED
    BY <2>1, SizesAreNat DEF One
<1>3. tdel \in BOOLEAN /\ tdown \in BOOLEAN
  BY DEF IsNode
<1>4. ASSUME NEW a \in Axis
      PROVE  /\ lo[a] \in Int /\ hi[a] \in Int
             /\ \A p \in own : lo[a] =< p[a] /\ p[a] =< hi[a]
             /\ \A s \in live : lo[a] =< s.lo[a] /\ s.hi[a] =< hi[a]
             /\ lo[a] \in Lows(a) /\ hi[a] \in Highs(a)
  <2> DEFINE x == t.pt[a]
             Lo(s) == IF s \in Sons(t) THEN s.lo[a] ELSE 0
             Hi(s) == IF s \in Sons(t) THEN s.hi[a] ELSE 0
  <2>1. x \in Int
    BY DEF IsNode, Point
  <2>2. \A s : Lo(s) \in Int /\ Hi(s) \in Int
    BY DEF IsNode, Point
  <2>3. own # {} \/ live # {}
    OBVIOUS
  <2>4. \A s \in live : s = t.left \/ s = t.right
    BY DEF Sons
  <2>5. /\ Lows(a) \subseteq {x, Lo(t.left), Lo(t.right)}
        /\ Highs(a) \subseteq {x, Hi(t.left), Hi(t.right)}
    BY <2>4
  <2>6. Lows(a) # {} /\ Highs(a) # {}
    BY <2>3
  <2>7. /\ Min(Lows(a)) \in Lows(a) /\ Max(Highs(a)) \in Highs(a)
        /\ Min(Lows(a)) \in Int /\ \A n \in Lows(a) : Min(Lows(a)) =< n
        /\ Max(Highs(a)) \in Int /\ \A n \in Highs(a) : n =< Max(Highs(a))
    <3> HIDE DEF Lows, Highs, Lo, Hi, x
    <3> QED
      BY <2>1, <2>2, <2>5, <2>6, SmallExtremes
  <2>8. lo[a] = Min(Lows(a)) /\ hi[a] = Max(Highs(a))
    OBVIOUS
  <2> QED
    BY <2>7, <2>8
<1>20. ASSUME ~tdel, NEW a \in Axis
      PROVE  /\ \/ ~t.pdel /\ lo[a] = t.pt[a]
                \/ \E s \in Sons(t) : ~s.tdel /\ lo[a] = s.lo[a]
             /\ \/ ~t.pdel /\ hi[a] = t.pt[a]
                \/ \E s \in Sons(t) : ~s.tdel /\ hi[a] = s.hi[a]
  <2>1. lo[a] \in Lows(a) /\ hi[a] \in Highs(a)
    BY <1>4
  <2>2. /\ \A p \in own : ~t.pdel /\ p = t.pt
        /\ \A s \in live : s \in Sons(t) /\ ~s.tdel
    BY <1>20
  <2> HIDE DEF lo, hi, own, live, tdel
  <2> QED
    BY <2>1, <2>2
<1>5. lo \in Point /\ hi \in Point
  <2>1. lo = [a \in Axis |-> lo[a]] /\ hi = [a \in Axis |-> hi[a]]
    OBVIOUS
  <2> HIDE DEF lo, hi
  <2> QED
    BY <2>1, <1>4 DEF Point
<1>6. /\ ~t.pdel => \A a \in Axis : lo[a] =< t.pt[a] /\ t.pt[a] =< hi[a]
      /\ \A s \in Sons(t) : ~s.tdel => \A a \in Axis : lo[a] =< s.lo[a] /\ s.hi[a] =< hi[a]
  <2>1. ~t.pdel => t.pt \in own
    OBVIOUS
  <2>2. \A s \in Sons(t) : ~s.tdel => s \in live
    OBVIOUS
  <2> HIDE DEF own, live, lo, hi
  <2> QED
    BY <1>4, <2>1, <2>2
<1> HIDE DEF tdel, tdown, lo, hi, size, invalid, downdel
<1>7. /\ IsNode(Update(t))
      /\ Update(t).pt = t.pt /\ Update(t).axis = t.axis
      /\ Update(t).left = t.left /\ Update(t).right = t.right
      /\ Update(t).pdel = t.pdel /\ Update(t).pdown = t.pdown
      /\ Update(t).pushL = t.pushL /\ Update(t).pushR = t.pushR
      /\ Update(t).size = size /\ Update(t).invalid = invalid /\ Update(t).downdel = downdel
      /\ Update(t).tdown = tdown /\ Update(t).tdel = tdel
      /\ Update(t).lo = lo /\ Update(t).hi = hi
  <2>1. DOMAIN t = Fields
    BY DEF IsNode
  <2>2. DOMAIN Update(t) = Fields /\ Update(t) = [f \in DOMAIN Update(t) |-> Update(t)[f]]
    BY <1>1, <2>1
  <2>3. \A f \in Fields \ {"size", "invalid", "downdel", "tdown", "tdel", "lo", "hi"} :
          Update(t)[f] = t[f]
    BY <1>1, <2>1
  <2>4. /\ Update(t).size = size /\ Update(t).invalid = invalid /\ Update(t).downdel = downdel
        /\ Update(t).lo = lo /\ Update(t).hi = hi
    BY <1>1, <2>1 DEF Fields
  <2>5. Update(t).tdown = tdown /\ Update(t).tdel = tdel
    BY <1>1, <2>1 DEF Fields
  <2>6. /\ Update(t).pt = t.pt /\ Update(t).axis = t.axis
        /\ Update(t).left = t.left /\ Update(t).right = t.right
        /\ Update(t).pdel = t.pdel /\ Update(t).pdown = t.pdown
        /\ Update(t).pushL = t.pushL /\ Update(t).pushR = t.pushR
    BY <2>3 DEF Fields
  <2>7. t.pt \in Point /\ t.axis \in Axis /\ t.pdel \in BOOLEAN /\ t.pdown \in BOOLEAN
        /\ t.pushL \in BOOLEAN /\ t.pushR \in BOOLEAN
    BY DEF IsNode
  <2> HIDE DEF IsNode
  <2>8. IsNode(Update(t))
    BY <1>2, <1>3, <1>5, <2>2, <2>4, <2>5, <2>6, <2>7 DEF IsNode
  <2> QED
    BY <2>4, <2>5, <2>6, <2>8
<1>8. /\ ~t.pdel => Within(t.pt, t.pt, Update(t))
      /\ \A s \in Sons(t) : ~s.tdel => Within(s.lo, s.hi, Update(t))
  BY <1>6, <1>7 DEF Within
<1>9. Tight(Update(t))
  <2>1. Sons(Update(t)) = Sons(t)
    BY <1>7 DEF Sons
  <2> HIDE DEF Sons
  <2> QED
    BY <1>7, <1>20, <2>1 DEF Tight
<1> QED
  BY <1>7, <1>8, <1>9 DEF IsUpdate, tdel, tdown, size, invalid, downdel

Numbers(t) ==
  /\ t.size = 1 + Size(t.left) + Size(t.right)
  /\ t.invalid = One(t.pdel) + Invalid(t.left) + Invalid(t.right)
  /\ t.downdel = One(t.pdown) + Downdel(t.left) + Downdel(t.right)
Marks(t) ==
  /\ t.tdown = (t.pdown /\ \A s \in Sons(t) : s.tdown)
  /\ t.tdel = (t.pdel /\ \A s \in Sons(t) : s.tdel)

\* A node is up to date when Update would change neither a counter nor a mark.
LEMMA UpToDateMeans ==
  ASSUME NEW t, IsNode(t), \A s \in Sons(t) : IsNode(s)
  PROVE  UpToDate(t) <=> Numbers(t) /\ Marks(t)
<1>1. UpToDate(t) <=> /\ t.size = Update(t).size /\ t.invalid = Update(t).invalid
                      /\ t.downdel = Update(t).downdel
                      /\ t.tdown = Update(t).tdown /\ t.tdel = Update(t).tdel
  BY DEF UpToDate
<1>2. IsUpdate(Update(t), t)
  BY UpdateFields
<1> QED
  BY <1>1, <1>2 DEF IsUpdate, Numbers, Marks

\* Marking a son leaves a node with boolean marks.
LEMMA PushToIsNode ==
  ASSUME NEW s, NEW m, IsNode(s), IsMark(m)
  PROVE  IsNode(PushTo(s, m)) /\ PushTo(s, m) # Nil /\ IsMark(PushTo(s, m))
<1>1. IsNode(PushTo(s, m))
  BY PushToFields DEF IsPushTo
<1> QED
  BY <1>1, NodeIsNotNil DEF IsNode, IsMark

\* Two marks pushed one after the other leave what the second alone leaves, if it is as strong.
LEMMA PushTwice ==
  ASSUME NEW s, NEW m, NEW n, IsNode(s), IsMark(m), IsMark(n), m.tdown => n.tdown
  PROVE  PushTo(PushTo(s, m), n) = PushTo(s, n)
<1> DEFINE w == PushTo(s, m)
           u == PushTo(w, n)
           v == PushTo(s, n)
<1>1. IsPushTo(w, s, m) /\ IsPushTo(v, s, n)
  BY PushToFields
<1>2. IsNode(w)
  BY <1>1 DEF IsPushTo
<1>3. IsPushTo(u, w, n)
  BY <1>2, PushToFields
<1> HIDE DEF u, v, w
<1>4. /\ u.pt = v.pt /\ u.axis = v.axis /\ u.left = v.left /\ u.right = v.right
      /\ u.lo = v.lo /\ u.hi = v.hi /\ u.size = v.size
      /\ u.pushL = v.pushL /\ u.pushR = v.pushR
  BY <1>1, <1>3 DEF IsPushTo
<1>5. u.tdown = v.tdown /\ u.pdown = v.pdown /\ u.tdel = v.tdel /\ u.pdel = v.pdel
  BY ZenonT(60), <1>1, <1>3 DEF IsPushTo
<1>6. u.downdel = v.downdel /\ u.invalid = v.invalid
  BY <1>1, <1>3 DEF IsPushTo
<1>7. \A f \in Fields : u[f] = v[f]
  BY <1>4, <1>5, <1>6 DEF Fields
<1>8. DOMAIN u = Fields /\ u = [f \in DOMAIN u |-> u[f]]
      /\ DOMAIN v = Fields /\ v = [f \in DOMAIN v |-> v[f]]
  BY <1>1, <1>3 DEF IsPushTo, IsNode
<1>9. u = v
  BY <1>7, <1>8
<1> QED
  BY <1>9 DEF u, v, w

\* A son after a push.
Pushed(s, m) == IF s = Nil THEN Nil ELSE PushTo(s, m)

\* What opening a node shows after a mark was pushed to it: what it showed
\* before, with the mark pushed on.
LEMMA PushedSons ==
  ASSUME NEW s, NEW m, IsNode(s), \A x \in Sons(s) : IsNode(x), IsMark(m)
  PROVE  LET v == PushTo(s, m)
             r == Push_Down(s)
             q == Push_Down(v) IN
         /\ q.left = Pushed(r.left, v) /\ q.right = Pushed(r.right, v)
         /\ (r.left = Nil \/ IsNode(r.left)) /\ (r.right = Nil \/ IsNode(r.right))
<1> DEFINE v == PushTo(s, m)
           r == Push_Down(s)
           q == Push_Down(v)
<1>1. IsNode(v) /\ IsMark(v) /\ IsMark(s)
  BY PushToIsNode DEF IsMark, IsNode
<1>2. v.left = s.left /\ v.right = s.right /\ v.pushL = TRUE /\ v.pushR = TRUE
      /\ (s.tdown => v.tdown)
  BY PushToFields DEF IsPushTo
<1>3. (s.left = Nil \/ IsNode(s.left)) /\ (s.right = Nil \/ IsNode(s.right))
  BY DEF Sons
<1>4. /\ q.left = Pushed(s.left, v) /\ q.right = Pushed(s.right, v)
      /\ r.left = IF s.pushL /\ s.left # Nil THEN PushTo(s.left, s) ELSE s.left
      /\ r.right = IF s.pushR /\ s.right # Nil THEN PushTo(s.right, s) ELSE s.right
  <2>1. IsPushDown(q, v) /\ IsPushDown(r, s)
    BY <1>1, PushDownFields
  <2> HIDE DEF v, r, q
  <2> QED
    BY <1>2, <2>1 DEF Pushed, IsPushDown
<1> HIDE DEF v, r, q
<1>5. ASSUME NEW x, x = Nil \/ IsNode(x)
      PROVE  /\ Pushed(Pushed(x, s), v) = Pushed(x, v)
             /\ Pushed(x, s) = Nil \/ IsNode(Pushed(x, s))
  <2>1. CASE x = Nil
    BY <2>1 DEF Pushed
  <2>2. CASE x # Nil
    <3>1. IsNode(PushTo(x, s)) /\ PushTo(x, s) # Nil
      BY <1>1, <1>5, <2>2, PushToIsNode
    <3>2. PushTo(PushTo(x, s), v) = PushTo(x, v)
      BY <1>1, <1>2, <1>5, <2>2, PushTwice
    <3> QED
      BY <2>2, <3>1, <3>2 DEF Pushed
  <2> QED
    BY <2>1, <2>2
<1>6. q.left = Pushed(r.left, v) /\ (r.left = Nil \/ IsNode(r.left))
  <2>1. CASE s.pushL /\ s.left # Nil
    <3>1. r.left = Pushed(s.left, s)
      BY <1>4, <2>1 DEF Pushed
    <3> QED
      BY <1>3, <1>4, <1>5, <3>1
  <2>2. CASE ~(s.pushL /\ s.left # Nil)
    BY <1>3, <1>4, <2>2
  <2> QED
    BY <2>1, <2>2
<1>7. q.right = Pushed(r.right, v) /\ (r.right = Nil \/ IsNode(r.right))
  <2>1. CASE s.pushR /\ s.right # Nil
    <3>1. r.right = Pushed(s.right, s)
      BY <1>4, <2>1 DEF Pushed
    <3> QED
      BY <1>3, <1>4, <1>5, <3>1
  <2>2. CASE ~(s.pushR /\ s.right # Nil)
    BY <1>3, <1>4, <2>2
  <2> QED
    BY <2>1, <2>2
<1> QED
  BY <1>6, <1>7 DEF v, r, q

\* What a push does to the numbers and marks of a son.
IsPushed(x, w, v) ==
  /\ x = Nil \/ IsNode(x)
  /\ x = Nil <=> w = Nil
  /\ Size(x) = Size(w)
  /\ v.tdel => Invalid(x) = Size(w)
  /\ v.tdown => Downdel(x) = Size(w)
  /\ ~v.tdown => Downdel(x) = Downdel(w)
  /\ x # Nil => /\ x.tdel = (v.tdel \/ w.tdown \/ v.tdown)
                /\ x.tdown = (w.tdown \/ v.tdown)

\* The fields of a son of an opened node, null or not.
LEMMA PushedFields ==
  ASSUME NEW w, NEW v, w = Nil \/ IsNode(w), IsMark(v)
  PROVE  IsPushed(Pushed(w, v), w, v)
<1>1. CASE w = Nil
  BY <1>1 DEF IsPushed, Pushed, Size, Invalid, Downdel
<1>2. CASE w # Nil
  <2>1. Pushed(w, v) = PushTo(w, v) /\ IsNode(PushTo(w, v)) /\ PushTo(w, v) # Nil
    BY <1>2, PushToIsNode DEF Pushed
  <2>2. /\ PushTo(w, v).size = w.size
        /\ PushTo(w, v).tdel = (v.tdel \/ w.tdown \/ v.tdown)
        /\ PushTo(w, v).tdown = (w.tdown \/ v.tdown)
        /\ PushTo(w, v).downdel = IF v.tdown THEN w.size ELSE w.downdel
        /\ PushTo(w, v).invalid = IF v.tdel \/ v.tdown THEN w.size ELSE w.downdel
    BY ZenonT(60), <1>2, PushToFields DEF IsPushTo
  <2>3. v.tdel \in BOOLEAN /\ v.tdown \in BOOLEAN
    BY DEF IsMark
  <2> HIDE DEF IsNode
  <2> QED
    BY <1>2, <2>1, <2>2, <2>3 DEF IsPushed, Size, Invalid, Downdel
<1> QED
  BY <1>1, <1>2

\* The same of a tree's root once it is opened.
LEMMA OpenedSons ==
  ASSUME NEW t, IsNode(t), \A s \in Sons(t) : IsNode(s)
  PROVE  LET r == Push_Down(t) IN
         /\ IsNode(r) /\ (r.left = Nil \/ IsNode(r.left)) /\ (r.right = Nil \/ IsNode(r.right))
         /\ \A s \in Sons(r) : IsNode(s)
         /\ r.left = Nil <=> t.left = Nil
         /\ r.right = Nil <=> t.right = Nil
<1> DEFINE r == Push_Down(t)
<1>1. IsPushDown(r, t)
  BY PushDownFields
<1>2. IsMark(t)
  BY DEF IsNode, IsMark
<1>3. ASSUME NEW s \in Sons(t) PROVE IsNode(PushTo(s, t)) /\ PushTo(s, t) # Nil
  BY <1>2, <1>3, PushToIsNode
<1> HIDE DEF r
<1>4. IsNode(r) /\ (r.left = Nil \/ IsNode(r.left)) /\ (r.right = Nil \/ IsNode(r.right))
  BY <1>1, <1>3 DEF IsPushDown, Sons
<1>5. (r.left = Nil <=> t.left = Nil) /\ (r.right = Nil <=> t.right = Nil)
  BY <1>1, <1>3 DEF IsPushDown, Sons
<1>6. \A s \in Sons(r) : IsNode(s)
  BY <1>4 DEF Sons
<1> QED
  BY <1>4, <1>5, <1>6 DEF r

\* A node is settled when, opened, its counters, marks and box are those of its sons.
LEMMA SettledMeans ==
  ASSUME NEW t, IsNode(t), \A s \in Sons(t) : IsNode(s)
  PROVE  Settled(t) <=> /\ OwesNothing(t) /\ Inherits(t)
                        /\ Numbers(Push_Down(t)) /\ Marks(Push_Down(t))
                        /\ Boxed(Push_Down(t)) /\ Tight(Push_Down(t))
BY OpenedSons, UpToDateMeans DEF Settled

\* A deletion mark pushed to a settled node settles it again.
LEMMA PushDeletes ==
  ASSUME NEW s, NEW m, Settled(s), \A w \in Sons(Push_Down(s)) : Inherits(w),
         IsMark(m), m.tdel
  PROVE  Settled(PushTo(s, m))
<1> DEFINE v == PushTo(s, m)
           r == Push_Down(s)
           q == Push_Down(v)
<1>1. IsNode(s) /\ \A x \in Sons(s) : IsNode(x)
  BY DEF Settled
<1>2. IsPushTo(v, s, m) /\ IsPushDown(r, s)
  BY <1>1, PushToFields, PushDownFields
<1>3. IsNode(v) /\ IsMark(v) /\ \A x \in Sons(v) : IsNode(x)
  BY <1>1, <1>2, PushToIsNode DEF IsPushTo, Sons
<1>4. IsPushDown(q, v)
  BY <1>3, PushDownFields
<1>5. /\ Inherits(s) /\ Numbers(r) /\ Marks(r) /\ Boxed(r)
  BY <1>1, SettledMeans
<1>6. /\ q.left = Pushed(r.left, v) /\ q.right = Pushed(r.right, v)
      /\ r.left = Nil \/ (IsNode(r.left) /\ Inherits(r.left))
      /\ r.right = Nil \/ (IsNode(r.right) /\ Inherits(r.right))
  BY <1>1, PushedSons DEF Sons
<1> HIDE DEF v, r, q
<1>7. v.tdel = TRUE
  BY <1>2 DEF IsPushTo, IsMark
<1>8. /\ Size(q.left) = Size(r.left) /\ Size(q.right) = Size(r.right)
      /\ Invalid(q.left) = Size(r.left) /\ Invalid(q.right) = Size(r.right)
      /\ v.tdown => Downdel(q.left) = Size(r.left) /\ Downdel(q.right) = Size(r.right)
      /\ ~v.tdown => Downdel(q.left) = Downdel(r.left) /\ Downdel(q.right) = Downdel(r.right)
      /\ \A x \in Sons(q) : x.tdel = TRUE
      /\ q.left = Nil <=> r.left = Nil
      /\ q.right = Nil <=> r.right = Nil
      /\ q.left # Nil => q.left.tdown = (r.left.tdown \/ v.tdown)
      /\ q.right # Nil => q.right.tdown = (r.right.tdown \/ v.tdown)
  <2>1. IsPushed(q.left, r.left, v) /\ IsPushed(q.right, r.right, v)
    BY <1>3, <1>6, PushedFields
  <2> QED
    BY <1>7, <2>1 DEF IsPushed, Sons
<1>9. OwesNothing(v)
  BY <1>7 DEF OwesNothing
<1>10. Inherits(v)
  <2>1. v.invalid = v.size /\ v.size \in Nat /\ v.tdel = TRUE
    BY <1>2, <1>3, <1>7 DEF IsPushTo, IsMark, IsNode
  <2>2. (v.tdown => v.pdown /\ v.downdel = v.size) /\ v.pdel
    BY <1>2, <1>5 DEF Inherits, IsPushTo
  <2> QED
    BY <2>1, <2>2 DEF Inherits
<1>11. Numbers(q)
  <2>1. q.size = v.size /\ q.invalid = v.invalid /\ q.downdel = v.downdel
        /\ q.pdel = v.pdel /\ q.pdown = v.pdown
    BY <1>4 DEF IsPushDown
  <2>2. /\ v.size = s.size /\ v.pdel = TRUE /\ v.invalid = s.size
        /\ v.tdown = (s.tdown \/ m.tdown) /\ v.pdown = (s.pdown \/ m.tdown)
        /\ v.downdel = IF m.tdown THEN s.size ELSE s.downdel
    BY <1>2 DEF IsPushTo
  <2>3. /\ r.size = s.size /\ r.downdel = s.downdel /\ r.pdown = s.pdown
        /\ r.size = 1 + Size(r.left) + Size(r.right)
        /\ r.downdel = One(r.pdown) + Downdel(r.left) + Downdel(r.right)
    BY <1>2, <1>5 DEF IsPushDown, Numbers
  <2>4. Size(r.left) \in Nat /\ Size(r.right) \in Nat
    BY <1>6, SizesAreNat
  <2>5. q.size = 1 + Size(q.left) + Size(q.right)
    BY <1>8, <2>1, <2>2, <2>3
  <2>6. q.invalid = One(q.pdel) + Invalid(q.left) + Invalid(q.right)
    BY <1>8, <2>1, <2>2, <2>3 DEF One
  <2>7. q.downdel = One(q.pdown) + Downdel(q.left) + Downdel(q.right)
    <3>1. CASE m.tdown
      <4>1. v.tdown /\ q.pdown = TRUE /\ q.downdel = s.size
        BY <2>1, <2>2, <3>1
      <4> QED
        BY <1>8, <2>3, <4>1 DEF One
    <3>2. CASE ~m.tdown
      <4>1. v.tdown = s.tdown /\ q.pdown = s.pdown /\ q.downdel = s.downdel
        BY <1>1, <2>1, <2>2, <3>2 DEF IsNode
      <4>2. CASE s.tdown
        <5>1. s.pdown = TRUE /\ s.downdel = s.size
          BY <1>1, <1>5, <4>2 DEF Inherits, IsNode
        <5> QED
          BY <1>8, <2>3, <4>1, <4>2, <5>1 DEF One
      <4>3. CASE ~s.tdown
        BY <1>8, <2>3, <4>1, <4>3
      <4> QED
        BY <4>2, <4>3
    <3> QED
      BY <3>1, <3>2
  <2> QED
    BY <2>5, <2>6, <2>7 DEF Numbers
<1>12. Marks(q)
  <2>1. q.tdel = TRUE /\ q.pdel = TRUE /\ q.tdown = (s.tdown \/ m.tdown)
        /\ q.pdown = (s.pdown \/ m.tdown) /\ v.tdown = (s.tdown \/ m.tdown)
    BY <1>2, <1>4, <1>7 DEF IsPushTo, IsPushDown
  <2>2. s.tdown = (s.pdown /\ \A x \in Sons(r) : x.tdown)
    BY <1>2, <1>5 DEF Marks, IsPushDown
  <2>3. q.tdown = (q.pdown /\ \A x \in Sons(q) : x.tdown)
    <3>1. CASE s.tdown \/ m.tdown
      BY <1>8, <2>1, <2>2, <3>1 DEF Sons
    <3>2. CASE ~(s.tdown \/ m.tdown)
      BY <1>8, <2>1, <2>2, <3>2 DEF Sons
    <3> QED
      BY <3>1, <3>2
  <2> QED
    BY <1>8, <2>1, <2>3 DEF Marks
<1>13. Boxed(q)
  BY <1>2, <1>4, <1>7, <1>8 DEF Boxed, IsPushTo, IsPushDown
<1>14. Tight(q)
  BY <1>4, <1>7 DEF Tight, IsPushDown
<1>15. Settled(v)
  BY <1>3, <1>9, <1>10, <1>11, <1>12, <1>13, <1>14, SettledMeans DEF q
<1> QED
  BY <1>15 DEF v

(***************************************************************************)
(* Trees: sound at every node that can be opened; what one step keeps.     *)
(***************************************************************************)
\* A tree: settled at every node that a visit can find in it, with the marks
\* above pushed down.
Closed(T) == \A u \in T : Settled(u) /\ Sons(Push_Down(u)) \subseteq T
Sound(t)  == \E T : t \in T /\ Closed(T)

\* A tree is sound when its root is settled and the opened sons are sound.
LEMMA SoundMeans ==
  ASSUME NEW t
  PROVE  Sound(t) <=> Settled(t) /\ \A s \in Sons(Push_Down(t)) : Sound(s)
<1>1. ASSUME Sound(t) PROVE Settled(t) /\ \A s \in Sons(Push_Down(t)) : Sound(s)
  BY <1>1 DEF Sound, Closed
<1>2. ASSUME Settled(t), \A s \in Sons(Push_Down(t)) : Sound(s) PROVE Sound(t)
  <2> DEFINE l == Push_Down(t).left
             r == Push_Down(t).right
  <2>1. \E L : (l = Nil \/ l \in L) /\ Closed(L)
    <3>1. CASE l = Nil
      <4>1. Closed({})
        BY DEF Closed
      <4> QED
        BY <3>1, <4>1
    <3>2. CASE l # Nil
      <4>1. Sound(l)
        BY <1>2, <3>2 DEF Sons
      <4> HIDE DEF l
      <4> QED
        BY <4>1 DEF Sound
    <3> QED
      BY <3>1, <3>2
  <2>2. \E R : (r = Nil \/ r \in R) /\ Closed(R)
    <3>1. CASE r = Nil
      <4>1. Closed({})
        BY DEF Closed
      <4> QED
        BY <3>1, <4>1
    <3>2. CASE r # Nil
      <4>1. Sound(r)
        BY <1>2, <3>2 DEF Sons
      <4> HIDE DEF r
      <4> QED
        BY <4>1 DEF Sound
    <3> QED
      BY <3>1, <3>2
  <2>3. PICK L : (l = Nil \/ l \in L) /\ Closed(L)
    BY <2>1
  <2>4. PICK R : (r = Nil \/ r \in R) /\ Closed(R)
    BY <2>2
  <2> DEFINE T == {t} \cup L \cup R
  <2>5. Sons(Push_Down(t)) \subseteq T
    BY <2>3, <2>4 DEF Sons
  <2>6. Closed(T)
    BY <1>2, <2>3, <2>4, <2>5 DEF Closed
  <2> QED
    BY <2>6 DEF Sound
<1> QED
  BY <1>1, <1>2

\* A new leaf may be marked by an undeleted father and stays as it is.
LEMMA PushFresh ==
  ASSUME NEW s, NEW m, IsNode(s), Fresh(s), IsMark(m), ~m.tdel, ~m.tdown
  PROVE  LET v == PushTo(s, m) IN
         /\ Fresh(v)
         /\ Sound(s) => Sound(v)
         /\ v.lo = s.lo /\ v.hi = s.hi
<1> DEFINE v == PushTo(s, m)
           r == Push_Down(s)
           q == Push_Down(v)
<1>1. IsPushTo(v, s, m) /\ IsPushDown(r, s)
  BY PushToFields, PushDownFields
<1>2. IsNode(v)
  BY <1>1 DEF IsPushTo
<1>3. IsPushDown(q, v)
  BY <1>2, PushDownFields
<1> HIDE DEF v, r, q
<1>4. Fresh(v)
  BY <1>1 DEF IsPushTo, Fresh
<1>5. v.lo = s.lo /\ v.hi = s.hi /\ v.pt = s.pt
  BY <1>1 DEF IsPushTo
<1>6. ASSUME Sound(s) PROVE Sound(v)
  <2>1. Settled(s)
    BY <1>6, SoundMeans
  <2>2. Sons(r) = {} /\ Sons(q) = {} /\ Sons(v) = {} /\ Sons(s) = {}
    BY <1>1, <1>3, <1>4 DEF Fresh, Sons, IsPushDown
  <2>3. Boxed(r) /\ Tight(r)
    BY <1>2, <2>1, <2>2, SettledMeans DEF r
  <2>4. Boxed(q) /\ Tight(q)
    <3>1. r.lo = s.lo /\ r.hi = s.hi /\ r.pt = s.pt /\ ~r.pdel /\ ~r.tdel
      BY <1>1 DEF IsPushDown, Fresh
    <3>2. q.lo = s.lo /\ q.hi = s.hi /\ q.pt = s.pt /\ ~q.pdel /\ ~q.tdel
      BY <1>3, <1>4, <1>5 DEF IsPushDown, Fresh
    <3>3. Boxed(q)
      BY <2>2, <2>3, <3>1, <3>2 DEF Boxed, Within
    <3>4. Tight(q)
      BY <2>2, <2>3, <3>1, <3>2 DEF Tight
    <3> QED
      BY <3>3, <3>4
  <2>5. OwesNothing(v) /\ Inherits(v)
    BY <1>4 DEF OwesNothing, Inherits, Fresh
  <2>6. Numbers(q)
    BY <1>3, <1>4 DEF Numbers, Fresh, IsPushDown, Size, Invalid, Downdel, One
  <2>7. Marks(q)
    BY <1>2, <1>3, <1>4 DEF Marks, Fresh, IsPushDown, IsNode
  <2>8. Settled(v)
    BY <1>2, <2>2, <2>4, <2>5, <2>6, <2>7, SettledMeans DEF q
  <2> QED
    BY <2>2, <2>8, SoundMeans DEF q
<1> QED
  BY <1>4, <1>5, <1>6 DEF v

Deletions == [tdel : {TRUE}, tdown : BOOLEAN]

\* Deleting a whole subtree is the push of one of two marks.
LEMMA DeletionMarks ==
  /\ \A k \in Deletions : IsMark(k) /\ k.tdel
  /\ \A s, k : IsMark(k) /\ k.tdel =>
       \E n \in Deletions : PushTo(s, k) = PushTo(s, n)
<1>1. \A k \in Deletions : IsMark(k) /\ k.tdel
  BY DEF Deletions, IsMark
<1>2. ASSUME NEW s, NEW k, IsMark(k), k.tdel
      PROVE  \E n \in Deletions : PushTo(s, k) = PushTo(s, n)
  <2> DEFINE n == [tdel |-> TRUE, tdown |-> k.tdown]
  <2>1. k.tdown \in BOOLEAN /\ k.tdel = TRUE
    BY <1>2 DEF IsMark
  <2>2. n \in Deletions
    BY <2>1 DEF Deletions
  <2>3. PushTo(s, k) = PushTo(s, n)
    BY <2>1 DEF PushTo
  <2> QED
    BY <2>2, <2>3
<1> QED
  BY <1>1, <1>2

\* A deletion mark may be pushed to any tree, whatever marks it still owes.
LEMMA PushDeletesSound ==
  ASSUME NEW s, NEW m, Sound(s), IsMark(m), m.tdel
  PROVE  Sound(PushTo(s, m))
<1>1. PICK T : s \in T /\ Closed(T)
  BY DEF Sound
<1> DEFINE P == {PushTo(u, k) : u \in T, k \in Deletions}
<1>2. ASSUME NEW u \in T, NEW k, IsMark(k), k.tdel PROVE PushTo(u, k) \in P
  BY <1>2, DeletionMarks
<1>3. ASSUME NEW v \in P PROVE Settled(v) /\ Sons(Push_Down(v)) \subseteq P
  <2>1. PICK u \in T, k \in Deletions : v = PushTo(u, k)
    OBVIOUS
  <2>2. IsMark(k) /\ k.tdel
    BY DeletionMarks
  <2>3. Settled(u) /\ Sons(Push_Down(u)) \subseteq T
    BY <1>1 DEF Closed
  <2>4. \A w \in Sons(Push_Down(u)) : Inherits(w)
    BY <1>1, <2>3 DEF Closed, Settled
  <2>5. Settled(v)
    BY <2>1, <2>2, <2>3, <2>4, PushDeletes
  <2>6. IsNode(u) /\ \A x \in Sons(u) : IsNode(x)
    BY <2>3 DEF Settled
  <2>7. /\ Push_Down(v).left = Pushed(Push_Down(u).left, v)
        /\ Push_Down(v).right = Pushed(Push_Down(u).right, v)
    BY <2>1, <2>2, <2>6, PushedSons
  <2>8. IsMark(v) /\ v.tdel
    <3>1. IsPushTo(v, u, k)
      BY <2>1, <2>2, <2>6, PushToFields
    <3> QED
      BY <2>2, <3>1 DEF IsPushTo, IsMark, IsNode
  <2>9. ASSUME NEW w, w = Nil \/ w \in Sons(Push_Down(u)) PROVE Pushed(w, v) = Nil \/ Pushed(w, v) \in P
    <3> HIDE DEF P
    <3> QED
      BY <1>2, <2>3, <2>8, <2>9 DEF Pushed
  <2> HIDE DEF P
  <2>10. Sons(Push_Down(v)) \subseteq P
    BY <2>7, <2>9 DEF Sons
  <2> QED
    BY <2>5, <2>10
<1>4. PushTo(s, m) \in P
  BY <1>1, <1>2
<1> HIDE DEF P
<1> QED
  BY <1>3, <1>4 DEF Sound, Closed

\* Push_Down leaves a sound tree, and both sons are sound trees of their own.
THEOREM PushDownKeepsTree ==
  ASSUME NEW t, Sound(t)
  PROVE  Sound(Push_Down(t)) /\ \A s \in Sons(Push_Down(t)) : Sound(s)
<1> DEFINE r == Push_Down(t)
           q == Push_Down(r)
<1>1. Settled(t) /\ \A s \in Sons(r) : Sound(s)
  BY SoundMeans
<1>2. IsNode(t) /\ \A s \in Sons(t) : IsNode(s)
  BY <1>1 DEF Settled
<1>3. IsNode(r) /\ (\A s \in Sons(r) : IsNode(s)) /\ IsPushDown(r, t)
  BY <1>2, OpenedSons, PushDownFields
<1>4. IsPushDown(q, r)
  BY <1>3, PushDownFields
<1>5. OwesNothing(t) /\ Inherits(t) /\ Numbers(r) /\ Marks(r) /\ Boxed(r) /\ Tight(r)
  BY <1>1, <1>2, SettledMeans
<1>6. ~(r.pushL /\ r.left # Nil) /\ ~(r.pushR /\ r.right # Nil)
  <2>1. (r.left = Nil <=> t.left = Nil) /\ (r.right = Nil <=> t.right = Nil)
    BY <1>2, OpenedSons
  <2> HIDE DEF r
  <2> QED
    BY <1>3, <2>1 DEF IsPushDown
<1> HIDE DEF q
<1>7. q.left = r.left /\ q.right = r.right
  <2> HIDE DEF r
  <2> QED
    BY <1>4, <1>6 DEF IsPushDown
<1>8. OwesNothing(r) /\ Inherits(r) /\ Numbers(q) /\ Marks(q) /\ Boxed(q) /\ Tight(q) /\ Sons(q) = Sons(r)
  <2> HIDE DEF r
  <2>1. OwesNothing(r) /\ Sons(q) = Sons(r)
    BY <1>6, <1>7 DEF OwesNothing, Sons
  <2>2. Inherits(r)
    BY <1>3, <1>5 DEF Inherits, IsPushDown
  <2>3. Numbers(q)
    BY <1>4, <1>5, <1>7 DEF Numbers, IsPushDown
  <2>4. Marks(q)
    BY <1>4, <1>5, <2>1 DEF Marks, IsPushDown
  <2>5. Boxed(q)
    BY <1>4, <1>5, <2>1 DEF Boxed, Within, IsPushDown
  <2>6. Tight(q)
    BY <1>4, <1>5, <2>1 DEF Tight, IsPushDown
  <2> QED
    BY <2>1, <2>2, <2>3, <2>4, <2>5, <2>6
<1> HIDE DEF r
<1>9. Settled(r)
  BY <1>3, <1>8, SettledMeans DEF q
<1>10. Sound(r)
  BY <1>1, <1>8, <1>9, SoundMeans DEF q
<1> QED
  BY <1>1, <1>10 DEF r

\* Delete_by_range on a covered node is a push of the deletion mark to it.
LEMMA DeleteAllIsPush ==
  ASSUME NEW t, NEW d \in BOOLEAN, IsNode(t)
  PROVE  DeleteAll(t, d) = PushTo(t, [tdel |-> TRUE, tdown |-> d])
<1> DEFINE m == [tdel |-> TRUE, tdown |-> d]
           u == DeleteAll(t, d)
           v == PushTo(t, m)
<1>1. IsMark(m) /\ m.tdel = TRUE /\ m.tdown = d
  BY DEF IsMark
<1> HIDE DEF m
<1>2. IsDeleteAll(u, t, d) /\ IsPushTo(v, t, m)
  BY <1>1, DeleteAllFields, PushToFields
<1> HIDE DEF u, v
<1>3. \A f \in Fields : u[f] = v[f]
  <2>1. /\ u.pt = v.pt /\ u.axis = v.axis /\ u.left = v.left /\ u.right = v.right
        /\ u.lo = v.lo /\ u.hi = v.hi /\ u.size = v.size
        /\ u.pushL = v.pushL /\ u.pushR = v.pushR
        /\ u.downdel = v.downdel /\ u.invalid = v.invalid
    BY <1>1, <1>2 DEF IsDeleteAll, IsPushTo
  <2>2. u.tdown = v.tdown /\ u.pdown = v.pdown /\ u.tdel = v.tdel /\ u.pdel = v.pdel
    BY <1>1, <1>2 DEF IsDeleteAll, IsPushTo
  <2> QED
    BY <2>1, <2>2 DEF Fields
<1>4. DOMAIN u = Fields /\ u = [f \in DOMAIN u |-> u[f]]
      /\ DOMAIN v = Fields /\ v = [f \in DOMAIN v |-> v[f]]
  BY <1>2 DEF IsDeleteAll, IsPushTo, IsNode
<1>5. u = v
  BY <1>3, <1>4
<1> QED
  BY <1>5 DEF u, v, m

\* Deleting a whole subtree by its marks alone leaves a sound tree: every node below
\* agrees with the marks once they are pushed down.
THEOREM DeleteAllKeepsTree ==
  ASSUME NEW t, NEW d \in BOOLEAN, Sound(t)
  PROVE  Sound(DeleteAll(t, d))
<1>1. IsNode(t)
  BY SoundMeans DEF Settled
<1>2. IsMark([tdel |-> TRUE, tdown |-> d]) /\ [tdel |-> TRUE, tdown |-> d].tdel
  BY DEF IsMark
<1> QED
  BY <1>1, <1>2, DeleteAllIsPush, PushDeletesSound

\* A node may get new sons when it owes a mark to none of them, or when the new
\* son is a fresh leaf.
Ready(t) ==
  /\ IsNode(t)
  /\ t.pdown => t.pdel
  /\ \A s \in Sons(t) : Sound(s)
  /\ t.pushL => t.left = Nil \/ Fresh(t.left)
  /\ t.pushR => t.right = Nil \/ Fresh(t.right)

\* Update makes a sound tree of a node whose sons are sound, whatever its own
\* counters, marks and box were before.
THEOREM UpdateKeepsTree ==
  ASSUME NEW t, Ready(t)
  PROVE  Sound(Update(t))
<1> DEFINE u == Update(t)
           q == Push_Down(u)
<1>1. \A s \in Sons(t) : IsNode(s) /\ Inherits(s)
  BY SoundMeans DEF Ready, Settled
<1>2. IsUpdate(u, t)
  BY <1>1, UpdateFields DEF Ready
<1>3. IsNode(u) /\ \A s \in Sons(u) : IsNode(s)
  BY <1>1, <1>2 DEF IsUpdate, Sons
<1>4. IsPushDown(q, u) /\ IsMark(u)
  BY <1>3, PushDownFields DEF IsMark, IsNode
<1> HIDE DEF u, q
<1>5. ASSUME NEW s \in Sons(t), Fresh(s)
      PROVE  LET v == PushTo(s, u) IN
             Fresh(v) /\ Sound(v) /\ v.lo = s.lo /\ v.hi = s.hi /\ v # Nil /\ IsNode(v)
  <2>1. ~u.tdel /\ ~u.tdown
    BY <1>2, <1>5 DEF IsUpdate, Fresh
  <2>2. Sound(s) /\ IsNode(s)
    BY <1>1 DEF Ready
  <2> QED
    BY <1>4, <1>5, <2>1, <2>2, PushFresh, PushToIsNode
\* What the opened node shows of a son s that it holds as x.
<1> DEFINE SameTo(x, s) ==
             /\ x = Nil <=> s = Nil
             /\ Size(x) = Size(s) /\ Invalid(x) = Invalid(s) /\ Downdel(x) = Downdel(s)
             /\ x # Nil => /\ x.tdel = s.tdel /\ x.tdown = s.tdown
                           /\ x.lo = s.lo /\ x.hi = s.hi /\ Sound(x)
<1>6. ASSUME NEW s \in Sons(t), Fresh(s) PROVE SameTo(PushTo(s, u), s)
  <2>1. s # Nil
    BY DEF Sons
  <2> DEFINE v == PushTo(s, u)
  <2>2. Fresh(v) /\ Sound(v) /\ v.lo = s.lo /\ v.hi = s.hi /\ v # Nil /\ IsNode(v) /\ IsNode(s)
    BY <1>1, <1>5, <1>6
  <2> HIDE DEF v
  <2>3. SameTo(v, s)
    BY <1>6, <2>1, <2>2 DEF Fresh, Size, Invalid, Downdel, IsNode
  <2> QED
    BY <2>3 DEF v
<1>7. ASSUME NEW s \in Sons(t) \cup {Nil} PROVE SameTo(s, s)
  BY DEF Ready, Sons
<1>8. SameTo(q.left, t.left) /\ SameTo(q.right, t.right)
  <2>1. /\ q.left = IF u.pushL /\ t.left # Nil THEN PushTo(t.left, u) ELSE t.left
        /\ q.right = IF u.pushR /\ t.right # Nil THEN PushTo(t.right, u) ELSE t.right
        /\ u.pushL = t.pushL /\ u.pushR = t.pushR
    BY <1>2, <1>4 DEF IsUpdate, IsPushDown
  <2> HIDE DEF SameTo
  <2>2. SameTo(q.left, t.left)
    BY <1>6, <1>7, <2>1 DEF Ready, Sons
  <2>3. SameTo(q.right, t.right)
    BY <1>6, <1>7, <2>1 DEF Ready, Sons
  <2> QED
    BY <2>2, <2>3
<1>9. \A s \in Sons(q) : Sound(s)
  BY <1>8 DEF Sons
<1>10. OwesNothing(u)
  BY <1>2 DEF OwesNothing, Ready, IsUpdate
<1>11. Inherits(u)
  <2>1. ASSUME u.tdown PROVE u.tdel /\ u.pdown /\ u.downdel = u.size
    <3>1. t.pdown = TRUE /\ t.pdel = TRUE
      BY <1>2, <2>1 DEF IsUpdate, Ready, IsNode
    <3>2. \A s \in Sons(t) : s.tdown /\ s.tdel /\ s.downdel = s.size
      BY <1>1, <1>2, <2>1 DEF IsUpdate, Inherits
    <3>3. Downdel(t.left) = Size(t.left) /\ Downdel(t.right) = Size(t.right)
      BY <3>2 DEF Sons, Downdel, Size
    <3> QED
      BY <1>2, <3>1, <3>2, <3>3 DEF IsUpdate, One
  <2>2. /\ u.tdel => u.pdel
        /\ u.invalid =< u.size
        /\ u.tdel <=> u.invalid = u.size
    <3>1. /\ u.size = 1 + Size(t.left) + Size(t.right)
          /\ u.invalid = One(t.pdel) + Invalid(t.left) + Invalid(t.right)
          /\ u.tdel = (t.pdel /\ \A s \in Sons(t) : s.tdel)
          /\ u.pdel = t.pdel /\ t.pdel \in BOOLEAN
      BY <1>2 DEF IsUpdate, Ready, IsNode
    <3>2. ASSUME NEW s, s = Nil \/ s \in Sons(t)
          PROVE  /\ Invalid(s) \in Nat /\ Size(s) \in Nat /\ Invalid(s) =< Size(s)
                 /\ Invalid(s) = Size(s) <=> (s # Nil => s.tdel)
      BY <1>1, <3>2 DEF Invalid, Size, Inherits, IsNode, Sons
    <3>3. /\ t.left = Nil \/ t.left \in Sons(t)
          /\ t.right = Nil \/ t.right \in Sons(t)
      BY DEF Sons
    <3>4. (\A s \in Sons(t) : s.tdel) <=> (t.left # Nil => t.left.tdel) /\ (t.right # Nil => t.right.tdel)
      BY DEF Sons
    <3>5. /\ Invalid(t.left) \in Nat /\ Size(t.left) \in Nat /\ Invalid(t.left) =< Size(t.left)
          /\ Invalid(t.right) \in Nat /\ Size(t.right) \in Nat /\ Invalid(t.right) =< Size(t.right)
          /\ (\A s \in Sons(t) : s.tdel) <=> (Invalid(t.left) = Size(t.left) /\ Invalid(t.right) = Size(t.right))
      BY <3>2, <3>3, <3>4
    <3>6. CASE t.pdel
      <4>1. u.tdel <=> (Invalid(t.left) = Size(t.left) /\ Invalid(t.right) = Size(t.right))
        BY <3>1, <3>5, <3>6
      <4>2. /\ u.invalid = 1 + Invalid(t.left) + Invalid(t.right)
            /\ u.size = 1 + Size(t.left) + Size(t.right)
        BY <3>1, <3>6 DEF One
      <4>3. u.tdel <=> u.invalid = u.size
        BY <3>5, <4>1, <4>2
      <4>4. u.invalid =< u.size
        BY <3>5, <4>2
      <4> QED
        BY <3>1, <3>6, <4>3, <4>4
    <3>7. CASE ~t.pdel
      <4>1. ~u.tdel
        BY <3>1, <3>7
      <4>2. /\ u.invalid = 0 + Invalid(t.left) + Invalid(t.right)
            /\ u.size = 1 + Size(t.left) + Size(t.right)
        BY <3>1, <3>7 DEF One
      <4>3. u.invalid =< u.size /\ u.invalid # u.size
        BY <3>5, <4>2
      <4> QED
        BY <4>1, <4>3
    <3> QED
      BY <3>6, <3>7
  <2>3. u.pdown => u.pdel
    BY <1>2 DEF IsUpdate, Ready
  <2> QED
    BY <2>1, <2>2, <2>3 DEF Inherits
<1>12. Numbers(q)
  BY <1>2, <1>4, <1>8 DEF Numbers, IsUpdate, IsPushDown
<1>13. Marks(q)
  BY <1>2, <1>4, <1>8 DEF Marks, IsUpdate, IsPushDown, Sons
<1>14. Boxed(q)
  BY <1>2, <1>4, <1>8 DEF Boxed, Within, IsUpdate, IsPushDown, Sons
<1>15. Tight(q)
  <2>1. Tight(u) /\ u.left = t.left /\ u.right = t.right
    BY <1>2 DEF IsUpdate
  <2>2. q.lo = u.lo /\ q.hi = u.hi /\ q.pt = u.pt /\ q.pdel = u.pdel /\ q.tdel = u.tdel
    BY <1>4 DEF IsPushDown
  <2>3. ASSUME NEW s \in Sons(u)
        PROVE  \E x \in Sons(q) : x.tdel = s.tdel /\ x.lo = s.lo /\ x.hi = s.hi
    BY <1>8, <2>1 DEF Sons
  <2> HIDE DEF Sons, SameTo
  <2> QED
    BY <2>1, <2>2, <2>3 DEF Tight
<1>16. Settled(u)
  BY <1>3, <1>10, <1>11, <1>12, <1>13, <1>14, <1>15, SettledMeans DEF q
<1>17. Sound(u)
  BY <1>9, <1>16, SoundMeans DEF q
<1> QED
  BY <1>17 DEF u

\* A tree or the null pointer.
SoundOrNil(s) == s = Nil \/ Sound(s)

\* The root of a sound tree is a node.
LEMMA SoundIsNode == ASSUME NEW t, Sound(t) PROVE IsNode(t) /\ Inherits(t) /\ t # Nil
BY SoundMeans, NodeIsNotNil DEF Settled

\* A root that was just opened owes no mark to a son that is there.
LEMMA OpenedNode ==
  ASSUME NEW t, Sound(t)
  PROVE  LET r == Push_Down(t) IN
         /\ Sound(r) /\ IsNode(r) /\ Inherits(r)
         /\ r.left = Nil <=> t.left = Nil
         /\ r.right = Nil <=> t.right = Nil
         /\ r.pushL => r.left = Nil
         /\ r.pushR => r.right = Nil
         /\ SoundOrNil(r.left) /\ SoundOrNil(r.right)
<1> DEFINE r == Push_Down(t)
<1>1. Sound(r) /\ \A s \in Sons(r) : Sound(s)
  BY PushDownKeepsTree
<1>2. IsNode(t) /\ \A s \in Sons(t) : IsNode(s)
  BY SoundMeans DEF Settled
<1>3. IsPushDown(r, t) /\ (r.left = Nil <=> t.left = Nil) /\ (r.right = Nil <=> t.right = Nil)
  BY <1>2, PushDownFields, OpenedSons
<1> HIDE DEF r
<1>4. IsNode(r) /\ Inherits(r)
  BY <1>1, SoundIsNode
<1>5. (r.pushL => r.left = Nil) /\ (r.pushR => r.right = Nil)
  BY <1>3 DEF IsPushDown
<1>6. SoundOrNil(r.left) /\ SoundOrNil(r.right)
  BY <1>1 DEF SoundOrNil, Sons
<1> QED
  BY <1>1, <1>3, <1>4, <1>5, <1>6 DEF r

\* A node that BuildTree or Add_by_point makes over sound subtrees is a sound tree.
THEOREM NodeIsTree ==
  ASSUME NEW p \in Point, NEW axis \in Axis, NEW l, NEW r, SoundOrNil(l), SoundOrNil(r)
  PROVE  /\ Sound(Node(p, axis, l, r))
         /\ l = Nil /\ r = Nil => Fresh(Node(p, axis, l, r))
<1> DEFINE t == [pt |-> p, axis |-> axis, left |-> l, right |-> r,
                 size |-> 1, invalid |-> 0, downdel |-> 0,
                 pdel |-> FALSE, tdel |-> FALSE, pdown |-> FALSE, tdown |-> FALSE,
                 pushL |-> FALSE, pushR |-> FALSE, lo |-> p, hi |-> p]
           u == Update(t)
<1>1. /\ IsNode(t) /\ t.left = l /\ t.right = r
      /\ t.pdel = FALSE /\ t.pdown = FALSE /\ t.pushL = FALSE /\ t.pushR = FALSE
  BY DEF IsNode, Fields
<1>2. Node(p, axis, l, r) = u
  BY DEF Node
<1> HIDE DEF t
<1>3. Ready(t)
  BY <1>1 DEF Ready, SoundOrNil, Sons
<1>4. IsUpdate(u, t)
  <2>1. \A s \in Sons(t) : IsNode(s)
    BY <1>3, SoundIsNode DEF Ready
  <2> QED
    BY <1>1, <2>1, UpdateFields
<1>5. Sound(u)
  BY <1>3, UpdateKeepsTree
<1> HIDE DEF u
<1>6. l = Nil /\ r = Nil => Fresh(u)
  <2>1. ASSUME l = Nil, r = Nil PROVE u.size = 1 /\ u.invalid = 0 /\ u.downdel = 0
    <3>1. /\ u.size = 1 + Size(Nil) + Size(Nil)
          /\ u.invalid = One(FALSE) + Invalid(Nil) + Invalid(Nil)
          /\ u.downdel = One(FALSE) + Downdel(Nil) + Downdel(Nil)
      BY <1>1, <1>4, <2>1 DEF IsUpdate
    <3> QED
      BY <3>1 DEF Size, Invalid, Downdel, One
  <2>2. ~u.pdel /\ ~u.tdel /\ ~u.pdown /\ ~u.tdown /\ u.left = l /\ u.right = r
    BY <1>1, <1>4 DEF IsUpdate
  <2> QED
    BY <2>1, <2>2 DEF Fresh
<1> QED
  BY <1>2, <1>5, <1>6

\* Delete_by_range's work at one node, on its own point and with the sons the
\* recursion returned, leaves a sound tree.
THEOREM DeletePointKeepsTree ==
  ASSUME NEW t, Sound(t), NEW b, NEW d \in BOOLEAN, NEW l, NEW r,
         SoundOrNil(l), t.left = Nil => l = Nil,
         SoundOrNil(r), t.right = Nil => r = Nil
  PROVE  Sound(Update(DeletePoint(Push_Down(t), b, d, l, r)))
<1> DEFINE q == Push_Down(t)
           u == DeletePoint(q, b, d, l, r)
           hit == ~q.pdel /\ InBox(q.pt, b)
<1>1. /\ IsNode(q) /\ Inherits(q)
      /\ q.left = Nil <=> t.left = Nil
      /\ q.right = Nil <=> t.right = Nil
      /\ q.pushL => q.left = Nil
      /\ q.pushR => q.right = Nil
  BY OpenedNode
<1> HIDE DEF q
<1>2. u = [q EXCEPT !.pdel = @ \/ hit, !.pdown = @ \/ (hit /\ d), !.left = l, !.right = r]
  BY DEF DeletePoint
<1>3. hit \in BOOLEAN
  BY DEF InBox
<1> HIDE DEF u, hit
<1>4. /\ IsNode(u) /\ u.left = l /\ u.right = r
      /\ u.pdel = (q.pdel \/ hit) /\ u.pdown = (q.pdown \/ (hit /\ d))
      /\ u.pushL = q.pushL /\ u.pushR = q.pushR
  BY <1>1, <1>2, <1>3 DEF IsNode, Fields
<1>5. Ready(u)
  BY <1>1, <1>4 DEF Ready, SoundOrNil, Sons, Inherits
<1>6. Sound(Update(u))
  BY <1>5, UpdateKeepsTree
<1> QED
  BY <1>6 DEF u, q

\* Add_by_point's work at one node, with the son the recursion returned, leaves a
\* sound tree, whether that son was there before or is a new leaf.
THEOREM AddKeepsTree ==
  ASSUME NEW t, Sound(t), NEW x, Sound(x)
  PROVE  LET r == Push_Down(t) IN
         /\ (t.left = Nil => Fresh(x)) => Sound(Update([r EXCEPT !.left = x]))
         /\ (t.right = Nil => Fresh(x)) => Sound(Update([r EXCEPT !.right = x]))
<1> DEFINE r == Push_Down(t)
           u == [r EXCEPT !.left = x]
           v == [r EXCEPT !.right = x]
<1>1. /\ IsNode(r) /\ Inherits(r)
      /\ r.left = Nil <=> t.left = Nil
      /\ r.right = Nil <=> t.right = Nil
      /\ r.pushL => r.left = Nil
      /\ r.pushR => r.right = Nil
      /\ SoundOrNil(r.left) /\ SoundOrNil(r.right)
  BY OpenedNode
<1> HIDE DEF r
<1>2. /\ IsNode(u) /\ u.left = x /\ u.right = r.right
      /\ u.pdel = r.pdel /\ u.pdown = r.pdown /\ u.pushL = r.pushL /\ u.pushR = r.pushR
  BY <1>1 DEF IsNode, Fields
<1>3. /\ IsNode(v) /\ v.left = r.left /\ v.right = x
      /\ v.pdel = r.pdel /\ v.pdown = r.pdown /\ v.pushL = r.pushL /\ v.pushR = r.pushR
  BY <1>1 DEF IsNode, Fields
<1> HIDE DEF u, v
<1>4. (t.left = Nil => Fresh(x)) => Ready(u)
  BY <1>1, <1>2 DEF Ready, SoundOrNil, Sons, Inherits
<1>5. (t.right = Nil => Fresh(x)) => Ready(v)
  BY <1>1, <1>3 DEF Ready, SoundOrNil, Sons, Inherits
<1>6. /\ (t.left = Nil => Fresh(x)) => Sound(Update(u))
      /\ (t.right = Nil => Fresh(x)) => Sound(Update(v))
  BY <1>4, <1>5, UpdateKeepsTree
<1> QED
  BY <1>6 DEF u, v, r

\* What a node tells its father is the same of x and s.
Alike(x, s) ==
  /\ x = Nil <=> s = Nil
  /\ Size(x) = Size(s) /\ Invalid(x) = Invalid(s) /\ Downdel(x) = Downdel(s)
  /\ x # Nil => x.tdel = s.tdel /\ x.tdown = s.tdown /\ x.lo = s.lo /\ x.hi = s.hi

\* A search that opens a node and goes down leaves a sound tree with the counters,
\* marks and box it had, without an Update on the way up.
THEOREM SearchKeepsTree ==
  ASSUME NEW t, Sound(t), NEW l, NEW r,
         SoundOrNil(l), Alike(l, Push_Down(t).left),
         SoundOrNil(r), Alike(r, Push_Down(t).right)
  PROVE  LET u == [Push_Down(t) EXCEPT !.left = l, !.right = r] IN Sound(u) /\ Alike(u, t)
<1> DEFINE q == Push_Down(t)
           u == [q EXCEPT !.left = l, !.right = r]
           w == Push_Down(u)
<1>1. /\ IsNode(q) /\ Inherits(q)
      /\ q.pushL => q.left = Nil
      /\ q.pushR => q.right = Nil
  BY OpenedNode
<1>2. IsNode(t) /\ t # Nil /\ IsPushDown(q, t) /\ Numbers(q) /\ Marks(q) /\ Boxed(q)
      /\ Tight(q)
  <2>1. Settled(t) /\ IsNode(t) /\ t # Nil /\ \A s \in Sons(t) : IsNode(s)
    BY SoundMeans, SoundIsNode DEF Settled
  <2> QED
    BY <2>1, SettledMeans, PushDownFields
<1> HIDE DEF q
<1>3. /\ IsNode(u) /\ u.left = l /\ u.right = r
      /\ u.pt = q.pt /\ u.lo = q.lo /\ u.hi = q.hi
      /\ u.size = q.size /\ u.invalid = q.invalid /\ u.downdel = q.downdel
      /\ u.pushL = q.pushL /\ u.pushR = q.pushR
  BY <1>1 DEF IsNode, Fields
<1>4. u.pdel = q.pdel /\ u.pdown = q.pdown /\ u.tdel = q.tdel /\ u.tdown = q.tdown
  BY <1>1 DEF IsNode, Fields
<1>5. Alike(l, q.left) /\ Alike(r, q.right)
  BY DEF q
<1> HIDE DEF u
<1>6. \A s \in Sons(u) : Sound(s) /\ IsNode(s)
  BY <1>3, SoundIsNode DEF Sons, SoundOrNil
<1>7. IsPushDown(w, u)
  BY <1>3, PushDownFields
<1> HIDE DEF w
<1>8. w.left = l /\ w.right = r
  BY <1>1, <1>3, <1>5, <1>7 DEF IsPushDown, Alike
<1>9. OwesNothing(u)
  BY <1>1, <1>3, <1>5 DEF OwesNothing, Alike
<1>10. Inherits(u)
  BY <1>1, <1>3, <1>4 DEF Inherits
<1>11. Numbers(w)
  BY <1>2, <1>3, <1>4, <1>5, <1>7, <1>8 DEF Numbers, IsPushDown, Alike
<1>12. Marks(w)
  BY <1>2, <1>4, <1>5, <1>7, <1>8 DEF Marks, IsPushDown, Alike, Sons
<1>13. Boxed(w)
  BY <1>2, <1>3, <1>4, <1>5, <1>7, <1>8 DEF Boxed, Within, IsPushDown, Alike, Sons
<1>14. Tight(w)
  <2>1. w.lo = q.lo /\ w.hi = q.hi /\ w.pt = q.pt /\ w.pdel = q.pdel /\ w.tdel = q.tdel
    BY <1>3, <1>4, <1>7 DEF IsPushDown
  <2>2. ASSUME NEW s \in Sons(q)
        PROVE  \E x \in Sons(w) : x.tdel = s.tdel /\ x.lo = s.lo /\ x.hi = s.hi
    BY <1>5, <1>8 DEF Sons, Alike
  <2> HIDE DEF Sons
  <2> QED
    BY <1>2, <2>1, <2>2 DEF Tight
<1>15. Settled(u)
  BY <1>3, <1>6, <1>9, <1>10, <1>11, <1>12, <1>13, <1>14, SettledMeans DEF w
<1>16. Sound(u)
  <2>1. Sons(w) = Sons(u)
    BY <1>3, <1>8 DEF Sons
  <2> QED
    BY <1>6, <1>15, <2>1, SoundMeans DEF w
<1>17. Alike(u, t)
  <2>1. u # Nil
    BY <1>3, NodeIsNotNil
  <2> QED
    BY <1>2, <1>3, <1>4, <2>1 DEF Alike, IsPushDown, Size, Invalid, Downdel
<1> QED
  BY <1>16, <1>17 DEF u, q

(***************************************************************************)
(* The recursive functions: each unfolds over the two opened sons.         *)
(***************************************************************************)
\* Strong induction, with the numbers that have the property as a set.
LEMMA Induction ==
  ASSUME NEW G \in SUBSET Nat,
         \A n \in Nat : (\A m \in Nat : m < n => m \in G) => n \in G
  PROVE  \A n \in Nat : n \in G
<1> DEFINE B == Nat \ G
<1>1. SUFFICES ASSUME B # {} PROVE FALSE
  OBVIOUS
<1> DEFINE R == { ss \in Nat \X Nat : ss[1] < ss[2] }
<1>2. IsWellFoundedOn(R, Nat)
  BY NatLessThanWellFounded DEF OpToRel
<1> HIDE DEF R
<1>3. PICK x \in B : \A y \in B : ~(<<y, x>> \in R)
  BY <1>1, <1>2, WFMin
<1>4. ASSUME NEW y \in Nat, y < x PROVE y \in G
  <2>1. <<y, x>> \in R
    BY <1>4 DEF R
  <2> QED
    BY <1>3, <2>1
<1> QED
  BY <1>3, <1>4

\* The counters of a tree follow from its sons'.
LEMMA TreeNumbers ==
  ASSUME NEW t, Sound(t)
  PROVE  LET r == Push_Down(t) IN
         /\ SoundOrNil(r.left) /\ SoundOrNil(r.right)
         /\ t # Nil /\ IsPushDown(r, t) /\ IsNode(t) /\ IsNode(r)
         /\ t.size \in Nat /\ t.invalid \in Nat
         /\ Size(r.left) \in Nat /\ Size(r.right) \in Nat
         /\ Invalid(r.left) \in Nat /\ Invalid(r.right) \in Nat
         /\ t.size = 1 + Size(r.left) + Size(r.right)
         /\ t.invalid = One(t.pdel) + Invalid(r.left) + Invalid(r.right)
<1> DEFINE r == Push_Down(t)
<1>1. Settled(t) /\ SoundOrNil(r.left) /\ SoundOrNil(r.right) /\ IsNode(r)
  BY SoundMeans, OpenedNode
<1>2. IsNode(t) /\ \A s \in Sons(t) : IsNode(s)
  BY <1>1 DEF Settled
<1>3. IsPushDown(r, t) /\ Numbers(r)
  BY <1>1, <1>2, PushDownFields, SettledMeans
<1>4. (r.left = Nil \/ IsNode(r.left)) /\ (r.right = Nil \/ IsNode(r.right))
  BY <1>2, OpenedSons
<1> HIDE DEF r
<1>5. t # Nil /\ t.size \in Nat /\ t.invalid \in Nat
  BY <1>2, NodeIsNotNil DEF IsNode
<1>6. /\ Size(r.left) \in Nat /\ Size(r.right) \in Nat
      /\ Invalid(r.left) \in Nat /\ Invalid(r.right) \in Nat
  BY <1>4, SizesAreNat
<1>7. /\ t.size = 1 + Size(r.left) + Size(r.right)
      /\ t.invalid = One(t.pdel) + Invalid(r.left) + Invalid(r.right)
  BY <1>3 DEF IsPushDown, Numbers
<1> QED
  BY <1>1, <1>2, <1>3, <1>5, <1>6, <1>7 DEF r

\* The size of a tree is 0 exactly for the null pointer.
LEMMA SizeOfTree ==
  ASSUME NEW t, SoundOrNil(t)
  PROVE  Size(t) \in Nat /\ (t = Nil <=> Size(t) = 0)
BY TreeNumbers DEF Size, SoundOrNil

\* A visit of t finds trees, and with a tree the sons that it has once opened.
LEMMA VisitedTrees ==
  ASSUME NEW t, SoundOrNil(t)
  PROVE  /\ t \in Visited(t) /\ Nil \in Visited(t)
         /\ \A u \in Visited(t) : SoundOrNil(u) /\ Size(u) =< Size(t)
         /\ \A u \in Visited(t) \ {Nil} :
              Push_Down(u).left \in Visited(t) /\ Push_Down(u).right \in Visited(t)
<1> DEFINE N == Size(t)
           More(R) == R \cup UNION {{Push_Down(u).left, Push_Down(u).right} : u \in R \ {Nil}}
           Body(f) == [n \in 0..N |-> IF n = 0 THEN {t, Nil} ELSE More(f[n - 1])]
           reach == CHOOSE f : f = Body(f)
<1>1. N \in Nat
  BY SizeOfTree
<1>2. Visited(t) = reach[N]
  BY DEF Visited
<1>3. \E f : f = Body(f)
  <2> DEFINE Up(f, n) == \A m \in 0..n : f[m] = Body(f)[m]
             G == {n \in Nat : n \in 0..N => \E f : DOMAIN f = 0..N /\ Up(f, n)}
  <2>1. ASSUME NEW n \in Nat, \A m \in Nat : m < n => m \in G PROVE n \in G
    <3>1. SUFFICES ASSUME n \in 0..N PROVE \E f : DOMAIN f = 0..N /\ Up(f, n)
      OBVIOUS
    <3>2. CASE n = 0
      <4> DEFINE f == [m \in 0..N |-> {t, Nil}]
      <4>1. Up(f, n)
        BY <1>1, <3>2
      <4> QED
        BY <4>1
    <3>3. CASE n # 0
      <4>1. n - 1 \in G /\ n - 1 \in 0..N
        <5> HIDE DEF G, N
        <5>1. n - 1 \in Nat /\ n - 1 < n /\ n - 1 \in 0..N
          BY <1>1, <3>1, <3>3
        <5> QED
          BY <2>1, <5>1
      <4>2. PICK f : DOMAIN f = 0..N /\ Up(f, n - 1)
        BY <4>1
      <4> DEFINE g == Body(f)
      <4>3. \A m \in 0..n : m # 0 => m - 1 \in 0..(n - 1) /\ m - 1 \in 0..N /\ m \in 0..N
        BY <1>1, <3>1
      <4>4. \A m \in 0..(n - 1) : g[m] = f[m]
        BY <4>2
      <4>5. \A m \in 0..n : g[m] = Body(g)[m]
        <5> HIDE DEF More
        <5>1. \A m \in 0..n : m # 0 => g[m] = More(f[m - 1])
          BY <4>3
        <5>2. \A m \in 0..n : m # 0 => Body(g)[m] = More(g[m - 1])
          BY <4>3
        <5>3. g[0] = {t, Nil} /\ Body(g)[0] = {t, Nil}
          BY <1>1
        <5> HIDE DEF g, Body
        <5> QED
          BY <4>3, <4>4, <5>1, <5>2, <5>3
      <4>6. DOMAIN g = 0..N /\ Up(g, n)
        BY <4>5
      <4> QED
        BY <4>6
    <3> QED
      BY <3>2, <3>3
  <2>2. \A n \in Nat : n \in G
    <3> HIDE DEF G
    <3>1. G \in SUBSET Nat
      BY DEF G
    <3> QED
      BY <2>1, <3>1, Induction
  <2>3. PICK f : DOMAIN f = 0..N /\ Up(f, N)
    <3>1. N \in G /\ N \in 0..N
      <4> HIDE DEF G, N
      <4> QED
        BY <1>1, <2>2
    <3> HIDE DEF N, Up
    <3> QED
      BY <3>1 DEF G
  <2> DEFINE g == Body(f)
  <2>4. \A m \in 0..N : g[m] = f[m]
    BY <2>3
  <2>5. \A m \in 0..N : m # 0 => m - 1 \in 0..N
    BY <1>1
  <2>6. g = Body(g)
    <3> HIDE DEF More
    <3> QED
      BY <2>4, <2>5
  <2> QED
    BY <2>6
<1>4. reach = Body(reach)
  BY <1>3
<1> HIDE DEF reach
<1>5. reach[0] = {t, Nil} /\ \A n \in Nat : n + 1 =< N => reach[n + 1] = More(reach[n])
  <2>1. 0 \in 0..N /\ \A n \in Nat : n + 1 =< N => n + 1 \in 0..N /\ n + 1 # 0 /\ (n + 1) - 1 = n
    BY <1>1
  <2> HIDE DEF More
  <2> QED
    BY <1>4, <2>1
\* What is found at depth n is smaller than t by n.
<1> DEFINE Ok(n) == LET R == reach[n] IN
             /\ t \in R /\ Nil \in R
             /\ \A u \in R : SoundOrNil(u) /\ Size(u) =< N
             /\ \A u \in R \ {Nil} : Size(u) + n =< N \/ (Push_Down(u).left \in R /\ Push_Down(u).right \in R)
           G == {n \in Nat : n =< N => Ok(n)}
<1>6. ASSUME NEW n \in Nat, \A m \in Nat : m < n => m \in G PROVE n \in G
  <2>1. SUFFICES ASSUME n =< N PROVE Ok(n)
    OBVIOUS
  <2>2. CASE n = 0
    <3>1. reach[n] = {t, Nil} /\ Size(t) + n =< N /\ Size(t) =< N /\ Size(Nil) =< N
      BY <1>1, <1>5, <2>2 DEF Size
    <3> QED
      BY <3>1 DEF SoundOrNil
  <2>3. CASE n # 0
    <3> DEFINE m == n - 1
               Q == reach[m]
               R == reach[n]
    <3>1. m \in Nat /\ m < n /\ n = m + 1 /\ m =< N
      BY <1>1, <2>1, <2>3
    <3>2. Ok(m)
      BY <1>6, <3>1
    <3>3. R = More(Q)
      BY <1>5, <2>1, <3>1
    <3> HIDE DEF m, Q, R
    <3>4. /\ t \in Q /\ Nil \in Q
          /\ \A u \in Q : SoundOrNil(u) /\ Size(u) =< N
          /\ \A u \in Q \ {Nil} : Size(u) + m =< N \/ (Push_Down(u).left \in Q /\ Push_Down(u).right \in Q)
      BY <3>2 DEF Q
    <3>5. ASSUME NEW u \in Q \ {Nil}
          PROVE  LET r == Push_Down(u) IN
                 /\ SoundOrNil(r.left) /\ SoundOrNil(r.right)
                 /\ Size(r.left) < Size(u) /\ Size(r.right) < Size(u)
                 /\ Size(r.left) \in Nat /\ Size(r.right) \in Nat /\ Size(u) \in Nat
      BY <3>4, TreeNumbers DEF SoundOrNil, Size
    <3>6. ASSUME NEW u \in R
          PROVE  u \in Q \/ \E v \in Q \ {Nil} : u = Push_Down(v).left \/ u = Push_Down(v).right
      BY <3>3
    <3>7. Q \subseteq R /\ \A u \in Q \ {Nil} : Push_Down(u).left \in R /\ Push_Down(u).right \in R
      BY <3>3
    <3>8. \A u \in R : SoundOrNil(u) /\ Size(u) =< N
      <4> HIDE DEF N
      <4> QED
        BY <1>1, <3>4, <3>5, <3>6
    <3>9. ASSUME NEW u \in R \ {Nil}
          PROVE  Size(u) + n =< N \/ (Push_Down(u).left \in R /\ Push_Down(u).right \in R)
      <4>1. CASE u \in Q
        BY <3>7, <4>1
      <4>2. CASE u \notin Q
        <5>1. PICK v \in Q \ {Nil} : u = Push_Down(v).left \/ u = Push_Down(v).right
          BY <3>6, <4>2
        <5>2. Size(v) + m =< N
          BY <3>4, <4>2, <5>1
        <5>3. Size(u) < Size(v) /\ Size(u) \in Nat /\ Size(v) \in Nat
          BY <3>5, <5>1
        <5>4. Size(u) + n =< N
          <6> HIDE DEF N
          <6> QED
            BY <1>1, <3>1, <5>2, <5>3
        <5> QED
          BY <5>4
      <4> QED
        BY <4>1, <4>2
    <3> QED
      BY <3>4, <3>7, <3>8, <3>9 DEF R
  <2> QED
    BY <2>2, <2>3
<1>7. Ok(N)
  <2> HIDE DEF G
  <2>1. G \in SUBSET Nat
    BY DEF G
  <2>2. \A n \in Nat : n \in G
    BY <1>6, <2>1, Induction
  <2> HIDE DEF Ok, N
  <2>3. N =< N
    BY <1>1
  <2> QED
    BY <1>1, <2>2, <2>3 DEF G
<1>8. ASSUME NEW u \in reach[N] \ {Nil} PROVE ~(Size(u) + N =< N)
  <2>1. Size(u) \in Nat /\ Size(u) # 0
    BY <1>7, SizeOfTree
  <2> HIDE DEF N
  <2> QED
    BY <1>1, <2>1
<1> QED
  BY <1>2, <1>7, <1>8

\* What the recursive functions of KdTree say of the tree u, given what they say
\* of the sons x and y that it has once opened.
CountNode(u, x, y) == 1 + x + y
FlatNode(u, x, y) ==
  LET r == Push_Down(u) IN
  [t    |-> Rejoin(r, x.t, y.t),
   live |-> (IF r.pdel THEN <<>> ELSE <<r.pt>>) \o x.live \o y.live,
   dead |-> x.dead \o y.dead \o (IF r.pdel /\ ~r.pdown THEN <<r.pt>> ELSE <<>>)]
OpenNode(u, x, y) ==
  {u} \cup Rejoined(Push_Down(u), x, y)
DeleteNode(u, b, is_downsample, x, y) ==
  LET r == Push_Down(u) IN
  IF u.tdel THEN {Result(u, <<>>)}
  ELSE IF Outside(r, b) THEN {Result(r, <<>>)}
  ELSE IF Covers(b, r) THEN {Result(DeleteAll(r, is_downsample), <<>>)}
  ELSE DeleteCut(r, b, is_downsample, x, y)
AddNode(u, p, x, y) ==
  LET r == Push_Down(u)
      Son(s, z) == IF s = Nil THEN {Result(Node(p, (r.axis + 1) % 3, Nil, Nil), <<>>)} ELSE z IN
  IF p[r.axis] < r.pt[r.axis]
  THEN UNION {Leave([r EXCEPT !.left = v.t], v.dead) : v \in Son(r.left, x)}
  ELSE UNION {Leave([r EXCEPT !.right = v.t], v.dead) : v \in Son(r.right, y)}
RangeNode(u, b, x, y) ==
  LET r == Push_Down(u) IN
  IF Outside(r, b) THEN [t |-> r, live |-> <<>>]
  ELSE IF Covers(b, r) THEN LET f == flatten(r) IN [t |-> f.t, live |-> f.live]
  ELSE [t    |-> Rejoin(r, x.t, y.t),
        live |-> (IF InBox(r.pt, b) /\ ~r.pdel THEN <<r.pt>> ELSE <<>>) \o x.live \o y.live]

SearchNode(u, k, p, max, x, y) ==
  LET r == Push_Down(u) IN
  [q \in Seq(Entry) |->
    IF u.tdel \/ calc_box_dist(u, p) > max THEN [t |-> u, q |-> q]
    ELSE VisitSons(r, x, y, p, k, OwnPoint(r, p, k, max, q))]

\* The function that k calls: its name, and its arguments but for the tree.
Base(k) ==
  CASE k.name = "NodeCount" -> 0
    [] k.name = "flatten" -> [t |-> Nil, live |-> <<>>, dead |-> <<>>]
    [] k.name = "Opened" -> {Nil}
    [] k.name = "Delete_by_range" -> {Result(Nil, <<>>)}
    [] k.name = "Add_by_point" -> {}
    [] k.name = "Search_by_range" -> [t |-> Nil, live |-> <<>>]
    [] k.name = "Search" -> [q \in Seq(Entry) |-> [t |-> Nil, q |-> q]]
Join(k, u, x, y) ==
  CASE k.name = "NodeCount" -> CountNode(u, x, y)
    [] k.name = "flatten" -> FlatNode(u, x, y)
    [] k.name = "Opened" -> OpenNode(u, x, y)
    [] k.name = "Delete_by_range" -> DeleteNode(u, k.box, k.down, x, y)
    [] k.name = "Add_by_point" -> AddNode(u, k.pt, x, y)
    [] k.name = "Search_by_range" -> RangeNode(u, k.box, x, y)
    [] k.name = "Search" -> SearchNode(u, k.k, k.pt, k.max, x, y)
Step(k, f, u) ==
  IF u = Nil THEN Base(k) ELSE Join(k, u, f[Push_Down(u).left], f[Push_Down(u).right])

\* f is the function that k calls, on the trees of T.
Follows(k, T, f) == f = [u \in T |-> Step(k, f, u)]
Walk(k, t) == (CHOOSE f : Follows(k, Visited(t), f))[t]

\* One step of a recursive walk reads nothing but the results for the two sons.
LEMMA StepIsLocal ==
  ASSUME NEW k, NEW f, NEW g, NEW u,
         u # Nil => /\ f[Push_Down(u).left] = g[Push_Down(u).left]
                    /\ f[Push_Down(u).right] = g[Push_Down(u).right]
  PROVE  Step(k, f, u) = Step(k, g, u)
BY DEF Step

\* The sons of an opened tree are smaller.
LEMMA SmallerSons ==
  ASSUME NEW u, Sound(u)
  PROVE  LET r == Push_Down(u) IN
         /\ Size(u) \in Nat /\ Size(r.left) \in Nat /\ Size(r.right) \in Nat
         /\ Size(r.left) < Size(u) /\ Size(r.right) < Size(u)
         /\ SoundOrNil(r.left) /\ SoundOrNil(r.right)
BY TreeNumbers DEF Size

\* Two tables of a walk's results agree wherever both are defined.
LEMMA StepsAgree ==
  ASSUME NEW k, NEW s, SoundOrNil(s), NEW t, SoundOrNil(t),
         NEW f, Follows(k, Visited(s), f), NEW g, Follows(k, Visited(t), g)
  PROVE  \A u \in Visited(s) \cap Visited(t) : f[u] = g[u]
<1> DEFINE D == Visited(s) \cap Visited(t)
           G == {n \in Nat : \A u \in D : Size(u) = n => f[u] = g[u]}
<1>1. \A u \in D : SoundOrNil(u) /\ Size(u) \in Nat
  BY VisitedTrees, SizeOfTree
<1>2. ASSUME NEW n \in Nat, \A m \in Nat : m < n => m \in G, NEW u \in D, Size(u) = n
      PROVE  f[u] = g[u]
  <2>1. f[u] = Step(k, f, u) /\ g[u] = Step(k, g, u)
    BY DEF Follows
  <2>2. ASSUME u # Nil
        PROVE  /\ f[Push_Down(u).left] = g[Push_Down(u).left]
               /\ f[Push_Down(u).right] = g[Push_Down(u).right]
    <3>1. Sound(u)
      BY <1>1, <2>2 DEF SoundOrNil
    <3>2. Push_Down(u).left \in D /\ Push_Down(u).right \in D
      BY <2>2, VisitedTrees
    <3>3. \A m \in Nat : m < Size(u) => m \in G
      BY <1>2
    <3> QED
      BY <3>1, <3>2, <3>3, SmallerSons
  <2> QED
    BY <2>1, <2>2, StepIsLocal
<1>3. \A n \in Nat : n \in G
  <2>1. G \in SUBSET Nat
    OBVIOUS
  <2>2. \A n \in Nat : (\A m \in Nat : m < n => m \in G) => n \in G
    BY <1>2
  <2> HIDE DEF G
  <2> QED
    BY <2>1, <2>2, Induction
<1> QED
  BY <1>1, <1>3

\* Every tree has a table of a walk's results.
LEMMA StepsExist ==
  ASSUME NEW k, NEW t, SoundOrNil(t)
  PROVE  \E f : Follows(k, Visited(t), f)
<1> DEFINE T == Visited(t)
           Up(f, n) == \A u \in T : Size(u) =< n => f[u] = Step(k, f, u)
           G == {n \in Nat : \E f : DOMAIN f = T /\ Up(f, n)}
           More(f) == [u \in T |-> Step(k, f, u)]
<1>1. \A u \in T : SoundOrNil(u) /\ Size(u) \in Nat
  BY VisitedTrees, SizeOfTree
<1>2. ASSUME NEW f, NEW n \in Nat, \A u \in T : Size(u) < n => f[u] = Step(k, f, u)
      PROVE  Up(More(f), n)
  <2> SUFFICES ASSUME NEW u \in T, Size(u) =< n PROVE More(f)[u] = Step(k, More(f), u)
    OBVIOUS
  <2>1. ASSUME NEW v \in T, Size(v) < n PROVE More(f)[v] = f[v]
    BY <1>2, <2>1
  <2>2. ASSUME u # Nil
        PROVE  /\ f[Push_Down(u).left] = More(f)[Push_Down(u).left]
               /\ f[Push_Down(u).right] = More(f)[Push_Down(u).right]
    <3>1. Sound(u)
      BY <1>1, <2>2 DEF SoundOrNil
    <3>2. Push_Down(u).left \in T /\ Push_Down(u).right \in T
      BY <2>2, VisitedTrees
    <3>3. Size(Push_Down(u).left) < n /\ Size(Push_Down(u).right) < n
      BY <3>1, SmallerSons
    <3> HIDE DEF More, T
    <3> QED
      BY <2>1, <3>2, <3>3
  <2>3. Step(k, f, u) = Step(k, More(f), u)
    <3> HIDE DEF More
    <3> QED
      BY <2>2, StepIsLocal
  <2> QED
    BY <2>3
<1>3. ASSUME NEW n \in Nat, \A m \in Nat : m < n => m \in G PROVE n \in G
  <2>1. \E f : \A u \in T : Size(u) < n => f[u] = Step(k, f, u)
    <3>1. CASE n = 0
      <4>1. \A u \in T : ~(Size(u) < n)
        BY <1>1, <3>1
      <4> QED
        BY <4>1
    <3>2. CASE n # 0
      <4>1. n - 1 \in G
        <5> HIDE DEF G
        <5>1. n - 1 \in Nat /\ n - 1 < n
          BY <3>2
        <5> QED
          BY <1>3, <5>1
      <4>2. PICK f : Up(f, n - 1)
        BY <4>1
      <4>3. \A u \in T : Size(u) < n => Size(u) =< n - 1
        BY <1>1
      <4> QED
        BY <4>2, <4>3
    <3> QED
      BY <3>1, <3>2
  <2>2. PICK f : \A u \in T : Size(u) < n => f[u] = Step(k, f, u)
    BY <2>1
  <2>3. Up(More(f), n)
    BY <1>2, <2>2
  <2>4. DOMAIN More(f) = T
    OBVIOUS
  <2> HIDE DEF More, Up
  <2> QED
    BY <2>3, <2>4
<1>4. \A n \in Nat : n \in G
  <2>1. G \in SUBSET Nat
    OBVIOUS
  <2> HIDE DEF G
  <2> QED
    BY <1>3, <2>1, Induction
<1>5. PICK f : DOMAIN f = T /\ Up(f, Size(t))
  <2>1. Size(t) \in Nat
    BY SizeOfTree
  <2> QED
    BY <1>4, <2>1
<1>6. \A u \in T : Size(u) =< Size(t)
  BY VisitedTrees
<1>7. \A u \in T : f[u] = More(f)[u]
  BY <1>5, <1>6
<1>8. More(f) = More(More(f))
  <2>1. Up(More(f), Size(t))
    <3>1. Size(t) \in Nat
      BY SizeOfTree
    <3>2. \A u \in T : Size(u) < Size(t) => f[u] = Step(k, f, u)
      BY <1>5, <1>6
    <3> HIDE DEF More, Up
    <3> QED
      BY <1>2, <3>1, <3>2
  <2> QED
    BY <1>6, <2>1
<1> QED
  BY <1>8 DEF Follows

\* Any function that follows k says the same of t.
LEMMA WalkIs ==
  ASSUME NEW k, NEW t, SoundOrNil(t), NEW f, Follows(k, Visited(t), f)
  PROVE  f[t] = Walk(k, t)
<1> DEFINE g == CHOOSE h : Follows(k, Visited(t), h)
<1>1. Follows(k, Visited(t), g)
  OBVIOUS
<1>2. g[t] = Walk(k, t)
  BY DEF Walk
<1> HIDE DEF g
<1> QED
  BY <1>1, <1>2, StepsAgree, VisitedTrees

\* A walk over a tree unfolds into its results for the two opened sons.
LEMMA WalkUnfolds ==
  ASSUME NEW k, NEW t, SoundOrNil(t)
  PROVE  Walk(k, t) = IF t = Nil THEN Base(k)
                      ELSE Join(k, t, Walk(k, Push_Down(t).left), Walk(k, Push_Down(t).right))
<1>1. PICK f : Follows(k, Visited(t), f)
  BY StepsExist
<1>2. Walk(k, t) = Step(k, f, t)
  BY <1>1, WalkIs, VisitedTrees DEF Follows
<1>3. ASSUME NEW s \in Visited(t) PROVE f[s] = Walk(k, s)
  <2>1. SoundOrNil(s)
    BY VisitedTrees
  <2>2. PICK g : Follows(k, Visited(s), g)
    BY <2>1, StepsExist
  <2>3. f[s] = g[s]
    BY <1>1, <2>1, <2>2, StepsAgree, VisitedTrees
  <2> QED
    BY <2>1, <2>2, <2>3, WalkIs
<1> QED
  BY <1>2, <1>3, VisitedTrees DEF Step

\* The number of nodes, one level unfolded.
LEMMA NodeCountUnfolds ==
  ASSUME NEW t, SoundOrNil(t)
  PROVE  NodeCount(t) = IF t = Nil THEN 0
         ELSE CountNode(t, NodeCount(Push_Down(t).left), NodeCount(Push_Down(t).right))
<1> DEFINE k == [name |-> "NodeCount"]
<1>1. ASSUME NEW s, SoundOrNil(s) PROVE NodeCount(s) = Walk(k, s)
  <2> DEFINE At(f, u) ==
               IF u = Nil THEN 0 ELSE 1 + f[Push_Down(u).left] + f[Push_Down(u).right]
             Body(f) == [u \in Visited(s) |-> At(f, u)]
             g == CHOOSE f : f = Body(f)
  <2>1. NodeCount(s) = g[s]
    BY DEF NodeCount
  <2>2. ASSUME NEW f PROVE Body(f) = [u \in Visited(s) |-> Step(k, f, u)]
    <3>1. ASSUME NEW u PROVE Step(k, f, u) = IF u = Nil THEN 0
                ELSE CountNode(u, f[Push_Down(u).left], f[Push_Down(u).right])
      BY DEF Step, Base, Join
    <3>2. ASSUME NEW u PROVE At(f, u) = IF u = Nil THEN 0
                ELSE CountNode(u, f[Push_Down(u).left], f[Push_Down(u).right])
      BY Zenon DEF CountNode
    <3> HIDE DEF At, k
    <3>3. ASSUME NEW u PROVE At(f, u) = Step(k, f, u)
      BY <3>1, <3>2
    <3> QED
      BY <3>3
  <2>3. PICK h : Follows(k, Visited(s), h)
    BY <1>1, StepsExist
  <2> HIDE DEF Body, k
  <2>4. h = Body(h)
    BY <2>2, <2>3 DEF Follows
  <2>5. g = Body(g)
    BY <2>4
  <2> HIDE DEF g
  <2>6. Follows(k, Visited(s), g)
    BY <2>2, <2>5 DEF Follows
  <2> QED
    BY <1>1, <2>1, <2>6, WalkIs
<1>2. NodeCount(t) = IF t = Nil THEN Base(k)
         ELSE Join(k, t, Walk(k, Push_Down(t).left), Walk(k, Push_Down(t).right))
  BY <1>1, WalkUnfolds
<1>3. t # Nil => /\ NodeCount(Push_Down(t).left) = Walk(k, Push_Down(t).left)
                /\ NodeCount(Push_Down(t).right) = Walk(k, Push_Down(t).right)
  BY <1>1, SmallerSons DEF SoundOrNil
<1> QED
  BY <1>2, <1>3 DEF Base, Join

\* flatten, one level unfolded.
LEMMA FlattenUnfolds ==
  ASSUME NEW t, SoundOrNil(t)
  PROVE  flatten(t) = IF t = Nil THEN [t |-> Nil, live |-> <<>>, dead |-> <<>>]
         ELSE FlatNode(t, flatten(Push_Down(t).left), flatten(Push_Down(t).right))
<1> DEFINE k == [name |-> "flatten"]
<1>1. ASSUME NEW s, SoundOrNil(s) PROVE flatten(s) = Walk(k, s)
  <2> DEFINE At(f, u) ==
               IF u = Nil THEN [t |-> Nil, live |-> <<>>, dead |-> <<>>]
               ELSE LET r == Push_Down(u)
                        a == f[r.left]
                        b == f[r.right] IN
                    [t    |-> Rejoin(r, a.t, b.t),
                     live |-> (IF r.pdel THEN <<>> ELSE <<r.pt>>) \o a.live \o b.live,
                     dead |-> a.dead \o b.dead \o (IF r.pdel /\ ~r.pdown THEN <<r.pt>> ELSE <<>>)]
             Body(f) == [u \in Visited(s) |-> At(f, u)]
             g == CHOOSE f : f = Body(f)
  <2>1. flatten(s) = g[s]
    BY DEF flatten
  <2>2. ASSUME NEW f PROVE Body(f) = [u \in Visited(s) |-> Step(k, f, u)]
    <3>1. ASSUME NEW u PROVE Step(k, f, u) = IF u = Nil THEN [t |-> Nil, live |-> <<>>, dead |-> <<>>]
                ELSE FlatNode(u, f[Push_Down(u).left], f[Push_Down(u).right])
      BY DEF Step, Base, Join
    <3>2. ASSUME NEW u PROVE At(f, u) = IF u = Nil THEN [t |-> Nil, live |-> <<>>, dead |-> <<>>]
                ELSE FlatNode(u, f[Push_Down(u).left], f[Push_Down(u).right])
      BY Zenon DEF FlatNode
    <3> HIDE DEF At, k
    <3>3. ASSUME NEW u PROVE At(f, u) = Step(k, f, u)
      BY <3>1, <3>2
    <3> QED
      BY <3>3
  <2>3. PICK h : Follows(k, Visited(s), h)
    BY <1>1, StepsExist
  <2> HIDE DEF Body, k
  <2>4. h = Body(h)
    BY <2>2, <2>3 DEF Follows
  <2>5. g = Body(g)
    BY <2>4
  <2> HIDE DEF g
  <2>6. Follows(k, Visited(s), g)
    BY <2>2, <2>5 DEF Follows
  <2> QED
    BY <1>1, <2>1, <2>6, WalkIs
<1>2. flatten(t) = IF t = Nil THEN Base(k)
         ELSE Join(k, t, Walk(k, Push_Down(t).left), Walk(k, Push_Down(t).right))
  BY <1>1, WalkUnfolds
<1>3. t # Nil => /\ flatten(Push_Down(t).left) = Walk(k, Push_Down(t).left)
                /\ flatten(Push_Down(t).right) = Walk(k, Push_Down(t).right)
  BY <1>1, SmallerSons DEF SoundOrNil
<1> QED
  BY <1>2, <1>3 DEF Base, Join

\* The trees that a nearest neighbour search may leave, one level unfolded.
LEMMA OpenedUnfolds ==
  ASSUME NEW t, SoundOrNil(t)
  PROVE  Opened(t) = IF t = Nil THEN {Nil}
         ELSE OpenNode(t, Opened(Push_Down(t).left), Opened(Push_Down(t).right))
<1> DEFINE k == [name |-> "Opened"]
<1>1. ASSUME NEW s, SoundOrNil(s) PROVE Opened(s) = Walk(k, s)
  <2> DEFINE At(f, u) ==
               IF u = Nil THEN {Nil}
               ELSE LET r == Push_Down(u) IN
                    {u} \cup Rejoined(r, f[r.left], f[r.right])
             Body(f) == [u \in Visited(s) |-> At(f, u)]
             g == CHOOSE f : f = Body(f)
  <2>1. Opened(s) = g[s]
    BY DEF Opened
  <2>2. ASSUME NEW f PROVE Body(f) = [u \in Visited(s) |-> Step(k, f, u)]
    <3>1. ASSUME NEW u PROVE Step(k, f, u) = IF u = Nil THEN {Nil}
                ELSE OpenNode(u, f[Push_Down(u).left], f[Push_Down(u).right])
      BY DEF Step, Base, Join
    <3>2. ASSUME NEW u PROVE At(f, u) = IF u = Nil THEN {Nil}
                ELSE OpenNode(u, f[Push_Down(u).left], f[Push_Down(u).right])
      BY Zenon DEF OpenNode
    <3> HIDE DEF At, k
    <3>3. ASSUME NEW u PROVE At(f, u) = Step(k, f, u)
      BY <3>1, <3>2
    <3> QED
      BY <3>3
  <2>3. PICK h : Follows(k, Visited(s), h)
    BY <1>1, StepsExist
  <2> HIDE DEF Body, k
  <2>4. h = Body(h)
    BY <2>2, <2>3 DEF Follows
  <2>5. g = Body(g)
    BY <2>4
  <2> HIDE DEF g
  <2>6. Follows(k, Visited(s), g)
    BY <2>2, <2>5 DEF Follows
  <2> QED
    BY <1>1, <2>1, <2>6, WalkIs
<1>2. Opened(t) = IF t = Nil THEN Base(k)
         ELSE Join(k, t, Walk(k, Push_Down(t).left), Walk(k, Push_Down(t).right))
  BY <1>1, WalkUnfolds
<1>3. t # Nil => /\ Opened(Push_Down(t).left) = Walk(k, Push_Down(t).left)
                /\ Opened(Push_Down(t).right) = Walk(k, Push_Down(t).right)
  BY <1>1, SmallerSons DEF SoundOrNil
<1> QED
  BY <1>2, <1>3 DEF Base, Join

\* Delete_by_range, one level unfolded.
LEMMA DeleteUnfolds ==
  ASSUME NEW b, NEW down, NEW t, SoundOrNil(t)
  PROVE  Delete_by_range(t, b, down) = IF t = Nil THEN {Result(Nil, <<>>)}
         ELSE DeleteNode(t, b, down, Delete_by_range(Push_Down(t).left, b, down),
                                   Delete_by_range(Push_Down(t).right, b, down))
<1> DEFINE k == [name |-> "Delete_by_range", box |-> b, down |-> down]
<1>1. ASSUME NEW s, SoundOrNil(s) PROVE Delete_by_range(s, b, down) = Walk(k, s)
  <2> DEFINE At(f, u) ==
               IF u = Nil THEN {Result(Nil, <<>>)}
               ELSE IF u.tdel THEN {Result(u, <<>>)}
               ELSE LET r == Push_Down(u) IN
                    IF Outside(r, b) THEN {Result(r, <<>>)}
                    ELSE IF Covers(b, r) THEN {Result(DeleteAll(r, down), <<>>)}
                    ELSE DeleteCut(r, b, down, f[r.left], f[r.right])
             Body(f) == [u \in Visited(s) |-> At(f, u)]
             g == CHOOSE f : f = Body(f)
  <2>1. Delete_by_range(s, b, down) = g[s]
    BY DEF Delete_by_range
  <2>2. ASSUME NEW f PROVE Body(f) = [u \in Visited(s) |-> Step(k, f, u)]
    <3>1. ASSUME NEW u PROVE Step(k, f, u) = IF u = Nil THEN {Result(Nil, <<>>)}
                ELSE DeleteNode(u, b, down, f[Push_Down(u).left], f[Push_Down(u).right])
      BY DEF Step, Base, Join
    <3>2. ASSUME NEW u PROVE At(f, u) = IF u = Nil THEN {Result(Nil, <<>>)}
                ELSE DeleteNode(u, b, down, f[Push_Down(u).left], f[Push_Down(u).right])
      BY Zenon DEF DeleteNode
    <3> HIDE DEF At, k
    <3>3. ASSUME NEW u PROVE At(f, u) = Step(k, f, u)
      BY <3>1, <3>2
    <3> QED
      BY <3>3
  <2>3. PICK h : Follows(k, Visited(s), h)
    BY <1>1, StepsExist
  <2> HIDE DEF Body, k
  <2>4. h = Body(h)
    BY <2>2, <2>3 DEF Follows
  <2>5. g = Body(g)
    BY <2>4
  <2> HIDE DEF g
  <2>6. Follows(k, Visited(s), g)
    BY <2>2, <2>5 DEF Follows
  <2> QED
    BY <1>1, <2>1, <2>6, WalkIs
<1>2. Delete_by_range(t, b, down) = IF t = Nil THEN Base(k)
         ELSE Join(k, t, Walk(k, Push_Down(t).left), Walk(k, Push_Down(t).right))
  BY <1>1, WalkUnfolds
<1>3. t # Nil => /\ Delete_by_range(Push_Down(t).left, b, down) = Walk(k, Push_Down(t).left)
                /\ Delete_by_range(Push_Down(t).right, b, down) = Walk(k, Push_Down(t).right)
  BY <1>1, SmallerSons DEF SoundOrNil
<1> QED
  BY <1>2, <1>3 DEF Base, Join

\* Add_by_point, one level unfolded.
LEMMA AddUnfolds ==
  ASSUME NEW p, NEW t, SoundOrNil(t)
  PROVE  Add_by_point(t, p) = IF t = Nil THEN {}
         ELSE AddNode(t, p, Add_by_point(Push_Down(t).left, p), Add_by_point(Push_Down(t).right, p))
<1> DEFINE k == [name |-> "Add_by_point", pt |-> p]
<1>1. ASSUME NEW s, SoundOrNil(s) PROVE Add_by_point(s, p) = Walk(k, s)
  <2> DEFINE At(f, u) ==
               IF u = Nil THEN {}
               ELSE LET r == Push_Down(u)
                        Son(x) == IF x = Nil THEN {Result(Node(p, (r.axis + 1) % 3, Nil, Nil), <<>>)}
                                             ELSE f[x] IN
                    IF p[r.axis] < r.pt[r.axis]
                    THEN UNION {Leave([r EXCEPT !.left = y.t], y.dead) : y \in Son(r.left)}
                    ELSE UNION {Leave([r EXCEPT !.right = y.t], y.dead) : y \in Son(r.right)}
             Body(f) == [u \in Visited(s) |-> At(f, u)]
             g == CHOOSE f : f = Body(f)
  <2>1. Add_by_point(s, p) = g[s]
    BY DEF Add_by_point
  <2>2. ASSUME NEW f PROVE Body(f) = [u \in Visited(s) |-> Step(k, f, u)]
    <3>1. ASSUME NEW u PROVE Step(k, f, u) = IF u = Nil THEN {}
                ELSE AddNode(u, p, f[Push_Down(u).left], f[Push_Down(u).right])
      BY DEF Step, Base, Join
    <3>2. ASSUME NEW u PROVE At(f, u) = IF u = Nil THEN {}
                ELSE AddNode(u, p, f[Push_Down(u).left], f[Push_Down(u).right])
      BY Zenon DEF AddNode
    <3> HIDE DEF At, k
    <3>3. ASSUME NEW u PROVE At(f, u) = Step(k, f, u)
      BY <3>1, <3>2
    <3> QED
      BY <3>3
  <2>3. PICK h : Follows(k, Visited(s), h)
    BY <1>1, StepsExist
  <2> HIDE DEF Body, k
  <2>4. h = Body(h)
    BY <2>2, <2>3 DEF Follows
  <2>5. g = Body(g)
    BY <2>4
  <2> HIDE DEF g
  <2>6. Follows(k, Visited(s), g)
    BY <2>2, <2>5 DEF Follows
  <2> QED
    BY <1>1, <2>1, <2>6, WalkIs
<1>2. Add_by_point(t, p) = IF t = Nil THEN Base(k)
         ELSE Join(k, t, Walk(k, Push_Down(t).left), Walk(k, Push_Down(t).right))
  BY <1>1, WalkUnfolds
<1>3. t # Nil => /\ Add_by_point(Push_Down(t).left, p) = Walk(k, Push_Down(t).left)
                /\ Add_by_point(Push_Down(t).right, p) = Walk(k, Push_Down(t).right)
  BY <1>1, SmallerSons DEF SoundOrNil
<1> QED
  BY <1>2, <1>3 DEF Base, Join

\* Search_by_range, one level unfolded.
LEMMA RangeUnfolds ==
  ASSUME NEW b, NEW t, SoundOrNil(t)
  PROVE  Search_by_range(t, b) = IF t = Nil THEN [t |-> Nil, live |-> <<>>]
         ELSE RangeNode(t, b, Search_by_range(Push_Down(t).left, b), Search_by_range(Push_Down(t).right, b))
<1> DEFINE k == [name |-> "Search_by_range", box |-> b]
<1>1. ASSUME NEW s, SoundOrNil(s) PROVE Search_by_range(s, b) = Walk(k, s)
  <2> DEFINE At(f, u) ==
               IF u = Nil THEN [t |-> Nil, live |-> <<>>]
               ELSE LET r == Push_Down(u) IN
                    IF Outside(r, b) THEN [t |-> r, live |-> <<>>]
                    ELSE IF Covers(b, r) THEN LET g == flatten(r) IN [t |-> g.t, live |-> g.live]
                    ELSE LET x == f[r.left]
                             y == f[r.right] IN
                         [t    |-> Rejoin(r, x.t, y.t),
                          live |-> (IF InBox(r.pt, b) /\ ~r.pdel THEN <<r.pt>> ELSE <<>>)
                                     \o x.live \o y.live]
             Body(f) == [u \in Visited(s) |-> At(f, u)]
             g == CHOOSE f : f = Body(f)
  <2>1. Search_by_range(s, b) = g[s]
    BY DEF Search_by_range
  <2>2. ASSUME NEW f PROVE Body(f) = [u \in Visited(s) |-> Step(k, f, u)]
    <3>1. ASSUME NEW u PROVE Step(k, f, u) = IF u = Nil THEN [t |-> Nil, live |-> <<>>]
                ELSE RangeNode(u, b, f[Push_Down(u).left], f[Push_Down(u).right])
      BY DEF Step, Base, Join
    <3>2. ASSUME NEW u PROVE At(f, u) = IF u = Nil THEN [t |-> Nil, live |-> <<>>]
                ELSE RangeNode(u, b, f[Push_Down(u).left], f[Push_Down(u).right])
      BY Zenon DEF RangeNode
    <3> HIDE DEF At, k
    <3>3. ASSUME NEW u PROVE At(f, u) = Step(k, f, u)
      BY <3>1, <3>2
    <3> QED
      BY <3>3
  <2>3. PICK h : Follows(k, Visited(s), h)
    BY <1>1, StepsExist
  <2> HIDE DEF Body, k
  <2>4. h = Body(h)
    BY <2>2, <2>3 DEF Follows
  <2>5. g = Body(g)
    BY <2>4
  <2> HIDE DEF g
  <2>6. Follows(k, Visited(s), g)
    BY <2>2, <2>5 DEF Follows
  <2> QED
    BY <1>1, <2>1, <2>6, WalkIs
<1>2. Search_by_range(t, b) = IF t = Nil THEN Base(k)
         ELSE Join(k, t, Walk(k, Push_Down(t).left), Walk(k, Push_Down(t).right))
  BY <1>1, WalkUnfolds
<1>3. t # Nil => /\ Search_by_range(Push_Down(t).left, b) = Walk(k, Push_Down(t).left)
                /\ Search_by_range(Push_Down(t).right, b) = Walk(k, Push_Down(t).right)
  BY <1>1, SmallerSons DEF SoundOrNil
<1> QED
  BY <1>2, <1>3 DEF Base, Join

(***************************************************************************)
(* BuildTree: its recursion is well-founded and makes a sound tree.        *)
(***************************************************************************)
\* The trees over a cut depend on the trees of its two halves alone.
LEMMA SameNodes ==
  ASSUME NEW C, NEW s, NEW axis, NEW J, NEW f, NEW g,
         \A c \in C : /\ f[c[2]] = g[c[2]]
                      /\ f[J \ (c[2] \cup {c[1]})] = g[J \ (c[2] \cup {c[1]})]
  PROVE  {Nodes(s[c[1]], axis, f[c[2]], f[J \ (c[2] \cup {c[1]})]) : c \in C}
       = {Nodes(s[c[1]], axis, g[c[2]], g[J \ (c[2] \cup {c[1]})]) : c \in C}
OBVIOUS

\* What BuildTree says of the points J, given what it says of fewer.
BuildNode(s, f, J) ==
  IF J = {} THEN {Nil}
  ELSE LET axis == DivisionAxis(s, J) IN
       UNION {Nodes(s[c[1]], axis, f[c[2]], f[J \ (c[2] \cup {c[1]})]) :
                c \in Cuts(s, J, axis)}

\* BuildTree's cut takes the middle point out and leaves two smaller halves.
LEMMA CutsAreSmaller ==
  ASSUME NEW J, IsFiniteSet(J), NEW s, NEW axis, NEW c \in Cuts(s, J, axis)
  PROVE  /\ c[1] \in J /\ c[2] \subseteq J /\ c[1] \notin c[2]
         /\ LET R == J \ (c[2] \cup {c[1]}) IN
            /\ R \subseteq J /\ IsFiniteSet(R) /\ IsFiniteSet(c[2])
            /\ Cardinality(J) \in Nat /\ Cardinality(c[2]) \in Nat /\ Cardinality(R) \in Nat
            /\ Cardinality(J) = 1 + Cardinality(c[2]) + Cardinality(R)
<1> DEFINE m == c[1]
           L == c[2]
           R == J \ (L \cup {m})
<1>1. m \in J /\ L \subseteq J /\ m \notin L
  BY DEF Cuts
<1> HIDE DEF m, L
<1>2. IsFiniteSet(L) /\ IsFiniteSet(R) /\ IsFiniteSet({m}) /\ IsFiniteSet(L \cup {m})
  BY <1>1, FS_Subset, FS_Singleton, FS_Union
<1>3. Cardinality({m}) = 1 /\ Cardinality(J) \in Nat /\ Cardinality(L) \in Nat /\ Cardinality(R) \in Nat
      /\ Cardinality(L \cup {m}) \in Nat
  BY <1>2, FS_Singleton, FS_CardinalityType
<1>4. Cardinality(L \cup {m}) = Cardinality(L) + 1
  BY <1>1, <1>2, FS_AddElement
<1>5. Cardinality(J) = Cardinality(L \cup {m}) + Cardinality(R)
  <2> DEFINE A == L \cup {m}
  <2>1. A \cap R = {} /\ A \cup R = J
    BY <1>1
  <2>2. Cardinality(A \cap R) = 0
    BY <2>1, FS_EmptySet
  <2>3. Cardinality(A \cup R) = Cardinality(A) + Cardinality(R) - Cardinality(A \cap R)
    BY <1>2, FS_Union
  <2>4. Cardinality(A) \in Nat /\ Cardinality(R) \in Nat
    BY <1>3
  <2> HIDE DEF A, R
  <2>5. Cardinality(A \cup R) = Cardinality(J)
    BY <2>1, Zenon
  <2>6. Cardinality(J) = Cardinality(A) + Cardinality(R)
    BY <2>2, <2>3, <2>4, <2>5
  <2> QED
    BY <2>6 DEF A
<1> QED
  BY <1>1, <1>2, <1>3, <1>4, <1>5 DEF m, L

\* One level of BuildTree reads nothing but the trees of smaller sets of points.
LEMMA BuildIsLocal ==
  ASSUME NEW J, IsFiniteSet(J), NEW s, NEW f, NEW g,
         \A K \in SUBSET J : Cardinality(K) < Cardinality(J) => f[K] = g[K]
  PROVE  BuildNode(s, f, J) = BuildNode(s, g, J)
<1> DEFINE axis == DivisionAxis(s, J)
<1>1. ASSUME NEW c \in Cuts(s, J, axis)
      PROVE  /\ f[c[2]] = g[c[2]]
             /\ f[J \ (c[2] \cup {c[1]})] = g[J \ (c[2] \cup {c[1]})]
  BY CutsAreSmaller
<1>2. {Nodes(s[c[1]], axis, f[c[2]], f[J \ (c[2] \cup {c[1]})]) : c \in Cuts(s, J, axis)}
    = {Nodes(s[c[1]], axis, g[c[2]], g[J \ (c[2] \cup {c[1]})]) : c \in Cuts(s, J, axis)}
  <2> HIDE DEF axis
  <2> QED
    BY <1>1, SameNodes
<1> QED
  BY <1>2 DEF BuildNode

\* The recursion of BuildTree has a solution, and it is the one BuildTrees takes.
BuildTable(s, I, f) ==
  BuildTrees(s, I) = f[I] /\ \A J \in SUBSET I : f[J] = BuildNode(s, f, J)

\* The recursion of BuildTree is well-founded: it defines a table.
LEMMA BuildUnfolds ==
  ASSUME NEW s, NEW I, IsFiniteSet(I)
  PROVE  \E f : BuildTable(s, I, f)
<1> DEFINE D == SUBSET I
           More(f) == [J \in D |-> BuildNode(s, f, J)]
           Up(f, n) == \A J \in D : Cardinality(J) =< n => f[J] = BuildNode(s, f, J)
           G == {n \in Nat : \E f : DOMAIN f = D /\ Up(f, n)}
<1>1. \A J \in D : IsFiniteSet(J) /\ Cardinality(J) \in Nat /\ Cardinality(J) =< Cardinality(I)
  BY FS_Subset, FS_CardinalityType
<1>2. ASSUME NEW f, NEW n \in Nat, \A J \in D : Cardinality(J) < n => f[J] = BuildNode(s, f, J)
      PROVE  Up(More(f), n)
  <2> SUFFICES ASSUME NEW J \in D, Cardinality(J) =< n
               PROVE  More(f)[J] = BuildNode(s, More(f), J)
    OBVIOUS
  <2>1. ASSUME NEW K \in SUBSET J, Cardinality(K) < Cardinality(J) PROVE f[K] = More(f)[K]
    <3>1. K \in D
      OBVIOUS
    <3>2. Cardinality(K) < n
      BY <1>1, <2>1, <3>1
    <3> QED
      BY <1>2, <3>1, <3>2
  <2> HIDE DEF More
  <2>2. BuildNode(s, f, J) = BuildNode(s, More(f), J)
    BY <1>1, <2>1, BuildIsLocal
  <2> QED
    BY <2>2 DEF More
<1>3. ASSUME NEW n \in Nat, \A m \in Nat : m < n => m \in G PROVE n \in G
  <2>1. \E f : \A J \in D : Cardinality(J) < n => f[J] = BuildNode(s, f, J)
    <3>1. CASE n = 0
      <4>1. \A J \in D : ~(Cardinality(J) < n)
        BY <1>1, <3>1
      <4> QED
        BY <4>1
    <3>2. CASE n # 0
      <4>1. n - 1 \in G
        <5> HIDE DEF G
        <5>1. n - 1 \in Nat /\ n - 1 < n
          BY <3>2
        <5> QED
          BY <1>3, <5>1
      <4>2. PICK f : Up(f, n - 1)
        BY <4>1
      <4>3. \A J \in D : Cardinality(J) < n => Cardinality(J) =< n - 1
        BY <1>1
      <4> QED
        BY <4>2, <4>3
    <3> QED
      BY <3>1, <3>2
  <2>2. PICK f : \A J \in D : Cardinality(J) < n => f[J] = BuildNode(s, f, J)
    BY <2>1
  <2>3. Up(More(f), n)
    BY <1>2, <2>2
  <2>4. DOMAIN More(f) = D
    OBVIOUS
  <2> HIDE DEF More, Up
  <2> QED
    BY <2>3, <2>4
<1>4. \A n \in Nat : n \in G
  <2>1. G \in SUBSET Nat
    OBVIOUS
  <2> HIDE DEF G
  <2> QED
    BY <1>3, <2>1, Induction
<1>5. PICK f : DOMAIN f = D /\ Up(f, Cardinality(I))
  BY <1>1, <1>4
<1>6. Up(More(f), Cardinality(I))
  <2>1. \A J \in D : Cardinality(J) < Cardinality(I) => f[J] = BuildNode(s, f, J)
    BY <1>1, <1>5
  <2>2. Cardinality(I) \in Nat
    BY FS_CardinalityType
  <2> HIDE DEF More, Up
  <2> QED
    BY <1>2, <2>1, <2>2
<1>7. More(f) = More(More(f))
  BY <1>1, <1>6
<1> DEFINE Body(h) == [J \in D |-> IF J = {} THEN {Nil}
                        ELSE LET axis == DivisionAxis(s, J) IN
                             UNION {Nodes(s[c[1]], axis, h[c[2]], h[J \ (c[2] \cup {c[1]})]) :
                                      c \in Cuts(s, J, axis)}]
           g == CHOOSE h : h = Body(h)
<1>8. ASSUME NEW h PROVE Body(h) = More(h)
  BY Zenon DEF BuildNode
<1>9. BuildTrees(s, I) = g[I]
  BY DEF BuildTrees
<1> HIDE DEF Body, More
<1>10. \E h : h = Body(h)
  BY <1>7, <1>8
<1>11. g = Body(g)
  BY <1>10
<1> HIDE DEF g
<1>12. g = More(g)
  BY <1>8, <1>11
<1>13. \A J \in D : g[J] = BuildNode(s, g, J)
  BY <1>12 DEF More
<1> QED
  BY <1>9, <1>13 DEF BuildTable

\* A finite set of numbers has its minimum and maximum.
LEMMA FiniteExtremes ==
  ASSUME NEW S \in SUBSET Int, IsFiniteSet(S), S # {}
  PROVE  /\ Min(S) \in S /\ \A x \in S : Min(S) =< x
         /\ Max(S) \in S /\ \A x \in S : Max(S) >= x
<1> DEFINE Lo(T) == \E m \in T : \A x \in T : m =< x
           Hi(T) == \E m \in T : \A x \in T : m >= x
           G == {n \in Nat : \A T \in SUBSET Int :
                   IsFiniteSet(T) /\ T # {} /\ Cardinality(T) = n => Lo(T) /\ Hi(T)}
<1>1. ASSUME NEW n \in Nat, \A m \in Nat : m < n => m \in G, NEW T \in SUBSET Int,
             IsFiniteSet(T), T # {}, Cardinality(T) = n
      PROVE  Lo(T) /\ Hi(T)
  <2>1. PICK x \in T : TRUE
    BY <1>1
  <2> DEFINE R == T \ {x}
  <2>2. IsFiniteSet(R) /\ Cardinality(R) = n - 1 /\ n - 1 \in Nat
    <3>1. IsFiniteSet(R) /\ Cardinality(R) = Cardinality(T) - 1
      BY <1>1, <2>1, FS_RemoveElement
    <3>2. Cardinality(R) \in Nat
      BY <3>1, FS_CardinalityType
    <3> QED
      BY <1>1, <3>1, <3>2
  <2>3. T = R \cup {x} /\ R \in SUBSET Int /\ x \in Int
    BY <2>1
  <2>4. CASE R = {}
    <3>1. T = {x}
      BY <2>3, <2>4
    <3> QED
      BY <2>3, <3>1
  <2>5. CASE R # {}
    <3>1. n - 1 \in G
      <4>1. n - 1 < n
        OBVIOUS
      <4> HIDE DEF G
      <4> QED
        BY <1>1, <2>2, <4>1
    <3>2. Lo(R) /\ Hi(R)
      BY <2>2, <2>3, <2>5, <3>1
    <3> HIDE DEF R
    <3>3. PICK lo \in R : \A y \in R : lo =< y
      BY <3>2
    <3>4. PICK hi \in R : \A y \in R : hi >= y
      BY <3>2
    <3>5. Lo(T)
      BY <2>3, <3>3
    <3>6. Hi(T)
      BY <2>3, <3>4
    <3> QED
      BY <3>5, <3>6
  <2> QED
    BY <2>4, <2>5
<1>2. \A n \in Nat : n \in G
  <2>1. G \in SUBSET Nat
    OBVIOUS
  <2>2. \A n \in Nat : (\A m \in Nat : m < n => m \in G) => n \in G
    BY <1>1
  <2> HIDE DEF G
  <2> QED
    BY <2>1, <2>2, Induction
<1>3. Lo(S) /\ Hi(S)
  BY <1>2, FS_CardinalityType
<1>4. Min(S) \in S /\ \A x \in S : Min(S) =< x
  BY <1>3 DEF Min
<1>5. Max(S) \in S /\ \A x \in S : Max(S) >= x
  BY <1>3 DEF Max
<1> QED
  BY <1>4, <1>5

\* BuildTree divides along one of the three axes.
LEMMA DivisionAxisIsAxis ==
  ASSUME NEW s \in Seq(Point), NEW J \in SUBSET (DOMAIN s), J # {}, IsFiniteSet(J)
  PROVE  DivisionAxis(s, J) \in Axis
<1> DEFINE side(a) == Max({s[i][a] : i \in J}) - Min({s[i][a] : i \in J})
           Best(a) == \A b \in Axis : side(b) =< side(a) /\ (side(b) = side(a) => a =< b)
<1>1. ASSUME NEW a \in Axis PROVE side(a) \in Int
  <2> DEFINE S == {s[i][a] : i \in J}
  <2>1. S \in SUBSET Int
    <3>1. \A i \in J : s[i] \in Point
      OBVIOUS
    <3> QED
      BY <3>1 DEF Point
  <2>2. IsFiniteSet(S) /\ S # {}
    <3> DEFINE f == [i \in J |-> s[i][a]]
    <3>1. f \in Surjection(J, S)
      BY DEF Surjection
    <3>2. IsFiniteSet(S)
      BY <3>1, FS_Surjection DEF ExistsSurjection
    <3> QED
      BY <3>2
  <2> HIDE DEF S
  <2>3. Min(S) \in Int /\ Max(S) \in Int
    BY <2>1, <2>2, FiniteExtremes
  <2> QED
    BY <2>3 DEF S
<1>2. \E a \in Axis : Best(a)
  <2>1. side(0) \in Int /\ side(1) \in Int /\ side(2) \in Int
    BY <1>1 DEF Axis
  <2> HIDE DEF side
  <2>2. Best(0) \/ Best(1) \/ Best(2)
    BY <2>1 DEF Axis
  <2> QED
    BY <2>2 DEF Axis
<1>3. DivisionAxis(s, J) = CHOOSE a \in Axis : Best(a)
  BY DEF DivisionAxis
<1> HIDE DEF Best
<1> QED
  BY <1>2, <1>3

IsLive(u, p, l, r) ==
  /\ u.pt = p /\ u.left = l /\ u.right = r /\ u.pushL = FALSE /\ u.pushR = FALSE
  /\ u.pdel = FALSE /\ u.pdown = FALSE /\ u.tdel = FALSE
  /\ u.size = 1 + Size(l) + Size(r)
  /\ u.invalid = Invalid(l) + Invalid(r)

\* The fields of a node that is built over two subtrees.
LEMMA NodeFields ==
  ASSUME NEW p \in Point, NEW axis \in Axis, NEW l, NEW r, SoundOrNil(l), SoundOrNil(r)
  PROVE  IsLive(Node(p, axis, l, r), p, l, r)
<1> DEFINE t == [pt |-> p, axis |-> axis, left |-> l, right |-> r,
                 size |-> 1, invalid |-> 0, downdel |-> 0,
                 pdel |-> FALSE, tdel |-> FALSE, pdown |-> FALSE, tdown |-> FALSE,
                 pushL |-> FALSE, pushR |-> FALSE, lo |-> p, hi |-> p]
           u == Update(t)
<1>1. /\ IsNode(t) /\ t.left = l /\ t.right = r /\ t.pt = p
      /\ t.pdel = FALSE /\ t.pdown = FALSE /\ t.pushL = FALSE /\ t.pushR = FALSE
  BY DEF IsNode, Fields
<1>2. Node(p, axis, l, r) = u
  BY DEF Node
<1> HIDE DEF t
<1>3. IsUpdate(u, t)
  <2>1. \A s \in Sons(t) : IsNode(s)
    BY <1>1, SoundIsNode DEF SoundOrNil, Sons
  <2> QED
    BY <1>1, <2>1, UpdateFields
<1>4. Invalid(l) \in Nat /\ Invalid(r) \in Nat
  BY SoundIsNode, SizesAreNat DEF SoundOrNil
<1> HIDE DEF u
<1>5. /\ u.pt = p /\ u.left = l /\ u.right = r /\ u.pushL = FALSE /\ u.pushR = FALSE
      /\ u.pdel = FALSE /\ u.pdown = FALSE /\ u.tdel = FALSE
  BY <1>1, <1>3 DEF IsUpdate
<1>6. u.size = 1 + Size(l) + Size(r) /\ u.invalid = One(FALSE) + Invalid(l) + Invalid(r)
  BY <1>1, <1>3 DEF IsUpdate
<1>7. u.invalid = Invalid(l) + Invalid(r)
  BY <1>4, <1>6 DEF One
<1> QED
  BY <1>2, <1>5, <1>6, <1>7 DEF IsLive

\* BuildTree makes a tree of the points it is given, none of them deleted.
IsBuilt(x, J) ==
  /\ J = {} => x = Nil
  /\ J # {} => Sound(x) /\ x.size = Cardinality(J) /\ x.invalid = 0 /\ ~x.tdel

\* BuildTree makes a sound tree with one node for each point it is given, none of
\* them deleted, whatever points nth_element leaves on each side of equal ones.
THEOREM BuildMakesTree ==
  ASSUME NEW s \in Seq(Point), NEW I \in SUBSET (DOMAIN s), NEW x \in BuildTrees(s, I)
  PROVE  IsBuilt(x, I)
<1>1. IsFiniteSet(I)
  <2>1. DOMAIN s = 1..Len(s) /\ Len(s) \in Int /\ 1 \in Int
    OBVIOUS
  <2>2. IsFiniteSet(1..Len(s))
    BY <2>1, FS_Interval
  <2> QED
    BY <2>1, <2>2, FS_Subset
<1>2. PICK f : BuildTable(s, I, f)
  BY <1>1, BuildUnfolds, Zenon
<1>3. \A J \in SUBSET I : IsFiniteSet(J) /\ Cardinality(J) \in Nat
  BY <1>1, FS_Subset, FS_CardinalityType
<1> DEFINE G == {n \in Nat : \A J \in SUBSET I : Cardinality(J) = n => \A y \in f[J] : IsBuilt(y, J)}
<1>4. ASSUME NEW n \in Nat, \A m \in Nat : m < n => m \in G, NEW J \in SUBSET I, Cardinality(J) = n,
             NEW y \in f[J]
      PROVE  IsBuilt(y, J)
  <2>1. CASE J = {}
    BY <1>2, <2>1 DEF BuildTable, BuildNode, IsBuilt
  <2>2. CASE J # {}
    <3> DEFINE axis == DivisionAxis(s, J)
    <3>1. axis \in Axis
      BY <1>3, <2>2, DivisionAxisIsAxis
    <3>2. y \in UNION {Nodes(s[c[1]], axis, f[c[2]], f[J \ (c[2] \cup {c[1]})]) : c \in Cuts(s, J, axis)}
      BY <1>2, <2>2 DEF BuildTable, BuildNode
    <3> HIDE DEF axis
    <3>3. PICK c \in Cuts(s, J, axis) : y \in Nodes(s[c[1]], axis, f[c[2]], f[J \ (c[2] \cup {c[1]})])
      BY <3>2
    <3> DEFINE L == c[2]
               R == J \ (L \cup {c[1]})
               p == s[c[1]]
    <3>4. y \in Nodes(p, axis, f[L], f[R])
      BY <3>3
    <3>5. /\ c[1] \in J /\ L \subseteq J /\ R \subseteq J
          /\ Cardinality(L) \in Nat /\ Cardinality(R) \in Nat
          /\ Cardinality(J) = 1 + Cardinality(L) + Cardinality(R)
      BY <1>3, CutsAreSmaller
    <3>6. p \in Point
      BY <3>5
    <3> HIDE DEF L, R, p
    <3>20. PICK l \in f[L], r \in f[R] : y = Node(p, axis, l, r)
      BY <3>4 DEF Nodes
    <3>7. Cardinality(L) \in G /\ Cardinality(R) \in G
      <4>1. Cardinality(L) < n /\ Cardinality(R) < n
        BY <1>4, <3>5
      <4> HIDE DEF G
      <4> QED
        BY <1>4, <3>5, <4>1
    <3>8. IsBuilt(l, L) /\ IsBuilt(r, R)
      BY <3>20, <3>5, <3>7
    <3>9. ASSUME NEW z, NEW K, K \subseteq J, IsBuilt(z, K)
          PROVE  SoundOrNil(z) /\ Size(z) = Cardinality(K) /\ Invalid(z) = 0
      <4>1. CASE K = {}
        BY <3>9, <4>1, FS_EmptySet DEF IsBuilt, SoundOrNil, Size, Invalid
      <4>2. CASE K # {}
        BY <3>9, <4>2, SoundIsNode DEF IsBuilt, SoundOrNil, Size, Invalid
      <4> QED
        BY <4>1, <4>2
    <3>10. /\ SoundOrNil(l) /\ Size(l) = Cardinality(L) /\ Invalid(l) = 0
           /\ SoundOrNil(r) /\ Size(r) = Cardinality(R) /\ Invalid(r) = 0
      BY <3>5, <3>8, <3>9
    <3>11. Sound(y)
      BY <3>1, <3>20, <3>6, <3>10, NodeIsTree
    <3>12. y.size = Cardinality(J) /\ y.invalid = 0 /\ y.tdel = FALSE
      <4>1. /\ y.size = 1 + Size(l) + Size(r) /\ y.invalid = Invalid(l) + Invalid(r)
            /\ y.tdel = FALSE
        <5>1. IsLive(y, p, l, r)
          BY <3>1, <3>20, <3>6, <3>10, NodeFields
        <5> QED
          BY <5>1 DEF IsLive
      <4> QED
        BY <3>5, <3>10, <4>1
    <3> QED
      BY <2>2, <3>11, <3>12 DEF IsBuilt
  <2> QED
    BY <2>1, <2>2
<1>5. \A n \in Nat : n \in G
  <2>1. G \in SUBSET Nat
    OBVIOUS
  <2>2. \A n \in Nat : (\A m \in Nat : m < n => m \in G) => n \in G
    BY <1>4
  <2> HIDE DEF G
  <2> QED
    BY <2>1, <2>2, Induction
<1>6. Cardinality(I) \in G
  BY <1>3, <1>5
<1> QED
  BY <1>2, <1>6 DEF BuildTable

(***************************************************************************)
(* Searches, rebuilds, deletions and additions keep a tree sound.          *)
(***************************************************************************)
\* What a tree hands on from its opened sons it has itself.
LEMMA TreeInduction ==
  ASSUME NEW t, SoundOrNil(t), NEW P, Nil \in P,
         \A u \in Visited(t) :
           Sound(u) /\ Push_Down(u).left \in P /\ Push_Down(u).right \in P => u \in P
  PROVE  \A u \in Visited(t) : u \in P
<1> DEFINE G == {n \in Nat : \A u \in Visited(t) : Size(u) = n => u \in P}
<1>1. \A u \in Visited(t) : SoundOrNil(u) /\ Size(u) \in Nat
  BY VisitedTrees, SizeOfTree
<1>2. ASSUME NEW n \in Nat, \A m \in Nat : m < n => m \in G, NEW u \in Visited(t), Size(u) = n
      PROVE  u \in P
  <2>1. CASE u = Nil
    BY <2>1
  <2>2. CASE u # Nil
    <3> DEFINE l == Push_Down(u).left
               r == Push_Down(u).right
    <3>1. Sound(u) /\ l \in Visited(t) /\ r \in Visited(t)
      BY <1>1, <2>2, VisitedTrees DEF SoundOrNil
    <3>2. /\ Size(l) \in Nat /\ Size(r) \in Nat /\ Size(l) < n /\ Size(r) < n
      BY <1>2, <3>1, SmallerSons
    <3> HIDE DEF l, r
    <3>3. Size(l) \in G /\ Size(r) \in G
      <4> HIDE DEF G
      <4> QED
        BY <1>2, <3>2
    <3>4. l \in P /\ r \in P
      BY <3>1, <3>3
    <3> QED
      BY <3>1, <3>4 DEF l, r
  <2> QED
    BY <2>1, <2>2
<1>3. \A n \in Nat : n \in G
  <2>1. G \in SUBSET Nat
    OBVIOUS
  <2>2. \A n \in Nat : (\A m \in Nat : m < n => m \in G) => n \in G
    BY <1>2
  <2> HIDE DEF G
  <2> QED
    BY <2>1, <2>2, Induction
<1> QED
  BY <1>1, <1>3

\* A null pointer is like itself.
LEMMA AlikeNil == Alike(Nil, Nil)
BY DEF Alike

\* A tree is like itself.
LEMMA AlikeSelf == ASSUME NEW t PROVE Alike(t, t)
BY DEF Alike

\* Three sequences in a row have the sum of their lengths.
LEMMA ThreeInARow ==
  ASSUME NEW S, NEW x \in Seq(S), NEW y \in Seq(S), NEW z \in Seq(S)
  PROVE  x \o y \o z \in Seq(S) /\ Len(x \o y \o z) = Len(x) + Len(y) + Len(z)
OBVIOUS

\* flatten leaves the same tree with the marks pushed down, and returns as many
\* live points as the counters say.
IsFlat(f, t) ==
  /\ SoundOrNil(f.t) /\ Alike(f.t, t)
  /\ f.live \in Seq(Point) /\ f.dead \in Seq(Point)
  /\ Len(f.live) = Size(t) - Invalid(t)

\* flatten leaves a sound tree with the counters and box it had, and returns as many
\* live points as the counters say there are.
THEOREM FlattenKeepsTree ==
  ASSUME NEW t, SoundOrNil(t)
  PROVE  IsFlat(flatten(t), t)
<1> DEFINE P == {u \in Visited(t) : IsFlat(flatten(u), u)}
<1>1. Nil \in P
  <2>1. Nil \in Visited(t) /\ SoundOrNil(Nil)
    BY VisitedTrees DEF SoundOrNil
  <2>2. flatten(Nil) = [t |-> Nil, live |-> <<>>, dead |-> <<>>]
    BY <2>1, FlattenUnfolds
  <2> DEFINE f == flatten(Nil)
  <2>3. f.t = Nil /\ f.live = <<>> /\ f.dead = <<>>
    BY <2>2
  <2> HIDE DEF f
  <2>4. f.live \in Seq(Point) /\ f.dead \in Seq(Point) /\ Len(f.live) = 0
    BY <2>3
  <2>5. Size(Nil) = 0 /\ Invalid(Nil) = 0
    BY DEF Size, Invalid
  <2>6. IsFlat(f, Nil)
    BY <2>1, <2>3, <2>4, <2>5, AlikeNil DEF IsFlat
  <2> QED
    BY <2>1, <2>6 DEF f
<1>2. ASSUME NEW u \in Visited(t), Sound(u), Push_Down(u).left \in P, Push_Down(u).right \in P
      PROVE  u \in P
  <2> DEFINE r == Push_Down(u)
             a == flatten(r.left)
             b == flatten(r.right)
             f == flatten(u)
             own == IF r.pdel THEN <<>> ELSE <<r.pt>>
             lost == IF r.pdel /\ ~r.pdown THEN <<r.pt>> ELSE <<>>
             v == Rejoin(r, a.t, b.t)
  <2>1. f = [t |-> v, live |-> own \o a.live \o b.live, dead |-> a.dead \o b.dead \o lost]
    BY <1>2, FlattenUnfolds, NodeIsNotNil, SoundIsNode DEF SoundOrNil, FlatNode
  <2>2. IsFlat(a, r.left) /\ IsFlat(b, r.right)
    BY <1>2
  <2>3. Sound(v) /\ Alike(v, u)
    BY <1>2, <2>2, SearchKeepsTree DEF IsFlat, Rejoin
  <2>4. /\ r.pt \in Point /\ r.pdel = u.pdel /\ u.pdel \in BOOLEAN /\ u # Nil
        /\ u.size \in Nat /\ u.invalid \in Nat
        /\ u.size = 1 + Size(r.left) + Size(r.right)
        /\ u.invalid = One(u.pdel) + Invalid(r.left) + Invalid(r.right)
        /\ Size(r.left) \in Nat /\ Size(r.right) \in Nat
        /\ Invalid(r.left) \in Nat /\ Invalid(r.right) \in Nat
    BY <1>2, TreeNumbers DEF IsPushDown, IsNode
  <2>5. own \in Seq(Point) /\ lost \in Seq(Point) /\ Len(own) = 1 - One(u.pdel) /\ One(u.pdel) \in 0..1
    BY <2>4 DEF One
  <2> HIDE DEF own, lost
  <2>6. /\ a.live \in Seq(Point) /\ b.live \in Seq(Point)
        /\ a.dead \in Seq(Point) /\ b.dead \in Seq(Point)
        /\ Len(a.live) = Size(r.left) - Invalid(r.left)
        /\ Len(b.live) = Size(r.right) - Invalid(r.right)
    BY <2>2 DEF IsFlat
  <2> HIDE DEF a, b, r, v, f
  <2>7. /\ f.live \in Seq(Point) /\ f.dead \in Seq(Point)
        /\ Len(f.live) = Len(own) + Len(a.live) + Len(b.live)
    <3>1. f.live = own \o a.live \o b.live /\ f.dead = a.dead \o b.dead \o lost
      BY <2>1
    <3>2. f.live \in Seq(Point) /\ Len(f.live) = Len(own) + Len(a.live) + Len(b.live)
      <4> DEFINE y == a.live
                 z == b.live
      <4>1. y \in Seq(Point) /\ z \in Seq(Point) /\ f.live = own \o y \o z
        BY <2>6, <3>1
      <4> HIDE DEF y, z
      <4>2. Len(f.live) = Len(own) + Len(y) + Len(z) /\ f.live \in Seq(Point)
        BY <2>5, <4>1
      <4> QED
        BY <4>2 DEF y, z
    <3>3. a.dead \o b.dead \o lost \in Seq(Point)
      BY <2>5, <2>6, ThreeInARow, Zenon
    <3> QED
      BY <3>1, <3>2, <3>3, Zenon
  <2>8. Size(u) = u.size /\ Invalid(u) = u.invalid
    BY <2>4 DEF Size, Invalid
  <2>9. Len(f.live) = Size(u) - Invalid(u)
    <3>1. /\ Len(f.live) = (1 - One(u.pdel)) + (Size(r.left) - Invalid(r.left))
                                + (Size(r.right) - Invalid(r.right))
      BY <2>5, <2>6, <2>7
    <3>2. \A i \in 0..1, m, n, j, k \in Nat :
            (1 - i) + (m - j) + (n - k) = (1 + m + n) - (i + j + k)
      OBVIOUS
    <3> QED
      BY SMTT(30), <2>4, <2>5, <2>8, <3>1, <3>2
  <2>10. IsFlat(f, u)
    BY <2>1, <2>3, <2>7, <2>9 DEF IsFlat, SoundOrNil
  <2> QED
    BY <2>10 DEF f
<1> HIDE DEF P
<1>3. \A u \in Visited(t) : u \in P
  BY <1>1, <1>2, TreeInduction
<1> QED
  BY <1>3, VisitedTrees DEF P

\* size() is the number of nodes.
THEOREM SizeIsNodeCount ==
  ASSUME NEW t, SoundOrNil(t)
  PROVE  NodeCount(t) = Size(t)
<1> DEFINE P == {u \in Visited(t) : NodeCount(u) = Size(u)}
<1>1. Nil \in P
  <2>1. Nil \in Visited(t) /\ SoundOrNil(Nil)
    BY VisitedTrees DEF SoundOrNil
  <2> QED
    BY <2>1, NodeCountUnfolds DEF Size
<1>2. ASSUME NEW u \in Visited(t), Sound(u), Push_Down(u).left \in P, Push_Down(u).right \in P
      PROVE  u \in P
  <2>1. NodeCount(u) = CountNode(u, NodeCount(Push_Down(u).left), NodeCount(Push_Down(u).right))
    BY <1>2, NodeCountUnfolds, NodeIsNotNil, SoundIsNode DEF SoundOrNil
  <2>2. /\ u.size = 1 + Size(Push_Down(u).left) + Size(Push_Down(u).right)
        /\ u # Nil
    BY <1>2, TreeNumbers
  <2> QED
    BY <1>2, <2>1, <2>2 DEF CountNode, Size
<1> HIDE DEF P
<1>3. \A u \in Visited(t) : u \in P
  BY <1>1, <1>2, TreeInduction
<1> QED
  BY <1>3, VisitedTrees DEF P

\* Trees that are like the same tree are alike.
LEMMA AlikeTwice ==
  ASSUME NEW x, NEW y, NEW z, Alike(x, y), Alike(y, z)
  PROVE  Alike(x, z)
BY DEF Alike

\* Push_Down changes neither counters, marks nor box of the node it opens.
LEMMA PushDownAlike ==
  ASSUME NEW t, Sound(t)
  PROVE  Alike(Push_Down(t), t)
<1> DEFINE r == Push_Down(t)
<1>1. IsPushDown(r, t) /\ t # Nil /\ IsNode(r)
  BY TreeNumbers
<1>2. r # Nil
  BY <1>1, NodeIsNotNil
<1> HIDE DEF r
<1>3. Size(r) = Size(t) /\ Invalid(r) = Invalid(t) /\ Downdel(r) = Downdel(t)
  BY <1>1, <1>2 DEF IsPushDown, Size, Invalid, Downdel
<1>4. r.tdel = t.tdel /\ r.tdown = t.tdown /\ r.lo = t.lo /\ r.hi = t.hi
  BY <1>1 DEF IsPushDown
<1>5. Alike(r, t)
  BY <1>1, <1>2, <1>3, <1>4 DEF Alike
<1> QED
  BY <1>5 DEF r

\* A nearest neighbour search leaves the same tree, whatever nodes it opens.
THEOREM OpeningKeepsTree ==
  ASSUME NEW t, SoundOrNil(t)
  PROVE  \A x \in Opened(t) : SoundOrNil(x) /\ Alike(x, t)
<1> DEFINE P == {u \in Visited(t) : \A x \in Opened(u) : SoundOrNil(x) /\ Alike(x, u)}
<1>1. Nil \in P
  <2>1. Nil \in Visited(t) /\ SoundOrNil(Nil)
    BY VisitedTrees DEF SoundOrNil
  <2> QED
    BY <2>1, OpenedUnfolds, AlikeNil
<1>2. ASSUME NEW u \in Visited(t), Sound(u), Push_Down(u).left \in P, Push_Down(u).right \in P
      PROVE  u \in P
  <2> DEFINE r == Push_Down(u)
  <2>1. Opened(u) = {u} \cup Rejoined(r, Opened(r.left), Opened(r.right))
    BY <1>2, OpenedUnfolds, NodeIsNotNil, SoundIsNode DEF SoundOrNil, OpenNode
  <2>2. ASSUME NEW x \in Rejoined(r, Opened(r.left), Opened(r.right))
        PROVE  Sound(x) /\ Alike(x, u)
    <3> DEFINE X == Opened(r.left)
               Y == Opened(r.right)
    <3> HIDE DEF r, X, Y
    <3>0. x \in Rejoined(r, X, Y)
      BY <2>2 DEF X, Y
    <3>1. PICK a \in X, b \in Y : x = Rejoin(r, a, b)
      BY <3>0 DEF Rejoined
    <3> USE DEF r, X, Y
    <3>2. SoundOrNil(a) /\ Alike(a, r.left) /\ SoundOrNil(b) /\ Alike(b, r.right)
      BY <1>2
    <3> QED
      BY <1>2, <3>1, <3>2, SearchKeepsTree DEF Rejoin
  <2>3. \A x \in Opened(u) : SoundOrNil(x) /\ Alike(x, u)
    BY <1>2, <2>1, <2>2, AlikeSelf DEF SoundOrNil
  <2> QED
    BY <2>3
<1> HIDE DEF P
<1>3. \A u \in Visited(t) : u \in P
  BY <1>1, <1>2, TreeInduction
<1> QED
  BY <1>3, VisitedTrees DEF P

\* So does Search_by_range.
IsFound(x, t) == SoundOrNil(x.t) /\ Alike(x.t, t) /\ x.live \in Seq(Point)

\* Search_by_range, which opens nodes on its way, leaves a sound tree that is like
\* the one it found.
THEOREM RangeKeepsTree ==
  ASSUME NEW t, SoundOrNil(t), NEW b
  PROVE  IsFound(Search_by_range(t, b), t)
<1> DEFINE P == {u \in Visited(t) : IsFound(Search_by_range(u, b), u)}
<1>1. Nil \in P
  <2>1. Nil \in Visited(t) /\ SoundOrNil(Nil)
    BY VisitedTrees DEF SoundOrNil
  <2>2. Search_by_range(Nil, b) = [t |-> Nil, live |-> <<>>]
    BY <2>1, RangeUnfolds
  <2>3. <<>> \in Seq(Point)
    OBVIOUS
  <2> DEFINE f == Search_by_range(Nil, b)
  <2>4. f.t = Nil /\ f.live = <<>>
    BY <2>2
  <2> HIDE DEF f
  <2>5. IsFound(f, Nil)
    BY <2>1, <2>3, <2>4, AlikeNil DEF IsFound
  <2> QED
    BY <2>1, <2>5 DEF f
<1>2. ASSUME NEW u \in Visited(t), Sound(u), Push_Down(u).left \in P, Push_Down(u).right \in P
      PROVE  u \in P
  <2> DEFINE r == Push_Down(u)
             x == Search_by_range(r.left, b)
             y == Search_by_range(r.right, b)
             f == Search_by_range(u, b)
             own == IF InBox(r.pt, b) /\ ~r.pdel THEN <<r.pt>> ELSE <<>>
             v == Rejoin(r, x.t, y.t)
  <2>1. f = RangeNode(u, b, x, y)
    BY <1>2, RangeUnfolds, NodeIsNotNil, SoundIsNode DEF SoundOrNil
  <2>2. Sound(r) /\ r.pt \in Point /\ Alike(r, u)
    BY <1>2, OpenedNode, PushDownAlike DEF IsNode
  <2>3. ASSUME Outside(r, b) PROVE IsFound(f, u)
    <3>1. f = [t |-> r, live |-> <<>>]
      BY <2>1, <2>3 DEF RangeNode
    <3>2. <<>> \in Seq(Point)
      OBVIOUS
    <3>3. f.t = r /\ f.live = <<>>
      BY <3>1
    <3> HIDE DEF f, r
    <3> QED
      BY <2>2, <3>2, <3>3 DEF IsFound, SoundOrNil
  <2>4. ASSUME ~Outside(r, b), Covers(b, r) PROVE IsFound(f, u)
    <3>1. f = [t |-> flatten(r).t, live |-> flatten(r).live]
      BY <2>1, <2>4 DEF RangeNode
    <3>2. IsFlat(flatten(r), r)
      BY <2>2, FlattenKeepsTree DEF SoundOrNil
    <3>3. f.t = flatten(r).t /\ f.live = flatten(r).live
      BY <3>1
    <3> HIDE DEF f, r
    <3> QED
      BY <2>2, <3>2, <3>3, AlikeTwice DEF IsFound, IsFlat
  <2>5. ASSUME ~Outside(r, b), ~Covers(b, r) PROVE IsFound(f, u)
    <3>1. f = [t |-> v, live |-> own \o x.live \o y.live]
      BY <2>1, <2>5 DEF RangeNode
    <3>2. IsFound(x, r.left) /\ IsFound(y, r.right)
      BY <1>2
    <3>3. Sound(v) /\ Alike(v, u)
      BY <1>2, <3>2, SearchKeepsTree DEF IsFound, Rejoin
    <3>4. own \in Seq(Point) /\ x.live \in Seq(Point) /\ y.live \in Seq(Point)
      BY <2>2, <3>2 DEF IsFound
    <3> HIDE DEF own
    <3>5. own \o x.live \o y.live \in Seq(Point)
      BY <3>4, ThreeInARow, Zenon
    <3> HIDE DEF f, v, x, y, r
    <3>6. f.t = v /\ f.live = own \o x.live \o y.live
      BY <3>1
    <3> QED
      BY <3>3, <3>5, <3>6 DEF IsFound, SoundOrNil
  <2>6. IsFound(f, u)
    BY <2>3, <2>4, <2>5
  <2> QED
    BY <2>6
<1> HIDE DEF P
<1>3. \A u \in Visited(t) : u \in P
  BY <1>1, <1>2, TreeInduction
<1> QED
  BY <1>3, VisitedTrees DEF P

\* What is left of a tree with a live point after it was rebuilt, if it was.
IsLeft(v, u) ==
  /\ Sound(v.t) /\ ~v.t.tdel /\ v.t.size =< u.size /\ v.dead \in Seq(Point)

\* A tree is marked deleted exactly when all its points are counted invalid.
LEMMA SettledRoot ==
  ASSUME NEW t, Sound(t)
  PROVE  /\ t.tdel \in BOOLEAN /\ t.size \in Nat /\ t.invalid \in Nat /\ t.invalid =< t.size
         /\ t.tdel <=> t.invalid = t.size
BY SoundIsNode DEF IsNode, Inherits

\* Rebuilding a subtree that is not deleted as a whole leaves a sound tree with its
\* live points only; it is never handed an empty list of points.
THEOREM RebuildKeepsTree ==
  ASSUME NEW u, Sound(u), ~u.tdel, NEW v \in Rebuild(u)
  PROVE  IsLeft(v, u) /\ v.t.invalid = 0 /\ v.t.size = u.size - u.invalid
<1> DEFINE f == flatten(u)
<1>1. PICK w \in BuildTrees(f.live, DOMAIN f.live) : v = Result(w, f.dead)
  BY DEF Rebuild
<1>2. /\ u # Nil /\ u.size \in Nat /\ u.invalid \in Nat /\ u.invalid < u.size
  BY SettledRoot, SoundIsNode
<1>3. IsFlat(f, u)
  BY FlattenKeepsTree DEF SoundOrNil
<1> HIDE DEF f
<1>4. /\ f.live \in Seq(Point) /\ f.dead \in Seq(Point)
      /\ Len(f.live) = u.size - u.invalid
  BY <1>2, <1>3 DEF IsFlat, Size, Invalid
<1> DEFINE D == DOMAIN f.live
<1>5. D \in SUBSET (DOMAIN f.live) /\ D = 1..Len(f.live)
  BY <1>4
<1>6. IsBuilt(w, D)
  BY <1>1, <1>4, <1>5, BuildMakesTree
<1>7. Cardinality(D) = u.size - u.invalid /\ D # {}
  <2>1. Len(f.live) \in Int /\ 1 \in Int /\ Len(f.live) >= 1
    BY <1>2, <1>4
  <2>2. Cardinality(1..Len(f.live)) = Len(f.live)
    BY <2>1, FS_Interval
  <2> QED
    BY <1>4, <1>5, <2>1, <2>2
<1> HIDE DEF D
<1>8. Sound(w) /\ w.size = u.size - u.invalid /\ w.invalid = 0 /\ ~w.tdel
  BY <1>6, <1>7 DEF IsBuilt
<1>9. v.t = w /\ v.dead = f.dead
  BY <1>1 DEF Result
<1>10. w.size =< u.size
  BY <1>2, <1>8
<1> QED
  BY <1>4, <1>8, <1>9, <1>10 DEF IsLeft

\* The end of Add_by_point and Delete_by_range at a node, Update and perhaps a
\* rebuild, leaves a sound tree.
THEOREM LeavingKeepsTree ==
  ASSUME NEW t, Sound(Update(t)), ~Update(t).tdel, NEW dead \in Seq(Point), NEW v \in Leave(t, dead)
  PROVE  IsLeft(v, Update(t))
<1> DEFINE u == Update(t)
<1>1. u.size \in Nat
  BY SettledRoot
<1>2. CASE Criterion_Check(u)
  <2>1. PICK w \in Rebuild(u) : v = Result(w.t, dead \o w.dead)
    BY <1>2 DEF Leave
  <2>2. IsLeft(w, u)
    BY <2>1, RebuildKeepsTree
  <2>3. dead \o w.dead \in Seq(Point)
    BY <2>2 DEF IsLeft
  <2> QED
    BY <2>1, <2>2, <2>3 DEF IsLeft, Result
<1>3. CASE ~Criterion_Check(u)
  <2>1. v = Result(u, dead)
    BY <1>3 DEF Leave
  <2> QED
    BY <1>1, <2>1 DEF IsLeft, Result
<1> QED
  BY <1>2, <1>3

\* A box that does not cover the box of a tree misses one of its live points,
\* because boxes are tight: deleting it never empties the tree, and no rebuild
\* is left without a point.
IsCleared(x, u, b) ==
  /\ SoundOrNil(x.t) /\ x.dead \in Seq(Point)
  /\ x.t = Nil <=> u = Nil
  /\ Size(x.t) =< Size(u)
  /\ u # Nil /\ ~u.tdel /\ ~Covers(b, u) => ~x.t.tdel

\* What the deletion of the points of b in a node makes of its marks.
LEMMA CutLeavesPoint ==
  ASSUME NEW u, Sound(u), ~u.tdel, NEW b, ~Covers(b, u), NEW d \in BOOLEAN,
         b.min \in Point, b.max \in Point,
         NEW x, IsCleared(x, Push_Down(u).left, b),
         NEW y, IsCleared(y, Push_Down(u).right, b)
  PROVE  LET c == DeletePoint(Push_Down(u), b, d, x.t, y.t) IN
         /\ Sound(Update(c)) /\ ~Update(c).tdel
         /\ Update(c).size =< u.size
<1> DEFINE r == Push_Down(u)
           c == DeletePoint(r, b, d, x.t, y.t)
           hit == ~r.pdel /\ InBox(r.pt, b)
<1>1. /\ IsPushDown(r, u) /\ IsNode(r) /\ IsNode(u) /\ Sound(r)
      /\ r.lo = u.lo /\ r.hi = u.hi /\ ~r.tdel
      /\ SoundOrNil(r.left) /\ SoundOrNil(r.right)
  BY TreeNumbers, OpenedNode DEF IsPushDown
<1>2. Tight(r)
  BY SoundMeans DEF Settled
<1>3. /\ u.left = Nil <=> r.left = Nil
      /\ u.right = Nil <=> r.right = Nil
  BY OpenedNode
<1>4. Sound(Update(c))
  BY <1>3, DeletePointKeepsTree DEF IsCleared
<1>5. IsNode(c) /\ c.left = x.t /\ c.right = y.t /\ c.pdel = (r.pdel \/ hit)
  BY <1>1 DEF DeletePoint, IsNode, Fields
<1> HIDE DEF c
<1>6. IsUpdate(Update(c), c)
  <2>1. \A s \in Sons(c) : IsNode(s)
    BY <1>5, SoundIsNode DEF Sons, IsCleared, SoundOrNil
  <2> QED
    BY <1>5, <2>1, UpdateFields
<1>7. c.pdel => \E s \in Sons(c) : ~s.tdel
  <2>1. PICK a \in Axis : b.min[a] > r.lo[a] \/ b.max[a] =< r.hi[a]
    BY <1>1 DEF Covers, Point, IsNode
  <2>2. ASSUME NEW s \in Sons(r), ~s.tdel, \/ b.min[a] > s.lo[a] \/ b.max[a] =< s.hi[a]
        PROVE  \E w \in Sons(c) : ~w.tdel
    <3>1. ~Covers(b, s)
      <4>1. Sound(s) /\ IsNode(s)
        BY <1>1, SoundIsNode DEF Sons, SoundOrNil
      <4> QED
        BY <2>2, <4>1 DEF Covers, Point, IsNode
    <3>2. CASE s = r.left
      <4>1. x.t # Nil /\ ~x.t.tdel
        BY <2>2, <3>1, <3>2 DEF IsCleared, Sons
      <4> QED
        BY <1>5, <4>1 DEF Sons
    <3>3. CASE s = r.right
      <4>1. y.t # Nil /\ ~y.t.tdel
        BY <2>2, <3>1, <3>3 DEF IsCleared, Sons
      <4> QED
        BY <1>5, <4>1 DEF Sons
    <3> QED
      BY <3>2, <3>3 DEF Sons
  <2>3. ASSUME ~r.pdel, \/ b.min[a] > r.pt[a] \/ b.max[a] =< r.pt[a]
        PROVE  ~c.pdel
    <3>1. ~InBox(r.pt, b)
      <4>1. r.pt \in Point
        BY <1>1 DEF IsNode
      <4> QED
        BY <2>3, <4>1 DEF InBox, Point
    <3> QED
      BY <1>5, <2>3, <3>1
  <2>4. /\ \/ ~r.pdel /\ r.lo[a] = r.pt[a]
           \/ \E s \in Sons(r) : ~s.tdel /\ r.lo[a] = s.lo[a]
        /\ \/ ~r.pdel /\ r.hi[a] = r.pt[a]
           \/ \E s \in Sons(r) : ~s.tdel /\ r.hi[a] = s.hi[a]
    BY <1>1, <1>2 DEF Tight
  <2> HIDE DEF r
  <2>5. CASE b.min[a] > r.lo[a]
    BY <2>2, <2>3, <2>4, <2>5
  <2>6. CASE b.max[a] =< r.hi[a]
    BY <2>2, <2>3, <2>4, <2>6
  <2> QED
    BY <2>1, <2>5, <2>6
<1>8. ~Update(c).tdel
  BY <1>6, <1>7 DEF IsUpdate
<1>9. Update(c).size =< u.size
  <2>1. Update(c).size = 1 + Size(x.t) + Size(y.t)
    BY <1>5, <1>6 DEF IsUpdate
  <2>2. /\ Size(x.t) \in Nat /\ Size(y.t) \in Nat
        /\ Size(x.t) =< Size(r.left) /\ Size(y.t) =< Size(r.right)
    BY SizeOfTree DEF IsCleared
  <2>3. /\ u.size = 1 + Size(r.left) + Size(r.right)
        /\ Size(r.left) \in Nat /\ Size(r.right) \in Nat
    BY TreeNumbers
  <2> QED
    BY <2>1, <2>2, <2>3
<1> QED
  BY <1>4, <1>8, <1>9 DEF c

\* Every outcome of a cut comes from one outcome of each son.
LEMMA CutMeans ==
  ASSUME NEW r, NEW b, NEW d, NEW X, NEW Y, NEW v \in DeleteCut(r, b, d, X, Y)
  PROVE  \E x \in X, y \in Y : v \in Leave(DeletePoint(r, b, d, x.t, y.t), x.dead \o y.dead)
BY DEF DeleteCut

\* Delete_by_range leaves a sound tree, and, unless the box covers the whole tree,
\* one that is not deleted: no rebuild on its way is left without a point.
THEOREM DeletionKeepsTree ==
  ASSUME NEW t, SoundOrNil(t), NEW b, b.min \in Point, b.max \in Point, NEW d \in BOOLEAN
  PROVE  \A x \in Delete_by_range(t, b, d) : IsCleared(x, t, b)
<1> DEFINE Del(u) == Delete_by_range(u, b, d)
           P == {u \in Visited(t) : \A x \in Del(u) : IsCleared(x, u, b)}
<1>20. <<>> \in Seq(Point)
  OBVIOUS
<1>1. Nil \in P
  <2>1. Nil \in Visited(t) /\ SoundOrNil(Nil)
    BY VisitedTrees DEF SoundOrNil
  <2>2. Del(Nil) = {Result(Nil, <<>>)}
    BY <2>1, DeleteUnfolds
  <2>3. Size(Nil) = 0
    BY DEF Size
  <2>4. ASSUME NEW x \in Del(Nil) PROVE IsCleared(x, Nil, b)
    <3>1. x.t = Nil /\ x.dead = <<>>
      BY <2>2 DEF Result
    <3> QED
      BY <1>20, <2>1, <2>3, <3>1 DEF IsCleared
  <2> QED
    BY <2>1, <2>4
<1>2. ASSUME NEW u \in Visited(t), Sound(u), Push_Down(u).left \in P, Push_Down(u).right \in P,
             NEW v \in Del(u)
      PROVE  IsCleared(v, u, b)
  <2> DEFINE r == Push_Down(u)
  <2>1. Del(u) = DeleteNode(u, b, d, Del(r.left), Del(r.right))
    BY <1>2, DeleteUnfolds, NodeIsNotNil, SoundIsNode DEF SoundOrNil
  <2>2. /\ Sound(r) /\ Alike(r, u) /\ u # Nil /\ r # Nil
        /\ u.size \in Nat /\ r.size = u.size /\ r.tdel = u.tdel /\ r.lo = u.lo /\ r.hi = u.hi
    BY <1>2, OpenedNode, PushDownAlike, SettledRoot, SoundIsNode, TreeNumbers DEF IsPushDown
  <2>3. Covers(b, r) <=> Covers(b, u)
    BY <2>2 DEF Covers
  <2>4. ASSUME NEW w, Sound(w), w.size = u.size, u.tdel \/ Covers(b, u) \/ ~w.tdel,
               v = Result(w, <<>>)
        PROVE  IsCleared(v, u, b)
    <3>1. v.t = w /\ v.dead = <<>>
      BY <2>4 DEF Result
    <3>2. w # Nil /\ Size(w) = w.size /\ Size(u) = u.size
      BY <2>2, <2>4, SoundIsNode DEF Size
    <3>3. /\ SoundOrNil(v.t) /\ v.dead \in Seq(Point)
          /\ v.t = Nil <=> u = Nil
      BY <1>20, <2>2, <2>4, <3>1, <3>2 DEF SoundOrNil
    <3>4. Size(v.t) =< Size(u)
      BY <2>2, <2>4, <3>1, <3>2
    <3>5. ~u.tdel /\ ~Covers(b, u) => ~v.t.tdel
      BY <2>4, <3>1
    <3> QED
      BY <3>3, <3>4, <3>5 DEF IsCleared
  <2>5. CASE u.tdel
    <3>1. v = Result(u, <<>>)
      BY <2>1, <2>5 DEF DeleteNode
    <3> QED
      BY <1>2, <2>4, <2>5, <3>1
  <2>6. CASE ~u.tdel /\ Outside(r, b)
    <3>1. v = Result(r, <<>>)
      BY <2>1, <2>6 DEF DeleteNode
    <3> QED
      BY <2>2, <2>4, <2>6, <3>1
  <2>7. CASE ~u.tdel /\ ~Outside(r, b) /\ Covers(b, r)
    <3>1. v = Result(DeleteAll(r, d), <<>>)
      BY <2>1, <2>7 DEF DeleteNode
    <3>2. Sound(DeleteAll(r, d)) /\ DeleteAll(r, d).size = u.size
      <4>1. Sound(DeleteAll(r, d))
        BY <2>2, DeleteAllKeepsTree
      <4>2. IsDeleteAll(DeleteAll(r, d), r, d)
        BY <2>2, DeleteAllFields, SoundIsNode
      <4> QED
        BY <2>2, <4>1, <4>2 DEF IsDeleteAll
    <3> QED
      BY <2>3, <2>4, <2>7, <3>1, <3>2
  <2>8. CASE ~u.tdel /\ ~Outside(r, b) /\ ~Covers(b, r)
    <3> DEFINE X == Del(r.left)
               Y == Del(r.right)
    <3>1. v \in DeleteCut(r, b, d, X, Y)
      BY <2>1, <2>8 DEF DeleteNode
    <3>2. \A x \in X : IsCleared(x, r.left, b)
      BY <1>2
    <3>3. \A y \in Y : IsCleared(y, r.right, b)
      BY <1>2
    <3> HIDE DEF X, Y
    <3>4. PICK x \in X, y \in Y :
            v \in Leave(DeletePoint(r, b, d, x.t, y.t), x.dead \o y.dead)
      BY <3>1, CutMeans
    <3> DEFINE c == DeletePoint(r, b, d, x.t, y.t)
    <3>5. Sound(Update(c)) /\ ~Update(c).tdel /\ Update(c).size =< u.size
      BY <1>2, <2>3, <2>8, <3>2, <3>3, CutLeavesPoint
    <3>6. x.dead \o y.dead \in Seq(Point)
      BY <3>2, <3>3 DEF IsCleared
    <3> HIDE DEF c
    <3>7. IsLeft(v, Update(c))
      BY <3>4, <3>5, <3>6, LeavingKeepsTree DEF c
    <3>8. /\ Sound(v.t) /\ ~v.t.tdel /\ v.dead \in Seq(Point) /\ v.t # Nil
          /\ v.t.size \in Nat /\ v.t.size =< Update(c).size
      BY <3>7, SettledRoot, SoundIsNode DEF IsLeft
    <3>9. Update(c).size \in Nat
      BY <3>5, SettledRoot
    <3>10. Size(v.t) =< Size(u)
      BY <2>2, <3>5, <3>8, <3>9 DEF Size
    <3> QED
      BY <2>2, <3>8, <3>10 DEF IsCleared, SoundOrNil
  <2> QED
    BY <2>5, <2>6, <2>7, <2>8
<1>3. ASSUME NEW u \in Visited(t), Sound(u), Push_Down(u).left \in P, Push_Down(u).right \in P
      PROVE  u \in P
  BY <1>2, <1>3
<1> HIDE DEF P
<1>4. \A u \in Visited(t) : u \in P
  BY <1>1, <1>3, TreeInduction
<1> QED
  BY <1>4, VisitedTrees DEF P

\* Adding a point to a tree makes it at most one node larger, and alive.
IsAdded(v, u) ==
  /\ Sound(v.t) /\ ~v.t.tdel /\ v.t.size =< Size(u) + 1 /\ v.dead \in Seq(Point)

\* The leaf that Add_by_point makes is a sound tree of one node.
LEMMA LeafIsTree ==
  ASSUME NEW p \in Point, NEW axis \in Axis
  PROVE  LET x == Node(p, axis, Nil, Nil) IN
         Sound(x) /\ Fresh(x) /\ x.tdel = FALSE /\ x.size = 1
<1> DEFINE x == Node(p, axis, Nil, Nil)
<1>1. SoundOrNil(Nil) /\ Size(Nil) = 0
  BY DEF SoundOrNil, Size
<1>2. Sound(x) /\ Fresh(x)
  BY <1>1, NodeIsTree
<1>3. IsLive(x, p, Nil, Nil)
  BY <1>1, NodeFields
<1> HIDE DEF x
<1>4. x.tdel = FALSE /\ x.size = 1
  BY <1>1, <1>3 DEF IsLive
<1> QED
  BY <1>2, <1>4 DEF x

\* The node u gets the son x in place of the one that was opened.
LEMMA NewSon ==
  ASSUME NEW u, Sound(u), NEW x, Sound(x), ~x.tdel, NEW dead \in Seq(Point),
         NEW left \in BOOLEAN,
         LET s == IF left THEN Push_Down(u).left ELSE Push_Down(u).right IN
         /\ s = Nil => Fresh(x)
         /\ x.size =< Size(s) + 1,
         NEW v,
         v \in Leave(IF left THEN [Push_Down(u) EXCEPT !.left = x]
                             ELSE [Push_Down(u) EXCEPT !.right = x], dead)
  PROVE  IsAdded(v, u)
<1> DEFINE r == Push_Down(u)
           s == IF left THEN r.left ELSE r.right
           o == IF left THEN r.right ELSE r.left
           c == IF left THEN [r EXCEPT !.left = x] ELSE [r EXCEPT !.right = x]
<1>1. /\ IsNode(r) /\ SoundOrNil(s) /\ SoundOrNil(o) /\ u # Nil
      /\ u.size \in Nat /\ u.size = 1 + Size(s) + Size(o)
      /\ Size(s) \in Nat /\ Size(o) \in Nat
  BY TreeNumbers
<1>2. /\ u.left = Nil <=> r.left = Nil
      /\ u.right = Nil <=> r.right = Nil
  BY OpenedNode
<1>3. Sound(Update(c))
  BY <1>2, AddKeepsTree
<1>4. IsNode(x) /\ x # Nil /\ x.size \in Nat
  BY SoundIsNode, SettledRoot
<1>5. IsNode(c) /\ c.left \in {x, o} /\ c.right \in {x, o} /\ x \in {c.left, c.right}
      /\ Size(c.left) + Size(c.right) = x.size + Size(o)
  <2>1. CASE left
    <3>1. IsNode(c) /\ c.left = x /\ c.right = o
      BY <1>1, <2>1 DEF IsNode, Fields
    <3> HIDE DEF c, o
    <3> QED
      BY <1>4, <3>1 DEF Size
  <2>2. CASE ~left
    <3>1. IsNode(c) /\ c.left = o /\ c.right = x
      BY <1>1, <2>2 DEF IsNode, Fields
    <3> HIDE DEF c, o
    <3> QED
      BY <1>1, <1>4, <3>1 DEF Size
  <2> QED
    BY <2>1, <2>2
<1> HIDE DEF c
<1>6. IsUpdate(Update(c), c)
  <2>1. \A w \in Sons(c) : IsNode(w)
    BY <1>1, <1>4, <1>5, SoundIsNode DEF Sons, SoundOrNil
  <2> QED
    BY <1>5, <2>1, UpdateFields
<1>7. ~Update(c).tdel
  <2>1. x \in Sons(c)
    BY <1>4, <1>5 DEF Sons
  <2> QED
    BY <1>6, <2>1 DEF IsUpdate
<1>8. IsLeft(v, Update(c))
  BY <1>3, <1>7, LeavingKeepsTree DEF c
<1>9. Update(c).size =< u.size + 1
  <2>1. Update(c).size = 1 + Size(c.left) + Size(c.right)
    BY <1>6 DEF IsUpdate
  <2>2. Size(c.left) \in Nat /\ Size(c.right) \in Nat
    BY <1>1, <1>4, <1>5, SizeOfTree DEF SoundOrNil
  <2>3. x.size =< Size(s) + 1
    OBVIOUS
  <2> HIDE DEF s, o
  <2> QED
    BY SMTT(30), <1>1, <1>4, <1>5, <2>1, <2>2, <2>3
<1>10. Update(c).size \in Nat /\ v.t.size \in Nat
  BY <1>3, <1>8, SettledRoot DEF IsLeft
<1>11. v.t.size =< Size(u) + 1
  BY <1>1, <1>8, <1>9, <1>10 DEF IsLeft, Size
<1> QED
  BY <1>8, <1>11 DEF IsLeft, IsAdded

\* Every outcome of an addition comes from one outcome of the son it went to.
LEMMA UnionOfLeave ==
  ASSUME NEW r, NEW X, NEW v
  PROVE  /\ v \in UNION {Leave([r EXCEPT !.left = x.t], x.dead) : x \in X} =>
              \E x \in X : v \in Leave([r EXCEPT !.left = x.t], x.dead)
         /\ v \in UNION {Leave([r EXCEPT !.right = x.t], x.dead) : x \in X} =>
              \E x \in X : v \in Leave([r EXCEPT !.right = x.t], x.dead)
OBVIOUS

\* Where the leaf is hung in.
LEMMA AddMeans ==
  ASSUME NEW u, NEW p, NEW X, NEW Y, NEW v \in AddNode(u, p, X, Y)
  PROVE  LET r == Push_Down(u)
             leaf == Result(Node(p, (r.axis + 1) % 3, Nil, Nil), <<>>) IN
         \/ /\ p[r.axis] < r.pt[r.axis]
            /\ \E x \in IF r.left = Nil THEN {leaf} ELSE X :
                 v \in Leave([r EXCEPT !.left = x.t], x.dead)
         \/ /\ ~(p[r.axis] < r.pt[r.axis])
            /\ \E x \in IF r.right = Nil THEN {leaf} ELSE Y :
                 v \in Leave([r EXCEPT !.right = x.t], x.dead)
<1> DEFINE r == Push_Down(u)
           leaf == Result(Node(p, (r.axis + 1) % 3, Nil, Nil), <<>>)
           XX == IF r.left = Nil THEN {leaf} ELSE X
           YY == IF r.right = Nil THEN {leaf} ELSE Y
<1>1. v \in IF p[r.axis] < r.pt[r.axis]
            THEN UNION {Leave([r EXCEPT !.left = x.t], x.dead) : x \in XX}
            ELSE UNION {Leave([r EXCEPT !.right = x.t], x.dead) : x \in YY}
  BY Zenon DEF AddNode
<1> HIDE DEF XX, YY, r
<1>2. CASE p[r.axis] < r.pt[r.axis]
  <2>1. \E x \in XX : v \in Leave([r EXCEPT !.left = x.t], x.dead)
    BY <1>1, <1>2, UnionOfLeave
  <2> QED
    BY <1>2, <2>1 DEF XX, r
<1>3. CASE ~(p[r.axis] < r.pt[r.axis])
  <2>1. \E x \in YY : v \in Leave([r EXCEPT !.right = x.t], x.dead)
    BY <1>1, <1>3, UnionOfLeave
  <2> QED
    BY <1>3, <2>1 DEF YY, r
<1> QED
  BY <1>2, <1>3

\* Add_by_point leaves a sound tree, not deleted and at most one node larger.
THEOREM AdditionKeepsTree ==
  ASSUME NEW t, Sound(t), NEW p \in Point
  PROVE  \A x \in Add_by_point(t, p) : IsAdded(x, t)
<1> DEFINE Added(u) == Add_by_point(u, p)
           Q == {u \in Visited(t) : \A x \in Added(u) : IsAdded(x, u)}
<1>1. Nil \in Q
  <2>1. Nil \in Visited(t) /\ SoundOrNil(Nil)
    BY VisitedTrees DEF SoundOrNil
  <2> QED
    BY <2>1, AddUnfolds
<1>2. ASSUME NEW u \in Visited(t), Sound(u), Push_Down(u).left \in Q, Push_Down(u).right \in Q,
             NEW v \in Added(u)
      PROVE  IsAdded(v, u)
  <2> DEFINE r == Push_Down(u)
             leaf == Node(p, (r.axis + 1) % 3, Nil, Nil)
             X(s) == IF s = Nil THEN {Result(leaf, <<>>)} ELSE Added(s)
  <2>1. v \in AddNode(u, p, Added(r.left), Added(r.right))
    BY <1>2, AddUnfolds, NodeIsNotNil, SoundIsNode DEF SoundOrNil
  <2>2. Sound(leaf) /\ Fresh(leaf) /\ ~leaf.tdel /\ leaf.size = 1
    <3>1. (r.axis + 1) % 3 \in Axis
      BY <1>2, TreeNumbers DEF IsNode, Axis
    <3> QED
      BY <3>1, LeafIsTree
  <2> HIDE DEF leaf
  <2>3. ASSUME NEW s \in {r.left, r.right}, NEW x \in X(s)
        PROVE  /\ Sound(x.t) /\ ~x.t.tdel /\ x.dead \in Seq(Point)
               /\ s = Nil => Fresh(x.t)
               /\ x.t.size =< Size(s) + 1
    <3>1. CASE s = Nil
      <4>1. x.t = leaf /\ x.dead = <<>>
        BY <2>3, <3>1 DEF Result
      <4>2. Size(s) = 0
        BY <3>1 DEF Size
      <4>3. x.dead \in Seq(Point)
        BY <4>1
      <4> QED
        BY <2>2, <4>1, <4>2, <4>3
    <3>2. CASE s # Nil
      <4>1. IsAdded(x, s)
        BY <1>2, <2>3, <3>2
      <4> QED
        BY <3>2, <4>1 DEF IsAdded
    <3> QED
      BY <3>1, <3>2
  <2>4. \/ \E x \in X(r.left) : v \in Leave([r EXCEPT !.left = x.t], x.dead)
        \/ \E x \in X(r.right) : v \in Leave([r EXCEPT !.right = x.t], x.dead)
    BY <2>1, AddMeans DEF leaf
  <2>5. ASSUME NEW x \in X(r.left), v \in Leave([r EXCEPT !.left = x.t], x.dead)
        PROVE  IsAdded(v, u)
    <3>1. /\ Sound(x.t) /\ ~x.t.tdel /\ x.dead \in Seq(Point)
          /\ r.left = Nil => Fresh(x.t)
          /\ x.t.size =< Size(r.left) + 1
      BY <2>3, <2>5
    <3> HIDE DEF X
    <3>2. TRUE \in BOOLEAN
      OBVIOUS
    <3> QED
      BY <1>2, <2>5, <3>1, <3>2, NewSon
  <2>6. ASSUME NEW x \in X(r.right), v \in Leave([r EXCEPT !.right = x.t], x.dead)
        PROVE  IsAdded(v, u)
    <3>1. /\ Sound(x.t) /\ ~x.t.tdel /\ x.dead \in Seq(Point)
          /\ r.right = Nil => Fresh(x.t)
          /\ x.t.size =< Size(r.right) + 1
      BY <2>3, <2>6
    <3> HIDE DEF X
    <3>2. FALSE \in BOOLEAN
      OBVIOUS
    <3> QED
      BY <1>2, <2>6, <3>1, <3>2, NewSon
  <2> QED
    BY <2>4, <2>5, <2>6
<1>3. ASSUME NEW u \in Visited(t), Sound(u), Push_Down(u).left \in Q, Push_Down(u).right \in Q
      PROVE  u \in Q
  BY <1>2, <1>3
<1> HIDE DEF Q
<1>4. \A u \in Visited(t) : u \in Q
  BY <1>1, <1>3, TreeInduction DEF SoundOrNil
<1> QED
  BY <1>4, VisitedTrees DEF Q, SoundOrNil

(***************************************************************************)
(* Downsampling: the point that is kept.                                   *)
(***************************************************************************)
\* The numbers up to n are n.
LEMMA UpToCounts ==
  ASSUME NEW n \in Nat
  PROVE  IsFiniteSet(1..n) /\ Cardinality(1..n) = n
<1>1. 1 \in Int /\ n \in Int
  OBVIOUS
<1>2. IsFiniteSet(1..n) /\ Cardinality(1..n) = IF 1 > n THEN 0 ELSE n - 1 + 1
  BY <1>1, FS_Interval, Zenon
<1> QED
  BY <1>2

\* A sequence has finitely many indices.
LEMMA FiniteDomain ==
  ASSUME NEW S, NEW s \in Seq(S)
  PROVE  \A I \in SUBSET (DOMAIN s) : IsFiniteSet(I) /\ Cardinality(I) \in Nat
<1>1. DOMAIN s = 1..Len(s) /\ Len(s) \in Int /\ 1 \in Int
  OBVIOUS
<1>2. IsFiniteSet(1..Len(s))
  BY <1>1, FS_Interval
<1> QED
  BY <1>1, <1>2, FS_Subset, FS_CardinalityType

\* The voxel of a point is a box in the space of points.
LEMMA VoxelIsBox ==
  ASSUME NEW p \in Point
  PROVE  VoxelBox(p).min \in Point /\ VoxelBox(p).max \in Point
<1> DEFINE d == downsample_size
           c == [a \in Axis |-> (p[a] \div d) * d]
<1>1. d \in Nat /\ d > 0
  BY KdTreeAssumption
<1>2. \A a \in Axis : p[a] \in Int
  BY DEF Point
<1>3. \A i \in Int : i \div d \in Int
  <2> HIDE DEF d
  <2> QED
    BY <1>1
<1>4. \A a \in Axis : c[a] \in Int
  <2>1. \A i, j \in Int : i * j \in Int
    OBVIOUS
  <2>2. \A a \in Axis : (p[a] \div d) * d \in Int
    <3> HIDE DEF d
    <3> QED
      BY <1>1, <1>2, <1>3, <2>1
  <2> QED
    BY <2>2
<1>5. VoxelBox(p) = [min |-> c, max |-> [a \in Axis |-> c[a] + d]]
  BY DEF VoxelBox
<1>6. c = [a \in Axis |-> c[a]]
  OBVIOUS
<1> HIDE DEF c, d
<1>7. VoxelBox(p).min = c /\ VoxelBox(p).max = [a \in Axis |-> c[a] + d]
  BY <1>5
<1>8. c \in [Axis -> Int] /\ [a \in Axis |-> c[a] + d] \in [Axis -> Int]
  BY <1>1, <1>4, <1>6
<1> QED
  BY <1>7, <1>8 DEF Point

\* The distance of a point to a box's centre is a number.
LEMMA CentreIsFar ==
  ASSUME NEW p \in Point, NEW b, b.min \in Point, b.max \in Point
  PROVE  FromCentre(p, b) \in Int
<1> DEFINE d(a) == 2 * p[a] - b.min[a] - b.max[a]
<1>1. d(0) \in Int /\ d(1) \in Int /\ d(2) \in Int
  BY DEF Point, Axis
<1>2. FromCentre(p, b) = Square(d(0)) + Square(d(1)) + Square(d(2))
  BY DEF FromCentre
<1>3. \A i \in Int : Square(i) \in Int
  BY DEF Square
<1> HIDE DEF d
<1> QED
  BY <1>1, <1>2, <1>3

\* What downsampling keeps is the new point, or a nearest of the old ones, which
\* is then strictly nearer.
IsKept(q, p, b, old) ==
  \/ q = p /\ \A i \in DOMAIN old : FromCentre(p, b) =< FromCentre(old[i], b)
  \/ \E i \in DOMAIN old :
       /\ q = old[i] /\ FromCentre(q, b) < FromCentre(p, b)
       /\ \A j \in DOMAIN old : FromCentre(q, b) =< FromCentre(old[j], b)

\* Add_Points' loop over the points of a voxel keeps one of them, or the new point.
LEMMA KeepsNearest ==
  ASSUME NEW p \in Point, NEW b, b.min \in Point, b.max \in Point, NEW old \in Seq(Point)
  PROVE  IsKept(Keep(p, b, old), p, b, old)
<1> DEFINE F(q) == FromCentre(q, b)
           near == {i \in DOMAIN old : F(old[i]) < F(p)}
           First(i) == \A j \in near : F(old[i]) =< F(old[j]) /\ (F(old[i]) = F(old[j]) => i =< j)
<1>1. F(p) \in Int /\ \A i \in DOMAIN old : F(old[i]) \in Int
  BY CentreIsFar
<1>2. Keep(p, b, old) = IF near = {} THEN p ELSE old[CHOOSE i \in near : First(i)]
  BY DEF Keep
<1>3. CASE near = {}
  <2>1. \A i \in DOMAIN old : F(p) =< F(old[i])
    <3>1. \A i \in DOMAIN old : ~(F(old[i]) < F(p))
      BY <1>3
    <3> HIDE DEF F, near
    <3> QED
      BY <1>1, <3>1
  <2> QED
    BY <1>2, <1>3, <2>1 DEF IsKept
<1>4. CASE near # {}
  <2> DEFINE far == [i \in near |-> F(old[i])]
             D == {far[i] : i \in near}
  <2>1. near \subseteq DOMAIN old /\ IsFiniteSet(near)
    BY FiniteDomain
  <2>2. IsFiniteSet(D)
    <3>1. far \in Surjection(near, D)
      BY DEF Surjection
    <3> HIDE DEF D, far
    <3> QED
      BY <2>1, <3>1, FS_Surjection
  <2>3. D \in SUBSET Int /\ D # {}
    <3>1. \A i \in near : far[i] \in Int
      BY <1>1, <2>1
    <3> HIDE DEF far, near
    <3> QED
      BY <1>4, <3>1
  <2> DEFINE m == Min(D)
             E == {i \in near : far[i] = m}
  <2>4. m \in D /\ \A x \in D : m =< x
    BY <2>2, <2>3, FiniteExtremes
  <2>5. IsFiniteSet(E) /\ E \in SUBSET Int /\ E # {}
    <3>1. IsFiniteSet(E)
      BY <2>1, FS_Subset
    <3>2. E # {}
      <4> HIDE DEF m, far, near
      <4> QED
        BY <2>4
    <3>3. E \in SUBSET Int
      BY <2>1
    <3> QED
      BY <3>1, <3>2, <3>3
  <2> DEFINE k == Min(E)
  <2>6. k \in E /\ \A x \in E : k =< x
    BY <2>5, FiniteExtremes
  <2>7. First(k)
    <3>1. k \in near /\ F(old[k]) = m
      <4> HIDE DEF F, k, m, near
      <4> QED
        BY <2>6
    <3>2. ASSUME NEW j \in near
          PROVE  F(old[k]) =< F(old[j]) /\ (F(old[k]) = F(old[j]) => k =< j)
      <4>1. far[j] = F(old[j]) /\ far[j] \in D
        OBVIOUS
      <4>2. m =< F(old[j])
        BY <2>4, <4>1
      <4>3. F(old[j]) = m => j \in E
        BY <4>1
      <4> HIDE DEF F, k, m, E, near
      <4> QED
        BY <2>6, <3>1, <4>2, <4>3
    <3> QED
      BY <3>2
  <2>8. k \in near
    <3> HIDE DEF k, near
    <3> QED
      BY <2>6
  <2> DEFINE c == CHOOSE i \in near : First(i)
  <2>9. c \in near /\ First(c)
    <3> HIDE DEF First, k, near
    <3> QED
      BY <2>7, <2>8
  <2>10. /\ c \in DOMAIN old /\ F(old[c]) < F(p)
         /\ \A j \in near : F(old[c]) =< F(old[j])
    BY <2>9
  <2>11. \A j \in DOMAIN old : F(old[c]) =< F(old[j])
    <3>1. \A j \in DOMAIN old : j \notin near => F(p) =< F(old[j])
      <4>1. \A j \in DOMAIN old : j \notin near => ~(F(old[j]) < F(p))
        OBVIOUS
      <4> HIDE DEF F, near
      <4> QED
        BY <1>1, <4>1
    <3> HIDE DEF F, near, c
    <3> QED
      BY <1>1, <2>10, <3>1
  <2>12. Keep(p, b, old) = old[c]
    BY <1>2, <1>4
  <2> HIDE DEF c, near, F
  <2> QED
    BY <2>10, <2>11, <2>12 DEF IsKept, F
<1> QED
  BY <1>3, <1>4

\* What downsampling keeps is a point.
LEMMA KeptIsPoint ==
  ASSUME NEW p \in Point, NEW b, b.min \in Point, b.max \in Point, NEW old \in Seq(Point)
  PROVE  Keep(p, b, old) \in Point
BY KeepsNearest DEF IsKept

(***************************************************************************)
(* How often a point is in a tree.                                         *)
(***************************************************************************)
\* How often p is in the sequence s.
Cnt(s, p) == Cardinality({i \in DOMAIN s : s[i] = p})

\* A point is counted in a sequence exactly when it is there.
LEMMA CountIsNat ==
  ASSUME NEW S, NEW s \in Seq(S), NEW p
  PROVE  Cnt(s, p) \in Nat /\ (Cnt(s, p) > 0 <=> p \in Range(s))
<1> DEFINE I == {i \in DOMAIN s : s[i] = p}
<1>1. IsFiniteSet(I) /\ Cardinality(I) \in Nat
  BY FiniteDomain
<1>2. Cardinality(I) = 0 <=> I = {}
  BY <1>1, FS_EmptySet
<1>3. I = {} <=> p \notin Range(s)
  BY DEF Range
<1> HIDE DEF I
<1>4. Cardinality(I) > 0 <=> p \in Range(s)
  BY <1>1, <1>2, <1>3
<1>5. Cnt(s, p) = Cardinality(I)
  BY DEF Cnt, I
<1> QED
  BY <1>1, <1>4, <1>5

\* Nothing is in the empty sequence.
LEMMA CountOfNone ==
  ASSUME NEW p
  PROVE  Cnt(<<>>, p) = 0
<1>1. {i \in DOMAIN <<>> : <<>>[i] = p} = {}
  OBVIOUS
<1> QED
  BY <1>1, FS_EmptySet DEF Cnt

\* One point is once in the sequence of that point.
LEMMA CountOfOne ==
  ASSUME NEW p, NEW q
  PROVE  Cnt(<<q>>, p) = One(q = p)
<1> DEFINE s == <<q>>
<1>0. DOMAIN s = {1} /\ s[1] = q
  OBVIOUS
<1>1. CASE q = p
  <2>1. {i \in DOMAIN s : s[i] = p} = {1}
    BY <1>0, <1>1
  <2> QED
    BY <1>1, <2>1, FS_Singleton DEF Cnt, One
<1>2. CASE q # p
  <2>1. {i \in DOMAIN s : s[i] = p} = {}
    BY <1>0, <1>2
  <2> QED
    BY <1>2, <2>1, FS_EmptySet DEF Cnt, One
<1> QED
  BY <1>1, <1>2

\* The counts of two sequences in a row add up.
LEMMA CountOfTwo ==
  ASSUME NEW S, NEW s \in Seq(S), NEW t \in Seq(S), NEW p
  PROVE  Cnt(s \o t, p) = Cnt(s, p) + Cnt(t, p)
<1> DEFINE w == s \o t
           n == Len(s)
           A == {i \in DOMAIN s : s[i] = p}
           B == {i \in DOMAIN t : t[i] = p}
           C == {i \in DOMAIN w : w[i] = p}
           D == {i + n : i \in B}
<1>1. n \in Nat /\ Len(t) \in Nat /\ DOMAIN s = 1..n /\ DOMAIN t = 1..Len(t)
      /\ DOMAIN w = 1..(n + Len(t))
  OBVIOUS
<1>2. /\ \A i \in 1..n : w[i] = s[i]
      /\ \A i \in 1..Len(t) : w[i + n] = t[i]
  OBVIOUS
<1>3. C = A \cup D
  <2>1. ASSUME NEW i \in C PROVE i \in A \cup D
    <3>1. CASE i \in 1..n
      BY <1>1, <1>2, <3>1
    <3>2. CASE i \notin 1..n
      <4>1. i - n \in 1..Len(t) /\ (i - n) + n = i
        BY <1>1, <3>2
      <4>2. i - n \in B
        BY <1>1, <1>2, <4>1
      <4> QED
        BY <4>1, <4>2
    <3> QED
      BY <3>1, <3>2
  <2>2. A \subseteq C
    BY <1>1, <1>2
  <2>3. D \subseteq C
    <3>1. ASSUME NEW i \in B PROVE i + n \in C
      BY <1>1, <1>2
    <3> QED
      BY <3>1
  <2> QED
    BY <2>1, <2>2, <2>3
<1>4. A \cap D = {}
  BY <1>1
<1>5. IsFiniteSet(A) /\ IsFiniteSet(B)
  BY FiniteDomain
<1>6. IsFiniteSet(D) /\ Cardinality(D) = Cardinality(B)
  <2> DEFINE f == [i \in B |-> i + n]
  <2>1. f \in Bijection(B, D)
    <3>1. f \in [B -> D] /\ \A d \in D : \E i \in B : f[i] = d
      OBVIOUS
    <3>2. \A i, j \in B : f[i] = f[j] => i = j
      BY <1>1
    <3> HIDE DEF f, B, D
    <3> QED
      BY <3>1, <3>2 DEF Bijection, Injection, Surjection, IsInjective
  <2> QED
    BY <1>5, <2>1, FS_Bijection DEF ExistsBijection
<1>7. Cardinality(A) \in Nat /\ Cardinality(D) \in Nat
  BY <1>5, <1>6, FS_CardinalityType
<1>8. Cardinality(A \cup D) = Cardinality(A) + Cardinality(D) - Cardinality(A \cap D)
  BY <1>5, <1>6, FS_Union
<1>9. Cardinality(A \cap D) = 0
  BY <1>4, FS_EmptySet
<1>10. Cnt(w, p) = Cardinality(C) /\ Cnt(s, p) = Cardinality(A) /\ Cnt(t, p) = Cardinality(B)
  BY DEF Cnt
<1> HIDE DEF A, B, C, D, w
<1>11. Cardinality(C) = Cardinality(A \cup D)
  BY <1>3, Zenon
<1>12. Cnt(w, p) = Cnt(s, p) + Cnt(t, p)
  BY <1>6, <1>7, <1>8, <1>9, <1>10, <1>11
<1> QED
  BY <1>12 DEF w

\* So do those of three.
LEMMA CountOfThree ==
  ASSUME NEW S, NEW x \in Seq(S), NEW y \in Seq(S), NEW z \in Seq(S), NEW p
  PROVE  Cnt(x \o y \o z, p) = Cnt(x, p) + Cnt(y, p) + Cnt(z, p)
<1>1. x \o y \in Seq(S)
  OBVIOUS
<1>2. Cnt((x \o y) \o z, p) = Cnt(x \o y, p) + Cnt(z, p)
  BY <1>1, CountOfTwo
<1>3. Cnt(x \o y, p) = Cnt(x, p) + Cnt(y, p)
  BY CountOfTwo
<1> QED
  BY <1>2, <1>3

\* How often p is in a tree, and how often it is there as a removed point that
\* is still to be recorded.
Live(t, p) == Cnt(flatten(t).live, p)
Dead(t, p) == Cnt(flatten(t).dead, p)
SameCounts(x, t) == \A p : Live(x, p) = Live(t, p) /\ Dead(x, p) = Dead(t, p)

\* A tree holds a natural number of copies of a point.
LEMMA CountsAreNat ==
  ASSUME NEW t, SoundOrNil(t), NEW p
  PROVE  Live(t, p) \in Nat /\ Dead(t, p) \in Nat
BY FlattenKeepsTree, CountIsNat DEF IsFlat, Live, Dead

\* The null pointer holds no point.
LEMMA NilIsEmpty ==
  ASSUME NEW p
  PROVE  Live(Nil, p) = 0 /\ Dead(Nil, p) = 0
<1> DEFINE f == flatten(Nil)
<1>1. f = [t |-> Nil, live |-> <<>>, dead |-> <<>>]
  BY FlattenUnfolds DEF SoundOrNil
<1>2. f.live = <<>> /\ f.dead = <<>>
  BY <1>1
<1> QED
  BY <1>2, CountOfNone DEF Live, Dead

\* The points of a node: its own, and those of its opened sons.
OwnLive(u, p) == One(~u.pdel /\ u.pt = p)
OwnDead(u, p) == One(u.pdel /\ ~u.pdown /\ u.pt = p)

\* A node's own point counts once or not at all.
LEMMA OwnIsNat ==
  ASSUME NEW u, NEW p
  PROVE  OwnLive(u, p) \in Nat /\ OwnDead(u, p) \in Nat
BY DEF OwnLive, OwnDead, One

\* A tree holds what its root and its two opened sons hold.
LEMMA CountsOfNode ==
  ASSUME NEW u, Sound(u), NEW p
  PROVE  LET r == Push_Down(u) IN
         /\ Live(u, p) = OwnLive(u, p) + Live(r.left, p) + Live(r.right, p)
         /\ Dead(u, p) = OwnDead(u, p) + Dead(r.left, p) + Dead(r.right, p)
         /\ Live(r.left, p) \in Nat /\ Live(r.right, p) \in Nat
         /\ Dead(r.left, p) \in Nat /\ Dead(r.right, p) \in Nat
<1> DEFINE r == Push_Down(u)
           a == flatten(r.left)
           b == flatten(r.right)
           f == flatten(u)
           own == IF r.pdel THEN <<>> ELSE <<r.pt>>
           lost == IF r.pdel /\ ~r.pdown THEN <<r.pt>> ELSE <<>>
<1>1. f = [t |-> Rejoin(r, a.t, b.t), live |-> own \o a.live \o b.live,
           dead |-> a.dead \o b.dead \o lost]
  BY FlattenUnfolds, NodeIsNotNil, SoundIsNode DEF SoundOrNil, FlatNode
<1>2. /\ SoundOrNil(r.left) /\ SoundOrNil(r.right)
      /\ r.pt = u.pt /\ r.pdel = u.pdel /\ r.pdown = u.pdown /\ u.pt \in Point
  BY TreeNumbers DEF IsPushDown, IsNode
<1>3. IsFlat(a, r.left) /\ IsFlat(b, r.right)
  BY <1>2, FlattenKeepsTree
<1>4. /\ own \in Seq(Point) /\ lost \in Seq(Point)
      /\ Cnt(own, p) = OwnLive(u, p) /\ Cnt(lost, p) = OwnDead(u, p)
  <2>1. <<>> \in Seq(Point) /\ <<r.pt>> \in Seq(Point)
    BY <1>2
  <2>2. Cnt(<<>>, p) = 0 /\ Cnt(<<r.pt>>, p) = One(r.pt = p)
    BY CountOfNone, CountOfOne
  <2>3. Cnt(own, p) = OwnLive(u, p)
    BY <1>2, <2>2 DEF OwnLive, One
  <2>4. Cnt(lost, p) = OwnDead(u, p)
    BY <1>2, <2>2 DEF OwnDead, One
  <2> QED
    BY <2>1, <2>3, <2>4
<1> HIDE DEF own, lost, a, b, f, r
<1>5. f.live = own \o a.live \o b.live /\ f.dead = a.dead \o b.dead \o lost
  BY <1>1
<1>6. /\ a.live \in Seq(Point) /\ b.live \in Seq(Point)
      /\ a.dead \in Seq(Point) /\ b.dead \in Seq(Point)
  BY <1>3 DEF IsFlat
<1>7. Cnt(f.live, p) = Cnt(own, p) + Cnt(a.live, p) + Cnt(b.live, p)
  BY <1>4, <1>5, <1>6, CountOfThree
<1>8. Cnt(f.dead, p) = Cnt(a.dead, p) + Cnt(b.dead, p) + Cnt(lost, p)
  BY <1>4, <1>5, <1>6, CountOfThree
<1>9. /\ Cnt(a.live, p) \in Nat /\ Cnt(b.live, p) \in Nat
      /\ Cnt(a.dead, p) \in Nat /\ Cnt(b.dead, p) \in Nat
      /\ OwnDead(u, p) \in Nat
  BY <1>6, CountIsNat, OwnIsNat
<1>10. Cnt(f.dead, p) = OwnDead(u, p) + Cnt(a.dead, p) + Cnt(b.dead, p)
  BY <1>4, <1>8, <1>9
<1> QED
  BY <1>4, <1>7, <1>9, <1>10 DEF Live, Dead, f, a, b, r

\* A tree marked deleted holds no live point.
LEMMA DeletedIsEmpty ==
  ASSUME NEW u, Sound(u), u.tdel, NEW p
  PROVE  Live(u, p) = 0
<1> DEFINE s == flatten(u).live
<1>1. s \in Seq(Point) /\ Len(s) = Size(u) - Invalid(u)
  BY FlattenKeepsTree DEF IsFlat, SoundOrNil
<1>2. Size(u) \in Nat /\ Size(u) = Invalid(u)
  BY SettledRoot, SoundIsNode DEF Size, Invalid
<1> HIDE DEF s
<1>3. s = <<>>
  BY <1>1, <1>2
<1> QED
  BY <1>3, CountOfNone DEF Live, s

\* Joined with sons that hold the same points, a node does.
LEMMA JoinedCounts ==
  ASSUME NEW u, Sound(u), NEW a, NEW b,
         SoundOrNil(a), Alike(a, Push_Down(u).left), SameCounts(a, Push_Down(u).left),
         SoundOrNil(b), Alike(b, Push_Down(u).right), SameCounts(b, Push_Down(u).right)
  PROVE  LET x == Rejoin(Push_Down(u), a, b) IN
         Sound(x) /\ Alike(x, u) /\ SameCounts(x, u)
<1> DEFINE r == Push_Down(u)
           x == Rejoin(r, a, b)
           y == Push_Down(x)
<1>1. Sound(x) /\ Alike(x, u)
  BY SearchKeepsTree DEF Rejoin
<1>2. /\ r.pushL => r.left = Nil
      /\ r.pushR => r.right = Nil
      /\ IsNode(r)
  BY OpenedNode
<1>3. /\ x.left = a /\ x.right = b /\ x.pushL = r.pushL /\ x.pushR = r.pushR
      /\ x.pt = r.pt /\ x.pdel = r.pdel /\ x.pdown = r.pdown
  BY <1>2 DEF Rejoin, IsNode, Fields
<1>4. IsPushDown(y, x) /\ IsPushDown(r, u)
  BY <1>1, TreeNumbers
<1> HIDE DEF x, y, r
<1>5. /\ r.left = Nil => a = Nil
      /\ r.right = Nil => b = Nil
  BY DEF Alike, r
<1>6. y.left = a /\ y.right = b
  BY <1>2, <1>3, <1>4, <1>5 DEF IsPushDown
<1>7. ASSUME NEW p PROVE OwnLive(x, p) = OwnLive(u, p) /\ OwnDead(x, p) = OwnDead(u, p)
  BY <1>3, <1>4 DEF OwnLive, OwnDead, IsPushDown
<1>8. ASSUME NEW p PROVE Live(x, p) = Live(u, p) /\ Dead(x, p) = Dead(u, p)
  <2>1. /\ Live(x, p) = OwnLive(x, p) + Live(a, p) + Live(b, p)
        /\ Dead(x, p) = OwnDead(x, p) + Dead(a, p) + Dead(b, p)
    BY <1>1, <1>6, CountsOfNode DEF y
  <2>2. /\ Live(u, p) = OwnLive(u, p) + Live(r.left, p) + Live(r.right, p)
        /\ Dead(u, p) = OwnDead(u, p) + Dead(r.left, p) + Dead(r.right, p)
    BY CountsOfNode DEF r
  <2>3. /\ Live(a, p) = Live(r.left, p) /\ Live(b, p) = Live(r.right, p)
        /\ Dead(a, p) = Dead(r.left, p) /\ Dead(b, p) = Dead(r.right, p)
    BY DEF SameCounts, r
  <2> QED
    BY <1>7, <2>1, <2>2, <2>3
<1>9. SameCounts(x, u)
  BY <1>8 DEF SameCounts
<1> QED
  BY <1>1, <1>9 DEF x, r

\* A tree holds what it holds.
LEMMA SameAsItself == ASSUME NEW t PROVE SameCounts(t, t)
BY DEF SameCounts

\* Trees that hold what a third holds hold the same.
LEMMA SameTwice ==
  ASSUME NEW x, NEW y, NEW z, SameCounts(x, y), SameCounts(y, z)
  PROVE  SameCounts(x, z)
BY DEF SameCounts

\* Push_Down neither loses nor revives a point.
LEMMA PushDownCounts ==
  ASSUME NEW u, Sound(u)
  PROVE  SameCounts(Push_Down(u), u)
<1> DEFINE r == Push_Down(u)
           l == r.left
           m == r.right
<1>1. SoundOrNil(l) /\ SoundOrNil(m) /\ IsNode(r)
  BY OpenedNode
<1>2. Rejoin(r, l, m) = r
  BY <1>1 DEF Rejoin, IsNode, Fields
<1>3. Alike(l, l) /\ Alike(m, m) /\ SameCounts(l, l) /\ SameCounts(m, m)
  BY AlikeSelf, SameAsItself
<1>4. SameCounts(Rejoin(r, l, m), u)
  BY <1>1, <1>3, JoinedCounts
<1> QED
  BY <1>2, <1>4

\* Nor does a nearest neighbour search, whatever nodes it opens.
LEMMA OpenedCounts ==
  ASSUME NEW t, SoundOrNil(t)
  PROVE  \A x \in Opened(t) : SameCounts(x, t)
<1> DEFINE Q == {u \in Visited(t) : \A x \in Opened(u) : SameCounts(x, u)}
<1>1. Nil \in Q
  <2>1. Nil \in Visited(t) /\ SoundOrNil(Nil)
    BY VisitedTrees DEF SoundOrNil
  <2> QED
    BY <2>1, OpenedUnfolds, SameAsItself
<1>2. ASSUME NEW u \in Visited(t), Sound(u), Push_Down(u).left \in Q, Push_Down(u).right \in Q
      PROVE  u \in Q
  <2> DEFINE r == Push_Down(u)
             X == Opened(r.left)
             Y == Opened(r.right)
  <2>1. Opened(u) = {u} \cup Rejoined(r, X, Y)
    BY <1>2, OpenedUnfolds, NodeIsNotNil, SoundIsNode DEF SoundOrNil, OpenNode
  <2>2. SoundOrNil(r.left) /\ SoundOrNil(r.right)
    BY <1>2, OpenedNode
  <2>3. ASSUME NEW a \in X, NEW b \in Y PROVE SameCounts(Rejoin(r, a, b), u)
    <3>1. SoundOrNil(a) /\ Alike(a, r.left) /\ SoundOrNil(b) /\ Alike(b, r.right)
      BY <2>2, OpeningKeepsTree
    <3>2. SameCounts(a, r.left) /\ SameCounts(b, r.right)
      BY <1>2
    <3> QED
      BY <1>2, <3>1, <3>2, JoinedCounts
  <2> HIDE DEF X, Y, r
  <2>4. ASSUME NEW x \in Rejoined(r, X, Y) PROVE SameCounts(x, u)
    <3>1. PICK a \in X, b \in Y : x = Rejoin(r, a, b)
      BY DEF Rejoined
    <3> QED
      BY <2>3, <3>1
  <2>5. \A x \in Opened(u) : SameCounts(x, u)
    BY <2>1, <2>4, SameAsItself
  <2> QED
    BY <2>5
<1> HIDE DEF Q
<1>3. \A u \in Visited(t) : u \in Q
  BY <1>1, <1>2, TreeInduction
<1> QED
  BY <1>3, VisitedTrees DEF Q

\* Nor does flatten.
LEMMA FlattenedCounts ==
  ASSUME NEW t, SoundOrNil(t)
  PROVE  SameCounts(flatten(t).t, t)
<1> DEFINE Q == {u \in Visited(t) : SameCounts(flatten(u).t, u)}
<1>1. Nil \in Q
  <2>1. Nil \in Visited(t) /\ SoundOrNil(Nil)
    BY VisitedTrees DEF SoundOrNil
  <2>2. flatten(Nil) = [t |-> Nil, live |-> <<>>, dead |-> <<>>]
    BY <2>1, FlattenUnfolds
  <2>3. flatten(Nil).t = Nil
    BY <2>2
  <2> QED
    BY <2>1, <2>3, SameAsItself
<1>2. ASSUME NEW u \in Visited(t), Sound(u), Push_Down(u).left \in Q, Push_Down(u).right \in Q
      PROVE  u \in Q
  <2> DEFINE r == Push_Down(u)
             a == flatten(r.left)
             b == flatten(r.right)
             f == flatten(u)
             live == (IF r.pdel THEN <<>> ELSE <<r.pt>>) \o a.live \o b.live
             dead == a.dead \o b.dead \o (IF r.pdel /\ ~r.pdown THEN <<r.pt>> ELSE <<>>)
  <2>1. f.t = Rejoin(r, a.t, b.t)
    <3>1. f = [t |-> Rejoin(r, a.t, b.t), live |-> live, dead |-> dead]
      BY <1>2, FlattenUnfolds, NodeIsNotNil, SoundIsNode DEF SoundOrNil, FlatNode
    <3> HIDE DEF f, a, b, r, live, dead
    <3> QED
      BY <3>1
  <2>2. SoundOrNil(r.left) /\ SoundOrNil(r.right)
    BY <1>2, OpenedNode
  <2>3. IsFlat(a, r.left) /\ IsFlat(b, r.right)
    BY <2>2, FlattenKeepsTree
  <2>4. SameCounts(a.t, r.left) /\ SameCounts(b.t, r.right)
    BY <1>2
  <2>5. SameCounts(Rejoin(r, a.t, b.t), u)
    BY <1>2, <2>3, <2>4, JoinedCounts DEF IsFlat
  <2> QED
    BY <2>1, <2>5
<1> HIDE DEF Q
<1>3. \A u \in Visited(t) : u \in Q
  BY <1>1, <1>2, TreeInduction
<1> QED
  BY <1>3, VisitedTrees DEF Q

\* The box of a tree holds its live points.
LEMMA LivePointsInBox ==
  ASSUME NEW t, SoundOrNil(t), NEW p
  PROVE  Live(t, p) > 0 => t # Nil /\ ~t.tdel /\ p \in Point /\ Within(p, p, t)
<1> DEFINE In(u) == Live(u, p) > 0 => u # Nil /\ ~u.tdel /\ p \in Point /\ Within(p, p, u)
           Q == {u \in Visited(t) : In(u)}
<1>1. Nil \in Q
  BY VisitedTrees, NilIsEmpty
<1>2. ASSUME NEW u \in Visited(t), Sound(u), Push_Down(u).left \in Q, Push_Down(u).right \in Q,
             Live(u, p) > 0
      PROVE  u # Nil /\ ~u.tdel /\ p \in Point /\ Within(p, p, u)
  <2> DEFINE r == Push_Down(u)
  <2>1. /\ IsPushDown(r, u) /\ IsNode(r) /\ u # Nil /\ IsNode(u)
        /\ SoundOrNil(r.left) /\ SoundOrNil(r.right)
    BY <1>2, TreeNumbers
  <2>2. Boxed(r)
    BY <1>2, SoundMeans DEF Settled
  <2>3. ~u.tdel
    BY <1>2, DeletedIsEmpty
  <2>4. \/ OwnLive(u, p) > 0 \/ Live(r.left, p) > 0 \/ Live(r.right, p) > 0
    <3>1. /\ Live(u, p) = OwnLive(u, p) + Live(r.left, p) + Live(r.right, p)
          /\ Live(r.left, p) \in Nat /\ Live(r.right, p) \in Nat
      BY <1>2, CountsOfNode
    <3> QED
      BY <1>2, <3>1, OwnIsNat
  <2>5. CASE OwnLive(u, p) > 0
    <3>1. ~u.pdel /\ u.pt = p
      BY <2>5 DEF OwnLive, One
    <3> QED
      BY <2>1, <2>2, <2>3, <3>1 DEF Boxed, Within, IsPushDown, IsNode
  <2>6. ASSUME NEW s \in {r.left, r.right}, Live(s, p) > 0
        PROVE  p \in Point /\ Within(p, p, u)
    <3>1. s # Nil /\ ~s.tdel /\ p \in Point /\ Within(p, p, s)
      BY <1>2, <2>6
    <3>2. s \in Sons(r) /\ IsNode(s)
      BY <2>1, <3>1, SoundIsNode DEF Sons, SoundOrNil
    <3>3. Within(s.lo, s.hi, r)
      BY <2>2, <3>1, <3>2 DEF Boxed
    <3>4. /\ \A a \in Axis : r.lo[a] =< s.lo[a] /\ s.lo[a] =< p[a] /\ p[a] =< s.hi[a] /\ s.hi[a] =< r.hi[a]
          /\ \A a \in Axis : /\ r.lo[a] \in Int /\ s.lo[a] \in Int /\ p[a] \in Int
                             /\ s.hi[a] \in Int /\ r.hi[a] \in Int
      BY <2>1, <3>1, <3>2, <3>3 DEF Within, IsNode, Point
    <3>5. Within(p, p, r)
      BY <3>4 DEF Within
    <3> QED
      BY <2>1, <3>1, <3>5 DEF Within, IsPushDown
  <2> QED
    BY <2>1, <2>3, <2>4, <2>5, <2>6
<1>3. ASSUME NEW u \in Visited(t), Sound(u), Push_Down(u).left \in Q, Push_Down(u).right \in Q
      PROVE  u \in Q
  BY <1>2, <1>3
<1> HIDE DEF Q
<1>4. \A u \in Visited(t) : u \in Q
  BY <1>1, <1>3, TreeInduction
<1> QED
  BY <1>4, VisitedTrees DEF Q

(***************************************************************************)
(* Search_by_range, deletions and additions are exact.                     *)
(***************************************************************************)
\* Search_by_range returns each live point of the box as often as it is in the
\* tree, and leaves the tree with the points it had.
IsExact(x, t, b) ==
  /\ SameCounts(x.t, t)
  /\ \A p : Cnt(x.live, p) = IF InBox(p, b) THEN Live(t, p) ELSE 0

\* A live point of a tree lies in the tree's box, so that a search or deletion may
\* stop where the boxes do not meet and take all where one covers the other.
LEMMA BoxHolds ==
  ASSUME NEW t, SoundOrNil(t), NEW b, b.min \in Point, b.max \in Point, NEW p, Live(t, p) > 0
  PROVE  /\ Outside(t, b) => ~InBox(p, b)
         /\ Covers(b, t) => InBox(p, b)
<1>1. t # Nil /\ p \in Point /\ Within(p, p, t) /\ IsNode(t)
  BY LivePointsInBox, SoundIsNode DEF SoundOrNil
<1>2. /\ \A a \in Axis : t.lo[a] =< p[a] /\ p[a] =< t.hi[a]
      /\ \A a \in Axis : t.lo[a] \in Int /\ t.hi[a] \in Int /\ p[a] \in Int
      /\ \A a \in Axis : b.min[a] \in Int /\ b.max[a] \in Int
  BY <1>1 DEF Within, IsNode, Point
<1>3. Outside(t, b) => ~InBox(p, b)
  BY <1>2 DEF Outside, InBox
<1>4. Covers(b, t) => InBox(p, b)
  BY <1>2 DEF Covers, InBox
<1> QED
  BY <1>3, <1>4

\* Search_by_range returns each live point of the box as often as the tree holds it,
\* and no other, and leaves the tree with the points it had.
THEOREM RangeIsExact ==
  ASSUME NEW t, SoundOrNil(t), NEW b, b.min \in Point, b.max \in Point
  PROVE  IsExact(Search_by_range(t, b), t, b)
<1> DEFINE Q == {u \in Visited(t) : IsExact(Search_by_range(u, b), u, b)}
<1>1. Nil \in Q
  <2> DEFINE f == Search_by_range(Nil, b)
  <2>1. Nil \in Visited(t) /\ SoundOrNil(Nil)
    BY VisitedTrees DEF SoundOrNil
  <2>2. f = [t |-> Nil, live |-> <<>>]
    BY <2>1, RangeUnfolds
  <2>3. f.t = Nil /\ f.live = <<>>
    BY <2>2
  <2> HIDE DEF f
  <2>4. IsExact(f, Nil, b)
    BY <2>3, NilIsEmpty, CountOfNone, SameAsItself DEF IsExact
  <2> QED
    BY <2>1, <2>4 DEF f
<1>2. ASSUME NEW u \in Visited(t), Sound(u), Push_Down(u).left \in Q, Push_Down(u).right \in Q
      PROVE  u \in Q
  <2> DEFINE r == Push_Down(u)
             x == Search_by_range(r.left, b)
             y == Search_by_range(r.right, b)
             f == Search_by_range(u, b)
             own == IF InBox(r.pt, b) /\ ~r.pdel THEN <<r.pt>> ELSE <<>>
  <2>1. f = RangeNode(u, b, x, y)
    BY <1>2, RangeUnfolds, NodeIsNotNil, SoundIsNode DEF SoundOrNil
  <2>2. /\ Sound(r) /\ SameCounts(r, u) /\ IsPushDown(r, u) /\ IsNode(r)
        /\ SoundOrNil(r.left) /\ SoundOrNil(r.right)
    BY <1>2, OpenedNode, PushDownCounts, TreeNumbers
  <2>3. ASSUME NEW p PROVE Live(r, p) = Live(u, p) /\ Live(u, p) \in Nat
    BY <1>2, <2>2, CountsAreNat DEF SameCounts, SoundOrNil
  <2>4. ASSUME Outside(r, b) PROVE IsExact(f, u, b)
    <3>1. f = [t |-> r, live |-> <<>>]
      BY <2>1, <2>4 DEF RangeNode
    <3> HIDE DEF f, r
    <3>2. f.t = r /\ f.live = <<>>
      BY <3>1
    <3>3. ASSUME NEW p PROVE Cnt(f.live, p) = IF InBox(p, b) THEN Live(u, p) ELSE 0
      <4>1. InBox(p, b) => ~(Live(u, p) > 0)
        BY <2>2, <2>3, <2>4, BoxHolds DEF SoundOrNil
      <4>2. InBox(p, b) => Live(u, p) = 0
        BY <2>3, <4>1
      <4> QED
        BY <3>2, <4>2, CountOfNone
    <3> QED
      BY <2>2, <3>2, <3>3 DEF IsExact
  <2>5. ASSUME ~Outside(r, b), Covers(b, r) PROVE IsExact(f, u, b)
    <3>1. f = [t |-> flatten(r).t, live |-> flatten(r).live]
      BY <2>1, <2>5 DEF RangeNode
    <3> HIDE DEF f, r
    <3>2. f.t = flatten(r).t /\ f.live = flatten(r).live
      BY <3>1
    <3>3. SameCounts(f.t, u)
      BY <2>2, <3>2, FlattenedCounts, SameTwice DEF SoundOrNil
    <3>4. ASSUME NEW p PROVE Cnt(f.live, p) = IF InBox(p, b) THEN Live(u, p) ELSE 0
      <4>1. Cnt(f.live, p) = Live(u, p)
        BY <2>3, <3>2 DEF Live
      <4>2. Live(u, p) > 0 => InBox(p, b)
        BY <2>2, <2>3, <2>5, BoxHolds DEF SoundOrNil
      <4>3. ~InBox(p, b) => Live(u, p) = 0
        BY <2>3, <4>2
      <4> QED
        BY <4>1, <4>3
    <3> QED
      BY <3>3, <3>4 DEF IsExact
  <2>6. ASSUME ~Outside(r, b), ~Covers(b, r) PROVE IsExact(f, u, b)
    <3>1. f = [t |-> Rejoin(r, x.t, y.t), live |-> own \o x.live \o y.live]
      BY <2>1, <2>6 DEF RangeNode
    <3>2. IsExact(x, r.left, b) /\ IsExact(y, r.right, b)
      BY <1>2
    <3>3. IsFound(x, r.left) /\ IsFound(y, r.right)
      BY <2>2, RangeKeepsTree
    <3>4. SameCounts(Rejoin(r, x.t, y.t), u)
      BY <1>2, <3>2, <3>3, JoinedCounts DEF IsExact, IsFound
    <3>5. own \in Seq(Point) /\ \A p : Cnt(own, p) = IF InBox(p, b) THEN OwnLive(u, p) ELSE 0
      <4>1. <<>> \in Seq(Point) /\ <<r.pt>> \in Seq(Point)
        BY <2>2 DEF IsNode
      <4>2. ASSUME NEW p PROVE Cnt(own, p) = IF InBox(p, b) THEN OwnLive(u, p) ELSE 0
        <5>1. Cnt(<<>>, p) = 0 /\ Cnt(<<r.pt>>, p) = One(r.pt = p)
          BY CountOfNone, CountOfOne
        <5>2. OwnLive(u, p) = IF ~r.pdel /\ r.pt = p THEN 1 ELSE 0
          BY <2>2 DEF OwnLive, One, IsPushDown
        <5> QED
          BY <5>1, <5>2 DEF One
      <4> QED
        BY <4>1, <4>2
    <3> HIDE DEF f, r, x, y, own
    <3>6. f.t = Rejoin(r, x.t, y.t) /\ f.live = own \o x.live \o y.live
      BY <3>1
    <3>7. ASSUME NEW p PROVE Cnt(f.live, p) = IF InBox(p, b) THEN Live(u, p) ELSE 0
      <4>1. Cnt(f.live, p) = Cnt(own, p) + Cnt(x.live, p) + Cnt(y.live, p)
        BY <3>3, <3>5, <3>6, CountOfThree DEF IsFound
      <4>2. /\ Cnt(x.live, p) = IF InBox(p, b) THEN Live(r.left, p) ELSE 0
            /\ Cnt(y.live, p) = IF InBox(p, b) THEN Live(r.right, p) ELSE 0
        BY <3>2 DEF IsExact
      <4>3. Live(u, p) = OwnLive(u, p) + Live(r.left, p) + Live(r.right, p)
        BY <1>2, CountsOfNode DEF r
      <4> QED
        BY <3>5, <4>1, <4>2, <4>3
    <3> QED
      BY <3>4, <3>6, <3>7 DEF IsExact
  <2>7. IsExact(f, u, b)
    BY <2>4, <2>5, <2>6
  <2> QED
    BY <2>7
<1> HIDE DEF Q
<1>3. \A u \in Visited(t) : u \in Q
  BY <1>1, <1>2, TreeInduction
<1> QED
  BY <1>3, VisitedTrees DEF Q

\* A tree that downsampling deleted has nothing left to record.
LEMMA DownIsEmpty ==
  ASSUME NEW t, SoundOrNil(t), NEW p
  PROVE  t # Nil /\ t.tdown => Live(t, p) = 0 /\ Dead(t, p) = 0
<1> DEFINE None(u) == u # Nil /\ u.tdown => Live(u, p) = 0 /\ Dead(u, p) = 0
           Q == {u \in Visited(t) : None(u)}
<1>1. Nil \in Q
  BY VisitedTrees
<1>2. ASSUME NEW u \in Visited(t), Sound(u), Push_Down(u).left \in Q, Push_Down(u).right \in Q,
             u.tdown
      PROVE  Live(u, p) = 0 /\ Dead(u, p) = 0
  <2> DEFINE r == Push_Down(u)
  <2>1. /\ IsPushDown(r, u) /\ IsNode(r) /\ IsNode(u) /\ Inherits(u)
        /\ SoundOrNil(r.left) /\ SoundOrNil(r.right)
    BY <1>2, TreeNumbers, SoundIsNode
  <2>2. Marks(r)
    BY <1>2, SoundMeans, SettledMeans DEF Settled
  <2>3. \A s \in Sons(r) : s.tdown
    BY <1>2, <2>1, <2>2 DEF Marks, IsPushDown
  <2>4. /\ Live(r.left, p) = 0 /\ Dead(r.left, p) = 0
        /\ Live(r.right, p) = 0 /\ Dead(r.right, p) = 0
    BY <1>2, <2>3, NilIsEmpty DEF Sons
  <2>5. u.pdown /\ u.pdel
    BY <1>2, <2>1 DEF Inherits
  <2>6. OwnLive(u, p) = 0 /\ OwnDead(u, p) = 0
    BY <2>5 DEF OwnLive, OwnDead, One
  <2> QED
    BY <1>2, <2>4, <2>6, CountsOfNode
<1>3. ASSUME NEW u \in Visited(t), Sound(u), Push_Down(u).left \in Q, Push_Down(u).right \in Q
      PROVE  u \in Q
  BY <1>2, <1>3
<1> HIDE DEF Q
<1>4. \A u \in Visited(t) : u \in Q
  BY <1>1, <1>3, TreeInduction
<1> QED
  BY <1>4, VisitedTrees DEF Q

\* A deletion mark makes all points of a tree dead, or forgets them all.
LEMMA MarkedCounts ==
  ASSUME NEW t, SoundOrNil(t), NEW p
  PROVE  \A k \in Deletions :
           /\ Live(Pushed(t, k), p) = 0
           /\ Dead(Pushed(t, k), p) = IF k.tdown THEN 0 ELSE Live(t, p) + Dead(t, p)
<1> DEFINE Marked(u) == \A k \in Deletions :
             /\ Live(Pushed(u, k), p) = 0
             /\ Dead(Pushed(u, k), p) = IF k.tdown THEN 0 ELSE Live(u, p) + Dead(u, p)
           Q == {u \in Visited(t) : Marked(u)}
<1>1. Nil \in Q
  BY VisitedTrees, NilIsEmpty DEF Pushed
<1>2. ASSUME NEW u \in Visited(t), Sound(u), Push_Down(u).left \in Q, Push_Down(u).right \in Q,
             NEW k \in Deletions
      PROVE  /\ Live(Pushed(u, k), p) = 0
             /\ Dead(Pushed(u, k), p) = IF k.tdown THEN 0 ELSE Live(u, p) + Dead(u, p)
  <2> DEFINE r == Push_Down(u)
             v == PushTo(u, k)
             q == Push_Down(v)
  <2>1. /\ IsPushDown(r, u) /\ IsNode(r) /\ IsNode(u) /\ Inherits(u) /\ u # Nil
        /\ SoundOrNil(r.left) /\ SoundOrNil(r.right)
        /\ \A x \in Sons(u) : IsNode(x)
    BY <1>2, TreeNumbers, SoundIsNode, SoundMeans DEF Settled
  <2>2. IsMark(k) /\ k.tdel /\ k.tdown \in BOOLEAN
    BY DeletionMarks DEF Deletions
  <2>3. Sound(v) /\ IsPushTo(v, u, k) /\ v # Nil /\ Pushed(u, k) = v
    BY <1>2, <2>1, <2>2, PushDeletesSound, PushToFields, PushToIsNode DEF Pushed
  <2>4. v.tdel /\ v.pdel /\ v.pt = u.pt /\ v.pdown = (u.pdown \/ k.tdown)
        /\ v.tdown = (u.tdown \/ k.tdown)
    BY <2>2, <2>3 DEF IsPushTo
  <2>5. Live(v, p) = 0
    BY <2>3, <2>4, DeletedIsEmpty
  <2>6. CASE k.tdown
    <3>1. Dead(v, p) = 0
      BY <2>3, <2>4, <2>6, DownIsEmpty DEF SoundOrNil
    <3> QED
      BY <2>3, <2>5, <2>6, <3>1
  <2>7. CASE ~k.tdown /\ u.tdown
    <3>1. Dead(v, p) = 0
      BY <2>3, <2>4, <2>7, DownIsEmpty DEF SoundOrNil
    <3>2. Live(u, p) = 0 /\ Dead(u, p) = 0
      BY <1>2, <2>1, <2>7, DownIsEmpty DEF SoundOrNil
    <3> QED
      BY <2>3, <2>5, <2>7, <3>1, <3>2
  <2>8. CASE ~k.tdown /\ ~u.tdown
    <3> DEFINE n == [tdel |-> TRUE, tdown |-> FALSE]
    <3>1. n \in Deletions
      BY DEF Deletions
    <3>2. v.tdel = TRUE /\ v.tdown = FALSE
      BY <2>3, <2>4, <2>8 DEF IsPushTo, IsNode
    <3>3. \A s : Pushed(s, v) = Pushed(s, n)
      BY <3>2 DEF Pushed, PushTo
    <3>4. q.left = Pushed(r.left, n) /\ q.right = Pushed(r.right, n)
      BY <2>1, <2>2, <3>3, PushedSons
    <3>5. /\ Dead(q.left, p) = Live(r.left, p) + Dead(r.left, p)
          /\ Dead(q.right, p) = Live(r.right, p) + Dead(r.right, p)
      BY <1>2, <3>1, <3>4
    <3>6. Dead(v, p) = OwnDead(v, p) + Dead(q.left, p) + Dead(q.right, p)
      BY <2>3, CountsOfNode
    <3>7. OwnDead(v, p) = OwnLive(u, p) + OwnDead(u, p)
      <4>1. u.pdown => u.pdel
        BY <2>1 DEF Inherits
      <4>2. v.pdel /\ (v.pdown <=> u.pdown) /\ v.pt = u.pt
        BY <2>4, <2>8
      <4> HIDE DEF v
      <4>3. CASE u.pdel
        BY <4>2, <4>3 DEF OwnDead, OwnLive, One
      <4>4. CASE ~u.pdel
        BY <4>1, <4>2, <4>4 DEF OwnDead, OwnLive, One
      <4> QED
        BY <4>3, <4>4
    <3>8. /\ Live(u, p) = OwnLive(u, p) + Live(r.left, p) + Live(r.right, p)
          /\ Dead(u, p) = OwnDead(u, p) + Dead(r.left, p) + Dead(r.right, p)
          /\ Live(r.left, p) \in Nat /\ Live(r.right, p) \in Nat
          /\ Dead(r.left, p) \in Nat /\ Dead(r.right, p) \in Nat
      BY <1>2, CountsOfNode
    <3>9. OwnLive(u, p) \in Nat /\ OwnDead(u, p) \in Nat
      BY OwnIsNat
    <3> HIDE DEF q, r, v, n
    <3>10. Dead(v, p) = Live(u, p) + Dead(u, p)
      BY <3>5, <3>6, <3>7, <3>8, <3>9
    <3> QED
      BY <2>3, <2>5, <2>8, <3>10
  <2> QED
    BY <2>2, <2>6, <2>7, <2>8
<1>3. ASSUME NEW u \in Visited(t), Sound(u), Push_Down(u).left \in Q, Push_Down(u).right \in Q
      PROVE  u \in Q
  BY <1>2, <1>3
<1> HIDE DEF Q
<1>4. \A u \in Visited(t) : u \in Q
  BY <1>1, <1>3, TreeInduction
<1> QED
  BY <1>4, VisitedTrees DEF Q

\* Deleting a whole subtree leaves no live point; the points are recorded as removed
\* unless downsampling deleted them.
LEMMA DeletedCounts ==
  ASSUME NEW t, Sound(t), NEW d \in BOOLEAN, NEW p
  PROVE  /\ Live(DeleteAll(t, d), p) = 0
         /\ Dead(DeleteAll(t, d), p) = IF d THEN 0 ELSE Live(t, p) + Dead(t, p)
<1> DEFINE k == [tdel |-> TRUE, tdown |-> d]
<1>1. k \in Deletions /\ k.tdown = d
  BY DEF Deletions
<1>2. DeleteAll(t, d) = Pushed(t, k)
  BY SoundIsNode, DeleteAllIsPush DEF Pushed
<1> HIDE DEF k
<1> QED
  BY <1>1, <1>2, MarkedCounts DEF SoundOrNil

\* A new leaf holds its point once.
LEMMA FreshCounts ==
  ASSUME NEW x, Sound(x), Fresh(x), NEW p
  PROVE  Live(x, p) = One(x.pt = p) /\ Dead(x, p) = 0
<1> DEFINE r == Push_Down(x)
<1>1. r.left = Nil /\ r.right = Nil
  BY OpenedNode DEF Fresh
<1>2. /\ Live(x, p) = OwnLive(x, p) + Live(r.left, p) + Live(r.right, p)
      /\ Dead(x, p) = OwnDead(x, p) + Dead(r.left, p) + Dead(r.right, p)
  BY CountsOfNode
<1>3. OwnLive(x, p) = One(x.pt = p) /\ OwnDead(x, p) = 0
  BY DEF OwnLive, OwnDead, One, Fresh
<1>4. One(x.pt = p) \in Nat
  BY DEF One
<1> HIDE DEF r
<1> QED
  BY <1>1, <1>2, <1>3, <1>4, NilIsEmpty

\* Update changes no point: neither one of the node, nor one of its sons, even if
\* a mark for a null son now reaches a new leaf.
LEMMA UpdatedCounts ==
  ASSUME NEW c, Ready(c), NEW p
  PROVE  /\ Live(Update(c), p) = OwnLive(c, p) + Live(c.left, p) + Live(c.right, p)
         /\ Dead(Update(c), p) = OwnDead(c, p) + Dead(c.left, p) + Dead(c.right, p)
<1> DEFINE u == Update(c)
           q == Push_Down(u)
<1>1. \A s \in Sons(c) : IsNode(s) /\ Sound(s)
  BY SoundIsNode DEF Ready
<1>2. IsUpdate(u, c)
  BY <1>1, UpdateFields DEF Ready
<1>3. Sound(u)
  BY UpdateKeepsTree
<1>4. IsPushDown(q, u) /\ IsMark(u) /\ Inherits(u)
  BY <1>3, TreeNumbers, SoundIsNode DEF IsMark, IsNode
<1> HIDE DEF u, q
<1>5. ASSUME NEW s \in Sons(c), Fresh(s)
      PROVE  Live(PushTo(s, u), p) = Live(s, p) /\ Dead(PushTo(s, u), p) = Dead(s, p)
  <2>1. ~u.tdel /\ ~u.tdown
    BY <1>2, <1>4, <1>5 DEF IsUpdate, Fresh, Inherits
  <2>2. Fresh(PushTo(s, u)) /\ Sound(PushTo(s, u)) /\ PushTo(s, u).pt = s.pt
    <3>1. Fresh(PushTo(s, u)) /\ Sound(PushTo(s, u))
      BY <1>1, <1>4, <1>5, <2>1, PushFresh
    <3>2. IsPushTo(PushTo(s, u), s, u)
      BY <1>1, <1>4, PushToFields
    <3> QED
      BY <3>1, <3>2 DEF IsPushTo
  <2> QED
    BY <1>1, <1>5, <2>2, FreshCounts
<1>6. \/ q.left = c.left
      \/ q.left = PushTo(c.left, u) /\ c.left # Nil /\ Fresh(c.left)
  BY <1>2, <1>4 DEF IsPushDown, IsUpdate, Ready
<1>7. \/ q.right = c.right
      \/ q.right = PushTo(c.right, u) /\ c.right # Nil /\ Fresh(c.right)
  BY <1>2, <1>4 DEF IsPushDown, IsUpdate, Ready
<1>8. Live(q.left, p) = Live(c.left, p) /\ Dead(q.left, p) = Dead(c.left, p)
  BY <1>5, <1>6 DEF Sons
<1>9. Live(q.right, p) = Live(c.right, p) /\ Dead(q.right, p) = Dead(c.right, p)
  BY <1>5, <1>7 DEF Sons
<1>10. OwnLive(u, p) = OwnLive(c, p) /\ OwnDead(u, p) = OwnDead(c, p)
  BY <1>2 DEF OwnLive, OwnDead, IsUpdate
<1>11. /\ Live(u, p) = OwnLive(u, p) + Live(q.left, p) + Live(q.right, p)
       /\ Dead(u, p) = OwnDead(u, p) + Dead(q.left, p) + Dead(q.right, p)
  BY <1>3, CountsOfNode DEF q
<1> QED
  BY <1>8, <1>9, <1>10, <1>11 DEF u

\* A new node holds its point and what its subtrees hold.
LEMMA NodeCounts ==
  ASSUME NEW p \in Point, NEW axis \in Axis, NEW l, NEW r, SoundOrNil(l), SoundOrNil(r), NEW q
  PROVE  /\ Live(Node(p, axis, l, r), q) = One(p = q) + Live(l, q) + Live(r, q)
         /\ Dead(Node(p, axis, l, r), q) = Dead(l, q) + Dead(r, q)
<1> DEFINE t == [pt |-> p, axis |-> axis, left |-> l, right |-> r,
                 size |-> 1, invalid |-> 0, downdel |-> 0,
                 pdel |-> FALSE, tdel |-> FALSE, pdown |-> FALSE, tdown |-> FALSE,
                 pushL |-> FALSE, pushR |-> FALSE, lo |-> p, hi |-> p]
<1>1. /\ IsNode(t) /\ t.left = l /\ t.right = r /\ t.pt = p
      /\ t.pdel = FALSE /\ t.pdown = FALSE /\ t.pushL = FALSE /\ t.pushR = FALSE
  BY DEF IsNode, Fields
<1>2. Node(p, axis, l, r) = Update(t)
  BY DEF Node
<1> HIDE DEF t
<1>3. Ready(t)
  BY <1>1 DEF Ready, SoundOrNil, Sons
<1>4. OwnLive(t, q) = One(p = q) /\ OwnDead(t, q) = 0
  BY <1>1 DEF OwnLive, OwnDead, One
<1>5. Dead(l, q) \in Nat /\ Dead(r, q) \in Nat
  BY CountsAreNat
<1>6. /\ Live(Update(t), q) = OwnLive(t, q) + Live(l, q) + Live(r, q)
      /\ Dead(Update(t), q) = OwnDead(t, q) + Dead(l, q) + Dead(r, q)
  BY <1>1, <1>3, UpdatedCounts
<1>7. Live(Update(t), q) = One(p = q) + Live(l, q) + Live(r, q)
  BY <1>4, <1>6
<1>8. Dead(Update(t), q) = Dead(l, q) + Dead(r, q)
  BY <1>4, <1>5, <1>6
<1> QED
  BY <1>2, <1>7, <1>8

\* The sizes of disjoint sets add up.
LEMMA DisjointSum ==
  ASSUME NEW A, IsFiniteSet(A), NEW B, IsFiniteSet(B), A \cap B = {}
  PROVE  /\ IsFiniteSet(A \cup B)
         /\ Cardinality(A \cup B) = Cardinality(A) + Cardinality(B)
         /\ Cardinality(A) \in Nat /\ Cardinality(B) \in Nat
<1>1. /\ IsFiniteSet(A \cup B)
      /\ Cardinality(A \cup B) = Cardinality(A) + Cardinality(B) - Cardinality(A \cap B)
  BY FS_Union
<1>2. Cardinality(A \cap B) = 0
  BY FS_EmptySet
<1>3. Cardinality(A) \in Nat /\ Cardinality(B) \in Nat
  BY FS_CardinalityType
<1> QED
  BY <1>1, <1>2, <1>3

\* The indices of q among those in J.
At(s, J, q) == {i \in J : s[i] = q}

SplitsCount(c, s, J, q) ==
  Cardinality(At(s, J, q)) =
    One(s[c[1]] = q) + Cardinality(At(s, c[2], q)) + Cardinality(At(s, J \ (c[2] \cup {c[1]}), q))

\* BuildTree's cut neither loses nor doubles a point.
LEMMA CutCounts ==
  ASSUME NEW s, NEW J, IsFiniteSet(J), NEW axis, NEW c \in Cuts(s, J, axis), NEW q
  PROVE  SplitsCount(c, s, J, q)
<1> DEFINE m == c[1]
           L == c[2]
           R == J \ (L \cup {m})
           M == IF s[m] = q THEN {m} ELSE {}
           A == At(s, L, q)
           B == At(s, R, q)
<1>1. m \in J /\ L \subseteq J /\ m \notin L /\ R \subseteq J
  BY CutsAreSmaller
<1>2. IsFiniteSet(M) /\ Cardinality(M) = One(s[m] = q)
  BY FS_Singleton, FS_EmptySet DEF One
<1>3. IsFiniteSet(A) /\ IsFiniteSet(B)
  <2>1. A \subseteq J /\ B \subseteq J
    BY <1>1 DEF At
  <2> QED
    BY <2>1, FS_Subset
<1>4. At(s, J, q) = (M \cup A) \cup B
  BY <1>1 DEF At
<1>5. M \cap A = {} /\ (M \cup A) \cap B = {}
  BY <1>1 DEF At
<1> HIDE DEF M, A, B
<1>6. Cardinality(M \cup A) = Cardinality(M) + Cardinality(A) /\ IsFiniteSet(M \cup A)
  BY <1>2, <1>3, <1>5, DisjointSum
<1>7. Cardinality((M \cup A) \cup B) = Cardinality(M \cup A) + Cardinality(B)
  BY <1>3, <1>5, <1>6, DisjointSum
<1>8. Cardinality(At(s, J, q)) = Cardinality((M \cup A) \cup B)
  BY <1>4, Zenon
<1> QED
  BY <1>2, <1>6, <1>7, <1>8 DEF A, B, SplitsCount

\* BuildTree's tree holds each point as often as it was given.
LEMMA BuiltCounts ==
  ASSUME NEW s \in Seq(Point), NEW I \in SUBSET (DOMAIN s), NEW x \in BuildTrees(s, I), NEW q
  PROVE  Live(x, q) = Cardinality(At(s, I, q)) /\ Dead(x, q) = 0
<1>1. IsFiniteSet(I)
  BY FiniteDomain
<1>2. PICK f : BuildTable(s, I, f)
  BY <1>1, BuildUnfolds, Zenon
<1>3. \A J \in SUBSET I : IsFiniteSet(J) /\ Cardinality(J) \in Nat
  BY <1>1, FS_Subset, FS_CardinalityType
<1> DEFINE Good(y, J) == SoundOrNil(y) /\ Live(y, q) = Cardinality(At(s, J, q)) /\ Dead(y, q) = 0
           G == {n \in Nat : \A J \in SUBSET I : Cardinality(J) = n => \A y \in f[J] : Good(y, J)}
<1>4. ASSUME NEW n \in Nat, \A m \in Nat : m < n => m \in G, NEW J \in SUBSET I, Cardinality(J) = n,
             NEW y \in f[J]
      PROVE  Good(y, J)
  <2>1. CASE J = {}
    <3>1. y = Nil
      BY <1>2, <2>1 DEF BuildTable, BuildNode
    <3>2. At(s, J, q) = {}
      BY <2>1 DEF At
    <3> QED
      BY <3>1, <3>2, NilIsEmpty, FS_EmptySet DEF SoundOrNil
  <2>2. CASE J # {}
    <3> DEFINE axis == DivisionAxis(s, J)
    <3>1. axis \in Axis
      BY <1>3, <2>2, DivisionAxisIsAxis
    <3>2. y \in UNION {Nodes(s[c[1]], axis, f[c[2]], f[J \ (c[2] \cup {c[1]})]) : c \in Cuts(s, J, axis)}
      BY <1>2, <2>2 DEF BuildTable, BuildNode
    <3> HIDE DEF axis
    <3>3. PICK c \in Cuts(s, J, axis) : y \in Nodes(s[c[1]], axis, f[c[2]], f[J \ (c[2] \cup {c[1]})])
      BY <3>2
    <3> DEFINE L == c[2]
               R == J \ (L \cup {c[1]})
               p == s[c[1]]
    <3>4. y \in Nodes(p, axis, f[L], f[R])
      BY <3>3
    <3>5. /\ c[1] \in J /\ L \subseteq J /\ R \subseteq J
          /\ Cardinality(L) \in Nat /\ Cardinality(R) \in Nat
          /\ Cardinality(J) = 1 + Cardinality(L) + Cardinality(R)
      BY <1>3, CutsAreSmaller
    <3>6. p \in Point
      BY <3>5
    <3>7. Cardinality(At(s, J, q)) = One(p = q) + Cardinality(At(s, L, q)) + Cardinality(At(s, R, q))
      <4>1. IsFiniteSet(J)
        BY <1>3
      <4>2. SplitsCount(c, s, J, q)
        BY <4>1, CutCounts, Zenon
      <4> QED
        BY <4>2 DEF SplitsCount
    <3> HIDE DEF L, R, p
    <3>8. PICK l \in f[L], r \in f[R] : y = Node(p, axis, l, r)
      BY <3>4 DEF Nodes
    <3>9. Cardinality(L) \in G /\ Cardinality(R) \in G
      <4>1. Cardinality(L) < n /\ Cardinality(R) < n
        BY <1>4, <3>5
      <4> HIDE DEF G
      <4> QED
        BY <1>4, <3>5, <4>1
    <3>10. Good(l, L) /\ Good(r, R)
      BY <3>5, <3>8, <3>9
    <3>11. SoundOrNil(l) /\ SoundOrNil(r)
      BY <3>10
    <3>12. /\ Live(y, q) = One(p = q) + Live(l, q) + Live(r, q)
           /\ Dead(y, q) = Dead(l, q) + Dead(r, q)
      BY <3>1, <3>6, <3>8, <3>11, NodeCounts
    <3>13. Sound(y)
      BY <3>1, <3>6, <3>8, <3>11, NodeIsTree
    <3> QED
      BY <3>7, <3>10, <3>12, <3>13 DEF SoundOrNil
  <2> QED
    BY <2>1, <2>2
<1>5. \A n \in Nat : n \in G
  <2>1. G \in SUBSET Nat
    OBVIOUS
  <2>2. \A n \in Nat : (\A m \in Nat : m < n => m \in G) => n \in G
    BY <1>4
  <2> HIDE DEF G
  <2> QED
    BY <2>1, <2>2, Induction
<1>6. Cardinality(I) \in G
  BY <1>3, <1>5
<1> QED
  BY <1>2, <1>6 DEF BuildTable

\* Rebuilding keeps the live points and records the dead ones.
LEMMA RebuiltCounts ==
  ASSUME NEW u, Sound(u), NEW v \in Rebuild(u), NEW q
  PROVE  Live(v.t, q) = Live(u, q) /\ Dead(v.t, q) = 0 /\ Cnt(v.dead, q) = Dead(u, q)
<1> DEFINE f == flatten(u)
           I == DOMAIN f.live
<1>1. PICK w \in BuildTrees(f.live, I) : v = Result(w, f.dead)
  BY DEF Rebuild
<1>2. f.live \in Seq(Point)
  BY FlattenKeepsTree DEF SoundOrNil, IsFlat
<1> HIDE DEF f
<1>3. I \in SUBSET (DOMAIN f.live) /\ At(f.live, I, q) = {i \in DOMAIN f.live : f.live[i] = q}
  BY DEF At
<1> HIDE DEF I
<1>4. Live(w, q) = Cardinality(At(f.live, I, q)) /\ Dead(w, q) = 0
  BY <1>1, <1>2, <1>3, BuiltCounts
<1>5. Cardinality(At(f.live, I, q)) = Live(u, q)
  BY <1>3 DEF Live, Cnt, f
<1>6. v.t = w /\ v.dead = f.dead
  BY <1>1 DEF Result
<1>7. Cnt(f.dead, q) = Dead(u, q)
  BY DEF Dead, f
<1> QED
  BY <1>4, <1>5, <1>6, <1>7

\* So does what follows a change of a subtree, whether it is rebuilt or not.
LEMMA LeftCounts ==
  ASSUME NEW t, Sound(Update(t)), ~Update(t).tdel, NEW dead \in Seq(Point),
         NEW v \in Leave(t, dead), NEW q
  PROVE  /\ Live(v.t, q) = Live(Update(t), q)
         /\ Dead(v.t, q) + Cnt(v.dead, q) = Dead(Update(t), q) + Cnt(dead, q)
<1> DEFINE u == Update(t)
<1>1. CASE Criterion_Check(u)
  <2>1. PICK w \in Rebuild(u) : v = Result(w.t, dead \o w.dead)
    BY <1>1 DEF Leave
  <2>2. /\ Live(w.t, q) = Live(u, q) /\ Dead(w.t, q) = 0 /\ Cnt(w.dead, q) = Dead(u, q)
        /\ w.dead \in Seq(Point)
    BY <2>1, RebuiltCounts, RebuildKeepsTree DEF IsLeft
  <2>3. Cnt(dead \o w.dead, q) = Cnt(dead, q) + Cnt(w.dead, q)
    BY <2>2, CountOfTwo
  <2>4. v.t = w.t /\ v.dead = dead \o w.dead
    BY <2>1 DEF Result
  <2>5. Cnt(dead, q) \in Nat /\ Cnt(w.dead, q) \in Nat
    BY <2>2, CountIsNat
  <2> HIDE DEF u
  <2> QED
    BY <2>2, <2>3, <2>4, <2>5 DEF u
<1>2. CASE ~Criterion_Check(u)
  <2>1. v = Result(u, dead)
    BY <1>2 DEF Leave
  <2> QED
    BY <2>1 DEF Result
<1> QED
  BY <1>1, <1>2

\* Deleting the points of a box empties the box. A deletion by the caller adds
\* them to those that are to be recorded; one by downsampling does not, and may
\* make the tree forget some of those.
IsDeleted(x, u, b, d) == \A q :
  /\ Live(x.t, q) = IF InBox(q, b) THEN 0 ELSE Live(u, q)
  /\ IF d THEN Dead(x.t, q) + Cnt(x.dead, q) =< Dead(u, q)
          ELSE Dead(x.t, q) + Cnt(x.dead, q) = Dead(u, q) + IF InBox(q, b) THEN Live(u, q) ELSE 0

\* Delete_by_range deletes a node's own point exactly when it is in the box, and
\* remembers it as removed unless downsampling asked.
LEMMA CutPoint ==
  ASSUME NEW u, Sound(u), NEW b, NEW d \in BOOLEAN, NEW l, NEW r, NEW q
  PROVE  LET c == DeletePoint(Push_Down(u), b, d, l, r) IN
         /\ OwnLive(c, q) = IF InBox(q, b) THEN 0 ELSE OwnLive(u, q)
         /\ d => OwnDead(c, q) = OwnDead(u, q)
         /\ ~d => OwnDead(c, q) = OwnDead(u, q) + IF InBox(q, b) THEN OwnLive(u, q) ELSE 0
<1> DEFINE p == Push_Down(u)
           c == DeletePoint(p, b, d, l, r)
           hit == ~p.pdel /\ InBox(p.pt, b)
<1>1. IsPushDown(p, u) /\ Inherits(u) /\ IsNode(p)
  BY TreeNumbers, SoundIsNode
<1> HIDE DEF p
<1>2. c = [p EXCEPT !.pdel = @ \/ hit, !.pdown = @ \/ (hit /\ d), !.left = l, !.right = r]
  BY DEF DeletePoint
<1> HIDE DEF c, hit
<1>3. c.pt = p.pt /\ c.pdel = (p.pdel \/ hit) /\ c.pdown = (p.pdown \/ (hit /\ d))
  BY <1>1, <1>2 DEF IsNode, Fields
<1>4. p.pt = u.pt /\ (p.pdel <=> u.pdel) /\ (p.pdown <=> u.pdown) /\ (u.pdown => u.pdel)
  BY <1>1 DEF IsPushDown, Inherits
<1>5. /\ c.pt = u.pt
      /\ c.pdel <=> u.pdel \/ InBox(u.pt, b)
      /\ c.pdown <=> u.pdown \/ (~u.pdel /\ InBox(u.pt, b) /\ d)
  BY <1>3, <1>4 DEF hit
<1> DEFINE Cut == /\ OwnLive(c, q) = IF InBox(q, b) THEN 0 ELSE OwnLive(u, q)
                  /\ d => OwnDead(c, q) = OwnDead(u, q)
                  /\ ~d => OwnDead(c, q) = OwnDead(u, q) + IF InBox(q, b) THEN OwnLive(u, q) ELSE 0
<1>6. CASE u.pt # q
  <2>1. /\ OwnLive(c, q) = 0 /\ OwnDead(c, q) = 0
        /\ OwnLive(u, q) = 0 /\ OwnDead(u, q) = 0
    BY <1>5, <1>6 DEF OwnLive, OwnDead, One
  <2>2. Cut
    BY <2>1
  <2> QED
    BY <2>2 DEF c, p
<1>7. CASE u.pt = q /\ u.pdel
  <2>1. c.pdel /\ (c.pdown <=> u.pdown) /\ c.pt = q
    BY <1>5, <1>7
  <2>2. OwnLive(c, q) = 0 /\ OwnLive(u, q) = 0
    BY <1>7, <2>1 DEF OwnLive, One
  <2>3. OwnDead(c, q) = OwnDead(u, q) /\ OwnDead(u, q) \in Nat
    BY <1>7, <2>1 DEF OwnDead, One
  <2>4. Cut
    BY <2>2, <2>3
  <2> QED
    BY <2>4 DEF c, p
<1>8. CASE u.pt = q /\ ~u.pdel
  <2>1. ~u.pdown /\ (c.pdel <=> InBox(q, b)) /\ (c.pdown <=> InBox(q, b) /\ d) /\ c.pt = q
    BY <1>4, <1>5, <1>8
  <2>2. OwnLive(u, q) = 1 /\ OwnDead(u, q) = 0
    BY <1>8 DEF OwnLive, OwnDead, One
  <2>3. OwnLive(c, q) = (IF InBox(q, b) THEN 0 ELSE 1)
    BY <2>1 DEF OwnLive, One
  <2>4. OwnDead(c, q) = (IF InBox(q, b) /\ ~d THEN 1 ELSE 0)
    BY <2>1 DEF OwnDead, One
  <2>5. Cut
    BY <2>2, <2>3, <2>4
  <2> QED
    BY <2>5 DEF c, p
<1> QED
  BY <1>6, <1>7, <1>8

\* After that the node is ready for Update.
LEMMA CutIsReady ==
  ASSUME NEW t, Sound(t), NEW b, NEW d \in BOOLEAN, NEW l, NEW r,
         SoundOrNil(l), t.left = Nil => l = Nil,
         SoundOrNil(r), t.right = Nil => r = Nil
  PROVE  LET c == DeletePoint(Push_Down(t), b, d, l, r) IN
         Ready(c) /\ c.left = l /\ c.right = r
<1> DEFINE q == Push_Down(t)
           u == DeletePoint(q, b, d, l, r)
           hit == ~q.pdel /\ InBox(q.pt, b)
<1>1. /\ IsNode(q) /\ Inherits(q)
      /\ q.left = Nil <=> t.left = Nil
      /\ q.right = Nil <=> t.right = Nil
      /\ q.pushL => q.left = Nil
      /\ q.pushR => q.right = Nil
  BY OpenedNode
<1> HIDE DEF q
<1>2. u = [q EXCEPT !.pdel = @ \/ hit, !.pdown = @ \/ (hit /\ d), !.left = l, !.right = r]
  BY DEF DeletePoint
<1>3. hit \in BOOLEAN
  BY DEF InBox
<1> HIDE DEF u, hit
<1>4. /\ IsNode(u) /\ u.left = l /\ u.right = r
      /\ u.pdel = (q.pdel \/ hit) /\ u.pdown = (q.pdown \/ (hit /\ d))
      /\ u.pushL = q.pushL /\ u.pushR = q.pushR
  BY <1>1, <1>2, <1>3 DEF IsNode, Fields
<1>5. Ready(u)
  BY <1>1, <1>4 DEF Ready, SoundOrNil, Sons, Inherits
<1> QED
  BY <1>4, <1>5 DEF u, q

\* The node u itself, and its opened sons.
LEMMA CutIsDeleted ==
  ASSUME NEW u, Sound(u), ~u.tdel, NEW b, ~Covers(b, u), NEW d \in BOOLEAN,
         b.min \in Point, b.max \in Point,
         NEW x, IsCleared(x, Push_Down(u).left, b), IsDeleted(x, Push_Down(u).left, b, d),
         NEW y, IsCleared(y, Push_Down(u).right, b), IsDeleted(y, Push_Down(u).right, b, d),
         NEW v \in Leave(DeletePoint(Push_Down(u), b, d, x.t, y.t), x.dead \o y.dead)
  PROVE  IsDeleted(v, u, b, d)
<1> DEFINE r == Push_Down(u)
           c == DeletePoint(r, b, d, x.t, y.t)
           k == Update(c)
           dead == x.dead \o y.dead
<1>1. Sound(k) /\ ~k.tdel
  BY CutLeavesPoint
<1>2. /\ x.dead \in Seq(Point) /\ y.dead \in Seq(Point) /\ dead \in Seq(Point)
      /\ SoundOrNil(x.t) /\ SoundOrNil(y.t)
  BY DEF IsCleared
<1>3. Ready(c) /\ c.left = x.t /\ c.right = y.t
  BY <1>2, OpenedNode, CutIsReady DEF IsCleared
<1>4. ASSUME NEW q
      PROVE  /\ Live(v.t, q) = OwnLive(c, q) + Live(x.t, q) + Live(y.t, q)
             /\ Dead(v.t, q) + Cnt(v.dead, q)
                  = OwnDead(c, q) + Dead(x.t, q) + Dead(y.t, q) + (Cnt(x.dead, q) + Cnt(y.dead, q))
  <2>1. /\ Live(k, q) = OwnLive(c, q) + Live(x.t, q) + Live(y.t, q)
        /\ Dead(k, q) = OwnDead(c, q) + Dead(x.t, q) + Dead(y.t, q)
    BY <1>3, UpdatedCounts
  <2>2. Cnt(dead, q) = Cnt(x.dead, q) + Cnt(y.dead, q)
    BY <1>2, CountOfTwo
  <2>3. /\ Live(v.t, q) = Live(k, q)
        /\ Dead(v.t, q) + Cnt(v.dead, q) = Dead(k, q) + Cnt(dead, q)
    <3>1. v \in Leave(c, dead)
      OBVIOUS
    <3> HIDE DEF c, dead
    <3> QED
      BY <1>1, <1>2, <3>1, LeftCounts
  <2> HIDE DEF c, k, dead
  <2> QED
    BY <2>1, <2>2, <2>3
<1>5. ASSUME NEW q
      PROVE  /\ Live(v.t, q) = IF InBox(q, b) THEN 0 ELSE Live(u, q)
             /\ IF d THEN Dead(v.t, q) + Cnt(v.dead, q) =< Dead(u, q)
                     ELSE Dead(v.t, q) + Cnt(v.dead, q)
                            = Dead(u, q) + IF InBox(q, b) THEN Live(u, q) ELSE 0
  <2>1. /\ Live(u, q) = OwnLive(u, q) + Live(r.left, q) + Live(r.right, q)
        /\ Dead(u, q) = OwnDead(u, q) + Dead(r.left, q) + Dead(r.right, q)
        /\ Live(r.left, q) \in Nat /\ Live(r.right, q) \in Nat
        /\ Dead(r.left, q) \in Nat /\ Dead(r.right, q) \in Nat
        /\ OwnLive(u, q) \in Nat /\ OwnDead(u, q) \in Nat
    BY CountsOfNode, OwnIsNat
  <2>2. /\ OwnLive(c, q) = IF InBox(q, b) THEN 0 ELSE OwnLive(u, q)
        /\ d => OwnDead(c, q) = OwnDead(u, q)
        /\ ~d => OwnDead(c, q) = OwnDead(u, q) + IF InBox(q, b) THEN OwnLive(u, q) ELSE 0
    BY CutPoint
  <2>3. /\ Live(x.t, q) = IF InBox(q, b) THEN 0 ELSE Live(r.left, q)
        /\ Live(y.t, q) = IF InBox(q, b) THEN 0 ELSE Live(r.right, q)
    BY DEF IsDeleted
  <2>4. /\ Dead(x.t, q) \in Nat /\ Dead(y.t, q) \in Nat
        /\ Cnt(x.dead, q) \in Nat /\ Cnt(y.dead, q) \in Nat
    BY <1>2, CountsAreNat, CountIsNat
  <2>5. d => /\ Dead(x.t, q) + Cnt(x.dead, q) =< Dead(r.left, q)
             /\ Dead(y.t, q) + Cnt(y.dead, q) =< Dead(r.right, q)
    BY DEF IsDeleted
  <2>6. ~d => /\ Dead(x.t, q) + Cnt(x.dead, q)
                   = Dead(r.left, q) + IF InBox(q, b) THEN Live(r.left, q) ELSE 0
              /\ Dead(y.t, q) + Cnt(y.dead, q)
                   = Dead(r.right, q) + IF InBox(q, b) THEN Live(r.right, q) ELSE 0
    BY DEF IsDeleted
  <2> HIDE DEF c, r
  <2>7. Live(v.t, q) = IF InBox(q, b) THEN 0 ELSE Live(u, q)
    BY <1>4, <2>1, <2>2, <2>3
  <2>8. CASE d
    BY <1>4, <2>1, <2>2, <2>4, <2>5, <2>7, <2>8
  <2>9. CASE ~d
    <3>1. CASE InBox(q, b)
      BY <1>4, <2>1, <2>2, <2>4, <2>6, <2>7, <2>9, <3>1
    <3>2. CASE ~InBox(q, b)
      BY <1>4, <2>1, <2>2, <2>4, <2>6, <2>7, <2>9, <3>2
    <3> QED
      BY <3>1, <3>2
  <2> QED
    BY <2>8, <2>9
<1> QED
  BY <1>5 DEF IsDeleted

\* Delete_by_range deletes every copy of every live point of the box and nothing
\* else, and each deleted point is recorded exactly once unless downsampling asked,
\* whatever subtrees are rebuilt on the way.
THEOREM DeletionIsExact ==
  ASSUME NEW t, SoundOrNil(t), NEW b, b.min \in Point, b.max \in Point, NEW d \in BOOLEAN
  PROVE  \A x \in Delete_by_range(t, b, d) : IsDeleted(x, t, b, d)
<1> DEFINE Del(u) == Delete_by_range(u, b, d)
           Q == {u \in Visited(t) : \A x \in Del(u) : IsDeleted(x, u, b, d)}
<1>1. Nil \in Q
  <2>1. Nil \in Visited(t) /\ SoundOrNil(Nil)
    BY VisitedTrees DEF SoundOrNil
  <2>2. Del(Nil) = {Result(Nil, <<>>)}
    BY <2>1, DeleteUnfolds
  <2>3. ASSUME NEW x \in Del(Nil) PROVE IsDeleted(x, Nil, b, d)
    <3>1. x.t = Nil /\ x.dead = <<>>
      BY <2>2 DEF Result
    <3> QED
      BY <3>1, NilIsEmpty, CountOfNone DEF IsDeleted
  <2> QED
    BY <2>1, <2>3
<1>2. ASSUME NEW u \in Visited(t), Sound(u), Push_Down(u).left \in Q, Push_Down(u).right \in Q,
             NEW v \in Del(u)
      PROVE  IsDeleted(v, u, b, d)
  <2> DEFINE r == Push_Down(u)
  <2>1. Del(u) = DeleteNode(u, b, d, Del(r.left), Del(r.right))
    BY <1>2, DeleteUnfolds, NodeIsNotNil, SoundIsNode DEF SoundOrNil
  <2>2. /\ Sound(r) /\ SameCounts(r, u)
        /\ Covers(b, r) <=> Covers(b, u)
        /\ SoundOrNil(r.left) /\ SoundOrNil(r.right)
    BY <1>2, OpenedNode, PushDownCounts, TreeNumbers DEF IsPushDown, Covers
  <2>3. ASSUME NEW q
        PROVE  /\ Live(r, q) = Live(u, q) /\ Dead(r, q) = Dead(u, q)
               /\ Live(u, q) \in Nat /\ Dead(u, q) \in Nat
    BY <1>2, <2>2, CountsAreNat DEF SameCounts, SoundOrNil
  <2>4. ASSUME NEW w, v = Result(w, <<>>), SameCounts(w, u),
               \A q : InBox(q, b) => Live(u, q) = 0
        PROVE  IsDeleted(v, u, b, d)
    <3>1. v.t = w /\ v.dead = <<>>
      BY <2>4 DEF Result
    <3>2. ASSUME NEW q
          PROVE  /\ Live(v.t, q) = Live(u, q) /\ Dead(v.t, q) = Dead(u, q)
                 /\ Cnt(v.dead, q) = 0
      BY <2>4, <3>1, CountOfNone DEF SameCounts
    <3>3. ASSUME NEW q
          PROVE  /\ Live(v.t, q) = IF InBox(q, b) THEN 0 ELSE Live(u, q)
                 /\ Dead(v.t, q) + Cnt(v.dead, q) = Dead(u, q)
                 /\ Dead(u, q) = Dead(u, q) + IF InBox(q, b) THEN Live(u, q) ELSE 0
      BY <2>3, <2>4, <3>2
    <3>4. ASSUME NEW q PROVE Dead(v.t, q) + Cnt(v.dead, q) =< Dead(u, q)
      BY <2>3, <3>3
    <3> QED
      BY <3>3, <3>4 DEF IsDeleted
  <2>5. CASE u.tdel
    <3>1. v = Result(u, <<>>)
      BY <2>1, <2>5 DEF DeleteNode
    <3> QED
      BY <1>2, <2>4, <2>5, <3>1, SameAsItself, DeletedIsEmpty
  <2>6. CASE ~u.tdel /\ Outside(r, b)
    <3>1. v = Result(r, <<>>)
      BY <2>1, <2>6 DEF DeleteNode
    <3>2. ASSUME NEW q, InBox(q, b) PROVE Live(u, q) = 0
      <4>1. ~(Live(r, q) > 0)
        BY <2>2, <2>6, <3>2, BoxHolds DEF SoundOrNil
      <4> QED
        BY <2>3, <4>1
    <3> QED
      BY <2>2, <2>4, <3>1, <3>2
  <2>7. CASE ~u.tdel /\ ~Outside(r, b) /\ Covers(b, r)
    <3>1. v = Result(DeleteAll(r, d), <<>>)
      BY <2>1, <2>7 DEF DeleteNode
    <3>2. v.t = DeleteAll(r, d) /\ v.dead = <<>>
      BY <3>1 DEF Result
    <3>3. ASSUME NEW q
          PROVE  /\ Live(v.t, q) = 0
                 /\ Dead(v.t, q) = IF d THEN 0 ELSE Live(u, q) + Dead(u, q)
                 /\ Cnt(v.dead, q) = 0
      BY <2>2, <2>3, <3>2, DeletedCounts, CountOfNone
    <3>4. ASSUME NEW q, ~InBox(q, b) PROVE Live(u, q) = 0
      <4>1. ~(Live(r, q) > 0)
        BY <2>2, <2>7, <3>4, BoxHolds DEF SoundOrNil
      <4> QED
        BY <2>3, <4>1
    <3>5. ASSUME NEW q
          PROVE  /\ Live(v.t, q) = IF InBox(q, b) THEN 0 ELSE Live(u, q)
                 /\ d => Dead(v.t, q) + Cnt(v.dead, q) =< Dead(u, q)
                 /\ ~d => Dead(v.t, q) + Cnt(v.dead, q)
                            = Dead(u, q) + IF InBox(q, b) THEN Live(u, q) ELSE 0
      <4>1. Live(v.t, q) = IF InBox(q, b) THEN 0 ELSE Live(u, q)
        BY <3>3, <3>4
      <4>2. d => Dead(v.t, q) + Cnt(v.dead, q) =< Dead(u, q)
        BY <2>3, <3>3
      <4>3. ~d => Dead(v.t, q) + Cnt(v.dead, q) = Dead(u, q) + Live(u, q)
        BY <2>3, <3>3
      <4> QED
        BY <3>4, <4>1, <4>2, <4>3
    <3> QED
      BY <3>5 DEF IsDeleted
  <2>8. CASE ~u.tdel /\ ~Outside(r, b) /\ ~Covers(b, r)
    <3> DEFINE X == Del(r.left)
               Y == Del(r.right)
    <3>1. v \in DeleteCut(r, b, d, X, Y)
      BY <2>1, <2>8 DEF DeleteNode
    <3>2. \A x \in X : IsDeleted(x, r.left, b, d) /\ IsCleared(x, r.left, b)
      BY <1>2, <2>2, DeletionKeepsTree
    <3>3. \A y \in Y : IsDeleted(y, r.right, b, d) /\ IsCleared(y, r.right, b)
      BY <1>2, <2>2, DeletionKeepsTree
    <3> HIDE DEF X, Y
    <3>4. PICK x \in X, y \in Y :
            v \in Leave(DeletePoint(r, b, d, x.t, y.t), x.dead \o y.dead)
      BY <3>1, CutMeans
    <3> QED
      BY <1>2, <2>2, <2>8, <3>2, <3>3, <3>4, CutIsDeleted
  <2> QED
    BY <2>5, <2>6, <2>7, <2>8
<1>3. ASSUME NEW u \in Visited(t), Sound(u), Push_Down(u).left \in Q, Push_Down(u).right \in Q
      PROVE  u \in Q
  BY <1>2, <1>3
<1> HIDE DEF Q
<1>4. \A u \in Visited(t) : u \in Q
  BY <1>1, <1>3, TreeInduction
<1> QED
  BY <1>4, VisitedTrees DEF Q

\* Adding p adds one live point p and nothing else, whatever is rebuilt on the way.
AddsOne(v, u, p) == \A q :
  /\ Live(v.t, q) = Live(u, q) + One(p = q)
  /\ Dead(v.t, q) + Cnt(v.dead, q) = Dead(u, q)

\* A node that gets a new son from Add_by_point is ready for Update.
LEMMA NewSonIsReady ==
  ASSUME NEW u, Sound(u), NEW x, Sound(x), NEW left \in BOOLEAN,
         (IF left THEN Push_Down(u).left ELSE Push_Down(u).right) = Nil => Fresh(x)
  PROVE  LET r == Push_Down(u)
             c == IF left THEN [r EXCEPT !.left = x] ELSE [r EXCEPT !.right = x] IN
         /\ Ready(c) /\ c.pt = u.pt /\ c.pdel = u.pdel /\ c.pdown = u.pdown
         /\ c.left = (IF left THEN x ELSE r.left)
         /\ c.right = (IF left THEN r.right ELSE x)
<1> DEFINE r == Push_Down(u)
           c == IF left THEN [r EXCEPT !.left = x] ELSE [r EXCEPT !.right = x]
<1>1. /\ IsNode(r) /\ Inherits(r)
      /\ r.pushL => r.left = Nil
      /\ r.pushR => r.right = Nil
      /\ SoundOrNil(r.left) /\ SoundOrNil(r.right)
  BY OpenedNode
<1>2. IsPushDown(r, u)
  BY TreeNumbers
<1>3. (IF left THEN r.left ELSE r.right) = Nil => Fresh(x)
  OBVIOUS
<1> HIDE DEF r
<1>4. /\ IsNode(c)
      /\ c.left = (IF left THEN x ELSE r.left)
      /\ c.right = (IF left THEN r.right ELSE x)
      /\ c.pt = r.pt /\ c.pdel = r.pdel /\ c.pdown = r.pdown
      /\ c.pushL = r.pushL /\ c.pushR = r.pushR
  <2>1. CASE left
    BY <1>1, <2>1 DEF IsNode, Fields
  <2>2. CASE ~left
    BY <1>1, <2>2 DEF IsNode, Fields
  <2> QED
    BY <2>1, <2>2
<1> HIDE DEF c
<1>5. Ready(c)
  BY <1>1, <1>3, <1>4 DEF Ready, SoundOrNil, Sons, Inherits
<1>6. c.pt = u.pt /\ c.pdel = u.pdel /\ c.pdown = u.pdown
  BY <1>2, <1>4 DEF IsPushDown
<1> QED
  BY <1>4, <1>5, <1>6 DEF c, r

\* The counts of a node c that is u with another son.
LEMMA NewSonCounts ==
  ASSUME NEW u, Sound(u), NEW c, Ready(c),
         c.pt = u.pt, c.pdel = u.pdel, c.pdown = u.pdown,
         NEW y, NEW s,
         \/ c.left = y /\ c.right = Push_Down(u).right /\ s = Push_Down(u).left
         \/ c.left = Push_Down(u).left /\ c.right = y /\ s = Push_Down(u).right,
         NEW q, NEW n \in Nat, NEW m \in Nat, SoundOrNil(y),
         Live(y, q) = Live(s, q) + n, Dead(y, q) + m = Dead(s, q)
  PROVE  /\ Live(Update(c), q) = Live(u, q) + n
         /\ Dead(Update(c), q) + m = Dead(u, q)
<1> DEFINE r == Push_Down(u)
<1>1. /\ Live(Update(c), q) = OwnLive(c, q) + Live(c.left, q) + Live(c.right, q)
      /\ Dead(Update(c), q) = OwnDead(c, q) + Dead(c.left, q) + Dead(c.right, q)
  BY UpdatedCounts
<1>2. OwnLive(c, q) = OwnLive(u, q) /\ OwnDead(c, q) = OwnDead(u, q)
  BY DEF OwnLive, OwnDead
<1>3. /\ Live(u, q) = OwnLive(u, q) + Live(r.left, q) + Live(r.right, q)
      /\ Dead(u, q) = OwnDead(u, q) + Dead(r.left, q) + Dead(r.right, q)
      /\ Live(r.left, q) \in Nat /\ Live(r.right, q) \in Nat
      /\ Dead(r.left, q) \in Nat /\ Dead(r.right, q) \in Nat
      /\ OwnLive(u, q) \in Nat /\ OwnDead(u, q) \in Nat
  BY CountsOfNode, OwnIsNat
<1>4. Live(y, q) \in Nat /\ Dead(y, q) \in Nat
  BY CountsAreNat
<1>5. \/ c.left = y /\ c.right = r.right /\ s = r.left
      \/ c.left = r.left /\ c.right = y /\ s = r.right
  OBVIOUS
<1> HIDE DEF r
<1> QED
  BY <1>1, <1>2, <1>3, <1>4, <1>5

\* If the son gained one point p, so does the tree that Add_by_point leaves here.
LEMMA NewSonAddsOne ==
  ASSUME NEW u, Sound(u), NEW p, NEW x, Sound(x.t), ~x.t.tdel, x.dead \in Seq(Point),
         NEW left \in BOOLEAN, NEW s,
         s = (IF left THEN Push_Down(u).left ELSE Push_Down(u).right),
         s = Nil => Fresh(x.t), AddsOne(x, s, p),
         NEW v,
         v \in Leave(IF left THEN [Push_Down(u) EXCEPT !.left = x.t]
                             ELSE [Push_Down(u) EXCEPT !.right = x.t], x.dead)
  PROVE  AddsOne(v, u, p)
<1> DEFINE r == Push_Down(u)
           y == x.t
           dead == x.dead
           c == IF left THEN [r EXCEPT !.left = y] ELSE [r EXCEPT !.right = y]
<1>1. /\ Ready(c) /\ c.pt = u.pt /\ c.pdel = u.pdel /\ c.pdown = u.pdown
      /\ c.left = (IF left THEN y ELSE r.left)
      /\ c.right = (IF left THEN r.right ELSE y)
  BY NewSonIsReady
<1>2. v \in Leave(c, dead)
  OBVIOUS
<1>3. \A q : /\ Live(y, q) = Live(s, q) + One(p = q)
             /\ Dead(y, q) + Cnt(dead, q) = Dead(s, q)
  BY DEF AddsOne
<1> HIDE DEF c
<1>4. Sound(Update(c)) /\ ~Update(c).tdel
  <2>1. Sound(Update(c))
    BY <1>1, UpdateKeepsTree
  <2>2. IsNode(y) /\ y # Nil
    BY SoundIsNode
  <2>3. y \in Sons(c)
    BY <1>1, <2>2 DEF Sons
  <2>4. IsUpdate(Update(c), c)
    <3>1. \A w \in Sons(c) : IsNode(w)
      BY <1>1, SoundIsNode DEF Ready
    <3> QED
      BY <1>1, <3>1, UpdateFields DEF Ready
  <2> QED
    BY <2>1, <2>3, <2>4 DEF IsUpdate
<1>5. ASSUME NEW q
      PROVE  /\ Live(v.t, q) = Live(u, q) + One(p = q)
             /\ Dead(v.t, q) + Cnt(v.dead, q) = Dead(u, q)
  <2>1. /\ Live(v.t, q) = Live(Update(c), q)
        /\ Dead(v.t, q) + Cnt(v.dead, q) = Dead(Update(c), q) + Cnt(dead, q)
    BY <1>2, <1>4, LeftCounts
  <2>2. /\ Live(y, q) = Live(s, q) + One(p = q)
        /\ Dead(y, q) + Cnt(dead, q) = Dead(s, q)
    BY <1>3
  <2>3. One(p = q) \in Nat /\ Cnt(dead, q) \in Nat
    BY CountIsNat DEF One
  <2>4. \/ c.left = y /\ c.right = r.right /\ s = r.left
        \/ c.left = r.left /\ c.right = y /\ s = r.right
    BY <1>1
  <2>5. /\ Live(Update(c), q) = Live(u, q) + One(p = q)
        /\ Dead(Update(c), q) + Cnt(dead, q) = Dead(u, q)
    BY <1>1, <2>2, <2>3, <2>4, NewSonCounts DEF SoundOrNil
  <2> QED
    BY <2>1, <2>5
<1> QED
  BY <1>5 DEF AddsOne

\* The leaf that Add_by_point makes adds one point to the null pointer.
LEMMA LeafAddsOne ==
  ASSUME NEW p \in Point, NEW axis \in Axis, NEW x,
         x.t = Node(p, axis, Nil, Nil), x.dead = <<>>
  PROVE  AddsOne(x, Nil, p)
<1>1. ASSUME NEW q
      PROVE  /\ Live(x.t, q) = Live(Nil, q) + One(p = q)
             /\ Dead(x.t, q) + Cnt(x.dead, q) = Dead(Nil, q)
  <2>1. /\ Live(x.t, q) = One(p = q) + Live(Nil, q) + Live(Nil, q)
        /\ Dead(x.t, q) = Dead(Nil, q) + Dead(Nil, q)
    BY NodeCounts DEF SoundOrNil
  <2>2. Live(Nil, q) = 0 /\ Dead(Nil, q) = 0 /\ Cnt(x.dead, q) = 0 /\ One(p = q) \in Nat
    BY NilIsEmpty, CountOfNone DEF One
  <2> QED
    BY <2>1, <2>2
<1> QED
  BY <1>1 DEF AddsOne

\* Add_by_point adds exactly one live copy of its point and loses neither a point nor
\* the record of a removed one, whatever subtrees are rebuilt on the way.
THEOREM AdditionIsExact ==
  ASSUME NEW t, Sound(t), NEW p \in Point
  PROVE  \A x \in Add_by_point(t, p) : AddsOne(x, t, p)
<1> DEFINE Added(u) == Add_by_point(u, p)
           Q == {u \in Visited(t) : \A x \in Added(u) : AddsOne(x, u, p)}
<1>1. Nil \in Q
  <2>1. Nil \in Visited(t) /\ SoundOrNil(Nil)
    BY VisitedTrees DEF SoundOrNil
  <2> QED
    BY <2>1, AddUnfolds
<1>2. ASSUME NEW u \in Visited(t), Sound(u), Push_Down(u).left \in Q, Push_Down(u).right \in Q,
             NEW v \in Added(u)
      PROVE  AddsOne(v, u, p)
  <2> DEFINE r == Push_Down(u)
             leaf == Node(p, (r.axis + 1) % 3, Nil, Nil)
             X(s) == IF s = Nil THEN {Result(leaf, <<>>)} ELSE Added(s)
  <2>1. v \in AddNode(u, p, Added(r.left), Added(r.right))
    BY <1>2, AddUnfolds, NodeIsNotNil, SoundIsNode DEF SoundOrNil
  <2>2. /\ Sound(leaf) /\ Fresh(leaf) /\ ~leaf.tdel
        /\ \A x : x.t = leaf /\ x.dead = <<>> => AddsOne(x, Nil, p)
    <3>1. (r.axis + 1) % 3 \in Axis
      BY <1>2, TreeNumbers DEF IsNode, Axis
    <3>2. ASSUME NEW x, x.t = leaf, x.dead = <<>> PROVE AddsOne(x, Nil, p)
      BY <3>1, <3>2, LeafAddsOne
    <3> QED
      BY <3>1, <3>2, LeafIsTree
  <2>3. SoundOrNil(r.left) /\ SoundOrNil(r.right)
    BY <1>2, TreeNumbers
  <2> HIDE DEF leaf
  <2>4. ASSUME NEW s \in {r.left, r.right}, NEW x \in X(s)
        PROVE  /\ Sound(x.t) /\ ~x.t.tdel /\ x.dead \in Seq(Point)
               /\ s = Nil => Fresh(x.t)
               /\ AddsOne(x, s, p)
    <3>1. CASE s = Nil
      <4>1. x.t = leaf /\ x.dead = <<>>
        BY <2>4, <3>1 DEF Result
      <4>2. x.dead \in Seq(Point)
        BY <4>1
      <4> QED
        BY <2>2, <3>1, <4>1, <4>2
    <3>2. CASE s # Nil
      <4>1. x \in Added(s) /\ AddsOne(x, s, p)
        BY <1>2, <2>4, <3>2
      <4>2. IsAdded(x, s)
        BY <2>3, <2>4, <3>2, <4>1, AdditionKeepsTree DEF SoundOrNil
      <4> QED
        BY <3>2, <4>1, <4>2 DEF IsAdded
    <3> QED
      BY <3>1, <3>2
  <2>5. \/ \E x \in X(r.left) : v \in Leave([r EXCEPT !.left = x.t], x.dead)
        \/ \E x \in X(r.right) : v \in Leave([r EXCEPT !.right = x.t], x.dead)
    BY <2>1, AddMeans DEF leaf
  <2>6. ASSUME NEW x \in X(r.left), v \in Leave([r EXCEPT !.left = x.t], x.dead)
        PROVE  AddsOne(v, u, p)
    <3>1. /\ Sound(x.t) /\ ~x.t.tdel /\ x.dead \in Seq(Point)
          /\ r.left = Nil => Fresh(x.t)
          /\ AddsOne(x, r.left, p)
      BY <2>4, <2>6
    <3> HIDE DEF X
    <3>2. TRUE \in BOOLEAN
      OBVIOUS
    <3> QED
      BY <1>2, <2>6, <3>1, <3>2, NewSonAddsOne
  <2>7. ASSUME NEW x \in X(r.right), v \in Leave([r EXCEPT !.right = x.t], x.dead)
        PROVE  AddsOne(v, u, p)
    <3>1. /\ Sound(x.t) /\ ~x.t.tdel /\ x.dead \in Seq(Point)
          /\ r.right = Nil => Fresh(x.t)
          /\ AddsOne(x, r.right, p)
      BY <2>4, <2>7
    <3> HIDE DEF X
    <3>2. FALSE \in BOOLEAN
      OBVIOUS
    <3> QED
      BY <1>2, <2>7, <3>1, <3>2, NewSonAddsOne
  <2> QED
    BY <2>5, <2>6, <2>7
<1>3. ASSUME NEW u \in Visited(t), Sound(u), Push_Down(u).left \in Q, Push_Down(u).right \in Q
      PROVE  u \in Q
  BY <1>2, <1>3
<1> HIDE DEF Q
<1>4. \A u \in Visited(t) : u \in Q
  BY <1>1, <1>3, TreeInduction DEF SoundOrNil
<1> QED
  BY <1>4, VisitedTrees DEF Q, SoundOrNil

(***************************************************************************)
(* Bags of points.                                                         *)
(***************************************************************************)
\* How often e is in the bag B; two bags with the same numbers are the same.
Copies(B, e) == IF e \in DOMAIN B THEN B[e] ELSE 0

\* The copies of an element of a bag.
LEMMA CopiesOfBag ==
  ASSUME NEW B, IsABag(B), NEW e
  PROVE  Copies(B, e) \in Nat /\ (Copies(B, e) > 0 <=> e \in DOMAIN B)
BY DEF Copies, IsABag

\* Bags with the same copies are the same.
LEMMA SameBag ==
  ASSUME NEW A, IsABag(A), NEW B, IsABag(B), \A e : Copies(A, e) = Copies(B, e)
  PROVE  A = B
<1>1. \A e : e \in DOMAIN A <=> e \in DOMAIN B
  BY CopiesOfBag
<1>2. DOMAIN A = DOMAIN B
  BY <1>1
<1>3. \A e \in DOMAIN A : A[e] = B[e]
  BY <1>2 DEF Copies
<1> QED
  BY <1>2, <1>3 DEF IsABag

\* The empty bag.
LEMMA BagOfNothing ==
  IsABag(EmptyBag) /\ \A e : Copies(EmptyBag, e) = 0
BY DEF IsABag, EmptyBag, SetToBag, Copies

\* The bag of one element.
LEMMA BagOfSingle ==
  ASSUME NEW p
  PROVE  IsABag(SetToBag({p})) /\ \A e : Copies(SetToBag({p}), e) = One(p = e)
BY DEF IsABag, SetToBag, Copies, One

\* The bag of a sequence counts as the sequence does.
LEMMA BagOfSequence ==
  ASSUME NEW S, NEW s \in Seq(S)
  PROVE  IsABag(BagOfSeq(s)) /\ \A e : Copies(BagOfSeq(s), e) = Cnt(s, e)
<1> DEFINE B == BagOfSeq(s)
<1>1. DOMAIN B = Range(s) /\ \A e \in Range(s) : B[e] = Cnt(s, e)
  BY DEF BagOfSeq, Cnt
<1>2. B = [e \in DOMAIN B |-> B[e]]
  BY DEF BagOfSeq
<1> HIDE DEF B
<1>3. \A e : Cnt(s, e) \in Nat /\ (Cnt(s, e) > 0 <=> e \in Range(s))
  BY CountIsNat
<1>4. IsABag(B)
  BY <1>1, <1>2, <1>3 DEF IsABag
<1>5. ASSUME NEW e PROVE Copies(B, e) = Cnt(s, e)
  <2>1. CASE e \in Range(s)
    BY <1>1, <2>1 DEF Copies
  <2>2. CASE e \notin Range(s)
    BY <1>1, <1>3, <2>2 DEF Copies
  <2> QED
    BY <2>1, <2>2
<1> QED
  BY <1>4, <1>5 DEF B

\* The copies of a sum of bags.
LEMMA BagSum ==
  ASSUME NEW A, IsABag(A), NEW B, IsABag(B)
  PROVE  IsABag(A (+) B) /\ \A e : Copies(A (+) B, e) = Copies(A, e) + Copies(B, e)
<1> DEFINE C == A (+) B
<1>1. /\ C = [e \in DOMAIN C |-> C[e]]
      /\ \A e : e \in DOMAIN C <=> e \in DOMAIN A \/ e \in DOMAIN B
      /\ \A e \in DOMAIN C : C[e] = Copies(A, e) + Copies(B, e)
  BY DEF (+), Copies
<1>2. \A e : /\ Copies(A, e) \in Nat /\ (Copies(A, e) > 0 <=> e \in DOMAIN A)
             /\ Copies(B, e) \in Nat /\ (Copies(B, e) > 0 <=> e \in DOMAIN B)
  BY CopiesOfBag
<1> HIDE DEF C
<1>3. \A e \in DOMAIN C : C[e] \in Nat /\ C[e] > 0
  BY <1>1, <1>2
<1>4. IsABag(C)
  BY <1>1, <1>3 DEF IsABag
<1>5. ASSUME NEW e PROVE Copies(C, e) = Copies(A, e) + Copies(B, e)
  <2>1. CASE e \in DOMAIN C
    BY <1>1, <2>1 DEF Copies
  <2>2. CASE e \notin DOMAIN C
    <3>1. Copies(C, e) = 0 /\ Copies(A, e) = 0 /\ Copies(B, e) = 0
      BY <1>1, <2>2 DEF Copies
    <3> QED
      BY <3>1
  <2> QED
    BY <2>1, <2>2
<1> QED
  BY <1>4, <1>5 DEF C

\* The copies of a difference of bags.
LEMMA BagDifference ==
  ASSUME NEW A, IsABag(A), NEW B, IsABag(B)
  PROVE  /\ IsABag(A (-) B)
         /\ \A e : Copies(A (-) B, e) =
                     IF Copies(A, e) > Copies(B, e) THEN Copies(A, e) - Copies(B, e) ELSE 0
<1> DEFINE C == A (-) B
           D == [e \in DOMAIN A |-> IF e \in DOMAIN B THEN A[e] - B[e] ELSE A[e]]
<1>1. \A e : /\ Copies(A, e) \in Nat /\ (Copies(A, e) > 0 <=> e \in DOMAIN A)
             /\ Copies(B, e) \in Nat /\ (Copies(B, e) > 0 <=> e \in DOMAIN B)
  BY CopiesOfBag
<1>2. DOMAIN D = DOMAIN A /\ \A e \in DOMAIN A : D[e] = Copies(A, e) - Copies(B, e)
  <2>1. DOMAIN D = DOMAIN A
    OBVIOUS
  <2>2. ASSUME NEW e \in DOMAIN A PROVE D[e] = Copies(A, e) - Copies(B, e)
    <3>1. CASE e \in DOMAIN B
      BY <3>1 DEF Copies
    <3>2. CASE e \notin DOMAIN B
      <4>1. D[e] = A[e] /\ Copies(A, e) = A[e] /\ Copies(B, e) = 0
        BY <3>2 DEF Copies
      <4> HIDE DEF D
      <4> QED
        BY <1>1, <4>1
    <3> QED
      BY <3>1, <3>2
  <2> QED
    BY <2>1, <2>2
<1>3. C = [e \in {d \in DOMAIN D : D[d] > 0} |-> D[e]]
  BY DEF (-)
<1> HIDE DEF C, D
<1>4. /\ C = [e \in DOMAIN C |-> C[e]]
      /\ \A e : e \in DOMAIN C <=> e \in DOMAIN A /\ Copies(A, e) > Copies(B, e)
      /\ \A e \in DOMAIN C : C[e] = Copies(A, e) - Copies(B, e)
  <2>1. \A e : e \in DOMAIN C <=> e \in DOMAIN D /\ D[e] > 0
    BY <1>3
  <2>2. C = [e \in DOMAIN C |-> C[e]] /\ \A e \in DOMAIN C : C[e] = D[e]
    BY <1>3
  <2>3. ASSUME NEW e PROVE e \in DOMAIN C <=> e \in DOMAIN A /\ Copies(A, e) > Copies(B, e)
    BY <1>1, <1>2, <2>1
  <2>4. ASSUME NEW e \in DOMAIN C PROVE C[e] = Copies(A, e) - Copies(B, e)
    BY <1>2, <2>1, <2>2
  <2> QED
    BY <2>2, <2>3, <2>4
<1>5. \A e \in DOMAIN C : C[e] \in Nat /\ C[e] > 0
  BY <1>1, <1>4
<1>6. IsABag(C)
  BY <1>4, <1>5 DEF IsABag
<1>7. ASSUME NEW e
      PROVE  Copies(C, e) = IF Copies(A, e) > Copies(B, e) THEN Copies(A, e) - Copies(B, e) ELSE 0
  <2>1. CASE e \in DOMAIN C
    BY <1>4, <2>1 DEF Copies
  <2>2. CASE e \notin DOMAIN C
    <3>1. ~(Copies(A, e) > Copies(B, e))
      BY <1>1, <1>4, <2>2
    <3> QED
      BY <2>2, <3>1 DEF Copies
  <2> QED
    BY <2>1, <2>2
<1> QED
  BY <1>6, <1>7 DEF C

\* A bag with at most the copies of another is part of it.
LEMMA FewerCopies ==
  ASSUME NEW A, IsABag(A), NEW B, IsABag(B), \A e : Copies(A, e) =< Copies(B, e)
  PROVE  A \sqsubseteq B
<1>1. \A e : /\ Copies(A, e) \in Nat /\ (Copies(A, e) > 0 <=> e \in DOMAIN A)
             /\ Copies(B, e) \in Nat /\ (Copies(B, e) > 0 <=> e \in DOMAIN B)
  BY CopiesOfBag
<1>2. ASSUME NEW e \in DOMAIN A PROVE e \in DOMAIN B /\ A[e] =< B[e]
  <2>1. e \in DOMAIN B
    BY <1>1
  <2> QED
    BY <2>1 DEF Copies
<1> QED
  BY <1>2 DEF \sqsubseteq

\* The points of B in a box.
BagInside(B, b) == [p \in {q \in BagToSet(B) : InBox(q, b)} |-> B[p]]

\* The part of a bag that lies in a box.
LEMMA InsideOfBag ==
  ASSUME NEW B, IsABag(B), NEW b
  PROVE  /\ IsABag(BagInside(B, b))
         /\ \A e : Copies(BagInside(B, b), e) = IF InBox(e, b) THEN Copies(B, e) ELSE 0
BY DEF BagInside, BagToSet, IsABag, Copies

(***************************************************************************)
(* The invariant, and the steps of the abstract store.                     *)
(***************************************************************************)
\* The bag B holds the live points of the tree t.
Holds(B, t) == IsABag(B) /\ \A q : Copies(B, q) = Live(t, q)

\* The inductive invariant.
TreeInv ==
  /\ SoundOrNil(tree) /\ Size(tree) =< MaxSize
  /\ IsABag(removed)
  /\ tree = Nil => removed = EmptyBag
  /\ content = BagOfSeq(flatten(tree).live)
  /\ gone = removed (+) BagOfSeq(flatten(tree).dead)

\* What flatten returns of a tree, as bags.
LEMMA TreeBags ==
  ASSUME NEW t, SoundOrNil(t), NEW R, IsABag(R)
  PROVE  /\ Holds(BagOfSeq(flatten(t).live), t)
         /\ IsABag(R (+) BagOfSeq(flatten(t).dead))
         /\ \A q : Copies(R (+) BagOfSeq(flatten(t).dead), q) = Copies(R, q) + Dead(t, q)
<1> DEFINE f == flatten(t)
<1>1. f.live \in Seq(Point) /\ f.dead \in Seq(Point)
  BY FlattenKeepsTree DEF IsFlat
<1>2. \A q : Live(t, q) = Cnt(f.live, q) /\ Dead(t, q) = Cnt(f.dead, q)
  BY DEF Live, Dead
<1> HIDE DEF f
<1>3. /\ IsABag(BagOfSeq(f.live)) /\ \A e : Copies(BagOfSeq(f.live), e) = Cnt(f.live, e)
      /\ IsABag(BagOfSeq(f.dead)) /\ \A e : Copies(BagOfSeq(f.dead), e) = Cnt(f.dead, e)
  BY <1>1, BagOfSequence
<1>4. /\ IsABag(R (+) BagOfSeq(f.dead))
      /\ \A e : Copies(R (+) BagOfSeq(f.dead), e) = Copies(R, e) + Copies(BagOfSeq(f.dead), e)
  BY <1>3, BagSum
<1> QED
  BY <1>2, <1>3, <1>4 DEF f, Holds

\* What the invariant says of the two histories.
LEMMA TreeInvMeans ==
  ASSUME TreeInv
  PROVE  /\ Holds(content, tree)
         /\ IsABag(gone)
         /\ \A q : Copies(gone, q) = Copies(removed, q) + Dead(tree, q)
BY TreeBags DEF TreeInv

\* What Become makes of them.
LEMMA BecomeMeans ==
  ASSUME TreeInv, NEW t, SoundOrNil(t), Size(t) =< MaxSize, NEW dead \in Seq(Point),
         t = Nil => tree = Nil /\ dead = <<>>, Become(t, dead)
  PROVE  /\ TreeInv'
         /\ Holds(content', t)
         /\ IsABag(gone')
         /\ \A q : Copies(gone', q) = Copies(removed, q) + Cnt(dead, q) + Dead(t, q)
<1> DEFINE R == removed (+) BagOfSeq(dead)
<1>1. /\ tree' = t /\ removed' = R
      /\ content' = BagOfSeq(flatten(t).live)
      /\ gone' = R (+) BagOfSeq(flatten(t).dead)
  BY DEF Become
<1>2. IsABag(removed) /\ (tree = Nil => removed = EmptyBag)
  BY DEF TreeInv
<1>3. IsABag(BagOfSeq(dead)) /\ \A q : Copies(BagOfSeq(dead), q) = Cnt(dead, q)
  BY BagOfSequence
<1>4. IsABag(R) /\ \A q : Copies(R, q) = Copies(removed, q) + Cnt(dead, q)
  <2>1. IsABag(R) /\ \A q : Copies(R, q) = Copies(removed, q) + Copies(BagOfSeq(dead), q)
    BY <1>2, <1>3, BagSum
  <2> HIDE DEF R
  <2> QED
    BY <1>3, <2>1
<1> HIDE DEF R
<1>5. t = Nil => R = EmptyBag
  <2>1. SUFFICES ASSUME t = Nil PROVE R = EmptyBag
    OBVIOUS
  <2>2. removed = EmptyBag /\ dead = <<>>
    BY <1>2, <2>1
  <2>3. \A q : Copies(R, q) = Copies(EmptyBag, q)
    BY <1>4, <2>2, CountOfNone, BagOfNothing
  <2> QED
    BY <1>4, <2>3, BagOfNothing, SameBag
<1>6. /\ Holds(content', t) /\ IsABag(gone')
      /\ \A q : Copies(gone', q) = Copies(R, q) + Dead(t, q)
  BY <1>1, <1>4, TreeBags
<1>7. TreeInv'
  BY <1>1, <1>4, <1>5 DEF TreeInv
<1> QED
  BY <1>4, <1>6, <1>7

\* The bags that PointStore speaks of are the ones of this module.
LEMMA SameBags ==
  /\ Store!EmptyBag = EmptyBag
  /\ \A S : Store!SetToBag(S) = SetToBag(S) /\ Store!BagToSet(S) = BagToSet(S)
  /\ \A s : Store!BagOf(s) = BagOfSeq(s)
  /\ \A B, b : Store!Inside(B, b) = BagInside(B, b)
<1>1. \A S : Store!SetToBag(S) = SetToBag(S)
  BY DEF Store!SetToBag, SetToBag
<1>2. \A S : Store!BagToSet(S) = BagToSet(S)
  BY DEF Store!BagToSet, BagToSet
<1>3. Store!EmptyBag = EmptyBag
  BY <1>1 DEF Store!EmptyBag, EmptyBag
<1>4. \A S : Store!Cardinality(S) = Cardinality(S)
  BY DEF Store!Cardinality, Cardinality
<1>5. \A s : Store!Range(s) = Range(s)
  BY DEF Store!Range, Range
<1>6. \A s : Store!BagOf(s) = BagOfSeq(s)
  BY <1>4, <1>5 DEF Store!BagOf, BagOfSeq
<1>7. \A B, b : Store!Inside(B, b) = BagInside(B, b)
  BY <1>2 DEF Store!Inside, BagInside
<1> QED
  BY <1>1, <1>2, <1>3, <1>6, <1>7

\* PointStore's sum of bags is the one of this module,
LEMMA SameBagSum == \A A, B : Store!(+)(A, B) = A (+) B
BY DEF Store!(+), (+)

\* its difference too,
LEMMA SameBagDifference == \A A, B : Store!(-)(A, B) = A (-) B
BY DEF Store!(-), (-)

\* and its order.
LEMMA SameBagOrder == \A A, B : A \sqsubseteq B => Store!\sqsubseteq(A, B)
BY DEF Store!\sqsubseteq, \sqsubseteq

\* Every step keeps the invariant, is a step of the store or changes nothing it
\* sees, and leaves a root.
StepIsFine ==
  /\ TreeInv'
  /\ Store!Next \/ UNCHANGED <<content, gone>>
  /\ tree # Nil => tree' # Nil

\* Build starts the store with the points it is given.
LEMMA BuildStep ==
  ASSUME TreeInv, Build
  PROVE  StepIsFine
<1>1. tree = Nil /\ SoundOrNil(tree) /\ removed = EmptyBag
  BY DEF TreeInv, Build
<1>2. PICK s \in Clouds : \E t \in BuildTrees(s, DOMAIN s) : Become(t, <<>>)
  BY DEF Build
<1>3. PICK t \in BuildTrees(s, DOMAIN s) : Become(t, <<>>)
  BY <1>2
<1>4. s \in Seq(Point) /\ Len(s) =< MaxSize
  BY KdTreeAssumption
<1>5. SoundOrNil(t) /\ Size(t) =< MaxSize
  <2>1. IsBuilt(t, DOMAIN s)
    BY <1>4, BuildMakesTree
  <2>2. Cardinality(DOMAIN s) = Len(s) /\ (DOMAIN s = {} => Len(s) = 0)
    <3>1. DOMAIN s = 1..Len(s) /\ Len(s) \in Nat
      BY <1>4
    <3>2. Cardinality(1..Len(s)) = Len(s)
      BY <3>1, UpToCounts, Zenon
    <3>3. 1..Len(s) = {} => Len(s) = 0
      BY <3>1
    <3> QED
      BY <3>1, <3>2, <3>3
  <2>3. MaxSize \in Nat
    BY KdTreeAssumption
  <2>4. CASE DOMAIN s = {}
    <3>1. t = Nil
      BY <2>1, <2>4 DEF IsBuilt
    <3> QED
      BY <2>3, <3>1 DEF SoundOrNil, Size
  <2>5. CASE DOMAIN s # {}
    <3>1. Sound(t) /\ t.size = Cardinality(DOMAIN s)
      BY <2>1, <2>5 DEF IsBuilt
    <3>2. t # Nil
      BY <3>1, SoundIsNode
    <3> QED
      BY <1>4, <2>2, <3>1, <3>2 DEF SoundOrNil, Size
  <2> QED
    BY <2>4, <2>5
<1>6. <<>> \in Seq(Point)
  OBVIOUS
<1>7. /\ TreeInv' /\ Holds(content', t) /\ IsABag(gone')
      /\ \A q : Copies(gone', q) = Copies(removed, q) + Cnt(<<>>, q) + Dead(t, q)
  BY <1>1, <1>3, <1>5, <1>6, BecomeMeans
<1>8. /\ Holds(content, tree) /\ IsABag(gone)
      /\ \A q : Copies(gone, q) = Copies(removed, q) + Dead(tree, q)
  BY TreeInvMeans
<1>9. \A q : Live(t, q) = Cnt(s, q) /\ Dead(t, q) = 0
  BY <1>4, BuiltCounts DEF At, Cnt
<1>10. \A q : Copies(removed, q) = 0 /\ Dead(tree, q) = 0 /\ Live(tree, q) = 0
  BY <1>1, BagOfNothing, NilIsEmpty
<1>11. content = EmptyBag /\ gone = EmptyBag
  <2>1. \A q : Copies(content, q) = Copies(EmptyBag, q)
    BY <1>8, <1>10, BagOfNothing DEF Holds
  <2>2. \A q : Copies(gone, q) = Copies(EmptyBag, q)
    BY <1>8, <1>10, BagOfNothing
  <2> QED
    BY <1>8, <2>1, <2>2, BagOfNothing, SameBag DEF Holds
<1>12. gone' = gone
  <2>1. \A q : Copies(gone', q) = Copies(EmptyBag, q)
    BY <1>7, <1>9, <1>10, CountOfNone, BagOfNothing
  <2> QED
    BY <1>7, <1>11, <2>1, BagOfNothing, SameBag
<1>13. content' = BagOfSeq(s)
  <2>1. IsABag(BagOfSeq(s)) /\ \A q : Copies(BagOfSeq(s), q) = Cnt(s, q)
    BY <1>4, BagOfSequence
  <2> QED
    BY <1>7, <1>9, <2>1, SameBag DEF Holds
<1>14. Store!Build
  BY <1>11, <1>12, <1>13, SameBags DEF Store!Build
<1> QED
  BY <1>1, <1>7, <1>14 DEF StepIsFine, Store!Next

\* Add without downsampling adds one point to the store.
LEMMA AddStep ==
  ASSUME TreeInv, Add
  PROVE  StepIsFine
<1>1. /\ Sound(tree) /\ Size(tree) < MaxSize /\ tree # Nil
      /\ Size(tree) \in Nat /\ MaxSize \in Nat
  BY KdTreeAssumption, SizeOfTree DEF TreeInv, SoundOrNil, Add, Room, Size
<1>2. PICK p \in Points : \E x \in Add_by_point(tree, p) : Become(x.t, x.dead)
  BY DEF Add
<1>3. PICK x \in Add_by_point(tree, p) : Become(x.t, x.dead)
  BY <1>2
<1>4. p \in Point
  BY KdTreeAssumption
<1>5. IsAdded(x, tree) /\ AddsOne(x, tree, p)
  BY <1>1, <1>4, AdditionKeepsTree, AdditionIsExact
<1>6. Sound(x.t) /\ x.t # Nil /\ Size(x.t) =< MaxSize /\ x.dead \in Seq(Point)
  <2>1. Sound(x.t) /\ x.t # Nil /\ x.t.size \in Nat /\ x.t.size =< Size(tree) + 1
        /\ x.dead \in Seq(Point)
    BY <1>5, SoundIsNode, SettledRoot DEF IsAdded
  <2> QED
    BY <1>1, <2>1 DEF Size
<1>7. /\ TreeInv' /\ Holds(content', x.t) /\ IsABag(gone')
      /\ \A q : Copies(gone', q) = Copies(removed, q) + Cnt(x.dead, q) + Dead(x.t, q)
  BY <1>3, <1>6, BecomeMeans DEF SoundOrNil
<1>8. /\ Holds(content, tree) /\ IsABag(gone)
      /\ \A q : Copies(gone, q) = Copies(removed, q) + Dead(tree, q)
  BY TreeInvMeans
<1>9. content' = content (+) SetToBag({p})
  <2>1. IsABag(SetToBag({p})) /\ \A q : Copies(SetToBag({p}), q) = One(p = q)
    BY BagOfSingle
  <2>2. /\ IsABag(content (+) SetToBag({p}))
        /\ \A q : Copies(content (+) SetToBag({p}), q) = Copies(content, q) + Copies(SetToBag({p}), q)
    BY <1>8, <2>1, BagSum DEF Holds
  <2>3. ASSUME NEW q PROVE Copies(content', q) = Copies(content (+) SetToBag({p}), q)
    BY <1>5, <1>7, <1>8, <2>1, <2>2 DEF Holds, AddsOne
  <2> QED
    BY <1>7, <2>2, <2>3, SameBag DEF Holds
<1>10. gone' = gone
  <2>1. ASSUME NEW q PROVE Copies(gone', q) = Copies(gone, q)
    <3>1. Dead(x.t, q) + Cnt(x.dead, q) = Dead(tree, q)
      BY <1>5 DEF AddsOne
    <3>2. Dead(x.t, q) \in Nat /\ Cnt(x.dead, q) \in Nat /\ Copies(removed, q) \in Nat
      BY <1>6, CountsAreNat, CountIsNat, CopiesOfBag DEF SoundOrNil, TreeInv
    <3> QED
      BY <1>7, <1>8, <3>1, <3>2
  <2> QED
    BY <1>7, <1>8, <2>1, SameBag
<1>11. tree' = x.t
  BY <1>3 DEF Become
<1>12. Store!Add
  BY <1>9, <1>10, SameBags, SameBagSum DEF Store!Add
<1> QED
  BY <1>6, <1>7, <1>11, <1>12 DEF StepIsFine, Store!Next

\* Delete_Point_Boxes deletes the points of the box from the store and records them.
LEMMA DeleteBoxStep ==
  ASSUME TreeInv, DeleteBox
  PROVE  StepIsFine
<1>1. SoundOrNil(tree) /\ Size(tree) =< MaxSize /\ tree # Nil /\ MaxSize \in Nat
  BY KdTreeAssumption DEF TreeInv, DeleteBox
<1>2. PICK b \in Boxes : \E x \in Delete_by_range(tree, b, FALSE) : Become(x.t, x.dead)
  BY DEF DeleteBox
<1>3. PICK x \in Delete_by_range(tree, b, FALSE) : Become(x.t, x.dead)
  BY <1>2
<1>4. b.min \in Point /\ b.max \in Point /\ FALSE \in BOOLEAN
  BY KdTreeAssumption
<1>5. IsCleared(x, tree, b) /\ IsDeleted(x, tree, b, FALSE)
  BY <1>1, <1>4, DeletionKeepsTree, DeletionIsExact
<1>6. SoundOrNil(x.t) /\ x.t # Nil /\ Size(x.t) =< MaxSize /\ x.dead \in Seq(Point)
  <2>1. SoundOrNil(x.t) /\ x.t # Nil /\ Size(x.t) =< Size(tree) /\ x.dead \in Seq(Point)
    BY <1>1, <1>5 DEF IsCleared
  <2>2. Size(x.t) \in Nat /\ Size(tree) \in Nat
    BY <1>1, <2>1, SizeOfTree
  <2> QED
    BY <1>1, <2>1, <2>2
<1>7. /\ TreeInv' /\ Holds(content', x.t) /\ IsABag(gone')
      /\ \A q : Copies(gone', q) = Copies(removed, q) + Cnt(x.dead, q) + Dead(x.t, q)
  BY <1>3, <1>6, BecomeMeans
<1>8. /\ Holds(content, tree) /\ IsABag(gone)
      /\ \A q : Copies(gone, q) = Copies(removed, q) + Dead(tree, q)
  BY TreeInvMeans
<1> DEFINE hit == BagInside(content, b)
<1>9. IsABag(hit) /\ \A q : Copies(hit, q) = IF InBox(q, b) THEN Live(tree, q) ELSE 0
  BY <1>8, InsideOfBag DEF Holds
<1>10. \A q : /\ Live(x.t, q) = IF InBox(q, b) THEN 0 ELSE Live(tree, q)
              /\ Dead(x.t, q) + Cnt(x.dead, q)
                   = Dead(tree, q) + IF InBox(q, b) THEN Live(tree, q) ELSE 0
  BY <1>5 DEF IsDeleted
<1>11. \A q : /\ Live(tree, q) \in Nat /\ Dead(tree, q) \in Nat /\ Copies(removed, q) \in Nat
              /\ Dead(x.t, q) \in Nat /\ Cnt(x.dead, q) \in Nat
  BY <1>1, <1>6, CountsAreNat, CountIsNat, CopiesOfBag DEF TreeInv
<1> HIDE DEF hit
<1>12. content' = content (-) hit
  <2>1. /\ IsABag(content (-) hit)
        /\ \A q : Copies(content (-) hit, q) =
             IF Copies(content, q) > Copies(hit, q) THEN Copies(content, q) - Copies(hit, q) ELSE 0
    BY <1>8, <1>9, BagDifference DEF Holds
  <2>2. ASSUME NEW q PROVE Copies(content', q) = Copies(content (-) hit, q)
    <3>1. Copies(content, q) = Live(tree, q) /\ Copies(content', q) = Live(x.t, q)
      BY <1>7, <1>8 DEF Holds
    <3> QED
      BY <1>9, <1>10, <1>11, <2>1, <3>1
  <2> QED
    BY <1>7, <2>1, <2>2, SameBag DEF Holds
<1>13. gone' = gone (+) hit
  <2>1. /\ IsABag(gone (+) hit)
        /\ \A q : Copies(gone (+) hit, q) = Copies(gone, q) + Copies(hit, q)
    BY <1>8, <1>9, BagSum
  <2>2. ASSUME NEW q PROVE Copies(gone', q) = Copies(gone (+) hit, q)
    BY <1>7, <1>8, <1>9, <1>10, <1>11, <2>1
  <2> QED
    BY <1>7, <2>1, <2>2, SameBag
<1>14. Store!DeleteBox
  BY <1>12, <1>13, SameBags, SameBagSum, SameBagDifference DEF Store!DeleteBox, hit
<1>15. tree' = x.t
  BY <1>3 DEF Become
<1> QED
  BY <1>6, <1>7, <1>14, <1>15 DEF StepIsFine, Store!Next

\* acquire_removed_points hands out all removed points, each once.
LEMMA AcquireStep ==
  ASSUME TreeInv, Acquire
  PROVE  StepIsFine
<1> DEFINE D == BagOfSeq(flatten(tree).dead)
<1>1. /\ tree' = tree /\ content' = content /\ removed' = EmptyBag
      /\ gone' = gone (-) removed
  BY DEF Acquire
<1>2. SoundOrNil(tree) /\ IsABag(removed)
  BY DEF TreeInv
<1>3. /\ IsABag(gone) /\ \A q : Copies(gone, q) = Copies(removed, q) + Dead(tree, q)
  BY TreeInvMeans
<1>4. \A q : Copies(removed, q) \in Nat /\ Dead(tree, q) \in Nat
  BY <1>2, CopiesOfBag, CountsAreNat
<1>5. IsABag(gone') /\ \A q : Copies(gone', q) = Dead(tree, q)
  <2>1. /\ IsABag(gone (-) removed)
        /\ \A q : Copies(gone (-) removed, q) =
             IF Copies(gone, q) > Copies(removed, q) THEN Copies(gone, q) - Copies(removed, q) ELSE 0
    BY <1>2, <1>3, BagDifference
  <2> QED
    BY <1>1, <1>3, <1>4, <2>1
<1>6. gone' = EmptyBag (+) D
  <2>1. /\ IsABag(EmptyBag (+) D)
        /\ \A q : Copies(EmptyBag (+) D, q) = Copies(EmptyBag, q) + Dead(tree, q)
    BY <1>2, BagOfNothing, TreeBags
  <2>2. \A q : Copies(EmptyBag, q) = 0
    BY BagOfNothing
  <2> HIDE DEF D
  <2>3. \A q : Copies(EmptyBag (+) D, q) = Copies(gone', q)
    BY <1>4, <1>5, <2>1, <2>2
  <2> QED
    BY <1>5, <2>1, <2>3, SameBag
<1>7. TreeInv'
  BY <1>1, <1>6, BagOfNothing DEF TreeInv
<1>8. gone' \sqsubseteq gone
  <2>1. \A q : Copies(gone', q) =< Copies(gone, q)
    BY <1>3, <1>4, <1>5
  <2> QED
    BY <1>3, <1>5, <2>1, FewerCopies
<1>9. Store!Acquire
  BY <1>1, <1>8, SameBagOrder DEF Store!Acquire
<1> QED
  BY <1>1, <1>7, <1>9 DEF StepIsFine, Store!Next

\* A step that leaves every point as often as it was in the tree changes nothing
\* that the store sees.
LEMMA SameContent ==
  ASSUME TreeInv, NEW t, SoundOrNil(t), SameCounts(t, tree), Size(t) =< MaxSize,
         t = Nil => tree = Nil, Become(t, <<>>)
  PROVE  TreeInv' /\ content' = content /\ gone' = gone
<1>1. <<>> \in Seq(Point)
  OBVIOUS
<1>2. /\ TreeInv' /\ Holds(content', t) /\ IsABag(gone')
      /\ \A q : Copies(gone', q) = Copies(removed, q) + Cnt(<<>>, q) + Dead(t, q)
  BY <1>1, BecomeMeans
<1>3. /\ Holds(content, tree) /\ IsABag(gone)
      /\ \A q : Copies(gone, q) = Copies(removed, q) + Dead(tree, q)
  BY TreeInvMeans
<1>4. \A q : Copies(removed, q) \in Nat /\ Cnt(<<>>, q) = 0
  BY CountOfNone, CopiesOfBag DEF TreeInv
<1>5. \A q : Live(t, q) = Live(tree, q) /\ Dead(t, q) = Dead(tree, q)
  BY DEF SameCounts
<1>6. content' = content
  BY <1>2, <1>3, <1>5, SameBag DEF Holds
<1>7. gone' = gone
  <2>1. \A q : Copies(gone', q) = Copies(gone, q)
    BY <1>2, <1>3, <1>4, <1>5
  <2> QED
    BY <1>2, <1>3, <2>1, SameBag
<1> QED
  BY <1>2, <1>6, <1>7

\* Nearest_Search changes nothing that the store knows.
LEMMA NearestSearchStep ==
  ASSUME TreeInv, NearestSearch
  PROVE  StepIsFine
<1>1. SoundOrNil(tree) /\ Size(tree) =< MaxSize /\ tree # Nil
  BY DEF TreeInv, NearestSearch
<1>2. PICK t \in Opened(tree) : Become(t, <<>>)
  BY DEF NearestSearch
<1>3. SoundOrNil(t) /\ Alike(t, tree) /\ SameCounts(t, tree)
  BY <1>1, OpeningKeepsTree, OpenedCounts
<1>4. t # Nil /\ Size(t) =< MaxSize
  BY <1>1, <1>3 DEF Alike
<1>5. TreeInv' /\ content' = content /\ gone' = gone
  BY <1>2, <1>3, <1>4, SameContent
<1>6. tree' = t
  BY <1>2 DEF Become
<1> QED
  BY <1>4, <1>5, <1>6 DEF StepIsFine

\* What is left of the bag B when the points of the box b give way to k.
Downsamples(B, c, b, k) == B = (c (-) BagInside(c, b)) (+) SetToBag({k})

\* k is nearest to the centre of p's voxel among p and the old points there.
Nearest(k, p, b, old) ==
  /\ k = p \/ k \in Range(old)
  /\ \A r : r = p \/ r \in Range(old) => FromCentre(k, b) =< FromCentre(r, b)

\* The point that downsampling keeps is one of the candidates, and none is nearer.
LEMMA KeptIsNearest ==
  ASSUME NEW p \in Point, NEW b, b.min \in Point, b.max \in Point, NEW old \in Seq(Point)
  PROVE  Nearest(Keep(p, b, old), p, b, old)
<1> DEFINE k == Keep(p, b, old)
<1>1. IsKept(k, p, b, old)
  BY KeepsNearest
<1>2. FromCentre(p, b) \in Int
  BY CentreIsFar
<1> SUFFICES Nearest(k, p, b, old)
  OBVIOUS
<1> HIDE DEF k
<1>3. \A r : r \in Range(old) <=> \E i \in DOMAIN old : r = old[i]
  BY DEF Range
<1>4. CASE k = p /\ \A i \in DOMAIN old : FromCentre(p, b) =< FromCentre(old[i], b)
  <2>1. FromCentre(k, b) =< FromCentre(p, b)
    BY <1>2, <1>4
  <2> QED
    BY <1>3, <1>4, <2>1 DEF Nearest
<1>5. CASE \E i \in DOMAIN old :
             /\ k = old[i] /\ FromCentre(k, b) < FromCentre(p, b)
             /\ \A j \in DOMAIN old : FromCentre(k, b) =< FromCentre(old[j], b)
  <2>1. PICK i \in DOMAIN old :
             /\ k = old[i] /\ FromCentre(k, b) < FromCentre(p, b)
             /\ \A j \in DOMAIN old : FromCentre(k, b) =< FromCentre(old[j], b)
    BY <1>5
  <2>2. old[i] \in Point
    OBVIOUS
  <2>3. FromCentre(k, b) \in Int
    BY <2>1, <2>2, CentreIsFar
  <2>4. FromCentre(k, b) =< FromCentre(p, b)
    BY <1>2, <2>1, <2>3
  <2> QED
    BY <1>3, <2>1, <2>4 DEF Nearest
<1> QED
  BY <1>1, <1>4, <1>5 DEF IsKept, k

\* The points of a voxel of which one is left.
LEMMA StoreDownsamples ==
  ASSUME TreeInv, NEW p \in Points, NEW old \in Seq(Point), NEW k,
         \A q : Cnt(old, q) = IF InBox(q, VoxelBox(p)) THEN Live(tree, q) ELSE 0,
         Nearest(k, p, VoxelBox(p), old),
         Downsamples(content', content, VoxelBox(p), k)
  PROVE  content' \in Store!Downsampled(content, p)
<1> DEFINE b == VoxelBox(p)
           O == BagInside(content, b)
           C == BagToSet(O) \cup {p}
           near == {q \in C : \A r \in C : FromCentre(q, b) =< FromCentre(r, b)}
<1>1. Holds(content, tree)
  BY TreeInvMeans
<1>2. IsABag(O) /\ \A q : Copies(O, q) = IF InBox(q, b) THEN Live(tree, q) ELSE 0
  BY <1>1, InsideOfBag DEF Holds
<1>3. \A q : q \in BagToSet(O) <=> Copies(O, q) > 0
  BY <1>2, CopiesOfBag DEF BagToSet
<1>4. \A q : q \in Range(old) <=> Cnt(old, q) > 0
  BY CountIsNat
<1>5. \A q : q \in BagToSet(O) <=> q \in Range(old)
  BY <1>2, <1>3, <1>4
<1>6. k \in near
  BY <1>5 DEF Nearest
<1>7. Store!Downsampled(content, p) = {(content (-) O) (+) SetToBag({q}) : q \in near}
  BY SameBags, SameBagSum, SameBagDifference DEF Store!Downsampled
<1> HIDE DEF near, O
<1>8. (content (-) O) (+) SetToBag({k}) \in Store!Downsampled(content, p)
  BY <1>6, <1>7
<1> QED
  BY <1>8 DEF Downsamples, O

\* A tree that has, of the points of a box, only k.
LEMMA BecomesDownsampled ==
  ASSUME NEW B, IsABag(B), NEW c, Holds(c, tree), SoundOrNil(tree), NEW b, NEW k,
         \A q : Copies(B, q) = (IF InBox(q, b) THEN 0 ELSE Live(tree, q)) + One(k = q)
  PROVE  Downsamples(B, c, b, k)
<1> DEFINE O == BagInside(c, b)
           D == c (-) O
           K == SetToBag({k})
<1>1. IsABag(O) /\ \A q : Copies(O, q) = IF InBox(q, b) THEN Live(tree, q) ELSE 0
  BY InsideOfBag DEF Holds
<1>2. \A q : Copies(c, q) = Live(tree, q) /\ Live(tree, q) \in Nat
  BY CountsAreNat DEF Holds
<1>3. /\ IsABag(D)
      /\ \A q : Copies(D, q) = IF Copies(c, q) > Copies(O, q) THEN Copies(c, q) - Copies(O, q) ELSE 0
  BY <1>1, BagDifference DEF Holds
<1>4. IsABag(K) /\ \A q : Copies(K, q) = One(k = q)
  BY BagOfSingle
<1>5. IsABag(D (+) K) /\ \A q : Copies(D (+) K, q) = Copies(D, q) + Copies(K, q)
  BY <1>3, <1>4, BagSum
<1> HIDE DEF O, D, K
<1>6. ASSUME NEW q PROVE Copies(B, q) = Copies(D (+) K, q)
  <2>1. Copies(D, q) = IF InBox(q, b) THEN 0 ELSE Live(tree, q)
    <3>1. CASE InBox(q, b)
      BY <1>1, <1>2, <1>3, <3>1
    <3>2. CASE ~InBox(q, b)
      BY <1>1, <1>2, <1>3, <3>2
    <3> QED
      BY <3>1, <3>2
  <2> QED
    BY <1>4, <1>5, <2>1
<1> QED
  BY <1>5, <1>6, SameBag DEF Downsamples, O, D, K

\* Add with downsampling leaves one point of the voxel, nearest to its centre.
LEMMA AddDownsampledStep ==
  ASSUME TreeInv, AddDownsampled
  PROVE  StepIsFine
<1>1. /\ Sound(tree) /\ SoundOrNil(tree) /\ Size(tree) < MaxSize /\ Size(tree) =< MaxSize
      /\ tree # Nil /\ Size(tree) \in Nat /\ MaxSize \in Nat
  BY KdTreeAssumption, SizeOfTree DEF TreeInv, SoundOrNil, AddDownsampled, Room, Size
<1>2. PICK p \in Points :
        LET b     == VoxelBox(p)
            found == Search_by_range(tree, b)
            kept  == Keep(p, b, found.live)
        IN IF Len(found.live) =< 1 /\ kept # p
           THEN Become(found.t, <<>>)
           ELSE \E x \in IF found.live # <<>> THEN Delete_by_range(found.t, b, TRUE)
                                              ELSE {Result(found.t, <<>>)} :
                IF x.t = Nil THEN Become(Nil, x.dead)
                ELSE \E y \in Add_by_point(x.t, kept) :
                       Become(y.t, x.dead \o y.dead)
  BY DEF AddDownsampled
<1> DEFINE b     == VoxelBox(p)
           found == Search_by_range(tree, b)
           u     == found.t
           old   == found.live
           kept  == Keep(p, b, old)
<1>3. p \in Point /\ b.min \in Point /\ b.max \in Point
  BY KdTreeAssumption, VoxelIsBox
<1>4. IsFound(found, tree) /\ IsExact(found, tree, b)
  BY <1>1, <1>3, RangeKeepsTree, RangeIsExact
<1>5. /\ SoundOrNil(u) /\ Alike(u, tree) /\ SameCounts(u, tree) /\ old \in Seq(Point)
      /\ \A q : Cnt(old, q) = IF InBox(q, b) THEN Live(tree, q) ELSE 0
  BY <1>4 DEF IsFound, IsExact
<1>6. kept \in Point /\ Nearest(kept, p, b, old)
  BY <1>3, <1>5, KeptIsPoint, KeptIsNearest
<1>7. u # Nil /\ Size(u) = Size(tree) /\ Sound(u)
  BY <1>1, <1>5 DEF Alike, SoundOrNil
<1>8. /\ Holds(content, tree) /\ IsABag(gone)
      /\ \A q : Copies(gone, q) = Copies(removed, q) + Dead(tree, q)
  BY TreeInvMeans
<1>9. \/ Len(old) =< 1 /\ kept # p /\ Become(u, <<>>)
      \/ \E x \in IF old # <<>> THEN Delete_by_range(u, b, TRUE) ELSE {Result(u, <<>>)} :
           IF x.t = Nil THEN Become(Nil, x.dead)
           ELSE \E y \in Add_by_point(x.t, kept) : Become(y.t, x.dead \o y.dead)
  BY <1>2, Zenon
<1> HIDE DEF b, u, old, kept, found
<1>10. ASSUME Len(old) =< 1, kept # p, Become(u, <<>>)
       PROVE  StepIsFine
  <2>1. TreeInv' /\ content' = content /\ gone' = gone /\ tree' = u
    BY <1>1, <1>5, <1>7, <1>10, SameContent DEF Become
  <2> QED
    BY <1>7, <2>1 DEF StepIsFine
<1>11. ASSUME NEW x \in IF old # <<>> THEN Delete_by_range(u, b, TRUE) ELSE {Result(u, <<>>)},
              IF x.t = Nil THEN Become(Nil, x.dead)
              ELSE \E y \in Add_by_point(x.t, kept) : Become(y.t, x.dead \o y.dead)
       PROVE  StepIsFine
  <2>1. /\ Sound(x.t) /\ x.t # Nil /\ Size(x.t) =< Size(tree) /\ x.dead \in Seq(Point)
        /\ \A q : /\ Live(x.t, q) = IF InBox(q, b) THEN 0 ELSE Live(tree, q)
                  /\ Dead(x.t, q) + Cnt(x.dead, q) =< Dead(tree, q)
    <3>1. CASE old # <<>>
      <4>1. x \in Delete_by_range(u, b, TRUE) /\ TRUE \in BOOLEAN
        BY <1>11, <3>1
      <4>2. IsCleared(x, u, b) /\ IsDeleted(x, u, b, TRUE)
        BY <1>3, <1>5, <4>1, DeletionKeepsTree, DeletionIsExact
      <4>3. Sound(x.t) /\ x.t # Nil /\ Size(x.t) =< Size(tree) /\ x.dead \in Seq(Point)
        BY <1>7, <4>2 DEF IsCleared, SoundOrNil
      <4>4. \A q : /\ Live(x.t, q) = IF InBox(q, b) THEN 0 ELSE Live(tree, q)
                   /\ Dead(x.t, q) + Cnt(x.dead, q) =< Dead(tree, q)
        BY <1>5, <4>2 DEF IsDeleted, SameCounts
      <4> QED
        BY <4>3, <4>4
    <3>2. CASE old = <<>>
      <4>1. x.t = u /\ x.dead = <<>>
        BY <1>11, <3>2 DEF Result
      <4>2. x.dead \in Seq(Point)
        BY <4>1
      <4>3. ASSUME NEW q
            PROVE  /\ Live(x.t, q) = IF InBox(q, b) THEN 0 ELSE Live(tree, q)
                   /\ Dead(x.t, q) + Cnt(x.dead, q) =< Dead(tree, q)
        <5>1. Cnt(old, q) = 0 /\ Cnt(x.dead, q) = 0
          BY <3>2, <4>1, CountOfNone
        <5>2. Live(x.t, q) = Live(tree, q) /\ Dead(x.t, q) = Dead(tree, q)
          BY <1>5, <4>1 DEF SameCounts
        <5>3. Dead(tree, q) \in Nat
          BY <1>1, CountsAreNat
        <5> QED
          BY <1>5, <5>1, <5>2, <5>3
      <4> QED
        BY <1>1, <1>7, <4>1, <4>2, <4>3
    <3> QED
      BY <3>1, <3>2
  <2>2. PICK y \in Add_by_point(x.t, kept) : Become(y.t, x.dead \o y.dead)
    BY <1>11, <2>1
  <2>3. IsAdded(y, x.t) /\ AddsOne(y, x.t, kept)
    BY <1>6, <2>1, AdditionKeepsTree, AdditionIsExact
  <2>4. Sound(y.t) /\ y.t # Nil /\ Size(y.t) =< MaxSize /\ y.dead \in Seq(Point)
    <3>1. Sound(y.t) /\ y.t # Nil /\ y.t.size \in Nat /\ y.t.size =< Size(x.t) + 1
          /\ y.dead \in Seq(Point)
      BY <2>3, SoundIsNode, SettledRoot DEF IsAdded
    <3>2. Size(x.t) \in Nat
      BY <2>1, SizeOfTree DEF SoundOrNil
    <3> QED
      BY <1>1, <2>1, <3>1, <3>2 DEF Size
  <2>5. /\ x.dead \o y.dead \in Seq(Point)
        /\ \A q : Cnt(x.dead \o y.dead, q) = Cnt(x.dead, q) + Cnt(y.dead, q)
    BY <2>1, <2>4, CountOfTwo
  <2>6. /\ TreeInv' /\ Holds(content', y.t) /\ IsABag(gone')
        /\ \A q : Copies(gone', q) = Copies(removed, q) + Cnt(x.dead \o y.dead, q) + Dead(y.t, q)
    BY <2>2, <2>4, <2>5, BecomeMeans DEF SoundOrNil
  <2>7. gone' \sqsubseteq gone
    <3>1. ASSUME NEW q PROVE Copies(gone', q) =< Copies(gone, q)
      <4>1. Dead(y.t, q) + Cnt(y.dead, q) = Dead(x.t, q)
        BY <2>3 DEF AddsOne
      <4>2. /\ Dead(y.t, q) \in Nat /\ Dead(x.t, q) \in Nat /\ Dead(tree, q) \in Nat
            /\ Cnt(x.dead, q) \in Nat /\ Cnt(y.dead, q) \in Nat /\ Copies(removed, q) \in Nat
        BY <1>1, <2>1, <2>4, CountsAreNat, CountIsNat, CopiesOfBag DEF SoundOrNil, TreeInv
      <4>3. Dead(x.t, q) + Cnt(x.dead, q) =< Dead(tree, q)
        BY <2>1
      <4>4. /\ Copies(gone, q) = Copies(removed, q) + Dead(tree, q)
            /\ Copies(gone', q) = Copies(removed, q) + (Cnt(x.dead, q) + Cnt(y.dead, q)) + Dead(y.t, q)
        BY <1>8, <2>5, <2>6
      <4> QED
        BY <4>1, <4>2, <4>3, <4>4
    <3> QED
      BY <1>8, <2>6, <3>1, FewerCopies
  <2>8. \A q : Copies(content', q) = (IF InBox(q, b) THEN 0 ELSE Live(tree, q)) + One(kept = q)
    BY <2>1, <2>3, <2>6 DEF Holds, AddsOne
  <2>9. Downsamples(content', content, b, kept)
    BY <1>1, <1>8, <2>6, <2>8, BecomesDownsampled DEF Holds
  <2>10. content' \in Store!Downsampled(content, p)
    BY <1>5, <1>6, <2>9, StoreDownsamples DEF b
  <2>11. Store!AddDownsampled
    BY <2>7, <2>10, SameBagOrder DEF Store!AddDownsampled
  <2>12. tree' = y.t
    BY <2>2 DEF Become
  <2> QED
    BY <2>4, <2>6, <2>11, <2>12 DEF StepIsFine, Store!Next
<1> QED
  BY <1>9, <1>10, <1>11

(***************************************************************************)
(* How many elements of a sequence are in a set.                           *)
(***************************************************************************)
\* How many elements of the sequence s are in B.
Hits(s, B)    == [i \in DOMAIN s |-> IF s[i] \in B THEN 1 ELSE 0]
CntIn(s, B) == Cnt(Hits(s, B), 1)

\* How many elements are in a set, counted at once.
LEMMA CountInIs ==
  ASSUME NEW s, NEW B
  PROVE  CntIn(s, B) = Cardinality({i \in DOMAIN s : s[i] \in B})
<1>1. {i \in DOMAIN Hits(s, B) : Hits(s, B)[i] = 1} = {i \in DOMAIN s : s[i] \in B}
  BY DEF Hits
<1> QED
  BY <1>1 DEF CntIn, Cnt

\* A sequence has between no and all of its elements in a set.
LEMMA CountInIsNat ==
  ASSUME NEW S, NEW s \in Seq(S), NEW B
  PROVE  CntIn(s, B) \in Nat /\ CntIn(s, B) =< Len(s)
<1> DEFINE I == {i \in DOMAIN s : s[i] \in B}
           J == {i \in DOMAIN Hits(s, B) : Hits(s, B)[i] = 1}
<1>1. I = J
  BY DEF Hits
<1>2. IsFiniteSet(I) /\ Cardinality(I) \in Nat
  BY FiniteDomain
<1>3. DOMAIN s = 1..Len(s) /\ Len(s) \in Nat
  OBVIOUS
<1>4. IsFiniteSet(1..Len(s)) /\ Cardinality(1..Len(s)) = Len(s)
  BY <1>3, UpToCounts, Zenon
<1>5. I \subseteq 1..Len(s)
  BY <1>3
<1> HIDE DEF I
<1>6. Cardinality(I) =< Len(s)
  BY <1>4, <1>5, FS_Subset
<1> QED
  BY <1>1, <1>2, <1>6 DEF CntIn, Cnt

\* All of them are when every element is.
LEMMA CountInOfAll ==
  ASSUME NEW S, NEW s \in Seq(S), NEW B, \A i \in DOMAIN s : s[i] \in B
  PROVE  CntIn(s, B) = Len(s)
<1>1. {i \in DOMAIN Hits(s, B) : Hits(s, B)[i] = 1} = DOMAIN s
  BY DEF Hits
<1>2. DOMAIN s = 1..Len(s) /\ Len(s) \in Nat
  OBVIOUS
<1>3. Cardinality(1..Len(s)) = Len(s)
  BY <1>2, UpToCounts, Zenon
<1> QED
  BY <1>1, <1>2, <1>3 DEF CntIn, Cnt

\* Two sets that agree on the elements of a sequence count alike.
LEMMA CountInAgrees ==
  ASSUME NEW S, NEW s \in Seq(S), NEW A, NEW B,
         \A i \in DOMAIN s : s[i] \in A <=> s[i] \in B
  PROVE  CntIn(s, A) = CntIn(s, B)
<1>1. {i \in DOMAIN Hits(s, A) : Hits(s, A)[i] = 1} = {i \in DOMAIN Hits(s, B) : Hits(s, B)[i] = 1}
  BY DEF Hits
<1> QED
  BY <1>1 DEF CntIn, Cnt

\* None is in the set when no element is.
LEMMA CountInOfNone ==
  ASSUME NEW S, NEW s \in Seq(S), NEW B, \A i \in DOMAIN s : s[i] \notin B
  PROVE  CntIn(s, B) = 0
<1>1. {i \in DOMAIN Hits(s, B) : Hits(s, B)[i] = 1} = {}
  BY DEF Hits
<1> QED
  BY <1>1, FS_EmptySet DEF CntIn, Cnt

\* The elements of two sequences in a row.
LEMMA TwoInARow ==
  ASSUME NEW S, NEW s \in Seq(S), NEW t \in Seq(S)
  PROVE  /\ s \o t = [i \in 1..(Len(s) + Len(t)) |-> (s \o t)[i]]
         /\ \A i \in 1..Len(s) : (s \o t)[i] = s[i]
         /\ \A i \in 1..(Len(s) + Len(t)) : i > Len(s) => (s \o t)[i] = t[i - Len(s)]
<1>1. Len(s) \in Nat /\ Len(t) \in Nat
  OBVIOUS
<1>2. s \o t \in Seq(S) /\ Len(s \o t) = Len(s) + Len(t)
  OBVIOUS
<1>3. s \o t = [i \in 1..(Len(s) + Len(t)) |-> (s \o t)[i]]
  <2>1. ASSUME NEW w \in Seq(S) PROVE w = [i \in 1..Len(w) |-> w[i]]
    OBVIOUS
  <2> QED
    BY ONLY <1>2, <2>1, Zenon
<1>4. \A i \in 1..Len(s) : (s \o t)[i] = s[i]
  OBVIOUS
<1>5. \A i \in 1..(Len(s) + Len(t)) : i > Len(s) => (s \o t)[i] = t[i - Len(s)]
  OBVIOUS
<1> QED
  BY <1>3, <1>4, <1>5

\* The counts of two sequences in a row add up.
LEMMA CountInOfTwo ==
  ASSUME NEW S, NEW s \in Seq(S), NEW t \in Seq(S), NEW B
  PROVE  CntIn(s \o t, B) = CntIn(s, B) + CntIn(t, B)
<1> DEFINE a == Hits(s, B)
           b == Hits(t, B)
<1>1. a \in Seq({0, 1}) /\ b \in Seq({0, 1})
  BY DEF Hits
<1>2. Hits(s \o t, B) = a \o b
  <2> DEFINE w == s \o t
             c == Hits(w, B)
             n == Len(s)
             m == Len(t)
  <2>1. DOMAIN w = 1..(n + m) /\ n \in Nat /\ m \in Nat /\ DOMAIN s = 1..n /\ DOMAIN t = 1..m
    OBVIOUS
  <2>2. /\ \A i \in 1..n : w[i] = s[i]
        /\ \A i \in 1..(n + m) : i > n => i - n \in 1..m /\ w[i] = t[i - n]
    OBVIOUS
  <2>3. DOMAIN a = 1..n /\ DOMAIN b = 1..m /\ Len(a) = n /\ Len(b) = m /\ DOMAIN c = 1..(n + m)
    BY <1>1, <2>1 DEF Hits
  <2>4. /\ \A i \in 1..n : a[i] = IF s[i] \in B THEN 1 ELSE 0
        /\ \A i \in 1..m : b[i] = IF t[i] \in B THEN 1 ELSE 0
        /\ \A i \in 1..(n + m) : c[i] = IF w[i] \in B THEN 1 ELSE 0
    BY <2>1 DEF Hits
  <2>5. c = [i \in 1..(n + m) |-> c[i]]
    BY <2>1 DEF Hits
  <2> HIDE DEF a, b, c, w
  <2>6. /\ a \o b = [i \in 1..(n + m) |-> (a \o b)[i]]
        /\ \A i \in 1..n : (a \o b)[i] = a[i]
        /\ \A i \in 1..(n + m) : i > n => (a \o b)[i] = b[i - n]
    <3>1. /\ a \o b = [i \in 1..(Len(a) + Len(b)) |-> (a \o b)[i]]
          /\ \A i \in 1..Len(a) : (a \o b)[i] = a[i]
          /\ \A i \in 1..(Len(a) + Len(b)) : i > Len(a) => (a \o b)[i] = b[i - Len(a)]
      BY <1>1, TwoInARow
    <3> HIDE DEF n, m
    <3> QED
      BY <2>3, <3>1, Zenon
  <2> HIDE DEF n, m
  <2>7. ASSUME NEW i \in 1..(n + m) PROVE c[i] = (a \o b)[i]
    <3>1. CASE i \in 1..n
      BY <2>2, <2>4, <2>6, <3>1
    <3>2. CASE i \notin 1..n
      <4>1. i > n
        BY <2>1, <3>2
      <4>2. w[i] = t[i - n] /\ i - n \in 1..m /\ (a \o b)[i] = b[i - n]
        BY <2>2, <2>6, <4>1
      <4> QED
        BY <2>4, <4>2
    <3> QED
      BY <3>1, <3>2
  <2>8. c = a \o b
    BY <2>5, <2>6, <2>7
  <2> QED
    BY <2>8 DEF c, w
<1> HIDE DEF a, b
<1>3. Cnt(a \o b, 1) = Cnt(a, 1) + Cnt(b, 1)
  BY <1>1, CountOfTwo
<1> QED
  BY <1>2, <1>3 DEF CntIn, a, b

\* One element counts once or not at all.
LEMMA CountInOfOne ==
  ASSUME NEW x, NEW B
  PROVE  CntIn(<<x>>, B) = One(x \in B)
<1> DEFINE s == <<x>>
<1>1. s \in Seq({x}) /\ Len(s) = 1 /\ DOMAIN s = {1} /\ s[1] = x
  OBVIOUS
<1> HIDE DEF s
<1>2. CASE x \in B
  BY <1>1, <1>2, CountInOfAll DEF One, s
<1>3. CASE x \notin B
  BY <1>1, <1>3, CountInOfNone DEF One, s
<1> QED
  BY <1>2, <1>3

\* Swapping two elements changes no count.
LEMMA CountInOfSwap ==
  ASSUME NEW S, NEW s \in Seq(S), NEW i \in DOMAIN s, NEW j \in DOMAIN s, NEW B
  PROVE  /\ Swap(s, i, j) \in Seq(S) /\ Len(Swap(s, i, j)) = Len(s)
         /\ CntIn(Swap(s, i, j), B) = CntIn(s, B)
<1> DEFINE w == Swap(s, i, j)
           P == {n \in DOMAIN s : s[n] \in B}
           Q == {n \in DOMAIN w : w[n] \in B}
           f == [n \in Q |-> IF n = i THEN j ELSE IF n = j THEN i ELSE n]
<1>1. w \in Seq(S) /\ Len(w) = Len(s) /\ DOMAIN w = DOMAIN s
  BY DEF Swap
<1>2. \A n \in DOMAIN s : w[n] = IF n = i THEN s[j] ELSE IF n = j THEN s[i] ELSE s[n]
  BY DEF Swap
<1>3. IsFiniteSet(Q) /\ IsFiniteSet(P)
  BY <1>1, FiniteDomain
<1>4. f \in Bijection(Q, P)
  <2>1. f \in [Q -> P]
    BY <1>1, <1>2
  <2>2. \A m, n \in Q : f[m] = f[n] => m = n
    OBVIOUS
  <2>3. \A m \in P : \E n \in Q : f[n] = m
    <3>1. ASSUME NEW m \in P PROVE \E n \in Q : f[n] = m
      <4> DEFINE n == IF m = i THEN j ELSE IF m = j THEN i ELSE m
      <4>1. n \in Q
        BY <1>1, <1>2
      <4>2. f[n] = m
        BY <4>1
      <4> QED
        BY <4>1, <4>2
    <3> QED
      BY <3>1
  <2> HIDE DEF f, P, Q
  <2> QED
    BY <2>1, <2>2, <2>3 DEF Bijection, Injection, Surjection, IsInjective
<1>5. Cardinality(Q) = Cardinality(P)
  BY <1>3, <1>4, FS_Bijection DEF ExistsBijection
<1>6. {n \in DOMAIN Hits(w, B) : Hits(w, B)[n] = 1} = Q
      /\ {n \in DOMAIN Hits(s, B) : Hits(s, B)[n] = 1} = P
  BY DEF Hits
<1> QED
  BY <1>1, <1>5, <1>6 DEF CntIn, Cnt

(***************************************************************************)
(* The heap of Nearest_Search.                                             *)
(***************************************************************************)
\* operator< of the heap's entries is a strict weak order.
LEMMA LessOrder ==
  ASSUME NEW x \in Entry, NEW y \in Entry, NEW z \in Entry
  PROVE  /\ Less(x, y) => ~Less(y, x)
         /\ Less(x, y) /\ ~Less(z, y) => Less(x, z)
         /\ ~Less(x, y) /\ ~Less(y, z) => ~Less(x, z)
         /\ ~Less(x, x)
         /\ ~Less(x, y) => y.dist =< x.dist
<1>1. /\ x.dist \in Int /\ y.dist \in Int /\ z.dist \in Int
      /\ x.pt[0] \in Int /\ y.pt[0] \in Int /\ z.pt[0] \in Int
  <2>1. 0 \in Axis
    BY DEF Axis
  <2> QED
    BY <2>1 DEF Entry, Point
<1>2. \A a, b, c, d, e, f \in Int :
        LET L(m, n, o, p) == IF m = n THEN o < p ELSE m < n IN
        /\ L(a, b, d, e) => ~L(b, a, e, d)
        /\ L(a, b, d, e) /\ ~L(c, b, f, e) => L(a, c, d, f)
        /\ ~L(a, b, d, e) /\ ~L(b, c, e, f) => ~L(a, c, d, f)
        /\ ~L(a, a, d, d)
        /\ ~L(a, b, d, e) => b =< a
  OBVIOUS
<1> QED
  BY <1>1, <1>2 DEF Less

\* The loops of MANUAL_HEAP and Nearest_Search, one turn of each.
Turn(k, s) ==
  CASE k = "FloatUp" -> Rise(s)
    [] k = "MoveDown" -> Sink(s)
    [] k = "Nearest_Search" -> Take(s)
IsLoop(k, s, n, f) == f = [i \in 0..n |-> IF i = 0 THEN s ELSE Turn(k, f[i - 1])]

\* Turns may be counted on, one after the other.
LEMMA LoopExists ==
  ASSUME NEW k, NEW s
  PROVE  \A n \in Nat : \E f : IsLoop(k, s, n, f)
<1> DEFINE G == {n \in Nat : \E f : IsLoop(k, s, n, f)}
<1>1. ASSUME NEW n \in Nat, \A m \in Nat : m < n => m \in G PROVE n \in G
  <2>1. CASE n = 0
    <3> DEFINE f == [i \in 0..n |-> s]
    <3>1. f = [i \in 0..n |-> IF i = 0 THEN s ELSE Turn(k, f[i - 1])]
      BY <2>1
    <3> HIDE DEF f
    <3> QED
      BY <3>1 DEF IsLoop
  <2>2. CASE n # 0
    <3>1. n - 1 \in Nat /\ n - 1 < n
      BY <2>2
    <3>2. PICK g : IsLoop(k, s, n - 1, g)
      BY <1>1, <3>1
    <3> DEFINE f == [i \in 0..n |-> IF i = n THEN Turn(k, g[n - 1]) ELSE g[i]]
    <3>3. ASSUME NEW i \in 0..n PROVE f[i] = IF i = 0 THEN s ELSE Turn(k, f[i - 1])
      <4>1. CASE i = n
        BY <2>2, <4>1
      <4>2. CASE i # n
        <5>1. i \in 0..(n - 1)
          BY <4>2
        <5>2. g[i] = IF i = 0 THEN s ELSE Turn(k, g[i - 1])
          BY <3>2, <5>1 DEF IsLoop
        <5>3. i # 0 => f[i - 1] = g[i - 1]
          BY <4>2
        <5> QED
          BY <4>2, <5>2, <5>3
      <4> QED
        BY <4>1, <4>2
    <3>4. f = [i \in 0..n |-> f[i]]
      OBVIOUS
    <3> HIDE DEF f
    <3>5. f = [i \in 0..n |-> IF i = 0 THEN s ELSE Turn(k, f[i - 1])]
      BY <3>3, <3>4
    <3> QED
      BY <3>5 DEF IsLoop
  <2> QED
    BY <2>1, <2>2
<1>2. G \in SUBSET Nat
  OBVIOUS
<1>3. \A n \in Nat : (\A m \in Nat : m < n => m \in G) => n \in G
  BY <1>1
<1> HIDE DEF G
<1>4. \A n \in Nat : n \in G
  BY <1>2, <1>3, Induction
<1> QED
  BY <1>4 DEF G

\* What holds before a loop and is kept by its turns holds after it. P are the
\* pairs of a number of turns and a state.
LEMMA LoopKeeps ==
  ASSUME NEW k, NEW s, NEW n \in Nat, NEW f, IsLoop(k, s, n, f), NEW P,
         <<0, s>> \in P,
         \A i \in 0..(n - 1) : \A x : <<i, x>> \in P => <<i + 1, Turn(k, x)>> \in P
  PROVE  <<n, f[n]>> \in P
<1> DEFINE G == {m \in Nat : m =< n => <<m, f[m]>> \in P}
<1>1. \A m \in 0..n : f[m] = IF m = 0 THEN s ELSE Turn(k, f[m - 1])
  BY DEF IsLoop
<1>2. ASSUME NEW m \in Nat, \A l \in Nat : l < m => l \in G PROVE m \in G
  <2>1. CASE m = 0
    BY <1>1, <2>1
  <2>2. CASE m # 0 /\ m =< n
    <3>1. m - 1 \in 0..(n - 1) /\ m - 1 \in Nat /\ m - 1 < m /\ m - 1 =< n /\ (m - 1) + 1 = m
      BY <2>2
    <3>2. <<m - 1, f[m - 1]>> \in P
      BY <1>2, <3>1
    <3>3. <<(m - 1) + 1, Turn(k, f[m - 1])>> \in P
      BY <3>1, <3>2
    <3>4. f[m] = Turn(k, f[m - 1])
      BY <1>1, <2>2
    <3> QED
      BY <3>1, <3>3, <3>4
  <2>3. CASE m > n
    BY <2>3
  <2> QED
    BY <2>1, <2>2, <2>3
<1>3. G \in SUBSET Nat
  OBVIOUS
<1>4. \A m \in Nat : (\A l \in Nat : l < m => l \in G) => m \in G
  BY <1>2
<1> HIDE DEF G
<1>5. \A m \in Nat : m \in G
  BY <1>3, <1>4, Induction
<1>6. n =< n
  OBVIOUS
<1> QED
  BY <1>5, <1>6 DEF G

\* FloatUp, MoveDown and Drain are such loops.
LEMMA FloatUpIsLoop ==
  ASSUME NEW h, NEW i \in Nat
  PROVE  \E f : /\ IsLoop("FloatUp", [heap |-> h, at |-> i], i, f)
                /\ FloatUp(h, i) = f[i].heap
<1> DEFINE s == [heap |-> h, at |-> i]
           Body(f) == [n \in 0..i |-> IF n = 0 THEN s ELSE Rise(f[n - 1])]
           g == CHOOSE f : f = Body(f)
<1>1. FloatUp(h, i) = g[i].heap
  BY DEF FloatUp
<1> HIDE DEF s
<1>2. ASSUME NEW f PROVE IsLoop("FloatUp", s, i, f) <=> f = Body(f)
  BY DEF IsLoop, Turn
<1>3. PICK h1 : IsLoop("FloatUp", s, i, h1)
  BY LoopExists
<1> HIDE DEF Body
<1>4. g = Body(g)
  BY <1>2, <1>3
<1> HIDE DEF g
<1>5. IsLoop("FloatUp", s, i, g)
  BY <1>2, <1>4
<1> QED
  BY <1>1, <1>5 DEF s

LEMMA MoveDownIsLoop ==
  ASSUME NEW h, NEW i, Len(h) \in Nat
  PROVE  \E f : /\ IsLoop("MoveDown", [heap |-> h, at |-> i], Len(h), f)
                /\ MoveDown(h, i) = f[Len(h)].heap
<1> DEFINE s == [heap |-> h, at |-> i]
           Body(f) == [n \in 0..Len(h) |-> IF n = 0 THEN s ELSE Sink(f[n - 1])]
           g == CHOOSE f : f = Body(f)
<1>1. MoveDown(h, i) = g[Len(h)].heap
  BY DEF MoveDown
<1> HIDE DEF s
<1>2. ASSUME NEW f PROVE IsLoop("MoveDown", s, Len(h), f) <=> f = Body(f)
  BY DEF IsLoop, Turn
<1>3. PICK h1 : IsLoop("MoveDown", s, Len(h), h1)
  BY LoopExists
<1> HIDE DEF Body
<1>4. g = Body(g)
  BY <1>2, <1>3
<1> HIDE DEF g
<1>5. IsLoop("MoveDown", s, Len(h), g)
  BY <1>2, <1>4
<1> QED
  BY <1>1, <1>5 DEF s

LEMMA DrainIsLoop ==
  ASSUME NEW q, NEW k \in Nat
  PROVE  \E f : /\ IsLoop("Nearest_Search", [heap |-> q, found |-> <<>>], k, f)
                /\ Drain(q, k) = f[k].found
<1> DEFINE s == [heap |-> q, found |-> <<>>]
           Body(f) == [n \in 0..k |-> IF n = 0 THEN s ELSE Take(f[n - 1])]
           g == CHOOSE f : f = Body(f)
<1>1. Drain(q, k) = g[k].found
  BY DEF Drain
<1> HIDE DEF s
<1>2. ASSUME NEW f PROVE IsLoop("Nearest_Search", s, k, f) <=> f = Body(f)
  BY DEF IsLoop, Turn
<1>3. PICK h1 : IsLoop("Nearest_Search", s, k, h1)
  BY LoopExists
<1> HIDE DEF Body
<1>4. g = Body(g)
  BY <1>2, <1>3
<1> HIDE DEF g
<1>5. IsLoop("Nearest_Search", s, k, g)
  BY <1>2, <1>4
<1> QED
  BY <1>1, <1>5 DEF s

\* No entry of the heap is above the one over it.
IsHeap(h) == \A i \in 2..Len(h) : ~Less(h[i \div 2], h[i])

\* A heap but for the entry at a, which may be above the one over it ...
RisesIn(h, a) ==
  /\ a \in 1..Len(h)
  /\ \A i \in 2..Len(h) : i # a => ~Less(h[i \div 2], h[i])
  /\ \A i \in 2..Len(h) : i \div 2 = a /\ a > 1 => ~Less(h[a \div 2], h[i])

\* ... or below one under it.
SinksIn(h, a) ==
  /\ a \in 1..Len(h)
  /\ \A i \in 2..Len(h) : i \div 2 # a => ~Less(h[i \div 2], h[i])
  /\ \A i \in 2..Len(h) : i \div 2 = a /\ a > 1 => ~Less(h[a \div 2], h[i])

\* The entry over another one.
LEMMA Halves ==
  ASSUME NEW i \in Nat, i > 1
  PROVE  /\ i \div 2 \in Nat /\ i \div 2 >= 1 /\ i \div 2 < i
         /\ \A j \in Nat : j = i \div 2 <=> i = 2 * j \/ i = 2 * j + 1
OBVIOUS

\* One turn of FloatUp.
LEMMA RiseKeeps ==
  ASSUME NEW h \in Seq(Entry), NEW a, RisesIn(h, a), a > 1, Less(h[a \div 2], h[a])
  PROVE  RisesIn(Swap(h, a, a \div 2), a \div 2)
<1> DEFINE u == a \div 2
           w == Swap(h, a, u)
<1>1. a \in 2..Len(h) /\ Len(h) \in Nat /\ a \in Nat
  BY DEF RisesIn
<1>2. u \in 1..Len(h) /\ u < a
  BY <1>1, Halves
<1>3. /\ Len(w) = Len(h) /\ \A i \in 1..Len(h) : w[i] = IF i = a THEN h[u] ELSE IF i = u THEN h[a] ELSE h[i]
      /\ \A i \in 1..Len(h) : h[i] \in Entry
  <2> HIDE DEF u
  <2> QED
    BY <1>1, <1>2 DEF Swap
<1>4. \A i \in 2..Len(h) : i \div 2 \in 1..Len(h) /\ i \in 1..Len(h) /\ i \div 2 < i
  BY <1>1, Halves
<1>5. Less(h[u], h[a]) /\ ~Less(h[a], h[u])
  BY <1>1, <1>2, <1>3, LessOrder
<1>6. /\ \A i \in 2..Len(h) : i # a => ~Less(h[i \div 2], h[i])
      /\ \A i \in 2..Len(h) : i \div 2 = a => ~Less(h[u], h[i])
  BY <1>1 DEF RisesIn
<1> HIDE DEF u, w
<1>7. ASSUME NEW i \in 2..Len(h), i # u PROVE ~Less(w[i \div 2], w[i])
  <2>1. CASE i = a
    <3>1. i \div 2 = u /\ w[i \div 2] = h[a] /\ w[i] = h[u]
      BY <1>1, <1>2, <1>3, <2>1 DEF u
    <3> QED
      BY <3>1, <1>5
  <2>2. CASE i # a /\ i \div 2 = a
    <3>1. w[i \div 2] = h[u] /\ w[i] = h[i]
      BY <1>3, <1>4, <1>7, <2>2
    <3> QED
      BY <3>1, <1>6, <2>2
  <2>3. CASE i # a /\ i \div 2 = u
    <3>1. w[i \div 2] = h[a] /\ w[i] = h[i]
      BY <1>2, <1>3, <1>4, <1>7, <2>3
    <3>2. ~Less(h[u], h[i])
      BY <1>6, <2>3
    <3>3. h[u] \in Entry /\ h[a] \in Entry /\ h[i] \in Entry
      BY <1>1, <1>2, <1>3, <1>4
    <3>4. ~Less(h[a], h[i])
      BY <1>5, <3>2, <3>3, LessOrder
    <3> QED
      BY <3>1, <3>4
  <2>4. CASE i # a /\ i \div 2 # a /\ i \div 2 # u
    <3>1. w[i \div 2] = h[i \div 2] /\ w[i] = h[i]
      BY <1>3, <1>4, <1>7, <2>4
    <3> QED
      BY <3>1, <1>6, <2>4
  <2> QED
    BY <2>1, <2>2, <2>3, <2>4
<1>8. ASSUME NEW i \in 2..Len(h), i \div 2 = u, u > 1 PROVE ~Less(w[u \div 2], w[i])
  <2> DEFINE v == u \div 2
  <2>1. u \in 2..Len(h) /\ v \in 1..Len(h) /\ v < u /\ v # a
    BY <1>1, <1>2, <1>4, <1>8
  <2>2. w[v] = h[v] /\ ~Less(h[v], h[u])
    BY <1>2, <1>3, <1>6, <2>1
  <2>3. i # u
    BY <1>4, <1>8
  <2>4. CASE i = a
    BY <1>1, <1>3, <2>2, <2>4
  <2>5. CASE i # a
    <3>1. w[i] = h[i] /\ ~Less(h[u], h[i])
      BY <1>3, <1>4, <1>6, <1>8, <2>3, <2>5
    <3>2. h[u] \in Entry /\ h[v] \in Entry /\ h[i] \in Entry
      BY <1>2, <1>3, <1>4, <2>1
    <3> QED
      BY <2>2, <3>1, <3>2, LessOrder
  <2> QED
    BY <2>4, <2>5
<1>9. RisesIn(w, u)
  BY <1>2, <1>3, <1>7, <1>8 DEF RisesIn
<1> QED
  BY <1>9 DEF w, u

\* FloatUp restores a heap and keeps its entries.
LEMMA FloatUpSpec ==
  ASSUME NEW h \in Seq(Entry), NEW i, RisesIn(h, i)
  PROVE  /\ FloatUp(h, i) \in Seq(Entry) /\ Len(FloatUp(h, i)) = Len(h)
         /\ IsHeap(FloatUp(h, i))
         /\ \A B : CntIn(FloatUp(h, i), B) = CntIn(h, B)
<1> DEFINE m == Len(h)
           P(n, g, a, B) == /\ Len(g) = m /\ RisesIn(g, a)
                            /\ CntIn(g, B) = CntIn(h, B)
                            /\ a + n =< i \/ IsHeap(g)
           W(B) == {x \in Nat \X [heap : Seq(Entry), at : Nat] :
                      P(x[1], x[2].heap, x[2].at, B)}
<1>1. m \in Nat /\ i \in 1..m /\ i \in Nat
  BY DEF RisesIn
<1>2. PICK f : /\ IsLoop("FloatUp", [heap |-> h, at |-> i], i, f)
               /\ FloatUp(h, i) = f[i].heap
  BY <1>1, FloatUpIsLoop
<1>3. ASSUME NEW B
      PROVE  /\ f[i].heap \in Seq(Entry) /\ Len(f[i].heap) = m /\ IsHeap(f[i].heap)
             /\ CntIn(f[i].heap, B) = CntIn(h, B)
  <2>1. \A n, s : <<n, s>> \in W(B) <=>
          /\ n \in Nat /\ s \in [heap : Seq(Entry), at : Nat]
          /\ P(n, s.heap, s.at, B)
    <3> HIDE DEF P
    <3> QED
      OBVIOUS
  <2>2. <<0, [heap |-> h, at |-> i]>> \in W(B)
    <3> DEFINE s == [heap |-> h, at |-> i]
    <3>1. s \in [heap : Seq(Entry), at : Nat] /\ s.heap = h /\ s.at = i
      BY <1>1
    <3>2. P(0, h, i, B)
      BY <1>1
    <3> HIDE DEF W, P, s
    <3>3. <<0, s>> \in W(B)
      BY <2>1, <3>1, <3>2
    <3> QED
      BY <3>3 DEF s
  <2>3. ASSUME NEW n \in 0..(i - 1), NEW s, <<n, s>> \in W(B)
        PROVE  <<n + 1, Turn("FloatUp", s)>> \in W(B)
    <3> DEFINE g == s.heap
               a == s.at
               u == a \div 2
    <3>0. s \in [heap : Seq(Entry), at : Nat] /\ P(n, g, a, B)
      <4> HIDE DEF P, W
      <4> QED
        BY <2>1, <2>3
    <3>1. g \in Seq(Entry) /\ a \in Nat /\ n \in Nat /\ n + 1 \in Nat
      BY <1>1, <3>0
    <3>2. Len(g) = m /\ RisesIn(g, a) /\ (a + n =< i \/ IsHeap(g)) /\ CntIn(g, B) = CntIn(h, B)
      BY <3>0
    <3>3. Turn("FloatUp", s) = Rise(s)
      BY DEF Turn
    <3> HIDE DEF W, P
    <3>4. CASE a > 1 /\ Less(g[u], g[a])
      <4> DEFINE w == Swap(g, a, u)
      <4>1. Rise(s) = [heap |-> w, at |-> u]
        BY <3>4 DEF Rise
      <4> HIDE DEF g, a
      <4>2. RisesIn(w, u)
        BY <3>1, <3>2, <3>4, RiseKeeps
      <4>3. a \in DOMAIN g /\ u \in DOMAIN g /\ u < a /\ u \in Nat /\ a \in 2..Len(g)
        BY <1>1, <3>1, <3>2, <3>4, Halves DEF RisesIn
      <4>4. ~IsHeap(g)
        BY <3>4, <4>3 DEF IsHeap
      <4> HIDE DEF u
      <4>5. w \in Seq(Entry) /\ Len(w) = Len(g) /\ CntIn(w, B) = CntIn(g, B)
        BY <3>1, <4>3, CountInOfSwap
      <4>6. u + (n + 1) =< i
        BY <1>1, <3>1, <3>2, <4>3, <4>4
      <4> HIDE DEF w
      <4>7. P(n + 1, w, u, B)
        BY <3>2, <4>2, <4>5, <4>6 DEF P
      <4> DEFINE s2 == [heap |-> w, at |-> u]
      <4>8. s2.heap = w /\ s2.at = u /\ s2 \in [heap : Seq(Entry), at : Nat]
        BY <4>3, <4>5
      <4> HIDE DEF s2
      <4>9. <<n + 1, s2>> \in W(B)
        BY <2>1, <3>1, <4>7, <4>8
      <4> QED
        BY <3>3, <4>1, <4>9 DEF s2
    <3>5. CASE ~(a > 1 /\ Less(g[u], g[a]))
      <4>1. Rise(s) = s
        BY <3>5 DEF Rise
      <4> HIDE DEF g, a
      <4>2. ASSUME NEW j \in 2..Len(g) PROVE ~Less(g[j \div 2], g[j])
        <5>1. CASE j # a
          BY <3>2, <5>1 DEF RisesIn
        <5>2. CASE j = a
          BY <3>5, <5>2
        <5> QED
          BY <5>1, <5>2
      <4>3. P(n + 1, g, a, B)
        BY <3>2, <4>2 DEF P, IsHeap
      <4>4. <<n + 1, s>> \in W(B)
        BY <2>1, <3>0, <3>1, <4>3 DEF g, a
      <4> QED
        BY <3>3, <4>1, <4>4
    <3> QED
      BY <3>4, <3>5
  <2> HIDE DEF W, P
  <2>4. <<i, f[i]>> \in W(B)
    BY <1>1, <1>2, <2>2, <2>3, LoopKeeps
  <2>5. f[i] \in [heap : Seq(Entry), at : Nat] /\ P(i, f[i].heap, f[i].at, B)
    BY <2>1, <2>4
  <2>6. f[i].at \in Nat /\ f[i].at >= 1
    BY <2>5 DEF P, RisesIn
  <2>7. ~(f[i].at + i =< i)
    BY <1>1, <2>6
  <2> QED
    BY <2>5, <2>7 DEF P
<1> QED
  BY <1>2, <1>3

\* The sons of an entry, and the larger of them.
LEMMA LargerSonIsLarger ==
  ASSUME NEW h \in Seq(Entry), NEW a \in 1..Len(h)
  PROVE  LET l == LargerSon(h, a) IN
         /\ l \in Nat /\ l > a /\ l \div 2 = a
         /\ \A i \in 2..Len(h) : i \div 2 = a => l =< Len(h) /\ ~Less(h[l], h[i])
<1> DEFINE l == LargerSon(h, a)
<1>1. Len(h) \in Nat /\ a \in Nat /\ a >= 1 /\ l \in {2 * a, 2 * a + 1}
  BY DEF LargerSon
<1>2. l \in Nat /\ l > a /\ l \div 2 = a
  BY <1>1
<1>3. \A i \in 1..Len(h) : h[i] \in Entry
  OBVIOUS
<1>4. ASSUME NEW i \in 2..Len(h), i \div 2 = a PROVE l =< Len(h) /\ ~Less(h[l], h[i])
  <2>1. i = 2 * a \/ i = 2 * a + 1
    BY <1>1, <1>4
  <2>2. 2 * a \in 1..Len(h) /\ i \in 1..Len(h)
    BY <1>1, <2>1
  <2>3. CASE 2 * a < Len(h) /\ Less(h[2 * a], h[2 * a + 1])
    <3>1. l = 2 * a + 1 /\ l \in 1..Len(h)
      BY <1>1, <2>3 DEF LargerSon
    <3>2. h[l] \in Entry /\ h[2 * a] \in Entry
      BY <1>3, <2>2, <3>1
    <3>3. ~Less(h[l], h[2 * a]) /\ ~Less(h[l], h[l])
      BY <2>3, <3>1, <3>2, LessOrder
    <3> QED
      BY <2>1, <3>1, <3>3
  <2>4. CASE ~(2 * a < Len(h) /\ Less(h[2 * a], h[2 * a + 1]))
    <3>1. l = 2 * a
      BY <2>4 DEF LargerSon
    <3>2. h[2 * a] \in Entry
      BY <1>3, <2>2
    <3>3. ~Less(h[2 * a], h[2 * a])
      BY <3>2, LessOrder
    <3>4. i = 2 * a + 1 => 2 * a < Len(h)
      BY <1>1, <2>2
    <3> QED
      BY <2>1, <2>2, <2>4, <3>1, <3>3, <3>4
  <2> QED
    BY <2>3, <2>4
<1> QED
  BY <1>2, <1>4

\* One turn of MoveDown.
LEMMA SinkKeeps ==
  ASSUME NEW h \in Seq(Entry), NEW a, SinksIn(h, a), LargerSon(h, a) =< Len(h),
         Less(h[a], h[LargerSon(h, a)])
  PROVE  SinksIn(Swap(h, a, LargerSon(h, a)), LargerSon(h, a))
<1> DEFINE l == LargerSon(h, a)
           w == Swap(h, a, l)
<1>1. a \in 1..Len(h) /\ Len(h) \in Nat /\ a \in Nat
  BY DEF SinksIn
<1>2. /\ l \in 2..Len(h) /\ l > a /\ l \div 2 = a
      /\ \A i \in 2..Len(h) : i \div 2 = a => ~Less(h[l], h[i])
  <2> HIDE DEF l
  <2> QED
    BY <1>1, LargerSonIsLarger DEF l
<1> HIDE DEF l
<1>3. /\ Len(w) = Len(h) /\ \A i \in 1..Len(h) : w[i] = IF i = a THEN h[l] ELSE IF i = l THEN h[a] ELSE h[i]
      /\ \A i \in 1..Len(h) : h[i] \in Entry
  BY <1>1, <1>2 DEF Swap
<1>4. \A i \in 2..Len(h) : i \div 2 \in 1..Len(h) /\ i \in 1..Len(h) /\ i \div 2 < i
  BY <1>1, Halves
<1>5. ~Less(h[l], h[a])
  BY <1>1, <1>2, <1>3, LessOrder DEF l
<1>6. /\ \A i \in 2..Len(h) : i \div 2 # a => ~Less(h[i \div 2], h[i])
      /\ a > 1 => ~Less(h[a \div 2], h[l])
  BY <1>1, <1>2 DEF SinksIn
<1> HIDE DEF w
<1>7. ASSUME NEW i \in 2..Len(h), i \div 2 # l PROVE ~Less(w[i \div 2], w[i])
  <2>1. CASE i = l
    <3>1. w[i \div 2] = h[l] /\ w[i] = h[a]
      BY <1>1, <1>2, <1>3, <2>1
    <3> QED
      BY <3>1, <1>5
  <2>2. CASE i # l /\ i \div 2 = a
    <3>1. w[i \div 2] = h[l] /\ w[i] = h[i]
      BY <1>3, <1>4, <2>2
    <3> QED
      BY <3>1, <1>2, <2>2
  <2>3. CASE i # l /\ i = a
    <3>1. w[i \div 2] = h[a \div 2] /\ w[i] = h[l]
      BY <1>3, <1>4, <1>7, <2>3
    <3> QED
      BY <3>1, <1>1, <1>6, <2>3
  <2>4. CASE i # l /\ i # a /\ i \div 2 # a
    <3>1. w[i \div 2] = h[i \div 2] /\ w[i] = h[i]
      BY <1>3, <1>4, <1>7, <2>4
    <3> QED
      BY <3>1, <1>6, <2>4
  <2> QED
    BY <2>1, <2>2, <2>3, <2>4
<1>8. ASSUME NEW i \in 2..Len(h), i \div 2 = l PROVE ~Less(w[l \div 2], w[i])
  <2>1. i # a /\ i # l /\ i \div 2 # a
    BY <1>1, <1>2, <1>4, <1>8
  <2>2. w[l \div 2] = h[l] /\ w[i] = h[i]
    BY <1>1, <1>2, <1>3, <1>4, <2>1
  <2> QED
    BY <1>6, <1>8, <2>1, <2>2
<1>9. SinksIn(w, l)
  BY <1>2, <1>3, <1>7, <1>8 DEF SinksIn
<1> QED
  BY <1>9 DEF w, l

\* MoveDown restores a heap and keeps its entries.
LEMMA MoveDownSpec ==
  ASSUME NEW h \in Seq(Entry), SinksIn(h, 1)
  PROVE  /\ MoveDown(h, 1) \in Seq(Entry) /\ Len(MoveDown(h, 1)) = Len(h)
         /\ IsHeap(MoveDown(h, 1))
         /\ \A B : CntIn(MoveDown(h, 1), B) = CntIn(h, B)
<1> DEFINE m == Len(h)
           P(n, g, a, B) == /\ Len(g) = m /\ SinksIn(g, a)
                            /\ CntIn(g, B) = CntIn(h, B)
                            /\ n + 1 =< a \/ IsHeap(g)
           W(B) == {x \in Nat \X [heap : Seq(Entry), at : Nat] :
                      P(x[1], x[2].heap, x[2].at, B)}
<1>1. m \in Nat /\ 1 \in 1..m
  BY DEF SinksIn
<1>2. PICK f : /\ IsLoop("MoveDown", [heap |-> h, at |-> 1], m, f)
               /\ MoveDown(h, 1) = f[m].heap
  BY <1>1, MoveDownIsLoop
<1>3. ASSUME NEW B
      PROVE  /\ f[m].heap \in Seq(Entry) /\ Len(f[m].heap) = m /\ IsHeap(f[m].heap)
             /\ CntIn(f[m].heap, B) = CntIn(h, B)
  <2>1. \A n, s : <<n, s>> \in W(B) <=>
          /\ n \in Nat /\ s \in [heap : Seq(Entry), at : Nat]
          /\ P(n, s.heap, s.at, B)
    <3> HIDE DEF P
    <3> QED
      OBVIOUS
  <2>2. <<0, [heap |-> h, at |-> 1]>> \in W(B)
    <3> DEFINE s == [heap |-> h, at |-> 1]
    <3>1. s \in [heap : Seq(Entry), at : Nat] /\ s.heap = h /\ s.at = 1
      OBVIOUS
    <3>2. P(0, h, 1, B)
      BY <1>1
    <3> HIDE DEF W, P, s
    <3>3. <<0, s>> \in W(B)
      BY <2>1, <3>1, <3>2
    <3> QED
      BY <3>3 DEF s
  <2>3. ASSUME NEW n \in 0..(m - 1), NEW s, <<n, s>> \in W(B)
        PROVE  <<n + 1, Turn("MoveDown", s)>> \in W(B)
    <3> DEFINE g == s.heap
               a == s.at
               l == LargerSon(g, a)
    <3>0. s \in [heap : Seq(Entry), at : Nat] /\ P(n, g, a, B)
      <4> HIDE DEF P, W
      <4> QED
        BY <2>1, <2>3
    <3>2. /\ s = [heap |-> g, at |-> a] /\ g \in Seq(Entry) /\ a \in Nat
      BY <3>0
    <3>3. Len(g) = m /\ SinksIn(g, a) /\ (n + 1 =< a \/ IsHeap(g)) /\ CntIn(g, B) = CntIn(h, B)
      BY <3>0
    <3>4. Turn("MoveDown", s) = Sink(s)
      BY DEF Turn
    <3>5. a \in 1..Len(g) /\ a >= 1
      BY <3>3 DEF SinksIn
    <3>6. l \in Nat /\ l > a /\ l \div 2 = a
          /\ \A i \in 2..Len(g) : i \div 2 = a => l =< Len(g) /\ ~Less(g[l], g[i])
      <4> HIDE DEF g, a
      <4> QED
        BY <3>2, <3>5, LargerSonIsLarger
    <3>7. n \in Nat /\ n + 1 \in Nat
      BY <1>1
    <3> HIDE DEF W, P
    <3>8. CASE l =< Len(g) /\ Less(g[a], g[l])
      <4> DEFINE w == Swap(g, a, l)
      <4>1. Sink(s) = [heap |-> w, at |-> l]
        BY <3>8 DEF Sink
      <4> HIDE DEF g, a
      <4>2. SinksIn(w, l)
        BY <3>2, <3>3, <3>8, SinkKeeps
      <4>3. a \in DOMAIN g /\ l \in DOMAIN g /\ l \in 2..Len(g)
        BY <1>1, <3>2, <3>5, <3>6, <3>8
      <4> HIDE DEF l
      <4>4. w \in Seq(Entry) /\ Len(w) = Len(g) /\ CntIn(w, B) = CntIn(g, B)
        BY <3>2, <4>3, CountInOfSwap
      <4>5. ~IsHeap(g)
        BY <3>6, <3>8, <4>3 DEF IsHeap
      <4>6. (n + 1) + 1 =< l
        BY <3>2, <3>3, <3>6, <3>7, <4>5
      <4> HIDE DEF w
      <4>7. P(n + 1, w, l, B)
        BY <3>3, <4>2, <4>4, <4>6 DEF P
      <4> DEFINE s2 == [heap |-> w, at |-> l]
      <4>8. s2.heap = w /\ s2.at = l /\ s2 \in [heap : Seq(Entry), at : Nat]
        BY <3>6, <4>4
      <4> HIDE DEF s2
      <4>9. <<n + 1, s2>> \in W(B)
        BY <2>1, <3>7, <4>7, <4>8
      <4> QED
        BY <3>4, <4>1, <4>9 DEF s2
    <3>9. CASE ~(l =< Len(g) /\ Less(g[a], g[l]))
      <4>1. Sink(s) = s
        BY <3>9 DEF Sink
      <4> HIDE DEF g, a, l
      <4>2. ASSUME NEW i \in 2..Len(g) PROVE ~Less(g[i \div 2], g[i])
        <5>1. CASE i \div 2 # a
          BY <3>3, <5>1 DEF SinksIn
        <5>2. CASE i \div 2 = a
          <6>1. l =< Len(g) /\ ~Less(g[l], g[i]) /\ ~Less(g[a], g[l])
            BY <3>6, <3>9, <5>2
          <6>2. g[a] \in Entry /\ g[l] \in Entry /\ g[i] \in Entry
            <7>1. a \in 1..Len(g) /\ l \in 1..Len(g) /\ i \in 1..Len(g)
              BY <3>5, <3>6, <6>1
            <7> QED
              BY <3>2, <7>1
          <6>3. ~Less(g[a], g[i])
            BY <6>1, <6>2, LessOrder
          <6> QED
            BY <5>2, <6>3
        <5> QED
          BY <5>1, <5>2
      <4>3. IsHeap(g)
        BY <4>2 DEF IsHeap
      <4>4. P(n + 1, g, a, B)
        BY <3>3, <4>3 DEF P
      <4>5. <<n + 1, s>> \in W(B)
        BY <2>1, <3>0, <3>7, <4>4 DEF g, a
      <4> QED
        BY <3>4, <4>1, <4>5
    <3> QED
      BY <3>8, <3>9
  <2> HIDE DEF W, P
  <2>4. <<m, f[m]>> \in W(B)
    <3> HIDE DEF m
    <3> QED
      BY <1>1, <1>2, <2>2, <2>3, LoopKeeps
  <2>5. f[m] \in [heap : Seq(Entry), at : Nat] /\ P(m, f[m].heap, f[m].at, B)
    BY <2>1, <2>4
  <2>6. f[m].at =< m /\ f[m].at \in Nat
    BY <2>5 DEF P, SinksIn
  <2>7. ~(m + 1 =< f[m].at)
    <3> HIDE DEF m
    <3> QED
      BY <1>1, <2>6
  <2> QED
    BY <2>5, <2>7 DEF P
<1> QED
  BY <1>2, <1>3

\* The top of the heap is the furthest entry.
LEMMA TopIsFurthest ==
  ASSUME NEW h \in Seq(Entry), IsHeap(h)
  PROVE  \A i \in 1..Len(h) : h[i].dist =< h[1].dist
<1> DEFINE G == {i \in Nat : i \in 1..Len(h) => h[i].dist =< h[1].dist}
<1>1. ASSUME NEW i \in Nat, \A j \in Nat : j < i => j \in G PROVE i \in G
  <2>1. CASE i \in 2..Len(h)
    <3> DEFINE j == i \div 2
    <3>1. j \in Nat /\ j < i /\ j \in 1..Len(h) /\ 1 \in 1..Len(h) /\ i \in 1..Len(h)
      BY <2>1, Halves
    <3>2. ~Less(h[j], h[i])
      BY <2>1 DEF IsHeap
    <3> HIDE DEF j
    <3>3. h[j] \in Entry /\ h[i] \in Entry /\ h[1] \in Entry
      BY <3>1
    <3>4. h[i].dist =< h[j].dist
      BY <3>2, <3>3, LessOrder
    <3>5. h[j].dist =< h[1].dist
      BY <1>1, <3>1
    <3>6. h[i].dist \in Int /\ h[j].dist \in Int /\ h[1].dist \in Int
      BY <3>3 DEF Entry
    <3> QED
      BY <3>4, <3>5, <3>6
  <2>2. CASE i = 1 /\ i \in 1..Len(h)
    <3>1. h[1] \in Entry
      BY <2>2
    <3>2. h[1].dist \in Int
      BY <3>1 DEF Entry
    <3> QED
      BY <2>2, <3>2
  <2>3. CASE i \notin 1..Len(h)
    BY <2>3
  <2> QED
    BY <2>1, <2>2, <2>3
<1>2. G \in SUBSET Nat
  OBVIOUS
<1>3. \A i \in Nat : (\A j \in Nat : j < i => j \in G) => i \in G
  BY <1>1
<1> HIDE DEF G
<1>4. \A i \in Nat : i \in G
  BY <1>2, <1>3, Induction
<1> QED
  BY <1>4 DEF G

\* Pushing an entry adds it.
LEMMA PushAdds ==
  ASSUME NEW h \in Seq(Entry), IsHeap(h), NEW x \in Entry
  PROVE  /\ HeapPush(h, x) \in Seq(Entry) /\ Len(HeapPush(h, x)) = Len(h) + 1
         /\ IsHeap(HeapPush(h, x))
         /\ \A B : CntIn(HeapPush(h, x), B) = CntIn(h, B) + One(x \in B)
<1> DEFINE g == Append(h, x)
           n == Len(h) + 1
<1>1. g \in Seq(Entry) /\ Len(g) = n /\ Len(h) \in Nat /\ \A i \in 1..Len(h) : g[i] = h[i]
  OBVIOUS
<1>2. g = h \o <<x>>
  OBVIOUS
<1> HIDE DEF g
<1>3. \A i \in 2..n : i \div 2 \in 1..Len(h) /\ i \div 2 < i
  BY <1>1, Halves
<1>4. RisesIn(g, n)
  <2>1. ASSUME NEW i \in 2..Len(g), i # n PROVE ~Less(g[i \div 2], g[i])
    <3>1. i \in 2..Len(h) /\ i \in 1..Len(h) /\ i \div 2 \in 1..Len(h)
      BY <1>1, <1>3, <2>1
    <3>2. ~Less(h[i \div 2], h[i])
      BY <3>1 DEF IsHeap
    <3> QED
      BY <1>1, <3>1, <3>2
  <2>2. \A i \in 2..Len(g) : i \div 2 # n
    BY <1>1, <1>3
  <2> QED
    BY <1>1, <2>1, <2>2 DEF RisesIn
<1>5. ASSUME NEW B PROVE CntIn(g, B) = CntIn(h, B) + One(x \in B)
  <2>1. <<x>> \in Seq(Entry)
    OBVIOUS
  <2>2. CntIn(h \o <<x>>, B) = CntIn(h, B) + CntIn(<<x>>, B)
    BY <2>1, CountInOfTwo
  <2>3. CntIn(<<x>>, B) = One(x \in B)
    BY CountInOfOne
  <2> QED
    BY <1>2, <2>2, <2>3
<1>6. HeapPush(h, x) = FloatUp(g, n)
  BY DEF HeapPush, g
<1> HIDE DEF n
<1>7. /\ FloatUp(g, n) \in Seq(Entry) /\ Len(FloatUp(g, n)) = Len(g)
      /\ IsHeap(FloatUp(g, n))
      /\ \A B : CntIn(FloatUp(g, n), B) = CntIn(g, B)
  BY <1>1, <1>4, FloatUpSpec
<1> QED
  BY <1>1, <1>5, <1>6, <1>7 DEF n

\* Popping the top removes it.
LEMMA PopRemoves ==
  ASSUME NEW h \in Seq(Entry), IsHeap(h), Len(h) > 0
  PROVE  /\ HeapPop(h) \in Seq(Entry) /\ Len(HeapPop(h)) = Len(h) - 1
         /\ IsHeap(HeapPop(h))
         /\ \A B : CntIn(HeapPop(h), B) = CntIn(h, B) - One(h[1] \in B)
<1> DEFINE n == Len(h)
           g == [i \in 1..(n - 1) |-> IF i = 1 THEN h[n] ELSE h[i]]
           w == Swap(h, 1, n)
<1>1. n \in Nat /\ n > 0 /\ 1 \in DOMAIN h /\ n \in DOMAIN h /\ h[1] \in Entry
  OBVIOUS
<1>2. w \in Seq(Entry) /\ Len(w) = n /\ \A B : CntIn(w, B) = CntIn(h, B)
  <2> HIDE DEF w, n
  <2> QED
    BY <1>1, CountInOfSwap DEF w, n
<1>3. CASE n = 1
  <2>1. HeapPop(h) = <<>>
    BY <1>3 DEF HeapPop
  <2>2. IsHeap(<<>>) /\ <<>> \in Seq(Entry) /\ Len(<<>>) = 0
    BY DEF IsHeap
  <2>3. ASSUME NEW B PROVE CntIn(<<>>, B) = CntIn(h, B) - One(h[1] \in B)
    <3>1. CntIn(<<>>, B) = 0
      <4>1. \A i \in DOMAIN <<>> : <<>>[i] \notin B
        OBVIOUS
      <4> QED
        BY <2>2, <4>1, CountInOfNone
    <3>2. h = <<h[1]>>
      BY <1>1, <1>3
    <3>3. CntIn(h, B) = One(h[1] \in B)
      BY <3>2, CountInOfOne
    <3>4. CntIn(h, B) \in Nat
      BY CountInIsNat
    <3> QED
      BY <3>1, <3>3, <3>4
  <2> QED
    BY <1>3, <2>1, <2>2, <2>3
<1>4. CASE n # 1
  <2>1. n > 1 /\ HeapPop(h) = MoveDown(g, 1)
    <3> HIDE DEF n, g, w
    <3>1. n > 1 /\ ~(n =< 1)
      BY <1>1, <1>4
    <3>2. HeapPop(h) = MoveDown(g, 1)
      BY <3>1, Zenon DEF HeapPop, n, g
    <3> QED
      BY <3>1, <3>2
  <2>2. g \in Seq(Entry) /\ Len(g) = n - 1 /\ Len(g) \in Nat
    <3>1. n - 1 \in Nat /\ \A i \in 1..(n - 1) : g[i] \in Entry
      BY <1>1, <2>1
    <3> QED
      BY <3>1
  <2>3. \A i \in 2..(n - 1) : g[i] = h[i]
    BY <1>1
  <2>4. w = g \o <<h[1]>>
    <3>1. g \o <<h[1]>> \in Seq(Entry) /\ Len(g \o <<h[1]>>) = n
      BY <1>1, <2>2
    <3>2. \A i \in 1..n : w[i] = (g \o <<h[1]>>)[i]
      <4>1. ASSUME NEW i \in 1..n PROVE w[i] = (g \o <<h[1]>>)[i]
        <5>1. w[i] = IF i = n THEN h[1] ELSE IF i = 1 THEN h[n] ELSE h[i]
          BY <1>1, <2>1 DEF Swap
        <5>2. CASE i = n
          <6>1. w[i] = h[1]
            BY <5>1, <5>2
          <6> HIDE DEF g
          <6>2. (g \o <<h[1]>>)[n] = h[1]
            BY <1>1, <2>1, <2>2
          <6> QED
            BY <5>2, <6>1, <6>2
        <5>3. CASE i # n
          <6>1. i \in 1..(n - 1) /\ g[i] = IF i = 1 THEN h[n] ELSE h[i]
            BY <1>1, <5>3
          <6> HIDE DEF g
          <6>2. (g \o <<h[1]>>)[i] = g[i]
            BY <1>1, <2>2, <6>1
          <6> QED
            BY <5>1, <5>3, <6>1, <6>2
        <5> QED
          BY <5>2, <5>3
      <4> QED
        BY <4>1
    <3> DEFINE v == g \o <<h[1]>>
    <3> HIDE DEF w, v, g
    <3>3. \A a, b \in Seq(Entry) : Len(a) = n /\ Len(b) = n /\ (\A i \in 1..n : a[i] = b[i]) => a = b
      OBVIOUS
    <3> QED
      BY <1>2, <3>1, <3>2, <3>3 DEF v
  <2>5. SinksIn(g, 1)
    <3>1. ASSUME NEW i \in 2..Len(g), i \div 2 # 1 PROVE ~Less(g[i \div 2], g[i])
      <4>1. i \in Nat /\ i > 1 /\ i \in 2..(n - 1) /\ i \in 2..n
        BY <1>1, <2>2
      <4>2. i \div 2 \in 2..(n - 1)
        BY <1>1, <3>1, <4>1, Halves
      <4>3. ~Less(h[i \div 2], h[i])
        BY <4>1 DEF IsHeap
      <4> QED
        BY <2>3, <4>1, <4>2, <4>3
    <3>2. 1 \in 1..Len(g)
      BY <2>1, <2>2
    <3>3. ~(1 > 1)
      OBVIOUS
    <3> QED
      BY ONLY <3>1, <3>2, <3>3, Zenon DEF SinksIn
  <2> HIDE DEF g, n, w
  <2>6. /\ MoveDown(g, 1) \in Seq(Entry) /\ Len(MoveDown(g, 1)) = Len(g)
        /\ IsHeap(MoveDown(g, 1))
        /\ \A B : CntIn(MoveDown(g, 1), B) = CntIn(g, B)
    BY <2>2, <2>5, MoveDownSpec
  <2>7. ASSUME NEW B PROVE CntIn(g, B) = CntIn(h, B) - One(h[1] \in B)
    <3>1. <<h[1]>> \in Seq(Entry)
      BY <1>1
    <3>2. CntIn(w, B) = CntIn(g, B) + CntIn(<<h[1]>>, B)
      BY <2>2, <2>4, <3>1, CountInOfTwo
    <3>3. CntIn(<<h[1]>>, B) = One(h[1] \in B)
      BY CountInOfOne
    <3>4. CntIn(g, B) \in Nat
      BY <2>2, CountInIsNat
    <3>5. One(h[1] \in B) \in Nat
      BY DEF One
    <3> QED
      BY <1>2, <3>2, <3>3, <3>4, <3>5
  <2> QED
    BY <2>1, <2>2, <2>6, <2>7 DEF n
<1> QED
  BY <1>3, <1>4

(***************************************************************************)
(* Nearest_Search finds the nearest points.                                *)
(***************************************************************************)
\* Every element is in a set that counts as many as there are.
LEMMA CountInFull ==
  ASSUME NEW S, NEW s \in Seq(S), NEW B, CntIn(s, B) = Len(s)
  PROVE  \A i \in 1..Len(s) : s[i] \in B
<1> DEFINE I == {i \in DOMAIN s : s[i] \in B}
<1>1. {i \in DOMAIN Hits(s, B) : Hits(s, B)[i] = 1} = I
  BY DEF Hits
<1>2. DOMAIN s = 1..Len(s) /\ Len(s) \in Nat
  OBVIOUS
<1>3. IsFiniteSet(1..Len(s)) /\ Cardinality(1..Len(s)) = Len(s)
  <2>1. 1 \in Int /\ Len(s) \in Int /\ Len(s) >= 0
    BY <1>2
  <2>2. Cardinality(1..Len(s)) = IF 1 > Len(s) THEN 0 ELSE Len(s) - 1 + 1
    BY <2>1, FS_Interval, Zenon
  <2>3. IsFiniteSet(1..Len(s))
    BY <2>1, FS_Interval, Zenon
  <2> QED
    BY <1>2, <2>2, <2>3
<1>4. I \subseteq 1..Len(s) /\ Cardinality(I) = Len(s)
  BY <1>1, <1>2 DEF CntIn, Cnt
<1>5. I = 1..Len(s)
  <2> HIDE DEF I
  <2> QED
    BY <1>3, <1>4, FS_Subset
<1> QED
  BY <1>5

\* Entries that tell the distance of a point within max; those not further
\* than d; those at a point of A.
Near(p, max) == {e \in Entry : e.dist = calc_dist(p, e.pt) /\ e.dist =< max}
Close(d)     == {e \in Entry : e.dist =< d}
Of(A)        == {e \in Entry : e.pt \in A}
Ball(p, d)   == {x \in Point : calc_dist(p, x) =< d}
Least(a, b)  == IF a =< b THEN a ELSE b

\* What Search keeps: a heap of at most k such entries.
IsQueue(q, k, p, max) ==
  /\ q \in Seq(Entry) /\ IsHeap(q) /\ Len(q) =< k
  /\ CntIn(q, Near(p, max)) = Len(q)

\* q2 keeps the k nearest of the entries of q and the points of s.
Gathers(q, q2, s, k, p, max) ==
  /\ IsQueue(q2, k, p, max)
  /\ \A d \in Int : d =< max =>
       CntIn(q2, Close(d)) = Least(k, CntIn(q, Close(d)) + CntIn(s, Ball(p, d)))
  /\ \A A : CntIn(q2, Of(A)) =< CntIn(q, Of(A)) + CntIn(s, A)

\* The lesser of two numbers.
LEMMA LeastIsRight ==
  \A k \in Nat \ {0} : \A n \in Nat : n =< k => Least(k, n) = n
BY DEF Least

\* Everything is as close as the top.
LEMMA AllClose ==
  ASSUME NEW h \in Seq(Entry), IsHeap(h), Len(h) > 0, NEW d \in Int, h[1].dist =< d
  PROVE  CntIn(h, Close(d)) = Len(h)
<1>1. ASSUME NEW i \in DOMAIN h PROVE h[i] \in Close(d)
  <2>1. h[i] \in Entry /\ h[1] \in Entry /\ i \in 1..Len(h)
    OBVIOUS
  <2>2. h[i].dist =< h[1].dist
    BY <2>1, TopIsFurthest
  <2>3. h[i].dist \in Int /\ h[1].dist \in Int
    BY <2>1 DEF Entry
  <2>4. h[i].dist =< d
    BY <2>2, <2>3
  <2> QED
    BY <2>1, <2>4 DEF Close
<1> QED
  BY <1>1, CountInOfAll

\* A full heap has k entries within a distance that it is not open for.
LEMMA ClosedIsFull ==
  ASSUME NEW q \in Seq(Entry), IsHeap(q), NEW k \in Nat \ {0}, Len(q) =< k,
         NEW b \in Int, NEW d \in Int, b =< d, ~IsOpen(q, k, b)
  PROVE  CntIn(q, Close(d)) = k
<1>1. Len(q) \in Nat /\ Len(q) = k /\ Len(q) > 0 /\ ~(b < q[1].dist)
  <2>1. ~(Len(q) < k) /\ ~(b < q[1].dist)
    BY DEF IsOpen
  <2> QED
    BY <2>1
<1>2. q[1] \in Entry
  BY <1>1
<1>3. q[1].dist \in Int
  BY <1>2 DEF Entry
<1>4. q[1].dist =< d
  BY <1>1, <1>3
<1> QED
  BY <1>1, <1>4, AllClose

\* The k nearest of one entry more.
LEMMA OfferKeepsNearest ==
  ASSUME NEW k \in Nat \ {0}, NEW p, NEW max \in Int, NEW q, IsQueue(q, k, p, max),
         NEW x \in Near(p, max)
  PROVE  /\ IsQueue(Offer(q, x, k), k, p, max)
         /\ \A d \in Int : CntIn(Offer(q, x, k), Close(d)) =
              Least(k, CntIn(q, Close(d)) + One(x \in Close(d)))
         /\ \A A : CntIn(Offer(q, x, k), Of(A)) =< CntIn(q, Of(A)) + One(x \in Of(A))
<1> DEFINE r == Offer(q, x, k)
           N == Near(p, max)
<1>1. /\ q \in Seq(Entry) /\ IsHeap(q) /\ Len(q) \in Nat /\ Len(q) =< k
      /\ CntIn(q, N) = Len(q) /\ x \in Entry /\ x.dist \in Int
  BY DEF IsQueue, Near, Entry
<1>2. \A B : CntIn(q, B) \in Nat /\ CntIn(q, B) =< Len(q)
  BY <1>1, CountInIsNat
<1>3. \A b : One(b) \in {0, 1}
  BY DEF One
<1>4. One(x \in N) = 1 /\ \A d : One(x \in Close(d)) = IF x.dist =< d THEN 1 ELSE 0
  BY <1>1 DEF One, Close
<1> HIDE DEF N
<1>5. CASE ~IsOpen(q, k, x.dist)
  <2>1. r = q
    BY <1>5, Zenon DEF Offer
  <2>2. ASSUME NEW d \in Int PROVE CntIn(q, Close(d)) = Least(k, CntIn(q, Close(d)) + One(x \in Close(d)))
    <3>1. CASE x.dist =< d
      <4>1. CntIn(q, Close(d)) = k
        BY <1>1, <1>5, <3>1, ClosedIsFull
      <4>2. One(x \in Close(d)) = 1
        BY <1>4, <3>1
      <4>3. k = Least(k, k + 1)
        BY DEF Least
      <4> QED
        BY ONLY <4>1, <4>2, <4>3, Zenon
    <3>2. CASE ~(x.dist =< d)
      <4>1. One(x \in Close(d)) = 0
        BY <1>4, <3>2
      <4>2. CntIn(q, Close(d)) =< k /\ CntIn(q, Close(d)) \in Nat
        <5>1. CntIn(q, Close(d)) =< Len(q) /\ CntIn(q, Close(d)) \in Nat
          BY <1>2
        <5> QED
          BY <1>1, <5>1
      <4> QED
        BY <4>1, <4>2 DEF Least
    <3> QED
      BY <3>1, <3>2
  <2>3. ASSUME NEW A PROVE CntIn(q, Of(A)) =< CntIn(q, Of(A)) + One(x \in Of(A))
    <3>1. CntIn(q, Of(A)) \in Nat /\ One(x \in Of(A)) \in {0, 1}
      BY <1>2, <1>3
    <3> QED
      BY <3>1
  <2> QED
    BY <2>1, <2>2, <2>3
<1>6. CASE IsOpen(q, k, x.dist) /\ Len(q) < k
  <2>1. r = HeapPush(q, x)
    BY <1>6, Zenon DEF Offer
  <2> HIDE DEF r
  <2>2. /\ r \in Seq(Entry) /\ Len(r) = Len(q) + 1 /\ IsHeap(r)
        /\ \A B : CntIn(r, B) = CntIn(q, B) + One(x \in B)
    BY <1>1, <2>1, PushAdds
  <2>3. IsQueue(r, k, p, max)
    <3>1. CntIn(r, N) = Len(r)
      BY <1>1, <1>4, <2>2
    <3>2. Len(r) =< k
      BY <1>1, <1>6, <2>2
    <3> QED
      BY <2>2, <3>1, <3>2 DEF IsQueue, N
  <2>4. ASSUME NEW d \in Int PROVE CntIn(r, Close(d)) = Least(k, CntIn(q, Close(d)) + One(x \in Close(d)))
    <3>1. CntIn(r, Close(d)) = CntIn(q, Close(d)) + One(x \in Close(d))
      BY <2>2
    <3>2. CntIn(r, Close(d)) =< Len(r) /\ CntIn(r, Close(d)) \in Nat
      BY <2>2, CountInIsNat
    <3>3. CntIn(r, Close(d)) =< k
      BY <1>1, <1>6, <2>2, <3>2
    <3>4. CntIn(q, Close(d)) + One(x \in Close(d)) \in Nat /\ CntIn(q, Close(d)) + One(x \in Close(d)) =< k
      BY ONLY <3>1, <3>2, <3>3, Zenon
    <3> QED
      BY <3>1, <3>2, <3>4, LeastIsRight, Zenon
  <2>5. ASSUME NEW A PROVE CntIn(r, Of(A)) =< CntIn(q, Of(A)) + One(x \in Of(A))
    <3>1. CntIn(q, Of(A)) \in Nat /\ One(x \in Of(A)) \in {0, 1}
      BY <1>2, <1>3
    <3>2. CntIn(r, Of(A)) = CntIn(q, Of(A)) + One(x \in Of(A))
      BY <2>2
    <3> QED
      BY <3>1, <3>2
  <2> QED
    BY <2>3, <2>4, <2>5 DEF r
<1>7. CASE IsOpen(q, k, x.dist) /\ ~(Len(q) < k)
  <2> DEFINE o == HeapPop(q)
  <2>1. r = HeapPush(o, x)
    BY <1>7, Zenon DEF Offer
  <2>2. Len(q) = k /\ Len(q) > 0 /\ x.dist < q[1].dist
    <3>1. x.dist < q[1].dist
      BY <1>7 DEF IsOpen
    <3> QED
      BY <1>1, <1>7, <3>1
  <2>3. q[1] \in Entry
    BY <1>1, <2>2
  <2>4. q[1].dist \in Int
    BY <2>3 DEF Entry
  <2> HIDE DEF r, o
  <2>5. /\ o \in Seq(Entry) /\ Len(o) = Len(q) - 1 /\ IsHeap(o)
        /\ \A B : CntIn(o, B) = CntIn(q, B) - One(q[1] \in B)
    BY <1>1, <2>2, PopRemoves DEF o
  <2>6. /\ r \in Seq(Entry) /\ Len(r) = Len(o) + 1 /\ IsHeap(r)
        /\ \A B : CntIn(r, B) = CntIn(o, B) + One(x \in B)
    BY <1>1, <2>1, <2>5, PushAdds
  <2>7. IsQueue(r, k, p, max)
    <3>1. q[1] \in N
      <4>1. 1 \in 1..Len(q)
        BY <1>1, <2>2
      <4> QED
        BY <1>1, <4>1, CountInFull
    <3>2. One(q[1] \in N) = 1
      BY <3>1 DEF One
    <3>3. CntIn(r, N) = Len(r)
      <4>1. CntIn(r, N) = CntIn(o, N) + One(x \in N) /\ CntIn(o, N) = CntIn(q, N) - One(q[1] \in N)
        BY <2>5, <2>6
      <4> QED
        BY <1>1, <1>4, <2>5, <2>6, <3>2, <4>1
    <3>4. Len(r) =< k
      BY <2>2, <2>5, <2>6
    <3> QED
      BY <2>6, <3>3, <3>4 DEF IsQueue, N
  <2>8. ASSUME NEW d \in Int PROVE CntIn(r, Close(d)) = Least(k, CntIn(q, Close(d)) + One(x \in Close(d)))
    <3>1. /\ CntIn(r, Close(d)) = CntIn(o, Close(d)) + One(x \in Close(d))
          /\ CntIn(o, Close(d)) = CntIn(q, Close(d)) - One(q[1] \in Close(d))
      BY <2>5, <2>6
    <3>2. CntIn(o, Close(d)) =< Len(o) /\ CntIn(o, Close(d)) \in Nat
      BY <2>5, CountInIsNat
    <3>3. CntIn(q, Close(d)) \in Nat
      BY <1>2
    <3>4. CASE q[1].dist =< d
      <4>1. CntIn(q, Close(d)) = k
        BY <1>1, <2>2, <3>4, AllClose
      <4>2. One(q[1] \in Close(d)) = 1
        BY <2>3, <3>4 DEF One, Close
      <4>3. x.dist =< d
        BY <1>1, <2>2, <2>4, <3>4
      <4>4. One(x \in Close(d)) = 1
        BY <1>4, <4>3
      <4>5. k = Least(k, k + 1) /\ (k - 1) + 1 = k
        BY DEF Least
      <4>6. CntIn(o, Close(d)) = k - 1 /\ CntIn(r, Close(d)) = (k - 1) + 1
        BY <3>1, <4>1, <4>2, <4>4
      <4> QED
        BY ONLY <4>1, <4>4, <4>5, <4>6, Zenon
    <3>5. CASE ~(q[1].dist =< d)
      <4>1. One(q[1] \in Close(d)) = 0
        BY <2>3, <3>5 DEF One, Close
      <4>2. CntIn(q, Close(d)) =< k - 1
        BY <2>2, <2>5, <3>1, <3>2, <3>3, <4>1
      <4>3. One(x \in Close(d)) \in {0, 1}
        BY <1>3
      <4>4. CntIn(r, Close(d)) = CntIn(q, Close(d)) + One(x \in Close(d))
        BY <3>1, <3>3, <4>1
      <4>5. CntIn(q, Close(d)) + One(x \in Close(d)) =< k /\ CntIn(q, Close(d)) + One(x \in Close(d)) \in Nat
        BY <3>3, <4>2, <4>3
      <4> QED
        BY <4>4, <4>5, LeastIsRight, Zenon
    <3> QED
      BY <3>4, <3>5
  <2>9. ASSUME NEW A PROVE CntIn(r, Of(A)) =< CntIn(q, Of(A)) + One(x \in Of(A))
    <3>1. CntIn(q, Of(A)) \in Nat /\ One(x \in Of(A)) \in {0, 1} /\ One(q[1] \in Of(A)) \in {0, 1}
      BY <1>2, <1>3
    <3>2. /\ CntIn(r, Of(A)) = CntIn(o, Of(A)) + One(x \in Of(A))
          /\ CntIn(o, Of(A)) = CntIn(q, Of(A)) - One(q[1] \in Of(A))
      BY <2>5, <2>6
    <3> QED
      BY <3>1, <3>2
  <2> QED
    BY <2>7, <2>8, <2>9 DEF r
<1> QED
  BY <1>5, <1>6, <1>7

\* Distances are integers.
LEMMA DistanceIsInt ==
  ASSUME NEW p \in Point, NEW x \in Point
  PROVE  calc_dist(p, x) \in Int
<1>1. 0 \in Axis /\ 1 \in Axis /\ 2 \in Axis
  BY DEF Axis
<1>2. /\ p[0] \in Int /\ p[1] \in Int /\ p[2] \in Int
      /\ x[0] \in Int /\ x[1] \in Int /\ x[2] \in Int
  BY <1>1 DEF Point
<1> QED
  BY <1>2 DEF calc_dist, Square

\* Points further away than a bound that is beyond max, or for which the heap is
\* closed, need not be looked at.
LEMMA GatherSkip ==
  ASSUME NEW k \in Nat \ {0}, NEW p \in Point, NEW max \in Int, NEW q, IsQueue(q, k, p, max),
         NEW s \in Seq(Point), NEW b \in Int, \A i \in DOMAIN s : b =< calc_dist(p, s[i]),
         b > max \/ ~IsOpen(q, k, b)
  PROVE  Gathers(q, q, s, k, p, max)
<1>1. q \in Seq(Entry) /\ IsHeap(q) /\ Len(q) =< k /\ Len(q) \in Nat
  BY DEF IsQueue
<1>2. \A B : CntIn(q, B) \in Nat /\ CntIn(q, B) =< Len(q)
  BY <1>1, CountInIsNat
<1>3. \A B : CntIn(s, B) \in Nat
  BY CountInIsNat
<1>4. ASSUME NEW d \in Int, d =< max
      PROVE  CntIn(q, Close(d)) = Least(k, CntIn(q, Close(d)) + CntIn(s, Ball(p, d)))
  <2> DEFINE c == CntIn(q, Close(d))
             e == CntIn(s, Ball(p, d))
  <2>1. c \in Nat /\ c =< k /\ e \in Nat
    <3>1. c \in Nat /\ c =< Len(q) /\ e \in Nat
      BY <1>2, <1>3
    <3> HIDE DEF c, e
    <3> QED
      BY <1>1, <3>1
  <2>2. CASE b =< d
    <3>1. ~IsOpen(q, k, b)
      BY <1>4, <2>2
    <3>2. c = k
      BY <1>1, <2>2, <3>1, ClosedIsFull
    <3> HIDE DEF c, e
    <3>3. c = Least(k, c + e)
      BY <2>1, <3>2 DEF Least
    <3> QED
      BY <3>3 DEF c, e
  <2>3. CASE d < b
    <3>1. ASSUME NEW i \in DOMAIN s PROVE s[i] \notin Ball(p, d)
      <4>1. b =< calc_dist(p, s[i]) /\ calc_dist(p, s[i]) \in Int
        BY DistanceIsInt
      <4>2. ~(calc_dist(p, s[i]) =< d)
        BY <2>3, <4>1
      <4> QED
        BY <4>2 DEF Ball
    <3>2. e = 0
      BY <3>1, CountInOfNone
    <3> HIDE DEF c, e
    <3>3. c = Least(k, c + e)
      BY <2>1, <3>2 DEF Least
    <3> QED
      BY <3>3 DEF c, e
  <2> QED
    BY <2>2, <2>3
<1>5. ASSUME NEW A PROVE CntIn(q, Of(A)) =< CntIn(q, Of(A)) + CntIn(s, A)
  <2>1. CntIn(q, Of(A)) \in Nat /\ CntIn(s, A) \in Nat
    BY <1>2, <1>3
  <2> QED
    BY <2>1
<1> QED
  BY <1>4, <1>5 DEF Gathers

\* Nothing is nothing to look at.
LEMMA GatherNone ==
  ASSUME NEW k \in Nat \ {0}, NEW p \in Point, NEW max \in Int, NEW q, IsQueue(q, k, p, max)
  PROVE  Gathers(q, q, <<>>, k, p, max)
<1>1. <<>> \in Seq(Point) /\ max + 1 \in Int /\ max + 1 > max
      /\ \A i \in DOMAIN <<>> : max + 1 =< calc_dist(p, <<>>[i])
  OBVIOUS
<1> QED
  BY <1>1, GatherSkip

\* One point within max is offered.
LEMMA GatherOne ==
  ASSUME NEW k \in Nat \ {0}, NEW p \in Point, NEW max \in Int, NEW q, IsQueue(q, k, p, max),
         NEW x \in Point, calc_dist(p, x) =< max
  PROVE  Gathers(q, Offer(q, [pt |-> x, dist |-> calc_dist(p, x)], k), <<x>>, k, p, max)
<1> DEFINE e == [pt |-> x, dist |-> calc_dist(p, x)]
           r == Offer(q, e, k)
<1>1. e \in Entry /\ e.pt = x /\ e.dist = calc_dist(p, x)
  BY DistanceIsInt DEF Entry
<1> HIDE DEF e
<1>2. e \in Near(p, max)
  BY <1>1 DEF Near
<1>3. /\ IsQueue(r, k, p, max)
      /\ \A d \in Int : CntIn(r, Close(d)) = Least(k, CntIn(q, Close(d)) + One(e \in Close(d)))
      /\ \A A : CntIn(r, Of(A)) =< CntIn(q, Of(A)) + One(e \in Of(A))
  BY <1>2, OfferKeepsNearest
<1> HIDE DEF r
<1>4. ASSUME NEW d PROVE CntIn(<<x>>, Ball(p, d)) = One(e \in Close(d))
  <2>1. CntIn(<<x>>, Ball(p, d)) = One(x \in Ball(p, d))
    BY CountInOfOne
  <2>2. x \in Ball(p, d) <=> e \in Close(d)
    BY <1>1 DEF Ball, Close
  <2> QED
    BY <2>1, <2>2 DEF One
<1>5. ASSUME NEW A PROVE CntIn(<<x>>, A) = One(e \in Of(A))
  <2>1. CntIn(<<x>>, A) = One(x \in A)
    BY CountInOfOne
  <2>2. x \in A <=> e \in Of(A)
    BY <1>1 DEF Of
  <2> QED
    BY <2>1, <2>2 DEF One
<1>6. Gathers(q, r, <<x>>, k, p, max)
  <2>1. ASSUME NEW d \in Int PROVE CntIn(r, Close(d)) = Least(k, CntIn(q, Close(d)) + CntIn(<<x>>, Ball(p, d)))
    BY <1>3, <1>4, Zenon
  <2>2. ASSUME NEW A PROVE CntIn(r, Of(A)) =< CntIn(q, Of(A)) + CntIn(<<x>>, A)
    BY <1>3, <1>5, Zenon
  <2> QED
    BY <1>3, <2>1, <2>2, Zenon DEF Gathers
<1> QED
  BY <1>6 DEF r, e

\* Only what a sequence holds matters, not its order.
LEMMA GatherAlike ==
  ASSUME NEW k, NEW p, NEW max, NEW q, NEW r, NEW s, NEW t, Gathers(q, r, s, k, p, max),
         \A B : CntIn(s, B) = CntIn(t, B)
  PROVE  Gathers(q, r, t, k, p, max)
BY Zenon DEF Gathers

\* Two sequences are gathered one after the other.
LEMMA GatherTwice ==
  ASSUME NEW k \in Nat \ {0}, NEW p, NEW max \in Int, NEW q, NEW r, NEW v,
         IsQueue(q, k, p, max), NEW s \in Seq(Point), NEW t \in Seq(Point),
         Gathers(q, r, s, k, p, max), Gathers(r, v, t, k, p, max)
  PROVE  Gathers(q, v, s \o t, k, p, max)
<1>1. q \in Seq(Entry) /\ r \in Seq(Entry) /\ v \in Seq(Entry) /\ IsQueue(v, k, p, max)
  BY DEF Gathers, IsQueue
<1>2. \A B : CntIn(q, B) \in Nat /\ CntIn(r, B) \in Nat /\ CntIn(v, B) \in Nat
             /\ CntIn(s, B) \in Nat /\ CntIn(t, B) \in Nat
  BY <1>1, CountInIsNat
<1>3. \A B : CntIn(s \o t, B) = CntIn(s, B) + CntIn(t, B)
  BY CountInOfTwo
<1>4. \A a, b, c \in Nat : Least(k, Least(k, a + b) + c) = Least(k, a + (b + c))
  BY DEF Least
<1>5. ASSUME NEW d \in Int, d =< max
      PROVE  CntIn(v, Close(d)) = Least(k, CntIn(q, Close(d)) + CntIn(s \o t, Ball(p, d)))
  <2>1. CntIn(r, Close(d)) = Least(k, CntIn(q, Close(d)) + CntIn(s, Ball(p, d)))
    BY <1>5 DEF Gathers
  <2>2. CntIn(v, Close(d)) = Least(k, CntIn(r, Close(d)) + CntIn(t, Ball(p, d)))
    BY <1>5 DEF Gathers
  <2>3. CntIn(v, Close(d)) = Least(k, Least(k, CntIn(q, Close(d)) + CntIn(s, Ball(p, d))) + CntIn(t, Ball(p, d)))
    BY ONLY <2>1, <2>2, Zenon
  <2>4. CntIn(v, Close(d)) = Least(k, CntIn(q, Close(d)) + (CntIn(s, Ball(p, d)) + CntIn(t, Ball(p, d))))
    <3>1. CntIn(q, Close(d)) \in Nat /\ CntIn(s, Ball(p, d)) \in Nat /\ CntIn(t, Ball(p, d)) \in Nat
      BY <1>2
    <3>2. Least(k, Least(k, CntIn(q, Close(d)) + CntIn(s, Ball(p, d))) + CntIn(t, Ball(p, d)))
            = Least(k, CntIn(q, Close(d)) + (CntIn(s, Ball(p, d)) + CntIn(t, Ball(p, d))))
      BY ONLY <1>4, <3>1, Zenon
    <3> QED
      BY ONLY <2>3, <3>2, Zenon
  <2> QED
    BY ONLY <1>3, <2>4, Zenon
<1>6. ASSUME NEW A PROVE CntIn(v, Of(A)) =< CntIn(q, Of(A)) + CntIn(s \o t, A)
  <2>1. /\ CntIn(r, Of(A)) =< CntIn(q, Of(A)) + CntIn(s, A)
        /\ CntIn(v, Of(A)) =< CntIn(r, Of(A)) + CntIn(t, A)
    BY DEF Gathers
  <2>2. \A a, b, c, d, e \in Nat : b =< a + d /\ c =< b + e => c =< a + (d + e)
    OBVIOUS
  <2>3. CntIn(v, Of(A)) =< CntIn(q, Of(A)) + (CntIn(s, A) + CntIn(t, A))
    BY <1>2, <2>1, <2>2, Zenon
  <2> QED
    BY <1>3, <2>3, Zenon
<1> QED
  BY <1>1, <1>5, <1>6, Zenon DEF Gathers

\* Nearest_Search takes the entries out in ascending order.
Ascending(s) == \A i, j \in 1..Len(s) : i =< j => s[i].dist =< s[j].dist
LEMMA DrainSpec ==
  ASSUME NEW q \in Seq(Entry), IsHeap(q)
  PROVE  /\ Drain(q, Len(q)) \in Seq(Entry) /\ Len(Drain(q, Len(q))) = Len(q)
         /\ Ascending(Drain(q, Len(q)))
         /\ \A B : CntIn(Drain(q, Len(q)), B) = CntIn(q, B)
<1> DEFINE m == Len(q)
           P(n, h, w, B) == /\ IsHeap(h) /\ Len(h) = m - n /\ Len(w) = n /\ Ascending(w)
                            /\ \A i \in 1..Len(w) : CntIn(h, Close(w[i].dist)) = Len(h)
                            /\ CntIn(h, B) + CntIn(w, B) = CntIn(q, B)
           W(B) == {x \in (0..m) \X [heap : Seq(Entry), found : Seq(Entry)] :
                      P(x[1], x[2].heap, x[2].found, B)}
<1>1. m \in Nat
  OBVIOUS
<1>2. PICK f : /\ IsLoop("Nearest_Search", [heap |-> q, found |-> <<>>], m, f)
               /\ Drain(q, m) = f[m].found
  BY <1>1, DrainIsLoop
<1>3. ASSUME NEW B
      PROVE  /\ f[m].found \in Seq(Entry) /\ Len(f[m].found) = m /\ Ascending(f[m].found)
             /\ CntIn(f[m].found, B) = CntIn(q, B)
  <2>1. \A n, s : <<n, s>> \in W(B) <=>
          /\ n \in 0..m /\ s \in [heap : Seq(Entry), found : Seq(Entry)]
          /\ P(n, s.heap, s.found, B)
    <3> HIDE DEF P
    <3> QED
      OBVIOUS
  <2>2. <<0, [heap |-> q, found |-> <<>>]>> \in W(B)
    <3> DEFINE s == [heap |-> q, found |-> <<>>]
    <3>1. s \in [heap : Seq(Entry), found : Seq(Entry)] /\ s.heap = q /\ s.found = <<>>
      OBVIOUS
    <3>2. P(0, q, <<>>, B)
      <4>1. CntIn(<<>>, B) = 0
        <5>1. \A i \in DOMAIN <<>> : <<>>[i] \notin B
          OBVIOUS
        <5>2. <<>> \in Seq(Entry)
          OBVIOUS
        <5> QED
          BY <5>1, <5>2, CountInOfNone
      <4>2. CntIn(q, B) \in Nat
        BY CountInIsNat
      <4> QED
        BY <1>1, <4>1, <4>2 DEF Ascending
    <3> HIDE DEF W, P, s, m
    <3>3. <<0, s>> \in W(B)
      BY <1>1, <2>1, <3>1, <3>2
    <3> QED
      BY <3>3 DEF s
  <2>3. ASSUME NEW n \in 0..(m - 1), NEW s, <<n, s>> \in W(B)
        PROVE  <<n + 1, Turn("Nearest_Search", s)>> \in W(B)
    <3> DEFINE h == s.heap
               w == s.found
               o == HeapPop(h)
               v == <<h[1]>> \o w
    <3>0. s \in [heap : Seq(Entry), found : Seq(Entry)] /\ P(n, h, w, B)
      <4> HIDE DEF P, W
      <4> QED
        BY <2>1, <2>3
    <3>1. h \in Seq(Entry) /\ w \in Seq(Entry)
      BY <3>0
    <3>2. /\ IsHeap(h) /\ Len(h) = m - n /\ Len(w) = n /\ Ascending(w)
          /\ \A i \in 1..Len(w) : CntIn(h, Close(w[i].dist)) = Len(h)
          /\ CntIn(h, B) + CntIn(w, B) = CntIn(q, B)
      BY <3>0
    <3>3. Turn("Nearest_Search", s) = [heap |-> o, found |-> v]
      BY DEF Turn, Take
    <3> HIDE DEF h, w, P, W, m
    <3>4. n \in Nat /\ n + 1 \in 0..m /\ Len(h) > 0 /\ m - n \in Nat /\ 1 \in 1..Len(h) /\ m - (n + 1) = (m - n) - 1
      BY <1>1, <3>2
    <3>5. /\ o \in Seq(Entry) /\ Len(o) = Len(h) - 1 /\ IsHeap(o)
          /\ \A A : CntIn(o, A) = CntIn(h, A) - One(h[1] \in A)
      BY <3>1, <3>2, <3>4, PopRemoves
    <3>6. h[1] \in Entry /\ <<h[1]>> \in Seq(Entry) /\ h[1].dist \in Int
      <4>1. h[1] \in Entry
        BY <3>1, <3>4
      <4> QED
        BY <4>1 DEF Entry
    <3> HIDE DEF o
    <3>7. /\ v \in Seq(Entry) /\ Len(v) = n + 1 /\ v[1] = h[1]
          /\ \A i \in 1..(n + 1) : i # 1 => v[i] = w[i - 1] /\ i - 1 \in 1..n
      BY <3>1, <3>2, <3>4, <3>6
    <3>8. CntIn(v, B) = One(h[1] \in B) + CntIn(w, B)
      <4>1. CntIn(v, B) = CntIn(<<h[1]>>, B) + CntIn(w, B)
        BY <3>1, <3>6, CountInOfTwo
      <4>2. CntIn(<<h[1]>>, B) = One(h[1] \in B)
        BY CountInOfOne
      <4> QED
        BY <4>1, <4>2
    <3> HIDE DEF v
    <3>9. \A i \in 1..n : w[i] \in Entry /\ w[i].dist \in Int /\ h[1].dist =< w[i].dist
      <4>1. ASSUME NEW i \in 1..n PROVE w[i] \in Entry /\ w[i].dist \in Int /\ h[1].dist =< w[i].dist
        <5>1. w[i] \in Entry /\ i \in 1..Len(w)
          BY <3>1, <3>2
        <5>2. h[1] \in Close(w[i].dist)
          BY <3>1, <3>2, <3>4, <5>1, CountInFull
        <5> QED
          BY <5>1, <5>2 DEF Close, Entry
      <4> QED
        BY <4>1
    <3>10. Ascending(v)
      <4>1. ASSUME NEW i \in 1..(n + 1), NEW j \in 1..(n + 1), i =< j PROVE v[i].dist =< v[j].dist
        <5>1. CASE i = 1 /\ j = 1
          BY <3>6, <3>7, <5>1
        <5>2. CASE i = 1 /\ j # 1
          BY <3>7, <3>9, <5>2
        <5>3. CASE i # 1
          <6>1. j # 1 /\ i - 1 =< j - 1
            BY <3>4, <4>1, <5>3
          <6>2. v[i] = w[i - 1] /\ v[j] = w[j - 1] /\ i - 1 \in 1..Len(w) /\ j - 1 \in 1..Len(w)
            BY <3>2, <3>7, <5>3, <6>1
          <6> QED
            BY <3>2, <6>1, <6>2 DEF Ascending
        <5> QED
          BY <5>1, <5>2, <5>3
      <4> QED
        BY <3>7, <4>1 DEF Ascending
    <3>11. ASSUME NEW i \in 1..(n + 1) PROVE CntIn(o, Close(v[i].dist)) = Len(o)
      <4> DEFINE D == Close(v[i].dist)
      <4>1. CntIn(h, D) = Len(h) /\ h[1] \in D
        <5>1. CASE i = 1
          <6>1. v[i].dist = h[1].dist
            BY <3>7, <5>1
          <6>2. CntIn(h, Close(h[1].dist)) = Len(h)
            BY <3>1, <3>2, <3>4, <3>6, AllClose
          <6>3. h[1] \in Close(h[1].dist)
            BY <3>6 DEF Close
          <6> QED
            BY <6>1, <6>2, <6>3
        <5>2. CASE i # 1
          <6>1. v[i] = w[i - 1] /\ i - 1 \in 1..Len(w) /\ i - 1 \in 1..n
            BY <3>2, <3>7, <5>2
          <6>2. CntIn(h, Close(w[i - 1].dist)) = Len(h)
            BY <3>2, <6>1
          <6>3. h[1] \in Close(w[i - 1].dist)
            BY <3>6, <3>9, <6>1 DEF Close
          <6> QED
            BY <6>1, <6>2, <6>3
        <5> QED
          BY <5>1, <5>2
      <4> HIDE DEF D
      <4>2. One(h[1] \in D) = 1
        BY <4>1 DEF One
      <4>3. CntIn(o, D) = CntIn(h, D) - One(h[1] \in D)
        BY <3>5
      <4>4. CntIn(o, D) = Len(o)
        BY <3>5, <4>1, <4>2, <4>3
      <4> QED
        BY <4>4 DEF D
    <3>12. CntIn(o, B) + CntIn(v, B) = CntIn(q, B)
      <4>1. CntIn(o, B) = CntIn(h, B) - One(h[1] \in B)
        BY <3>5
      <4>2. CntIn(h, B) \in Nat /\ CntIn(w, B) \in Nat
        BY <3>1, CountInIsNat
      <4>3. One(h[1] \in B) \in {0, 1}
        BY DEF One
      <4>4. \A a, b, c, d, e \in Int : d = a - c /\ e = c + b => d + e = a + b
        OBVIOUS
      <4>5. CntIn(o, B) \in Int /\ CntIn(v, B) \in Int
        BY <3>5, <3>7, CountInIsNat
      <4>6. CntIn(o, B) + CntIn(v, B) = CntIn(h, B) + CntIn(w, B)
        BY <3>8, <4>1, <4>2, <4>3, <4>4, <4>5
      <4> QED
        BY <3>2, <4>6, Zenon
    <3>13. P(n + 1, o, v, B)
      BY <3>2, <3>4, <3>5, <3>7, <3>10, <3>11, <3>12 DEF P
    <3> DEFINE s2 == [heap |-> o, found |-> v]
    <3>14. s2.heap = o /\ s2.found = v /\ s2 \in [heap : Seq(Entry), found : Seq(Entry)]
      BY <3>5, <3>7
    <3> HIDE DEF s2
    <3>15. <<n + 1, s2>> \in W(B)
      BY <2>1, <3>4, <3>13, <3>14
    <3> QED
      BY <3>3, <3>15 DEF s2
  <2> HIDE DEF W, P
  <2>4. <<m, f[m]>> \in W(B)
    <3> HIDE DEF m
    <3> QED
      BY <1>1, <1>2, <2>2, <2>3, LoopKeeps
  <2>5. f[m] \in [heap : Seq(Entry), found : Seq(Entry)] /\ P(m, f[m].heap, f[m].found, B)
    BY <2>1, <2>4
  <2> DEFINE h == f[m].heap
             w == f[m].found
  <2>6. /\ h \in Seq(Entry) /\ Len(h) = m - m /\ w \in Seq(Entry) /\ Len(w) = m /\ Ascending(w)
        /\ CntIn(h, B) + CntIn(w, B) = CntIn(q, B)
    BY <2>5 DEF P
  <2> HIDE DEF h, w, m
  <2>7. CntIn(h, B) = 0
    <3>1. CntIn(h, B) \in Nat /\ CntIn(h, B) =< Len(h)
      BY <2>6, CountInIsNat
    <3> QED
      BY <1>1, <2>6, <3>1
  <2>8. CntIn(w, B) \in Nat
    BY <2>6, CountInIsNat
  <2> QED
    BY <2>6, <2>7, <2>8 DEF w
<1> QED
  BY <1>2, <1>3

\* Nearest neighbour search, one level unfolded.
LEMMA SearchUnfolds ==
  ASSUME NEW t, SoundOrNil(t), NEW k, NEW p, NEW max
  PROVE  Search(t, k, p, max) =
         IF t = Nil THEN [q \in Seq(Entry) |-> [t |-> Nil, q |-> q]]
         ELSE SearchNode(t, k, p, max, Search(Push_Down(t).left, k, p, max),
                                       Search(Push_Down(t).right, k, p, max))
<1> DEFINE c == [name |-> "Search", k |-> k, pt |-> p, max |-> max]
           none == [q \in Seq(Entry) |-> [t |-> Nil, q |-> q]]
<1>0. c.name = "Search" /\ c.k = k /\ c.pt = p /\ c.max = max
  OBVIOUS
<1> HIDE DEF c
<1>a. /\ Base(c) = none
      /\ \A u, x, y : Join(c, u, x, y) = SearchNode(u, k, p, max, x, y)
  <2>1. Base(c) = none
    BY <1>0 DEF Base
  <2>2. ASSUME NEW u, NEW x, NEW y PROVE Join(c, u, x, y) = SearchNode(u, k, p, max, x, y)
    BY <1>0 DEF Join
  <2> QED
    BY <2>1, <2>2
<1> HIDE DEF none
<1>1. ASSUME NEW s, SoundOrNil(s) PROVE Search(s, k, p, max) = Walk(c, s)
  <2> DEFINE AtNode(f, u) ==
               IF u = Nil THEN [q \in Seq(Entry) |-> [t |-> Nil, q |-> q]]
               ELSE LET r == Push_Down(u) IN
                    [q \in Seq(Entry) |->
                      IF u.tdel \/ calc_box_dist(u, p) > max THEN [t |-> u, q |-> q]
                      ELSE VisitSons(r, f[r.left], f[r.right], p, k,
                                     OwnPoint(r, p, k, max, q))]
             Body(f) == [u \in Visited(s) |-> AtNode(f, u)]
             g == CHOOSE f : f = Body(f)
  <2>1. Search(s, k, p, max) = g[s]
    BY DEF Search
  <2>2. ASSUME NEW f PROVE Body(f) = [u \in Visited(s) |-> Step(c, f, u)]
    <3>1. ASSUME NEW u PROVE Step(c, f, u) = IF u = Nil THEN none
                ELSE SearchNode(u, k, p, max, f[Push_Down(u).left], f[Push_Down(u).right])
      BY <1>a, Zenon DEF Step
    <3>2. ASSUME NEW u PROVE AtNode(f, u) = IF u = Nil THEN none
                ELSE SearchNode(u, k, p, max, f[Push_Down(u).left], f[Push_Down(u).right])
      BY Zenon DEF SearchNode, none
    <3> HIDE DEF AtNode
    <3>3. ASSUME NEW u PROVE AtNode(f, u) = Step(c, f, u)
      BY <3>1, <3>2
    <3> QED
      BY <3>3
  <2>3. PICK h : Follows(c, Visited(s), h)
    BY <1>1, StepsExist
  <2> HIDE DEF Body
  <2>4. h = Body(h)
    BY <2>2, <2>3 DEF Follows
  <2>5. g = Body(g)
    BY <2>4
  <2> HIDE DEF g
  <2>6. Follows(c, Visited(s), g)
    BY <2>2, <2>5 DEF Follows
  <2> QED
    BY <1>1, <2>1, <2>6, WalkIs
<1>2. Search(t, k, p, max) = IF t = Nil THEN Base(c)
         ELSE Join(c, t, Walk(c, Push_Down(t).left), Walk(c, Push_Down(t).right))
  BY <1>1, WalkUnfolds
<1>3. t # Nil => /\ Search(Push_Down(t).left, k, p, max) = Walk(c, Push_Down(t).left)
                /\ Search(Push_Down(t).right, k, p, max) = Walk(c, Push_Down(t).right)
  BY <1>1, SmallerSons DEF SoundOrNil
<1>4. CASE t = Nil
  BY <1>2, <1>4, <1>a DEF none
<1>5. CASE t # Nil
  <2>1. Search(t, k, p, max) = Join(c, t, Walk(c, Push_Down(t).left), Walk(c, Push_Down(t).right))
    BY <1>2, <1>5, Zenon
  <2>2. Search(t, k, p, max) = Join(c, t, Search(Push_Down(t).left, k, p, max), Search(Push_Down(t).right, k, p, max))
    BY <1>3, <1>5, <2>1, Zenon
  <2> QED
    BY <1>5, <1>a, <2>2, Zenon
<1> QED
  BY <1>4, <1>5

\* Squares grow with the distance from nought.
LEMMA SquaresGrow ==
  ASSUME NEW a \in Int, NEW b \in Int, (0 =< a /\ a =< b) \/ (b =< a /\ a =< 0)
  PROVE  Square(a) =< Square(b)
<1>1. CASE 0 =< a /\ a =< b
  <2>1. b * b - a * a = (b - a) * (b + a) /\ b - a \in Nat /\ b + a \in Nat
    BY <1>1
  <2>2. \A m, n \in Nat : m * n \in Nat
    OBVIOUS
  <2> QED
    BY <2>1, <2>2 DEF Square
<1>2. CASE b =< a /\ a =< 0
  <2>1. b * b - a * a = (a - b) * (-a - b) /\ a - b \in Nat /\ -a - b \in Nat
    BY <1>2
  <2>2. \A m, n \in Nat : m * n \in Nat
    OBVIOUS
  <2> QED
    BY <2>1, <2>2 DEF Square
<1> QED
  BY <1>1, <1>2

\* No point of a box is nearer than the box.
LEMMA BoxIsNearer ==
  ASSUME NEW t, IsNode(t), NEW p \in Point, NEW x \in Point, Within(x, x, t)
  PROVE  calc_box_dist(t, p) \in Int /\ calc_box_dist(t, p) =< calc_dist(p, x)
<1>0. \A a, b \in Int : 0 =< a /\ a =< b => Square(a) =< Square(b)
  <2>1. ASSUME NEW a \in Int, NEW b \in Int, 0 =< a, a =< b PROVE Square(a) =< Square(b)
    BY <2>1, SquaresGrow
  <2> QED
    BY <2>1
<1>1. t # Nil
  BY NodeIsNotNil
<1>2. \A a \in Axis : /\ t.lo[a] \in Int /\ t.hi[a] \in Int /\ p[a] \in Int /\ x[a] \in Int
                      /\ t.lo[a] =< x[a] /\ x[a] =< t.hi[a]
  BY DEF IsNode, Point, Within
<1>3. ASSUME NEW a \in Axis
      PROVE  /\ Square(Gap(t, p, a)) \in Int /\ Square(p[a] - x[a]) \in Int
             /\ Square(Gap(t, p, a)) =< Square(p[a] - x[a])
  <2>1. CASE p[a] < t.lo[a]
    <3>1. Gap(t, p, a) = t.lo[a] - p[a]
      BY <2>1 DEF Gap
    <3> DEFINE m == t.lo[a] - p[a]
               n == p[a] - x[a]
    <3>2. -m \in Int /\ n \in Int /\ n =< -m /\ -m =< 0 /\ m \in Int
      BY <1>2, <2>1
    <3> HIDE DEF m, n
    <3>3. Square(-m) =< Square(n)
      BY <3>2, SquaresGrow
    <3>4. Square(-m) = Square(m) /\ Square(m) \in Int /\ Square(n) \in Int
      BY <3>2 DEF Square
    <3> QED
      BY <3>1, <3>3, <3>4 DEF m, n
  <2>2. CASE p[a] > t.hi[a]
    <3>1. Gap(t, p, a) = p[a] - t.hi[a]
      BY <1>2, <2>2 DEF Gap
    <3> DEFINE m == p[a] - t.hi[a]
               n == p[a] - x[a]
    <3>2. m \in Int /\ n \in Int /\ m =< n /\ 0 =< m
      BY <1>2, <2>2
    <3> HIDE DEF m, n
    <3>3. Square(m) =< Square(n)
      BY ONLY <1>0, <3>2, Zenon
    <3>4. Square(m) \in Int /\ Square(n) \in Int
      BY <3>2 DEF Square
    <3> QED
      BY <3>1, <3>3, <3>4 DEF m, n
  <2>3. CASE ~(p[a] < t.lo[a]) /\ ~(p[a] > t.hi[a])
    <3>1. Gap(t, p, a) = 0
      BY <2>3 DEF Gap
    <3> DEFINE n == p[a] - x[a]
    <3>2. n \in Int /\ Square(0) = 0
      BY <1>2 DEF Square
    <3> HIDE DEF n
    <3>3. Square(0) =< Square(n) /\ Square(n) \in Int
      BY <3>2, SquaresGrow DEF Square
    <3> QED
      BY <3>1, <3>2, <3>3 DEF n
  <2> QED
    BY <2>1, <2>2, <2>3
<1>4. 0 \in Axis /\ 1 \in Axis /\ 2 \in Axis
  BY DEF Axis
<1>5. calc_box_dist(t, p) = Square(Gap(t, p, 0)) + Square(Gap(t, p, 1)) + Square(Gap(t, p, 2))
  BY <1>1 DEF calc_box_dist
<1>6. calc_dist(p, x) = Square(p[0] - x[0]) + Square(p[1] - x[1]) + Square(p[2] - x[2])
  BY DEF calc_dist
<1>7. \A a, b, c, d, e, f \in Int : a =< d /\ b =< e /\ c =< f => a + b + c \in Int /\ a + b + c =< d + e + f
  OBVIOUS
<1> DEFINE A(a) == Square(Gap(t, p, a))
           B(a) == Square(p[a] - x[a])
<1>8. \A a \in Axis : A(a) \in Int /\ B(a) \in Int /\ A(a) =< B(a)
  BY <1>3
<1>9. calc_box_dist(t, p) = A(0) + A(1) + A(2) /\ calc_dist(p, x) = B(0) + B(1) + B(2)
  BY <1>5, <1>6
<1> HIDE DEF A, B
<1>10. /\ A(0) \in Int /\ B(0) \in Int /\ A(0) =< B(0)
       /\ A(1) \in Int /\ B(1) \in Int /\ A(1) =< B(1)
       /\ A(2) \in Int /\ B(2) \in Int /\ A(2) =< B(2)
  BY <1>4, <1>8
<1>11. A(0) + A(1) + A(2) \in Int /\ A(0) + A(1) + A(2) =< B(0) + B(1) + B(2)
  BY <1>7, <1>10
<1> QED
  BY ONLY <1>9, <1>11, Zenon

\* Every live point is in the box of its tree.
LEMMA LiveWithin ==
  ASSUME NEW t, SoundOrNil(t)
  PROVE  LET s == flatten(t).live IN
         /\ s \in Seq(Point)
         /\ \A i \in DOMAIN s : t # Nil /\ ~t.tdel /\ s[i] \in Point /\ Within(s[i], s[i], t)
<1> DEFINE s == flatten(t).live
<1>1. s \in Seq(Point)
  BY FlattenKeepsTree DEF IsFlat
<1>2. ASSUME NEW i \in DOMAIN s
      PROVE  t # Nil /\ ~t.tdel /\ s[i] \in Point /\ Within(s[i], s[i], t)
  <2> DEFINE x == s[i]
  <2>1. x \in Range(s)
    BY DEF Range
  <2>2. Live(t, x) > 0
    <3> HIDE DEF s, x
    <3>1. Cnt(s, x) > 0
      BY <1>1, <2>1, CountIsNat
    <3> QED
      BY <3>1 DEF Live, s
  <2> HIDE DEF x
  <2>3. t # Nil /\ ~t.tdel /\ x \in Point /\ Within(x, x, t)
    BY <2>2, LivePointsInBox
  <2> QED
    BY <2>3 DEF x
<1> QED
  BY <1>1, <1>2

\* A search may leave a tree as it is.
LEMMA UnopenedIsOpened ==
  ASSUME NEW t, SoundOrNil(t)
  PROVE  t \in Opened(t)
BY OpenedUnfolds DEF OpenNode

\* A subtree that is deleted, too far away or, when the heap is full, no nearer
\* than the furthest entry adds nothing.
LEMMA PruningIsSafe ==
  ASSUME NEW k \in Nat \ {0}, NEW p \in Point, NEW max \in Int, NEW q, IsQueue(q, k, p, max),
         NEW t, Sound(t),
         \/ t.tdel
         \/ calc_box_dist(t, p) > max
         \/ ~IsOpen(q, k, calc_box_dist(t, p))
  PROVE  Gathers(q, q, flatten(t).live, k, p, max)
<1> DEFINE s == flatten(t).live
           b == calc_box_dist(t, p)
<1>1. IsNode(t) /\ SoundOrNil(t)
  BY SoundIsNode DEF SoundOrNil
<1>2. s \in Seq(Point) /\ \A i \in DOMAIN s : ~t.tdel /\ s[i] \in Point /\ Within(s[i], s[i], t)
  BY <1>1, LiveWithin
<1> HIDE DEF s
<1>3. \A i \in DOMAIN s : b \in Int /\ b =< calc_dist(p, s[i])
  BY <1>1, <1>2, BoxIsNearer
<1>4. CASE s = <<>>
  BY <1>4, GatherNone DEF s
<1>5. CASE s # <<>>
  <2>1. PICK i \in DOMAIN s : TRUE
    BY <1>2, <1>5
  <2>2. ~t.tdel /\ b \in Int
    BY <1>2, <1>3, <2>1
  <2>3. b > max \/ ~IsOpen(q, k, b)
    BY <2>2
  <2> HIDE DEF b
  <2>4. Gathers(q, q, s, k, p, max)
    BY <1>2, <1>3, <2>2, <2>3, GatherSkip
  <2> QED
    BY <2>4 DEF s
<1> QED
  BY <1>4, <1>5

\* f is a search of u: from every heap, it gathers the live points of u.
Searches(f, u, k, p, max) ==
  \A q : IsQueue(q, k, p, max) =>
    f[q].t \in Opened(u) /\ Gathers(q, f[q].q, flatten(u).live, k, p, max)

\* The visit of a son gathers its live points.
LEMMA VisitGathers ==
  ASSUME NEW k \in Nat \ {0}, NEW p \in Point, NEW max \in Int, NEW q, IsQueue(q, k, p, max),
         NEW s, SoundOrNil(s), NEW x, Searches(x, s, k, p, max)
  PROVE  LET v == Visit(x, s, p, k, q) IN
         v.t \in Opened(s) /\ Gathers(q, v.q, flatten(s).live, k, p, max)
<1> DEFINE v == Visit(x, s, p, k, q)
<1>1. CASE IsOpen(q, k, calc_box_dist(s, p))
  <2>1. v = x[q]
    BY <1>1, Zenon DEF Visit
  <2> HIDE DEF v
  <2>2. v.t \in Opened(s) /\ Gathers(q, v.q, flatten(s).live, k, p, max)
    BY <2>1, Zenon DEF Searches
  <2> QED
    BY <2>2 DEF v
<1>2. CASE ~IsOpen(q, k, calc_box_dist(s, p))
  <2>1. v = [t |-> s, q |-> q]
    BY <1>2, Zenon DEF Visit
  <2>2. v.t = s /\ v.q = q
    BY <2>1
  <2>3. s \in Opened(s)
    BY UnopenedIsOpened
  <2>4. Gathers(q, q, flatten(s).live, k, p, max)
    <3>1. CASE s = Nil
      <4>1. flatten(Nil) = [t |-> Nil, live |-> <<>>, dead |-> <<>>]
        BY FlattenUnfolds DEF SoundOrNil
      <4>2. flatten(s).live = <<>>
        BY <3>1, <4>1
      <4> QED
        BY <4>2, GatherNone
    <3>2. CASE s # Nil
      BY <1>2, <3>2, PruningIsSafe DEF SoundOrNil
    <3> QED
      BY <3>1, <3>2
  <2> HIDE DEF v
  <2>5. v.t \in Opened(s) /\ Gathers(q, v.q, flatten(s).live, k, p, max)
    BY <2>2, <2>3, <2>4, Zenon
  <2> QED
    BY <2>5 DEF v
<1> QED
  BY <1>1, <1>2

\* An opened node gathers its own point.
LEMMA OwnGathers ==
  ASSUME NEW k \in Nat \ {0}, NEW p \in Point, NEW max \in Int, NEW q, IsQueue(q, k, p, max),
         NEW r, r.pt \in Point
  PROVE  Gathers(q, OwnPoint(r, p, k, max, q), IF r.pdel THEN <<>> ELSE <<r.pt>>, k, p, max)
<1> DEFINE d == calc_dist(p, r.pt)
           own == IF r.pdel THEN <<>> ELSE <<r.pt>>
           o == OwnPoint(r, p, k, max, q)
<1>1. d \in Int
  BY DistanceIsInt
<1>2. CASE r.pdel
  <2>1. own = <<>> /\ o = q
    BY <1>2 DEF OwnPoint
  <2> QED
    BY <2>1, GatherNone
<1>3. CASE ~r.pdel /\ d =< max
  <2>1. own = <<r.pt>> /\ o = Offer(q, [pt |-> r.pt, dist |-> d], k)
    BY <1>3 DEF OwnPoint
  <2>2. Gathers(q, Offer(q, [pt |-> r.pt, dist |-> d], k), <<r.pt>>, k, p, max)
    BY <1>3, GatherOne
  <2> HIDE DEF own, o
  <2>3. Gathers(q, o, own, k, p, max)
    BY <2>1, <2>2, Zenon
  <2> QED
    BY <2>3 DEF own, o
<1>4. CASE ~r.pdel /\ ~(d =< max)
  <2>1. own = <<r.pt>> /\ o = q
    BY <1>4 DEF OwnPoint
  <2> DEFINE s == <<r.pt>>
  <2>2. s \in Seq(Point) /\ \A i \in DOMAIN s : s[i] = r.pt
    OBVIOUS
  <2> HIDE DEF s
  <2>3. \A i \in DOMAIN s : d =< calc_dist(p, s[i])
    BY <1>1, <2>2
  <2>4. d > max
    BY <1>1, <1>4
  <2> HIDE DEF d, own, o
  <2>5. Gathers(q, q, s, k, p, max)
    BY <1>1, <2>2, <2>3, <2>4, GatherSkip
  <2>6. Gathers(q, o, own, k, p, max)
    BY <2>1, <2>5, Zenon DEF s
  <2> QED
    BY <2>6 DEF own, o
<1> QED
  BY <1>2, <1>3, <1>4

\* v is the node r with both sons visited from the heap q.
SonsVisited(v, r, q, k, p, max) ==
  /\ v.t \in Rejoined(r, Opened(r.left), Opened(r.right))
  /\ \E s \in Seq(Point) :
       /\ Gathers(q, v.q, s, k, p, max)
       /\ \A B : CntIn(s, B) = CntIn(flatten(r.left).live, B) + CntIn(flatten(r.right).live, B)

\* The sons gather theirs, whichever is visited first.
LEMMA SonsGather ==
  ASSUME NEW k \in Nat \ {0}, NEW p \in Point, NEW max \in Int, NEW q, IsQueue(q, k, p, max),
         NEW r, SoundOrNil(r.left), SoundOrNil(r.right),
         NEW x, Searches(x, r.left, k, p, max), NEW y, Searches(y, r.right, k, p, max)
  PROVE  SonsVisited(VisitSons(r, x, y, p, k, q), r, q, k, p, max)
<1> DEFINE v == VisitSons(r, x, y, p, k, q)
           L == flatten(r.left).live
           R == flatten(r.right).live
<1>1. L \in Seq(Point) /\ R \in Seq(Point)
  BY LiveWithin
<1>2. CASE LeftFirst(r, p, k, q)
  <2> DEFINE a == Visit(x, r.left, p, k, q)
             b == Visit(y, r.right, p, k, a.q)
  <2>1. v = [t |-> Rejoin(r, a.t, b.t), q |-> b.q]
    BY <1>2, Zenon DEF VisitSons
  <2>2. a.t \in Opened(r.left) /\ Gathers(q, a.q, L, k, p, max)
    BY VisitGathers
  <2>3. IsQueue(a.q, k, p, max)
    BY <2>2, Zenon DEF Gathers
  <2>4. b.t \in Opened(r.right) /\ Gathers(a.q, b.q, R, k, p, max)
    <3> HIDE DEF a
    <3> QED
      BY <2>3, VisitGathers
  <2>5. v.t = Rejoin(r, a.t, b.t) /\ v.q = b.q
    BY <2>1
  <2> HIDE DEF a, b, v, L, R
  <2>6. v.t \in Rejoined(r, Opened(r.left), Opened(r.right))
    BY <2>2, <2>4, <2>5 DEF Rejoined
  <2>7. Gathers(q, b.q, L \o R, k, p, max)
    BY <1>1, <2>2, <2>4, GatherTwice
  <2>8. L \o R \in Seq(Point) /\ \A B : CntIn(L \o R, B) = CntIn(L, B) + CntIn(R, B)
    BY <1>1, CountInOfTwo
  <2>9. /\ Gathers(q, v.q, L \o R, k, p, max) 
        /\ v.t \in Rejoined(r, Opened(r.left), Opened(r.right))
    BY <2>5, <2>6, <2>7, Zenon
  <2> QED
    BY <2>8, <2>9 DEF v, L, R, SonsVisited
<1>3. CASE ~LeftFirst(r, p, k, q)
  <2> DEFINE b == Visit(y, r.right, p, k, q)
             a == Visit(x, r.left, p, k, b.q)
  <2>1. v = [t |-> Rejoin(r, a.t, b.t), q |-> a.q]
    BY <1>3, Zenon DEF VisitSons
  <2>2. b.t \in Opened(r.right) /\ Gathers(q, b.q, R, k, p, max)
    BY VisitGathers
  <2>3. IsQueue(b.q, k, p, max)
    BY <2>2, Zenon DEF Gathers
  <2>4. a.t \in Opened(r.left) /\ Gathers(b.q, a.q, L, k, p, max)
    <3> HIDE DEF b
    <3> QED
      BY <2>3, VisitGathers
  <2>5. v.t = Rejoin(r, a.t, b.t) /\ v.q = a.q
    BY <2>1
  <2> HIDE DEF a, b, v, L, R
  <2>6. v.t \in Rejoined(r, Opened(r.left), Opened(r.right))
    BY <2>2, <2>4, <2>5 DEF Rejoined
  <2>7. Gathers(q, a.q, R \o L, k, p, max)
    BY <1>1, <2>2, <2>4, GatherTwice
  <2>8. R \o L \in Seq(Point) /\ \A B : CntIn(R \o L, B) = CntIn(L, B) + CntIn(R, B)
    <3>1. R \o L \in Seq(Point) /\ \A B : CntIn(R \o L, B) = CntIn(R, B) + CntIn(L, B)
      BY <1>1, CountInOfTwo
    <3>2. \A B : CntIn(R, B) \in Nat /\ CntIn(L, B) \in Nat
      BY <1>1, CountInIsNat
    <3> QED
      BY <3>1, <3>2
  <2>9. /\ Gathers(q, v.q, R \o L, k, p, max) 
        /\ v.t \in Rejoined(r, Opened(r.left), Opened(r.right))
    BY <2>5, <2>6, <2>7, Zenon
  <2> QED
    BY <2>8, <2>9 DEF v, L, R, SonsVisited
<1> QED
  BY <1>2, <1>3

\* Nearest neighbour search gathers the live points of the tree, from any heap.
THEOREM SearchIsExact ==
  ASSUME NEW t, SoundOrNil(t), NEW k \in Nat \ {0}, NEW p \in Point, NEW max \in Int
  PROVE  Searches(Search(t, k, p, max), t, k, p, max)
<1> DEFINE f(u) == Search(u, k, p, max)
           P == {u \in Visited(t) : Searches(f(u), u, k, p, max)}
<1>0. /\ \A u \in Visited(t) : SoundOrNil(u) /\ Nil \in Visited(t) /\ t \in Visited(t)
  BY VisitedTrees
<1>1. Nil \in P
  <2>1. f(Nil) = [q \in Seq(Entry) |-> [t |-> Nil, q |-> q]] /\ SoundOrNil(Nil)
    BY SearchUnfolds DEF SoundOrNil
  <2>2. flatten(Nil) = [t |-> Nil, live |-> <<>>, dead |-> <<>>] /\ Nil \in Opened(Nil)
    BY FlattenUnfolds, UnopenedIsOpened DEF SoundOrNil
  <2>3. flatten(Nil).live = <<>>
    BY <2>2
  <2> DEFINE g == f(Nil)
  <2> HIDE DEF g
  <2>4. ASSUME NEW q, IsQueue(q, k, p, max)
        PROVE  g[q].t \in Opened(Nil) /\ Gathers(q, g[q].q, flatten(Nil).live, k, p, max)
    <3>1. q \in Seq(Entry)
      BY <2>4 DEF IsQueue
    <3>2. g[q] = [t |-> Nil, q |-> q]
      BY <2>1, <3>1 DEF g
    <3>3. g[q].t = Nil /\ g[q].q = q
      BY <3>2
    <3>4. Gathers(q, q, <<>>, k, p, max)
      BY <2>4, GatherNone
    <3> QED
      BY ONLY <2>2, <2>3, <3>3, <3>4, Zenon
  <2>5. Searches(g, Nil, k, p, max)
    BY <2>4 DEF Searches
  <2>6. Nil \in Visited(t)
    BY VisitedTrees
  <2> QED
    BY <2>5, <2>6 DEF g
<1>2. ASSUME NEW u \in Visited(t), Sound(u), Push_Down(u).left \in P, Push_Down(u).right \in P
      PROVE  u \in P
  <2> DEFINE r == Push_Down(u)
             x == f(r.left)
             y == f(r.right)
             g == f(u)
             L == flatten(r.left).live
             R == flatten(r.right).live
             own == IF r.pdel THEN <<>> ELSE <<r.pt>>
  <2>1. u # Nil /\ SoundOrNil(u) /\ SoundOrNil(r.left) /\ SoundOrNil(r.right) /\ r.pt \in Point
    BY <1>2, TreeNumbers, SoundIsNode DEF SoundOrNil, IsPushDown, IsNode
  <2>2. Searches(x, r.left, k, p, max) /\ Searches(y, r.right, k, p, max)
    BY <1>2
  <2>3. g = SearchNode(u, k, p, max, x, y)
    BY <2>1, SearchUnfolds
  <2>4. flatten(u).live = own \o L \o R
    <3> DEFINE a == flatten(r.left)
               b == flatten(r.right)
               lost == IF r.pdel /\ ~r.pdown THEN <<r.pt>> ELSE <<>>
    <3>1. flatten(u) = [t |-> Rejoin(r, a.t, b.t), live |-> own \o a.live \o b.live,
                        dead |-> a.dead \o b.dead \o lost]
      BY <2>1, FlattenUnfolds DEF FlatNode
    <3> DEFINE F == flatten(u)
    <3>2. F = [t |-> Rejoin(r, a.t, b.t), live |-> own \o a.live \o b.live,
               dead |-> a.dead \o b.dead \o lost]
      BY <3>1
    <3> HIDE DEF a, b, own, lost, r, F, x, y, g, L, R, P
    <3>3. F.live = own \o a.live \o b.live
      BY <3>2
    <3> QED
      BY <3>3 DEF a, b, F, L, R
  <2>5. Opened(u) = {u} \cup Rejoined(r, Opened(r.left), Opened(r.right))
    BY <2>1, OpenedUnfolds DEF OpenNode
  <2>6. L \in Seq(Point) /\ R \in Seq(Point)
    BY <2>1, LiveWithin
  <2>7. own \in Seq(Point)
    <3>1. <<>> \in Seq(Point) /\ <<r.pt>> \in Seq(Point)
      BY <2>1
    <3> QED
      BY <3>1
  <2>8. ASSUME NEW q, IsQueue(q, k, p, max)
        PROVE  g[q].t \in Opened(u) /\ Gathers(q, g[q].q, flatten(u).live, k, p, max)
    <3> DEFINE o == OwnPoint(r, p, k, max, q)
               v == VisitSons(r, x, y, p, k, o)
    <3>1. q \in Seq(Entry)
      BY <2>8 DEF IsQueue
    <3>2. g[q] = IF u.tdel \/ calc_box_dist(u, p) > max THEN [t |-> u, q |-> q] ELSE v
      <4> HIDE DEF g, x, y
      <4> QED
        BY <2>3, <3>1 DEF SearchNode
    <3>3. CASE u.tdel \/ calc_box_dist(u, p) > max
      <4>1. g[q] = [t |-> u, q |-> q]
        BY ONLY <3>2, <3>3, Zenon
      <4>2. g[q].t = u /\ g[q].q = q
        <5> HIDE DEF g
        <5> QED
          BY <4>1
      <4>3. Gathers(q, q, flatten(u).live, k, p, max)
        BY <1>2, <2>8, <3>3, PruningIsSafe
      <4> HIDE DEF g
      <4> QED
        BY <2>1, <4>2, <4>3, UnopenedIsOpened
    <3>4. CASE ~(u.tdel \/ calc_box_dist(u, p) > max)
      <4> HIDE DEF g, f, r
      <4>1. g[q] = v
        BY ONLY <3>2, <3>4, Zenon
      <4>2. Gathers(q, o, own, k, p, max)
        BY <2>1, <2>8, OwnGathers
      <4> HIDE DEF o
      <4>3. IsQueue(o, k, p, max)
        BY <4>2 DEF Gathers
      <4> HIDE DEF own, x, y
      <4>4. /\ v.t \in Rejoined(r, Opened(r.left), Opened(r.right))
            /\ \E s \in Seq(Point) :
                 /\ Gathers(o, v.q, s, k, p, max)
                 /\ \A B : CntIn(s, B) = CntIn(L, B) + CntIn(R, B)
        <5>1. SonsVisited(v, r, o, k, p, max)
          BY <2>1, <2>2, <4>3, SonsGather
        <5> HIDE DEF v
        <5> QED
          BY <5>1 DEF SonsVisited
      <4> HIDE DEF v, L, R
      <4>5. PICK s \in Seq(Point) : /\ Gathers(o, v.q, s, k, p, max)
                                    /\ \A B : CntIn(s, B) = CntIn(L, B) + CntIn(R, B)
        BY <4>4
      <4>6. Gathers(q, v.q, own \o s, k, p, max)
        BY <2>7, <2>8, <4>2, <4>5, GatherTwice
      <4>7. ASSUME NEW B PROVE CntIn(own \o s, B) = CntIn(own \o L \o R, B)
        <5>1. CntIn(own \o s, B) = CntIn(own, B) + CntIn(s, B)
          BY <2>7, CountInOfTwo
        <5>2. own \o L \in Seq(Point)
          BY <2>6, <2>7
        <5>3. CntIn((own \o L) \o R, B) = CntIn(own \o L, B) + CntIn(R, B)
          BY <2>6, <5>2, CountInOfTwo
        <5>4. CntIn(own \o L, B) = CntIn(own, B) + CntIn(L, B)
          BY <2>6, <2>7, CountInOfTwo
        <5>5. CntIn(own, B) \in Nat /\ CntIn(L, B) \in Nat /\ CntIn(R, B) \in Nat
          BY <2>6, <2>7, CountInIsNat
        <5> QED
          BY <4>5, <5>1, <5>3, <5>4, <5>5
      <4>8. Gathers(q, v.q, own \o L \o R, k, p, max)
        BY <4>6, <4>7, GatherAlike
      <4>9. v.t \in Opened(u)
        BY <2>5, <4>4
      <4> QED
        BY <2>4, <4>1, <4>8, <4>9
    <3> QED
      BY <3>3, <3>4
  <2> HIDE DEF g
  <2>9. Searches(g, u, k, p, max)
    BY <2>8 DEF Searches
  <2> QED
    BY <2>9 DEF g
<1> HIDE DEF P
<1>3. \A u \in Visited(t) : u \in P
  BY <1>1, <1>2, TreeInduction
<1> QED
  BY <1>3, VisitedTrees DEF P

\* What a nearest neighbour search of a tree finds.
THEOREM NearestIsExact ==
  ASSUME NEW t, SoundOrNil(t), NEW k \in Nat \ {0}, NEW p \in Point, NEW max \in Int
  PROVE  LET q == Search(t, k, p, max)[<<>>].q
             found == Drain(q, Len(q))
             live == flatten(t).live IN
         /\ Len(q) \in Nat /\ Len(q) =< k
         /\ Search(t, k, p, max)[<<>>].t \in Opened(t)
         /\ found \in Seq(Entry) /\ Ascending(found)
         /\ \A i \in 1..Len(found) : found[i] \in Near(p, max)
         /\ \A d \in Int : d =< max => CntIn(found, Close(d)) = Least(k, CntIn(live, Ball(p, d)))
         /\ \A A : CntIn(found, Of(A)) =< CntIn(live, A)
<1> DEFINE f == Search(t, k, p, max)
           q == f[<<>>].q
           found == Drain(q, Len(q))
           live == flatten(t).live
<1>1. <<>> \in Seq(Entry) /\ Len(<<>>) = 0 /\ \A B : CntIn(<<>>, B) = 0
  <2>1. <<>> \in Seq(Entry) /\ Len(<<>>) = 0 /\ DOMAIN <<>> = {}
    OBVIOUS
  <2> QED
    BY <2>1, CountInOfNone
<1>2. IsQueue(<<>>, k, p, max)
  BY <1>1 DEF IsQueue, IsHeap
<1>3. f[<<>>].t \in Opened(t) /\ Gathers(<<>>, q, live, k, p, max)
  <2> HIDE DEF f
  <2>1. Searches(f, t, k, p, max)
    BY SearchIsExact DEF f
  <2> QED
    BY <1>2, <2>1 DEF Searches
<1>4. live \in Seq(Point)
  BY LiveWithin
<1> HIDE DEF f, q, live
<1>5. q \in Seq(Entry) /\ IsHeap(q) /\ Len(q) \in Nat /\ Len(q) =< k /\ CntIn(q, Near(p, max)) = Len(q)
  BY <1>3 DEF Gathers, IsQueue
<1>6. /\ found \in Seq(Entry) /\ Len(found) = Len(q) /\ Ascending(found)
      /\ \A B : CntIn(found, B) = CntIn(q, B)
  BY <1>5, DrainSpec
<1> HIDE DEF found
<1>7. \A i \in 1..Len(found) : found[i] \in Near(p, max)
  <2>1. CntIn(found, Near(p, max)) = Len(found)
    BY <1>5, <1>6
  <2> QED
    BY <1>6, <2>1, CountInFull
<1>8. \A B : CntIn(live, B) \in Nat
  BY <1>4, CountInIsNat
<1>9. ASSUME NEW d \in Int, d =< max PROVE CntIn(found, Close(d)) = Least(k, CntIn(live, Ball(p, d)))
  <2>1. CntIn(q, Close(d)) = Least(k, CntIn(<<>>, Close(d)) + CntIn(live, Ball(p, d)))
    BY <1>3, <1>9 DEF Gathers
  <2>2. CntIn(<<>>, Close(d)) + CntIn(live, Ball(p, d)) = CntIn(live, Ball(p, d))
    BY <1>1, <1>8
  <2> QED
    BY <1>6, <2>1, <2>2, Zenon
<1>10. ASSUME NEW A PROVE CntIn(found, Of(A)) =< CntIn(live, A)
  <2>1. CntIn(q, Of(A)) =< CntIn(<<>>, Of(A)) + CntIn(live, A)
    BY <1>3 DEF Gathers
  <2>2. CntIn(<<>>, Of(A)) + CntIn(live, A) = CntIn(live, A)
    BY <1>1, <1>8
  <2> QED
    BY <1>6, <2>1, <2>2, Zenon
<1> QED
  BY <1>3, <1>5, <1>6, <1>7, <1>9, <1>10 DEF f, q, found, live

\* The least of two numbers.
LEMMA MinOfTwo ==
  ASSUME NEW a \in Int, NEW b \in Int
  PROVE  Min({a, b}) = Least(a, b)
<1> DEFINE m == Least(a, b)
<1>1. m \in {a, b} /\ \A y \in {a, b} : m =< y
  BY DEF Least
<1> HIDE DEF m
<1>2. \A x \in {a, b} : (\A y \in {a, b} : x =< y) => x = m
  BY <1>1
<1>3. Min({a, b}) = m
  BY <1>1, <1>2, Zenon DEF Min
<1> QED
  BY <1>3 DEF m

\* Entries that count as the live points do are the nearest ones.
LEMMA CountsAreNearest ==
  ASSUME NEW found \in Seq(Entry), NEW live \in Seq(Point), NEW p \in Point,
         NEW k \in Nat \ {0}, NEW max \in Int, Ascending(found),
         \A i \in 1..Len(found) : found[i] \in Near(p, max),
         \A d \in Int : d =< max => CntIn(found, Close(d)) = Least(k, CntIn(live, Ball(p, d))),
         \A A : CntIn(found, Of(A)) =< CntIn(live, A)
  PROVE  IsNearest(found, live, p, k, max)
<1> DEFINE at == PointsOf(found)
           dist == Distances(p, live)
           near == Distances(p, at)
<1>1. DOMAIN found = 1..Len(found) /\ DOMAIN live = 1..Len(live) /\ Len(found) \in Nat /\ Len(live) \in Nat
  OBVIOUS
<1>2. \A i \in DOMAIN found : /\ found[i] \in Entry /\ found[i].dist = calc_dist(p, found[i].pt)
                              /\ found[i].dist =< max /\ found[i].dist \in Int /\ found[i].pt \in Point
  BY <1>1 DEF Near, Entry
<1>3. at \in Seq(Point) /\ DOMAIN at = DOMAIN found /\ \A i \in DOMAIN found : at[i] = found[i].pt
  BY <1>1, <1>2 DEF PointsOf
<1> HIDE DEF at
<1>4. DOMAIN near = DOMAIN found /\ \A i \in DOMAIN found : near[i] = found[i].dist
  BY <1>2, <1>3 DEF Distances
<1>5. DOMAIN dist = DOMAIN live /\ \A i \in DOMAIN live : dist[i] = calc_dist(p, live[i]) /\ live[i] \in Point
  BY DEF Distances
<1> HIDE DEF near, dist
<1>6. \A i \in DOMAIN live : dist[i] \in Int
  BY <1>5, DistanceIsInt
<1>7. ASSUME NEW e PROVE Copies(BagOfSeq(at), e) =< Copies(BagOfSeq(live), e)
  <2>1. Copies(BagOfSeq(at), e) = Cnt(at, e) /\ Copies(BagOfSeq(live), e) = Cnt(live, e)
    BY <1>3, BagOfSequence
  <2>2. {i \in DOMAIN at : at[i] = e} = {i \in DOMAIN found : found[i] \in Of({e})}
    BY <1>2, <1>3 DEF Of
  <2>3. Cnt(at, e) = CntIn(found, Of({e}))
    BY <2>2, CountInIs DEF Cnt
  <2>4. {i \in DOMAIN live : live[i] = e} = {i \in DOMAIN live : live[i] \in {e}}
    OBVIOUS
  <2>5. Cnt(live, e) = CntIn(live, {e})
    BY <2>4, CountInIs DEF Cnt
  <2>6. CntIn(found, Of({e})) =< CntIn(live, {e})
    OBVIOUS
  <2> QED
    BY ONLY <2>1, <2>3, <2>5, <2>6, Zenon
<1>8. BagOfSeq(at) \sqsubseteq BagOfSeq(live)
  <2>1. IsABag(BagOfSeq(at)) /\ IsABag(BagOfSeq(live))
    BY <1>3, BagOfSequence
  <2> QED
    BY <1>7, <2>1, FewerCopies
<1>9. \A i \in DOMAIN found : found[i].dist = near[i] /\ near[i] =< max
  BY <1>2, <1>4
<1>10. \A i, j \in DOMAIN found : i =< j => near[i] =< near[j]
  BY <1>1, <1>4 DEF Ascending
<1>11. ASSUME NEW d \in Range(dist) \cup {max}, d =< max
       PROVE  UpTo(near, d) = Min({k, UpTo(dist, d)})
  <2>1. d \in Int
    BY <1>5, <1>6 DEF Range
  <2>2. {i \in DOMAIN near : near[i] =< d} = {i \in DOMAIN found : found[i] \in Close(d)}
    BY <1>2, <1>4 DEF Close
  <2>3. UpTo(near, d) = CntIn(found, Close(d))
    BY <2>2, CountInIs DEF UpTo
  <2>4. {i \in DOMAIN dist : dist[i] =< d} = {i \in DOMAIN live : live[i] \in Ball(p, d)}
    BY <1>5 DEF Ball
  <2>5. UpTo(dist, d) = CntIn(live, Ball(p, d))
    BY <2>4, CountInIs DEF UpTo
  <2>6. CntIn(found, Close(d)) = Least(k, CntIn(live, Ball(p, d)))
    BY <1>11, <2>1
  <2>7. CntIn(live, Ball(p, d)) \in Int /\ k \in Int
    BY CountInIsNat
  <2>8. Min({k, CntIn(live, Ball(p, d))}) = Least(k, CntIn(live, Ball(p, d)))
    BY <2>7, MinOfTwo
  <2> QED
    BY ONLY <2>3, <2>5, <2>6, <2>8, Zenon
<1> QED
  BY <1>8, <1>9, <1>10, <1>11 DEF IsNearest, at, near, dist

(***************************************************************************)
(* The theorems about every behaviour.                                     *)
(***************************************************************************)
\* The tree starts empty.
LEMMA EmptyTreeInv == Init => TreeInv
<1> SUFFICES ASSUME Init PROVE TreeInv
  OBVIOUS
<1>1. tree = Nil /\ removed = EmptyBag /\ content = EmptyBag /\ gone = EmptyBag
  BY DEF Init
<1>2. SoundOrNil(Nil) /\ Size(Nil) =< MaxSize
  BY KdTreeAssumption DEF SoundOrNil, Size
<1>3. /\ Holds(BagOfSeq(flatten(Nil).live), Nil)
      /\ IsABag(removed (+) BagOfSeq(flatten(Nil).dead))
      /\ \A q : Copies(removed (+) BagOfSeq(flatten(Nil).dead), q) = Copies(removed, q) + Dead(Nil, q)
  BY <1>1, <1>2, BagOfNothing, TreeBags
<1>4. content = BagOfSeq(flatten(Nil).live)
  <2>1. \A q : Copies(content, q) = Copies(BagOfSeq(flatten(Nil).live), q)
    BY <1>1, <1>3, BagOfNothing, NilIsEmpty DEF Holds
  <2> QED
    BY <1>1, <1>3, <2>1, BagOfNothing, SameBag DEF Holds
<1>5. gone = removed (+) BagOfSeq(flatten(Nil).dead)
  <2>1. \A q : Copies(gone, q) = Copies(removed (+) BagOfSeq(flatten(Nil).dead), q)
    BY <1>1, <1>3, BagOfNothing, NilIsEmpty
  <2> QED
    BY <1>1, <1>3, <2>1, BagOfNothing, SameBag
<1> QED
  BY <1>1, <1>2, <1>4, <1>5, BagOfNothing DEF TreeInv

\* Every step of the tree keeps the invariant and is a step of the store.
LEMMA EveryStep == TreeInv /\ [Next]_vars => StepIsFine
<1> SUFFICES ASSUME TreeInv, [Next]_vars PROVE StepIsFine
  OBVIOUS
<1>1. CASE UNCHANGED vars
  BY <1>1 DEF vars, StepIsFine, TreeInv
<1>2. CASE Next
  BY <1>2, BuildStep, AddStep, AddDownsampledStep, DeleteBoxStep, AcquireStep, NearestSearchStep
     DEF Next
<1> QED
  BY <1>1, <1>2

\* Every tree that any sequence of calls leaves is sound, and holds, counted point by
\* point, what the abstract store holds: the inductive invariant.
THEOREM TreeInvariant == Spec => []TreeInv
<1>1. TreeInv /\ [Next]_vars => TreeInv'
  BY EveryStep DEF StepIsFine
<1> QED
  BY <1>1, EmptyTreeInv, PTL DEF Spec

\* The type invariant of KdTree, for every space of points, criterion and size.
THEOREM TreeTypeCorrect == Spec => []TypeOK
<1>1. TreeInv => TypeOK
  <2> SUFFICES ASSUME TreeInv PROVE TypeOK
    OBVIOUS
  <2>1. SoundOrNil(tree) /\ Size(tree) =< MaxSize /\ IsABag(removed)
    BY DEF TreeInv
  <2>2. removed \sqsubseteq gone
    <3>1. IsABag(gone) /\ \A q : Copies(gone, q) = Copies(removed, q) + Dead(tree, q)
      BY TreeInvMeans
    <3>2. \A q : Copies(removed, q) \in Nat /\ Dead(tree, q) \in Nat
      BY <2>1, CopiesOfBag, CountsAreNat
    <3>3. \A q : Copies(removed, q) =< Copies(gone, q)
      BY <3>1, <3>2
    <3> QED
      BY <2>1, <3>1, <3>3, FewerCopies
  <2>3. \A t \in Visited(tree) \ {Nil} : Settled(t)
    BY <2>1, VisitedTrees, SoundMeans DEF SoundOrNil
  <2>4. ASSUME tree # Nil
        PROVE  tree.size \in 1..MaxSize /\ tree.invalid \in 0..tree.size /\ tree.axis \in Axis
    <3>1. Sound(tree) /\ MaxSize \in Nat
      BY <2>1, <2>4, KdTreeAssumption DEF SoundOrNil
    <3>2. /\ tree.size \in Nat /\ tree.size >= 1 /\ tree.size =< MaxSize
          /\ tree.invalid \in Nat /\ tree.invalid =< tree.size
      <4>1. tree.size \in Nat /\ tree.size >= 1
        BY <3>1, TreeNumbers
      <4> QED
        BY <2>1, <2>4, <3>1, <4>1, SettledRoot DEF Size
    <3>3. tree.axis \in Axis
      BY <3>1, SoundIsNode DEF IsNode
    <3> QED
      BY <3>1, <3>2, <3>3
  <2> QED
    BY <2>1, <2>2, <2>3, <2>4 DEF TypeOK
<1> QED
  BY <1>1, TreeInvariant, PTL

\* Whatever was added, deleted and rebuilt before, size() counts the nodes of the tree,
\* validnum() its live points, and Box_Search returns each live point of the box as often
\* as it was added: no stale counter, box or mark is ever read.
THEOREM TreeReadsExact == Spec => []ReadsExact
<1>1. TreeInv => CountsExact
  <2> SUFFICES ASSUME TreeInv, tree # Nil
               PROVE  /\ tree.size = NodeCount(tree)
                      /\ tree.size - tree.invalid = Len(flatten(tree).live)
    BY DEF CountsExact
  <2>1. SoundOrNil(tree)
    BY DEF TreeInv
  <2>2. Size(tree) = tree.size /\ Invalid(tree) = tree.invalid
    BY DEF Size, Invalid
  <2> QED
    BY <2>1, <2>2, SizeIsNodeCount, FlattenKeepsTree DEF IsFlat
<1>2. TreeInv => RangeExact
  <2> SUFFICES ASSUME TreeInv, tree # Nil, NEW b \in Boxes \cup {VoxelBox(p) : p \in Points}
               PROVE  BagOfSeq(Search_by_range(tree, b).live) = BagInside(content, b)
    BY DEF RangeExact, BagInside
  <2> DEFINE s == Search_by_range(tree, b).live
  <2>1. b.min \in Point /\ b.max \in Point
    BY KdTreeAssumption, VoxelIsBox
  <2>2. SoundOrNil(tree) /\ Holds(content, tree)
    BY TreeInvMeans DEF TreeInv
  <2>3. s \in Seq(Point) /\ \A q : Cnt(s, q) = IF InBox(q, b) THEN Live(tree, q) ELSE 0
    BY <2>1, <2>2, RangeKeepsTree, RangeIsExact DEF IsFound, IsExact
  <2> HIDE DEF s
  <2>4. IsABag(BagOfSeq(s)) /\ \A q : Copies(BagOfSeq(s), q) = Cnt(s, q)
    BY <2>3, BagOfSequence
  <2>5. /\ IsABag(BagInside(content, b))
        /\ \A q : Copies(BagInside(content, b), q) = IF InBox(q, b) THEN Live(tree, q) ELSE 0
    BY <2>2, InsideOfBag DEF Holds
  <2> QED
    BY <2>3, <2>4, <2>5, SameBag DEF s
<1> QED
  BY <1>1, <1>2, TreeInvariant, PTL DEF ReadsExact

\* Nearest_Search finds the k nearest live points within max_dist, whatever was
\* added, deleted and rebuilt before, and leaves a tree that KdTree accounts for.
THEOREM TreeNearestExact == Spec => []NearestExact
<1>1. TreeInv => NearestExact
  <2> SUFFICES ASSUME TreeInv, NEW p \in Points, NEW k \in Neighbours, NEW max \in MaxDists
               PROVE  LET s == Nearest_Search(p, k, max) IN
                      /\ IsNearest(s.found, flatten(tree).live, p, k, max)
                      /\ s.t \in Opened(tree)
    BY DEF NearestExact
  <2> DEFINE live == flatten(tree).live
             s == Search(tree, k, p, max)[<<>>]
             q == s.q
             found == Drain(q, Len(q))
             n == Nearest_Search(p, k, max)
  <2>1. SoundOrNil(tree) /\ p \in Point /\ k \in Nat \ {0} /\ max \in Int
    BY KdTreeAssumption, KdSearchAssumption DEF TreeInv
  <2>2. /\ Len(q) \in Nat /\ Len(q) =< k
        /\ s.t \in Opened(tree)
        /\ found \in Seq(Entry) /\ Ascending(found)
        /\ \A i \in 1..Len(found) : found[i] \in Near(p, max)
        /\ \A d \in Int : d =< max => CntIn(found, Close(d)) = Least(k, CntIn(live, Ball(p, d)))
        /\ \A A : CntIn(found, Of(A)) =< CntIn(live, A)
    BY <2>1, NearestIsExact
  <2>3. live \in Seq(Point)
    BY <2>1, LiveWithin
  <2>4. n = [t |-> s.t, found |-> Drain(q, Min({k, Len(q)}))]
    BY DEF Nearest_Search
  <2> HIDE DEF live, s, q, n
  <2>5. Min({k, Len(q)}) = Len(q)
    <3>1. Len(q) \in Int /\ k \in Int /\ Len(q) =< k
      BY <2>1, <2>2
    <3> DEFINE l == Len(q)
    <3> HIDE DEF l
    <3>2. Min({k, l}) = Least(k, l)
      BY <3>1, MinOfTwo DEF l
    <3>3. Least(k, l) = l
      BY <3>1 DEF Least, l
    <3> QED
      BY <3>2, <3>3 DEF l
  <2>6. n.t = s.t /\ n.found = found
    BY <2>4, <2>5
  <2> HIDE DEF found
  <2>7. IsNearest(found, live, p, k, max)
    BY <2>1, <2>2, <2>3, CountsAreNearest
  <2>8. IsNearest(n.found, live, p, k, max) /\ n.t \in Opened(tree)
    BY <2>2, <2>6, <2>7, Zenon
  <2> QED
    BY <2>8 DEF n, live
<1> QED
  BY <1>1, TreeInvariant, PTL

\* Once there is a tree there is one for ever: no deletion or rebuild leaves a null
\* root for the next call to follow.
THEOREM TreeRootStays == Spec => RootStays
<1>1. TreeInv /\ [Next]_vars => [tree # Nil => tree' # Nil]_vars
  BY EveryStep DEF StepIsFine
<1> QED
  BY <1>1, TreeInvariant, PTL DEF Spec, RootStays

\* The tree with its lazy marks, counters and rebuilds implements the multiset of
\* points: no operation loses, revives or doubles a point or the record of one.
THEOREM TreeImplementsStore == Spec => ImplementsStore
<1>1. Init => Store!Init
  BY SameBags DEF Init, Store!Init
<1>2. TreeInv /\ [Next]_vars => [Store!Next]_<<content, gone>>
  BY EveryStep DEF StepIsFine
<1> QED
  BY <1>1, <1>2, TreeInvariant, PTL DEF Spec, ImplementsStore, Store!Spec
=============================================================================
