---------------------------- MODULE BindingProofs ----------------------------
(***************************************************************************)
(* What a JavaScript program is told, whatever it registers, configures    *)
(* and ingests: membership, state, events and the spatial index, for any   *)
(* number of entities, geometries, rules and updates.                      *)
(***************************************************************************)
EXTENDS Binding, EngineOpsProofs

\* Ids are numbers.
LEMMA Numbers == NumberedIds
BY BindingAssumption

\* `as u64` adds 2^64 to what is negative, and `as i64` undoes it.
LEMMA U64Is ==
  ASSUME NEW v \in -Half .. Half - 1
  PROVE  /\ U64(v) = IF v < 0 THEN v + 2 * Half ELSE v
         /\ U64(v) \in Times /\ I64(U64(v)) = v
<1> DEFINE M == 2 * Half
           q == v \div M
<1>1. Half \in Nat \ {0} /\ v \in Int /\ M \in Nat \ {0} /\ Times = 0 .. M - 1
  BY BindingAssumption
<1>2. q \in Int /\ v % M \in 0 .. M - 1 /\ v = M * q + (v % M)
  <2> HIDE DEF M
  <2>1. q \in Int /\ v % M \in 0 .. M - 1
    BY <1>1
  <2>2. v = M * q + (v % M)
    BY <1>1
  <2>3. QED
    BY <2>1, <2>2
<1>3. M = 2 * Half
  OBVIOUS
<1> HIDE DEF q, M
<1>4. q = IF v < 0 THEN -1 ELSE 0
  <2>1. q >= 1 => M * q >= M
    <3>1. q >= 1 => M * (q - 1) >= 0
      BY <1>1, <1>2
    <3>2. M * (q - 1) = M * q - M
      BY <1>1, <1>2
    <3>3. QED
      BY <1>1, <1>2, <3>1, <3>2
  <2>2. q <= -2 => M * q <= -2 * M
    <3>1. q <= -2 => M * (-2 - q) >= 0
      BY <1>1, <1>2
    <3>2. M * (-2 - q) = -2 * M - M * q
      BY <1>1, <1>2
    <3>3. QED
      BY <1>1, <1>2, <3>1, <3>2
  <2>3. q = 0 => M * q = 0
    BY <1>1
  <2>4. q = -1 => M * q = -M
    BY <1>1
  <2>5. QED
    BY <1>1, <1>2, <1>3, <2>1, <2>2, <2>3, <2>4
<1>5. v % M = IF v < 0 THEN v + M ELSE v
  BY <1>1, <1>2, <1>4
<1>6. U64(v) = IF v < 0 THEN v + 2 * Half ELSE v
  BY <1>3, <1>5 DEF U64
<1>7. U64(v) \in Times
  BY <1>1, <1>3, <1>6
<1>8. I64(U64(v)) = v
  BY <1>1, <1>6 DEF I64
<1>9. QED
  BY <1>6, <1>7, <1>8

\* It keeps different times apart, and orders them as Older does.
LEMMA U64Orders ==
  ASSUME NEW a \in -Half .. Half - 1, NEW b \in -Half .. Half - 1
  PROVE  /\ U64(a) = U64(b) <=> a = b
         /\ Older(a, b) <=> U64(a) < U64(b)
<1>1. Half \in Nat \ {0}
  BY BindingAssumption
<1>2. /\ U64(a) = IF a < 0 THEN a + 2 * Half ELSE a
      /\ U64(b) = IF b < 0 THEN b + 2 * Half ELSE b
  BY U64Is
<1>3. QED
  BY <1>1, <1>2 DEF Older

\* Any i64 becomes a number.
LEMMA U64Type ==
  ASSUME NEW v \in Int
  PROVE  U64(v) \in Nat
<1>1. 2 * Half \in Nat \ {0}
  BY BindingAssumption
<1>2. QED
  BY <1>1 DEF U64

-----------------------------------------------------------------------------
-----------------------------------------------------------------------------
\* Zones that may be pushed into the index.
ZoneShapes == [id : Zones, polygon : Polygons]

\* And the circles.
CircleShapes == [id : Circles, cx : Int, cy : Int, r : Int]

\* R-trees: boxes, with the place of the shape each belongs to.
Trees == SUBSET [index : Nat, box : [lo : Int, hi : Int]]

\* Typed indexes.
Indexes ==
  [fences : Seq(ZoneShapes), fence_tree : Trees, circles : Seq(CircleShapes), circle_tree : Trees]

\* The tree that has a box for every fence, and no other.
FenceTree(fences) == {[index |-> k, box |-> Spatial!PolygonBox(fences[k].polygon)] : k \in DOMAIN fences}

\* The same for circles.
CircleTree(circles) == {[index |-> k, box |-> Spatial!RadiusBox(circles[k])] : k \in DOMAIN circles}

\* Every entry of the vectors has one box in its tree, and nothing else is there.
IndexOf(fences, circles) ==
  [fences |-> fences, fence_tree |-> FenceTree(fences),
   circles |-> circles, circle_tree |-> CircleTree(circles)]

\* Ids differ.
Apart(entries) == \A i, j \in DOMAIN entries : i # j => entries[i].id # entries[j].id

\* Fences as try_push_zone leaves them.
SoundFences(fences) ==
  /\ fences \in Seq(ZoneShapes) /\ Apart(fences)
  /\ \A k \in DOMAIN fences : Spatial!ValidPolygon(fences[k].polygon)

\* Circles as try_push_circle leaves them.
SoundCircles(circles) ==
  /\ circles \in Seq(CircleShapes) /\ Apart(circles)
  /\ \A k \in DOMAIN circles : Spatial!ValidCircle(circles[k])

\* The vectors hold valid shapes of different ids, and the trees their boxes.
Sound(idx) ==
  /\ SoundFences(idx.fences) /\ SoundCircles(idx.circles)
  /\ idx = IndexOf(idx.fences, idx.circles)

\* An appended entry.
LEMMA Appended ==
  ASSUME NEW S, NEW s \in Seq(S), NEW x \in S
  PROVE  /\ Append(s, x) \in Seq(S) /\ Len(s) \in Nat /\ DOMAIN s = 1 .. Len(s)
         /\ DOMAIN Append(s, x) = (DOMAIN s) \union {Len(s) + 1} /\ Len(s) + 1 \notin DOMAIN s
         /\ \A k \in DOMAIN s : Append(s, x)[k] = s[k] /\ s[k] \in S
         /\ Append(s, x)[Len(s) + 1] = x
<1>1. Len(s) \in Nat /\ DOMAIN s = 1 .. Len(s) /\ \A k \in 1 .. Len(s) : s[k] \in S
  BY SeqElements
<1>2. /\ Append(s, x) \in Seq(S) /\ DOMAIN Append(s, x) = 1 .. Len(s) + 1
      /\ \A k \in 1 .. Len(s) : Append(s, x)[k] = s[k]
      /\ Append(s, x)[Len(s) + 1] = x
  OBVIOUS
<1>3. 1 .. Len(s) + 1 = (1 .. Len(s)) \union {Len(s) + 1} /\ Len(s) + 1 \notin 1 .. Len(s)
  BY <1>1
<1>4. QED
  BY <1>1, <1>2, <1>3

\* What accepting a zone makes of the tree.
LEMMA FenceTreeGrows ==
  ASSUME NEW fences \in Seq(ZoneShapes), NEW zone \in ZoneShapes
  PROVE  FenceTree(Append(fences, zone)) =
           FenceTree(fences) \union {[index |-> Len(fences) + 1, box |-> Spatial!PolygonBox(zone.polygon)]}
BY Appended DEF FenceTree

\* The same for a circle.
LEMMA CircleTreeGrows ==
  ASSUME NEW circles \in Seq(CircleShapes), NEW circle \in CircleShapes
  PROVE  CircleTree(Append(circles, circle)) =
           CircleTree(circles) \union {[index |-> Len(circles) + 1, box |-> Spatial!RadiusBox(circle)]}
BY Appended DEF CircleTree

\* try_push_zone on an index without superfluous boxes.
LEMMA ZonePushed ==
  ASSUME NEW fences \in Seq(ZoneShapes), NEW circles, NEW zone \in ZoneShapes
  PROVE  Spatial!TryPushZone(IndexOf(fences, circles), zone) =
           IF Spatial!Refused(fences, zone, Spatial!ValidPolygon(zone.polygon))
             THEN IndexOf(fences, circles)
             ELSE IndexOf(Append(fences, zone), circles)
<1> DEFINE idx == IndexOf(fences, circles)
<1>1. FenceTree(Append(fences, zone)) =
        FenceTree(fences) \union {[index |-> Len(fences) + 1, box |-> Spatial!PolygonBox(zone.polygon)]}
  BY FenceTreeGrows
<1>2. /\ idx.fences = fences /\ idx.fence_tree = FenceTree(fences)
      /\ idx.circles = circles /\ idx.circle_tree = CircleTree(circles)
  BY DEF IndexOf
<1>3. [idx EXCEPT !.fences = Append(fences, zone), !.fence_tree = FenceTree(Append(fences, zone))] = IndexOf(Append(fences, zone), circles)
  <2> DEFINE new == [idx EXCEPT !.fences = Append(fences, zone), !.fence_tree = FenceTree(Append(fences, zone))]
  <2>1. DOMAIN idx = {"fences", "fence_tree", "circles", "circle_tree"} /\ idx = [x \in DOMAIN idx |-> idx[x]]
    BY DEF IndexOf
  <2> HIDE DEF idx
  <2>2. /\ DOMAIN new = {"fences", "fence_tree", "circles", "circle_tree"}
        /\ new.fences = Append(fences, zone) /\ new.fence_tree = FenceTree(Append(fences, zone))
        /\ new.circles = circles /\ new.circle_tree = CircleTree(circles)
    BY <1>2, <2>1
  <2>3. new = [x \in DOMAIN new |-> new[x]]
    BY <2>1
  <2> HIDE DEF new
  <2>4. new = IndexOf(Append(fences, zone), circles)
    BY <2>2, <2>3 DEF IndexOf
  <2>5. QED
    BY <2>4 DEF new
<1> HIDE DEF idx
<1>4. Spatial!TryPushZone(idx, zone) =
        IF Spatial!Refused(fences, zone, Spatial!ValidPolygon(zone.polygon))
          THEN idx
          ELSE IndexOf(Append(fences, zone), circles)
  BY <1>1, <1>2, <1>3, Zenon DEF Spatial!TryPushZone
<1>5. QED
  BY <1>4 DEF idx

\* The same for a circle.
LEMMA CirclePushed ==
  ASSUME NEW circles \in Seq(CircleShapes), NEW fences, NEW circle \in CircleShapes
  PROVE  Spatial!TryPushCircle(IndexOf(fences, circles), circle) =
           IF Spatial!Refused(circles, circle, Spatial!ValidCircle(circle))
             THEN IndexOf(fences, circles)
             ELSE IndexOf(fences, Append(circles, circle))
<1> DEFINE idx == IndexOf(fences, circles)
<1>1. CircleTree(Append(circles, circle)) =
        CircleTree(circles) \union {[index |-> Len(circles) + 1, box |-> Spatial!RadiusBox(circle)]}
  BY CircleTreeGrows
<1>2. /\ idx.fences = fences /\ idx.fence_tree = FenceTree(fences)
      /\ idx.circles = circles /\ idx.circle_tree = CircleTree(circles)
  BY DEF IndexOf
<1>3. [idx EXCEPT !.circles = Append(circles, circle), !.circle_tree = CircleTree(Append(circles, circle))] = IndexOf(fences, Append(circles, circle))
  <2> DEFINE new == [idx EXCEPT !.circles = Append(circles, circle), !.circle_tree = CircleTree(Append(circles, circle))]
  <2>1. DOMAIN idx = {"fences", "fence_tree", "circles", "circle_tree"} /\ idx = [x \in DOMAIN idx |-> idx[x]]
    BY DEF IndexOf
  <2> HIDE DEF idx
  <2>2. /\ DOMAIN new = {"fences", "fence_tree", "circles", "circle_tree"}
        /\ new.fences = fences /\ new.fence_tree = FenceTree(fences)
        /\ new.circles = Append(circles, circle) /\ new.circle_tree = CircleTree(Append(circles, circle))
    BY <1>2, <2>1
  <2>3. new = [x \in DOMAIN new |-> new[x]]
    BY <2>1
  <2> HIDE DEF new
  <2>4. new = IndexOf(fences, Append(circles, circle))
    BY <2>2, <2>3 DEF IndexOf
  <2>5. QED
    BY <2>4 DEF new
<1> HIDE DEF idx
<1>4. Spatial!TryPushCircle(idx, circle) =
        IF Spatial!Refused(circles, circle, Spatial!ValidCircle(circle))
          THEN idx
          ELSE IndexOf(fences, Append(circles, circle))
  BY <1>1, <1>2, <1>3, Zenon DEF Spatial!TryPushCircle
<1>5. QED
  BY <1>4 DEF idx

\* A zone that is not refused keeps the vector sound, and one that is refused leaves it.
LEMMA ZoneKeepsSound ==
  ASSUME NEW idx, Sound(idx), NEW zone \in ZoneShapes,
         NEW new, new = Spatial!TryPushZone(idx, zone)
  PROVE  /\ Sound(new) /\ new.circles = idx.circles
         /\ \/ new = idx
            \/ /\ new.fences = Append(idx.fences, zone) /\ Spatial!ValidPolygon(zone.polygon)
               /\ \A k \in DOMAIN idx.fences : idx.fences[k].id # zone.id
<1> DEFINE fences == idx.fences
           circles == idx.circles
<1>1. /\ SoundFences(fences) /\ SoundCircles(circles) /\ idx = IndexOf(fences, circles)
      /\ fences \in Seq(ZoneShapes)
  BY DEF Sound, SoundFences
<1> HIDE DEF fences, circles
<1>2. new = IF Spatial!Refused(fences, zone, Spatial!ValidPolygon(zone.polygon))
              THEN IndexOf(fences, circles)
              ELSE IndexOf(Append(fences, zone), circles)
  BY <1>1, ZonePushed
<1>3. idx.fences = fences /\ idx.circles = circles
  BY DEF fences, circles
<1>4. CASE Spatial!Refused(fences, zone, Spatial!ValidPolygon(zone.polygon))
  BY <1>1, <1>2, <1>3, <1>4
<1>5. CASE ~Spatial!Refused(fences, zone, Spatial!ValidPolygon(zone.polygon))
  <2>1. /\ Spatial!ValidPolygon(zone.polygon)
        /\ \A k \in DOMAIN fences : fences[k].id # zone.id
    BY <1>5 DEF Spatial!Refused, Spatial!HasId
  <2>2. SoundFences(Append(fences, zone))
    BY <1>1, <2>1, Appended DEF SoundFences, Apart
  <2>3. new = IndexOf(Append(fences, zone), circles)
    BY <1>2, <1>5
  <2>4. new.fences = Append(fences, zone) /\ new.circles = circles
    BY <2>3 DEF IndexOf
  <2>5. QED
    BY <1>1, <1>3, <2>1, <2>2, <2>3, <2>4 DEF Sound
<1>6. QED
  BY <1>4, <1>5

\* The same for a circle.
LEMMA CircleKeepsSound ==
  ASSUME NEW idx, Sound(idx), NEW circle \in CircleShapes,
         NEW new, new = Spatial!TryPushCircle(idx, circle)
  PROVE  /\ Sound(new) /\ new.fences = idx.fences
         /\ \/ new = idx
            \/ /\ new.circles = Append(idx.circles, circle) /\ Spatial!ValidCircle(circle)
               /\ \A k \in DOMAIN idx.circles : idx.circles[k].id # circle.id
<1> DEFINE fences == idx.fences
           circles == idx.circles
<1>1. /\ SoundFences(fences) /\ SoundCircles(circles) /\ idx = IndexOf(fences, circles)
      /\ circles \in Seq(CircleShapes)
  BY DEF Sound, SoundCircles
<1> HIDE DEF fences, circles
<1>2. new = IF Spatial!Refused(circles, circle, Spatial!ValidCircle(circle))
              THEN IndexOf(fences, circles)
              ELSE IndexOf(fences, Append(circles, circle))
  BY <1>1, CirclePushed
<1>3. idx.fences = fences /\ idx.circles = circles
  BY DEF fences, circles
<1>4. CASE Spatial!Refused(circles, circle, Spatial!ValidCircle(circle))
  BY <1>1, <1>2, <1>3, <1>4
<1>5. CASE ~Spatial!Refused(circles, circle, Spatial!ValidCircle(circle))
  <2>1. /\ Spatial!ValidCircle(circle)
        /\ \A k \in DOMAIN circles : circles[k].id # circle.id
    BY <1>5 DEF Spatial!Refused, Spatial!HasId
  <2>2. SoundCircles(Append(circles, circle))
    BY <1>1, <2>1, Appended DEF SoundCircles, Apart
  <2>3. new = IndexOf(fences, Append(circles, circle))
    BY <1>2, <1>5
  <2>4. new.fences = fences /\ new.circles = Append(circles, circle)
    BY <2>3 DEF IndexOf
  <2>5. QED
    BY <1>1, <1>3, <2>1, <2>2, <2>3, <2>4 DEF Sound
<1>6. QED
  BY <1>4, <1>5

\* The first n of a sequence.
First(s, n) == [k \in 1 .. n |-> s[k]]

\* The first n elements are the first n - 1 and one more.
LEMMA FirstGrows ==
  ASSUME NEW S, NEW s \in Seq(S), NEW n \in 1 .. Len(s)
  PROVE  /\ First(s, n - 1) \in Seq(S) /\ Len(First(s, n - 1)) = n - 1
         /\ First(s, n) = Append(First(s, n - 1), s[n]) /\ s[n] \in S
<1>1. Len(s) \in Nat /\ \A k \in 1 .. Len(s) : s[k] \in S
  BY SeqElements
<1>2. n - 1 \in Nat /\ \A k \in 1 .. n - 1 : k \in 1 .. Len(s)
  BY <1>1
<1>3. First(s, n - 1) \in [1 .. n - 1 -> S]
  BY <1>1, <1>2 DEF First
<1>4. First(s, n - 1) \in Seq(S) /\ Len(First(s, n - 1)) = n - 1
  BY <1>2, <1>3
<1>5. Append(First(s, n - 1), s[n]) = [k \in 1 .. n |-> IF k = n THEN s[n] ELSE s[k]]
  <2>1. Append(First(s, n - 1), s[n]) = [k \in 1 .. (n - 1) + 1 |-> IF k = (n - 1) + 1 THEN s[n] ELSE First(s, n - 1)[k]]
    BY <1>2, <1>4
  <2>2. (n - 1) + 1 = n /\ \A k \in 1 .. n : k # n => k \in 1 .. n - 1
    BY <1>2
  <2>3. QED
    BY <2>1, <2>2 DEF First
<1>6. QED
  BY <1>1, <1>4, <1>5 DEF First

\* The first and the last of them.
LEMMA FirstIsAll ==
  ASSUME NEW S, NEW s \in Seq(S)
  PROVE  First(s, 0) = <<>> /\ First(s, Len(s)) = s
<1>1. s = [k \in 1 .. Len(s) |-> s[k]]
  OBVIOUS
<1>2. QED
  BY <1>1 DEF First

\* An index made of typed shapes is typed.
LEMMA IndexOfType ==
  ASSUME NEW fences \in Seq(ZoneShapes), NEW circles \in Seq(CircleShapes)
  PROVE  IndexOf(fences, circles) \in Indexes
<1>1. /\ DOMAIN fences = 1 .. Len(fences) /\ \A k \in DOMAIN fences : k \in Nat /\ fences[k] \in ZoneShapes
      /\ DOMAIN circles = 1 .. Len(circles) /\ \A k \in DOMAIN circles : k \in Nat /\ circles[k] \in CircleShapes
  BY SeqElements
<1>2. \A z \in ZoneShapes : Spatial!PolygonBox(z.polygon) \in [lo : Int, hi : Int]
  BY DEF ZoneShapes, Polygons, Rings, Spatial!PolygonBox
<1>3. \A c \in CircleShapes : Spatial!RadiusBox(c) \in [lo : Int, hi : Int]
  BY DEF CircleShapes, Spatial!RadiusBox
<1>4. FenceTree(fences) \in Trees /\ CircleTree(circles) \in Trees
  BY <1>1, <1>2, <1>3 DEF FenceTree, CircleTree, Trees
<1>5. QED
  BY <1>4 DEF IndexOf, Indexes

\* Pushing keeps an index typed.
LEMMA PushType ==
  ASSUME NEW idx \in Indexes
  PROVE  /\ \A zone \in ZoneShapes : Spatial!TryPushZone(idx, zone) \in Indexes
         /\ \A circle \in CircleShapes : Spatial!TryPushCircle(idx, circle) \in Indexes
<1>1. /\ idx.fences \in Seq(ZoneShapes) /\ idx.circles \in Seq(CircleShapes)
      /\ idx.fence_tree \in Trees /\ idx.circle_tree \in Trees
      /\ Len(idx.fences) + 1 \in Nat /\ Len(idx.circles) + 1 \in Nat
  BY SeqElements DEF Indexes
<1>2. ASSUME NEW zone \in ZoneShapes
      PROVE  Spatial!TryPushZone(idx, zone) \in Indexes
  <2>1. Append(idx.fences, zone) \in Seq(ZoneShapes)
    BY <1>1
  <2>2. [index |-> Len(idx.fences) + 1, box |-> Spatial!PolygonBox(zone.polygon)] \in [index : Nat, box : [lo : Int, hi : Int]]
    BY <1>1 DEF ZoneShapes, Polygons, Rings, Spatial!PolygonBox
  <2>3. idx.fence_tree \union {[index |-> Len(idx.fences) + 1, box |-> Spatial!PolygonBox(zone.polygon)]} \in Trees
    BY <1>1, <2>2 DEF Trees
  <2>4. QED
    BY <2>1, <2>3 DEF Indexes, Spatial!TryPushZone
<1>3. ASSUME NEW circle \in CircleShapes
      PROVE  Spatial!TryPushCircle(idx, circle) \in Indexes
  <2>1. Append(idx.circles, circle) \in Seq(CircleShapes)
    BY <1>1
  <2>2. [index |-> Len(idx.circles) + 1, box |-> Spatial!RadiusBox(circle)] \in [index : Nat, box : [lo : Int, hi : Int]]
    BY <1>1 DEF CircleShapes, Spatial!RadiusBox
  <2>3. idx.circle_tree \union {[index |-> Len(idx.circles) + 1, box |-> Spatial!RadiusBox(circle)]} \in Trees
    BY <1>1, <2>2 DEF Trees
  <2>4. QED
    BY <2>1, <2>3 DEF Indexes, Spatial!TryPushCircle
<1>4. QED
  BY <1>2, <1>3

\* A new index takes sound zones one after the other, and refuses none.
LEMMA FencesRebuilt ==
  ASSUME NEW fences, SoundFences(fences)
  PROVE  Spatial!FoldLeft(Spatial!TryPushZone, Spatial!NewIndex, fences) = IndexOf(fences, <<>>)
<1> DEFINE N == Len(fences)
           base == Spatial!NewIndex
           Step(idx, n) == Spatial!TryPushZone(idx, fences[n])
           F == [p \in Indexes \X (1 .. N) |-> Step(p[1], p[2])]
           Eq(h) == h = [t \in SUBSET DOMAIN fences |->
                           IF t = {} THEN base ELSE Step(h[t \ {Max(t)}], Max(t))]
           fold == CHOOSE h : Eq(h)
<1>1. Spatial!FoldLeft(Spatial!TryPushZone, Spatial!NewIndex, fences) = fold[DOMAIN fences]
  BY Zenon DEF Spatial!FoldLeft, Spatial!MapThenFoldSet, Spatial!Max, Max
<1>2. /\ fences \in Seq(ZoneShapes) /\ N \in Nat /\ DOMAIN fences = 1 .. N
      /\ \A n \in 1 .. N : fences[n] \in ZoneShapes
  BY SeqElements DEF SoundFences
<1>3. base = IndexOf(<<>>, <<>>) /\ base \in Indexes
  <2>1. FenceTree(<<>>) = {} /\ CircleTree(<<>>) = {}
    BY DEF FenceTree, CircleTree
  <2>2. base = IndexOf(<<>>, <<>>)
    BY <2>1 DEF IndexOf, Spatial!NewIndex
  <2>3. <<>> \in Seq(ZoneShapes) /\ <<>> \in Seq(CircleShapes)
    OBVIOUS
  <2>4. QED
    BY <2>2, <2>3, IndexOfType
<1>4. \A idx \in Indexes, n \in 1 .. N : Step(idx, n) \in Indexes
  BY <1>2, PushType
<1> HIDE DEF N, base, Step
<1>5. F \in [Indexes \X (1 .. N) -> Indexes] /\ \A idx \in Indexes, n \in 1 .. N : F[<<idx, n>>] = Step(idx, n)
  BY <1>4
<1> HIDE DEF F
<1>6. PICK g \in [SUBSET (1 .. N) -> Indexes] : Folded(N, base, F, g)
  BY <1>2, <1>3, <1>5, FoldedExists
<1>7. Eq(g)
  <2>1. ASSUME NEW t \in SUBSET (1 .. N), t # {}
        PROVE  F[<<g[t \ {Max(t)}], Max(t)>>] = Step(g[t \ {Max(t)}], Max(t))
    <3>1. Max(t) \in 1 .. N /\ t \ {Max(t)} \in SUBSET (1 .. N)
      BY <1>2, <2>1, MaxInSet
    <3>2. g[t \ {Max(t)}] \in Indexes
      BY <3>1
    <3>3. QED
      BY <1>5, <3>1, <3>2
  <2>2. QED
    BY <1>2, <1>6, <2>1 DEF Folded
<1>8. Eq(fold)
  BY <1>7
<1>9. /\ fold[{}] = base
      /\ \A t \in SUBSET (1 .. N) : t # {} => fold[t] = Step(fold[t \ {Max(t)}], Max(t))
  BY <1>2, <1>8
<1> HIDE DEF fold
<1>10. ASSUME NEW t \in SUBSET (1 .. N), t # {}, fold[t \ {Max(t)}] \in Indexes
       PROVE  fold[t] = F[<<fold[t \ {Max(t)}], Max(t)>>]
  <2>1. Max(t) \in 1 .. N
    BY <1>2, <1>10, MaxInSet
  <2>2. QED
    BY <1>5, <1>9, <1>10, <2>1
<1>11. PICK run : Ran(run, N, Indexes, base, F, fold)
  <2>1. Unfolds(fold, N, Indexes, base, F)
    BY <1>9, <1>10 DEF Unfolds
  <2>2. QED
    BY <1>2, <1>3, <1>5, <2>1, FoldRun
<1>12. /\ run[0] = base
       /\ \A n \in 1 .. N : run[n] = Step(run[n - 1], n)
  <2>1. \A n \in 1 .. N : n - 1 \in 0 .. N
    BY <1>2
  <2>2. QED
    BY <1>5, <1>11, <2>1 DEF Ran
<1> DEFINE S == {n \in 0 .. N : run[n] = IndexOf(First(fences, n), <<>>)}
<1>13. 0 \in S
  BY <1>2, <1>3, <1>12, FirstIsAll
<1>14. ASSUME NEW n \in 1 .. N, n - 1 \in S
       PROVE  n \in S
  <2> DEFINE before == First(fences, n - 1)
             zone == fences[n]
  <2>1. /\ before \in Seq(ZoneShapes) /\ Len(before) = n - 1 /\ zone \in ZoneShapes
        /\ First(fences, n) = Append(before, zone)
    BY <1>2, FirstGrows DEF N
  <2>2. run[n] = Spatial!TryPushZone(IndexOf(before, <<>>), zone)
    BY <1>12, <1>14 DEF Step
  <2>3. \A k \in DOMAIN before : k \in 1 .. N /\ k # n /\ before[k] = fences[k]
    BY <1>2 DEF First
  <2>4. Spatial!ValidPolygon(zone.polygon) /\ \A k \in DOMAIN before : before[k].id # zone.id
    BY <1>2, <2>3 DEF SoundFences, Apart
  <2> HIDE DEF before, zone
  <2>5. ~Spatial!Refused(before, zone, Spatial!ValidPolygon(zone.polygon))
    BY <2>4 DEF Spatial!Refused, Spatial!HasId
  <2>6. run[n] = IndexOf(Append(before, zone), <<>>)
    BY <2>1, <2>2, <2>5, ZonePushed
  <2>7. n \in 0 .. N /\ run[n] = IndexOf(First(fences, n), <<>>)
    BY <1>2, <2>1, <2>6
  <2>8. QED
    BY <2>7
<1> HIDE DEF S
<1>15. \A n \in 0 .. N : n \in S
  BY <1>2, <1>13, <1>14, UpTo
<1>16. run[N] = IndexOf(First(fences, N), <<>>)
  BY <1>2, <1>15 DEF S
<1>17. First(fences, N) = fences
  BY <1>2, FirstIsAll DEF N
<1>18. QED
  BY <1>1, <1>2, <1>11, <1>16, <1>17 DEF Ran

\* Neither does it refuse sound circles.
LEMMA CirclesRebuilt ==
  ASSUME NEW fences \in Seq(ZoneShapes), NEW circles, SoundCircles(circles)
  PROVE  Spatial!FoldLeft(Spatial!TryPushCircle, IndexOf(fences, <<>>), circles) = IndexOf(fences, circles)
<1> DEFINE N == Len(circles)
           base == IndexOf(fences, <<>>)
           Step(idx, n) == Spatial!TryPushCircle(idx, circles[n])
           F == [p \in Indexes \X (1 .. N) |-> Step(p[1], p[2])]
           Eq(h) == h = [t \in SUBSET DOMAIN circles |->
                           IF t = {} THEN base ELSE Step(h[t \ {Max(t)}], Max(t))]
           fold == CHOOSE h : Eq(h)
<1>1. Spatial!FoldLeft(Spatial!TryPushCircle, IndexOf(fences, <<>>), circles) = fold[DOMAIN circles]
  BY Zenon DEF Spatial!FoldLeft, Spatial!MapThenFoldSet, Spatial!Max, Max
<1>2. /\ circles \in Seq(CircleShapes) /\ N \in Nat /\ DOMAIN circles = 1 .. N
      /\ \A n \in 1 .. N : circles[n] \in CircleShapes
  BY SeqElements DEF SoundCircles
<1>3. base \in Indexes
  <2>1. <<>> \in Seq(CircleShapes)
    OBVIOUS
  <2>2. QED
    BY <2>1, IndexOfType
<1>4. \A idx \in Indexes, n \in 1 .. N : Step(idx, n) \in Indexes
  BY <1>2, PushType
<1> HIDE DEF N, base, Step
<1>5. F \in [Indexes \X (1 .. N) -> Indexes] /\ \A idx \in Indexes, n \in 1 .. N : F[<<idx, n>>] = Step(idx, n)
  BY <1>4
<1> HIDE DEF F
<1>6. PICK g \in [SUBSET (1 .. N) -> Indexes] : Folded(N, base, F, g)
  BY <1>2, <1>3, <1>5, FoldedExists
<1>7. Eq(g)
  <2>1. ASSUME NEW t \in SUBSET (1 .. N), t # {}
        PROVE  F[<<g[t \ {Max(t)}], Max(t)>>] = Step(g[t \ {Max(t)}], Max(t))
    <3>1. Max(t) \in 1 .. N /\ t \ {Max(t)} \in SUBSET (1 .. N)
      BY <1>2, <2>1, MaxInSet
    <3>2. g[t \ {Max(t)}] \in Indexes
      BY <3>1
    <3>3. QED
      BY <1>5, <3>1, <3>2
  <2>2. QED
    BY <1>2, <1>6, <2>1 DEF Folded
<1>8. Eq(fold)
  BY <1>7
<1>9. /\ fold[{}] = base
      /\ \A t \in SUBSET (1 .. N) : t # {} => fold[t] = Step(fold[t \ {Max(t)}], Max(t))
  BY <1>2, <1>8
<1> HIDE DEF fold
<1>10. ASSUME NEW t \in SUBSET (1 .. N), t # {}, fold[t \ {Max(t)}] \in Indexes
       PROVE  fold[t] = F[<<fold[t \ {Max(t)}], Max(t)>>]
  <2>1. Max(t) \in 1 .. N
    BY <1>2, <1>10, MaxInSet
  <2>2. QED
    BY <1>5, <1>9, <1>10, <2>1
<1>11. PICK run : Ran(run, N, Indexes, base, F, fold)
  <2>1. Unfolds(fold, N, Indexes, base, F)
    BY <1>9, <1>10 DEF Unfolds
  <2>2. QED
    BY <1>2, <1>3, <1>5, <2>1, FoldRun
<1>12. /\ run[0] = base
       /\ \A n \in 1 .. N : run[n] = Step(run[n - 1], n)
  <2>1. \A n \in 1 .. N : n - 1 \in 0 .. N
    BY <1>2
  <2>2. QED
    BY <1>5, <1>11, <2>1 DEF Ran
<1> DEFINE S == {n \in 0 .. N : run[n] = IndexOf(fences, First(circles, n))}
<1>13. 0 \in S
  BY <1>2, <1>12, FirstIsAll DEF base
<1>14. ASSUME NEW n \in 1 .. N, n - 1 \in S
       PROVE  n \in S
  <2> DEFINE before == First(circles, n - 1)
             circle == circles[n]
  <2>1. /\ before \in Seq(CircleShapes) /\ Len(before) = n - 1 /\ circle \in CircleShapes
        /\ First(circles, n) = Append(before, circle)
    BY <1>2, FirstGrows DEF N
  <2>2. run[n] = Spatial!TryPushCircle(IndexOf(fences, before), circle)
    BY <1>12, <1>14 DEF Step
  <2>3. \A k \in DOMAIN before : k \in 1 .. N /\ k # n /\ before[k] = circles[k]
    BY <1>2 DEF First
  <2>4. Spatial!ValidCircle(circle) /\ \A k \in DOMAIN before : before[k].id # circle.id
    BY <1>2, <2>3 DEF SoundCircles, Apart
  <2> HIDE DEF before, circle
  <2>5. ~Spatial!Refused(before, circle, Spatial!ValidCircle(circle))
    BY <2>4 DEF Spatial!Refused, Spatial!HasId
  <2>6. run[n] = IndexOf(fences, Append(before, circle))
    BY <2>1, <2>2, <2>5, CirclePushed
  <2>7. n \in 0 .. N /\ run[n] = IndexOf(fences, First(circles, n))
    BY <1>2, <2>1, <2>6
  <2>8. QED
    BY <2>7
<1> HIDE DEF S
<1>15. \A n \in 0 .. N : n \in S
  BY <1>2, <1>13, <1>14, UpTo
<1>16. run[N] = IndexOf(fences, First(circles, N))
  BY <1>2, <1>15 DEF S
<1>17. First(circles, N) = circles
  BY <1>2, FirstIsAll DEF N
<1>18. QED
  BY <1>1, <1>2, <1>11, <1>16, <1>17 DEF Ran
\* An index rebuilt from the vectors of a sound one is the same.
LEMMA RebuiltIsSame ==
  ASSUME NEW idx, Sound(idx)
  PROVE  Spatial!FromVecs(idx.fences, idx.circles) = idx
<1> DEFINE fences == idx.fences
           circles == idx.circles
<1>1. /\ SoundFences(fences) /\ SoundCircles(circles) /\ idx = IndexOf(fences, circles)
      /\ fences \in Seq(ZoneShapes)
  BY DEF Sound, SoundFences
<1> HIDE DEF fences, circles
<1>2. Spatial!FoldLeft(Spatial!TryPushZone, Spatial!NewIndex, fences) = IndexOf(fences, <<>>)
  BY <1>1, FencesRebuilt
<1>3. Spatial!FoldLeft(Spatial!TryPushCircle, IndexOf(fences, <<>>), circles) = IndexOf(fences, circles)
  BY <1>1, CirclesRebuilt
<1>4. Spatial!FromVecs(fences, circles) = IndexOf(fences, circles)
  BY <1>2, <1>3, Zenon DEF Spatial!FromVecs
<1>5. QED
  BY <1>1, <1>4 DEF fences, circles

\* The box of a shape has every point of the shape.
LEMMA BoxesCover ==
  ASSUME NEW x \in Int
  PROVE  /\ \A z \in ZoneShapes :
              Spatial!PolygonContains(z.polygon, x) => Spatial!Within(Spatial!PolygonBox(z.polygon), x)
         /\ \A c \in CircleShapes :
              Spatial!ValidCircle(c) /\ Spatial!CircleContains(c, x) => Spatial!Within(Spatial!RadiusBox(c), x)
<1>1. ASSUME NEW z \in ZoneShapes, Spatial!PolygonContains(z.polygon, x)
      PROVE  Spatial!Within(Spatial!PolygonBox(z.polygon), x)
  <2>1. z.polygon.exterior.lo \in Int /\ z.polygon.exterior.hi \in Int
    BY DEF ZoneShapes, Polygons, Rings
  <2>2. z.polygon.exterior.lo < x /\ x < z.polygon.exterior.hi
    BY <1>1 DEF Spatial!PolygonContains
  <2>3. QED
    BY <2>1, <2>2 DEF Spatial!Within, Spatial!PolygonBox
<1>2. ASSUME NEW c \in CircleShapes, Spatial!ValidCircle(c), Spatial!CircleContains(c, x)
      PROVE  Spatial!Within(Spatial!RadiusBox(c), x)
  <2> DEFINE a == x - c.cx
             b == c.cy
             r == c.r
  <2>1. c.cx \in Int /\ a \in Int /\ b \in Int /\ r \in Int /\ r > 0
    BY <1>2 DEF CircleShapes, Spatial!ValidCircle
  <2>2. a * a + b * b <= r * r
    BY <1>2 DEF Spatial!CircleContains
  <2>3. x = c.cx + a
    BY <2>1
  <2> HIDE DEF a, b, r
  <2>4. \A v \in Int : v * v >= 0 /\ (v > r \/ v < -r => v * v > r * r)
    <3>1. ASSUME NEW v \in Int
          PROVE  v * v >= 0
      BY SMT
    <3>2. ASSUME NEW v \in Int, v > r
          PROVE  v * v > r * r
      BY <2>1, <3>2
    <3>3. ASSUME NEW v \in Int, v < -r
          PROVE  v * v > r * r
      BY <2>1, <3>3
    <3>4. QED
      BY <3>1, <3>2, <3>3
  <2>5. a * a <= r * r /\ b * b <= r * r
    BY <2>1, <2>2, <2>4
  <2>6. -r <= a /\ a <= r /\ -r <= b /\ b <= r
    BY <2>1, <2>4, <2>5
  <2>7. c.cy - c.r <= 0 /\ 0 <= c.cy + c.r
    BY <2>1, <2>6 DEF b, r
  <2>8. c.cx - c.r <= x /\ x <= c.cx + c.r
    BY <2>1, <2>3, <2>6 DEF r
  <2>9. QED
    BY <2>7, <2>8 DEF Spatial!Within, Spatial!RadiusBox
<1>3. QED
  BY <1>1, <1>2

\* A sound index answers what a look at every shape answers.
Exact(idx, x) ==
  /\ Spatial!ZoneMembershipAt(idx, x) =
       {z.id : z \in {idx.fences[k] : k \in {c \in DOMAIN idx.fences :
                        Spatial!PolygonContains(idx.fences[c].polygon, x)}}}
  /\ Spatial!CircleMembershipAt(idx, x) =
       {z.id : z \in {idx.circles[k] : k \in {c \in DOMAIN idx.circles :
                        Spatial!CircleContains(idx.circles[c], x)}}}

\* A sound index answers what a look at every shape answers: a box never hides its shape.
LEMMA SoundIsExact ==
  ASSUME NEW idx, Sound(idx), NEW x \in Int
  PROVE  Exact(idx, x)
<1> DEFINE fences == idx.fences
           circles == idx.circles
<1>1. /\ \A k \in DOMAIN fences : fences[k] \in ZoneShapes
      /\ \A k \in DOMAIN circles : circles[k] \in CircleShapes /\ Spatial!ValidCircle(circles[k])
  BY SeqElements DEF Sound, SoundFences, SoundCircles
<1>2. idx.fence_tree = FenceTree(fences) /\ idx.circle_tree = CircleTree(circles)
  BY DEF Sound, IndexOf
<1> HIDE DEF fences, circles
<1>3. ASSUME NEW k \in DOMAIN fences, Spatial!PolygonContains(fences[k].polygon, x)
      PROVE  k \in Spatial!Candidates(FenceTree(fences), x)
  <2> DEFINE o == [index |-> k, box |-> Spatial!PolygonBox(fences[k].polygon)]
  <2>1. Spatial!Within(Spatial!PolygonBox(fences[k].polygon), x)
    BY <1>1, <1>3, BoxesCover
  <2>2. o \in FenceTree(fences)
    BY DEF FenceTree
  <2>3. o.index = k /\ Spatial!Within(o.box, x)
    BY <2>1
  <2> HIDE DEF o
  <2>4. QED
    BY <2>2, <2>3 DEF Spatial!Candidates
<1>4. ASSUME NEW k \in DOMAIN circles, Spatial!CircleContains(circles[k], x)
      PROVE  k \in Spatial!Candidates(CircleTree(circles), x)
  <2> DEFINE o == [index |-> k, box |-> Spatial!RadiusBox(circles[k])]
  <2>1. Spatial!Within(Spatial!RadiusBox(circles[k]), x)
    BY <1>1, <1>4, BoxesCover
  <2>2. o \in CircleTree(circles)
    BY DEF CircleTree
  <2>3. o.index = k /\ Spatial!Within(o.box, x)
    BY <2>1
  <2> HIDE DEF o
  <2>4. QED
    BY <2>2, <2>3 DEF Spatial!Candidates
<1>5. /\ Spatial!Candidates(FenceTree(fences), x) \subseteq DOMAIN fences
      /\ Spatial!Candidates(CircleTree(circles), x) \subseteq DOMAIN circles
  BY DEF FenceTree, CircleTree, Spatial!Candidates
<1>6. Spatial!ZoneMembershipAt(idx, x) =
        {z.id : z \in {fences[k] : k \in {c \in DOMAIN fences : Spatial!PolygonContains(fences[c].polygon, x)}}}
  <2>1. {c \in Spatial!Candidates(FenceTree(fences), x) : Spatial!PolygonContains(fences[c].polygon, x)}
          = {c \in DOMAIN fences : Spatial!PolygonContains(fences[c].polygon, x)}
    BY <1>3, <1>5
  <2>2. Spatial!ZoneMembershipAt(idx, x) =
          {fences[k].id : k \in {c \in DOMAIN fences : Spatial!PolygonContains(fences[c].polygon, x)}}
    BY <1>2, <2>1, Zenon DEF Spatial!ZoneMembershipAt, fences
  <2>3. QED
    BY <2>2
<1>7. Spatial!CircleMembershipAt(idx, x) =
        {z.id : z \in {circles[k] : k \in {c \in DOMAIN circles : Spatial!CircleContains(circles[c], x)}}}
  <2>1. {c \in Spatial!Candidates(CircleTree(circles), x) : Spatial!CircleContains(circles[c], x)}
          = {c \in DOMAIN circles : Spatial!CircleContains(circles[c], x)}
    BY <1>4, <1>5
  <2>2. Spatial!CircleMembershipAt(idx, x) =
          {circles[k].id : k \in {c \in DOMAIN circles : Spatial!CircleContains(circles[c], x)}}
    BY <1>2, <2>1, Zenon DEF Spatial!CircleMembershipAt, circles
  <2>3. QED
    BY <2>2
<1>8. QED
  BY <1>6, <1>7, Zenon DEF Exact, fences, circles

-----------------------------------------------------------------------------
\* Between calls: the index is sound, the engine is one process_event leaves and has the
\* areas of the index, and what is remembered of the updates is about them.
TypeInv ==
  /\ Sound(index)
  /\ engine \in EngineStates(AnyRules, AnySequences)
  /\ WellFormed(engine.entities)
  /\ engine.area = AreasOf(index)
  /\ newest \in [Entities -> JsUpdates \union {None}]
  /\ fresh \subseteq Entities \X Geometries
  /\ sent \in Nat

\* Areas are sets of points, or None.
LEMMA AreasAre ==
  ASSUME NEW idx
  PROVE  AreasOf(idx) \in [Geometries -> Areas \union {None}]
BY BindingAssumption DEF AreasOf

\* An area is None until its geometry is in the index.
LEMMA NewAreas ==
  /\ Sound(Spatial!NewIndex)
  /\ AreasOf(Spatial!NewIndex) = [g \in Geometries |-> None]
<1>1. /\ Spatial!NewIndex = IndexOf(<<>>, <<>>)
      /\ Spatial!NewIndex.fences = <<>> /\ Spatial!NewIndex.circles = <<>>
  <2>1. FenceTree(<<>>) = {} /\ CircleTree(<<>>) = {}
    BY DEF FenceTree, CircleTree
  <2>2. QED
    BY <2>1 DEF IndexOf, Spatial!NewIndex
<1>2. SoundFences(<<>>) /\ SoundCircles(<<>>)
  BY DEF SoundFences, SoundCircles, Apart
<1>3. ~\E k \in DOMAIN <<>> : TRUE
  OBVIOUS
<1>4. AreasOf(Spatial!NewIndex) = [g \in Geometries |-> None]
  BY <1>1, <1>3 DEF AreasOf, Spatial!HasId
<1>5. QED
  BY <1>1, <1>2, <1>4 DEF Sound

\* Has the index this geometry, and does the point lie in its shape?
Known(idx, g) ==
  IF g[1] = "zone" THEN Spatial!HasId(idx.fences, g[2]) ELSE Spatial!HasId(idx.circles, g[2])

\* The point x lies in a shape of the index with the name g.
LiesIn(idx, g, x) ==
  IF g[1] = "zone"
    THEN \E k \in DOMAIN idx.fences :
           idx.fences[k].id = g[2] /\ Spatial!PolygonContains(idx.fences[k].polygon, x)
    ELSE \E k \in DOMAIN idx.circles :
           idx.circles[k].id = g[2] /\ Spatial!CircleContains(idx.circles[k], x)

\* The area the engine has for a geometry is the shape that was registered.
LEMMA AreaIsShape ==
  ASSUME NEW idx, Sound(idx), NEW g \in Geometries
  PROVE  /\ AreasOf(idx)[g] = IF Known(idx, g) THEN {x \in Points : LiesIn(idx, g, x)} ELSE None
         /\ AreasOf(idx)[g] # None <=> Known(idx, g)
<1>1. ASSUME NEW x \in Points
      PROVE  /\ g[1] = "zone" => (g[2] \in Spatial!ZoneMembershipAt(idx, x) <=> LiesIn(idx, g, x))
             /\ g[1] # "zone" => (g[2] \in Spatial!CircleMembershipAt(idx, x) <=> LiesIn(idx, g, x))
  <2>1. Exact(idx, x)
    BY SoundIsExact, EngineAssumption
  <2>2. QED
    BY <2>1 DEF Exact, LiesIn
<1>2. CASE g[1] = "zone"
  <2>1. AreasOf(idx)[g] = IF Spatial!HasId(idx.fences, g[2])
                            THEN {x \in Points : g[2] \in Spatial!ZoneMembershipAt(idx, x)} ELSE None
    BY <1>2 DEF AreasOf
  <2>2. {x \in Points : g[2] \in Spatial!ZoneMembershipAt(idx, x)} = {x \in Points : LiesIn(idx, g, x)}
    BY <1>1, <1>2
  <2>3. QED
    BY <1>2, <2>1, <2>2, BindingAssumption, EngineAssumption DEF Known
<1>3. CASE g[1] # "zone"
  <2>1. AreasOf(idx)[g] = IF Spatial!HasId(idx.circles, g[2])
                            THEN {x \in Points : g[2] \in Spatial!CircleMembershipAt(idx, x)} ELSE None
    BY <1>3 DEF AreasOf
  <2>2. {x \in Points : g[2] \in Spatial!CircleMembershipAt(idx, x)} = {x \in Points : LiesIn(idx, g, x)}
    BY <1>1, <1>3
  <2>3. QED
    BY <1>3, <2>1, <2>2, BindingAssumption, EngineAssumption DEF Known
<1>4. QED
  BY <1>2, <1>3

\* The index has one geometry more, and the others' areas as they were.
AddsOnly(idx, new, g) ==
  /\ AreasOf(idx)[g] = None /\ AreasOf(new)[g] # None
  /\ \A h \in Geometries : h # g => AreasOf(new)[h] = AreasOf(idx)[h]

\* One more known geometry, and no other with other points, makes one more area.
LEMMA AddedShape ==
  ASSUME NEW idx, Sound(idx), NEW new, Sound(new), NEW g \in Geometries,
         ~Known(idx, g), Known(new, g),
         \A h \in Geometries : h # g => (Known(new, h) <=> Known(idx, h)),
         \A h \in Geometries, x \in Points : h # g => (LiesIn(new, h, x) <=> LiesIn(idx, h, x))
  PROVE  AddsOnly(idx, new, g)
<1>1. AreasOf(idx)[g] = None /\ AreasOf(new)[g] # None
  BY AreaIsShape
<1>2. ASSUME NEW h \in Geometries, h # g
      PROVE  AreasOf(new)[h] = AreasOf(idx)[h]
  <2>1. {x \in Points : LiesIn(new, h, x)} = {x \in Points : LiesIn(idx, h, x)}
    BY <1>2
  <2>2. Known(new, h) <=> Known(idx, h)
    BY <1>2
  <2>3. /\ AreasOf(new)[h] = IF Known(new, h) THEN {x \in Points : LiesIn(new, h, x)} ELSE None
        /\ AreasOf(idx)[h] = IF Known(idx, h) THEN {x \in Points : LiesIn(idx, h, x)} ELSE None
    BY AreaIsShape
  <2>4. QED
    BY <2>1, <2>2, <2>3
<1>3. QED
  BY <1>1, <1>2 DEF AddsOnly

\* A zone that is pushed adds its own area.
LEMMA ZoneAddsOnly ==
  ASSUME NEW idx, Sound(idx), NEW zone \in ZoneShapes, NEW new, Sound(new), new.circles = idx.circles,
         new.fences = Append(idx.fences, zone), \A k \in DOMAIN idx.fences : idx.fences[k].id # zone.id
  PROVE  AddsOnly(idx, new, <<"zone", zone.id>>)
<1> DEFINE g == <<"zone", zone.id>>
           fences == idx.fences
           n == Len(fences) + 1
<1>1. g \in Geometries /\ g[1] = "zone" /\ g[2] = zone.id
  BY DEF Geometries, ZoneShapes
<1>2. /\ DOMAIN new.fences = (DOMAIN fences) \union {n}
      /\ new.fences[n] = zone /\ \A k \in DOMAIN fences : new.fences[k] = fences[k]
  BY Appended DEF Sound, SoundFences
<1>3. \A h \in Geometries : h # g => h[1] # "zone" \/ h[2] # zone.id
  BY DEF Geometries
<1> HIDE DEF n
<1>4. ~Known(idx, g) /\ Known(new, g)
  BY <1>1, <1>2 DEF Known, Spatial!HasId
<1>5. ASSUME NEW h \in Geometries, h # g
      PROVE  Known(new, h) <=> Known(idx, h)
  BY <1>2, <1>3, <1>5 DEF Known, Spatial!HasId
<1>6. ASSUME NEW h \in Geometries, NEW x \in Points, h # g
      PROVE  LiesIn(new, h, x) <=> LiesIn(idx, h, x)
  BY <1>2, <1>3, <1>6 DEF LiesIn
<1> HIDE DEF g
<1>7. AddsOnly(idx, new, g)
  BY <1>1, <1>4, <1>5, <1>6, AddedShape
<1>8. QED
  BY <1>7 DEF g

\* The same for a circle.
LEMMA CircleAddsOnly ==
  ASSUME NEW idx, Sound(idx), NEW circle \in CircleShapes, NEW new, Sound(new), new.fences = idx.fences,
         new.circles = Append(idx.circles, circle), \A k \in DOMAIN idx.circles : idx.circles[k].id # circle.id
  PROVE  AddsOnly(idx, new, <<"circle", circle.id>>)
<1> DEFINE g == <<"circle", circle.id>>
           circles == idx.circles
           n == Len(circles) + 1
<1>1. g \in Geometries /\ g[1] = "circle" /\ g[1] # "zone" /\ g[2] = circle.id
  BY DEF Geometries, CircleShapes
<1>2. /\ DOMAIN new.circles = (DOMAIN circles) \union {n}
      /\ new.circles[n] = circle /\ \A k \in DOMAIN circles : new.circles[k] = circles[k]
  BY Appended DEF Sound, SoundCircles
<1>3. \A h \in Geometries : h # g => h[1] = "zone" \/ h[2] # circle.id
  BY DEF Geometries
<1> HIDE DEF n
<1>4. ~Known(idx, g) /\ Known(new, g)
  BY <1>1, <1>2 DEF Known, Spatial!HasId
<1>5. ASSUME NEW h \in Geometries, h # g
      PROVE  Known(new, h) <=> Known(idx, h)
  BY <1>2, <1>3, <1>5 DEF Known, Spatial!HasId
<1>6. ASSUME NEW h \in Geometries, NEW x \in Points, h # g
      PROVE  LiesIn(new, h, x) <=> LiesIn(idx, h, x)
  BY <1>2, <1>3, <1>6 DEF LiesIn
<1> HIDE DEF g
<1>7. AddsOnly(idx, new, g)
  BY <1>1, <1>4, <1>5, <1>6, AddedShape
<1>8. QED
  BY <1>7 DEF g

\* Options become thresholds that are numbers of milliseconds.
LEMMA DwellFromType ==
  ASSUME NEW options \in DwellOptions
  PROVE  DwellFrom(options) \in Dwells
<1> DEFINE threshold(v) == IF v = None THEN 0 ELSE U64(v)
<1>1. \A v \in Optional : threshold(v) \in Nat
  BY U64Type DEF Optional
<1>2. CASE options = None
  BY <1>2 DEF DwellFrom, NoDwell, Dwells
<1>3. CASE options # None
  <2>1. options.min_inside_ms \in Optional /\ options.min_outside_ms \in Optional
    BY <1>3 DEF DwellOptions
  <2>2. DwellFrom(options) = [min_inside_ms |-> threshold(options.min_inside_ms),
                              min_outside_ms |-> threshold(options.min_outside_ms)]
    BY <1>3 DEF DwellFrom
  <2> HIDE DEF threshold
  <2>3. QED
    BY <1>1, <2>1, <2>2 DEF Dwells
<1>4. QED
  BY <1>2, <1>3

\* A registration, by what its geometry is and what the index makes of it.
RegisteredAs(pushed, g, options) ==
  /\ Registered(pushed, g, options)
  /\ Sound(pushed) /\ g \in Geometries /\ options \in DwellOptions
  /\ pushed # index => AddsOnly(index, pushed, g)

\* register_zone is such a step.
LEMMA ZoneIsRegistered ==
  ASSUME TypeInv, NEW call \in ZoneCalls, RegisterZone(call)
  PROVE  \E pushed, g, options : RegisteredAs(pushed, g, options)
<1> DEFINE zone == [id |-> call.id, polygon |-> call.polygon]
           g == <<"zone", call.id>>
<1>1. call.id \in Zones /\ call.polygon \in Polygons /\ call.dwell \in DwellOptions
  BY BindingAssumption
<1>2. zone \in ZoneShapes /\ g \in Geometries
  BY <1>1 DEF ZoneShapes, Geometries
<1>3. LET pushed == Spatial!TryPushZone(index, zone)
      IN  Sound(pushed) /\ (pushed # index => AddsOnly(index, pushed, g))
  <2> DEFINE pushed == Spatial!TryPushZone(index, zone)
  <2> HIDE DEF zone
  <2>1. Sound(index)
    BY DEF TypeInv
  <2>2. /\ Sound(pushed) /\ pushed.circles = index.circles
        /\ \/ pushed = index
           \/ /\ pushed.fences = Append(index.fences, zone)
              /\ \A k \in DOMAIN index.fences : index.fences[k].id # zone.id
    BY <1>2, <2>1, ZoneKeepsSound
  <2> HIDE DEF pushed
  <2>3. pushed # index => AddsOnly(index, pushed, <<"zone", zone.id>>)
    BY <1>2, <2>1, <2>2, ZoneAddsOnly
  <2>4. zone.id = call.id
    BY DEF zone
  <2>5. QED
    BY <2>2, <2>3, <2>4 DEF pushed
<1>4. Registered(Spatial!TryPushZone(index, zone), g, call.dwell)
  BY Zenon DEF RegisterZone
<1>5. RegisteredAs(Spatial!TryPushZone(index, zone), g, call.dwell)
  BY <1>1, <1>2, <1>3, <1>4 DEF RegisteredAs
<1>6. QED
  BY <1>5

\* And so is register_circle.
LEMMA CircleIsRegistered ==
  ASSUME TypeInv, NEW call \in CircleCalls, RegisterCircle(call)
  PROVE  \E pushed, g, options : RegisteredAs(pushed, g, options)
<1> DEFINE circle == [id |-> call.id, cx |-> call.cx, cy |-> call.cy, r |-> call.r]
           g == <<"circle", call.id>>
<1>1. call.id \in Circles /\ call.cx \in Int /\ call.cy \in Int /\ call.r \in Int /\ call.dwell \in DwellOptions
  BY BindingAssumption
<1>2. circle \in CircleShapes /\ g \in Geometries
  BY <1>1 DEF CircleShapes, Geometries
<1>3. LET pushed == Spatial!TryPushCircle(index, circle)
      IN  Sound(pushed) /\ (pushed # index => AddsOnly(index, pushed, g))
  <2> DEFINE pushed == Spatial!TryPushCircle(index, circle)
  <2> HIDE DEF circle
  <2>1. Sound(index)
    BY DEF TypeInv
  <2>2. /\ Sound(pushed) /\ pushed.fences = index.fences
        /\ \/ pushed = index
           \/ /\ pushed.circles = Append(index.circles, circle)
              /\ \A k \in DOMAIN index.circles : index.circles[k].id # circle.id
    BY <1>2, <2>1, CircleKeepsSound
  <2> HIDE DEF pushed
  <2>3. pushed # index => AddsOnly(index, pushed, <<"circle", circle.id>>)
    BY <1>2, <2>1, <2>2, CircleAddsOnly
  <2>4. circle.id = call.id
    BY DEF circle
  <2>5. QED
    BY <2>2, <2>3, <2>4 DEF pushed
<1>4. Registered(Spatial!TryPushCircle(index, circle), g, call.dwell)
  BY Zenon DEF RegisterCircle
<1>5. RegisteredAs(Spatial!TryPushCircle(index, circle), g, call.dwell)
  BY <1>1, <1>2, <1>3, <1>4 DEF RegisteredAs
<1>6. QED
  BY <1>5

\* The engine after a registration that was not refused.
WithGeometry(eng, areas, g, d) == [eng EXCEPT !.area = areas, !.dwell[g] = d]

\* What it differs in.
GeometryAdded(eng, new, areas, g, d) ==
  /\ new \in EngineStates(AnyRules, AnySequences)
  /\ new.area = areas
  /\ new.dwell = [eng.dwell EXCEPT ![g] = d]
  /\ new.entities = eng.entities
  /\ new.configurable_rules = eng.configurable_rules
  /\ new.sequence_rules = eng.sequence_rules

\* It does to an engine what GeometryAdded says.
LEMMA RegisteredEngine ==
  ASSUME NEW eng \in EngineStates(AnyRules, AnySequences), NEW areas \in [Geometries -> Areas \union {None}],
         NEW g \in Geometries, NEW d \in Dwells
  PROVE  GeometryAdded(eng, WithGeometry(eng, areas, g, d), areas, g, d)
<1> DEFINE new == WithGeometry(eng, areas, g, d)
<1>1. /\ new.area = areas
      /\ new.dwell = [eng.dwell EXCEPT ![g] = d]
      /\ new.entities = eng.entities
      /\ new.configurable_rules = eng.configurable_rules
      /\ new.sequence_rules = eng.sequence_rules
  BY DEF EngineStates, WithGeometry
<1>2. new \in EngineStates(AnyRules, AnySequences)
  BY <1>1 DEF EngineStates, WithGeometry
<1> HIDE DEF new
<1>3. GeometryAdded(eng, new, areas, g, d)
  BY <1>1, <1>2 DEF GeometryAdded
<1>4. QED
  BY <1>3 DEF new

\* The updates of a call as process_batch gets them, and what it makes of them.
BatchOf(updates) ==
  [n \in DOMAIN updates |-> [id |-> updates[n].id, x |-> updates[n].x, t_ms |-> U64(updates[n].tMs)]]

\* What process_batch makes of them.
ResultOf(updates) == ProcessBatch(engine, BatchOf(updates), <<>>)

\* The updates that the errors name.
RefusedBy(errors) == {errors[n].update : n \in DOMAIN errors}

\* The entities of the others.
AcceptedOf(batch, errors) == {batch[n].id : n \in {k \in DOMAIN batch : batch[k] \notin RefusedBy(errors)}}

\* One call of ingest with N updates.
Ingested(updates, N) ==
  /\ N \in Nat \ {0} /\ updates \in [1 .. N -> JsUpdates]
  /\ BatchOf(updates) \in [1 .. N -> Updates]
  /\ sent' = sent + N
  /\ engine' = ResultOf(updates).engine
  /\ out' = [updates |-> updates,
             events |-> [n \in DOMAIN ResultOf(updates).events |-> EventDto(ResultOf(updates).events[n])]]
  /\ newest' = FoldLeft(Newer, newest, updates)
  /\ fresh' = fresh \union {p \in AcceptedOf(BatchOf(updates), ResultOf(updates).errors) \X Geometries :
                              engine.area[p[2]] # None}
  /\ UNCHANGED <<index, configs>>

\* The fields of an update, and its time as u64.
LEMMA JsUpdateType ==
  ASSUME NEW u \in JsUpdates
  PROVE  /\ u.id \in Entities /\ u.x \in Points /\ u.tMs \in -Half .. Half - 1
         /\ U64(u.tMs) \in Times
<1>1. u \in [id : Entities, x : Points, tMs : -Half .. Half - 1]
  BY BindingAssumption
<1>2. u.id \in Entities /\ u.x \in Points /\ u.tMs \in -Half .. Half - 1
  BY <1>1
<1>3. QED
  BY <1>2, U64Is

\* The updates of a call, converted.
LEMMA BatchOfType ==
  ASSUME NEW N \in Nat, NEW updates \in [1 .. N -> JsUpdates]
  PROVE  /\ BatchOf(updates) \in [1 .. N -> Updates]
         /\ \A n \in 1 .. N : /\ BatchOf(updates)[n].id = updates[n].id
                              /\ BatchOf(updates)[n].x = updates[n].x
                              /\ BatchOf(updates)[n].t_ms = U64(updates[n].tMs)
<1>1. \A n \in 1 .. N : updates[n].id \in Entities /\ updates[n].x \in Points /\ U64(updates[n].tMs) \in Times
  BY JsUpdateType
<1>2. QED
  BY <1>1 DEF BatchOf, Updates

\* Ingest is such a call.
LEMMA IngestIs ==
  ASSUME TypeInv, NEW n \in 1 .. MaxUpdates - sent, NEW updates \in [1 .. n -> JsUpdates], Ingest(updates)
  PROVE  Ingested(updates, n)
<1>1. n \in Nat \ {0} /\ DOMAIN updates = 1 .. n /\ Len(updates) = n
  BY BindingAssumption DEF TypeInv
<1>2. BatchOf(updates) \in [1 .. n -> Updates]
  BY <1>1, BatchOfType
<1>3. /\ sent' = sent + Len(updates)
      /\ engine' = ResultOf(updates).engine
      /\ out' = [updates |-> updates,
                 events |-> [k \in DOMAIN ResultOf(updates).events |-> EventDto(ResultOf(updates).events[k])]]
      /\ newest' = FoldLeft(Newer, newest, updates)
      /\ fresh' = fresh \union {p \in AcceptedOf(BatchOf(updates), ResultOf(updates).errors) \X Geometries :
                                  engine.area[p[2]] # None}
      /\ UNCHANGED <<index, configs>>
  BY Zenon DEF Ingest, BatchOf, ResultOf, RefusedBy, AcceptedOf
<1>4. QED
  BY <1>1, <1>2, <1>3 DEF Ingested

\* What a step may be.
Step ==
  \/ \E pushed, g, options : RegisteredAs(pushed, g, options)
  \/ \E config \in RuleConfigs : DefineRule(config)
  \/ \E config \in SequenceConfigs : DefineSequence(config)
  \/ \E updates, N : Ingested(updates, N)

\* Every step of the specification is one of these.
LEMMA NextIsStep ==
  ASSUME TypeInv, Next
  PROVE  Step
<1>1. CASE \E call \in ZoneCalls : RegisterZone(call)
  BY <1>1, ZoneIsRegistered DEF Step
<1>2. CASE \E call \in CircleCalls : RegisterCircle(call)
  BY <1>2, CircleIsRegistered DEF Step
<1>3. CASE \E n \in 1 .. MaxUpdates - sent : \E updates \in [1 .. n -> JsUpdates] : Ingest(updates)
  BY <1>3, IngestIs DEF Step
<1>4. QED
  BY <1>1, <1>2, <1>3, Zenon DEF Next, Step

\* The run behind a call of ingest.
Behind(updates, N, order, sorted, run) ==
  /\ BehindBatch(engine, N, BatchOf(updates), <<>>, order, sorted, run)
  /\ \A m \in 0 .. N : SameSetup(engine, run[m].engine)
  /\ SameSetup(engine, engine')

\* Every call has such a run.
LEMMA BehindIngest ==
  ASSUME TypeInv, NEW updates, NEW N, Ingested(updates, N)
  PROVE  \E order, sorted, run : Behind(updates, N, order, sorted, run)
<1>1. N \in Nat \ {0} /\ BatchOf(updates) \in [1 .. N -> Updates] /\ engine' = ResultOf(updates).engine
  BY DEF Ingested
<1>2. PICK order, sorted, run : BehindBatch(engine, N, BatchOf(updates), <<>>, order, sorted, run)
  BY <1>1, Numbers, BatchRun DEF TypeInv
<1>3. /\ sorted \in [1 .. N -> Updates] /\ IsRun(run, N, engine, sorted, <<>>)
      /\ engine' = run[N].engine
  BY <1>1, <1>2 DEF BehindBatch, ResultOf
<1>4. \A m \in 0 .. N : SameSetup(engine, run[m].engine)
  BY <1>1, <1>3, Numbers, RunKeepsSetup DEF TypeInv
<1>5. N \in 0 .. N
  BY <1>1
<1>6. Behind(updates, N, order, sorted, run)
  BY <1>2, <1>3, <1>4, <1>5 DEF Behind
<1>7. QED
  BY <1>6

\* What is remembered of the updates.
Bests == [Entities -> JsUpdates \union {None}]

\* What is remembered stays typed.
LEMMA NewerType ==
  ASSUME NEW best \in Bests, NEW u \in JsUpdates
  PROVE  Newer(best, u) \in Bests
<1>1. u.id \in Entities
  BY JsUpdateType
<1>2. QED
  BY <1>1 DEF Bests, Newer

\* The newest updates, after each of N more.
NewestRun(run, N, best, updates) ==
  /\ run \in [0 .. N -> Bests]
  /\ run[0] = best /\ run[N] = FoldLeft(Newer, best, updates)
  /\ \A n \in 1 .. N : run[n] = Newer(run[n - 1], updates[n])

\* The fold of Newer over the updates of a call is a run.
LEMMA NewerRun ==
  ASSUME NEW N \in Nat, NEW updates \in [1 .. N -> JsUpdates], NEW best \in Bests
  PROVE  \E run : NewestRun(run, N, best, updates)
<1> DEFINE New(b, n) == Newer(b, updates[n])
           F == [p \in Bests \X (1 .. N) |-> New(p[1], p[2])]
           Eq(h) == h = [t \in SUBSET DOMAIN updates |->
                           IF t = {} THEN best ELSE New(h[t \ {Max(t)}], Max(t))]
           fold == CHOOSE h : Eq(h)
<1>1. FoldLeft(Newer, best, updates) = fold[DOMAIN updates]
  BY Zenon DEF FoldLeft, MapThenFoldSet
<1>2. DOMAIN updates = 1 .. N
  OBVIOUS
<1>3. \A b \in Bests, n \in 1 .. N : New(b, n) \in Bests
  BY NewerType
<1> HIDE DEF New
<1>4. F \in [Bests \X (1 .. N) -> Bests] /\ \A b \in Bests, n \in 1 .. N : F[<<b, n>>] = New(b, n)
  BY <1>3
<1> HIDE DEF F
<1>5. PICK g \in [SUBSET (1 .. N) -> Bests] : Folded(N, best, F, g)
  BY <1>4, FoldedExists
<1>6. Eq(g)
  <2>1. ASSUME NEW t \in SUBSET (1 .. N), t # {}
        PROVE  F[<<g[t \ {Max(t)}], Max(t)>>] = New(g[t \ {Max(t)}], Max(t))
    <3>1. Max(t) \in 1 .. N /\ t \ {Max(t)} \in SUBSET (1 .. N)
      BY <2>1, MaxInSet
    <3>2. g[t \ {Max(t)}] \in Bests
      BY <3>1
    <3>3. QED
      BY <1>4, <3>1, <3>2
  <2>2. QED
    BY <1>2, <1>5, <2>1 DEF Folded
<1>7. Eq(fold)
  BY <1>6
<1>8. /\ fold[{}] = best
      /\ \A t \in SUBSET (1 .. N) : t # {} => fold[t] = New(fold[t \ {Max(t)}], Max(t))
  BY <1>2, <1>7
<1> HIDE DEF fold
<1>9. ASSUME NEW t \in SUBSET (1 .. N), t # {}, fold[t \ {Max(t)}] \in Bests
      PROVE  fold[t] = F[<<fold[t \ {Max(t)}], Max(t)>>]
  <2>1. Max(t) \in 1 .. N
    BY <1>9, MaxInSet
  <2>2. QED
    BY <1>4, <1>8, <1>9, <2>1
<1>10. PICK run : Ran(run, N, Bests, best, F, fold)
  <2>1. Unfolds(fold, N, Bests, best, F)
    BY <1>8, <1>9 DEF Unfolds
  <2>2. QED
    BY <1>4, <2>1, FoldRun
<1>11. \A n \in 1 .. N : run[n] = New(run[n - 1], n)
  <2>1. \A n \in 1 .. N : n - 1 \in 0 .. N
    OBVIOUS
  <2>2. QED
    BY <1>4, <1>10, <2>1 DEF Ran
<1>12. NewestRun(run, N, best, updates)
  BY <1>1, <1>2, <1>10, <1>11 DEF Ran, NewestRun, New
<1>13. QED
  BY <1>12

-----------------------------------------------------------------------------
\* The initial state is typed.
LEMMA TypeInvInit == Init => TypeInv
<1> SUFFICES ASSUME Init PROVE TypeInv
  OBVIOUS
<1>1. Sound(index) /\ AreasOf(index) = [g \in Geometries |-> None]
  BY NewAreas DEF Init
<1>2. NewEngine \in EngineStates(AnyRules, AnySequences) /\ WellFormed(NewEngine.entities)
  BY NewEngineType
<1>3. NewEngine.area = [g \in Geometries |-> None]
  BY DEF NewEngine
<1>4. QED
  BY <1>1, <1>2, <1>3 DEF Init, TypeInv

\* define_rule adds a typed rule, with the triggers and filters of its configuration.
LEMMA RuleIsTyped ==
  ASSUME NEW config \in RuleConfigs, DefineRule(config)
  PROVE  \E rule \in AnyRules : /\ engine' = AddRule(engine, rule)
                                /\ rule.emit = config.emit
                                /\ rule.triggers = {[event_kind |-> KindFrom(t.event_kind), target_id |-> t.target_id] :
                                                      t \in config.triggers}
                                /\ rule.filters = {FilterFrom(f) : f \in config.filters}
<1> DEFINE triggers == {[event_kind |-> KindFrom(t.event_kind), target_id |-> t.target_id] : t \in config.triggers}
           filters == {FilterFrom(f) : f \in config.filters}
           rule == [name |-> config.name, emit |-> config.emit, triggers |-> triggers, filters |-> filters]
           F == [type : {"speed_above", "speed_below"}, value : Int]
                 \union [type : {"heading_between"}, from : Int, to : Int]
<1>1. /\ config.name \in Int /\ config.emit \in Int
      /\ \A t \in config.triggers : t.target_id \in Int
      /\ \A f \in config.filters : f.value \in Optional /\ f.from \in Optional /\ f.to \in Optional
  BY BindingAssumption
<1>2. /\ \A t \in config.triggers : t.event_kind \in SpatialKinds
      /\ \A f \in config.filters : f.filter_type \in FilterTypes
      /\ engine' = AddRule(engine, rule)
  BY Zenon DEF DefineRule
<1>3. triggers \in SUBSET [event_kind : SpatialKinds, target_id : Int]
  BY <1>1, <1>2 DEF KindFrom
<1>4. \A f \in config.filters : FilterFrom(f) \in F
  BY <1>1, <1>2 DEF FilterFrom, FilterTypes, Optional
<1> HIDE DEF F
<1>5. filters \in SUBSET F
  BY <1>4
<1> HIDE DEF triggers, filters
<1>6. rule \in AnyRules /\ rule.emit = config.emit /\ rule.triggers = triggers /\ rule.filters = filters
  BY <1>1, <1>3, <1>5 DEF AnyRules, F
<1>7. QED
  BY <1>2, <1>6 DEF triggers, filters

\* And define_sequence a typed sequence.
LEMMA SequenceIsTyped ==
  ASSUME NEW config \in SequenceConfigs, DefineSequence(config)
  PROVE  \E rule \in AnySequences : engine' = AddSequence(engine, rule)
<1> DEFINE rule == [config EXCEPT !.within_ms = IF @ = None THEN None ELSE U64(@)]
<1>1. config \in [name : Int, steps : Seq(Int), within_ms : Optional]
  BY BindingAssumption
<1>2. config.within_ms # None => U64(config.within_ms) \in Nat
  BY <1>1, U64Type DEF Optional
<1>3. rule \in AnySequences
  BY <1>1, <1>2 DEF AnySequences
<1>4. engine' = AddSequence(engine, rule)
  BY Zenon DEF DefineSequence
<1>5. QED
  BY <1>3, <1>4

\* What a registration leaves as it is, and what it changes.
LEMMA RegistrationOutcome ==
  ASSUME TypeInv, NEW pushed, NEW g, NEW options, RegisteredAs(pushed, g, options)
  PROVE  /\ index' = pushed /\ Sound(pushed) /\ g \in Geometries
         /\ fresh' = {p \in fresh : p[2] # g \/ pushed = index}
         /\ UNCHANGED <<configs, newest, sent>>
         /\ engine' \in EngineStates(AnyRules, AnySequences)
         /\ engine'.entities = engine.entities
         /\ engine'.configurable_rules = engine.configurable_rules
         /\ engine'.area = AreasOf(pushed)
         /\ pushed = index => engine' = engine
         /\ pushed # index => AddsOnly(index, pushed, g)
         /\ pushed # index => engine'.dwell = [engine.dwell EXCEPT ![g] = DwellFrom(options)]
<1>1. /\ index' = pushed /\ Sound(pushed) /\ g \in Geometries /\ options \in DwellOptions
      /\ engine' = IF pushed = index
                     THEN engine
                     ELSE [engine EXCEPT !.area = AreasOf(pushed), !.dwell[g] = DwellFrom(options)]
      /\ fresh' = {p \in fresh : p[2] # g \/ pushed = index}
      /\ UNCHANGED <<configs, newest, sent>>
      /\ pushed # index => AddsOnly(index, pushed, g)
  BY DEF RegisteredAs, Registered
<1>2. DwellFrom(options) \in Dwells /\ AreasOf(pushed) \in [Geometries -> Areas \union {None}]
  BY <1>1, AreasAre, DwellFromType
<1>3. /\ engine' \in EngineStates(AnyRules, AnySequences)
      /\ engine'.entities = engine.entities
      /\ engine'.configurable_rules = engine.configurable_rules
      /\ engine'.area = AreasOf(pushed)
      /\ pushed = index => engine' = engine
      /\ pushed # index => engine'.dwell = [engine.dwell EXCEPT ![g] = DwellFrom(options)]
  <2>1. CASE pushed = index
    BY <1>1, <2>1 DEF TypeInv
  <2>2. CASE pushed # index
    <3>1. engine' = [engine EXCEPT !.area = AreasOf(pushed), !.dwell[g] = DwellFrom(options)]
      BY <1>1, <2>2
    <3>2. engine \in EngineStates(AnyRules, AnySequences)
      BY DEF TypeInv
    <3>3. engine' = WithGeometry(engine, AreasOf(pushed), g, DwellFrom(options))
      BY <3>1, Zenon DEF WithGeometry
    <3>4. GeometryAdded(engine, engine', AreasOf(pushed), g, DwellFrom(options))
      BY <1>1, <1>2, <3>2, <3>3, RegisteredEngine
    <3>5. QED
      BY <2>2, <3>4 DEF GeometryAdded
  <2>3. QED
    BY <2>1, <2>2
<1>4. QED
  BY <1>1, <1>3

\* Every step keeps the type invariant.
LEMMA TypeInvNext == TypeInv /\ [Next]_vars => TypeInv'
<1> SUFFICES ASSUME TypeInv, [Next]_vars PROVE TypeInv'
  OBVIOUS
<1>1. CASE UNCHANGED vars
  BY <1>1 DEF vars, TypeInv
<1>2. ASSUME NEW pushed, NEW g, NEW options, RegisteredAs(pushed, g, options)
      PROVE  TypeInv'
  <2>1. /\ index' = pushed /\ Sound(pushed)
        /\ fresh' \subseteq fresh
        /\ UNCHANGED <<newest, sent>>
        /\ engine' \in EngineStates(AnyRules, AnySequences)
        /\ engine'.entities = engine.entities
        /\ engine'.area = AreasOf(pushed)
    BY <1>2, RegistrationOutcome
  <2>2. AreasOf(pushed) = AreasOf(index)'
    BY <2>1, Zenon DEF AreasOf
  <2>3. QED
    BY <2>1, <2>2 DEF TypeInv
<1>3. ASSUME NEW config \in RuleConfigs, DefineRule(config)
      PROVE  TypeInv'
  <2>1. PICK rule \in AnyRules : engine' = AddRule(engine, rule)
    BY <1>3, RuleIsTyped
  <2>2. engine' \in EngineStates(AnyRules, AnySequences) /\ engine'.area = engine.area /\ engine'.entities = engine.entities
    BY <2>1, AddRuleOutcome DEF TypeInv
  <2>3. UNCHANGED <<index, newest, fresh, sent>>
    BY <1>3 DEF DefineRule
  <2>4. QED
    BY <2>2, <2>3 DEF TypeInv
<1>4. ASSUME NEW config \in SequenceConfigs, DefineSequence(config)
      PROVE  TypeInv'
  <2>1. PICK rule \in AnySequences : engine' = AddSequence(engine, rule)
    BY <1>4, SequenceIsTyped
  <2>2. engine' \in EngineStates(AnyRules, AnySequences) /\ engine'.area = engine.area /\ engine'.entities = engine.entities
    BY <2>1, AddSequenceOutcome DEF TypeInv
  <2>3. UNCHANGED <<index, newest, fresh, sent>>
    BY <1>4 DEF DefineSequence
  <2>4. QED
    BY <2>2, <2>3 DEF TypeInv
<1>5. ASSUME NEW updates, NEW N, Ingested(updates, N)
      PROVE  TypeInv'
  <2>1. /\ N \in Nat \ {0} /\ updates \in [1 .. N -> JsUpdates] /\ BatchOf(updates) \in [1 .. N -> Updates]
        /\ sent' = sent + N /\ engine' = ResultOf(updates).engine
        /\ newest' = FoldLeft(Newer, newest, updates)
        /\ index' = index
    BY <1>5 DEF Ingested
  <2>2. engine' \in EngineStates(AnyRules, AnySequences) /\ WellFormed(engine'.entities)
    BY <2>1, Numbers, BatchKeepsType DEF TypeInv, ResultOf
  <2>3. engine'.area = engine.area
    <3>1. PICK order, sorted, run : Behind(updates, N, order, sorted, run)
      BY <1>5, BehindIngest
    <3>2. QED
      BY <3>1 DEF Behind, SameSetup
  <2>4. newest' \in Bests
    <3>1. PICK run : NewestRun(run, N, newest, updates)
      BY <2>1, NewerRun DEF TypeInv, Bests
    <3>2. QED
      BY <2>1, <3>1 DEF NewestRun
  <2>5. fresh' \subseteq Entities \X Geometries
    <3>1. AcceptedOf(BatchOf(updates), ResultOf(updates).errors) \subseteq Entities
      BY <2>1, Numbers, UpdateType DEF AcceptedOf
    <3>2. fresh' = fresh \union {p \in AcceptedOf(BatchOf(updates), ResultOf(updates).errors) \X Geometries :
                                   engine.area[p[2]] # None}
      BY <1>5 DEF Ingested
    <3>3. QED
      BY <3>1, <3>2 DEF TypeInv
  <2>6. QED
    BY <2>1, <2>2, <2>3, <2>4, <2>5 DEF TypeInv, Bests
<1>6. QED
  BY <1>1, <1>2, <1>3, <1>4, <1>5, NextIsStep DEF Step

\* Whatever is registered, configured and ingested, the engine behind the binding has its
\* type, and its areas are those of an index whose trees hold one box for each shape.
THEOREM BindingTypeCorrect == Spec => []TypeInv
BY TypeInvInit, TypeInvNext, PTL DEF Spec

\* A lookup in the R-trees answers what a look at every shape answers, also after the
\* index is rebuilt from its vectors: the boxes cover their shapes, and none is missing
\* or points to another shape.
THEOREM BindingIndexIsExact == Spec => []IndexIsExact
<1>1. TypeInv => IndexIsExact
  <2> SUFFICES ASSUME TypeInv PROVE IndexIsExact
    OBVIOUS
  <2>1. Sound(index)
    BY DEF TypeInv
  <2>2. Spatial!FromVecs(index.fences, index.circles) = index
    BY <2>1, RebuiltIsSame
  <2>3. \A x \in Points : Exact(index, x)
    BY <2>1, SoundIsExact, EngineAssumption
  <2>4. QED
    BY <2>2, <2>3, Zenon DEF IndexIsExact, Exact
<1>2. QED
  BY <1>1, BindingTypeCorrect, PTL

-----------------------------------------------------------------------------
\* An application makes of an event what a consumer of the engine's events makes of it.
LEMMA SeeDtoIsSee ==
  ASSUME NEW seen, NEW ev
  PROVE  SeeDto(seen, EventDto(ev)) = See(seen, ev)
<1>1. /\ EventDto(ev).kind = IF ev.kind = "custom" THEN "rule" ELSE ev.kind
      /\ EventDto(ev).id = ev.id /\ EventDto(ev).subject = ev.name
  BY DEF EventDto
<1>2. CASE ev.kind = "enter"
  BY <1>1, <1>2 DEF SeeDto, See, Subject
<1>3. CASE ev.kind = "exit"
  BY <1>1, <1>3 DEF SeeDto, See, Subject
<1>4. CASE ev.kind = "approach"
  BY <1>1, <1>4 DEF SeeDto, See, Subject
<1>5. CASE ev.kind = "recede"
  BY <1>1, <1>5 DEF SeeDto, See, Subject
<1>6. CASE ev.kind \notin SpatialKinds
  <2>1. SeeDto(seen, EventDto(ev)) = seen
    BY <1>1, <1>6 DEF SeeDto, SpatialKinds
  <2>2. See(seen, ev) = seen
    BY <1>6 DEF See, SpatialKinds
  <2>3. QED
    BY <2>1, <2>2
<1>7. QED
  BY <1>2, <1>3, <1>4, <1>5, <1>6 DEF SpatialKinds

\* So it makes the same of a list of them.
LEMMA DtoFolds ==
  ASSUME NEW M \in Nat, NEW events, DOMAIN events = 1 .. M, NEW seen,
         NEW dto, dto = [n \in DOMAIN events |-> EventDto(events[n])]
  PROVE  FoldLeft(SeeDto, seen, dto) = FoldLeft(See, seen, events)
<1> DEFINE Eq1(h) == h = [t \in SUBSET DOMAIN dto |->
                            IF t = {} THEN seen ELSE SeeDto(h[t \ {Max(t)}], dto[Max(t)])]
           Eq2(h) == h = [t \in SUBSET DOMAIN events |->
                            IF t = {} THEN seen ELSE See(h[t \ {Max(t)}], events[Max(t)])]
           fold1 == CHOOSE h : Eq1(h)
           fold2 == CHOOSE h : Eq2(h)
<1>1. FoldLeft(SeeDto, seen, dto) = fold1[DOMAIN dto]
  BY Zenon DEF FoldLeft, MapThenFoldSet
<1>2. FoldLeft(See, seen, events) = fold2[DOMAIN events]
  BY Zenon DEF FoldLeft, MapThenFoldSet
<1>3. DOMAIN dto = 1 .. M
  OBVIOUS
<1>4. ASSUME NEW h
      PROVE  Eq1(h) <=> Eq2(h)
  <2>1. ASSUME NEW t \in SUBSET (1 .. M), t # {}
        PROVE  SeeDto(h[t \ {Max(t)}], dto[Max(t)]) = See(h[t \ {Max(t)}], events[Max(t)])
    <3>1. Max(t) \in 1 .. M
      BY <2>1, MaxInSet
    <3>2. dto[Max(t)] = EventDto(events[Max(t)])
      BY <3>1
    <3>3. QED
      BY <3>2, SeeDtoIsSee
  <2>2. [t \in SUBSET (1 .. M) |-> IF t = {} THEN seen ELSE SeeDto(h[t \ {Max(t)}], dto[Max(t)])]
          = [t \in SUBSET (1 .. M) |-> IF t = {} THEN seen ELSE See(h[t \ {Max(t)}], events[Max(t)])]
    BY <2>1
  <2>3. QED
    BY <1>3, <2>2, Zenon
<1> HIDE DEF Eq1, Eq2
<1>5. fold1 = fold2
  BY <1>4
<1>6. QED
  BY <1>1, <1>2, <1>3, <1>5

\* Without ties in i64 there are none in u64.
LEMMA NoTiesInBatch ==
  ASSUME NEW N \in Nat, NEW updates \in [1 .. N -> JsUpdates],
         \A i, j \in DOMAIN updates : i # j => updates[i].id # updates[j].id \/ updates[i].tMs # updates[j].tMs
  PROVE  NoTies(BatchOf(updates))
<1>1. /\ BatchOf(updates) \in [1 .. N -> Updates]
      /\ \A n \in 1 .. N : BatchOf(updates)[n].id = updates[n].id /\ BatchOf(updates)[n].t_ms = U64(updates[n].tMs)
  BY BatchOfType
<1>2. DOMAIN BatchOf(updates) = 1 .. N /\ DOMAIN updates = 1 .. N
  BY <1>1
<1>3. ASSUME NEW i \in 1 .. N, NEW j \in 1 .. N, i # j
      PROVE  BatchOf(updates)[i].id # BatchOf(updates)[j].id \/ BatchOf(updates)[i].t_ms # BatchOf(updates)[j].t_ms
  <2>1. updates[i].tMs \in -Half .. Half - 1 /\ updates[j].tMs \in -Half .. Half - 1
    BY JsUpdateType
  <2>2. U64(updates[i].tMs) = U64(updates[j].tMs) <=> updates[i].tMs = updates[j].tMs
    BY <2>1, U64Orders
  <2>3. QED
    BY <1>1, <1>2, <1>3, <2>2
<1>4. QED
  BY <1>2, <1>3 DEF NoTies

\* An application that had what the queries answered before a call, and folds the events
\* the call returns, has what they answer after it: the conversion of times keeps updates
\* with different times apart, and that of events what they are about.
THEOREM BindingEventsExplain == Spec => EventsExplainQueries
<1> DEFINE A == (\A i, j \in DOMAIN out'.updates :
                   i # j => out'.updates[i].id # out'.updates[j].id \/ out'.updates[i].tMs # out'.updates[j].tMs)
                => Membership' = IF sent' = sent THEN Membership ELSE FoldLeft(SeeDto, Membership, out'.events)
<1>1. Membership = Inside(engine.entities) /\ Membership' = Inside(engine'.entities)
  BY DEF Membership, EntitiesIn, Inside
<1>2. TypeInv /\ [Next]_vars => [A]_vars
  <2> SUFFICES ASSUME TypeInv, Next PROVE A
    OBVIOUS
  <2>1. ASSUME sent' = sent, engine'.entities = engine.entities
        PROVE  A
    BY <1>1, <2>1
  <2>2. ASSUME NEW pushed, NEW g, NEW options, RegisteredAs(pushed, g, options)
        PROVE  sent' = sent /\ engine'.entities = engine.entities
    BY <2>2, RegistrationOutcome
  <2>3. ASSUME NEW config \in RuleConfigs, DefineRule(config)
        PROVE  sent' = sent /\ engine'.entities = engine.entities
    <3>1. PICK rule \in AnyRules : engine' = AddRule(engine, rule)
      BY <2>3, RuleIsTyped
    <3>2. QED
      BY <2>3, <3>1, AddRuleOutcome DEF TypeInv, DefineRule
  <2>4. ASSUME NEW config \in SequenceConfigs, DefineSequence(config)
        PROVE  sent' = sent /\ engine'.entities = engine.entities
    <3>1. PICK rule \in AnySequences : engine' = AddSequence(engine, rule)
      BY <2>4, SequenceIsTyped
    <3>2. QED
      BY <2>4, <3>1, AddSequenceOutcome DEF TypeInv, DefineSequence
  <2>5. ASSUME NEW updates, NEW N, Ingested(updates, N)
        PROVE  A
    <3> DEFINE result == ResultOf(updates)
               dto == [n \in DOMAIN result.events |-> EventDto(result.events[n])]
    <3>1. /\ N \in Nat \ {0} /\ updates \in [1 .. N -> JsUpdates] /\ BatchOf(updates) \in [1 .. N -> Updates]
          /\ sent' = sent + N /\ engine' = result.engine
          /\ out'.updates = updates /\ out'.events = dto
      BY <2>5 DEF Ingested
    <3>2. sent' # sent
      BY <3>1 DEF TypeInv
    <3>3. ASSUME \A i, j \in DOMAIN updates :
                   i # j => updates[i].id # updates[j].id \/ updates[i].tMs # updates[j].tMs
          PROVE  Inside(engine'.entities) = FoldLeft(SeeDto, Inside(engine.entities), out'.events)
      <4>1. NoTies(BatchOf(updates))
        BY <3>1, <3>3, NoTiesInBatch
      <4>2. engine \in EngineStates(AnyRules, AnySequences) /\ WellFormed(engine.entities)
        BY DEF TypeInv
      <4>3. FoldLeft(See, Inside(engine.entities), result.events) = Inside(result.engine.entities)
        BY <3>1, <4>1, <4>2, Numbers, BatchFolds DEF ResultOf
      <4>4. PICK M \in Nat : DOMAIN result.events = 1 .. M
        BY <3>1, <4>2, Numbers, BatchEvents DEF ResultOf
      <4>5. FoldLeft(SeeDto, Inside(engine.entities), dto) = FoldLeft(See, Inside(engine.entities), result.events)
        <5> HIDE DEF result
        <5>1. QED
          BY <4>4, DtoFolds
      <4>6. QED
        BY <3>1, <4>3, <4>5, Zenon
    <3>4. QED
      BY <1>1, <3>1, <3>2, <3>3
  <2>6. QED
    BY <2>1, <2>2, <2>3, <2>4, <2>5, NextIsStep DEF Step
<1>3. QED
  BY <1>2, TypeInvInit, TypeInvNext, PTL DEF Spec, EventsExplainQueries

-----------------------------------------------------------------------------
\* While the store works, an update of a batch is refused exactly when it is late.
LEMMA RefusedIsLate ==
  ASSUME NEW eng \in EngineStates(AnyRules, AnySequences), WellFormed(eng.entities),
         NEW N \in Nat, NEW batch \in [1 .. N -> Updates], NEW i \in 1 .. N,
         NEW errors, errors = ProcessBatch(eng, batch, <<>>).errors
  PROVE  batch[i] \in RefusedBy(errors) <=> Late(eng, batch[i])
<1>1. Refused(errors, batch[i]) <=> Late(eng, batch[i])
  <2> PICK broken : broken = <<>>
    OBVIOUS
  <2>1. PICK order, updates, run : BehindBatch(eng, N, batch, broken, order, updates, run)
    BY Numbers, BatchRun
  <2>2. InOrder(order, 1 .. N, BatchOrder(batch)) /\ updates = [n \in 1 .. N |-> batch[order[n]]]
    BY <2>1, Zenon DEF BehindBatch
  <2>3. Cardinality(1 .. N) = N
    BY FS_Interval
  <2>4. updates = SortUpdates(batch)
    BY <2>1 DEF BehindBatch
  <2>5. PICK n \in 1 .. N : order[n] = i
    BY <2>2, <2>3, Zenon DEF InOrder
  <2>6. FaultOf(broken, n) # "get"
    BY NoFault, EngineAssumption DEF StoreFaults
  <2>7. CanRead(SortUpdates(batch), N, broken, batch[i])
    BY <2>2, <2>4, <2>5, <2>6 DEF CanRead
  <2>8. Refused(errors, batch[i])
          <=> LET last == eng.entities[batch[i].id].last_t_ms
              IN  /\ CanRead(SortUpdates(batch), N, broken, batch[i])
                  /\ last # None /\ last > batch[i].t_ms
    BY Numbers, RefusedInBatch
  <2>9. QED
    BY <2>7, <2>8, Zenon DEF Late
<1>2. Refused(errors, batch[i]) => batch[i] \in RefusedBy(errors)
  BY DEF Refused, RefusedBy
<1>3. ASSUME batch[i] \in RefusedBy(errors)
      PROVE  Refused(errors, batch[i])
  <2>1. PICK k \in DOMAIN errors : errors[k].update = batch[i]
    BY <1>3 DEF RefusedBy
  <2>2. PICK order, updates, run : BehindBatch(eng, N, batch, <<>>, order, updates, run)
    BY Numbers, BatchRun
  <2>3. /\ updates \in [1 .. N -> Updates] /\ IsRun(run, N, eng, updates, <<>>)
        /\ errors = run[N].errors
    BY <2>2 DEF BehindBatch
  <2>4. {errors[n] : n \in DOMAIN errors} = Failures(run, updates, <<>>, N)
    <3>1. N \in 0 .. N
      OBVIOUS
    <3>2. QED
      BY <2>3, <3>1, Numbers, RunShape
  <2>5. errors[k] \in Failures(run, updates, <<>>, N)
    BY <2>4
  <2>6. PICK n \in 1 .. N :
          /\ RoundResult(run, updates, <<>>, n).error # None
          /\ errors[k] = [update |-> updates[n], error |-> RoundResult(run, updates, <<>>, n).error]
    BY <2>5 DEF Failures
  <2>7. Outcome(run[n - 1].engine, updates[n], FaultOf(<<>>, n), RoundResult(run, updates, <<>>, n))
    BY <2>3, Numbers, RunStep
  <2>8. FaultOf(<<>>, n) \notin StoreFaults
    BY NoFault, EngineAssumption
  <2>9. RoundResult(run, updates, <<>>, n).error = "monotonicity"
    <3> PICK r, fault : r = RoundResult(run, updates, <<>>, n) /\ fault = FaultOf(<<>>, n)
      OBVIOUS
    <3>1. Outcome(run[n - 1].engine, updates[n], fault, r) /\ r.error # None /\ fault \notin StoreFaults
      BY <2>6, <2>7, <2>8
    <3>2. fault # "get"
      BY <3>1 DEF StoreFaults
    <3>3. ~Accepts(run[n - 1].engine.entities[updates[n].id], updates[n])
      BY <3>1, Zenon DEF Outcome
    <3>4. r.error = "monotonicity"
      BY <3>1, <3>2, <3>3, Zenon DEF Outcome
    <3>5. QED
      BY <3>4
  <2>10. errors[k] = [update |-> batch[i], error |-> "monotonicity"]
    BY <2>1, <2>6, <2>9
  <2>11. QED
    BY <2>10 DEF Refused
<1>4. QED
  BY <1>1, <1>2, <1>3

-----------------------------------------------------------------------------
\* An update of an entity older than the newest one known.
Outdated(best, u) == best[u.id] # None /\ Older(u.tMs, best[u.id].tMs)

\* No update of e is newer than the newest one known.
Kept(best, b, e, n, updates) ==
  /\ b = best[e]
  /\ \A k \in 1 .. n : updates[k].id = e => Outdated(best, updates[k])

\* As Precedes, in the times JavaScript has.
SentBefore(updates, j, k) ==
  \/ U64(updates[j].tMs) < U64(updates[k].tMs)
  \/ U64(updates[j].tMs) = U64(updates[k].tMs) /\ j < k

\* One is, and it is the last of them.
Renewed(best, b, e, n, updates) ==
  \E k \in 1 .. n :
    /\ b = updates[k] /\ updates[k].id = e /\ ~Outdated(best, updates[k])
    /\ \A j \in 1 .. n : j # k /\ updates[j].id = e => SentBefore(updates, j, k)

\* The order of i64 times that Older states is that of the u64 they become.
LEMMA OlderIsNumber ==
  ASSUME NEW u \in JsUpdates, NEW v \in JsUpdates
  PROVE  /\ U64(u.tMs) \in Nat /\ U64(v.tMs) \in Nat
         /\ Older(u.tMs, v.tMs) <=> U64(u.tMs) < U64(v.tMs)
<1>1. /\ u.tMs \in -Half .. Half - 1 /\ v.tMs \in -Half .. Half - 1
      /\ U64(u.tMs) \in Times /\ U64(v.tMs) \in Times
  BY JsUpdateType
<1>2. QED
  BY <1>1, U64Orders, TimesAssumption

\* The fold over a call's updates ends with the newest, as the u64 they become order them.
LEMMA NewestSettles ==
  ASSUME NEW N \in Nat, NEW updates \in [1 .. N -> JsUpdates], NEW best \in Bests, NEW e \in Entities,
         NEW new, new = FoldLeft(Newer, best, updates)
  PROVE  Kept(best, new[e], e, N, updates) \/ Renewed(best, new[e], e, N, updates)
<1>1. PICK run : NewestRun(run, N, best, updates)
  BY NewerRun
<1> DEFINE Good(n) == Kept(best, run[n][e], e, n, updates) \/ Renewed(best, run[n][e], e, n, updates)
           S == {n \in 0 .. N : Good(n)}
<1>2. 0 \in S
  BY <1>1 DEF NewestRun, Kept
<1>3. ASSUME NEW n \in 1 .. N, n - 1 \in S
      PROVE  n \in S
  <2> DEFINE u == updates[n]
             b == run[n - 1]
             c == run[n]
  <2>1. n - 1 \in 0 .. N /\ b \in Bests /\ c = Newer(b, u) /\ n \in 0 .. N /\ Good(n - 1)
    BY <1>1, <1>3 DEF NewestRun
  <2>2. u \in JsUpdates /\ u.id \in Entities /\ U64(u.tMs) \in Nat
    BY JsUpdateType, OlderIsNumber
  <2>3. \A k \in 1 .. n - 1 : k \in 1 .. N /\ k \in 1 .. n /\ k # n /\ k < n /\ updates[k] \in JsUpdates
    OBVIOUS
  <2>4. 1 .. n = (1 .. n - 1) \union {n} /\ n \in 1 .. n
    OBVIOUS
  <2>5. c = IF b[u.id] # None /\ Older(u.tMs, b[u.id].tMs) THEN b ELSE [b EXCEPT ![u.id] = u]
    BY <2>1 DEF Newer
  <2> HIDE DEF u, b, c
  <2>6. CASE u.id # e
    <3>1. c[e] = b[e]
      BY <2>1, <2>2, <2>5, <2>6 DEF Bests
    <3>2. Kept(best, b[e], e, n - 1, updates) => Kept(best, c[e], e, n, updates)
      BY <2>4, <2>6, <3>1 DEF Kept, u
    <3>3. Renewed(best, b[e], e, n - 1, updates) => Renewed(best, c[e], e, n, updates)
      BY <2>4, <2>6, <3>1 DEF Renewed, u
    <3>4. QED
      BY <2>1, <3>2, <3>3 DEF b, c
  <2>7. CASE u.id = e /\ Kept(best, b[e], e, n - 1, updates)
    <3>1. b[e] = best[e]
      BY <2>7 DEF Kept
    <3>2. CASE Outdated(best, u)
      <4>1. c[e] = best[e]
        BY <2>5, <2>7, <3>1, <3>2 DEF Outdated
      <4>2. Kept(best, c[e], e, n, updates)
        BY <2>4, <2>7, <3>2, <4>1 DEF Kept, u
      <4>3. QED
        BY <2>1, <4>2 DEF c
    <3>3. CASE ~Outdated(best, u)
      <4>1. c[e] = u
        BY <2>1, <2>2, <2>5, <2>7, <3>1, <3>3 DEF Outdated, Bests
      <4>2. ASSUME NEW j \in 1 .. n, j # n, updates[j].id = e
            PROVE  SentBefore(updates, j, n)
        <5>1. j \in 1 .. n - 1 /\ updates[j] \in JsUpdates
          BY <2>3, <2>4, <4>2
        <5>2. best[e] # None /\ Older(updates[j].tMs, best[e].tMs)
          BY <2>7, <4>2, <5>1 DEF Kept, Outdated
        <5>3. best[e] \in JsUpdates
          BY <5>2 DEF Bests
        <5>4. ~Older(u.tMs, best[e].tMs)
          BY <2>7, <3>3, <5>2 DEF Outdated
        <5>5. /\ U64(updates[j].tMs) < U64(best[e].tMs) /\ ~(U64(u.tMs) < U64(best[e].tMs))
              /\ U64(updates[j].tMs) \in Nat /\ U64(best[e].tMs) \in Nat
          BY <2>2, <5>1, <5>2, <5>3, <5>4, OlderIsNumber
        <5>6. U64(updates[j].tMs) < U64(u.tMs)
          BY <2>2, <5>5
        <5>7. QED
          BY <5>6 DEF SentBefore, u
      <4>3. Renewed(best, c[e], e, n, updates)
        BY <2>4, <2>7, <3>3, <4>1, <4>2 DEF Renewed, u
      <4>4. QED
        BY <2>1, <4>3 DEF c
    <3>4. QED
      BY <3>2, <3>3
  <2>8. CASE u.id = e /\ Renewed(best, b[e], e, n - 1, updates)
    <3>1. PICK k \in 1 .. n - 1 :
            /\ b[e] = updates[k] /\ updates[k].id = e /\ ~Outdated(best, updates[k])
            /\ \A j \in 1 .. n - 1 : j # k /\ updates[j].id = e => SentBefore(updates, j, k)
      BY <2>8 DEF Renewed
    <3>2. k \in 1 .. N /\ k \in 1 .. n /\ k # n /\ k < n /\ updates[k] \in JsUpdates
      BY <2>3
    <3>3. b[e] # None /\ U64(updates[k].tMs) \in Nat /\ (Older(u.tMs, b[e].tMs) <=> U64(u.tMs) < U64(updates[k].tMs))
      BY <2>2, <3>1, <3>2, OlderIsNumber, BindingAssumption
    <3>4. CASE U64(u.tMs) < U64(updates[k].tMs)
      <4>1. c[e] = updates[k]
        BY <2>5, <2>8, <3>1, <3>3, <3>4
      <4>2. SentBefore(updates, n, k)
        BY <3>4 DEF SentBefore, u
      <4>3. Renewed(best, c[e], e, n, updates)
        BY <2>4, <3>1, <3>2, <4>1, <4>2 DEF Renewed
      <4>4. QED
        BY <2>1, <4>3 DEF c
    <3>5. CASE ~(U64(u.tMs) < U64(updates[k].tMs))
      <4>1. c[e] = u
        BY <2>1, <2>2, <2>5, <2>8, <3>3, <3>5 DEF Bests
      <4>2. SentBefore(updates, k, n)
        BY <2>2, <3>2, <3>3, <3>5 DEF SentBefore, u
      <4>3. ASSUME NEW j \in 1 .. n, j # n, updates[j].id = e
            PROVE  SentBefore(updates, j, n)
        <5>1. j \in 1 .. n - 1 /\ j < n /\ updates[j] \in JsUpdates
          BY <2>3, <2>4, <4>3
        <5>2. CASE j = k
          BY <4>2, <5>2
        <5>3. CASE j # k
          <6>1. SentBefore(updates, j, k)
            BY <3>1, <4>3, <5>1, <5>3
          <6>2. U64(updates[j].tMs) \in Nat
            BY <5>1, OlderIsNumber
          <6>3. U64(updates[j].tMs) <= U64(updates[k].tMs)
            BY <3>3, <6>1, <6>2 DEF SentBefore
          <6>4. QED
            BY <2>2, <3>3, <3>5, <5>1, <6>2, <6>3 DEF SentBefore, u
        <5>4. QED
          BY <5>2, <5>3
      <4>4. ~Outdated(best, u)
        <5>1. CASE best[e] = None
          BY <2>8, <5>1 DEF Outdated
        <5>2. CASE best[e] # None
          <6>1. best[e] \in JsUpdates
            BY <5>2 DEF Bests
          <6>2. ~Older(updates[k].tMs, best[e].tMs)
            BY <3>1, <5>2 DEF Outdated
          <6>3. ~(U64(updates[k].tMs) < U64(best[e].tMs)) /\ U64(best[e].tMs) \in Nat
            BY <3>2, <6>1, <6>2, OlderIsNumber
          <6>4. ~(U64(u.tMs) < U64(best[e].tMs))
            BY <2>2, <3>3, <3>5, <6>3
          <6>5. ~Older(u.tMs, best[e].tMs)
            BY <2>2, <6>1, <6>4, OlderIsNumber
          <6>6. QED
            BY <2>8, <6>5 DEF Outdated
        <5>3. QED
          BY <5>1, <5>2
      <4>5. Renewed(best, c[e], e, n, updates)
        BY <2>4, <2>8, <4>1, <4>3, <4>4 DEF Renewed, u
      <4>6. QED
        BY <2>1, <4>5 DEF c
    <3>6. QED
      BY <3>4, <3>5
  <2>9. QED
    BY <2>1, <2>6, <2>7, <2>8 DEF b
<1> HIDE DEF S
<1>4. \A n \in 0 .. N : n \in S
  BY <1>2, <1>3, UpTo
<1>5. N \in S
  BY <1>4
<1>6. QED
  BY <1>1, <1>5 DEF S, NewestRun

\* The entity e is as this update put it, or has never had one.
NewestIs(st, b, e) ==
  /\ b = None => st.position = None
  /\ b # None => b.id = e /\ st.position = b.x /\ st.last_t_ms = U64(b.tMs)

\* What the engine has of an entity is the newest update sent.
NewestInv == \A e \in Entities : NewestIs(engine.entities[e], newest[e], e)

\* The engine refuses exactly the updates that are older than the newest one sent.
LEMMA LateIsOutdated ==
  ASSUME TypeInv, NewestInv, NEW N \in Nat, NEW updates \in [1 .. N -> JsUpdates], NEW k \in 1 .. N
  PROVE  Late(engine, BatchOf(updates)[k]) <=> Outdated(newest, updates[k])
<1> DEFINE u == updates[k]
           v == BatchOf(updates)[k]
           best == newest[u.id]
           st == engine.entities[u.id]
<1>1. v.id = u.id /\ v.t_ms = U64(u.tMs) /\ u \in JsUpdates
  BY BatchOfType
<1>2. u.id \in Entities /\ U64(u.tMs) \in Nat
  BY <1>1, JsUpdateType, OlderIsNumber
<1>3. /\ best \in JsUpdates \union {None} /\ NewestIs(st, best, u.id)
      /\ Timed(st) /\ (st.last_t_ms # None => st.last_t_ms \in Nat)
  BY <1>2, TimesAssumption DEF TypeInv, NewestInv, EngineStates, EntityStates, WellFormed
<1> HIDE DEF u, v
<1>4. CASE best = None
  <2>1. st.last_t_ms = None
    BY <1>3, <1>4 DEF NewestIs, Timed
  <2>2. QED
    BY <1>1, <1>4, <2>1 DEF Late, Outdated, u, v
<1>5. CASE best # None
  <2>1. best \in JsUpdates /\ st.last_t_ms = U64(best.tMs)
    BY <1>3, <1>5 DEF NewestIs
  <2>2. U64(best.tMs) \in Nat /\ (Older(u.tMs, best.tMs) <=> U64(u.tMs) < U64(best.tMs))
    BY <1>1, <2>1, OlderIsNumber
  <2>3. st.last_t_ms # None /\ (st.last_t_ms > v.t_ms <=> U64(u.tMs) < U64(best.tMs))
    BY <1>1, <1>2, <2>1, <2>2, TimesAssumption
  <2>4. Late(engine, v) <=> Outdated(newest, u)
    BY <1>1, <1>5, <2>2, <2>3 DEF Late, Outdated
  <2>5. QED
    BY <2>4 DEF u, v
<1>6. QED
  BY <1>4, <1>5

\* The sort, the refusals and the order of the calls leave what the newest update says.
LEMMA NewestMeets ==
  ASSUME TypeInv, NewestInv, NEW updates, NEW N, Ingested(updates, N), NEW e \in Entities
  PROVE  NewestIs(engine'.entities[e], newest'[e], e)
<1> DEFINE batch == BatchOf(updates)
           st == engine'.entities[e]
           b == newest'[e]
<1>1. /\ N \in Nat /\ updates \in [1 .. N -> JsUpdates] /\ batch \in [1 .. N -> Updates]
      /\ engine' = ProcessBatch(engine, batch, <<>>).engine
      /\ newest' = FoldLeft(Newer, newest, updates)
  BY DEF Ingested, ResultOf
<1>2. \A k \in 1 .. N : /\ batch[k].id = updates[k].id /\ batch[k].x = updates[k].x
                        /\ batch[k].t_ms = U64(updates[k].tMs)
  BY <1>1, BatchOfType
<1> HIDE DEF batch
<1>3. Unmoved(engine, st, e, N, batch) \/ BatchPut(engine, st, e, N, batch)
  BY <1>1, Numbers, BatchSettles DEF TypeInv
<1>4. Kept(newest, b, e, N, updates) \/ Renewed(newest, b, e, N, updates)
  BY <1>1, NewestSettles DEF TypeInv, Bests
<1>5. \A k \in 1 .. N : Late(engine, batch[k]) <=> Outdated(newest, updates[k])
  BY <1>1, LateIsOutdated DEF batch
<1> HIDE DEF st, b
<1>6. CASE Unmoved(engine, st, e, N, batch) /\ Kept(newest, b, e, N, updates)
  BY <1>6 DEF Unmoved, Kept, NewestInv, st, b
<1>7. ASSUME Unmoved(engine, st, e, N, batch), Renewed(newest, b, e, N, updates)
      PROVE  FALSE
  BY <1>2, <1>5, <1>7 DEF Unmoved, Renewed
<1>8. ASSUME BatchPut(engine, st, e, N, batch), Kept(newest, b, e, N, updates)
      PROVE  FALSE
  BY <1>2, <1>5, <1>8 DEF BatchPut, PutBy, Kept
<1>9. CASE BatchPut(engine, st, e, N, batch) /\ Renewed(newest, b, e, N, updates)
  <2>1. PICK i \in 1 .. N : PutBy(engine, st, e, batch[i]) /\ LastOf(batch, N, i)
    BY <1>9 DEF BatchPut
  <2>2. PICK k \in 1 .. N :
          /\ b = updates[k] /\ updates[k].id = e
          /\ \A j \in 1 .. N : j # k /\ updates[j].id = e => SentBefore(updates, j, k)
    BY <1>9 DEF Renewed
  <2>3. batch[i].id = e /\ batch[k].id = e /\ batch[i].t_ms \in Nat /\ batch[k].t_ms \in Nat
    <3>1. batch[i].t_ms \in Nat /\ batch[k].t_ms \in Nat
      BY <1>1, Numbers, UpdateType
    <3>2. QED
      BY <1>2, <2>1, <2>2, <3>1 DEF PutBy
  <2>4. i = k
    <3>1. SUFFICES ASSUME i # k PROVE FALSE
      OBVIOUS
    <3>2. Precedes(batch, k, i) /\ batch[k].id = batch[i].id
      BY <2>1, <2>3, <3>1 DEF LastOf
    <3>3. SentBefore(updates, i, k)
      BY <1>2, <2>2, <2>3, <3>1
    <3>4. batch[i].t_ms < batch[k].t_ms \/ (batch[i].t_ms = batch[k].t_ms /\ i < k)
      BY <1>2, <3>3 DEF SentBefore
    <3>5. e \in Int
      BY Numbers DEF NumberedIds
    <3>6. batch[k].t_ms < batch[i].t_ms \/ (batch[k].t_ms = batch[i].t_ms /\ k < i)
      BY <2>3, <3>2, <3>5 DEF Precedes
    <3>7. QED
      BY <2>3, <3>4, <3>6
  <2>5. b # None
    BY <1>1, <2>2, BindingAssumption
  <2>6. b.id = e /\ st.position = b.x /\ st.last_t_ms = U64(b.tMs)
    BY <1>2, <2>1, <2>2, <2>4 DEF PutBy
  <2>7. NewestIs(st, b, e)
    BY <2>5, <2>6 DEF NewestIs
  <2>8. QED
    BY <2>7 DEF st, b
<1>10. QED
  BY <1>3, <1>4, <1>6, <1>7, <1>8, <1>9

\* Nothing was sent at first.
LEMMA NewestInvInit == Init => NewestInv
BY DEF Init, NewestInv, NewestIs, NewEngine, NewEntity

\* Steps other than a call of ingest.
Quiet == UNCHANGED newest /\ engine'.entities = engine.entities

\* Only ingest touches entities or what was sent.
LEMMA QuietSteps ==
  ASSUME TypeInv, Next
  PROVE  Quiet \/ \E updates, N : Ingested(updates, N)
<1>1. ASSUME NEW pushed, NEW g, NEW options, RegisteredAs(pushed, g, options)
      PROVE  Quiet
  BY <1>1, RegistrationOutcome DEF Quiet
<1>2. ASSUME NEW config \in RuleConfigs, DefineRule(config)
      PROVE  Quiet
  <2>1. PICK rule \in AnyRules : engine' = AddRule(engine, rule)
    BY <1>2, RuleIsTyped
  <2>2. QED
    BY <1>2, <2>1, AddRuleOutcome DEF TypeInv, DefineRule, Quiet
<1>3. ASSUME NEW config \in SequenceConfigs, DefineSequence(config)
      PROVE  Quiet
  <2>1. PICK rule \in AnySequences : engine' = AddSequence(engine, rule)
    BY <1>3, SequenceIsTyped
  <2>2. QED
    BY <1>3, <2>1, AddSequenceOutcome DEF TypeInv, DefineSequence, Quiet
<1>4. QED
  BY <1>1, <1>2, <1>3, NextIsStep DEF Step

\* Every step keeps the state the newest one sent.
LEMMA NewestInvNext == TypeInv /\ NewestInv /\ [Next]_vars => NewestInv'
<1> SUFFICES ASSUME TypeInv, NewestInv, [Next]_vars PROVE NewestInv'
  OBVIOUS
<1>1. CASE UNCHANGED vars
  BY <1>1 DEF vars, NewestInv
<1>2. CASE Quiet
  BY <1>2 DEF Quiet, NewestInv
<1>3. ASSUME NEW updates, NEW N, Ingested(updates, N)
      PROVE  NewestInv'
  BY <1>3, NewestMeets DEF NewestInv
<1>4. QED
  BY <1>1, <1>2, <1>3, QuietSteps

\* getEntityState answers the newest update sent, with the time it was sent with: an
\* update that is refused is older than what there is, and of a batch the sort applies
\* the newest last.
THEOREM BindingStateIsNewest == Spec => []StateIsNewestSent
<1>1. TypeInv /\ NewestInv => StateIsNewestSent
  <2> SUFFICES ASSUME TypeInv, NewestInv, NEW e \in Entities PROVE GetEntityState(e) = newest[e]
    BY DEF StateIsNewestSent
  <2> DEFINE b == newest[e]
             st == engine.entities[e]
  <2>1. b \in JsUpdates \union {None} /\ NewestIs(st, b, e)
    BY DEF TypeInv, NewestInv
  <2>2. GetEntityState(e) = IF st.position = None THEN None ELSE [id |-> e, x |-> st.position, tMs |-> I64(st.last_t_ms)]
    BY DEF GetEntityState
  <2> HIDE DEF b, st
  <2>3. CASE b = None
    BY <2>1, <2>2, <2>3 DEF NewestIs, b
  <2>4. CASE b # None
    <3>1. /\ b \in [id : Entities, x : Points, tMs : -Half .. Half - 1]
          /\ b.id = e /\ st.position = b.x /\ st.last_t_ms = U64(b.tMs)
      BY <2>1, <2>4, BindingAssumption DEF NewestIs
    <3>2. b.x \in Points /\ b.tMs \in -Half .. Half - 1 /\ b = [id |-> b.id, x |-> b.x, tMs |-> b.tMs]
      BY <3>1
    <3>3. b.x # None /\ I64(U64(b.tMs)) = b.tMs
      BY <3>2, EngineAssumption, U64Is
    <3>4. QED
      BY <2>2, <3>1, <3>2, <3>3 DEF b
  <2>5. QED
    BY <2>3, <2>4
<1>2. QED
  BY <1>1, TypeInvInit, TypeInvNext, NewestInvInit, NewestInvNext, PTL DEF Spec

-----------------------------------------------------------------------------
\* What links membership to places: a geometry the index has not got has no threshold,
\* an entity that was updated is somewhere, and without a threshold it is in a geometry
\* if it was updated since that was registered and lies in its area.
MembershipInv ==
  \A e \in Entities, g \in Geometries :
    /\ engine.area[g] = None => engine.dwell[g] = NoDwell
    /\ <<e, g>> \in fresh => engine.entities[e].position # None
    /\ engine.dwell[g] = NoDwell =>
         (engine.entities[e].presence[g].inside
            <=> <<e, g>> \in fresh /\ Covers(engine, g, engine.entities[e].position))

\* At first no entity is anywhere.
LEMMA MembershipInvInit == Init => MembershipInv
BY DEF Init, MembershipInv, NewEngine, NewEntity, Outside, Covers

\* A registration that is accepted finds a geometry without area and threshold, with
\* nobody in it.
LEMMA MembershipAfterRegistration ==
  ASSUME TypeInv, MembershipInv, NEW pushed, NEW g, NEW options, RegisteredAs(pushed, g, options)
  PROVE  MembershipInv'
<1>1. /\ Sound(pushed) /\ g \in Geometries
      /\ fresh' = {p \in fresh : p[2] # g \/ pushed = index}
      /\ engine'.entities = engine.entities
      /\ engine'.area = AreasOf(pushed)
      /\ pushed = index => engine' = engine
      /\ pushed # index => AddsOnly(index, pushed, g)
      /\ pushed # index => engine'.dwell = [engine.dwell EXCEPT ![g] = DwellFrom(options)]
  BY RegistrationOutcome
<1>2. /\ engine.dwell \in [Geometries -> Dwells] /\ engine.entities \in [Entities -> EntityStates]
      /\ engine.area = AreasOf(index)
  BY DEF TypeInv, EngineStates
<1>3. CASE pushed = index
  BY <1>1, <1>3 DEF MembershipInv
<1>4. CASE pushed # index
  <2>1. /\ engine.area[g] = None /\ engine'.area[g] # None
        /\ \A h \in Geometries : h # g => engine'.area[h] = engine.area[h] /\ engine'.dwell[h] = engine.dwell[h]
    BY <1>1, <1>2, <1>4 DEF AddsOnly
  <2>2. \A e \in Entities, h \in Geometries : <<e, h>> \in fresh' <=> <<e, h>> \in fresh /\ h # g
    BY <1>1, <1>4
  <2>3. ASSUME NEW e \in Entities
        PROVE  engine.entities[e].presence[g].inside = FALSE
    <3>1. engine.entities[e].presence[g].inside \in BOOLEAN
      BY <1>1, <1>2 DEF EntityStates, Presences
    <3>2. ~Covers(engine, g, engine.entities[e].position)
      BY <2>1 DEF Covers
    <3>3. QED
      BY <1>1, <2>1, <3>1, <3>2 DEF MembershipInv
  <2>4. ASSUME NEW e \in Entities, NEW h \in Geometries, h # g
        PROVE  Covers(engine', h, engine.entities[e].position) = Covers(engine, h, engine.entities[e].position)
    BY <2>1, <2>4 DEF Covers
  <2>5. ASSUME NEW e \in Entities, NEW h \in Geometries
        PROVE  /\ engine'.area[h] = None => engine'.dwell[h] = NoDwell
               /\ <<e, h>> \in fresh' => engine'.entities[e].position # None
               /\ engine'.dwell[h] = NoDwell =>
                    (engine'.entities[e].presence[h].inside
                       <=> <<e, h>> \in fresh' /\ Covers(engine', h, engine'.entities[e].position))
    <3>1. CASE h = g
      BY <1>1, <2>1, <2>2, <2>3, <3>1
    <3>2. CASE h # g
      BY <1>1, <2>1, <2>2, <2>4, <3>2 DEF MembershipInv
    <3>3. QED
      BY <3>1, <3>2
  <2>6. QED
    BY <2>5 DEF MembershipInv
<1>5. QED
  BY <1>3, <1>4

\* Which entities a call has moved.
LEMMA FreshAfter ==
  ASSUME TypeInv, NEW updates, NEW N, Ingested(updates, N), NEW e \in Entities, NEW g \in Geometries
  PROVE  <<e, g>> \in fresh' <=>
           \/ <<e, g>> \in fresh
           \/ /\ engine.area[g] # None
              /\ \E k \in 1 .. N : BatchOf(updates)[k].id = e /\ ~Late(engine, BatchOf(updates)[k])
<1> DEFINE batch == BatchOf(updates)
           errors == ResultOf(updates).errors
           accepted == AcceptedOf(batch, errors)
<1>1. /\ N \in Nat /\ batch \in [1 .. N -> Updates]
      /\ errors = ProcessBatch(engine, batch, <<>>).errors
      /\ fresh' = fresh \union {p \in accepted \X Geometries : engine.area[p[2]] # None}
  BY DEF Ingested, ResultOf
<1> HIDE DEF batch, errors
<1>2. \A k \in 1 .. N : batch[k] \in RefusedBy(errors) <=> Late(engine, batch[k])
  BY <1>1, RefusedIsLate DEF TypeInv
<1>3. e \in accepted <=> \E k \in 1 .. N : batch[k].id = e /\ ~Late(engine, batch[k])
  BY <1>1, <1>2 DEF AcceptedOf
<1> HIDE DEF accepted
<1>4. QED
  BY <1>1, <1>3 DEF batch

\* A call of ingest puts an entity in the geometries of its latest update, or leaves it
\* where it is because it refuses all of them.
LEMMA MembershipAfterIngest ==
  ASSUME TypeInv, MembershipInv, NEW updates, NEW N, Ingested(updates, N)
  PROVE  MembershipInv'
<1> DEFINE batch == BatchOf(updates)
<1>1. /\ N \in Nat /\ batch \in [1 .. N -> Updates]
      /\ engine' = ProcessBatch(engine, batch, <<>>).engine
      /\ engine \in EngineStates(AnyRules, AnySequences) /\ WellFormed(engine.entities)
  BY DEF Ingested, ResultOf, TypeInv
<1>2. SameSetup(engine, engine')
  <2>1. PICK order, sorted, run : Behind(updates, N, order, sorted, run)
    BY BehindIngest
  <2>2. QED
    BY <2>1 DEF Behind
<1>3. ASSUME NEW e \in Entities, NEW g \in Geometries
      PROVE  /\ engine'.area[g] = None => engine'.dwell[g] = NoDwell
             /\ <<e, g>> \in fresh' => engine'.entities[e].position # None
             /\ engine'.dwell[g] = NoDwell =>
                  (engine'.entities[e].presence[g].inside
                     <=> <<e, g>> \in fresh' /\ Covers(engine', g, engine'.entities[e].position))
  <2> DEFINE st == engine'.entities[e]
             moved == \E k \in 1 .. N : batch[k].id = e /\ ~Late(engine, batch[k])
  <2>1. /\ engine'.area = engine.area /\ engine'.dwell = engine.dwell
        /\ \A x : Covers(engine', g, x) = Covers(engine, g, x)
    BY <1>2 DEF SameSetup, Covers
  <2>2. <<e, g>> \in fresh' <=> <<e, g>> \in fresh \/ (engine.area[g] # None /\ moved)
    BY FreshAfter
  <2>3. Unmoved(engine, st, e, N, batch) \/ BatchPut(engine, st, e, N, batch)
    BY <1>1, Numbers, BatchSettles
  <2>4. /\ engine.area[g] = None => engine.dwell[g] = NoDwell
        /\ <<e, g>> \in fresh => engine.entities[e].position # None
        /\ engine.dwell[g] = NoDwell =>
             (engine.entities[e].presence[g].inside
                <=> <<e, g>> \in fresh /\ Covers(engine, g, engine.entities[e].position))
    BY DEF MembershipInv
  <2> HIDE DEF batch, st
  <2>5. CASE Unmoved(engine, st, e, N, batch)
    <3>1. ~moved /\ st = engine.entities[e]
      BY <2>5 DEF Unmoved
    <3>2. QED
      BY <2>1, <2>2, <2>4, <3>1 DEF st
  <2>6. CASE BatchPut(engine, st, e, N, batch)
    <3>1. PICK i \in 1 .. N : PutBy(engine, st, e, batch[i])
      BY <2>6 DEF BatchPut
    <3>2. batch[i].id = e /\ ~Late(engine, batch[i]) /\ st.position = batch[i].x
      BY <3>1 DEF PutBy
    <3>3. moved
      BY <3>2
    <3>4. st.position # None
      <4>1. batch[i].x \in Points
        BY <1>1 DEF Updates
      <4>2. QED
        BY <3>2, <4>1, EngineAssumption
    <3>5. engine.dwell[g] = NoDwell => st.presence[g].inside = Covers(engine, g, st.position)
      <4>1. engine.dwell[g] = NoDwell => st.presence[g] = PresenceAt(engine, g, st.position)
        BY <3>1, <3>2 DEF PutBy
      <4>2. PresenceAt(engine, g, st.position).inside = Covers(engine, g, st.position)
        BY DEF PresenceAt
      <4>3. QED
        BY <4>1, <4>2
    <3>6. Covers(engine, g, st.position) \in BOOLEAN /\ (engine.area[g] = None => ~Covers(engine, g, st.position))
      BY CoversType DEF Covers
    <3> HIDE DEF moved
    <3>7. QED
      BY <2>1, <2>2, <2>4, <3>3, <3>4, <3>5, <3>6 DEF st
  <2>7. QED
    BY <2>3, <2>5, <2>6
<1>4. QED
  BY <1>3 DEF MembershipInv

\* Every step keeps membership the geometry of the last position.
LEMMA MembershipInvNext == TypeInv /\ MembershipInv /\ [Next]_vars => MembershipInv'
<1> SUFFICES ASSUME TypeInv, MembershipInv, [Next]_vars PROVE MembershipInv'
  OBVIOUS
<1>1. CASE UNCHANGED vars
  BY <1>1 DEF vars, MembershipInv, Covers
<1>2. ASSUME engine'.area = engine.area, engine'.dwell = engine.dwell,
             engine'.entities = engine.entities, fresh' = fresh
      PROVE  MembershipInv'
  <2>1. \A g, position : Covers(engine', g, position) <=> Covers(engine, g, position)
    BY <1>2 DEF Covers
  <2>2. QED
    BY <1>2, <2>1 DEF MembershipInv
<1>3. ASSUME NEW config \in RuleConfigs, DefineRule(config)
      PROVE  MembershipInv'
  <2>1. PICK rule \in AnyRules : engine' = AddRule(engine, rule)
    BY <1>3, RuleIsTyped
  <2>2. QED
    BY <1>2, <1>3, <2>1, AddRuleOutcome DEF TypeInv, DefineRule
<1>4. ASSUME NEW config \in SequenceConfigs, DefineSequence(config)
      PROVE  MembershipInv'
  <2>1. PICK rule \in AnySequences : engine' = AddSequence(engine, rule)
    BY <1>4, SequenceIsTyped
  <2>2. QED
    BY <1>2, <1>4, <2>1, AddSequenceOutcome DEF TypeInv, DefineSequence
<1>5. QED
  BY <1>1, <1>3, <1>4, NextIsStep, MembershipAfterRegistration, MembershipAfterIngest DEF Step

\* Without a threshold, the entities in a geometry are the ones that lie in the shape
\* that was registered, at the place getEntityState answers, if they were updated since:
\* no call of ingest, in any order of its updates, and no refused registration leaves a
\* membership that has gone stale.
THEOREM BindingMembership == Spec => []MembershipIsGeometry
<1>1. TypeInv /\ MembershipInv => MembershipIsGeometry
  <2> SUFFICES ASSUME TypeInv, MembershipInv PROVE MembershipIsGeometry
    OBVIOUS
  <2>1. ASSUME NEW e \in Entities, NEW g \in Geometries, engine.dwell[g] = NoDwell
        PROVE  e \in EntitiesIn(g) <=> <<e, g>> \in fresh /\ LiesIn(index, g, GetEntityState(e).x)
    <3> DEFINE st == engine.entities[e]
               x == st.position
    <3>1. e \in EntitiesIn(g) <=> st.presence[g].inside
      BY DEF EntitiesIn
    <3>2. /\ st.presence[g].inside <=> <<e, g>> \in fresh /\ Covers(engine, g, x)
          /\ <<e, g>> \in fresh => x # None
      BY <2>1 DEF MembershipInv
    <3>3. x \in Points \union {None}
      BY DEF TypeInv, EngineStates, EntityStates
    <3>4. x # None => GetEntityState(e).x = x
      BY DEF GetEntityState
    <3>5. /\ AreasOf(index)[g] = IF Known(index, g) THEN {y \in Points : LiesIn(index, g, y)} ELSE None
          /\ AreasOf(index)[g] # None <=> Known(index, g)
      BY AreaIsShape DEF TypeInv
    <3>6. ~Known(index, g) => ~LiesIn(index, g, x)
      BY DEF Known, LiesIn, Spatial!HasId
    <3>7. engine.area[g] = AreasOf(index)[g]
      BY DEF TypeInv
    <3> HIDE DEF x
    <3>8. x # None => (Covers(engine, g, x) <=> LiesIn(index, g, x))
      BY <3>3, <3>5, <3>6, <3>7 DEF Covers
    <3>9. QED
      BY <3>1, <3>2, <3>4, <3>8
  <2>2. QED
    BY <2>1 DEF MembershipIsGeometry, LiesIn
<1>2. QED
  BY <1>1, TypeInvInit, TypeInvNext, MembershipInvInit, MembershipInvNext, PTL DEF Spec

-----------------------------------------------------------------------------
\* A rule of the engine is the one that this configuration asks for.
RuleFor(rule, config) ==
  /\ rule.emit = config.emit
  /\ rule.triggers = {[event_kind |-> KindFrom(t.event_kind), target_id |-> t.target_id] : t \in config.triggers}
  /\ rule.filters = {FilterFrom(f) : f \in config.filters}

\* The engine has a rule for every accepted configuration, and no others.
ConfigInv ==
  /\ \A i \in DOMAIN engine.configurable_rules : \E c \in configs : RuleFor(engine.configurable_rules[i], c)
  /\ \A c \in configs : \E i \in DOMAIN engine.configurable_rules : RuleFor(engine.configurable_rules[i], c)

\* There are no rules and no configurations at first.
LEMMA ConfigInvInit == Init => ConfigInv
<1>1. DOMAIN <<>> = {}
  OBVIOUS
<1>2. QED
  BY <1>1 DEF Init, ConfigInv, NewEngine

\* Every step keeps the rules those of the configurations.
LEMMA ConfigInvNext == TypeInv /\ ConfigInv /\ [Next]_vars => ConfigInv'
<1> SUFFICES ASSUME TypeInv, ConfigInv, [Next]_vars PROVE ConfigInv'
  OBVIOUS
<1>1. ASSUME engine'.configurable_rules = engine.configurable_rules, configs' = configs
      PROVE  ConfigInv'
  BY <1>1 DEF ConfigInv
<1>2. CASE UNCHANGED vars
  BY <1>1, <1>2 DEF vars
<1>3. ASSUME NEW pushed, NEW g, NEW options, RegisteredAs(pushed, g, options)
      PROVE  ConfigInv'
  BY <1>1, <1>3, RegistrationOutcome
<1>4. ASSUME NEW config \in RuleConfigs, DefineRule(config)
      PROVE  ConfigInv'
  <2>1. PICK rule \in AnyRules : engine' = AddRule(engine, rule) /\ RuleFor(rule, config)
    BY <1>4, RuleIsTyped DEF RuleFor
  <2> DEFINE rules == engine.configurable_rules
             n == Len(rules) + 1
  <2>2. engine'.configurable_rules = Append(rules, rule)
    BY <2>1, AddRuleOutcome DEF TypeInv
  <2>3. configs' = configs \union {config}
    BY <1>4 DEF DefineRule
  <2>4. rules \in Seq(AnyRules)
    BY DEF TypeInv, EngineStates
  <2>5. /\ DOMAIN Append(rules, rule) = (DOMAIN rules) \union {n}
        /\ \A k \in DOMAIN rules : Append(rules, rule)[k] = rules[k]
        /\ Append(rules, rule)[n] = rule
    BY <2>4, Appended
  <2> DEFINE new == Append(rules, rule)
  <2> HIDE DEF n, new
  <2>6. /\ DOMAIN new = (DOMAIN rules) \union {n} /\ new[n] = rule
        /\ \A k \in DOMAIN rules : new[k] = rules[k]
        /\ engine'.configurable_rules = new
    BY <2>2, <2>5 DEF new
  <2>7. /\ \A i \in DOMAIN rules : \E c \in configs : RuleFor(rules[i], c)
        /\ \A c \in configs : \E i \in DOMAIN rules : RuleFor(rules[i], c)
    BY DEF ConfigInv
  <2> HIDE DEF rules
  <2>8. \A i \in DOMAIN new : \E c \in configs' : RuleFor(new[i], c)
    BY <2>1, <2>3, <2>6, <2>7
  <2>9. \A c \in configs' : \E i \in DOMAIN new : RuleFor(new[i], c)
    BY <2>1, <2>3, <2>6, <2>7
  <2>10. QED
    BY <2>6, <2>8, <2>9 DEF ConfigInv
<1>5. ASSUME NEW config \in SequenceConfigs, DefineSequence(config)
      PROVE  ConfigInv'
  <2>1. PICK rule \in AnySequences : engine' = AddSequence(engine, rule)
    BY <1>5, SequenceIsTyped
  <2>2. QED
    BY <1>1, <1>5, <2>1, AddSequenceOutcome DEF TypeInv, DefineSequence
<1>6. ASSUME NEW updates, NEW N, Ingested(updates, N)
      PROVE  ConfigInv'
  <2>1. PICK order, sorted, run : Behind(updates, N, order, sorted, run)
    BY <1>6, BehindIngest
  <2>2. configs' = configs /\ engine'.configurable_rules = engine.configurable_rules
    BY <1>6, <2>1 DEF Ingested, Behind, SameSetup
  <2>3. QED
    BY <1>1, <2>2
<1>7. QED
  BY <1>2, <1>3, <1>4, <1>5, <1>6, NextIsStep DEF Step

\* An event of a rule, and one that triggers a rule, in what a call returns.
Triggers(rule, ev) ==
  \E trigger \in rule.triggers : ev.kind = trigger.event_kind /\ ev.name = trigger.target_id

\* Events of rules come with an event that triggers them.
FiresOnlyTriggered(rules, events) ==
  \A ev \in events : ev.kind = "custom" =>
    \E i \in DOMAIN rules : ev.name = rules[i].emit /\ \E sp \in events : Triggers(rules[i], sp)

\* Rules without filters fire when they are triggered.
FiresIfTriggered(rules, events) ==
  \A i \in DOMAIN rules, sp \in events :
    rules[i].filters = {} /\ sp.kind \in SpatialKinds /\ Triggers(rules[i], sp) =>
      \E ev \in events : ev.kind = "custom" /\ ev.name = rules[i].emit

\* A call of process_event fires the rules it should.
LEMMA CallFires ==
  ASSUME NEW eng, NEW u, NEW fault, NEW r, Outcome(eng, u, fault, r)
  PROVE  /\ FiresOnlyTriggered(eng.configurable_rules, r.events)
         /\ FiresIfTriggered(eng.configurable_rules, r.events)
<1> DEFINE spatial == Crossings(eng, u)
           motion == After(eng, u).motion
           rules == eng.configurable_rules
           custom == CustomEvents(eng, spatial, motion, u)
           sequence == SequenceEvents(eng, spatial, u)
           event(i) == [kind |-> "custom", id |-> u.id, name |-> rules[i].emit,
                        t_ms |-> u.t_ms, motion |-> motion, rule |-> i]
<1>1. CASE r.error # None
  BY <1>1 DEF Outcome, FiresOnlyTriggered, FiresIfTriggered
<1>2. CASE r.error = None
  <2>1. r.events = spatial \union custom \union sequence
    BY <1>2 DEF Outcome
  <2>2. Reports(r.events, eng.entities[u.id], After(eng, u), u)
    BY <1>2, ProcessEventReports
  <2>3. /\ spatial \subseteq r.events
        /\ \A ev \in r.events : ev.kind \in SpatialKinds => ev \in spatial
    BY <2>2 DEF Reports, Crossings
  <2>4. \A ev \in spatial : ev.kind \in SpatialKinds
    BY DEF Crossings, SpatialEvents, EventKind, SpatialKinds
  <2>5. \A ev \in sequence : ev.kind = "sequence_complete"
    BY DEF SequenceEvents
  <2>6. custom = {event(i) : i \in {j \in DOMAIN rules : Fires(rules[j], spatial, motion)}}
    BY DEF CustomEvents
  <2>7. \A i : event(i).kind = "custom" /\ event(i).name = rules[i].emit
    OBVIOUS
  <2> HIDE DEF custom, sequence, event, spatial, motion, rules
  <2>8. ASSUME NEW ev \in r.events, ev.kind = "custom"
        PROVE  \E i \in DOMAIN rules : ev.name = rules[i].emit /\ \E sp \in r.events : Triggers(rules[i], sp)
    <3>1. ev \in custom
      BY <2>1, <2>4, <2>5, <2>8 DEF SpatialKinds
    <3>2. PICK i \in DOMAIN rules : Fires(rules[i], spatial, motion) /\ ev = event(i)
      BY <2>6, <3>1
    <3>3. \E sp \in r.events : Triggers(rules[i], sp)
      BY <2>3, <3>2 DEF Fires, Triggers
    <3>4. QED
      BY <2>7, <3>2, <3>3
  <2>9. ASSUME NEW i \in DOMAIN rules, NEW sp \in r.events,
               rules[i].filters = {}, sp.kind \in SpatialKinds, Triggers(rules[i], sp)
        PROVE  \E ev \in r.events : ev.kind = "custom" /\ ev.name = rules[i].emit
    <3>1. sp \in spatial
      BY <2>3, <2>9
    <3>2. Fires(rules[i], spatial, motion)
      BY <2>9, <3>1 DEF Fires, Triggers
    <3>3. event(i) \in custom
      BY <2>6, <3>2
    <3>4. QED
      BY <2>1, <2>7, <3>3
  <2>10. QED
    BY <2>8, <2>9 DEF FiresOnlyTriggered, FiresIfTriggered, rules
<1>3. QED
  BY <1>1, <1>2

\* The events a batch returns are those of its calls.
GivenBy(run, updates, N, d) ==
  \E m \in 1 .. N : \E ev \in RoundResult(run, updates, <<>>, m).events : EventDto(ev) = d

\* The event d is among these.
Given(events, d) == \E n \in DOMAIN events : events[n] = d

\* What a call of ingest returns is what its rounds returned, converted.
LEMMA OutputIs ==
  ASSUME TypeInv, NEW updates, NEW N, Ingested(updates, N),
         NEW order, NEW sorted, NEW run, Behind(updates, N, order, sorted, run), NEW d
  PROVE  Given(out'.events, d) <=> GivenBy(run, sorted, N, d)
<1> DEFINE calls == run[N].calls
           events == SortEvents(calls)
           E == Emitted(calls)
<1>1. /\ N \in Nat /\ sorted \in [1 .. N -> Updates] /\ IsRun(run, N, engine, sorted, <<>>)
      /\ ResultOf(updates).events = events
  BY DEF Behind, BehindBatch, ResultOf, Ingested
<1>2. /\ AreCalls(calls, N, sorted)
      /\ \A n \in 1 .. N : calls[n] = RoundResult(run, sorted, <<>>, n).events
  BY <1>1, Numbers, RunCalls DEF TypeInv
<1>3. PICK places : IsOutput(places, calls, events)
  BY <1>1, <1>2, Numbers, SortEventsIsSort
<1>4. out'.events = [k \in DOMAIN events |-> EventDto(events[k])]
  BY <1>1 DEF Ingested
<1> HIDE DEF calls, events
<1>5. /\ \A n \in DOMAIN events : places[n] \in E /\ events[n] = places[n].event
      /\ \A a \in E : \E n \in DOMAIN events : places[n] = a
  BY <1>3 DEF IsOutput, InOrder
<1>6. Given(out'.events, d) <=> \E a \in E : EventDto(a.event) = d
  <2> HIDE DEF E
  <2>1. QED
    BY <1>4, <1>5 DEF Given
<1>7. (\E a \in E : EventDto(a.event) = d) <=> GivenBy(run, sorted, N, d)
  <2>1. /\ \A a \in E : a.call \in 1 .. N /\ a.event \in calls[a.call]
        /\ \A n \in 1 .. N : \A ev \in calls[n] : [call |-> n, event |-> ev] \in E
    BY <1>1, <1>2, EmittedIs
  <2> HIDE DEF E
  <2>2. ASSUME NEW a \in E, EventDto(a.event) = d
        PROVE  GivenBy(run, sorted, N, d)
    BY <1>2, <2>1, <2>2 DEF GivenBy
  <2>3. ASSUME NEW m \in 1 .. N, NEW ev \in RoundResult(run, sorted, <<>>, m).events, EventDto(ev) = d
        PROVE  \E a \in E : EventDto(a.event) = d
    <3>1. [call |-> m, event |-> ev] \in E
      BY <1>2, <2>1, <2>3
    <3>2. [call |-> m, event |-> ev].event = ev
      OBVIOUS
    <3>3. QED
      BY <2>3, <3>1, <3>2
  <2>4. QED
    BY <2>2, <2>3 DEF GivenBy
<1>8. QED
  BY <1>6, <1>7

\* One round of a call: the rules are those the engine had before the call, and all events
\* are about one entity at one time.
LEMMA RoundFires ==
  ASSUME TypeInv, NEW updates, NEW N, Ingested(updates, N),
         NEW order, NEW sorted, NEW run, Behind(updates, N, order, sorted, run),
         NEW m \in 1 .. N, NEW events, events = RoundResult(run, sorted, <<>>, m).events
  PROVE  /\ FiresOnlyTriggered(engine.configurable_rules, events)
         /\ FiresIfTriggered(engine.configurable_rules, events)
         /\ \A ev \in events : ev.kind \in Kinds
         /\ \A a, b \in events : a.id = b.id /\ a.t_ms = b.t_ms
<1> DEFINE r == RoundResult(run, sorted, <<>>, m)
           eng == run[m - 1].engine
           fault == FaultOf(<<>>, m)
<1>1. /\ N \in Nat /\ sorted \in [1 .. N -> Updates] /\ IsRun(run, N, engine, sorted, <<>>)
      /\ SameSetup(engine, eng)
  <2>1. N \in Nat /\ m - 1 \in 0 .. N
    BY DEF Ingested
  <2>2. QED
    BY <2>1 DEF Behind, BehindBatch
<1>2. /\ Outcome(eng, sorted[m], fault, r)
      /\ r.events \in CallEvents(sorted[m])
  BY <1>1, Numbers, RunStep DEF TypeInv
<1>3. /\ FiresOnlyTriggered(eng.configurable_rules, r.events)
      /\ FiresIfTriggered(eng.configurable_rules, r.events)
  BY <1>2, CallFires
<1>4. eng.configurable_rules = engine.configurable_rules
  BY <1>1 DEF SameSetup
<1> HIDE DEF r, eng
<1>5. \A ev \in r.events : ev \in EventsFor(sorted[m])
  BY <1>2 DEF CallEvents
<1>6. \A ev \in r.events : ev.kind \in Kinds /\ ev.id = sorted[m].id /\ ev.t_ms = sorted[m].t_ms
  BY <1>5 DEF EventsFor
<1>7. events = r.events
  BY DEF r
<1>8. QED
  BY <1>3, <1>4, <1>6, <1>7

\* What an event of the engine is to JavaScript, and the other way round.
Dto(kind, e, name, t) == [kind |-> kind, id |-> e, subject |-> name, t_ms |-> t]

\* The conversion mixes up no two events.
LEMMA DtoIs ==
  ASSUME NEW ev, ev.kind \in Kinds, NEW kind, NEW e, NEW name, NEW t
  PROVE  /\ EventDto(ev) = Dto("rule", e, name, t)
              <=> ev.kind = "custom" /\ ev.id = e /\ ev.name = name /\ ev.t_ms = t
         /\ kind \in SpatialKinds =>
              (EventDto(ev) = Dto(kind, e, name, t)
                 <=> ev.kind = kind /\ ev.id = e /\ ev.name = name /\ ev.t_ms = t)
BY DEF EventDto, Dto, Kinds, SpatialKinds

\* A trigger of a configuration is one of the rule made of it.
LEMMA SameTriggers ==
  ASSUME NEW rule \in AnyRules, NEW config, RuleFor(rule, config), NEW kind, NEW name
  PROVE  /\ (\E t \in rule.triggers : t.event_kind = kind /\ t.target_id = name)
              <=> (\E t \in config.triggers : t.event_kind = kind /\ t.target_id = name)
         /\ (\E t \in config.triggers : t.event_kind = kind /\ t.target_id = name) => kind \in SpatialKinds
<1> DEFINE of(t) == [event_kind |-> KindFrom(t.event_kind), target_id |-> t.target_id]
<1>1. \A t : of(t).event_kind = t.event_kind /\ of(t).target_id = t.target_id
  BY DEF KindFrom
<1>2. rule.triggers = {of(t) : t \in config.triggers}
  BY DEF RuleFor
<1>3. \A t \in rule.triggers : t.event_kind \in SpatialKinds
  BY DEF AnyRules
<1> HIDE DEF of
<1>4. QED
  BY <1>1, <1>2, <1>3

\* One direction: a rule event comes with one that triggers a rule with its name.
LEMMA RuleWasTriggered ==
  ASSUME TypeInv, ConfigInv, NEW updates, NEW N, Ingested(updates, N),
         NEW e, NEW t, NEW name, Given(out'.events, Dto("rule", e, name, t))
  PROVE  \E c \in configs : c.emit = name /\
           \E trigger \in c.triggers : Given(out'.events, Dto(trigger.event_kind, e, trigger.target_id, t))
<1> DEFINE rules == engine.configurable_rules
<1>1. PICK order, sorted, run : Behind(updates, N, order, sorted, run)
  BY BehindIngest
<1>2. \A d : Given(out'.events, d) <=> GivenBy(run, sorted, N, d)
  BY <1>1, OutputIs
<1>3. PICK m \in 1 .. N : \E ev \in RoundResult(run, sorted, <<>>, m).events : EventDto(ev) = Dto("rule", e, name, t)
  BY <1>2 DEF GivenBy
<1>4. PICK events : events = RoundResult(run, sorted, <<>>, m).events
  OBVIOUS
<1>5. /\ FiresOnlyTriggered(rules, events)
      /\ \A ev \in events : ev.kind \in Kinds
      /\ \A a, b \in events : a.id = b.id /\ a.t_ms = b.t_ms
  BY <1>1, <1>4, RoundFires
<1>6. PICK ev \in events : EventDto(ev) = Dto("rule", e, name, t)
  BY <1>3, <1>4
<1>7. ev.kind = "custom" /\ ev.id = e /\ ev.name = name /\ ev.t_ms = t
  BY <1>5, <1>6, DtoIs
<1>8. PICK i \in DOMAIN rules : ev.name = rules[i].emit /\ \E sp \in events : Triggers(rules[i], sp)
  BY <1>5, <1>7 DEF FiresOnlyTriggered
<1>9. PICK c \in configs : RuleFor(rules[i], c)
  BY <1>8 DEF ConfigInv
<1>10. rules[i] \in AnyRules
  BY <1>8 DEF TypeInv, EngineStates
<1>11. PICK sp \in events : Triggers(rules[i], sp)
  BY <1>8
<1>12. /\ \E trigger \in c.triggers : trigger.event_kind = sp.kind /\ trigger.target_id = sp.name
       /\ sp.kind \in SpatialKinds
  <2>1. \E trigger \in rules[i].triggers : trigger.event_kind = sp.kind /\ trigger.target_id = sp.name
    BY <1>11 DEF Triggers
  <2>2. /\ (\E tr \in rules[i].triggers : tr.event_kind = sp.kind /\ tr.target_id = sp.name)
             <=> (\E tr \in c.triggers : tr.event_kind = sp.kind /\ tr.target_id = sp.name)
        /\ (\E tr \in c.triggers : tr.event_kind = sp.kind /\ tr.target_id = sp.name) => sp.kind \in SpatialKinds
    BY <1>9, <1>10, SameTriggers
  <2>3. QED
    BY <2>1, <2>2
<1>13. PICK trigger \in c.triggers : trigger.event_kind = sp.kind /\ trigger.target_id = sp.name
  BY <1>12
<1>14. EventDto(sp) = Dto(trigger.event_kind, e, trigger.target_id, t)
  BY <1>5, <1>6, <1>7, <1>11, <1>12, <1>13, DtoIs
<1>15. GivenBy(run, sorted, N, Dto(trigger.event_kind, e, trigger.target_id, t))
  BY <1>4, <1>11, <1>14 DEF GivenBy
<1>16. c.emit = name
  BY <1>7, <1>8, <1>9 DEF RuleFor
<1>17. QED
  BY <1>2, <1>9, <1>13, <1>15, <1>16

\* The other: a rule without filters is heard of when it is triggered.
LEMMA TriggeredRuleFires ==
  ASSUME TypeInv, ConfigInv, NEW updates, NEW N, Ingested(updates, N),
         NEW e, NEW t, NEW config \in configs, config.filters = {}, NEW trigger \in config.triggers,
         Given(out'.events, Dto(trigger.event_kind, e, trigger.target_id, t))
  PROVE  Given(out'.events, Dto("rule", e, config.emit, t))
<1> DEFINE rules == engine.configurable_rules
           d == Dto(trigger.event_kind, e, trigger.target_id, t)
<1>1. PICK order, sorted, run : Behind(updates, N, order, sorted, run)
  BY BehindIngest
<1>2. \A x : Given(out'.events, x) <=> GivenBy(run, sorted, N, x)
  BY <1>1, OutputIs
<1>3. PICK m \in 1 .. N : \E ev \in RoundResult(run, sorted, <<>>, m).events : EventDto(ev) = d
  BY <1>2 DEF GivenBy
<1>4. PICK events : events = RoundResult(run, sorted, <<>>, m).events
  OBVIOUS
<1>5. /\ FiresIfTriggered(rules, events)
      /\ \A ev \in events : ev.kind \in Kinds
      /\ \A a, b \in events : a.id = b.id /\ a.t_ms = b.t_ms
  BY <1>1, <1>4, RoundFires
<1>6. PICK sp \in events : EventDto(sp) = d
  BY <1>3, <1>4
<1>7. PICK i \in DOMAIN rules : RuleFor(rules[i], config)
  BY DEF ConfigInv
<1>8. rules[i] \in AnyRules
  BY <1>7 DEF TypeInv, EngineStates
<1>9. /\ \E tr \in rules[i].triggers : tr.event_kind = trigger.event_kind /\ tr.target_id = trigger.target_id
      /\ trigger.event_kind \in SpatialKinds
  <2>1. \E tr \in config.triggers : tr.event_kind = trigger.event_kind /\ tr.target_id = trigger.target_id
    OBVIOUS
  <2>2. QED
    BY <1>7, <1>8, <2>1, SameTriggers
<1>10. sp.kind = trigger.event_kind /\ sp.id = e /\ sp.name = trigger.target_id /\ sp.t_ms = t
  BY <1>5, <1>6, <1>9, DtoIs
<1>11. Triggers(rules[i], sp) /\ sp.kind \in SpatialKinds
  BY <1>9, <1>10 DEF Triggers
<1>12. rules[i].filters = {} /\ rules[i].emit = config.emit
  <2> DEFINE F == {FilterFrom(f) : f \in config.filters}
  <2>1. rules[i].filters = F /\ rules[i].emit = config.emit
    BY <1>7 DEF RuleFor
  <2>2. F = {}
    OBVIOUS
  <2>3. QED
    BY <2>1, <2>2
<1>13. PICK ev \in events : ev.kind = "custom" /\ ev.name = rules[i].emit
  BY <1>5, <1>11, <1>12 DEF FiresIfTriggered
<1>14. EventDto(ev) = Dto("rule", e, config.emit, t)
  BY <1>5, <1>6, <1>10, <1>12, <1>13, DtoIs
<1>15. GivenBy(run, sorted, N, Dto("rule", e, config.emit, t))
  BY <1>4, <1>13, <1>14 DEF GivenBy
<1>16. QED
  BY <1>2, <1>15

\* What JavaScript configured is what fires, for any number of rules, calls and updates:
\* kinds and filters reach the engine unchanged, the engine keeps the rules it was given,
\* in whatever order a batch puts the updates, and events come back as what they are.
THEOREM BindingRulesFire == Spec => RulesFireAsConfigured
<1> DEFINE Fired(e, t, name) == Given(out'.events, Dto("rule", e, name, t))
           Hit(c, e, t) == \E trigger \in c.triggers :
                             Given(out'.events, Dto(trigger.event_kind, e, trigger.target_id, t))
           A == sent' # sent =>
                  \A e \in Entities, t \in Times, config \in configs :
                    /\ Fired(e, t, config.emit) => \E c \in configs : c.emit = config.emit /\ Hit(c, e, t)
                    /\ config.filters = {} /\ Hit(config, e, t) => Fired(e, t, config.emit)
<1>1. TypeInv /\ ConfigInv /\ [Next]_vars => [A]_vars
  <2> SUFFICES ASSUME TypeInv, ConfigInv, Next PROVE A
    OBVIOUS
  <2>1. ASSUME NEW pushed, NEW g, NEW options, RegisteredAs(pushed, g, options)
        PROVE  A
    BY <2>1, RegistrationOutcome
  <2>2. ASSUME NEW config \in RuleConfigs, DefineRule(config)
        PROVE  A
    BY <2>2 DEF DefineRule
  <2>3. ASSUME NEW config \in SequenceConfigs, DefineSequence(config)
        PROVE  A
    BY <2>3 DEF DefineSequence
  <2>4. ASSUME NEW updates, NEW N, Ingested(updates, N)
        PROVE  A
    BY <2>4, RuleWasTriggered, TriggeredRuleFires
  <2>5. QED
    BY <2>1, <2>2, <2>3, <2>4, NextIsStep DEF Step
<1>2. [A]_vars =>
        [LET given(e, t, kind, subject) ==
               \E n \in DOMAIN out'.events :
                 out'.events[n] = [kind |-> kind, id |-> e, subject |-> subject, t_ms |-> t]
             triggered(config, e, t) ==
               \E trigger \in config.triggers : given(e, t, trigger.event_kind, trigger.target_id)
         IN  sent' # sent =>
               \A e \in Entities, t \in Times, config \in configs :
                 /\ given(e, t, "rule", config.emit) =>
                      \E c \in configs : c.emit = config.emit /\ triggered(c, e, t)
                 /\ config.filters = {} /\ triggered(config, e, t) => given(e, t, "rule", config.emit)]_vars
  BY DEF Given, Dto
<1>3. QED
  BY <1>1, <1>2, TypeInvInit, TypeInvNext, ConfigInvInit, ConfigInvNext, PTL DEF Spec, RulesFireAsConfigured

-----------------------------------------------------------------------------
\* Of two places in a list, the nearer entity's, and the first if both are as far.
Nearer(list, x, i, j) ==
  \/ Distance(list[i], x) < Distance(list[j], x)
  \/ Distance(list[i], x) = Distance(list[j], x) /\ i < j

\* As a relation.
NearOrder(list, x) == {p \in (DOMAIN list) \X (DOMAIN list) : Nearer(list, x, p[1], p[2])}

\* A list of N different entities that are somewhere.
Listed(list, N, x) ==
  /\ N \in Nat /\ DOMAIN list = 1 .. N
  /\ \A n \in 1 .. N : list[n] \in Entities /\ Distance(list[n], x) \in Nat
  /\ \A i, j \in 1 .. N : i # j => list[i] # list[j]

\* The relation is a strict total order.
LEMMA NearOrderIsOrder ==
  ASSUME NEW list, NEW N, NEW x, Listed(list, N, x), NEW among \in SUBSET (1 .. N)
  PROVE  /\ Orders(NearOrder(list, x), among)
         /\ \A i, j \in 1 .. N : <<i, j>> \in NearOrder(list, x) <=> Nearer(list, x, i, j)
<1>1. \A i \in 1 .. N : Distance(list[i], x) \in Int /\ i \in Int
  BY DEF Listed
<1>2. \A i, j \in 1 .. N : <<i, j>> \in NearOrder(list, x) <=> Nearer(list, x, i, j)
  BY DEF NearOrder, Listed
<1>3. \A a \in 1 .. N : ~Nearer(list, x, a, a)
  BY <1>1 DEF Nearer
<1>4. ASSUME NEW a \in 1 .. N, NEW b \in 1 .. N, NEW c \in 1 .. N, Nearer(list, x, a, b), Nearer(list, x, b, c)
      PROVE  Nearer(list, x, a, c)
  <2>1. Distance(list[a], x) \in Int /\ Distance(list[b], x) \in Int /\ Distance(list[c], x) \in Int
    BY <1>1
  <2>2. QED
    BY <1>4, <2>1 DEF Nearer
<1>5. ASSUME NEW a \in 1 .. N, NEW b \in 1 .. N, a # b
      PROVE  Nearer(list, x, a, b) \/ Nearer(list, x, b, a)
  BY <1>1, <1>5 DEF Nearer
<1>6. QED
  BY <1>2, <1>3, <1>4, <1>5 DEF Orders

\* The places in that order, and the entities there.
Arranged(list, among, x, order) ==
  /\ InOrder(order, among, NearOrder(list, x))
  /\ ByDistance(list, among, x) = [n \in 1 .. Cardinality(among) |-> list[order[n]]]

\* Sorting by distance puts the places in that order.
LEMMA ByDistanceIsSort ==
  ASSUME NEW list, NEW N, NEW x, Listed(list, N, x), NEW among \in SUBSET (1 .. N)
  PROVE  \E order : Arranged(list, among, x, order)
<1> DEFINE R == NearOrder(list, x)
           order == [n \in 1 .. Cardinality(among) |->
                       CHOOSE a \in among :
                         Cardinality({b \in among : Before(<<Distance(list[b], x), b>>,
                                                           <<Distance(list[a], x), a>>)}) = n - 1]
<1>1. IsFiniteSet(among)
  <2>1. IsFiniteSet(1 .. N)
    BY FS_Interval DEF Listed
  <2>2. QED
    BY <2>1, FS_Subset
<1>2. ByDistance(list, among, x) = [n \in DOMAIN order |-> list[order[n]]]
  BY Zenon DEF ByDistance, SortedBy
<1>3. ASSUME NEW i \in among, NEW j \in among
      PROVE  Before(<<Distance(list[i], x), i>>, <<Distance(list[j], x), j>>) <=> <<i, j>> \in R
  <2> DEFINE a == <<Distance(list[i], x), i>>
             b == <<Distance(list[j], x), j>>
  <2>1. a[1] = Distance(list[i], x) /\ a[2] = i /\ b[1] = Distance(list[j], x) /\ b[2] = j
    OBVIOUS
  <2>2. DOMAIN a = {1, 2} /\ 1 .. 0 = {} /\ 1 .. 1 = {1}
    OBVIOUS
  <2> HIDE DEF a, b
  <2>3. Before(a, b) <=> a[1] < b[1] \/ (a[2] < b[2] /\ a[1] = b[1])
    BY <2>2 DEF Before
  <2>4. Before(a, b) <=> Nearer(list, x, i, j)
    BY <2>1, <2>3 DEF Nearer
  <2>5. QED
    BY <2>4, NearOrderIsOrder DEF a, b
<1>4. \A a \in among :
        {b \in among : Before(<<Distance(list[b], x), b>>, <<Distance(list[a], x), a>>)} =
        {b \in among : <<b, a>> \in R}
  BY <1>3
<1>5. \A n \in 1 .. Cardinality(among) :
        (\E a \in among : Cardinality({b \in among : <<b, a>> \in R}) = n - 1)
        => order[n] \in among /\ Cardinality({b \in among : <<b, order[n]>> \in R}) = n - 1
  BY <1>4
<1>6. DOMAIN order = 1 .. Cardinality(among)
  OBVIOUS
<1> HIDE DEF order, R
<1>7. InOrder(order, among, R)
  BY <1>1, <1>5, NearOrderIsOrder, Sorted DEF R
<1>8. Arranged(list, among, x, order)
  BY <1>2, <1>6, <1>7 DEF R, Arranged
<1>9. QED
  BY <1>8

\* The whole list, sorted: every entity once, none before a nearer one.
SortedList(s, list, N, x) ==
  /\ s \in [1 .. N -> Entities]
  /\ \A i, j \in 1 .. N : i < j => Distance(s[i], x) <= Distance(s[j], x) /\ s[i] # s[j]
  /\ {s[n] : n \in 1 .. N} = {list[n] : n \in 1 .. N}
  /\ \A n \in 1 .. N : Distance(s[n], x) \in Nat

\* That is what the sort makes of all places.
LEMMA ListIsSorted ==
  ASSUME NEW list, NEW N, NEW x, Listed(list, N, x)
  PROVE  SortedList(ByDistance(list, DOMAIN list, x), list, N, x)
<1> DEFINE s == ByDistance(list, DOMAIN list, x)
           R == NearOrder(list, x)
<1>1. N \in Nat /\ DOMAIN list = 1 .. N /\ Cardinality(1 .. N) = N
  BY FS_Interval DEF Listed
<1>2. PICK order : InOrder(order, 1 .. N, R) /\ s = [n \in 1 .. N |-> list[order[n]]]
  <2>1. 1 .. N \in SUBSET (1 .. N)
    OBVIOUS
  <2>2. \E order : Arranged(list, 1 .. N, x, order)
    BY <2>1, ByDistanceIsSort
  <2>3. QED
    BY <1>1, <2>2 DEF Arranged
<1> HIDE DEF s, R
<1>3. /\ \A n \in 1 .. N : order[n] \in 1 .. N
      /\ \A i, j \in 1 .. N : i < j => <<order[i], order[j]>> \in R
      /\ \A a \in 1 .. N : \E n \in 1 .. N : order[n] = a
  BY <1>1, <1>2 DEF InOrder
<1>4. \A n \in 1 .. N : s[n] = list[order[n]]
  BY <1>2
<1>5. \A n \in 1 .. N : s[n] \in Entities /\ Distance(s[n], x) \in Nat
  BY <1>3, <1>4 DEF Listed
<1>6. ASSUME NEW i \in 1 .. N, NEW j \in 1 .. N, i < j
      PROVE  Distance(s[i], x) <= Distance(s[j], x) /\ s[i] # s[j]
  <2>1. Nearer(list, x, order[i], order[j])
    BY <1>3, <1>6, NearOrderIsOrder DEF R
  <2>2. /\ Distance(list[order[i]], x) \in Nat /\ Distance(list[order[j]], x) \in Nat
        /\ order[i] \in 1 .. N /\ order[j] \in 1 .. N
    BY <1>3 DEF Listed
  <2>3. Distance(list[order[i]], x) <= Distance(list[order[j]], x) /\ order[i] # order[j]
    BY <1>1, <2>1, <2>2 DEF Nearer
  <2>4. list[order[i]] # list[order[j]]
    BY <2>2, <2>3 DEF Listed
  <2>5. QED
    BY <1>4, <2>3, <2>4
<1>7. {s[n] : n \in 1 .. N} = {list[n] : n \in 1 .. N}
  BY <1>3, <1>4
<1>8. s \in [1 .. N -> Entities]
  BY <1>2, <1>5
<1>9. SortedList(s, list, N, x)
  BY <1>5, <1>6, <1>7, <1>8 DEF SortedList
<1>10. QED
  BY <1>9 DEF s

\* The first M of the sorted list s, which are the entities that are no farther.
Keeps(near, s, list, N, x, radius, M) ==
  /\ near = [n \in 1 .. M |-> s[n]]
  /\ {near[n] : n \in DOMAIN near} = {e \in {list[n] : n \in 1 .. N} : Distance(e, x) <= radius}

\* A radius keeps such a beginning of the list.
LEMMA NearIsPrefix ==
  ASSUME NEW list, NEW N, NEW x, Listed(list, N, x), NEW radius \in Nat,
         NEW s, s = ByDistance(list, DOMAIN list, x), NEW near, near = EntitiesNearPoint(list, x, radius)
  PROVE  \E M \in 0 .. N : Keeps(near, s, list, N, x, radius, M)
<1> DEFINE R == NearOrder(list, x)
           among == {n \in 1 .. N : Distance(list[n], x) <= radius}
<1>1. N \in Nat /\ DOMAIN list = 1 .. N /\ Cardinality(1 .. N) = N
  BY FS_Interval DEF Listed
<1>2. \A n \in 1 .. N : Distance(list[n], x) \in Nat
  BY DEF Listed
<1>3. \A n \in 1 .. N : Distance(list[n], x) * Distance(list[n], x) <= radius * radius <=> Distance(list[n], x) <= radius
  <2>1. ASSUME NEW d \in Nat, d <= radius
        PROVE  d * d <= radius * radius
    BY <2>1
  <2>2. ASSUME NEW d \in Nat, d > radius
        PROVE  d * d > radius * radius
    BY <2>2
  <2>3. ASSUME NEW n \in 1 .. N
        PROVE  Distance(list[n], x) * Distance(list[n], x) <= radius * radius <=> Distance(list[n], x) <= radius
    <3> DEFINE d == Distance(list[n], x)
    <3>1. d \in Nat
      BY <1>2
    <3> HIDE DEF d
    <3>2. d * d \in Int /\ radius * radius \in Int
      BY <3>1
    <3>3. d * d <= radius * radius <=> d <= radius
      BY <2>1, <2>2, <3>1, <3>2
    <3>4. QED
      BY <3>3 DEF d
  <2>4. QED
    BY <2>3
<1>4. near = ByDistance(list, among, x)
  <2>1. {n \in DOMAIN list : Distance(list[n], x) * Distance(list[n], x) <= radius * radius} = among
    BY <1>1, <1>3
  <2>2. QED
    BY <2>1 DEF EntitiesNearPoint
<1>5. PICK order : InOrder(order, 1 .. N, R) /\ s = [n \in 1 .. N |-> list[order[n]]]
  <2>1. 1 .. N \in SUBSET (1 .. N)
    OBVIOUS
  <2>2. \E order : Arranged(list, 1 .. N, x, order)
    BY <2>1, ByDistanceIsSort
  <2>3. QED
    BY <1>1, <2>2 DEF Arranged
<1>6. among \in SUBSET (1 .. N)
  OBVIOUS
<1>7. PICK order2 : InOrder(order2, among, R) /\ near = [n \in 1 .. Cardinality(among) |-> list[order2[n]]]
  <2> HIDE DEF among
  <2>1. \E order2 : Arranged(list, among, x, order2)
    BY <1>6, ByDistanceIsSort
  <2>2. QED
    BY <1>4, <2>1 DEF Arranged
<1> DEFINE A == {n \in 1 .. N : order[n] \in among}
<1>8. \A i, j \in 1 .. N : <<i, j>> \in R <=> Nearer(list, x, i, j)
  BY <1>6, NearOrderIsOrder
<1> HIDE DEF R
<1>9. /\ \A n \in 1 .. N : order[n] \in 1 .. N
      /\ \A i, j \in 1 .. N : i < j => <<order[i], order[j]>> \in R
      /\ \A a \in 1 .. N : \E n \in 1 .. N : order[n] = a
  BY <1>1, <1>5 DEF InOrder
<1>10. ASSUME NEW i \in 1 .. N, NEW j \in A, i < j
       PROVE  i \in A
  <2>1. Nearer(list, x, order[i], order[j]) /\ order[i] \in 1 .. N /\ order[j] \in 1 .. N
    BY <1>8, <1>9, <1>10
  <2>2. Distance(list[order[i]], x) <= Distance(list[order[j]], x)
    BY <1>2, <2>1 DEF Nearer
  <2>3. Distance(list[order[j]], x) <= radius
    OBVIOUS
  <2>4. Distance(list[order[i]], x) <= radius
    BY <1>2, <2>1, <2>2, <2>3
  <2>5. QED
    BY <2>1, <2>4
<1>11. PICK M \in 0 .. N : A = 1 .. M
  <2>1. CASE A = {}
    <3>1. A = 1 .. 0 /\ 0 \in 0 .. N
      BY <1>1, <2>1
    <3>2. QED
      BY <3>1
  <2>2. CASE A # {}
    <3> HIDE DEF A
    <3>1. A \in SUBSET (1 .. N)
      BY DEF A
    <3>2. Max(A) \in A /\ \A k \in A : k <= Max(A)
      BY <1>1, <2>2, <3>1, MaxInSet
    <3>3. Max(A) \in 1 .. N
      BY <3>1, <3>2
    <3>4. A = 1 .. Max(A)
      <4> DEFINE top == Max(A)
      <4> HIDE DEF top
      <4>1. top \in 1 .. N /\ top \in A /\ \A k \in A : k <= top
        BY <3>2, <3>3 DEF top
      <4>2. \A k \in 1 .. top : k \in A
        BY <1>1, <1>10, <4>1
      <4>3. \A k \in A : k \in 1 .. top
        BY <1>1, <3>1, <4>1
      <4>4. A = 1 .. top
        BY <4>2, <4>3
      <4>5. QED
        BY <4>4 DEF top
    <3>5. Max(A) \in 0 .. N
      BY <1>1, <3>3
    <3>6. QED
      BY <3>4, <3>5
  <2>3. QED
    BY <2>1, <2>2
<1>12. \A n \in 1 .. M : order[n] \in among
  BY <1>11
<1>13. \A a \in among : \E n \in 1 .. M : order[n] = a
  BY <1>9, <1>11
<1> HIDE DEF A, among
<1>14. Orders(R, 1 .. N) /\ Orders(R, among)
  BY <1>6, NearOrderIsOrder DEF R
<1>15. Cardinality(among) = M
  <2> DEFINE f == [n \in 1 .. M |-> order[n]]
  <2>1. \A i, j \in 1 .. M : i # j => order[i] # order[j]
    <3>1. \A i, j \in 1 .. N : i < j => order[i] # order[j]
      BY <1>9, <1>14 DEF Orders
    <3>2. \A i, j \in 1 .. N : i # j => i < j \/ j < i
      OBVIOUS
    <3>3. QED
      BY <1>1, <3>1, <3>2
  <2>2. f \in [1 .. M -> among] /\ (\A i, j \in 1 .. M : f[i] = f[j] => i = j) /\ \A a \in among : \E n \in 1 .. M : f[n] = a
    BY <1>12, <1>13, <2>1
  <2> HIDE DEF f
  <2>3. ExistsBijection(1 .. M, among)
    BY <2>2 DEF ExistsBijection, Bijection, Injection, IsInjective, Surjection
  <2>4. IsFiniteSet(1 .. M) /\ Cardinality(1 .. M) = M
    BY <1>1, FS_Interval
  <2>5. Cardinality(1 .. M) = Cardinality(among)
    BY <2>3, <2>4, FS_Bijection
  <2>6. QED
    BY <2>4, <2>5
<1>16. InOrder(order, among, R)
  BY <1>1, <1>9, <1>12, <1>13, <1>15 DEF InOrder
<1>17. \A n \in 1 .. M : order2[n] = order[n]
  BY <1>7, <1>14, <1>15, <1>16, InOrderIsUnique
<1>18. near = [n \in 1 .. M |-> s[n]]
  <2>1. near = [n \in 1 .. M |-> list[order2[n]]]
    BY <1>7, <1>15
  <2>2. \A n \in 1 .. M : n \in 1 .. N
    BY <1>1
  <2>3. \A n \in 1 .. M : s[n] = list[order2[n]]
    BY <1>5, <1>17, <2>2
  <2>4. QED
    BY <2>1, <2>3
<1>19. {near[n] : n \in DOMAIN near} = {e \in {list[n] : n \in 1 .. N} : Distance(e, x) <= radius}
  <2>1. DOMAIN near = 1 .. M /\ \A n \in 1 .. M : near[n] = list[order[n]] /\ order[n] \in among
    BY <1>7, <1>12, <1>15, <1>17
  <2>2. \A a \in among : a \in 1 .. N /\ Distance(list[a], x) <= radius
    BY DEF among
  <2>3. \A a \in 1 .. N : Distance(list[a], x) <= radius => a \in among
    BY DEF among
  <2>4. QED
    BY <1>13, <2>1, <2>2, <2>3
<1>20. QED
  BY <1>18, <1>19 DEF Keeps

\* The entities that are somewhere, which an ingest adds to those of the updates at most.
Placed == {e \in Entities : engine.entities[e].position # None}

\* There are finitely many, so a store can list them.
PlacedInv == IsFiniteSet(Placed)

\* At first there is none.
LEMMA PlacedInvInit == Init => PlacedInv
<1> SUFFICES ASSUME Init PROVE PlacedInv
  OBVIOUS
<1>1. \A e \in Entities : engine.entities[e].position = None
  BY DEF Init, NewEngine, NewEntity
<1>2. Placed = {}
  BY <1>1 DEF Placed
<1>3. QED
  BY <1>2, FS_EmptySet DEF PlacedInv

\* Every step keeps them finitely many.
LEMMA PlacedInvNext == TypeInv /\ PlacedInv /\ [Next]_vars => PlacedInv'
<1> SUFFICES ASSUME TypeInv, PlacedInv, [Next]_vars PROVE PlacedInv'
  OBVIOUS
<1>1. CASE engine'.entities = engine.entities
  BY <1>1 DEF PlacedInv, Placed
<1>2. CASE UNCHANGED vars
  BY <1>1, <1>2 DEF vars
<1>3. ASSUME NEW updates, NEW N, Ingested(updates, N)
      PROVE  PlacedInv'
  <2> DEFINE batch == BatchOf(updates)
             ids == {batch[i].id : i \in 1 .. N}
  <2>1. /\ N \in Nat /\ batch \in [1 .. N -> Updates]
        /\ engine' = ProcessBatch(engine, batch, <<>>).engine
        /\ engine \in EngineStates(AnyRules, AnySequences) /\ WellFormed(engine.entities)
    BY <1>3 DEF Ingested, ResultOf, TypeInv
  <2> HIDE DEF batch
  <2>2. IsFiniteSet(ids)
    <3> DEFINE f == [i \in 1 .. N |-> batch[i].id]
    <3>1. ids = {f[i] : i \in 1 .. N}
      OBVIOUS
    <3> HIDE DEF f
    <3>2. IsFiniteSet(1 .. N)
      BY <2>1, FS_Interval
    <3>3. IsFiniteSet({f[i] : i \in 1 .. N})
      BY <3>2, ImageIsFinite
    <3>4. QED
      BY <3>1, <3>3
  <2>3. ASSUME NEW e \in Entities, engine'.entities[e].position # None
        PROVE  e \in Placed \union ids
    <3>1. \/ Unmoved(engine, engine'.entities[e], e, N, batch)
          \/ BatchPut(engine, engine'.entities[e], e, N, batch)
      BY <2>1, Numbers, BatchSettles
    <3>2. CASE Unmoved(engine, engine'.entities[e], e, N, batch)
      BY <2>3, <3>2 DEF Unmoved, Placed
    <3>3. CASE BatchPut(engine, engine'.entities[e], e, N, batch)
      BY <3>3 DEF BatchPut, PutBy
    <3>4. QED
      BY <3>1, <3>2, <3>3
  <2>4. Placed' \subseteq Placed \union ids
    BY <2>3 DEF Placed
  <2>5. IsFiniteSet(Placed \union ids)
    BY <2>2, FS_Union DEF PlacedInv
  <2>6. QED
    BY <2>4, <2>5, FS_Subset DEF PlacedInv
<1>4. QED
  BY <1>1, <1>2, <1>3, QuietSteps DEF Quiet

\* What the two queries promise of a list, for whoever asks at x.
NearestIsExact(list, x) ==
  LET all == {list[n] : n \in DOMAIN list}
      Up(s) == \A i, j \in DOMAIN s : i < j => Distance(s[i], x) <= Distance(s[j], x) /\ s[i] # s[j]
  IN  \A k \in -1 .. Len(list) + 1 :
        LET answer == NearestToPoint(list, x, k)
            named  == {answer[n] : n \in DOMAIN answer}
        IN  /\ Up(answer)
            /\ k \in 0 .. Len(list) => Len(answer) = k
            /\ k > Len(list) => named = all
            /\ k < 0 => answer = <<>>
            /\ \A e \in named, f \in all \ named : Distance(e, x) <= Distance(f, x)

NearIsExact(list, x) ==
  LET all == {list[n] : n \in DOMAIN list}
      s == ByDistance(list, DOMAIN list, x)
  IN  \A radius \in {0} \union {Distance(e, x) : e \in all} :
        LET near == EntitiesNearPoint(list, x, radius)
        IN  /\ near = SubSeq(s, 1, Len(near))
            /\ {near[n] : n \in DOMAIN near} = {e \in all : Distance(e, x) <= radius}

\* nearestToPoint keeps its promise.
LEMMA NearestHolds ==
  ASSUME NEW list, NEW N, NEW x, Listed(list, N, x), list \in [1 .. N -> Entities]
  PROVE  NearestIsExact(list, x)
<1> DEFINE s == ByDistance(list, DOMAIN list, x)
           all == {list[n] : n \in 1 .. N}
<1>1. N \in Nat /\ DOMAIN list = 1 .. N /\ Len(list) = N
  BY DEF Listed
<1>2. SortedList(s, list, N, x)
  BY ListIsSorted
<1> HIDE DEF s
<1>3. /\ s \in [1 .. N -> Entities]
      /\ \A i, j \in 1 .. N : i < j => Distance(s[i], x) <= Distance(s[j], x) /\ s[i] # s[j]
      /\ {s[n] : n \in 1 .. N} = all
      /\ \A n \in 1 .. N : Distance(s[n], x) \in Nat
  BY <1>2 DEF SortedList
<1>4. ASSUME NEW k \in -1 .. N + 1, NEW answer, answer = NearestToPoint(list, x, k)
      PROVE  LET named == {answer[n] : n \in DOMAIN answer}
             IN  /\ \A i, j \in DOMAIN answer : i < j => Distance(answer[i], x) <= Distance(answer[j], x) /\ answer[i] # answer[j]
                 /\ k \in 0 .. N => Len(answer) = k
                 /\ k > N => named = all
                 /\ k < 0 => answer = <<>>
                 /\ \A e \in named, f \in all \ named : Distance(e, x) <= Distance(f, x)
  <2> DEFINE c == Taken(list, k)
             named == {answer[n] : n \in DOMAIN answer}
  <2>1. /\ c \in 0 .. N
        /\ k \in 0 .. N => c = k
        /\ k > N => c = N
        /\ k < 0 => c = 0
    BY <1>1 DEF Taken
  <2>2. answer = SubSeq(s, 1, c)
    BY <1>4 DEF NearestToPoint, s
  <2>3. s \in Seq(Entities) /\ Len(s) = N
    BY <1>1, <1>3
  <2> HIDE DEF c
  <2>4. answer \in Seq(Entities) /\ Len(answer) = c /\ \A n \in 1 .. c : answer[n] = s[n]
    BY <1>1, <2>1, <2>2, <2>3
  <2>5. DOMAIN answer = 1 .. c /\ \A n \in 1 .. c : n \in 1 .. N
    BY <1>1, <2>1, <2>4
  <2>6. \A i, j \in DOMAIN answer : i < j => Distance(answer[i], x) <= Distance(answer[j], x) /\ answer[i] # answer[j]
    BY <1>3, <2>4, <2>5
  <2>7. k \in 0 .. N => Len(answer) = k
    BY <2>1, <2>4
  <2>8. k > N => named = all
    BY <1>3, <2>1, <2>4, <2>5
  <2>9. k < 0 => answer = <<>>
    BY <2>1, <2>4
  <2>10. ASSUME NEW e \in named, NEW f \in all \ named
         PROVE  Distance(e, x) <= Distance(f, x)
    <3>1. PICK i \in 1 .. c : e = s[i]
      BY <2>4, <2>5
    <3>2. PICK j \in 1 .. N : f = s[j]
      BY <1>3
    <3>3. j > c
      <4>1. j \in 1 .. c => f \in named
        BY <2>4, <2>5, <3>2
      <4>2. QED
        BY <1>1, <2>1, <2>10, <4>1
    <3>4. QED
      BY <1>1, <1>3, <2>1, <2>5, <3>1, <3>2, <3>3
  <2>11. QED
    BY <2>6, <2>7, <2>8, <2>9, <2>10
<1>5. QED
  BY <1>1, <1>4 DEF NearestIsExact

\* And so does entitiesNearPoint.
LEMMA NearHolds ==
  ASSUME NEW list, NEW N, NEW x, Listed(list, N, x), list \in [1 .. N -> Entities]
  PROVE  NearIsExact(list, x)
<1> DEFINE s == ByDistance(list, DOMAIN list, x)
           all == {list[n] : n \in 1 .. N}
<1>1. N \in Nat /\ DOMAIN list = 1 .. N
  BY DEF Listed
<1>2. SortedList(s, list, N, x)
  BY ListIsSorted
<1>3. ASSUME NEW radius \in {0} \union {Distance(e, x) : e \in all}, NEW near, near = EntitiesNearPoint(list, x, radius)
      PROVE  /\ near = SubSeq(s, 1, Len(near))
             /\ {near[n] : n \in DOMAIN near} = {e \in all : Distance(e, x) <= radius}
  <2>1. radius \in Nat
    BY DEF Listed
  <2>2. PICK M \in 0 .. N : Keeps(near, s, list, N, x, radius, M)
    BY <1>3, <2>1, NearIsPrefix
  <2> HIDE DEF s
  <2>3. s \in Seq(Entities) /\ Len(s) = N
    BY <1>1, <1>2 DEF SortedList
  <2>4. /\ near = [n \in 1 .. M |-> s[n]]
        /\ {near[n] : n \in DOMAIN near} = {e \in all : Distance(e, x) <= radius}
    BY <2>2 DEF Keeps
  <2>5. near \in Seq(Entities) /\ Len(near) = M
    <3>1. \A n \in 1 .. M : s[n] \in Entities
      BY <1>1, <2>3
    <3>2. near \in [1 .. M -> Entities] /\ M \in Nat
      BY <1>1, <2>4, <3>1
    <3>3. QED
      BY <3>2
  <2>6. /\ SubSeq(s, 1, M) \in Seq(Entities) /\ Len(SubSeq(s, 1, M)) = M
        /\ \A n \in 1 .. M : SubSeq(s, 1, M)[n] = s[n]
    BY <1>1, <2>3
  <2>7. near = SubSeq(s, 1, Len(near))
    BY <1>1, <2>4, <2>5, <2>6
  <2>8. QED
    BY <2>4, <2>7
<1>4. QED
  BY <1>1, <1>3 DEF NearIsExact

\* However many entities there are, wherever they are and in whatever order the store
\* lists them: nearestToPoint and entitiesNearPoint name the right ones, the nearest first.
THEOREM BindingProximity == Spec => []ProximityIsExact
<1>1. TypeInv /\ PlacedInv => ProximityIsExact
  <2> SUFFICES ASSUME TypeInv, PlacedInv, NEW list \in Listings, NEW x \in Points
               PROVE  NearestIsExact(list, x) /\ NearIsExact(list, x)
    BY DEF ProximityIsExact, NearestIsExact, NearIsExact
  <2> DEFINE N == Cardinality(Placed)
  <2>1. N \in Nat
    BY FS_CardinalityType DEF PlacedInv
  <2>2. list \in [1 .. N -> Placed] /\ \A i, j \in DOMAIN list : i # j => list[i] # list[j]
    BY DEF Listings, Placed
  <2> HIDE DEF N
  <2>3. ASSUME NEW e \in Placed
        PROVE  e \in Entities /\ Distance(e, x) \in Nat
    <3> DEFINE p == engine.entities[e].position
    <3>1. e \in Entities /\ p # None
      BY DEF Placed
    <3>2. engine.entities[e] \in EntityStates
      BY <3>1 DEF TypeInv, EngineStates
    <3>3. p \in Int /\ x \in Int
      BY <3>1, <3>2, EngineAssumption DEF EntityStates
    <3> HIDE DEF p
    <3>4. (IF p - x < 0 THEN -(p - x) ELSE p - x) \in Nat
      BY <3>3
    <3>5. QED
      BY <3>1, <3>4 DEF Distance, p
  <2>4. list \in [1 .. N -> Entities] /\ \A n \in 1 .. N : Distance(list[n], x) \in Nat
    BY <2>2, <2>3
  <2>5. Listed(list, N, x)
    BY <2>1, <2>2, <2>4 DEF Listed
  <2>6. QED
    BY <2>4, <2>5, NearestHolds, NearHolds
<1>2. QED
  BY <1>1, TypeInvInit, TypeInvNext, PlacedInvInit, PlacedInvNext, PTL DEF Spec
=============================================================================
