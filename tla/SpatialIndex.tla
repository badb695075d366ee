---------------------------- MODULE SpatialIndex ----------------------------
(***************************************************************************)
(* NaiveSpatialIndex (crates/spatial): zones and circles in two vectors,   *)
(* and for each an R-tree of bounding boxes that point into the vector.    *)
(*                                                                         *)
(* All points looked up lie on the line y = 0, and a polygon is its cut    *)
(* with that line: an exterior from lo to hi and holes.  What a closed     *)
(* box, the interior of a ring and a disk contain differs at the ends of   *)
(* the cut, as in two dimensions.  A circle has a center off the line.     *)
(***************************************************************************)
EXTENDS Integers, Sequences, SequencesExt

NewIndex == [fences |-> <<>>, fence_tree |-> {}, circles |-> <<>>, circle_tree |-> {}]

Within(box, x) == box.lo <= x /\ x <= box.hi

\* geo's Contains: not the points on a ring.
PolygonContains(polygon, x) ==
  /\ polygon.exterior.lo < x /\ x < polygon.exterior.hi
  /\ \A k \in DOMAIN polygon.interiors : ~Within(polygon.interiors[k], x)

\* Circle::contains_point: the points at distance r too.
CircleContains(circle, x) ==
  (x - circle.cx) * (x - circle.cx) + circle.cy * circle.cy <= circle.r * circle.r

\* validate_polygon: rings of four coordinates, the first one repeated at the
\* end; geo closes every ring it builds.
ValidPolygon(polygon) ==
  /\ polygon.exterior.coords >= 4
  /\ \A k \in DOMAIN polygon.interiors : polygon.interiors[k].coords >= 4

\* A center or radius that is not finite fails in the same way as r <= 0.
ValidCircle(circle) == circle.r > 0

HasId(entries, id) == \E k \in DOMAIN entries : entries[k].id = id

Refused(entries, entry, valid) == ~valid \/ HasId(entries, entry.id)

\* polygon_aabb
PolygonBox(polygon) == [lo |-> polygon.exterior.lo, hi |-> polygon.exterior.hi]

\* Mutant: the box starts at the center.
RadiusBoxHalf(circle) == [lo |-> circle.cx, hi |-> circle.cx + circle.r]

\* radius_aabb, or a box without points if it does not reach the line.
RadiusBox(circle) ==
  IF circle.cy - circle.r <= 0 /\ 0 <= circle.cy + circle.r
    THEN [lo |-> circle.cx - circle.r, hi |-> circle.cx + circle.r]
    ELSE [lo |-> 1, hi |-> 0]

\* Mutant: the entry is not in the vector yet when its place is taken.
TryPushZoneEarly(index, zone) ==
  IF Refused(index.fences, zone, ValidPolygon(zone.polygon))
    THEN index
    ELSE [index EXCEPT !.fences = Append(@, zone),
            !.fence_tree = @ \union {[index |-> 1, box |-> PolygonBox(zone.polygon)]}]

TryPushZone(index, zone) ==
  IF Refused(index.fences, zone, ValidPolygon(zone.polygon))
    THEN index
    ELSE [index EXCEPT !.fences = Append(@, zone),
            !.fence_tree = @ \union {[index |-> Len(index.fences) + 1, box |-> PolygonBox(zone.polygon)]}]

TryPushCircle(index, circle) ==
  IF Refused(index.circles, circle, ValidCircle(circle))
    THEN index
    ELSE [index EXCEPT !.circles = Append(@, circle),
            !.circle_tree = @ \union {[index |-> Len(index.circles) + 1, box |-> RadiusBox(circle)]}]

\* from_vecs, for a snapshot.
FromVecs(fences, circles) ==
  FoldLeft(TryPushCircle, FoldLeft(TryPushZone, NewIndex, fences), circles)

Candidates(tree, x) == {o.index : o \in {p \in tree : Within(p.box, x)}}

ZoneMembershipAt(index, x) ==
  {index.fences[k].id : k \in {c \in Candidates(index.fence_tree, x) :
                                 PolygonContains(index.fences[c].polygon, x)}}

CircleMembershipAt(index, x) ==
  {index.circles[k].id : k \in {c \in Candidates(index.circle_tree, x) :
                                  CircleContains(index.circles[c], x)}}
=============================================================================
