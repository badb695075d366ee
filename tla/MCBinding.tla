----------------------------- MODULE MCBinding -----------------------------
(***************************************************************************)
(* Two-bit times.  Two zones, one with a hole, and a circle whose center   *)
(* is off the line; duplicate ids, rings too short, a radius of 0; an      *)
(* entity that goes everywhere and one that stands still.                  *)
(***************************************************************************)
EXTENDS Binding

MCEntities == {1, 2}

MCTimes == 0..3

MCPoints == {0, 1, 2}

MCAreas == {area : area \in SUBSET MCPoints}

Ring(lo, hi, coords) == [lo |-> lo, hi |-> hi, coords |-> coords]

Polygon(exterior, interiors) == [exterior |-> exterior, interiors |-> interiors]

MCZoneCalls ==
  {[id |-> 1, polygon |-> Polygon(Ring(0, 2, 4), <<>>), dwell |-> None],
   [id |-> 1, polygon |-> Polygon(Ring(0, 2, 3), <<>>), dwell |-> None],
   [id |-> 2, polygon |-> Polygon(Ring(-1, 3, 5), <<Ring(1, 1, 4)>>),
    dwell |-> [min_inside_ms |-> -1, min_outside_ms |-> None]]}

MCCircleCalls ==
  {[id |-> 1, cx |-> 1, cy |-> 1, r |-> 1, dwell |-> None],
   [id |-> 1, cx |-> 2, cy |-> 1, r |-> 2, dwell |-> None],
   [id |-> 1, cx |-> 1, cy |-> 0, r |-> 0, dwell |-> None]}

MCRuleConfigs ==
  {[name |-> 1, emit |-> 3, filters |-> {},
    triggers |-> {[event_kind |-> "enter", target_id |-> 1], [event_kind |-> "recede", target_id |-> 1]}],
   [name |-> 2, emit |-> 4, triggers |-> {[event_kind |-> "approach", target_id |-> 1]},
    filters |-> {[filter_type |-> "heading_between", value |-> None, from |-> None, to |-> None]}],
   [name |-> 2, emit |-> 4, filters |-> {}, triggers |-> {[event_kind |-> "dwell", target_id |-> 1]}]}

MCSequenceConfigs == {[name |-> 5, steps |-> <<1, 1>>, within_ms |-> -1]}

MCJsUpdates ==
  {[id |-> 1, x |-> 1, tMs |-> 1], [id |-> 1, x |-> 1, tMs |-> -1],
   [id |-> 1, x |-> 0, tMs |-> -1], [id |-> 2, x |-> 1, tMs |-> 1]}
=============================================================================
