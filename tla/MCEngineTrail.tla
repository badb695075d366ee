---------------------------- MODULE MCEngineTrail ----------------------------
(***************************************************************************)
(* Entities that can enter the zone slow or fast, or while standing in it  *)
(* when its dwell runs out, a circle of the same id, a history of two, and *)
(* every store call allowed to fail in every way.                          *)
(***************************************************************************)
EXTENDS EngineTrail, TLC

MCTimes == 0..2

MCPoints == {0, 1}

MCAreas == {{1}}

MCDwellConfigs == {NoDwell, [min_inside_ms |-> 1, min_outside_ms |-> 0]}

On(kinds, filters) ==
  [name |-> "r", emit |-> "crossed",
   triggers |-> {[event_kind |-> kind, target_id |-> "a"] : kind \in kinds},
   filters |-> filters]

HeadingBetween(from, to) == [type |-> "heading_between", from |-> from, to |-> to]

MCRules ==
  {On({"enter", "recede"}, {}),
   On({"enter"}, {[type |-> "speed_below", value |-> 1], HeadingBetween(350, 10)}),
   On({"exit"}, {HeadingBetween(260, 360)})}

MCSequences == {}

EntitySymmetry == Permutations(Entities)
=============================================================================
