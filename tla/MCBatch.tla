------------------------------- MODULE MCBatch -------------------------------
(***************************************************************************)
(* Two entities around a zone and a circle of the same id, with and without*)
(* dwell, and rules that fire on both; three updates in all.                *)
(***************************************************************************)
EXTENDS Batch

MCEntities == {1, 2}

MCTimes == 0..2

MCPoints == {0, 1}

Zone == <<"zone", 1>>
Circle == <<"circle", 1>>

SetUp(dwell) ==
  LET placed == Register(Register(NewEngine, Zone, {1}, dwell), Circle, {1}, NoDwell)
      ruled  == AddRule(AddRule(placed,
        [name |-> 1, emit |-> 3, filters |-> {},
         triggers |-> {[event_kind |-> "exit", target_id |-> 1]}]),
        [name |-> 2, emit |-> 3, filters |-> {[type |-> "speed_below", value |-> 2]},
         triggers |-> {[event_kind |-> "exit", target_id |-> 1],
                       [event_kind |-> "approach", target_id |-> 1]}])
  IN  AddSequence(ruled, [name |-> 4, steps |-> <<1, 1>>, within_ms |-> 2])

MCEngines == {SetUp(NoDwell), SetUp([min_inside_ms |-> 1, min_outside_ms |-> 0])}
=============================================================================
