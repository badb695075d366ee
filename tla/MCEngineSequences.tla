-------------------------- MODULE MCEngineSequences --------------------------
(***************************************************************************)
(* Two entities, a zone "a" and a circle "b" that may lie on it or beside  *)
(* it, a rule that asks for both within a window or for "a" twice, and a   *)
(* configurable rule whose event has the name of a step.                   *)
(***************************************************************************)
EXTENDS EngineSequences, TLC

MCTimes == 0..2

MCPoints == {1, 2}

MCAreas == {{1}, {2}}

MCDwellConfigs == {NoDwell}

MCSequences == {[name |-> "ab", steps |-> <<"a", "b">>, within_ms |-> 1],
                [name |-> "aa", steps |-> <<"a", "a">>, within_ms |-> None]}

MCRules == {[name |-> "r", emit |-> "b", filters |-> {},
             triggers |-> {[event_kind |-> "enter", target_id |-> "a"]}]}

EntitySymmetry == Permutations(Entities)
=============================================================================
