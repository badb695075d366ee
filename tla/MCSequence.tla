----------------------------- MODULE MCSequence -----------------------------
(***************************************************************************)
(* A three-step rule that visits one id twice, on two ids and times 0..4,  *)
(* so that windows of 2 are met exactly, missed by one, and restarted.     *)
(***************************************************************************)
EXTENDS SequenceRule

MCTimes == 0..4

MCIds == {"a", "b"}

MCRule == [steps |-> <<"a", "b", "a">>, within_ms |-> 2]
=============================================================================
