------------------------------- MODULE MCDwell -------------------------------
(***************************************************************************)
(* Dwell with times 0..5: long enough for a run to meet a threshold of 3,  *)
(* bounce, and meet it again.                                              *)
(***************************************************************************)
EXTENDS Dwell

MCTimes == 0..5

MCDwellConfigs == [min_inside_ms : {0, 1, 3}, min_outside_ms : {0, 2}]
=============================================================================
