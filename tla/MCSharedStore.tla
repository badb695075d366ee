---------------------------- MODULE MCSharedStore ----------------------------
(***************************************************************************)
(* Two engines, a zone inside a circle, and two entities, each fed to an   *)
(* engine of its own.                                                      *)
(***************************************************************************)
EXTENDS SharedStore, TLC

MCTimes == 0..1

MCRegistered == [g \in Geometries |-> IF g[1] = "zone" THEN {1} ELSE {1, 2}]

MCPartition == (1 :> {"m1"}) @@ (2 :> {"m2"})
=============================================================================
