------------------------------ MODULE MCKafka -------------------------------
(***************************************************************************)
(* One entity between a zone and a circle that meet nowhere, two times,    *)
(* up to three messages, two rejected sends, failed store calls or ended   *)
(* processes, with and without Redis.                                      *)
(***************************************************************************)
EXTENDS KafkaAdapter

MCTimes == 0..1

MCAreas == {{0}, {1}}

MCRegistered ==
  [g \in Geometries |->
     IF g[1] = "zone" THEN [area |-> {1}, dwell |-> NoDwell]
     ELSE [area |-> {0}, dwell |-> [NoDwell EXCEPT !.min_outside_ms = 1]]]

MCMessages == [id : {1}, x : {0, 1}, t_ms : MCTimes] \union {Garbage, Misshapen}
=============================================================================
