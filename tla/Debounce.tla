------------------------------ MODULE Debounce ------------------------------
(***************************************************************************)
(* What dwell promises for one entity and one geometry, without the        *)
(* pending maps: the logical side follows the observed side as soon as the *)
(* observations have stayed on that side for its threshold, and no sooner. *)
(***************************************************************************)
EXTENDS Integers

CONSTANTS None, Times

VARIABLES inside,      \* the logical side, the one events report
          dwell,       \* the thresholds in force
          registered,  \* is the geometry known to the engine
          last_t_ms,   \* time of the last observation, None before the first
          phys,        \* the side of the last observation
          since        \* time of the first of the latest run of equal sides

vars == <<inside, dwell, registered, last_t_ms, phys, since>>

Init ==
  /\ inside = FALSE
  /\ dwell = [min_inside_ms |-> 0, min_outside_ms |-> 0]
  /\ registered = FALSE
  /\ last_t_ms = None
  /\ phys = FALSE
  /\ since = None

Register ==
  /\ ~registered
  /\ registered' = TRUE
  /\ dwell' \in [min_inside_ms : Nat, min_outside_ms : Nat]
  /\ UNCHANGED <<inside, last_t_ms, phys, since>>

Threshold(side) == IF side THEN dwell.min_inside_ms ELSE dwell.min_outside_ms

Observe(t, side) ==
  /\ last_t_ms # None => t >= last_t_ms
  /\ side => registered
  /\ last_t_ms' = t
  /\ phys' = side
  /\ since' = IF last_t_ms = None \/ side # phys THEN t ELSE since
  /\ inside' = IF t - since' >= Threshold(side) THEN side ELSE inside
  /\ UNCHANGED <<dwell, registered>>

Next == Register \/ \E t \in Times, side \in BOOLEAN : Observe(t, side)

Spec == Init /\ [][Next]_vars
=============================================================================
