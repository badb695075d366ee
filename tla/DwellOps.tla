------------------------------ MODULE DwellOps ------------------------------
(***************************************************************************)
(* Membership of one entity in one geometry, with dwell thresholds         *)
(* (crates/state/src/lib.rs).  The loop of membership_with_dwell_impl      *)
(* treats every geometry id on its own, so one operator on the record of   *)
(* one id is the whole of it; zones and circles run the same code.         *)
(***************************************************************************)
EXTENDS Integers

CONSTANTS None,   \* Option::None
          Times   \* the t_ms values updates may carry

ASSUME TimesAssumption == Times \subseteq Nat /\ None \notin Nat

\* ZoneDwell and CircleDwell.  A missing field means 0 (unwrap_or(0)), so a
\* record of two naturals stands for both of the Options.
Dwells == [min_inside_ms : Nat, min_outside_ms : Nat]

\* Mutant: Options left unwrapped.
NoDwellUnwrapped == [min_inside_ms |-> None, min_outside_ms |-> None]

\* The threshold of an id that has no entry in the dwell map.
NoDwell == [min_inside_ms |-> 0, min_outside_ms |-> 0]

\* What EntityState keeps for one id: is it in the logical set, and its
\* entries (or None) in the two pending maps.
Presences == [inside        : BOOLEAN,
              enter_pending : Times \union {None},
              exit_pending  : Times \union {None}]

Outside == [inside |-> FALSE, enter_pending |-> None, exit_pending |-> None]

\* u64::saturating_sub
SaturatingSub(a, b) == IF a >= b THEN a - b ELSE 0

\* Mutant: the inside threshold on both sides.
MinDwellInside(phys, dwell) == dwell.min_inside_ms

\* The threshold of the side the entity is moving to.
MinDwell(phys, dwell) == IF phys THEN dwell.min_inside_ms ELSE dwell.min_outside_ms

\* Mutant: > for >=.
WaitedLonger(pending, at, min) ==
  min = 0 \/ (pending # None /\ SaturatingSub(at, pending) > min)

\* A side is taken at once without a threshold, otherwise when the wait that
\* began at `pending` has lasted that long.
Waited(pending, at, min) ==
  min = 0 \/ (pending # None /\ SaturatingSub(at, pending) >= min)

\* Mutant: insert for or_insert.
WaitingSinceNow(pending, at) == at

\* or_insert(at_ms): a wait that is under way keeps its start.
WaitingSince(pending, at) == IF pending = None THEN at ELSE pending

\* One pass of the loop for an id that is physically inside (phys) or not at
\* time `at`.  Of the two pending entries only the one for the side the entity
\* is moving to survives, and only while its threshold has not run out.
DwellStep(m, phys, at, dwell) ==
  LET pending == IF phys THEN m.enter_pending ELSE m.exit_pending
      flips   == phys # m.inside /\ Waited(pending, at, MinDwell(phys, dwell))
      waits   == phys # m.inside /\ ~flips
  IN [inside        |-> IF flips THEN phys ELSE m.inside,
      enter_pending |-> IF waits /\ phys  THEN WaitingSince(pending, at) ELSE None,
      exit_pending  |-> IF waits /\ ~phys THEN WaitingSince(pending, at) ELSE None]
=============================================================================
