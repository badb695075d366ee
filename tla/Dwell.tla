-------------------------------- MODULE Dwell --------------------------------
(***************************************************************************)
(* The life of one entity's membership in one geometry: the geometry is    *)
(* registered once, with or without thresholds, at any moment between      *)
(* updates, and every accepted update runs DwellStep.  phys and since are  *)
(* history variables: what the updates have shown, not what the code keeps.*)
(***************************************************************************)
EXTENDS DwellOps

CONSTANT DwellConfigs   \* the thresholds a registration may carry

ASSUME DwellConfigsAssumption == DwellConfigs \subseteq Dwells

VARIABLES presence,     \* this geometry's part of EntityState
          dwell,        \* its entry in Engine::zone_dwell (or circle_dwell)
          registered,   \* is it in the spatial index
          last_t_ms,    \* EntityState::last_t_ms
          phys,         \* history: was the last update inside the geometry
          since         \* history: first update of the latest run with that answer

dwellvars == <<presence, dwell, registered, last_t_ms, phys, since>>

DwellInit ==
  /\ presence = Outside
  /\ dwell = NoDwell
  /\ registered = FALSE
  /\ last_t_ms = None
  /\ phys = FALSE
  /\ since = None

\* register_zone_with_dwell, register_circle_with_dwell; a second registration
\* of the id is refused and changes nothing.
Register(d) ==
  /\ ~registered
  /\ registered' = TRUE
  /\ dwell' = d
  /\ UNCHANGED <<presence, last_t_ms, phys, since>>

\* Mutant: no monotonicity check.
ObserveAnyTime(t, side) ==
  /\ side => registered
  /\ presence' = DwellStep(presence, side, t, dwell)
  /\ last_t_ms' = t
  /\ phys' = side
  /\ since' = IF last_t_ms = None \/ side # phys THEN t ELSE since
  /\ UNCHANGED <<dwell, registered>>

\* process_event for an update at time t; only a registered geometry can
\* contain the point.
Observe(t, side) ==
  /\ last_t_ms # None => t >= last_t_ms
  /\ side => registered
  /\ presence' = DwellStep(presence, side, t, dwell)
  /\ last_t_ms' = t
  /\ phys' = side
  /\ since' = IF last_t_ms = None \/ side # phys THEN t ELSE since
  /\ UNCHANGED <<dwell, registered>>

DwellNext ==
  \/ \E d \in DwellConfigs : Register(d)
  \/ \E t \in Times, side \in BOOLEAN : Observe(t, side)

DwellSpec == DwellInit /\ [][DwellNext]_dwellvars

-----------------------------------------------------------------------------
Threshold(side) == IF side THEN dwell.min_inside_ms ELSE dwell.min_outside_ms

\* Every variable has its type.
DwellTypeOK ==
  /\ presence \in Presences
  /\ dwell \in Dwells
  /\ registered \in BOOLEAN
  /\ last_t_ms \in Times \union {None}
  /\ phys \in BOOLEAN
  /\ since \in Times \union {None}

\* A pending entry exists exactly while the entity is observed on the other
\* side than the engine reports, on the matching side's map only, and holds the
\* time of the first update of that run: a bounce restarts the wait.
PendingIsCurrentRun ==
  /\ presence.enter_pending = IF phys /\ ~presence.inside THEN since ELSE None
  /\ presence.exit_pending = IF ~phys /\ presence.inside THEN since ELSE None

\* No transition is overdue: while the two sides differ, the run of updates on
\* the new side is still shorter than that side's threshold.
NothingOverdue ==
  phys # presence.inside => /\ last_t_ms # None
                            /\ last_t_ms - since < Threshold(phys)

\* Only a registered geometry is reported, waited for, or has thresholds.
UnregisteredIsOutside ==
  ~registered => presence = Outside /\ ~phys /\ dwell = NoDwell

\* The observed run began at an update that has been processed.
RunStarted ==
  /\ since = None <=> last_t_ms = None
  /\ last_t_ms # None => since <= last_t_ms
  /\ last_t_ms = None => ~phys /\ ~presence.inside

\* The inductive invariant.
DwellInv ==
  /\ DwellTypeOK
  /\ PendingIsCurrentRun
  /\ NothingOverdue
  /\ UnregisteredIsOutside
  /\ RunStarted

\* An enter (exit) is never early: the step that reports it ends a run of
\* updates inside (outside) that is at least as long as the threshold.
TransitionIsEarned ==
  [][presence'.inside # presence.inside =>
       /\ presence'.inside = phys'
       /\ last_t_ms' - since' >= Threshold(phys')]_dwellvars

\* The pending maps implement the debounce the thresholds document.
Promise == INSTANCE Debounce WITH inside <- presence.inside

ImplementsDebounce == Promise!Spec
=============================================================================
