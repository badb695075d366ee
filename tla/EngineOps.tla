------------------------------ MODULE EngineOps ------------------------------
(***************************************************************************)
(* struct Engine (crates/engine/src/lib.rs) as a value and its operations  *)
(* as operators on it.                                                     *)
(*                                                                         *)
(* Ids and names are numbered in the byte order of their strings.  Points  *)
(* lie on an east-west line, and an area is the set of points a polygon or *)
(* disk contains; what a bearing or a speed is used for survives this.     *)
(***************************************************************************)
EXTENDS SequenceOps, FiniteSets

CONSTANTS Entities,      \* entity ids
          Zones,         \* zone ids
          Circles,       \* circle ids; an id may name a zone and a circle
          Points,        \* positions
          Areas,         \* the areas of the geometries that pass validation
          HistorySize    \* EngineOptions::history_size

\* Calls to the state store that may fail: a get, a set that is not applied, and a
\* set that is applied, of which the caller only hears an error (its reply is lost).
StoreFaults == {"get", "set", "lost"}

\* Speed and heading; both need a distance in space and one in time.
Legs == [distance : Nat, time : Nat \ {0}, heading : {0, 90, 270}]

ASSUME EngineAssumption ==
  /\ Points \subseteq Int /\ None \notin Points
  /\ Areas \subseteq SUBSET Points /\ None \notin Areas
  /\ HistorySize \in Nat
  /\ None \notin Legs /\ None \notin StoreFaults /\ None \notin {"state_store", "monotonicity"}

\* The geometries of the two tiers, zones and circles, share one shape here.
Geometries == ({"zone"} \X Zones) \union ({"circle"} \X Circles)

Updates == [id : Entities, x : Points, t_ms : Times]

\* EntityState before the first update; the store answers None for it.
NewEntity ==
  [position  |-> None,
   last_t_ms |-> None,
   motion    |-> None,   \* speed and heading, which are always both set or both not
   history   |-> <<>>,
   presence  |-> [g \in Geometries |-> Outside]]

EntityStates ==
  [position  : Points \union {None},
   last_t_ms : Times \union {None},
   motion    : Legs \union {None},
   history   : Seq([x : Points, t_ms : Times]),
   presence  : [Geometries -> Presences]]

\* An entity has a time exactly when it has a position.
Timed(st) == st.position = None <=> st.last_t_ms = None

\* Entities as update after update leaves them.
WellFormed(entities) ==
  \A e \in Entities : Timed(entities[e]) /\ Len(entities[e].history) <= HistorySize

\* Engines whose rules are among these.
EngineStates(rules, sequences) ==
  [area               : [Geometries -> Areas \union {None}],
   dwell              : [Geometries -> Dwells],
   entities           : [Entities -> EntityStates],
   configurable_rules : Seq(rules),
   sequence_rules     : Seq([rule : sequences, progress : [Entities -> Progresses]])]

NewEngine ==
  [area               |-> [g \in Geometries |-> None],
   dwell              |-> [g \in Geometries |-> NoDwell],
   entities           |-> [e \in Entities |-> NewEntity],
   configurable_rules |-> <<>>,
   sequence_rules     |-> <<>>]

-----------------------------------------------------------------------------
\* Mutant: the dwell map is written before the duplicate id is refused.
RegisterDwellFirst(engine, g, area, dwell) ==
  IF engine.area[g] # None \/ area \notin Areas
    THEN [engine EXCEPT !.dwell[g] = dwell]
    ELSE [engine EXCEPT !.area[g] = area, !.dwell[g] = dwell]

\* register_zone_with_dwell, register_circle_with_dwell.  A geometry that fails
\* validation (area None), or an id its tier already has, is refused.
Register(engine, g, area, dwell) ==
  IF engine.area[g] # None \/ area \notin Areas
    THEN engine
    ELSE [engine EXCEPT !.area[g] = area, !.dwell[g] = dwell]

AddRule(engine, rule) ==
  [engine EXCEPT !.configurable_rules = Append(@, rule)]

\* SequenceRule::new and add_sequence.
AddSequence(engine, rule) ==
  [engine EXCEPT !.sequence_rules =
     Append(@, [rule |-> rule, progress |-> [e \in Entities |-> Idle]])]

-----------------------------------------------------------------------------
\* Mutant: no monotonicity check.
AcceptsAll(st, u) == TRUE

\* An update strictly older than the last one of its entity is refused.
Accepts(st, u) == st.last_t_ms # None => u.t_ms >= st.last_t_ms

\* Mutant: an update at the same time keeps the motion of the one before.
MotionKept(st, u) ==
  LET dx == u.x - st.position
  IN  IF st.position = None \/ u.t_ms = st.last_t_ms
        THEN st.motion
        ELSE [distance |-> IF dx < 0 THEN -dx ELSE dx,
              time     |-> u.t_ms - st.last_t_ms,
              heading  |-> IF dx = 0 THEN 0 ELSE IF dx > 0 THEN 90 ELSE 270]

\* Speed (distance over time) and heading need an earlier position and an
\* earlier time; an update at the same time clears them.
Motion(st, u) ==
  LET dx == u.x - st.position
  IN IF st.position = None \/ u.t_ms = st.last_t_ms
       THEN None
       ELSE [distance |-> IF dx < 0 THEN -dx ELSE dx,
             time     |-> u.t_ms - st.last_t_ms,
             heading  |-> IF dx = 0 THEN 0 ELSE IF dx > 0 THEN 90 ELSE 270]

\* Mutant: nothing is ever dropped.
RememberAll(history, sample) == Append(history, sample)

\* Mutant: > for >=.
RememberOneMore(history, sample) ==
  IF HistorySize = 0
    THEN history
    ELSE Append(IF Len(history) > HistorySize THEN Tail(history) ELSE history, sample)

\* The ring buffer of the latest HistorySize samples.
Remember(history, sample) ==
  IF HistorySize = 0
    THEN history
    ELSE Append(IF Len(history) >= HistorySize THEN Tail(history) ELSE history, sample)

\* Is the point inside the geometry, as the spatial index answers.
Covers(engine, g, x) == engine.area[g] # None /\ x \in engine.area[g]

\* Mutant: the rules look at the position before the update.
AdvanceOnOldPosition(engine, st, u) ==
  [position  |-> u.x,
   last_t_ms |-> u.t_ms,
   motion    |-> Motion(st, u),
   history   |-> Remember(st.history, [x |-> u.x, t_ms |-> u.t_ms]),
   presence  |-> [g \in Geometries |->
                    DwellStep(st.presence[g], Covers(engine, g, st.position), u.t_ms, engine.dwell[g])]]

\* The state process_event writes back for an accepted update: ZoneRule and
\* RadiusRule run the dwell step of every geometry.
Advance(engine, st, u) ==
  [position  |-> u.x,
   last_t_ms |-> u.t_ms,
   motion    |-> Motion(st, u),
   history   |-> Remember(st.history, [x |-> u.x, t_ms |-> u.t_ms]),
   presence  |-> [g \in Geometries |->
                    DwellStep(st.presence[g], Covers(engine, g, u.x), u.t_ms, engine.dwell[g])]]

-----------------------------------------------------------------------------
EventKind(g, entered) ==
  IF g[1] = "zone" THEN IF entered THEN "enter" ELSE "exit"
                   ELSE IF entered THEN "approach" ELSE "recede"

\* Enter, Exit, Approach and Recede, with the motion of the update (enrich).
\* `rule` numbers the rule a Custom or SequenceComplete event comes from.
SpatialEvents(before, after, u) ==
  {[kind |-> EventKind(g, after.presence[g].inside), id |-> u.id, name |-> g[2],
    t_ms |-> u.t_ms, motion |-> after.motion, rule |-> 0] :
     g \in {h \in Geometries : before.presence[h].inside # after.presence[h].inside}}

\* SpatialKind
SpatialKinds == {"enter", "exit", "approach", "recede"}

\* Headings are degrees, clockwise from north, which is 0 and never 360.
RuleFilters ==
  [type : {"speed_above", "speed_below"}, value : Int]
  \union [type : {"heading_between"}, from : 0 .. 360, to : 0 .. 360]

\* RuleFilter: a filter on speed or heading fails when there is none.
Passes(filter, motion) ==
  /\ motion # None
  /\ filter.type = "speed_above" => motion.distance > filter.value * motion.time
  /\ filter.type = "speed_below" => motion.distance < filter.value * motion.time
  /\ filter.type = "heading_between" =>
       IF filter.from <= filter.to
         THEN filter.from <= motion.heading /\ motion.heading <= filter.to
         ELSE filter.from <= motion.heading \/ motion.heading <= filter.to

\* Mutant: the kind of the event is not compared.
FiresOnAnyKind(rule, events, motion) ==
  /\ \E ev \in events, trigger \in rule.triggers : ev.name = trigger.target_id
  /\ \A filter \in rule.filters : Passes(filter, motion)

\* ConfigurableRule::fire: any trigger and every filter.
Fires(rule, events, motion) ==
  /\ \E ev \in events, trigger \in rule.triggers :
       ev.kind = trigger.event_kind /\ ev.name = trigger.target_id
  /\ \A filter \in rule.filters : Passes(filter, motion)

CustomEvents(engine, events, motion, u) ==
  {[kind |-> "custom", id |-> u.id, name |-> engine.configurable_rules[i].emit,
    t_ms |-> u.t_ms, motion |-> motion, rule |-> i] :
     i \in {j \in DOMAIN engine.configurable_rules :
              Fires(engine.configurable_rules[j], events, motion)}}

\* The ids a sequence rule can match in these events.
Entered(events) == {ev.name : ev \in {e \in events : e.kind \in {"enter", "approach"}}}

FireOf(s, events, u) == FireSequence(s.rule, s.progress[u.id], Entered(events), u.t_ms)

\* Mutant: one progress for all entities.
FireSequencesTogether(engine, events, u) ==
  [i \in DOMAIN engine.sequence_rules |->
     [engine.sequence_rules[i] EXCEPT
        !.progress = [e \in Entities |-> FireOf(engine.sequence_rules[i], events, u).progress]]]

\* Every sequence rule runs on every accepted update.
FireSequences(engine, events, u) ==
  [i \in DOMAIN engine.sequence_rules |->
     [engine.sequence_rules[i] EXCEPT
        !.progress[u.id] = FireOf(engine.sequence_rules[i], events, u).progress]]

SequenceEvents(engine, events, u) ==
  {[kind |-> "sequence_complete", id |-> u.id, name |-> engine.sequence_rules[i].rule.name,
    t_ms |-> u.t_ms, motion |-> None, rule |-> i] :
     i \in {j \in DOMAIN engine.sequence_rules :
              FireOf(engine.sequence_rules[j], events, u).complete}}

\* Mutant: the time to check later updates against is kept before the write is sure.
SetEntityTimeFirst(entities, u, after, fault) ==
  IF fault = "set"
    THEN [entities EXCEPT ![u.id].last_t_ms = after.last_t_ms]
    ELSE [entities EXCEPT ![u.id] = after]

\* entities.set.
SetEntity(entities, u, after, fault) ==
  IF fault = "set" THEN entities ELSE [entities EXCEPT ![u.id] = after]

\* process_event.  `fault` says which call to the state store fails: "get" returns
\* before anything happens; the set is the last call, and when it fails, applied
\* ("lost") or not ("set"), the sequence rules have moved on and no event is told.
ProcessEvent(engine, u, fault) ==
  LET before  == engine.entities[u.id]
      after   == Advance(engine, before, u)
      spatial == SpatialEvents(before, after, u)
      custom  == CustomEvents(engine, spatial, after.motion, u)
      written == [engine EXCEPT !.sequence_rules = FireSequences(engine, spatial, u),
                                !.entities = SetEntity(@, u, after, fault)]
  IN IF fault = "get"
       THEN [engine |-> engine, events |-> {}, error |-> "state_store"]
     ELSE IF ~Accepts(before, u)
       THEN [engine |-> engine, events |-> {}, error |-> "monotonicity"]
     ELSE IF fault \in StoreFaults
       THEN [engine |-> written, events |-> {}, error |-> "state_store"]
     ELSE [engine |-> written,
           events |-> spatial \union custom \union SequenceEvents(engine, spatial, u),
           error  |-> None]

\* Does the call leave the new state of the entity in the store?
Stores(engine, u, fault) == fault \notin {"get", "set"} /\ Accepts(engine.entities[u.id], u)

-----------------------------------------------------------------------------
\* The pair of entity and geometry an event is about; enter and exit name a
\* zone, approach and recede a circle.
Subject(ev) ==
  <<ev.id, <<IF ev.kind \in {"enter", "exit"} THEN "zone" ELSE "circle", ev.name>>>>

\* What the events of these kinds are about.
About(events, kinds) == {Subject(ev) : ev \in {e \in events : e.kind \in kinds}}

\* What a consumer who knows these pairs as inside makes of the events of one
\* update, which are about different pairs.
Heard(known, events) ==
  (known \ About(events, {"exit", "recede"})) \union About(events, {"enter", "approach"})

\* The transitions of a call whose write was applied though it failed, which
\* nobody is told of.
Untold(engine, u, fault) ==
  IF fault = "lost" THEN About(ProcessEvent(engine, u, None).events, SpatialKinds) ELSE {}

\* The membership that is stored, and that queries answer from.
Inside(entities) == {p \in Entities \X Geometries : entities[p[1]].presence[p[2]].inside}

-----------------------------------------------------------------------------
\* Mutant: the restored engine starts with an empty store.
RestoredEmpty(engine) == [engine EXCEPT !.entities = [e \in Entities |-> NewEntity]]

\* snapshot, then restore_from_snapshot: everything but the progress of the
\* sequence rules, which start over.
Restored(engine) ==
  [engine EXCEPT !.sequence_rules =
     [i \in DOMAIN engine.sequence_rules |->
        [engine.sequence_rules[i] EXCEPT !.progress = [e \in Entities |-> Idle]]]]
=============================================================================
