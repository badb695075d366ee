-------------------------- MODULE EngineMembership --------------------------
(***************************************************************************)
(* Engine seen by a consumer that keeps its own picture of who is where    *)
(* from the events it is given, next to what the positions have shown.     *)
(***************************************************************************)
EXTENDS Engine

VARIABLES view,     \* the consumer's picture: pairs of entity and geometry
          doubt,    \* pairs whose latest transition was lost with a failed call
          phys,     \* is the entity's last accepted position in the geometry
          since,    \* first update of the latest run with that answer
          sent      \* updates sent so far

history == <<view, doubt, phys, since, sent>>

allvars == <<engine, out, view, doubt, phys, since, sent>>

Pairs == Entities \X Geometries

MInit ==
  /\ Init
  /\ view = {}
  /\ doubt = {}
  /\ phys = [p \in Pairs |-> FALSE]
  /\ since = [p \in Pairs |-> None]
  /\ sent = 0

MProcess(u, fault) ==
  LET covered(g) == Covers(engine, g, u.x)
  IN  /\ sent < MaxUpdates
      /\ Process(u, fault)
      /\ sent' = sent + 1
      /\ view' = Heard(view, out'.events)
      /\ doubt' = (doubt \ About(out'.events, SpatialKinds)) \union Untold(engine, u, fault)
      /\ IF Stores(engine, u, fault)
           THEN /\ phys' = [p \in Pairs |-> IF p[1] = u.id THEN covered(p[2]) ELSE phys[p]]
                /\ since' = [p \in Pairs |->
                     IF p[1] = u.id /\ (engine.entities[u.id].last_t_ms = None \/ covered(p[2]) # phys[p])
                       THEN u.t_ms
                       ELSE since[p]]
           ELSE UNCHANGED <<phys, since>>

MNext ==
  \/ /\ \/ Configure
        \/ \E rule \in Sequences : DefineSequence(rule)
        \/ Restart
     /\ UNCHANGED history
  \/ \E u \in Updates, fault \in Faults \union {None} : MProcess(u, fault)

MSpec == MInit /\ [][MNext]_allvars

-----------------------------------------------------------------------------
\* Every variable has its type.
TypeOK ==
  /\ engine \in EngineStates(Rules, Sequences)
  /\ \A e \in Entities : Len(engine.entities[e].history) <= HistorySize
  /\ view \subseteq Pairs
  /\ doubt \subseteq Pairs
  /\ phys \in [Pairs -> BOOLEAN]
  /\ since \in [Pairs -> Times \union {None}]

\* Folding the events it was given, and nothing else, a consumer knows the
\* membership the engine stores and its queries answer from (entities_in_zone,
\* entities_in_circle), but for pairs of entity and geometry whose latest
\* transition was in a call that failed after its write had been applied: no
\* other failure, refusal or restart, and no zone sharing its id with a circle
\* makes the two differ, and the next transition of such a pair ends the doubt.
ViewIsMembership ==
  (view \ Inside(engine.entities)) \union (Inside(engine.entities) \ view) \subseteq doubt

\* Sending the update of a failed call again takes every entity to the position,
\* the time and the membership the call would have taken it to, and raises the
\* spatial and custom events the call would have raised.  It raises none only if
\* the write had been applied, and then what it does not tell is in doubt.
\* (Completed sequences are left aside: a failing set moves their progress.)
RetryEndsTheSame ==
  [][out'.error # None =>
       LET first == ProcessEvent(engine, out'.update, None)
           again == ProcessEvent(engine', out'.update, None)
           Told(result) == {ev \in result.events : ev.kind # "sequence_complete"}
       IN  /\ again.error = first.error
           /\ \A e \in Entities :
                LET there == first.engine.entities[e]
                    here  == again.engine.entities[e]
                IN  /\ here.position = there.position
                    /\ here.last_t_ms = there.last_t_ms
                    /\ here.presence = there.presence
           /\ \/ Told(again) = Told(first)
              \/ again.events = {} /\ About(first.events, SpatialKinds) \subseteq doubt']_allvars

\* An entity's time never goes back, and an update refused for its time was
\* really older than one that had been accepted.
TimeMovesForward ==
  [][\A e \in Entities :
       LET last == engine.entities[e].last_t_ms
       IN  /\ last # None => engine'.entities[e].last_t_ms >= last
           /\ out'.error = "monotonicity" /\ out'.update.id = e => last > out'.update.t_ms]_allvars

\* The entity and the zone or circle a trigger waits for.
Watched(trigger, e) ==
  <<e, <<IF trigger.event_kind \in {"enter", "exit"} THEN "zone" ELSE "circle", trigger.target_id>>>>

\* The transition a trigger waits for, as the consumer of the events sees it.
Crossed(trigger, e) ==
  LET arrives == trigger.event_kind \in {"enter", "approach"}
  IN  /\ Watched(trigger, e) \in view <=> ~arrives
      /\ Watched(trigger, e) \in view' <=> arrives

\* A configurable rule without filters fires for an entity exactly in the
\* updates that change the consumer's picture the way one of its triggers says,
\* so it never fires twice without the opposite transition in between, nor for
\* a circle that shares its id with the zone the trigger names.  Pairs in doubt
\* are left aside, where the picture is not the one the rule is judged by.
RuleFiresOnItsTransition ==
  [][\A i \in DOMAIN engine.configurable_rules, e \in Entities :
       LET rule == engine.configurable_rules[i]
       IN  rule.filters = {} /\ (\A trigger \in rule.triggers : Watched(trigger, e) \notin doubt) =>
             ( (\E ev \in out'.events : ev.kind = "custom" /\ ev.rule = i /\ ev.id = e)
               <=> (\E trigger \in rule.triggers : Crossed(trigger, e)) )]_allvars

\* For every entity and every geometry, the engine is the dwell machine of
\* module Dwell: updates of other entities, other registrations, calls whose
\* write was not applied and restarts are stutters of it, and a call that failed
\* with its write applied is a step of it.
Machine(e, g) == INSTANCE Dwell WITH
  presence   <- engine.entities[e].presence[g],
  dwell      <- engine.dwell[g],
  registered <- engine.area[g] # None,
  last_t_ms  <- engine.entities[e].last_t_ms,
  phys       <- phys[<<e, g>>],
  since      <- since[<<e, g>>]

ImplementsDwell ==
  /\ \A e \in Entities, g \in Geometries : Machine(e, g)!DwellInit
  /\ [][\A e \in Entities, g \in Geometries :
          [Machine(e, g)!DwellNext]_(Machine(e, g)!dwellvars)]_allvars
=============================================================================
