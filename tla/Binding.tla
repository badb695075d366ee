------------------------------ MODULE Binding ------------------------------
(***************************************************************************)
(* GeoEngineNode (crates/adapters/napi), the engine as a JavaScript        *)
(* program sees it: times are i64 outside and u64 inside, geometries are   *)
(* shapes in a SpatialIndex, errors of an ingest are dropped, and queries  *)
(* and events come back as plain objects.                                  *)
(***************************************************************************)
EXTENDS BatchOps

CONSTANTS Half,         \* 2^63: an i64 is in -Half .. Half - 1, a u64 below 2 * Half
          ZoneCalls,    \* calls of register_zone an application may make
          CircleCalls,  \* and of register_circle
          RuleConfigs,  \* and of define_rule
          SequenceConfigs,
          JsUpdates,    \* updates it may ingest
          MaxRules,     \* bound: rules of both kinds together
          MaxUpdates    \* bound: updates in all calls together

Spatial == INSTANCE SpatialIndex

\* Mutant: a conversion that saturates.
U64Saturating(v) == IF v < 0 THEN 0 ELSE v

\* `v as u64`, for v an i64.
U64(v) == v % (2 * Half)

\* `u as i64`.
I64(u) == IF u >= Half THEN u - 2 * Half ELSE u

\* What JavaScript may leave out.
Optional == Int \union {None}

Rings == [lo : Int, hi : Int, coords : Nat]

Polygons == [exterior : Rings, interiors : Seq(Rings)]

DwellOptions == {None} \union [min_inside_ms : Optional, min_outside_ms : Optional]

\* Names are numbers (EngineOps), and a polygon may cut out any set of points.
ASSUME BindingAssumption ==
  /\ Half \in Nat \ {0} /\ Times = 0 .. 2 * Half - 1
  /\ NumberedIds /\ Areas = SUBSET Points
  /\ \A c \in ZoneCalls : c.id \in Zones /\ c.polygon \in Polygons /\ c.dwell \in DwellOptions
  /\ \A c \in CircleCalls :
       c.id \in Circles /\ c.cx \in Int /\ c.cy \in Int /\ c.r \in Int /\ c.dwell \in DwellOptions
  /\ \A c \in RuleConfigs :
       /\ c.name \in Int /\ c.emit \in Int
       /\ \A t \in c.triggers : t.target_id \in Int
       /\ \A f \in c.filters : f.value \in Optional /\ f.from \in Optional /\ f.to \in Optional
  /\ SequenceConfigs \subseteq [name : Int, steps : Seq(Int), within_ms : Optional]
  /\ JsUpdates \subseteq [id : Entities, x : Points, tMs : -Half .. Half - 1]
  /\ None \notin JsUpdates
  /\ MaxUpdates \in Nat

VARIABLES index,     \* the spatial index
          engine,    \* the rest of the engine
          out,       \* the last call: the updates it took and the events it returned
          configs,   \* the rule configurations define_rule accepted
          newest,    \* per entity, the newest update sent, in the order the engine has
          fresh,     \* entities updated since a geometry was registered
          sent       \* updates sent so far

vars == <<index, engine, out, configs, newest, fresh, sent>>

Nothing == [updates |-> <<>>, events |-> <<>>]

Init ==
  /\ index = Spatial!NewIndex
  /\ engine = NewEngine
  /\ out = Nothing
  /\ configs = {}
  /\ newest = [e \in Entities |-> None]
  /\ fresh = {}
  /\ sent = 0

\* What the index answers at the points there are; None for an id it has not got.
AreasOf(idx) ==
  [g \in Geometries |->
     LET id == g[2]
     IN  IF g[1] = "zone"
           THEN IF Spatial!HasId(idx.fences, id)
                  THEN {x \in Points : id \in Spatial!ZoneMembershipAt(idx, x)} ELSE None
           ELSE IF Spatial!HasId(idx.circles, id)
                  THEN {x \in Points : id \in Spatial!CircleMembershipAt(idx, x)} ELSE None]

\* DwellOptionsJs to ZoneDwell or CircleDwell; no options or no threshold is 0.
DwellFrom(options) ==
  LET threshold(v) == IF v = None THEN 0 ELSE U64(v)
  IN  IF options = None
        THEN NoDwell
        ELSE [min_inside_ms  |-> threshold(options.min_inside_ms),
              min_outside_ms |-> threshold(options.min_outside_ms)]

\* The index refuses what it does not take, and then the dwell map stays too.
Registered(pushed, g, options) ==
  /\ index' = pushed
  /\ engine' = IF pushed = index
                 THEN engine
                 ELSE [engine EXCEPT !.area = AreasOf(pushed), !.dwell[g] = DwellFrom(options)]
  /\ fresh' = {p \in fresh : p[2] # g \/ pushed = index}
  /\ out' = Nothing
  /\ UNCHANGED <<configs, newest, sent>>

RegisterZone(call) ==
  Registered(Spatial!TryPushZone(index, [id |-> call.id, polygon |-> call.polygon]),
             <<"zone", call.id>>, call.dwell)

RegisterCircle(call) ==
  Registered(Spatial!TryPushCircle(index, [id |-> call.id, cx |-> call.cx, cy |-> call.cy, r |-> call.r]),
             <<"circle", call.id>>, call.dwell)

FilterTypes == {"speed_above", "speed_below", "heading_between"}

\* Mutant: both circle kinds are read as one.
KindFromSloppy(name) == IF name = "recede" THEN "approach" ELSE name

KindFrom(name) == name

\* A value that is left out has a default.
FilterFrom(f) ==
  LET given(v, default) == IF v = None THEN default ELSE v
  IN  IF f.filter_type = "heading_between"
        THEN [type |-> f.filter_type, from |-> given(f.from, 0), to |-> given(f.to, 360)]
        ELSE [type |-> f.filter_type, value |-> given(f.value, 0)]

\* parse_rule_config: an unknown kind or type is an error, and no rule is added.
DefineRule(config) ==
  /\ Len(engine.configurable_rules) + Len(engine.sequence_rules) < MaxRules
  /\ \A trigger \in config.triggers : trigger.event_kind \in SpatialKinds
  /\ \A filter \in config.filters : filter.filter_type \in FilterTypes
  /\ engine' = AddRule(engine,
       [name |-> config.name, emit |-> config.emit,
        triggers |-> {[event_kind |-> KindFrom(t.event_kind), target_id |-> t.target_id] : t \in config.triggers},
        filters |-> {FilterFrom(f) : f \in config.filters}])
  /\ configs' = configs \union {config}
  /\ out' = Nothing
  /\ UNCHANGED <<index, newest, fresh, sent>>

DefineSequence(config) ==
  /\ Len(engine.configurable_rules) + Len(engine.sequence_rules) < MaxRules
  /\ engine' = AddSequence(engine,
       [config EXCEPT !.within_ms = IF @ = None THEN None ELSE U64(@)])
  /\ out' = Nothing
  /\ UNCHANGED <<index, configs, newest, fresh, sent>>

\* Mutant: a recede comes out as an approach.
EventDtoSloppy(ev) ==
  [kind |-> CASE ev.kind = "custom" -> "rule" [] ev.kind = "recede" -> "approach" [] OTHER -> ev.kind,
   id |-> ev.id, subject |-> ev.name, t_ms |-> ev.t_ms]

\* EventDto: a Custom event is a `rule` to JavaScript; times stay u64.
EventDto(ev) ==
  [kind |-> IF ev.kind = "custom" THEN "rule" ELSE ev.kind,
   id |-> ev.id, subject |-> ev.name, t_ms |-> ev.t_ms]

\* i64 times in the order of the u64 they become: the negative ones come last.
Older(t1, t2) == IF (t1 < 0) = (t2 < 0) THEN t1 < t2 ELSE t2 < 0

Newer(best, u) ==
  IF best[u.id] # None /\ Older(u.tMs, best[u.id].tMs) THEN best ELSE [best EXCEPT ![u.id] = u]

Ingest(updates) ==
  LET batch    == [n \in DOMAIN updates |->
                     [id |-> updates[n].id, x |-> updates[n].x, t_ms |-> U64(updates[n].tMs)]]
      result   == ProcessBatch(engine, batch, <<>>)
      refused  == {result.errors[n].update : n \in DOMAIN result.errors}
      accepted == {batch[n].id : n \in {k \in DOMAIN batch : batch[k] \notin refused}}
  IN  /\ sent + Len(updates) <= MaxUpdates
      /\ sent' = sent + Len(updates)
      /\ engine' = result.engine
      /\ out' = [updates |-> updates,
                 events |-> [n \in DOMAIN result.events |-> EventDto(result.events[n])]]
      /\ newest' = FoldLeft(Newer, newest, updates)
      /\ fresh' = fresh \union {p \in accepted \X Geometries : engine.area[p[2]] # None}
      /\ UNCHANGED <<index, configs>>

Next ==
  \/ \E call \in ZoneCalls : RegisterZone(call)
  \/ \E call \in CircleCalls : RegisterCircle(call)
  \/ \E config \in RuleConfigs : DefineRule(config)
  \/ \E config \in SequenceConfigs : DefineSequence(config)
  \/ \E n \in 1 .. MaxUpdates - sent : \E updates \in [1 .. n -> JsUpdates] : Ingest(updates)

Spec == Init /\ [][Next]_vars

-----------------------------------------------------------------------------
\* get_entity_state, entity_to_js.
GetEntityState(e) ==
  LET st == engine.entities[e]
  IN  IF st.position = None THEN None ELSE [id |-> e, x |-> st.position, tMs |-> I64(st.last_t_ms)]

\* entities_in_zone, entities_in_circle.
EntitiesIn(g) == {e \in Entities : engine.entities[e].presence[g].inside}

\* Orders in which a hash map may list the entities it holds.
Listings ==
  LET known == {e \in Entities : engine.entities[e].position # None}
  IN  {s \in [1 .. Cardinality(known) -> known] : \A i, j \in DOMAIN s : i # j => s[i] # s[j]}

Distance(e, x) == LET d == engine.entities[e].position - x IN IF d < 0 THEN -d ELSE d

\* Of the entities at these places of the list, the nearest first; the sort is stable.
ByDistance(list, among, x) ==
  LET Key(n) == <<Distance(list[n], x), n>>
      order  == SortedBy(Key, among)
  IN  [n \in DOMAIN order |-> list[order[n]]]

EntitiesNearPoint(list, x, radius) ==
  ByDistance(list, {n \in DOMAIN list : Distance(list[n], x) * Distance(list[n], x) <= radius * radius}, x)

\* A negative k is 0.
Taken(list, k) == IF k < 0 THEN 0 ELSE IF k < Len(list) THEN k ELSE Len(list)

\* Mutant: the list is cut before it is sorted.
NearestCutFirst(list, x, k) == ByDistance(list, 1 .. Taken(list, k), x)

NearestToPoint(list, x, k) == SubSeq(ByDistance(list, DOMAIN list, x), 1, Taken(list, k))

-----------------------------------------------------------------------------
\* The R-trees lose no geometry and find none too many: at every point the index
\* answers what a look at every accepted shape answers, and so does an index
\* rebuilt from its vectors.
IndexIsExact ==
  LET idx == Spatial!FromVecs(index.fences, index.circles)
  IN  \A x \in Points, n \in {index, idx} :
        /\ Spatial!ZoneMembershipAt(n, x) =
             {z.id : z \in {index.fences[k] : k \in {c \in DOMAIN index.fences :
                              Spatial!PolygonContains(index.fences[c].polygon, x)}}}
        /\ Spatial!CircleMembershipAt(n, x) =
             {z.id : z \in {index.circles[k] : k \in {c \in DOMAIN index.circles :
                              Spatial!CircleContains(index.circles[c], x)}}}

\* The engine is a last-writer-wins register per entity, however updates are
\* split into calls and ordered in them, and although ingest never says which it
\* refused: getEntityState answers the newest update sent, with the time it was
\* sent with.  A negative time is newer than any other that is not.
StateIsNewestSent ==
  \A e \in Entities : GetEntityState(e) = newest[e]

\* Without a dwell threshold, the entities in a geometry are the ones whose
\* getEntityState lies in its shape, if updated since it was registered; and
\* before that none is.
MembershipIsGeometry ==
  \A e \in Entities, g \in Geometries :
    engine.dwell[g] = NoDwell =>
      (e \in EntitiesIn(g) <=>
         /\ <<e, g>> \in fresh
         /\ IF g[1] = "zone"
              THEN \E k \in DOMAIN index.fences :
                     index.fences[k].id = g[2] /\ Spatial!PolygonContains(index.fences[k].polygon, GetEntityState(e).x)
              ELSE \E k \in DOMAIN index.circles :
                     index.circles[k].id = g[2] /\ Spatial!CircleContains(index.circles[k], GetEntityState(e).x))

\* In whatever order the store lists the entities, nearestToPoint answers as many
\* as asked for or known, in the order of their distance, and leaves out none
\* that is nearer than one it names; entitiesNearPoint answers the same list as
\* far as the radius goes.
ProximityIsExact ==
  \A list \in Listings, x \in Points :
    LET all == {list[n] : n \in DOMAIN list}
        sorted == ByDistance(list, DOMAIN list, x)
        Sorted(s) == \A i, j \in DOMAIN s : i < j => Distance(s[i], x) <= Distance(s[j], x) /\ s[i] # s[j]
    IN  /\ \A k \in -1 .. Len(list) + 1 :
             LET answer == NearestToPoint(list, x, k)
                 named  == {answer[n] : n \in DOMAIN answer}
             IN  /\ Sorted(answer)
                 /\ k \in 0 .. Len(list) => Len(answer) = k
                 /\ k > Len(list) => named = all
                 /\ k < 0 => answer = <<>>
                 /\ \A e \in named, f \in all \ named : Distance(e, x) <= Distance(f, x)
        /\ \A radius \in {0} \union {Distance(e, x) : e \in all} :
             LET near == EntitiesNearPoint(list, x, radius)
             IN  /\ near = SubSeq(sorted, 1, Len(near))
                 /\ {near[n] : n \in DOMAIN near} = {e \in all : Distance(e, x) <= radius}

SeeDto(inside, ev) ==
  CASE ev.kind = "enter"    -> inside \union {<<ev.id, <<"zone", ev.subject>>>>}
    [] ev.kind = "exit"     -> inside \ {<<ev.id, <<"zone", ev.subject>>>>}
    [] ev.kind = "approach" -> inside \union {<<ev.id, <<"circle", ev.subject>>>>}
    [] ev.kind = "recede"   -> inside \ {<<ev.id, <<"circle", ev.subject>>>>}
    [] OTHER                -> inside

Membership == {p \in Entities \X Geometries : p[1] \in EntitiesIn(p[2])}

\* The events a call returns take an application from what the queries answered
\* before it to what they answer after it, if it had no two updates of an entity
\* with one time.
EventsExplainQueries ==
  [][(\A i, j \in DOMAIN out'.updates :
        i # j => out'.updates[i].id # out'.updates[j].id \/ out'.updates[i].tMs # out'.updates[j].tMs)
     => Membership' = IF sent' = sent THEN Membership ELSE FoldLeft(SeeDto, Membership, out'.events)]_vars

\* A call gives a `rule` event for an entity and a time only if it also gives, for
\* the same, an event that a rule with that name for its events is triggered by;
\* and it always does if that rule has no filters.
RulesFireAsConfigured ==
  [][LET given(e, t, kind, subject) ==
           \E n \in DOMAIN out'.events :
             out'.events[n] = [kind |-> kind, id |-> e, subject |-> subject, t_ms |-> t]
         triggered(config, e, t) ==
           \E trigger \in config.triggers : given(e, t, trigger.event_kind, trigger.target_id)
     IN  sent' # sent =>
           \A e \in Entities, t \in Times, config \in configs :
             /\ given(e, t, "rule", config.emit) =>
                  \E c \in configs : c.emit = config.emit /\ triggered(c, e, t)
             /\ config.filters = {} /\ triggered(config, e, t) => given(e, t, "rule", config.emit)]_vars
=============================================================================
