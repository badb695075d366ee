----------------------------- MODULE EngineProofs -----------------------------
(***************************************************************************)
(* The engine for every set of entities, geometries, areas, thresholds,    *)
(* rules and times.  What the consumer of the events knows, what sending a *)
(* failed call again does, that the engine is the dwell machine of every pair, and  *)
(* what its bounded history and motion say (EngineMembership, EngineTrail);*)
(* then, provided that no write to the store fails, that what the caller   *)
(* is told is what the sequence rules advance on (EngineSequences).        *)
(***************************************************************************)
EXTENDS EngineTrail, EngineSequences, EngineOpsProofs, SequenceTheorems

\* The calls that are not updates.
Quiet ==
  \/ Configure
  \/ \E rule \in Sequences : DefineSequence(rule)
  \/ Restart

\* A geometry that had no area gets one, with its thresholds.
Registers(g, area, d) ==
  /\ engine.area[g] = None
  /\ engine'.area = [engine.area EXCEPT ![g] = area]
  /\ engine'.dwell = [engine.dwell EXCEPT ![g] = d]

\* What process_event answered.
Answer == [engine |-> engine, events |-> out.events, error |-> out.error]

-----------------------------------------------------------------------------
\* A call that is not an update leaves the entities alone and reports nothing.
LEMMA QuietStep ==
  ASSUME engine \in EngineStates(Rules, Sequences), Quiet
  PROVE  /\ engine' \in EngineStates(Rules, Sequences)
         /\ engine'.entities = engine.entities
         /\ out' = Nothing
         /\ \/ engine'.area = engine.area /\ engine'.dwell = engine.dwell
            \/ \E g \in Geometries, area \in Areas, d \in DwellConfigs : Registers(g, area, d)
<1> DEFINE Goal == /\ engine' \in EngineStates(Rules, Sequences)
                   /\ engine'.entities = engine.entities
                   /\ out' = Nothing
                   /\ \/ engine'.area = engine.area /\ engine'.dwell = engine.dwell
                      \/ \E g \in Geometries, area \in Areas, d \in DwellConfigs : Registers(g, area, d)
<1>1. ASSUME NEW g \in Geometries, NEW area \in Areas \union {None}, NEW d \in DwellConfigs,
             RegisterGeometry(g, area, d)
      PROVE  Goal
  <2> DEFINE r == Register(engine, g, area, d)
  <2>1. d \in Dwells
    BY EngineInputs
  <2>2. /\ r \in EngineStates(Rules, Sequences) /\ r.entities = engine.entities
        /\ IF engine.area[g] # None \/ area \notin Areas
             THEN r = engine
             ELSE /\ r.area = [engine.area EXCEPT ![g] = area]
                  /\ r.dwell = [engine.dwell EXCEPT ![g] = d]
    BY <2>1, RegisterOutcome
  <2>3. engine' = r /\ out' = Nothing
    BY <1>1 DEF RegisterGeometry
  <2> HIDE DEF r
  <2>4. CASE engine.area[g] # None \/ area \notin Areas
    BY <2>2, <2>3, <2>4
  <2>5. CASE ~(engine.area[g] # None \/ area \notin Areas)
    <3>1. Registers(g, area, d) /\ area \in Areas
      BY <2>2, <2>3, <2>5 DEF Registers
    <3>2. QED
      BY <2>2, <2>3, <3>1
  <2>6. QED
    BY <2>4, <2>5
<1>2. ASSUME NEW rule \in Rules, DefineRule(rule)
      PROVE  Goal
  BY <1>2, AddRuleOutcome DEF DefineRule
<1>3. ASSUME NEW rule \in Sequences, DefineSequence(rule)
      PROVE  Goal
  BY <1>3, AddSequenceOutcome DEF DefineSequence
<1>4. ASSUME Restart PROVE Goal
  <2> DEFINE r == Restored(engine)
  <2>1. /\ r \in EngineStates(Rules, Sequences) /\ r.entities = engine.entities
        /\ r.area = engine.area /\ r.dwell = engine.dwell
    BY RestoredOutcome
  <2>2. engine' = r /\ out' = Nothing
    BY <1>4 DEF Restart
  <2> HIDE DEF r
  <2>3. QED
    BY <2>1, <2>2
<1> HIDE DEF Goal
<1>5. Goal
  BY <1>1, <1>2, <1>3, <1>4 DEF Quiet, Configure
<1>6. QED
  BY <1>5 DEF Goal

\* An update is one call of process_event, whose answer the caller gets.
LEMMA UpdateStep ==
  ASSUME engine \in EngineStates(Rules, Sequences), WellFormed(engine.entities),
         NEW u \in Updates, NEW fault, Process(u, fault)
  PROVE  /\ Outcome(engine, u, fault, Answer')
         /\ engine' \in EngineStates(Rules, Sequences)
         /\ WellFormed(engine'.entities)
         /\ out'.update = u
<1> DEFINE r == ProcessEvent(engine, u, fault)
<1>1. /\ engine' = r.engine /\ out'.update = u
      /\ out'.events = r.events /\ out'.error = r.error
  BY DEF Process
<1>2. Outcome(engine, u, fault, r)
  BY ProcessEventOutcome
<1>3. engine' \in EngineStates(Rules, Sequences) /\ WellFormed(engine'.entities)
  BY <1>1, ProcessEventType
<1> HIDE DEF r
<1>4. Answer'.engine = r.engine /\ Answer'.events = r.events /\ Answer'.error = r.error
  BY <1>1 DEF Answer
<1>5. Outcome(engine, u, fault, Answer')
  BY <1>2, <1>4 DEF Outcome
<1>6. QED
  BY <1>1, <1>3, <1>5

-----------------------------------------------------------------------------
\* The inductive invariant of the membership: types, entities whose position and
\* time come together, and a consumer who knows what the engine stores but for
\* what is in doubt.
Inv ==
  /\ TypeOK
  /\ WellFormed(engine.entities)
  /\ ViewIsMembership

LEMMA InitInv == MInit => Inv
<1> SUFFICES ASSUME MInit PROVE Inv
  OBVIOUS
<1>1. /\ engine \in EngineStates(Rules, Sequences)
      /\ WellFormed(engine.entities)
      /\ Inside(engine.entities) = {}
  BY NewEngineType DEF MInit, Init
<1>2. /\ view = {} /\ doubt = {} /\ phys \in [Pairs -> BOOLEAN] /\ since \in [Pairs -> Times \union {None}]
  BY DEF MInit
<1>3. QED
  BY <1>1, <1>2 DEF Inv, TypeOK, ViewIsMembership, WellFormed

LEMMA QuietInv ==
  ASSUME Inv, Quiet, UNCHANGED history
  PROVE  Inv'
<1>1. engine' \in EngineStates(Rules, Sequences) /\ engine'.entities = engine.entities
  BY QuietStep DEF Inv, TypeOK
<1>2. QED
  BY <1>1 DEF Inv, TypeOK, ViewIsMembership, history

LEMMA MProcessInv ==
  ASSUME Inv, NEW u \in Updates, NEW fault, MProcess(u, fault)
  PROVE  Inv'
<1>1. /\ Outcome(engine, u, fault, Answer')
      /\ engine' \in EngineStates(Rules, Sequences)
      /\ WellFormed(engine'.entities)
  BY UpdateStep DEF Inv, TypeOK, MProcess
<1>2. Answer'.engine = engine' /\ Answer'.events = out'.events
  BY DEF Answer
<1>3. Differences(view', engine'.entities) \subseteq doubt'
  <2>1. view' = Heard(view, Answer'.events)
    BY <1>2 DEF MProcess
  <2>2. doubt' = (doubt \ About(Answer'.events, SpatialKinds)) \union Untold(engine, u, fault)
    BY <1>2 DEF MProcess
  <2>3. /\ engine \in EngineStates(Rules, Sequences) /\ WellFormed(engine.entities)
        /\ Differences(view, engine.entities) \subseteq doubt
    BY DEF Inv, TypeOK, ViewIsMembership, Differences
  <2>4. Differences(Heard(view, Answer'.events), Answer'.engine.entities)
          \subseteq (doubt \ About(Answer'.events, SpatialKinds)) \union Untold(engine, u, fault)
    BY <1>1, <2>3, DoubtStep
  <2>5. QED
    BY <1>2, <2>1, <2>2, <2>4
<1>4. view' \subseteq Pairs /\ doubt' \subseteq Pairs
  <2>1. Heard(view, Answer'.events) \subseteq Entities \X Geometries
    BY <1>1, HeardIsPairs DEF Inv, TypeOK, Pairs
  <2>2. Untold(engine, u, fault) \subseteq Entities \X Geometries
    BY UntoldType DEF Inv, TypeOK
  <2>3. QED
    BY <1>2, <2>1, <2>2 DEF MProcess, Pairs, Inv, TypeOK
<1>5. phys' \in [Pairs -> BOOLEAN]
  <2>1. ASSUME NEW g PROVE Covers(engine, g, u.x) \in BOOLEAN
    BY CoversType
  <2>2. CASE ~Stores(engine, u, fault)
    BY <2>2 DEF MProcess, Inv, TypeOK
  <2>3. CASE Stores(engine, u, fault)
    <3>1. phys' = [p \in Pairs |-> IF p[1] = u.id THEN Covers(engine, p[2], u.x) ELSE phys[p]]
      BY <2>3 DEF MProcess
    <3>2. \A p \in Pairs : phys[p] \in BOOLEAN
      BY DEF Inv, TypeOK
    <3>3. QED
      BY <2>1, <3>1, <3>2
  <2>4. QED
    BY <2>2, <2>3
<1>6. since' \in [Pairs -> Times \union {None}]
  <2>1. CASE ~Stores(engine, u, fault)
    BY <2>1 DEF MProcess, Inv, TypeOK
  <2>2. CASE Stores(engine, u, fault)
    <3>1. since' = [p \in Pairs |->
                     IF p[1] = u.id /\ (engine.entities[u.id].last_t_ms = None \/ Covers(engine, p[2], u.x) # phys[p])
                       THEN u.t_ms
                       ELSE since[p]]
      BY <2>2 DEF MProcess
    <3>2. u.t_ms \in Times /\ \A p \in Pairs : since[p] \in Times \union {None}
      BY DEF Inv, TypeOK, Updates
    <3>3. QED
      BY <3>1, <3>2
  <2>3. QED
    BY <2>1, <2>2
<1>7. \A e \in Entities : Len(engine'.entities[e].history) <= HistorySize
  BY <1>1 DEF WellFormed
<1>8. QED
  BY <1>1, <1>3, <1>4, <1>5, <1>6, <1>7 DEF Inv, TypeOK, ViewIsMembership, Differences

LEMMA StutterInv == Inv /\ UNCHANGED allvars => Inv'
BY DEF allvars, Inv, TypeOK, ViewIsMembership

\* Every reachable state satisfies the inductive invariant.
THEOREM Invariance == MSpec => []Inv
<1>1. Inv /\ [MNext]_allvars => Inv'
  BY QuietInv, MProcessInv, StutterInv DEF MNext, Quiet
<1>2. QED
  BY InitInv, <1>1, PTL DEF MSpec

\* Type correctness of the engine and of the consumer's picture.
THEOREM TypeCorrect == MSpec => []TypeOK
BY Invariance, PTL DEF Inv

\* For every number of entities, zones and circles, and every thresholds: the
\* events of the calls that succeeded, folded, are the membership the queries
\* answer from, whatever was refused, failed or restarted, but for the pairs whose
\* latest transition was in a call that failed with its write applied.
THEOREM ViewCorrect == MSpec => []ViewIsMembership
BY Invariance, PTL DEF Inv

-----------------------------------------------------------------------------
LEMMA TimeStep ==
  ASSUME Inv, MNext, NEW e \in Entities
  PROVE  LET last == engine.entities[e].last_t_ms
         IN  /\ last # None => engine'.entities[e].last_t_ms >= last
             /\ out'.error = "monotonicity" /\ out'.update.id = e => last > out'.update.t_ms
<1> DEFINE last == engine.entities[e].last_t_ms
<1>1. last \in Times \union {None} /\ (last # None => last \in Nat)
  BY TimesAssumption DEF Inv, TypeOK, EngineStates, EntityStates
<1>2. ASSUME Quiet
      PROVE  engine'.entities = engine.entities /\ out'.error # "monotonicity"
  <2>1. engine'.entities = engine.entities /\ out' = Nothing
    BY <1>2, QuietStep DEF Inv, TypeOK
  <2>2. QED
    BY <2>1, EngineAssumption DEF Nothing
<1>3. ASSUME NEW u \in Updates, NEW fault, MProcess(u, fault)
      PROVE  /\ last # None => engine'.entities[e].last_t_ms >= last
             /\ out'.error = "monotonicity" /\ out'.update.id = e => last > out'.update.t_ms
  <2>1. Outcome(engine, u, fault, Answer') /\ out'.update = u
    BY <1>3, UpdateStep DEF Inv, TypeOK, MProcess
  <2>2. Answer'.engine = engine' /\ Answer'.error = out'.error
    BY DEF Answer
  <2>3. u.id \in Entities /\ u.t_ms \in Nat /\ engine.entities \in [Entities -> EntityStates]
    BY TimesAssumption DEF Updates, Inv, TypeOK, EngineStates
  <2>4. CASE Stores(engine, u, fault)
    <3>1. engine'.entities = [engine.entities EXCEPT ![u.id] = After(engine, u)]
      BY <2>1, <2>2, <2>4 DEF Outcome
    <3>2. Accepts(engine.entities[u.id], u) /\ out'.error # "monotonicity"
      BY <2>1, <2>2, <2>4 DEF Outcome, Stores
    <3>3. After(engine, u).last_t_ms = u.t_ms
      BY DEF After, Advance
    <3>4. engine'.entities[e] = IF e = u.id THEN After(engine, u) ELSE engine.entities[e]
      BY <2>3, <3>1
    <3>5. last # None => engine'.entities[e].last_t_ms >= last
      BY <1>1, <2>3, <3>2, <3>3, <3>4 DEF Accepts
    <3>6. QED
      BY <3>2, <3>5
  <2>5. CASE ~Stores(engine, u, fault)
    <3>1. engine'.entities = engine.entities
      BY <2>1, <2>2, <2>5 DEF Outcome
    <3>2. out'.error = "monotonicity" => ~Accepts(engine.entities[u.id], u)
      BY <2>1, <2>2 DEF Outcome
    <3>3. QED
      BY <1>1, <2>1, <2>3, <3>1, <3>2 DEF Accepts
  <2>6. QED
    BY <2>4, <2>5
<1>4. QED
  BY <1>1, <1>2, <1>3 DEF MNext, Quiet

\* No entity's time goes back, and only an older update is refused for its time.
THEOREM TimeCorrect == MSpec => TimeMovesForward
<1>1. Inv /\ [MNext]_allvars =>
        [\A e \in Entities :
           LET last == engine.entities[e].last_t_ms
           IN  /\ last # None => engine'.entities[e].last_t_ms >= last
               /\ out'.error = "monotonicity" /\ out'.update.id = e => last > out'.update.t_ms]_allvars
  BY TimeStep
<1>2. QED
  BY Invariance, <1>1, PTL DEF MSpec, TimeMovesForward

-----------------------------------------------------------------------------
\* The events a call would have, those of the sequence rules aside.
Here(eng, u) == {ev \in ProcessEvent(eng, u, None).events : ev.kind # "sequence_complete"}

\* They only depend on the registrations, the configurable rules and the entities.
LEMMA EventsFromState ==
  ASSUME NEW rules, NEW sequences,
         NEW eng \in EngineStates(rules, sequences), NEW other \in EngineStates(rules, sequences),
         other.area = eng.area, other.dwell = eng.dwell, other.entities = eng.entities,
         other.configurable_rules = eng.configurable_rules,
         NEW u \in Updates
  PROVE  Here(other, u) = Here(eng, u)
<1> DEFINE custom(e) == CustomEvents(e, Crossings(e, u), After(e, u).motion, u)
           seq(e) == SequenceEvents(e, Crossings(e, u), u)
<1>1. After(other, u) = After(eng, u)
  BY DEF After, Advance, Covers
<1>2. Crossings(other, u) = Crossings(eng, u)
  BY <1>1 DEF Crossings
<1>3. custom(other) = custom(eng)
  BY <1>1, <1>2 DEF CustomEvents
<1>4. \A e : \A ev \in seq(e) : ev.kind = "sequence_complete"
  BY DEF SequenceEvents
<1>5. \A e : (\A ev \in custom(e) : ev.kind = "custom")
  BY DEF CustomEvents
<1>6. \A e : \A ev \in Crossings(e, u) : ev.kind # "sequence_complete"
  BY DEF Crossings, SpatialEvents, EventKind
<1> HIDE DEF custom, seq
<1>7. ASSUME NEW e \in EngineStates(rules, sequences)
      PROVE  Here(e, u) = IF Accepts(e.entities[u.id], u) THEN Crossings(e, u) \union custom(e) ELSE {}
  <2> DEFINE r == ProcessEvent(e, u, None)
  <2>1. Outcome(e, u, None, r)
    BY ProcessEventOutcome
  <2> HIDE DEF r
  <2>2. r.error = None <=> Accepts(e.entities[u.id], u)
    BY <2>1, EngineAssumption DEF Outcome
  <2>3. r.events = IF r.error = None THEN Crossings(e, u) \union custom(e) \union seq(e) ELSE {}
    BY <2>1 DEF Outcome, custom, seq
  <2>4. Here(e, u) = {ev \in r.events : ev.kind # "sequence_complete"}
    BY DEF Here, r
  <2>5. QED
    BY <1>4, <1>5, <1>6, <2>2, <2>3, <2>4
<1>8. QED
  BY <1>2, <1>3, <1>7

\* Events of the sequence rules aside.
Raised(events) == {ev \in events : ev.kind # "sequence_complete"}

\* A call that changed nothing but the progress of sequence rules can be sent again.
LEMMA RetryUnchanged ==
  ASSUME NEW rules, NEW sequences,
         NEW eng \in EngineStates(rules, sequences), NEW other \in EngineStates(rules, sequences),
         other.area = eng.area, other.dwell = eng.dwell, other.entities = eng.entities,
         other.configurable_rules = eng.configurable_rules,
         NEW u \in Updates, NEW first, Outcome(eng, u, None, first),
         NEW again, Outcome(other, u, None, again)
  PROVE  again.error = first.error /\ again.engine.entities = first.engine.entities
<1>1. None \notin StoreFaults /\ None # "get" /\ None # "monotonicity" /\ None # "state_store"
  BY EngineAssumption DEF StoreFaults
<1>2. /\ first.error \in {None, "monotonicity", "state_store"}
      /\ again.error \in {None, "monotonicity", "state_store"}
      /\ first.error = None <=> Accepts(eng.entities[u.id], u)
      /\ again.error = None <=> Accepts(eng.entities[u.id], u)
      /\ first.error = "monotonicity" <=> ~Accepts(eng.entities[u.id], u)
      /\ again.error = "monotonicity" <=> ~Accepts(eng.entities[u.id], u)
  BY <1>1 DEF Outcome
<1>3. After(other, u) = After(eng, u) /\ (Stores(other, u, None) <=> Stores(eng, u, None))
  BY DEF After, Advance, Covers, Stores
<1>4. again.engine.entities = first.engine.entities
  BY <1>3 DEF Outcome
<1>5. QED
  BY <1>2, <1>4

\* No sequence rule completes in an update without spatial events.
LEMMA NothingCompletes ==
  ASSUME NEW eng, NEW u
  PROVE  SequenceEvents(eng, {}, u) = {} /\ \A motion : CustomEvents(eng, {}, motion, u) = {}
<1>1. Entered({}) = {}
  BY DEF Entered
<1>2. \A rule, progress, t : ~FireSequence(rule, progress, {}, t).complete
  BY DEF FireSequence
<1>3. \A s : ~FireOf(s, {}, u).complete
  BY <1>1, <1>2 DEF FireOf
<1>4. \A rule, motion : ~Fires(rule, {}, motion)
  BY DEF Fires
<1>5. QED
  BY <1>3, <1>4 DEF SequenceEvents, CustomEvents

\* A call whose write was applied can be sent again, too: the entity has taken the
\* update, and takes it once more without moving and without an event.
LEMMA RetryApplied ==
  ASSUME NEW rules, NEW sequences,
         NEW eng \in EngineStates(rules, sequences), WellFormed(eng.entities),
         NEW other \in EngineStates(rules, sequences),
         other.area = eng.area, other.dwell = eng.dwell,
         NEW u \in Updates, Accepts(eng.entities[u.id], u),
         other.entities = [eng.entities EXCEPT ![u.id] = After(eng, u)],
         NEW first, Outcome(eng, u, None, first),
         NEW again, Outcome(other, u, None, again)
  PROVE  /\ first.error = None /\ again.error = None /\ again.events = {}
         /\ \A e \in Entities :
              /\ again.engine.entities[e].position = first.engine.entities[e].position
              /\ again.engine.entities[e].last_t_ms = first.engine.entities[e].last_t_ms
              /\ again.engine.entities[e].presence = first.engine.entities[e].presence
<1> DEFINE st == After(eng, u)
           new == After(other, u)
<1>1. /\ eng.entities \in [Entities -> EntityStates] /\ eng.dwell \in [Geometries -> Dwells]
      /\ u.id \in Entities /\ eng.entities[u.id] \in EntityStates
      /\ other.entities \in [Entities -> EntityStates]
      /\ u.t_ms \in Nat /\ None \notin StoreFaults
  BY TimesAssumption, EngineAssumption DEF EngineStates, Updates
<1>2. other.entities[u.id] = st /\ \A e \in Entities : e # u.id => other.entities[e] = eng.entities[e]
  BY <1>1
<1>3. st.position = u.x /\ st.last_t_ms = u.t_ms /\ new.position = u.x /\ new.last_t_ms = u.t_ms
  BY DEF After, Advance
<1>4. Accepts(other.entities[u.id], u)
  BY <1>1, <1>2, <1>3 DEF Accepts
<1>5. Settled(eng, st, u)
  BY <1>1, AdvanceSettles DEF After
<1>6. new.presence = st.presence
  <2>1. new.presence = [g \in Geometries |->
           DwellStep(st.presence[g], Covers(other, g, u.x), u.t_ms, other.dwell[g])]
    BY <1>2 DEF After, Advance
  <2>2. \A g : Covers(other, g, u.x) = Covers(eng, g, u.x)
    BY DEF Covers
  <2>3. st.presence = [g \in Geometries |-> st.presence[g]]
    BY <1>1, <1>2 DEF EntityStates
  <2> HIDE DEF st, new
  <2>4. \A g \in Geometries :
          DwellStep(st.presence[g], Covers(other, g, u.x), u.t_ms, other.dwell[g]) = st.presence[g]
    BY <1>5, <2>2 DEF Settled
  <2>5. new.presence = [g \in Geometries |-> st.presence[g]]
    BY <2>1, <2>4
  <2>6. QED
    BY <2>3, <2>5
<1>7. first.error = None /\ again.error = None
  BY <1>1, <1>4 DEF Outcome
<1>8. /\ first.engine.entities = [eng.entities EXCEPT ![u.id] = st]
      /\ again.engine.entities = [other.entities EXCEPT ![u.id] = new]
  BY <1>7 DEF Outcome, Stores, StoreFaults
<1>9. again.events = {}
  <2>1. Crossings(other, u) = {}
    BY <1>2, <1>6 DEF Crossings, SpatialEvents
  <2>2. again.events = {} \union CustomEvents(other, {}, new.motion, u) \union SequenceEvents(other, {}, u)
    BY <1>7, <2>1 DEF Outcome
  <2>3. QED
    BY <2>2, NothingCompletes
<1> HIDE DEF st, new
<1>10. ASSUME NEW e \in Entities
       PROVE  /\ again.engine.entities[e].position = first.engine.entities[e].position
              /\ again.engine.entities[e].last_t_ms = first.engine.entities[e].last_t_ms
              /\ again.engine.entities[e].presence = first.engine.entities[e].presence
  <2>1. CASE e = u.id
    BY <1>1, <1>3, <1>6, <1>8, <2>1
  <2>2. CASE e # u.id
    BY <1>1, <1>2, <1>8, <2>2
  <2>3. QED
    BY <2>1, <2>2
<1>11. QED
  BY <1>7, <1>9, <1>10

\* The second call ends as the first one would have.
EndsTheSame(first, again) ==
  /\ again.error = first.error
  /\ \A e \in Entities :
       LET there == first.engine.entities[e]
           here  == again.engine.entities[e]
       IN  /\ here.position = there.position
           /\ here.last_t_ms = there.last_t_ms
           /\ here.presence = there.presence

\* What is told of it, then or now.
ToldOnce(first, again) ==
  \/ Raised(again.events) = Raised(first.events)
  \/ again.events = {} /\ About(first.events, SpatialKinds) \subseteq doubt'

LEMMA RetryStep ==
  ASSUME Inv, MNext, out'.error # None
  PROVE  /\ EndsTheSame(ProcessEvent(engine, out'.update, None), ProcessEvent(engine', out'.update, None))
         /\ ToldOnce(ProcessEvent(engine, out'.update, None), ProcessEvent(engine', out'.update, None))
<1>1. engine \in EngineStates(Rules, Sequences) /\ WellFormed(engine.entities)
  BY DEF Inv, TypeOK
<1>2. ~Quiet
  <2>1. Quiet => out' = Nothing
    BY <1>1, QuietStep
  <2>2. QED
    BY <2>1 DEF Nothing
<1>3. PICK u \in Updates, fault \in Faults \union {None} : MProcess(u, fault)
  BY <1>2 DEF MNext, Quiet
<1>4. /\ Outcome(engine, u, fault, Answer') /\ engine' \in EngineStates(Rules, Sequences)
      /\ out'.update = u
  BY <1>1, <1>3, UpdateStep DEF MProcess
<1>5. Answer'.engine = engine' /\ Answer'.error = out'.error
  BY DEF Answer
<1> DEFINE first == ProcessEvent(engine, u, None)
           again == ProcessEvent(engine', u, None)
<1>6. Outcome(engine, u, None, first) /\ Outcome(engine', u, None, again)
  BY <1>1, <1>4, ProcessEventOutcome
<1>7. /\ engine'.area = engine.area /\ engine'.dwell = engine.dwell
      /\ engine'.configurable_rules = engine.configurable_rules
  BY <1>4, <1>5 DEF Outcome
<1>8. CASE ~Stores(engine, u, fault)
  <2>1. engine'.entities = engine.entities
    BY <1>4, <1>5, <1>8 DEF Outcome
  <2>2. Here(engine', u) = Here(engine, u)
    BY <1>1, <1>4, <1>7, <2>1, EventsFromState
  <2>3. Raised(again.events) = Raised(first.events)
    BY <2>2 DEF Here, Raised
  <2> HIDE DEF first, again
  <2>4. again.error = first.error /\ again.engine.entities = first.engine.entities
    BY <1>1, <1>4, <1>6, <1>7, <2>1, RetryUnchanged
  <2>5. EndsTheSame(first, again) /\ ToldOnce(first, again)
    BY <2>3, <2>4 DEF EndsTheSame, ToldOnce
  <2>6. QED
    BY <1>4, <2>5 DEF first, again
<1>9. CASE Stores(engine, u, fault)
  <2>1. /\ engine'.entities = [engine.entities EXCEPT ![u.id] = After(engine, u)]
        /\ Accepts(engine.entities[u.id], u) /\ fault = "lost"
    BY <1>4, <1>5, <1>9 DEF Outcome, Stores, StoreFaults
  <2>2. About(first.events, SpatialKinds) \subseteq doubt'
    BY <1>3, <2>1 DEF MProcess, Untold
  <2> HIDE DEF first, again
  <2>3. /\ first.error = None /\ again.error = None /\ again.events = {}
        /\ \A e \in Entities :
             /\ again.engine.entities[e].position = first.engine.entities[e].position
             /\ again.engine.entities[e].last_t_ms = first.engine.entities[e].last_t_ms
             /\ again.engine.entities[e].presence = first.engine.entities[e].presence
    BY <1>1, <1>4, <1>6, <1>7, <2>1, RetryApplied
  <2>4. EndsTheSame(first, again) /\ ToldOnce(first, again)
    BY <2>2, <2>3 DEF EndsTheSame, ToldOnce
  <2>5. QED
    BY <1>4, <2>4 DEF first, again
<1>10. QED
  BY <1>8, <1>9

\* Whichever call to the store fails, and whether or not a failing write was applied:
\* the update sent again leaves every entity where the call would have left it, and
\* is told as the call would have been, or not at all if the write had been applied.
THEOREM RetryCorrect == MSpec => RetryEndsTheSame
<1>1. Inv /\ [MNext]_allvars =>
        [out'.error # None =>
           /\ EndsTheSame(ProcessEvent(engine, out'.update, None), ProcessEvent(engine', out'.update, None))
           /\ ToldOnce(ProcessEvent(engine, out'.update, None), ProcessEvent(engine', out'.update, None))]_allvars
  BY RetryStep
<1>2. Inv /\ [MNext]_allvars =>
        [out'.error # None =>
           LET first == ProcessEvent(engine, out'.update, None)
               again == ProcessEvent(engine', out'.update, None)
               Events(result) == {ev \in result.events : ev.kind # "sequence_complete"}
           IN  /\ again.error = first.error
               /\ \A e \in Entities :
                    LET there == first.engine.entities[e]
                        here  == again.engine.entities[e]
                    IN  /\ here.position = there.position
                        /\ here.last_t_ms = there.last_t_ms
                        /\ here.presence = there.presence
               /\ \/ Events(again) = Events(first)
                  \/ again.events = {} /\ About(first.events, SpatialKinds) \subseteq doubt']_allvars
  BY <1>1 DEF EndsTheSame, ToldOnce, Raised
<1>3. QED
  BY Invariance, <1>2, PTL DEF MSpec, RetryEndsTheSame

-----------------------------------------------------------------------------
LEMMA InitDwell ==
  ASSUME MInit, NEW e \in Entities, NEW g \in Geometries
  PROVE  Machine(e, g)!DwellInit
<1>1. /\ engine.entities[e].presence[g] = Outside
      /\ engine.entities[e].last_t_ms = None
      /\ engine.area[g] = None /\ engine.dwell[g] = NoDwell
  BY DEF MInit, Init, NewEngine, NewEntity
<1>2. phys[<<e, g>>] = FALSE /\ since[<<e, g>>] = None
  BY DEF MInit, Pairs
<1>3. QED
  BY <1>1, <1>2 DEF Machine!DwellInit, Machine!Outside, Machine!NoDwell, Outside, NoDwell

\* A call that is not an update registers the geometry or does not concern it.
LEMMA QuietDwell ==
  ASSUME Inv, Quiet, UNCHANGED history, NEW e \in Entities, NEW g \in Geometries
  PROVE  [Machine(e, g)!DwellNext]_(Machine(e, g)!dwellvars)
<1>1. engine.area \in [Geometries -> Areas \union {None}] /\ engine.dwell \in [Geometries -> Dwells]
  BY DEF Inv, TypeOK, EngineStates
<1>2. engine'.entities = engine.entities /\ phys' = phys /\ since' = since
  BY QuietStep DEF Inv, TypeOK, history
<1>3. CASE engine'.area = engine.area /\ engine'.dwell = engine.dwell
  BY <1>2, <1>3 DEF Machine!dwellvars
<1>4. ASSUME NEW h \in Geometries, NEW area \in Areas, NEW d \in DwellConfigs, Registers(h, area, d)
      PROVE  [Machine(e, g)!DwellNext]_(Machine(e, g)!dwellvars)
  <2>1. CASE h = g
    <3>1. engine.area[g] = None /\ engine'.area[g] # None /\ engine'.dwell[g] = d
      BY <1>1, <1>4, <2>1, EngineAssumption DEF Registers
    <3>2. Machine(e, g)!Register(d)
      BY <1>2, <3>1 DEF Machine!Register
    <3>3. QED
      BY <3>2 DEF Machine!DwellNext
  <2>2. CASE h # g
    <3>1. engine'.area[g] = engine.area[g] /\ engine'.dwell[g] = engine.dwell[g]
      BY <1>1, <1>4, <2>2 DEF Registers
    <3>2. QED
      BY <1>2, <3>1 DEF Machine!dwellvars
  <2>3. QED
    BY <2>1, <2>2
<1>5. QED
  BY <1>3, <1>4, QuietStep DEF Inv, TypeOK

\* An update whose write is applied is one observation of every geometry for its entity.
LEMMA MProcessDwell ==
  ASSUME Inv, NEW u \in Updates, NEW fault, MProcess(u, fault),
         NEW e \in Entities, NEW g \in Geometries
  PROVE  [Machine(e, g)!DwellNext]_(Machine(e, g)!dwellvars)
<1> DEFINE st == engine.entities[e]
           side == Covers(engine, g, u.x)
<1>1. /\ engine.entities \in [Entities -> EntityStates]
      /\ phys \in [Pairs -> BOOLEAN] /\ <<e, g>> \in Pairs
  BY DEF Inv, TypeOK, EngineStates, Pairs
<1>2. Outcome(engine, u, fault, Answer')
  BY UpdateStep DEF Inv, TypeOK, MProcess
<1>3. Answer'.engine = engine' /\ Answer'.error = out'.error
  BY DEF Answer
<1>4. engine'.area = engine.area /\ engine'.dwell = engine.dwell
  BY <1>2, <1>3 DEF Outcome
<1>5. CASE ~Stores(engine, u, fault)
  <2>1. engine'.entities = engine.entities
    BY <1>2, <1>3, <1>5 DEF Outcome
  <2>2. UNCHANGED <<phys, since>>
    BY <1>5 DEF MProcess
  <2>3. QED
    BY <1>4, <2>1, <2>2 DEF Machine!dwellvars
<1>6. CASE Stores(engine, u, fault)
  <2>1. /\ Accepts(engine.entities[u.id], u)
        /\ engine'.entities = [engine.entities EXCEPT ![u.id] = After(engine, u)]
    BY <1>2, <1>3, <1>6 DEF Outcome, Stores
  <2>2. /\ phys' = [p \in Pairs |-> IF p[1] = u.id THEN Covers(engine, p[2], u.x) ELSE phys[p]]
        /\ since' = [p \in Pairs |->
                     IF p[1] = u.id /\ (engine.entities[u.id].last_t_ms = None \/ Covers(engine, p[2], u.x) # phys[p])
                       THEN u.t_ms
                       ELSE since[p]]
    BY <1>6 DEF MProcess
  <2>3. CASE e # u.id
    <3>1. engine'.entities[e] = engine.entities[e]
      BY <1>1, <2>1, <2>3
    <3>2. phys'[<<e, g>>] = phys[<<e, g>>] /\ since'[<<e, g>>] = since[<<e, g>>]
      BY <1>1, <2>2, <2>3
    <3>3. QED
      BY <1>4, <3>1, <3>2 DEF Machine!dwellvars
  <2>4. CASE e = u.id
    <3>1. engine'.entities[e] = After(engine, u)
      BY <1>1, <2>1, <2>4
    <3>2. /\ engine'.entities[e].last_t_ms = u.t_ms
          /\ engine'.entities[e].presence[g] = DwellStep(st.presence[g], side, u.t_ms, engine.dwell[g])
      BY <2>4, <3>1 DEF After, Advance
    <3>3. /\ phys'[<<e, g>>] = side
          /\ since'[<<e, g>>] = IF st.last_t_ms = None \/ side # phys[<<e, g>>] THEN u.t_ms ELSE since[<<e, g>>]
      BY <1>1, <2>2, <2>4
    <3>4. side \in BOOLEAN /\ (side => engine.area[g] # None) /\ u.t_ms \in Times
      BY DEF Covers, Updates
    <3>5. st.last_t_ms # None => u.t_ms >= st.last_t_ms
      BY <2>1, <2>4 DEF Accepts
    <3> HIDE DEF side
    <3>6. Machine(e, g)!Observe(u.t_ms, side)
      BY <1>4, <3>2, <3>3, <3>4, <3>5
         DEF Machine!Observe, Machine!DwellStep, Machine!Waited, Machine!WaitingSince,
             Machine!MinDwell, Machine!SaturatingSub,
             DwellStep, Waited, WaitingSince, MinDwell, SaturatingSub
    <3>7. QED
      BY <3>4, <3>6 DEF Machine!DwellNext
  <2>5. QED
    BY <2>3, <2>4
<1>7. QED
  BY <1>5, <1>6

\* For every entity and geometry the engine is the machine of module Dwell, so
\* what RuleProofs shows of that machine holds of every pair in the engine.
THEOREM Refinement == MSpec => ImplementsDwell
<1>1. MInit => \A e \in Entities, g \in Geometries : Machine(e, g)!DwellInit
  BY InitDwell
<1>2. Inv /\ [MNext]_allvars =>
        [\A e \in Entities, g \in Geometries : [Machine(e, g)!DwellNext]_(Machine(e, g)!dwellvars)]_allvars
  BY QuietDwell, MProcessDwell DEF MNext, Quiet
<1>3. QED
  BY Invariance, <1>1, <1>2, PTL DEF MSpec, ImplementsDwell

-----------------------------------------------------------------------------
\* The consumer sees the transition a trigger waits for, unless it is in doubt,
\* exactly when the update has the event the trigger names.
LEMMA CrossedIsEvent ==
  ASSUME Inv, Inv', NEW u \in Updates, NEW fault, Outcome(engine, u, fault, Answer'), out'.error = None,
         NEW e \in Entities, NEW trigger, trigger.event_kind \in SpatialKinds,
         Watched(trigger, e) \notin doubt, Watched(trigger, e) \notin doubt'
  PROVE  Crossed(trigger, e) <=>
           /\ e = u.id
           /\ \E ev \in Crossings(engine, u) :
                ev.kind = trigger.event_kind /\ ev.name = trigger.target_id
<1> DEFINE before == engine.entities[u.id]
           after == After(engine, u)
           arrives == trigger.event_kind \in {"enter", "approach"}
           tier == IF trigger.event_kind \in {"enter", "exit"} THEN "zone" ELSE "circle"
           g == <<tier, trigger.target_id>>
           p == <<e, g>>
<1>1. Crossed(trigger, e) <=> (p \in view <=> ~arrives) /\ (p \in view' <=> arrives)
  BY DEF Crossed, Watched
<1>2. /\ p \in view <=> p \in Inside(engine.entities)
      /\ p \in view' <=> p \in Inside(engine'.entities)
      /\ u.id \in Entities /\ engine.entities \in [Entities -> EntityStates]
  BY DEF Inv, ViewIsMembership, Updates, TypeOK, EngineStates, Watched
<1>3. engine'.entities = [engine.entities EXCEPT ![u.id] = after] /\ after = engine'.entities[u.id]
  BY <1>2 DEF Answer, Outcome, Stores, StoreFaults
<1>4. before \in EntityStates /\ after \in EntityStates
  BY <1>2, <1>3 DEF Inv, TypeOK, EngineStates
<1>5. /\ \A h \in Geometries :
           before.presence[h].inside \in BOOLEAN /\ after.presence[h].inside \in BOOLEAN
      /\ g \in Geometries =>
           /\ p \in view <=> engine.entities[e].presence[g].inside
           /\ p \in view' <=> engine'.entities[e].presence[g].inside
  BY <1>2, <1>4 DEF EntityStates, Presences, Inside
<1>6. engine'.entities[e] = IF e = u.id THEN after ELSE engine.entities[e]
  BY <1>2, <1>3
<1>7. p \in view \/ p \in view' => g \in Geometries
  BY <1>2 DEF Inside
<1>8. EventKind(g, arrives) = trigger.event_kind /\ arrives \in BOOLEAN
  BY DEF EventKind, SpatialKinds
<1>9. \A h \in Geometries, b \in BOOLEAN :
        EventKind(h, b) = trigger.event_kind /\ h[2] = trigger.target_id => h = g /\ b = arrives
  BY DEF EventKind, SpatialKinds, Geometries
<1>10. Crossings(engine, u) = SpatialEvents(before, after, u)
  BY DEF Crossings
<1> HIDE DEF before, after
<1>11. ASSUME Crossed(trigger, e)
       PROVE  /\ e = u.id
              /\ \E ev \in Crossings(engine, u) :
                   ev.kind = trigger.event_kind /\ ev.name = trigger.target_id
  <2>1. (p \in view <=> ~arrives) /\ (p \in view' <=> arrives)
    BY <1>1, <1>11
  <2>2. g \in Geometries
    BY <1>7, <2>1
  <2> HIDE DEF g, arrives
  <2>3. e = u.id
    BY <1>5, <1>6, <2>1, <2>2
  <2>4. before = engine.entities[e]
    BY <2>3 DEF before
  <2>5. after.presence[g].inside = arrives /\ before.presence[g].inside # after.presence[g].inside
    BY <1>5, <1>6, <1>8, <2>1, <2>2, <2>3, <2>4
  <2>6. PICK ev \in SpatialEvents(before, after, u) :
          ev.kind = EventKind(g, after.presence[g].inside) /\ ev.name = g[2]
    BY <2>2, <2>5, SpatialEventOf
  <2>7. ev.kind = trigger.event_kind /\ ev.name = trigger.target_id
    BY <1>8, <2>5, <2>6 DEF g
  <2>8. QED
    BY <1>10, <2>3, <2>6, <2>7
<1>12. ASSUME e = u.id, NEW ev \in Crossings(engine, u),
              ev.kind = trigger.event_kind, ev.name = trigger.target_id
       PROVE  Crossed(trigger, e)
  <2>1. PICK h \in Geometries :
          /\ before.presence[h].inside # after.presence[h].inside
          /\ ev.kind = EventKind(h, after.presence[h].inside)
          /\ ev.name = h[2]
    BY <1>10, SpatialEventSubject
  <2>2. h = g /\ after.presence[h].inside = arrives
    BY <1>5, <1>9, <1>12, <2>1
  <2> HIDE DEF g, arrives
  <2>3. before = engine.entities[e] /\ after = engine'.entities[e]
    BY <1>6, <1>12 DEF before
  <2>4. (p \in view <=> ~arrives) /\ (p \in view' <=> arrives)
    BY <1>5, <2>1, <2>2, <2>3
  <2>5. QED
    BY <1>1, <2>4 DEF g, arrives
<1>13. QED
  BY <1>11, <1>12

LEMMA RuleStep ==
  ASSUME Inv, Inv', MNext, NEW i \in DOMAIN engine.configurable_rules, NEW e \in Entities,
         engine.configurable_rules[i].filters = {},
         \A trigger \in engine.configurable_rules[i].triggers : Watched(trigger, e) \notin doubt
  PROVE  (\E ev \in out'.events : ev.kind = "custom" /\ ev.rule = i /\ ev.id = e)
         <=> (\E trigger \in engine.configurable_rules[i].triggers : Crossed(trigger, e))
<1> DEFINE rule == engine.configurable_rules[i]
<1>1. engine \in EngineStates(Rules, Sequences) /\ WellFormed(engine.entities)
  BY DEF Inv, TypeOK
<1>2. rule \in Rules /\ \A trigger \in rule.triggers : trigger.event_kind \in SpatialKinds
  <2>1. engine.configurable_rules \in Seq(Rules)
    BY <1>1 DEF EngineStates
  <2>2. rule \in Rules
    BY <2>1
  <2>3. QED
    BY <2>2, EngineInputs
<1>3. view' = view => \A trigger : ~Crossed(trigger, e)
  BY DEF Crossed
<1> DEFINE fires == \E ev \in out'.events : ev.kind = "custom" /\ ev.rule = i /\ ev.id = e
           crosses == \E trigger \in rule.triggers : Crossed(trigger, e)
<1>4. out'.events = {} /\ view' = view => (fires <=> crosses)
  BY <1>3
<1>5. CASE Quiet /\ UNCHANGED history
  BY <1>1, <1>4, <1>5, QuietStep DEF Nothing, history
<1>6. ASSUME NEW u \in Updates, NEW fault, MProcess(u, fault)
      PROVE  fires <=> crosses
  <2>1. Outcome(engine, u, fault, Answer')
    BY <1>1, <1>6, UpdateStep DEF MProcess
  <2>2. Answer'.events = out'.events /\ Answer'.error = out'.error
    BY DEF Answer
  <2>3. CASE out'.error # None
    <3>1. out'.events = {}
      BY <2>1, <2>2, <2>3 DEF Outcome
    <3>2. view' = Heard(view, out'.events)
      BY <1>6 DEF MProcess
    <3>3. view' = view
      BY <3>1, <3>2 DEF Heard, About
    <3>4. QED
      BY <1>4, <3>1, <3>3
  <2>4. CASE out'.error = None
    <3> DEFINE matches == \E trigger \in rule.triggers : \E ev \in Crossings(engine, u) :
                            ev.kind = trigger.event_kind /\ ev.name = trigger.target_id
    <3>1. out'.events = Crossings(engine, u)
            \union CustomEvents(engine, Crossings(engine, u), After(engine, u).motion, u)
            \union SequenceEvents(engine, Crossings(engine, u), u)
      BY <2>1, <2>2, <2>4 DEF Outcome
    <3>2. Fires(rule, Crossings(engine, u), After(engine, u).motion) <=> matches
      BY DEF Fires
    <3>3. \A ev \in Crossings(engine, u) : ev.kind # "custom"
      BY DEF Crossings, SpatialEvents, EventKind
    <3>4. \A ev \in SequenceEvents(engine, Crossings(engine, u), u) : ev.kind # "custom"
      BY DEF SequenceEvents
    <3>5. (\E ev \in CustomEvents(engine, Crossings(engine, u), After(engine, u).motion, u) :
             ev.kind = "custom" /\ ev.rule = i /\ ev.id = e)
          <=> e = u.id /\ matches
      <4> DEFINE custom == CustomEvents(engine, Crossings(engine, u), After(engine, u).motion, u)
      <4>1. /\ \A ev \in custom : ev.kind = "custom" /\ ev.id = u.id
            /\ (\E ev \in custom : ev.rule = i)
               <=> Fires(rule, Crossings(engine, u), After(engine, u).motion)
        BY CustomEventOf
      <4> HIDE DEF matches, custom, rule
      <4>2. QED
        BY <3>2, <4>1 DEF custom
    <3>6. fires <=> e = u.id /\ matches
      <4> HIDE DEF matches
      <4>1. QED
        BY <3>1, <3>3, <3>4, <3>5
    <3>7. \A trigger \in rule.triggers :
            Crossed(trigger, e) <=>
              /\ e = u.id
              /\ \E ev \in Crossings(engine, u) :
                   ev.kind = trigger.event_kind /\ ev.name = trigger.target_id
      <4>1. fault # "lost"
        BY <2>1, <2>2, <2>4 DEF Outcome, StoreFaults
      <4>2. doubt' \subseteq doubt
        BY <1>6, <4>1 DEF MProcess, Untold
      <4>3. \A trigger \in rule.triggers : Watched(trigger, e)' = Watched(trigger, e)
        BY DEF Watched
      <4>4. \A trigger \in rule.triggers : Watched(trigger, e) \notin doubt /\ Watched(trigger, e) \notin doubt'
        BY <4>2
      <4>5. QED
        BY <1>2, <2>1, <2>4, <4>4, CrossedIsEvent
    <3>8. QED
      BY <3>6, <3>7
  <2>5. QED
    BY <2>3, <2>4
<1>7. QED
  BY <1>5, <1>6 DEF MNext, Quiet

\* A rule without filters fires exactly when the consumer's picture changes the
\* way one of its triggers says, however many rules and geometries there are, if
\* none of the pairs its triggers watch is in doubt.
THEOREM RuleCorrect == MSpec => RuleFiresOnItsTransition
<1>1. Inv /\ Inv' /\ [MNext]_allvars =>
        [\A i \in DOMAIN engine.configurable_rules, e \in Entities :
           LET rule == engine.configurable_rules[i]
           IN  rule.filters = {} /\ (\A trigger \in rule.triggers : Watched(trigger, e) \notin doubt) =>
                 ( (\E ev \in out'.events : ev.kind = "custom" /\ ev.rule = i /\ ev.id = e)
                   <=> (\E trigger \in rule.triggers : Crossed(trigger, e)) )]_allvars
  BY RuleStep
<1>2. QED
  BY Invariance, <1>1, PTL DEF MSpec, RuleFiresOnItsTransition

-----------------------------------------------------------------------------
\* The record of accepted updates is only added to the machine of EngineMembership.
THEOREM TrailIsMembership == TSpec => MSpec
<1>1. TInit => MInit
  BY DEF TInit
<1>2. [TNext]_trailvars => [MNext]_allvars
  <2>1. ASSUME NEW u \in Updates, NEW fault \in Faults \union {None}, TProcess(u, fault)
        PROVE  MNext
    BY <2>1 DEF TProcess, MNext
  <2>2. ASSUME Quiet, UNCHANGED <<history, accepted>>
        PROVE  MNext
    BY <2>2 DEF MNext, Quiet
  <2>3. UNCHANGED trailvars => UNCHANGED allvars
    BY DEF trailvars, allvars
  <2>4. QED
    BY <2>1, <2>2, <2>3 DEF TNext, Quiet
<1>3. QED
  BY <1>1, <1>2, PTL DEF TSpec, MSpec

\* What holds of the engine and its consumer holds while updates are recorded.
THEOREM TrailInvariance == TSpec => []Inv
BY TrailIsMembership, Invariance, PTL

Samples == [x : Points, t_ms : Times]

LEMMA LatestType ==
  ASSUME NEW S, NEW s \in Seq(S), NEW n \in Nat
  PROVE  /\ Latest(s, n) \in Seq(S)
         /\ Len(Latest(s, n)) = IF Len(s) <= n THEN Len(s) ELSE n
         /\ \A i \in 1 .. Len(Latest(s, n)) : Latest(s, n)[i] = s[Len(s) - Len(Latest(s, n)) + i]
<1>1. Len(s) \in Nat
  OBVIOUS
<1>2. CASE Len(s) <= n
  BY <1>1, <1>2 DEF Latest
<1>3. CASE Len(s) > n
  <2> DEFINE m == Len(s) - n + 1
             l == SubSeq(s, m, Len(s))
  <2>1. Latest(s, n) = l
    BY <1>1, <1>3 DEF Latest
  <2>2. m \in Int /\ m >= 1 /\ \A i \in m .. Len(s) : s[i] \in S
    BY <1>1, <1>3
  <2>3. /\ l \in Seq(S)
        /\ Len(l) = IF m <= Len(s) THEN Len(s) - m + 1 ELSE 0
        /\ \A i \in 1 .. Len(s) - m + 1 : l[i] = s[m + i - 1]
    <3> HIDE DEF m
    <3>1. QED
      BY <1>1, <2>2, SubSeqProperties
  <2> HIDE DEF l
  <2>4. Len(l) = n
    BY <1>1, <1>3, <2>3
  <2>5. QED
    BY <1>1, <1>3, <2>1, <2>3, <2>4
<1>4. QED
  BY <1>1, <1>2, <1>3

\* The ring buffer of the latest samples, with one more, is again the latest samples.
LEMMA RememberLatest ==
  ASSUME NEW S, NEW s \in Seq(S), NEW a \in S
  PROVE  Remember(Latest(s, HistorySize), a) = Latest(Append(s, a), HistorySize)
<1> DEFINE n == HistorySize
           h == Latest(s, n)
           t == Append(s, a)
           l == Latest(t, n)
           r == Remember(h, a)
<1>1. /\ n \in Nat /\ Len(s) \in Nat /\ t \in Seq(S) /\ Len(t) = Len(s) + 1
      /\ \A i \in 1 .. Len(s) : t[i] = s[i]
      /\ t[Len(t)] = a
  BY EngineAssumption
<1>2. /\ h \in Seq(S)
      /\ Len(h) = IF Len(s) <= n THEN Len(s) ELSE n
      /\ \A i \in 1 .. Len(h) : h[i] = s[Len(s) - Len(h) + i]
  BY <1>1, LatestType
<1>3. /\ l \in Seq(S)
      /\ Len(l) = IF Len(t) <= n THEN Len(t) ELSE n
      /\ \A i \in 1 .. Len(l) : l[i] = t[Len(t) - Len(l) + i]
  <2> HIDE DEF t
  <2>1. l = Latest(t, n) /\ n \in Nat /\ t \in Seq(S)
    BY <1>1
  <2> HIDE DEF l, n
  <2>2. QED
    BY <2>1, LatestType
<1>4. r = IF n = 0 THEN h ELSE Append(IF Len(h) >= n THEN Tail(h) ELSE h, a)
  BY DEF Remember
<1> HIDE DEF n, h, t, l, r
<1>5. r \in Seq(S) /\ Len(r) = Len(l) /\ \A i \in 1 .. Len(r) : r[i] = l[i]
  <2>1. CASE n = 0
    BY <1>1, <1>2, <1>3, <1>4, <2>1
  <2>2. CASE n # 0 /\ Len(s) < n
    <3>1. r = Append(h, a) /\ Len(h) = Len(s) /\ Len(l) = Len(t)
      BY <1>1, <1>2, <1>3, <1>4, <2>2
    <3>2. \A i \in 1 .. Len(t) : l[i] = t[i]
      <4>1. \A i \in 1 .. Len(t) : Len(t) - Len(l) + i = i
        BY <1>1, <3>1
      <4>2. QED
        BY <1>3, <3>1, <4>1
    <3>3. \A i \in 1 .. Len(s) : r[i] = s[i]
      <4>1. \A i \in 1 .. Len(s) : Len(s) - Len(h) + i = i
        BY <1>1, <3>1
      <4>2. \A i \in 1 .. Len(s) : r[i] = h[i]
        BY <1>2, <3>1
      <4>3. QED
        BY <1>2, <3>1, <4>1, <4>2
    <3>4. Len(r) = Len(s) + 1 /\ r[Len(s) + 1] = a /\ r \in Seq(S)
      BY <1>1, <1>2, <3>1
    <3>5. QED
      BY <1>1, <3>1, <3>2, <3>3, <3>4
  <2>3. CASE n # 0 /\ Len(s) >= n
    <3> DEFINE q == Tail(h)
    <3>1. r = Append(q, a) /\ Len(h) = n /\ Len(l) = n /\ h # <<>>
      BY <1>1, <1>2, <1>3, <1>4, <2>3
    <3>2. q \in Seq(S) /\ Len(q) = n - 1 /\ \A i \in 1 .. n - 1 : q[i] = h[i + 1]
      BY <1>1, <1>2, <3>1, HeadTailProperties
    <3> HIDE DEF q
    <3>3. r \in Seq(S) /\ Len(r) = n /\ r[n] = a /\ \A i \in 1 .. n - 1 : r[i] = q[i]
      BY <1>1, <3>1, <3>2
    <3>4. ASSUME NEW i \in 1 .. n - 1
          PROVE  r[i] = l[i]
      <4> DEFINE k == Len(s) - n + (i + 1)
      <4>1. i + 1 \in 1 .. Len(h) /\ i \in 1 .. Len(l)
        BY <1>1, <3>1
      <4>2. Len(t) - Len(l) + i = k /\ Len(s) - Len(h) + (i + 1) = k /\ k \in 1 .. Len(s)
        <5>1. /\ Len(t) = Len(s) + 1 /\ Len(l) = n /\ Len(h) = n
              /\ n \in Int /\ Len(s) \in Int /\ Len(s) >= n
              /\ i \in Int /\ 1 <= i /\ i <= n - 1
          BY <1>1, <2>3, <3>1
        <5>2. QED
          BY <5>1
      <4>3. r[i] = h[i + 1] /\ h[i + 1] = s[Len(s) - Len(h) + (i + 1)]
        BY <1>2, <3>2, <3>3, <4>1
      <4>4. l[i] = t[Len(t) - Len(l) + i]
        BY <1>3, <4>1
      <4> HIDE DEF k
      <4>5. QED
        BY <1>1, <4>2, <4>3, <4>4
    <3>6. l[n] = a
      <4>1. Len(t) - Len(l) + n = Len(t) /\ n \in 1 .. Len(l)
        BY <1>1, <2>3, <3>1
      <4>2. QED
        BY <1>1, <1>3, <4>1
    <3>7. \A i \in 1 .. n : i \in 1 .. n - 1 \/ i = n
      BY <1>1
    <3>8. QED
      BY <3>1, <3>3, <3>4, <3>6, <3>7
  <2>4. QED
    BY <1>1, <2>1, <2>2, <2>3
<1>6. r = l
  BY <1>3, <1>5, SeqEqual
<1>7. QED
  BY <1>6 DEF r, l, h, t, n

-----------------------------------------------------------------------------
\* The motion from the last sample but one to the last.
LastMotion(samples) ==
  IF Len(samples) < 2
    THEN None
    ELSE LET from == samples[Len(samples) - 1]
         IN  Motion([position |-> from.x, last_t_ms |-> from.t_ms], samples[Len(samples)])

\* The inductive invariant of the trail: what an entity's state says is said by
\* its accepted updates, the last of which is not older than the one before.
TrailInv ==
  /\ accepted \in [Entities -> Seq(Samples)]
  /\ StateIsLatestSamples
  /\ \A e \in Entities :
       LET s == accepted[e]
       IN  /\ engine.entities[e].motion = LastMotion(s)
           /\ Len(s) > 1 => s[Len(s) - 1].t_ms <= s[Len(s)].t_ms

\* What the invariant says of one entity.
Recorded(st, s) ==
  /\ s \in Seq(Samples)
  /\ st.history = Latest(s, HistorySize)
  /\ IF s = <<>>
       THEN st.position = None /\ st.last_t_ms = None
       ELSE /\ st.position = s[Len(s)].x
            /\ st.last_t_ms = s[Len(s)].t_ms
  /\ st.motion = LastMotion(s)
  /\ Len(s) > 1 => s[Len(s) - 1].t_ms <= s[Len(s)].t_ms

LEMMA TrailInvIsRecorded ==
  ASSUME accepted \in [Entities -> Seq(Samples)]
  PROVE  TrailInv <=> \A e \in Entities : Recorded(engine.entities[e], accepted[e])
BY DEF TrailInv, StateIsLatestSamples, Recorded

LEMMA NewRecorded == Recorded(NewEntity, <<>>)
<1>1. Len(<<>>) = 0 /\ <<>> \in Seq(Samples) /\ HistorySize \in Nat
  BY EngineAssumption
<1>2. QED
  BY <1>1 DEF Recorded, NewEntity, Latest, LastMotion

\* One more accepted update is recorded.
LEMMA AdvanceRecorded ==
  ASSUME NEW eng, NEW st, NEW s, Recorded(st, s), NEW u \in Updates, Accepts(st, u)
  PROVE  Recorded(Advance(eng, st, u), Append(s, [x |-> u.x, t_ms |-> u.t_ms]))
<1> DEFINE a == [x |-> u.x, t_ms |-> u.t_ms]
           t == Append(s, a)
           n == Len(s)
           new == Advance(eng, st, u)
<1>1. /\ a \in Samples /\ s \in Seq(Samples) /\ u.x \in Points /\ u.t_ms \in Times
      /\ None \notin Points /\ None \notin Times /\ Times \subseteq Nat
  BY EngineAssumption, TimesAssumption DEF Updates, Samples, Recorded
<1>2. /\ n \in Nat /\ t \in Seq(Samples) /\ Len(t) = n + 1 /\ t[n + 1] = a /\ t # <<>>
      /\ \A i \in 1 .. n : t[i] = s[i]
  BY <1>1
<1>3. /\ new.position = a.x /\ new.last_t_ms = a.t_ms
      /\ new.motion = Motion(st, u) /\ new.history = Remember(st.history, a)
  BY DEF Advance
<1>4. new.history = Latest(t, HistorySize)
  BY <1>1, <1>3, RememberLatest DEF Recorded
<1>5. CASE s = <<>>
  <2>1. n = 0 /\ st.position = None
    BY <1>5 DEF Recorded
  <2>2. new.motion = None
    BY <1>3, <2>1 DEF Motion
  <2> HIDE DEF new, t, a, n
  <2>3. LastMotion(t) = None
    BY <1>2, <2>1 DEF LastMotion
  <2>4. QED
    BY <1>2, <1>3, <1>4, <2>1, <2>2, <2>3 DEF Recorded, t, a, new
<1>6. CASE s # <<>>
  <2>1. n >= 1 /\ n \in 1 .. n /\ st.position = s[n].x /\ st.last_t_ms = s[n].t_ms
    BY <1>1, <1>2, <1>6 DEF Recorded
  <2>2. s[n] \in Samples /\ s[n].t_ms # None /\ s[n].x # None
    <3>1. s[n] \in Samples
      BY <1>1, <2>1
    <3>2. QED
      BY <1>1, <3>1 DEF Samples
  <2>3. t[n] = s[n] /\ Len(t) - 1 = n
    BY <1>2, <2>1
  <2>4. s[n].t_ms <= a.t_ms
    <3>1. u.t_ms >= s[n].t_ms
      BY <2>1, <2>2 DEF Accepts
    <3>2. u.t_ms \in Nat /\ s[n].t_ms \in Nat
      BY <1>1, <2>2 DEF Samples
    <3>3. QED
      BY <3>1, <3>2
  <2>5. Motion(st, u) = Motion([position |-> s[n].x, last_t_ms |-> s[n].t_ms], a)
    BY <2>1 DEF Motion
  <2> HIDE DEF new, t, a, n
  <2>6. LastMotion(t) = Motion([position |-> s[n].x, last_t_ms |-> s[n].t_ms], a)
    BY <1>2, <2>1, <2>3 DEF LastMotion
  <2>7. QED
    BY <1>2, <1>3, <1>4, <2>1, <2>3, <2>4, <2>5, <2>6 DEF Recorded, t, a, new
<1>7. QED
  BY <1>5, <1>6

LEMMA InitTrail == TInit => TrailInv
<1> SUFFICES ASSUME TInit PROVE TrailInv
  OBVIOUS
<1>1. accepted = [e \in Entities |-> <<>>] /\ accepted \in [Entities -> Seq(Samples)]
  BY DEF TInit
<1>2. \A e \in Entities : engine.entities[e] = NewEntity
  BY DEF TInit, MInit, Init, NewEngine
<1>3. QED
  BY <1>1, <1>2, NewRecorded, TrailInvIsRecorded

LEMMA TProcessTrail ==
  ASSUME Inv, TrailInv, NEW u \in Updates, NEW fault, TProcess(u, fault)
  PROVE  TrailInv'
<1> DEFINE a == [x |-> u.x, t_ms |-> u.t_ms]
<1>1. Outcome(engine, u, fault, Answer') /\ Answer'.engine = engine' /\ Answer'.error = out'.error
  BY UpdateStep DEF Inv, TypeOK, TProcess, MProcess, Answer
<1>2. accepted' = IF Stores(engine, u, fault) THEN [accepted EXCEPT ![u.id] = Append(@, a)] ELSE accepted
  BY DEF TProcess
<1>3. /\ accepted \in [Entities -> Seq(Samples)] /\ u.id \in Entities
      /\ engine.entities \in [Entities -> EntityStates]
  BY DEF TrailInv, Updates, Inv, TypeOK, EngineStates
<1>4. \A e \in Entities : Recorded(engine.entities[e], accepted[e])
  BY <1>3, TrailInvIsRecorded
<1>5. a \in Samples
  BY DEF Updates, Samples
<1> HIDE DEF a
<1>6. accepted' \in [Entities -> Seq(Samples)]
  <2>1. Append(accepted[u.id], a) \in Seq(Samples)
    BY <1>3, <1>5
  <2>2. QED
    BY <1>2, <1>3, <2>1
<1>7. ASSUME NEW e \in Entities
      PROVE  Recorded(engine'.entities[e], accepted'[e])
  <2>1. CASE Stores(engine, u, fault) /\ e = u.id
    <3>1. accepted'[e] = Append(accepted[e], a)
      BY <1>2, <1>3, <2>1
    <3>2. /\ engine'.entities = [engine.entities EXCEPT ![u.id] = After(engine, u)]
          /\ Accepts(engine.entities[u.id], u)
      BY <1>1, <2>1 DEF Outcome, Stores
    <3>3. engine'.entities[e] = Advance(engine, engine.entities[e], u)
      BY <1>3, <2>1, <3>2 DEF After
    <3>4. QED
      BY <1>4, <2>1, <3>1, <3>2, <3>3, AdvanceRecorded DEF a
  <2>2. CASE Stores(engine, u, fault) /\ e # u.id
    <3>1. engine'.entities = [engine.entities EXCEPT ![u.id] = After(engine, u)]
      BY <1>1, <2>2 DEF Outcome
    <3>2. engine'.entities[e] = engine.entities[e] /\ accepted'[e] = accepted[e]
      BY <1>2, <1>3, <2>2, <3>1
    <3>3. QED
      BY <1>4, <3>2
  <2>3. CASE ~Stores(engine, u, fault)
    <3>1. engine'.entities = engine.entities /\ accepted' = accepted
      BY <1>1, <1>2, <2>3 DEF Outcome
    <3>2. QED
      BY <1>4, <3>1
  <2>4. QED
    BY <2>1, <2>2, <2>3
<1>8. QED
  BY <1>6, <1>7 DEF TrailInv, StateIsLatestSamples, Recorded

LEMMA TrailStep == Inv /\ TrailInv /\ [TNext]_trailvars => TrailInv'
<1>1. ASSUME Inv, TrailInv, Quiet, UNCHANGED <<history, accepted>>
      PROVE  TrailInv'
  <2>1. engine'.entities = engine.entities /\ accepted' = accepted
    BY <1>1, QuietStep DEF Inv, TypeOK
  <2>2. QED
    BY <1>1, <2>1 DEF TrailInv, StateIsLatestSamples
<1>2. TrailInv /\ UNCHANGED trailvars => TrailInv'
  BY DEF TrailInv, StateIsLatestSamples, trailvars
<1>3. QED
  BY <1>1, <1>2, TProcessTrail DEF TNext, Quiet

\* The engine remembers of each entity what the recorded updates say, and the
\* motion of the last leg (process_event, crates/engine/src/lib.rs).
THEOREM TrailTracked == TSpec => []TrailInv
BY TrailInvariance, InitTrail, TrailStep, PTL DEF TSpec

\* For every size of the history and every sequence of calls, the kept history is
\* the latest accepted samples in their order, and the kept position and time are
\* those of the last one.
THEOREM TrailCorrect == TSpec => []StateIsLatestSamples
BY TrailTracked, PTL DEF TrailInv

-----------------------------------------------------------------------------
\* A range of headings that passes through north is the two ends of the scale.
Clockwise(from, to, heading) ==
  \E h \in from .. (to + IF from > to THEN 360 ELSE 0) :
    (IF from > to THEN h % 360 ELSE h) = heading

\* The test of the rule: two comparisons, joined by "or" when the range wraps.
Between(from, to, heading) ==
  IF from <= to THEN from <= heading /\ heading <= to
                ELSE from <= heading \/ heading <= to

LEMMA HeadingRange ==
  ASSUME NEW from \in 0 .. 360, NEW to \in 0 .. 360, NEW heading \in {0, 90, 270}
  PROVE  Clockwise(from, to, heading) <=> Between(from, to, heading)
<1>1. CASE from <= to
  BY <1>1 DEF Clockwise, Between
<1>2. CASE from > to
  <2>1. \A h \in 0 .. 719 : h % 360 = heading <=> h = heading \/ h = heading + 360
    OBVIOUS
  <2>2. ASSUME NEW h \in from .. to + 360, h % 360 = heading
        PROVE  from <= heading \/ heading <= to
    BY <2>1, <2>2
  <2>3. from <= heading => heading \in from .. to + 360 /\ heading % 360 = heading
    BY <1>2, <2>1
  <2>4. heading <= to => heading + 360 \in from .. to + 360 /\ (heading + 360) % 360 = heading
    BY <1>2, <2>1
  <2>5. (\E h \in from .. to + 360 : h % 360 = heading) <=> from <= heading \/ heading <= to
    BY <2>2, <2>3, <2>4
  <2>6. QED
    BY <1>2, <2>5 DEF Clockwise, Between
<1>3. QED
  BY <1>1, <1>2

\* A filter passes exactly when the entity moved the way it asks.
LEMMA FilterJudges ==
  ASSUME NEW s \in Seq(Samples), Len(s) > 1 => s[Len(s) - 1].t_ms <= s[Len(s)].t_ms,
         NEW filter \in RuleFilters
  PROVE  Passes(filter, LastMotion(s)) <=> Moved(s, filter)
<1> DEFINE m == LastMotion(s)
           n == Len(s)
           from == s[n - 1]
           to == s[n]
           far == IF to.x < from.x THEN from.x - to.x ELSE to.x - from.x
           took == to.t_ms - from.t_ms
           heading == IF to.x = from.x THEN 0 ELSE IF to.x > from.x THEN 90 ELSE 270
           range == filter.from .. (filter.to + IF filter.from > filter.to THEN 360 ELSE 0)
           among == \E h \in range : (IF filter.from > filter.to THEN h % 360 ELSE h) = heading
<1>1. n \in Nat
  OBVIOUS
<1>2. CASE n < 2
  <2>1. m = None
    BY <1>1, <1>2 DEF LastMotion
  <2>2. ~Moved(s, filter)
    BY <1>1, <1>2 DEF Moved
  <2> HIDE DEF m
  <2>3. ~Passes(filter, m)
    BY <2>1 DEF Passes
  <2>4. QED
    BY <2>2, <2>3 DEF m
<1>3. CASE n >= 2
  <2>1. from \in Samples /\ to \in Samples /\ from.t_ms <= to.t_ms
    BY <1>1, <1>3
  <2>2. m = Motion([position |-> from.x, last_t_ms |-> from.t_ms], to)
    BY <1>1, <1>3 DEF LastMotion
  <2>3. Moved(s, filter) <=>
          /\ took > 0
          /\ filter.type = "speed_above" => far > filter.value * took
          /\ filter.type = "speed_below" => far < filter.value * took
          /\ filter.type = "heading_between" => among
    BY <1>1, <1>3 DEF Moved
  <2> HIDE DEF m, from, to
  <2>4. /\ from.x \in Int /\ to.x \in Int /\ from.t_ms \in Nat /\ to.t_ms \in Nat
        /\ from.x # None /\ from.t_ms <= to.t_ms
    BY <2>1, EngineAssumption, TimesAssumption DEF Samples
  <2>5. m = IF to.t_ms = from.t_ms THEN None ELSE [distance |-> far, time |-> took, heading |-> heading]
    BY <2>2, <2>4 DEF Motion
  <2>6. CASE to.t_ms = from.t_ms
    <3>1. took = 0 /\ m = None
      BY <2>4, <2>5, <2>6
    <3> HIDE DEF took, far, heading, range, among
    <3>2. QED
      BY <2>3, <3>1 DEF Passes, m
  <2>7. CASE to.t_ms # from.t_ms
    <3>1. m = [distance |-> far, time |-> took, heading |-> heading]
      BY <2>5, <2>7
    <3>2. far \in Nat /\ took \in Nat \ {0} /\ took > 0 /\ heading \in {0, 90, 270}
      BY <2>4, <2>7
    <3> HIDE DEF took, far, heading
    <3>3. m # None /\ m.distance = far /\ m.time = took /\ m.heading = heading
      BY <3>1, <3>2, EngineAssumption DEF Legs
    <3>4. filter.type = "heading_between" =>
            (among <=> Between(filter.from, filter.to, heading))
      <4> SUFFICES ASSUME filter.type = "heading_between"
                   PROVE  among <=> Between(filter.from, filter.to, heading)
        OBVIOUS
      <4>1. filter.from \in 0 .. 360 /\ filter.to \in 0 .. 360
        BY DEF RuleFilters
      <4>2. Clockwise(filter.from, filter.to, heading) <=> Between(filter.from, filter.to, heading)
        <5> DEFINE a == filter.from
                   b == filter.to
        <5>1. a \in 0 .. 360 /\ b \in 0 .. 360 /\ heading \in {0, 90, 270}
          BY <3>2, <4>1
        <5> HIDE DEF a, b
        <5>2. Clockwise(a, b, heading) <=> Between(a, b, heading)
          BY <5>1, HeadingRange, Zenon
        <5>3. QED
          BY <5>2 DEF a, b
      <4>3. QED
        BY <4>2 DEF Clockwise
    <3> HIDE DEF range, among
    <3>5. Passes(filter, m) <=> Moved(s, filter)
      BY <2>3, <3>2, <3>3, <3>4 DEF Passes, Between
    <3>6. QED
      BY <3>5 DEF m
  <2>8. QED
    BY <2>6, <2>7
<1>4. QED
  BY <1>1, <1>2, <1>3

LEMMA InitJudged == TInit => FiltersJudgeTheLastLeg
BY DEF TInit, MInit, Init, Nothing, FiltersJudgeTheLastLeg

LEMMA QuietJudged ==
  ASSUME Inv, Quiet
  PROVE  FiltersJudgeTheLastLeg'
<1>1. out' = Nothing
  BY QuietStep DEF Inv, TypeOK
<1>2. QED
  BY <1>1 DEF Nothing, FiltersJudgeTheLastLeg

LEMMA TProcessJudged ==
  ASSUME Inv, TrailInv', NEW u \in Updates, NEW fault, TProcess(u, fault)
  PROVE  FiltersJudgeTheLastLeg'
<1> DEFINE spatial == Crossings(engine, u)
           motion == After(engine, u).motion
           custom == CustomEvents(engine, spatial, motion, u)
           sequence == SequenceEvents(engine, spatial, u)
           t == accepted'[u.id]
<1>1. /\ Outcome(engine, u, fault, Answer')
      /\ Answer'.engine = engine' /\ Answer'.events = out'.events /\ Answer'.error = out'.error
  BY UpdateStep DEF Inv, TypeOK, TProcess, MProcess, Answer
<1>2. /\ u.id \in Entities /\ engine.entities \in [Entities -> EntityStates]
      /\ engine.configurable_rules \in Seq(Rules)
  BY DEF Updates, Inv, TypeOK, EngineStates
<1>3. CASE out'.error # None
  <2>1. out'.events = {}
    BY <1>1, <1>3 DEF Outcome
  <2>2. QED
    BY <2>1 DEF FiltersJudgeTheLastLeg
<1>4. CASE out'.error = None
  <2>1. /\ out'.events = spatial \union custom \union sequence
        /\ engine'.entities = [engine.entities EXCEPT ![u.id] = After(engine, u)]
        /\ engine'.configurable_rules = engine.configurable_rules
    BY <1>1, <1>4 DEF Outcome, Stores, StoreFaults
  <2>2. t \in Seq(Samples) /\ (Len(t) > 1 => t[Len(t) - 1].t_ms <= t[Len(t)].t_ms)
    BY <1>2 DEF TrailInv
  <2>3. motion = LastMotion(t)
    <3>1. engine'.entities[u.id].motion = LastMotion(accepted'[u.id])
      BY <1>2 DEF TrailInv
    <3>2. engine'.entities[u.id] = After(engine, u)
      BY <1>2, <2>1
    <3>3. QED
      BY <3>1, <3>2
  <2>4. \A ev \in spatial : ev.id = u.id /\ ev.kind \in SpatialKinds
    BY DEF Crossings, SpatialEvents, EventKind, SpatialKinds
  <2>5. \A ev \in custom : ev.kind = "custom"
    BY DEF CustomEvents
  <2>6. \A ev \in sequence : ev.kind = "sequence_complete"
    BY DEF SequenceEvents
  <2> HIDE DEF spatial, motion, custom, sequence, t
  <2>7. ASSUME NEW ev \in out'.events, NEW i \in DOMAIN engine'.configurable_rules,
               NEW trigger \in engine'.configurable_rules[i].triggers,
               ev.kind = trigger.event_kind, ev.name = trigger.target_id
        PROVE  (\E c \in out'.events : c.kind = "custom" /\ c.rule = i)
               <=> (\A filter \in engine'.configurable_rules[i].filters : Moved(accepted'[ev.id], filter))
    <3> DEFINE rule == engine.configurable_rules[i]
    <3>1. /\ i \in DOMAIN engine.configurable_rules /\ engine'.configurable_rules[i] = rule
          /\ rule \in Rules
      BY <1>2, <2>1, <2>7
    <3>2. trigger \in rule.triggers /\ trigger.event_kind \in SpatialKinds /\ rule.filters \subseteq RuleFilters
      BY <2>7, <3>1, EngineInputs
    <3>3. ev \in spatial /\ accepted'[ev.id] = t
      <4>1. ev.kind \in SpatialKinds
        BY <2>7, <3>2
      <4>2. ev \in spatial
        BY <2>1, <2>5, <2>6, <4>1 DEF SpatialKinds
      <4>3. QED
        BY <2>4, <4>2 DEF t
    <3>4. (\E c \in out'.events : c.kind = "custom" /\ c.rule = i) <=> \E c \in custom : c.rule = i
      BY <2>1, <2>4, <2>5, <2>6 DEF SpatialKinds
    <3>5. (\E c \in custom : c.rule = i) <=> Fires(rule, spatial, motion)
      BY <3>1, CustomEventOf DEF custom
    <3> HIDE DEF rule
    <3>6. Fires(rule, spatial, motion) <=> \A filter \in rule.filters : Passes(filter, motion)
      BY <2>7, <3>2, <3>3 DEF Fires
    <3>7. \A filter \in rule.filters : Passes(filter, motion) <=> Moved(t, filter)
      BY <2>2, <2>3, <3>2, FilterJudges
    <3>8. QED
      BY <3>1, <3>3, <3>4, <3>5, <3>6, <3>7
  <2>8. QED
    BY <2>7 DEF FiltersJudgeTheLastLeg
<1>5. QED
  BY <1>3, <1>4

\* However many rules and filters there are, a rule that a transition triggers
\* fires exactly if every filter accepts the motion over the two latest samples.
THEOREM FiltersCorrect == TSpec => []FiltersJudgeTheLastLeg
<1>1. Inv /\ TrailInv' /\ FiltersJudgeTheLastLeg /\ [TNext]_trailvars => FiltersJudgeTheLastLeg'
  <2>1. FiltersJudgeTheLastLeg /\ UNCHANGED trailvars => FiltersJudgeTheLastLeg'
    BY DEF FiltersJudgeTheLastLeg, trailvars
  <2>2. QED
    BY <2>1, QuietJudged, TProcessJudged DEF TNext, Quiet
<1>2. QED
  BY TrailInvariance, TrailTracked, InitJudged, <1>1, PTL DEF TSpec

-----------------------------------------------------------------------------
\* What the caller of the engine may have seen of one rule and entity.
Seens == [completed : BOOLEAN,
          last_t_ms : Nat,
          visits    : Seq([t : Nat, entered : SUBSET (Zones \union Circles)])]

\* The caller's last time for a rule is not later than the entity's.
NotLater(t, st) == t = 0 \/ (st.last_t_ms # None /\ t <= st.last_t_ms)

\* The inductive invariant: one record per rule, no newer than the entity, and no
\* more visits than updates.
SeqInv ==
  /\ engine \in EngineStates(Rules, Sequences)
  /\ WellFormed(engine.entities)
  /\ tries \in Nat
  /\ seen \in Seq([Entities -> Seens])
  /\ Len(seen) = Len(engine.sequence_rules)
  /\ \A i \in DOMAIN seen, e \in Entities :
       /\ Len(seen[i][e].visits) <= tries
       /\ NotLater(seen[i][e].last_t_ms, engine.entities[e])

\* The i-th rule and what was seen of it, one step of module SequenceRule or none.
Follows(i, rule, e) ==
  i \in DOMAIN engine'.sequence_rules /\ engine'.sequence_rules[i].rule = rule =>
    IF i \in DOMAIN engine.sequence_rules
      THEN [RuleMachine(i, rule, e)!Next]_(RuleMachine(i, rule, e)!vars)
      ELSE RuleMachine(i, rule, e)!Init'

-----------------------------------------------------------------------------
\* All the events of an accepted update.
Told(eng, spatial, motion, u) ==
  spatial \union CustomEvents(eng, spatial, motion, u) \union SequenceEvents(eng, spatial, u)

\* Do these events tell that rule i completed?
Completed(events, i) == \E ev \in events : ev.kind = "sequence_complete" /\ ev.rule = i

\* The rules add no event that counts as an entry.
LEMMA EnteredByCrossing ==
  ASSUME NEW before, NEW after, NEW eng, NEW motion, NEW u,
         NEW spatial, spatial = SpatialEvents(before, after, u)
  PROVE  /\ Entered(Told(eng, spatial, motion, u)) = Entered(spatial)
         /\ Entered(spatial) \subseteq Zones \union Circles
<1> DEFINE custom == CustomEvents(eng, spatial, motion, u)
           sequence == SequenceEvents(eng, spatial, u)
<1>1. \A ev \in custom : ev.kind = "custom"
  BY DEF CustomEvents
<1>2. \A ev \in sequence : ev.kind = "sequence_complete"
  BY DEF SequenceEvents
<1>3. \A ev \in spatial : ev.name \in Zones \union Circles
  BY DEF SpatialEvents, Geometries
<1> HIDE DEF custom, sequence
<1>4. Entered(Told(eng, spatial, motion, u)) = Entered(spatial)
  BY <1>1, <1>2 DEF Entered, Told, custom, sequence
<1>5. QED
  BY <1>3, <1>4 DEF Entered

\* The caller is told of the completion of rule i exactly when it completes.
LEMMA CompletionTold ==
  ASSUME NEW before, NEW after, NEW eng, NEW motion, NEW u,
         NEW spatial, spatial = SpatialEvents(before, after, u),
         NEW i \in DOMAIN eng.sequence_rules
  PROVE  Completed(Told(eng, spatial, motion, u), i) <=> FireOf(eng.sequence_rules[i], spatial, u).complete
<1> DEFINE custom == CustomEvents(eng, spatial, motion, u)
           sequence == SequenceEvents(eng, spatial, u)
           completes(j) == FireOf(eng.sequence_rules[j], spatial, u).complete
           told(j) == [kind |-> "sequence_complete", id |-> u.id, name |-> eng.sequence_rules[j].rule.name,
                       t_ms |-> u.t_ms, motion |-> None, rule |-> j]
<1>1. \A ev \in custom : ev.kind = "custom"
  BY DEF CustomEvents
<1>2. \A ev \in spatial : ev.kind # "sequence_complete"
  BY DEF SpatialEvents, EventKind
<1>3. sequence = {told(j) : j \in {k \in DOMAIN eng.sequence_rules : completes(k)}}
  BY DEF SequenceEvents
<1>4. \A j : told(j).kind = "sequence_complete" /\ told(j).rule = j
  OBVIOUS
<1> HIDE DEF completes, told
<1>5. (\E ev \in sequence : ev.kind = "sequence_complete" /\ ev.rule = i) <=> completes(i)
  BY <1>3, <1>4
<1> HIDE DEF custom, sequence
<1>6. Completed(Told(eng, spatial, motion, u), i)
      <=> (\E ev \in sequence : ev.kind = "sequence_complete" /\ ev.rule = i)
  BY <1>1, <1>2 DEF Completed, Told, custom, sequence
<1>7. QED
  BY <1>5, <1>6 DEF completes

\* Each rule keeps its rule, and moves the progress of the update's entity.
LEMMA FiredProgress ==
  ASSUME NEW rules, NEW sequences, NEW eng \in EngineStates(rules, sequences),
         NEW u \in Updates, NEW events, NEW i \in DOMAIN eng.sequence_rules
  PROVE  /\ DOMAIN FireSequences(eng, events, u) = DOMAIN eng.sequence_rules
         /\ FireSequences(eng, events, u)[i].rule = eng.sequence_rules[i].rule
         /\ \A e \in Entities :
              FireSequences(eng, events, u)[i].progress[e] =
                IF e = u.id THEN FireOf(eng.sequence_rules[i], events, u).progress
                            ELSE eng.sequence_rules[i].progress[e]
<1> DEFINE s == eng.sequence_rules[i]
           q == FireOf(s, events, u).progress
           S == [rule : sequences, progress : [Entities -> Progresses]]
<1>1. s \in S
  <2>1. eng.sequence_rules \in Seq(S)
    BY DEF EngineStates
  <2> HIDE DEF S
  <2>2. QED
    BY <2>1, SeqElements
<1>2. /\ DOMAIN FireSequences(eng, events, u) = DOMAIN eng.sequence_rules
      /\ FireSequences(eng, events, u)[i] = [s EXCEPT !.progress[u.id] = q]
  BY DEF FireSequences
<1> HIDE DEF s, q
<1>3. QED
  BY <1>1, <1>2 DEF s, q

-----------------------------------------------------------------------------
LEMMA InitSeq == SInit => SeqInv
<1> SUFFICES ASSUME SInit PROVE SeqInv
  OBVIOUS
<1>1. engine \in EngineStates(Rules, Sequences) /\ WellFormed(engine.entities)
  BY NewEngineType DEF SInit, Init
<1>2. engine.sequence_rules = <<>> /\ seen = <<>> /\ tries = 0
  BY DEF SInit, Init, NewEngine
<1>3. QED
  BY <1>1, <1>2 DEF SeqInv

\* A geometry or a configurable rule changes nothing here.
LEMMA ConfigureStep ==
  ASSUME SeqInv, Configure
  PROVE  /\ engine' \in EngineStates(Rules, Sequences)
         /\ engine'.entities = engine.entities
         /\ engine'.sequence_rules = engine.sequence_rules
<1>1. ASSUME NEW g \in Geometries, NEW area \in Areas \union {None}, NEW d \in DwellConfigs,
             RegisterGeometry(g, area, d)
      PROVE  /\ engine' \in EngineStates(Rules, Sequences)
             /\ engine'.entities = engine.entities
             /\ engine'.sequence_rules = engine.sequence_rules
  <2> DEFINE r == Register(engine, g, area, d)
  <2>1. d \in Dwells
    BY EngineInputs
  <2>2. /\ Register(engine, g, area, d) \in EngineStates(Rules, Sequences)
        /\ Register(engine, g, area, d).entities = engine.entities
        /\ Register(engine, g, area, d).configurable_rules = engine.configurable_rules
        /\ Register(engine, g, area, d).sequence_rules = engine.sequence_rules
        /\ IF engine.area[g] # None \/ area \notin Areas
             THEN Register(engine, g, area, d) = engine
             ELSE /\ Register(engine, g, area, d).area = [engine.area EXCEPT ![g] = area]
                  /\ Register(engine, g, area, d).dwell = [engine.dwell EXCEPT ![g] = d]
    BY <2>1, RegisterOutcome DEF SeqInv
  <2>3. engine' = r
    BY <1>1 DEF RegisterGeometry
  <2> HIDE DEF r
  <2>4. r = Register(engine, g, area, d)
    BY DEF r
  <2>5. QED
    BY <2>2, <2>3, <2>4
<1>2. ASSUME NEW rule \in Rules, DefineRule(rule)
      PROVE  /\ engine' \in EngineStates(Rules, Sequences)
             /\ engine'.entities = engine.entities
             /\ engine'.sequence_rules = engine.sequence_rules
  BY <1>2, AddRuleOutcome DEF DefineRule, SeqInv
<1>3. QED
  BY <1>1, <1>2 DEF Configure

LEMMA ConfigureSeq ==
  ASSUME SeqInv, Configure, UNCHANGED <<seen, tries>>
  PROVE  /\ SeqInv'
         /\ \A i, rule, e : Follows(i, rule, e)
<1>1. /\ engine' \in EngineStates(Rules, Sequences)
      /\ engine'.entities = engine.entities
      /\ engine'.sequence_rules = engine.sequence_rules
  BY ConfigureStep
<1>2. SeqInv'
  BY <1>1 DEF SeqInv
<1>3. ASSUME NEW i, NEW rule, NEW e
      PROVE  Follows(i, rule, e)
  BY <1>1 DEF Follows, RuleMachine!vars
<1>4. QED
  BY <1>2, <1>3

\* A new rule starts as the machine does, and the others are not concerned.
LEMMA DefineSeq ==
  ASSUME SeqInv, NEW new \in Sequences, SDefineSequence(new)
  PROVE  /\ SeqInv'
         /\ \A i, rule, e : e \in Entities => Follows(i, rule, e)
<1> DEFINE rs == engine.sequence_rules
           n == Len(rs)
           unseen == [e \in Entities |-> Unseen]
           S == [rule : Sequences, progress : [Entities -> Progresses]]
           T == [Entities -> Seens]
<1>1. /\ engine' = AddSequence(engine, new) /\ seen' = Append(seen, unseen) /\ tries' = tries
  BY DEF SDefineSequence, DefineSequence
<1>2. /\ engine' \in EngineStates(Rules, Sequences)
      /\ engine'.entities = engine.entities
      /\ engine'.sequence_rules = Append(rs, Started(new))
  BY <1>1, AddSequenceOutcome DEF SeqInv
<1>3. /\ rs \in Seq(S) /\ seen \in Seq(T) /\ Len(seen) = n /\ n \in Nat
  BY DEF SeqInv, EngineStates
<1>4. unseen \in T
  BY DEF Unseen, Seens
<1>5. Started(new) \in S
  BY DEF Started, Idle, Progresses
<1>6. /\ \A e \in Entities : unseen[e] = Unseen /\ Started(new).progress[e] = Idle
      /\ Unseen.last_t_ms = 0 /\ Len(Unseen.visits) = 0 /\ ~Unseen.completed /\ Unseen.visits = <<>>
  BY DEF Unseen, Started
<1> HIDE DEF unseen, S, T
<1>7. /\ seen' \in Seq(T) /\ Len(seen') = n + 1 /\ DOMAIN seen' = 1 .. n + 1 /\ DOMAIN seen = 1 .. n
      /\ seen'[n + 1] = unseen /\ \A i \in 1 .. n : seen'[i] = seen[i]
  BY <1>1, <1>3, <1>4
<1>8. /\ Len(engine'.sequence_rules) = n + 1 /\ DOMAIN engine'.sequence_rules = 1 .. n + 1
      /\ DOMAIN engine.sequence_rules = 1 .. n
      /\ engine'.sequence_rules[n + 1] = Started(new)
      /\ \A i \in 1 .. n : engine'.sequence_rules[i] = engine.sequence_rules[i]
  BY <1>2, <1>3, <1>5
<1> HIDE DEF rs, n
<1>9. SeqInv'
  <2>1. ASSUME NEW i \in DOMAIN seen', NEW e \in Entities
        PROVE  /\ Len(seen'[i][e].visits) <= tries'
               /\ NotLater(seen'[i][e].last_t_ms, engine'.entities[e])
    <3>1. CASE i = n + 1
      BY <1>1, <1>6, <1>7, <3>1 DEF NotLater, SeqInv
    <3>2. CASE i \in 1 .. n
      BY <1>1, <1>2, <1>7, <3>2 DEF SeqInv
    <3>3. QED
      BY <1>3, <1>7, <3>1, <3>2
  <2>2. QED
    BY <1>1, <1>2, <1>7, <1>8, <2>1 DEF SeqInv, T
<1>10. ASSUME NEW i, NEW rule, NEW e \in Entities
       PROVE  Follows(i, rule, e)
  <2>1. CASE i \in 1 .. n
    BY <1>7, <1>8, <2>1 DEF Follows, RuleMachine!vars
  <2>2. CASE i = n + 1
    <3>1. i \notin DOMAIN engine.sequence_rules
      BY <1>3, <1>8, <2>2
    <3>2. RuleMachine(i, rule, e)!Init'
      BY <1>6, <1>7, <1>8, <2>2 DEF RuleMachine!Init, RuleMachine!Idle, Idle
    <3>3. QED
      BY <3>1, <3>2 DEF Follows
  <2>3. CASE i \notin 1 .. n + 1
    BY <1>8, <2>3 DEF Follows
  <2>4. QED
    BY <1>3, <2>1, <2>2, <2>3
<1>11. QED
  BY <1>9, <1>10

\* After a restart every rule starts over for every entity, and so does its record.
LEMMA RestartSeq ==
  ASSUME SeqInv, SRestart
  PROVE  /\ SeqInv'
         /\ \A i, rule, e : e \in Entities => Follows(i, rule, e)
<1> DEFINE n == Len(engine.sequence_rules)
           T == [Entities -> Seens]
           over(i) == [e \in Entities |-> [Unseen EXCEPT !.last_t_ms = seen[i][e].last_t_ms]]
<1>1. /\ engine' = Restored(engine) /\ tries' = tries
      /\ seen' = [i \in DOMAIN seen |-> over(i)]
  BY DEF SRestart, Restart
<1>2. engine' \in EngineStates(Rules, Sequences) /\ engine'.entities = engine.entities
  BY <1>1, RestoredOutcome DEF SeqInv
<1>3. engine'.sequence_rules = [i \in DOMAIN engine.sequence_rules |-> StartedOver(engine.sequence_rules[i])]
  BY <1>1, RestoredSequences DEF SeqInv
<1>4. seen \in Seq(T) /\ Len(seen) = n /\ n \in Nat /\ DOMAIN seen = 1 .. n /\ \A i \in 1 .. n : seen[i] \in T
  BY DEF SeqInv
<1>5. DOMAIN engine.sequence_rules = 1 .. n
  BY SeqElements DEF SeqInv, EngineStates
<1>6. \A i \in 1 .. n, e \in Entities :
        /\ over(i)[e].last_t_ms = seen[i][e].last_t_ms
        /\ over(i)[e].visits = <<>> /\ over(i)[e].completed = FALSE
        /\ seen[i][e].last_t_ms \in Nat
  BY <1>4 DEF Unseen, Seens
<1>7. \A i \in 1 .. n : over(i) \in T
  <2>1. ASSUME NEW t \in Nat
        PROVE  [Unseen EXCEPT !.last_t_ms = t] \in Seens
    <3>1. Unseen \in Seens
      BY DEF Unseen, Seens
    <3>2. QED
      BY <3>1 DEF Seens
  <2>2. \A i \in 1 .. n, e \in Entities : [Unseen EXCEPT !.last_t_ms = seen[i][e].last_t_ms] \in Seens
    BY <1>6, <2>1
  <2>3. QED
    BY <2>2
<1>8. \A i \in 1 .. n :
        /\ StartedOver(engine.sequence_rules[i]).rule = engine.sequence_rules[i].rule
        /\ \A e \in Entities : StartedOver(engine.sequence_rules[i]).progress[e] = Idle
  <2> DEFINE S == [rule : Sequences, progress : [Entities -> Progresses]]
  <2>1. engine.sequence_rules \in Seq(S)
    BY DEF SeqInv, EngineStates
  <2>2. \A i \in 1 .. n : engine.sequence_rules[i] \in S
    <3> HIDE DEF S
    <3>1. QED
      BY <2>1, SeqElements
  <2>3. QED
    BY <2>2 DEF StartedOver
<1> HIDE DEF n, T, over
<1>9. seen' \in Seq(T) /\ Len(seen') = n /\ DOMAIN seen' = 1 .. n /\ \A i \in 1 .. n : seen'[i] = over(i)
  <2>1. seen' = [i \in 1 .. n |-> over(i)]
    BY <1>1, <1>4
  <2>2. seen' \in Seq(T)
    BY <1>4, <1>7, <2>1
  <2>3. QED
    BY <1>4, <2>1, <2>2
<1>10. /\ Len(engine'.sequence_rules) = n /\ DOMAIN engine'.sequence_rules = 1 .. n
       /\ \A i \in 1 .. n : engine'.sequence_rules[i] = StartedOver(engine.sequence_rules[i])
  <2> DEFINE f(i) == StartedOver(engine.sequence_rules[i])
  <2>1. engine'.sequence_rules = [i \in 1 .. n |-> f(i)]
    BY <1>3, <1>5
  <2> HIDE DEF f
  <2>2. QED
    BY <1>4, <2>1 DEF f
<1>11. SeqInv'
  <2>1. ASSUME NEW i \in DOMAIN seen', NEW e \in Entities
        PROVE  /\ Len(seen'[i][e].visits) <= tries'
               /\ NotLater(seen'[i][e].last_t_ms, engine'.entities[e])
    <3>1. i \in 1 .. n /\ seen'[i] = over(i)
      BY <1>9
    <3>2. Len(seen'[i][e].visits) = 0 /\ seen'[i][e].last_t_ms = seen[i][e].last_t_ms
      BY <1>6, <3>1
    <3>3. QED
      BY <1>1, <1>2, <1>4, <3>1, <3>2 DEF SeqInv
  <2>2. QED
    BY <1>1, <1>2, <1>9, <1>10, <2>1 DEF SeqInv, T
<1>12. ASSUME NEW i, NEW rule, NEW e \in Entities
       PROVE  Follows(i, rule, e)
  <2>1. CASE i \in 1 .. n
    <3>1. engine'.sequence_rules[i].progress[e] = Idle
      BY <1>8, <1>10, <2>1
    <3>2. /\ seen'[i][e].completed = FALSE /\ seen'[i][e].visits = <<>>
          /\ seen'[i][e].last_t_ms = seen[i][e].last_t_ms
      BY <1>6, <1>9, <2>1
    <3>3. RuleMachine(i, rule, e)!Restart
      BY <3>1, <3>2 DEF RuleMachine!Restart, RuleMachine!Idle, Idle
    <3>4. QED
      BY <1>5, <2>1, <3>3 DEF Follows, RuleMachine!Next
  <2>2. CASE i \notin 1 .. n
    BY <1>10, <2>2 DEF Follows
  <2>3. QED
    BY <2>1, <2>2
<1>13. QED
  BY <1>11, <1>12

\* A refused update, and one whose entity could not be read, change nothing here.
LEMMA RefusedSeq ==
  ASSUME Faults \subseteq {"get"}, SeqInv, NEW u \in Updates, NEW fault \in Faults \union {None},
         SProcess(u, fault), out'.error # None
  PROVE  /\ SeqInv'
         /\ \A i, rule, e : Follows(i, rule, e)
<1> DEFINE r == ProcessEvent(engine, u, fault)
<1>1. engine' = r.engine /\ out'.error = r.error /\ seen' = seen /\ tries' = tries + 1
  BY DEF SProcess, Process
<1>2. Outcome(engine, u, fault, r) /\ r.engine \in EngineStates(Rules, Sequences) /\ WellFormed(r.engine.entities)
  BY ProcessEventOutcome, ProcessEventType DEF SeqInv
<1>3. fault \in {None, "get"}
  OBVIOUS
<1> HIDE DEF r
<1>4. engine'.entities = engine.entities /\ engine'.sequence_rules = engine.sequence_rules
  BY <1>1, <1>2, <1>3, EngineAssumption DEF Outcome, Stores, StoreFaults
<1>5. SeqInv'
  <2>1. \A i \in DOMAIN seen, e \in Entities : Len(seen[i][e].visits) \in Nat
    <3>1. \A i \in DOMAIN seen, e \in Entities : seen[i][e] \in Seens
      BY DEF SeqInv
    <3>2. QED
      BY <3>1 DEF Seens
  <2>2. QED
    BY <1>1, <1>2, <1>4, <2>1 DEF SeqInv
<1>6. ASSUME NEW i, NEW rule, NEW e
      PROVE  Follows(i, rule, e)
  BY <1>1, <1>4 DEF Follows, RuleMachine!vars
<1>7. QED
  BY <1>5, <1>6

\* The machine's rule is the engine's: only its steps and its window matter.
LEMMA SameFire ==
  ASSUME NEW i, NEW rule, NEW e, NEW progress, NEW entered, NEW t,
         NEW same, same.steps = rule.steps, same.within_ms = rule.within_ms
  PROVE  RuleMachine(i, rule, e)!FireSequence(same, progress, entered, t)
           = FireSequence(rule, progress, entered, t)
<1> DEFINE p == IF Expired(rule, progress, t) THEN Idle ELSE progress
           q == IF RuleMachine(i, rule, e)!Expired(same, progress, t)
                  THEN RuleMachine(i, rule, e)!Idle ELSE progress
<1>1. q = p
  BY DEF RuleMachine!Expired, Expired, RuleMachine!Idle, Idle, RuleMachine!SaturatingSub, SaturatingSub
<1>2. RuleMachine(i, rule, e)!Finishes(same, p) <=> Finishes(rule, p)
  BY DEF RuleMachine!Finishes, Finishes
<1>3. RuleMachine(i, rule, e)!WindowStart(p, t) = WindowStart(p, t)
  BY DEF RuleMachine!WindowStart, WindowStart
<1>4. RuleMachine(i, rule, e)!Idle = Idle
  BY DEF RuleMachine!Idle, Idle
<1>5. RuleMachine(i, rule, e)!FireSequence(same, progress, entered, t) =
        LET matched  == same.steps[q.current_step + 1] \in entered
            complete == matched /\ RuleMachine(i, rule, e)!Finishes(same, q)
            advanced == [current_step |-> q.current_step + 1,
                         started_at   |-> RuleMachine(i, rule, e)!WindowStart(q, t)]
        IN IF same.steps = <<>>
             THEN [progress |-> progress, complete |-> FALSE]
             ELSE [progress |-> IF complete THEN RuleMachine(i, rule, e)!Idle
                                ELSE IF matched THEN advanced ELSE q,
                   complete |-> complete]
  BY DEF RuleMachine!FireSequence
<1>6. FireSequence(rule, progress, entered, t) =
        LET matched  == rule.steps[p.current_step + 1] \in entered
            complete == matched /\ Finishes(rule, p)
            advanced == [current_step |-> p.current_step + 1,
                         started_at   |-> WindowStart(p, t)]
        IN IF rule.steps = <<>>
             THEN [progress |-> progress, complete |-> FALSE]
             ELSE [progress |-> IF complete THEN Idle ELSE IF matched THEN advanced ELSE p,
                   complete |-> complete]
  BY DEF FireSequence
<1> HIDE DEF p, q
<1>7. QED
  BY <1>1, <1>2, <1>3, <1>4, <1>5, <1>6

\* What an accepted update does to rule i and to what was seen of it.
Advanced(u, spatial, i, e) ==
  /\ engine'.sequence_rules[i].rule = engine.sequence_rules[i].rule
  /\ IF e = u.id
       THEN LET fired == FireOf(engine.sequence_rules[i], spatial, u)
            IN  /\ engine'.sequence_rules[i].progress[e] = fired.progress
                /\ seen'[i][e].completed = fired.complete
                /\ seen'[i][e].last_t_ms = u.t_ms
                /\ seen'[i][e].visits =
                     Append(IF seen[i][e].completed THEN <<>> ELSE seen[i][e].visits,
                            [t |-> u.t_ms, entered |-> Entered(spatial)])
       ELSE /\ engine'.sequence_rules[i].progress[e] = engine.sequence_rules[i].progress[e]
            /\ seen'[i][e] = seen[i][e]

LEMMA AcceptedAdvances ==
  ASSUME SeqInv, NEW u \in Updates, NEW fault, SProcess(u, fault), out'.error = None,
         NEW spatial, spatial = Crossings(engine, u)
  PROVE  /\ engine' \in EngineStates(Rules, Sequences) /\ WellFormed(engine'.entities)
         /\ engine'.entities = [engine.entities EXCEPT ![u.id] = After(engine, u)]
         /\ Accepts(engine.entities[u.id], u)
         /\ Entered(spatial) \subseteq Zones \union Circles
         /\ DOMAIN engine'.sequence_rules = DOMAIN engine.sequence_rules
         /\ DOMAIN seen' = DOMAIN seen
         /\ \A i \in DOMAIN seen : seen'[i] \in [Entities -> Seens]
         /\ \A i \in DOMAIN seen, e \in Entities : Advanced(u, spatial, i, e)
<1> DEFINE r == ProcessEvent(engine, u, fault)
           events == out'.events
           motion == After(engine, u).motion
           w(i) == Witness(seen[i][u.id], i, u, events)
<1>1. /\ engine' = r.engine /\ out'.error = r.error /\ events = r.events
      /\ seen' = [i \in DOMAIN seen |-> [seen[i] EXCEPT ![u.id] = w(i)]]
  BY DEF SProcess, Process
<1>2. Outcome(engine, u, fault, r) /\ r.engine \in EngineStates(Rules, Sequences) /\ WellFormed(r.engine.entities)
  BY ProcessEventOutcome, ProcessEventType DEF SeqInv
<1> HIDE DEF r
<1>3. /\ engine'.entities = [engine.entities EXCEPT ![u.id] = After(engine, u)]
      /\ Accepts(engine.entities[u.id], u)
      /\ engine'.sequence_rules = FireSequences(engine, spatial, u)
      /\ events = Told(engine, spatial, motion, u)
  BY <1>1, <1>2 DEF Outcome, Told, Stores, StoreFaults
<1>4. spatial = SpatialEvents(engine.entities[u.id], After(engine, u), u)
  BY DEF Crossings
<1> HIDE DEF events, motion
<1>5. Entered(events) = Entered(spatial) /\ Entered(spatial) \subseteq Zones \union Circles
  BY <1>3, <1>4, EnteredByCrossing
<1>6. /\ DOMAIN engine.sequence_rules = DOMAIN seen
      /\ \A i \in DOMAIN seen : seen[i] \in [Entities -> Seens]
  <2>1. DOMAIN engine.sequence_rules = 1 .. Len(engine.sequence_rules)
    BY SeqElements DEF SeqInv, EngineStates
  <2>2. DOMAIN seen = 1 .. Len(seen) /\ \A i \in 1 .. Len(seen) : seen[i] \in [Entities -> Seens]
    <3> DEFINE T == [Entities -> Seens]
    <3>1. seen \in Seq(T)
      BY DEF SeqInv
    <3> HIDE DEF T
    <3>2. DOMAIN seen = 1 .. Len(seen) /\ \A i \in 1 .. Len(seen) : seen[i] \in T
      BY <3>1, SeqElements
    <3>3. QED
      BY <3>2 DEF T
  <2>3. QED
    BY <2>1, <2>2 DEF SeqInv
<1>7. ASSUME NEW i \in DOMAIN seen
      PROVE  /\ w(i).completed = FireOf(engine.sequence_rules[i], spatial, u).complete
             /\ w(i).last_t_ms = u.t_ms
             /\ w(i).visits = Append(IF seen[i][u.id].completed THEN <<>> ELSE seen[i][u.id].visits,
                                     [t |-> u.t_ms, entered |-> Entered(spatial)])
             /\ w(i) \in Seens
  <2>1. /\ w(i) = [completed |-> \E ev \in events : ev.kind = "sequence_complete" /\ ev.rule = i,
                   last_t_ms |-> u.t_ms,
                   visits |-> Append(IF seen[i][u.id].completed THEN <<>> ELSE seen[i][u.id].visits,
                                     [t |-> u.t_ms, entered |-> Entered(spatial)])]
    BY <1>5 DEF Witness
  <2>2. (\E ev \in events : ev.kind = "sequence_complete" /\ ev.rule = i)
        <=> FireOf(engine.sequence_rules[i], spatial, u).complete
    <3>1. i \in DOMAIN engine.sequence_rules
      BY <1>6
    <3>2. Completed(Told(engine, spatial, motion, u), i) <=> FireOf(engine.sequence_rules[i], spatial, u).complete
      BY <1>4, <3>1, CompletionTold
    <3>3. QED
      BY <1>3, <3>2 DEF Completed
  <2>3. FireOf(engine.sequence_rules[i], spatial, u).complete \in BOOLEAN
    BY DEF FireOf, FireSequence
  <2>4. w(i).visits \in Seq([t : Nat, entered : SUBSET (Zones \union Circles)])
    <3>1. u.t_ms \in Nat /\ u.id \in Entities
      BY TimesAssumption DEF Updates
    <3>2. seen[i][u.id] \in Seens
      BY <1>6, <3>1
    <3>3. seen[i][u.id].visits \in Seq([t : Nat, entered : SUBSET (Zones \union Circles)])
      BY <3>2 DEF Seens
    <3>4. [t |-> u.t_ms, entered |-> Entered(spatial)] \in [t : Nat, entered : SUBSET (Zones \union Circles)]
      BY <1>5, <3>1
    <3> HIDE DEF w
    <3>5. QED
      BY <2>1, <3>3, <3>4
  <2>5. w(i) \in Seens
    <3>1. u.t_ms \in Nat
      BY TimesAssumption DEF Updates
    <3>2. w(i).visits = Append(IF seen[i][u.id].completed THEN <<>> ELSE seen[i][u.id].visits,
                               [t |-> u.t_ms, entered |-> Entered(spatial)])
      BY <2>1
    <3> HIDE DEF w
    <3>3. QED
      BY <2>1, <2>4, <3>1, <3>2 DEF Seens
  <2>6. (w(i).completed <=> \E ev \in events : ev.kind = "sequence_complete" /\ ev.rule = i)
        /\ w(i).last_t_ms = u.t_ms
        /\ w(i).visits = Append(IF seen[i][u.id].completed THEN <<>> ELSE seen[i][u.id].visits,
                                [t |-> u.t_ms, entered |-> Entered(spatial)])
    BY <2>1
  <2> HIDE DEF w
  <2>7. w(i).completed \in BOOLEAN
    BY <2>5 DEF Seens
  <2>8. w(i).completed = FireOf(engine.sequence_rules[i], spatial, u).complete
    BY <2>2, <2>3, <2>6, <2>7
  <2>9. QED
    BY <2>5, <2>6, <2>8
<1> HIDE DEF w
<1>8. \A i \in DOMAIN seen : seen'[i] = [seen[i] EXCEPT ![u.id] = w(i)]
  BY <1>1
<1>9. u.id \in Entities
  BY DEF Updates
<1>10. ASSUME NEW i \in DOMAIN seen
       PROVE  seen'[i] \in [Entities -> Seens]
  <2> DEFINE new == w(i)
             old == seen[i]
  <2>1. /\ new \in Seens /\ old \in [Entities -> Seens]
        /\ seen'[i] = [old EXCEPT ![u.id] = new]
    BY <1>6, <1>7, <1>8
  <2> HIDE DEF new, old
  <2>2. QED
    BY <1>9, <2>1
<1>11. ASSUME NEW i \in DOMAIN seen, NEW e \in Entities
       PROVE  Advanced(u, spatial, i, e)
  <2>1. /\ engine'.sequence_rules[i].rule = engine.sequence_rules[i].rule
        /\ engine'.sequence_rules[i].progress[e] =
             IF e = u.id THEN FireOf(engine.sequence_rules[i], spatial, u).progress
                         ELSE engine.sequence_rules[i].progress[e]
    BY <1>3, <1>6, FiredProgress DEF SeqInv
  <2>2. seen'[i][e] = IF e = u.id THEN w(i) ELSE seen[i][e]
    BY <1>6, <1>8, <1>9
  <2>3. QED
    BY <1>7, <2>1, <2>2 DEF Advanced
<1>12. DOMAIN engine'.sequence_rules = DOMAIN engine.sequence_rules
  BY <1>3 DEF FireSequences
<1>13. QED
  BY <1>1, <1>2, <1>3, <1>5, <1>10, <1>11, <1>12

\* One more visit for the entity of the update; no other record grows.
LEMMA VisitsCounted ==
  ASSUME SeqInv, NEW u \in Updates, NEW spatial, NEW i \in DOMAIN seen, NEW e \in Entities,
         Entered(spatial) \subseteq Zones \union Circles, Advanced(u, spatial, i, e)
  PROVE  Len(seen'[i][e].visits) <= tries + 1
<1> DEFINE V == [t : Nat, entered : SUBSET (Zones \union Circles)]
           kept == IF seen[i][e].completed THEN <<>> ELSE seen[i][e].visits
           visit == [t |-> u.t_ms, entered |-> Entered(spatial)]
<1>1. seen[i] \in [Entities -> Seens]
  <2> DEFINE T == [Entities -> Seens]
  <2>1. seen \in Seq(T)
    BY DEF SeqInv
  <2> HIDE DEF T
  <2>2. seen[i] \in T
    BY <2>1
  <2>3. QED
    BY <2>2 DEF T
<1>2. seen[i][e].visits \in Seq(V) /\ Len(seen[i][e].visits) <= tries /\ tries \in Nat
  BY <1>1 DEF Seens, SeqInv
<1>3. visit \in V
  BY TimesAssumption DEF Updates
<1>4. e = u.id => seen'[i][e].visits = Append(kept, visit)
  BY DEF Advanced
<1>5. e # u.id => seen'[i][e] = seen[i][e]
  BY DEF Advanced
<1> HIDE DEF visit, V
<1>6. kept \in Seq(V) /\ Len(kept) <= tries
  <2>1. <<>> \in Seq(V) /\ Len(<<>>) = 0
    OBVIOUS
  <2>2. QED
    BY <1>2, <2>1
<1> HIDE DEF kept
<1>7. Len(Append(kept, visit)) = Len(kept) + 1 /\ Len(kept) \in Nat /\ Len(seen[i][e].visits) \in Nat
  BY <1>2, <1>3, <1>6
<1>8. QED
  BY <1>2, <1>4, <1>5, <1>6, <1>7

\* An accepted update is one Fire of every rule for its entity.
LEMMA AcceptedSeq ==
  ASSUME SeqInv, NEW u \in Updates, NEW fault, SProcess(u, fault), out'.error = None
  PROVE  /\ SeqInv'
         /\ \A i, rule, e : e \in Entities => Follows(i, rule, e)
<1> DEFINE spatial == Crossings(engine, u)
           n == Len(seen)
<1>1. /\ engine' \in EngineStates(Rules, Sequences) /\ WellFormed(engine'.entities)
      /\ engine'.entities = [engine.entities EXCEPT ![u.id] = After(engine, u)]
      /\ Accepts(engine.entities[u.id], u)
      /\ Entered(spatial) \subseteq Zones \union Circles
      /\ DOMAIN engine'.sequence_rules = DOMAIN engine.sequence_rules
      /\ DOMAIN seen' = DOMAIN seen
      /\ \A i \in DOMAIN seen : seen'[i] \in [Entities -> Seens]
      /\ \A i \in DOMAIN seen, e \in Entities : Advanced(u, spatial, i, e)
  BY AcceptedAdvances
<1>2. After(engine, u).last_t_ms = u.t_ms /\ u.t_ms \in Nat /\ u.t_ms \in Times /\ u.id \in Entities
      /\ u.t_ms # None /\ engine.entities \in [Entities -> EntityStates]
  BY TimesAssumption DEF After, Advance, Updates, SeqInv, EngineStates
<1>3. tries' = tries + 1 /\ tries < MaxUpdates /\ tries \in Nat /\ MaxUpdates \in Nat
  BY EngineInputs DEF SProcess, SeqInv
<1>4. DOMAIN seen = 1 .. n /\ n \in Nat /\ \A i \in 1 .. n : seen[i] \in [Entities -> Seens]
  <2> DEFINE T == [Entities -> Seens]
  <2>1. seen \in Seq(T)
    BY DEF SeqInv
  <2> HIDE DEF T
  <2>2. DOMAIN seen = 1 .. n /\ n \in Nat /\ \A i \in 1 .. n : seen[i] \in T
    BY <2>1
  <2>3. QED
    BY <2>2 DEF T
<1>5. /\ DOMAIN engine.sequence_rules = 1 .. n /\ Len(engine.sequence_rules) = n
      /\ engine'.sequence_rules \in Seq([rule : Sequences, progress : [Entities -> Progresses]])
  <2>1. engine.sequence_rules \in Seq([rule : Sequences, progress : [Entities -> Progresses]])
    BY DEF SeqInv, EngineStates
  <2>2. QED
    BY <1>1, <2>1, SeqElements DEF SeqInv, EngineStates
<1> HIDE DEF spatial, n
<1>6. ASSUME NEW i \in DOMAIN seen', NEW e \in Entities
      PROVE  /\ Len(seen'[i][e].visits) <= tries'
             /\ NotLater(seen'[i][e].last_t_ms, engine'.entities[e])
  <2>1. Advanced(u, spatial, i, e) /\ i \in DOMAIN seen
    BY <1>1, <1>6
  <2>2. Len(seen'[i][e].visits) <= tries'
    BY <1>1, <1>3, <2>1, VisitsCounted
  <2>3. NotLater(seen'[i][e].last_t_ms, engine'.entities[e])
    <3>1. CASE e = u.id
      <4>1. engine'.entities[e].last_t_ms = u.t_ms
        BY <1>1, <1>2, <3>1
      <4>2. seen'[i][e].last_t_ms = u.t_ms
        BY <2>1, <3>1 DEF Advanced
      <4>3. QED
        BY <1>2, <4>1, <4>2 DEF NotLater
    <3>2. CASE e # u.id
      <4>1. engine'.entities[e] = engine.entities[e] /\ seen'[i][e] = seen[i][e]
        BY <1>1, <1>2, <2>1, <3>2 DEF Advanced
      <4>2. QED
        BY <2>1, <4>1 DEF SeqInv
    <3>3. QED
      BY <3>1, <3>2
  <2>4. QED
    BY <2>2, <2>3
<1>7. SeqInv'
  <2> DEFINE T == [Entities -> Seens]
  <2>1. seen' \in Seq(T) /\ Len(seen') = n
    <3>1. seen' = [i \in 1 .. n |-> seen'[i]] /\ \A i \in 1 .. n : seen'[i] \in T
      <4>1. seen' = [i \in DOMAIN seen |->
                       [seen[i] EXCEPT ![u.id] = Witness(@, i, u, out'.events)]]
        BY DEF SProcess
      <4>2. QED
        BY <1>1, <1>4, <4>1
    <3> HIDE DEF T
    <3>2. QED
      BY <1>4, <3>1
  <2>2. DOMAIN engine'.sequence_rules = 1 .. n
    BY <1>1, <1>5
  <2>3. Len(engine'.sequence_rules) = n
    <3> DEFINE S == [rule : Sequences, progress : [Entities -> Progresses]]
               rs == engine'.sequence_rules
    <3>1. rs \in Seq(S) /\ DOMAIN rs = 1 .. n
      BY <1>5, <2>2
    <3> HIDE DEF S, rs
    <3>2. Len(rs) = n
      BY <1>4, <3>1
    <3>3. QED
      BY <3>2 DEF rs
  <2>4. tries' \in Nat
    BY <1>3
  <2> HIDE DEF T
  <2>5. QED
    BY <1>1, <1>6, <2>1, <2>3, <2>4 DEF SeqInv, T
<1>8. ASSUME NEW i, NEW rule, NEW e \in Entities
      PROVE  Follows(i, rule, e)
  <2> SUFFICES ASSUME i \in 1 .. n, engine'.sequence_rules[i].rule = rule
               PROVE  [RuleMachine(i, rule, e)!Next]_(RuleMachine(i, rule, e)!vars)
    BY <1>1, <1>5 DEF Follows
  <2>1. Advanced(u, spatial, i, e)
    BY <1>1, <1>4
  <2>2. CASE e # u.id
    BY <2>1, <2>2 DEF Advanced, RuleMachine!vars
  <2>3. CASE e = u.id
    <3> DEFINE same == [steps |-> rule.steps, within_ms |-> rule.within_ms]
               s == engine.sequence_rules[i]
               entered == Entered(spatial)
    <3>1. /\ s.rule = rule
          /\ engine'.sequence_rules[i].progress[e] = FireOf(s, spatial, u).progress
          /\ seen'[i][e].completed = FireOf(s, spatial, u).complete
          /\ seen'[i][e].last_t_ms = u.t_ms
          /\ seen'[i][e].visits = Append(IF seen[i][e].completed THEN <<>> ELSE seen[i][e].visits,
                                         [t |-> u.t_ms, entered |-> entered])
      BY <2>1, <2>3 DEF Advanced
    <3>2. FireOf(s, spatial, u) = FireSequence(rule, s.progress[e], entered, u.t_ms)
      BY <2>3, <3>1 DEF FireOf
    <3>3. RuleMachine(i, rule, e)!FireSequence(same, s.progress[e], entered, u.t_ms)
            = FireSequence(rule, s.progress[e], entered, u.t_ms)
      BY SameFire
    <3>4. u.t_ms >= seen[i][e].last_t_ms
      <4>1. seen[i][e].last_t_ms \in Nat /\ NotLater(seen[i][e].last_t_ms, engine.entities[e])
        BY <1>4 DEF SeqInv, Seens
      <4>2. engine.entities[e].last_t_ms # None =>
              u.t_ms >= engine.entities[e].last_t_ms /\ engine.entities[e].last_t_ms \in Nat
        BY <1>1, <1>2, <2>3, TimesAssumption DEF Accepts, EntityStates
      <4>3. QED
        BY <1>2, <4>1, <4>2 DEF NotLater
    <3>5. Len(seen[i][e].visits) < MaxUpdates
      <4>1. Len(seen[i][e].visits) <= tries /\ seen[i][e] \in Seens
        BY <1>4 DEF SeqInv
      <4>2. Len(seen[i][e].visits) \in Nat
        BY <4>1 DEF Seens
      <4>3. QED
        BY <1>3, <4>1, <4>2
    <3>6. entered \in SUBSET (Zones \union Circles)
      BY <1>1
    <3> HIDE DEF s, entered
    <3>7. RuleMachine(i, rule, e)!Fire(u.t_ms, entered)
      BY <3>1, <3>2, <3>3, <3>4, <3>5 DEF RuleMachine!Fire, s
    <3>8. QED
      BY <1>2, <3>6, <3>7 DEF RuleMachine!Next
  <2>4. QED
    BY <2>2, <2>3
<1>9. QED
  BY <1>7, <1>8

LEMMA SeqStep ==
  ASSUME Faults \subseteq {"get"}, SeqInv, SNext
  PROVE  /\ SeqInv'
         /\ \A i, rule, e : e \in Entities => Follows(i, rule, e)
<1>1. ASSUME NEW u \in Updates, NEW fault \in Faults \union {None}, SProcess(u, fault)
      PROVE  /\ SeqInv'
             /\ \A i, rule, e : e \in Entities => Follows(i, rule, e)
  BY <1>1, AcceptedSeq, RefusedSeq
<1>2. QED
  BY <1>1, ConfigureSeq, DefineSeq, RestartSeq DEF SNext

\* While no write to the store fails, nothing was seen of a rule later than the last
\* time of its entity, and each rule has its record of what was seen.
THEOREM SeqInvariance ==
  ASSUME Faults \subseteq {"get"}
  PROVE  SSpec => []SeqInv
<1>1. SeqInv /\ UNCHANGED seqvars => SeqInv'
  BY DEF SeqInv, seqvars
<1>2. SeqInv /\ [SNext]_seqvars => SeqInv'
  BY <1>1, SeqStep
<1>3. QED
  BY <1>2, InitSeq, PTL DEF SSpec

\* If no write to the store fails, then for every set of rules and entities each
\* rule is, from the moment it is added, the machine of module SequenceRule on the
\* events the caller was given.
THEOREM SequencesImplemented ==
  ASSUME Faults \subseteq {"get"}
  PROVE  SSpec => ImplementsSequenceRule
<1>1. SeqInv /\ [SNext]_seqvars =>
        [\A i \in 1 .. MaxRules, rule \in Sequences, e \in Entities :
           i \in DOMAIN engine'.sequence_rules /\ engine'.sequence_rules[i].rule = rule =>
             IF i \in DOMAIN engine.sequence_rules
               THEN [RuleMachine(i, rule, e)!Next]_(RuleMachine(i, rule, e)!vars)
               ELSE RuleMachine(i, rule, e)!Init']_seqvars
  BY SeqStep DEF Follows
<1>2. QED
  BY SeqInvariance, <1>1, PTL DEF SSpec, ImplementsSequenceRule
=============================================================================
