-------------------------- MODULE SharedStoreProofs --------------------------
(***************************************************************************)
(* SharedStore for every number of engines, entities and geometries: what  *)
(* the store holds between the steps of several engines, and what their    *)
(* events together tell of it.                                             *)
(***************************************************************************)
EXTENDS SharedStore, EngineOpsProofs

\* The engine that process_event runs on: the zones of this process, and the
\* state it read.
Working(m) == [machine[m] EXCEPT !.entities[call[m].update.id] = call[m].state]

\* A call that has read a state it can work on.
ReadWell(c) ==
  /\ c.update \in Updates
  /\ c.state \in EntityStates
  /\ Timed(c.state)
  /\ Len(c.state.history) <= HistorySize
  /\ Accepts(c.state, c.update)

TypeInv ==
  /\ stored \in [Entities -> EntityStates]
  /\ WellFormed(stored)
  /\ machine \in [Engines -> EngineStates({}, {})]
  /\ \A m \in Engines : WellFormed(machine[m].entities)
  /\ call = [m \in Engines |-> call[m]]
  /\ \A m \in Engines :
       /\ call[m].step = "read" => ReadWell(call[m])
       /\ call[m].step # "written" => call[m].events = {}

-----------------------------------------------------------------------------
\* Replacing one entity of an engine.
LEMMA WorkingType ==
  ASSUME TypeInv, NEW m \in Engines, Pending(m)
  PROVE  /\ Working(m) \in EngineStates({}, {})
         /\ WellFormed(Working(m).entities)
         /\ Working(m).entities[call[m].update.id] = call[m].state
         /\ Working(m).area = machine[m].area
         /\ Working(m).dwell = machine[m].dwell
<1> DEFINE eng == machine[m]
           e == call[m].update.id
           st == call[m].state
           new == [eng.entities EXCEPT ![e] = st]
<1>1. /\ eng \in EngineStates({}, {}) /\ WellFormed(eng.entities)
      /\ e \in Entities /\ st \in EntityStates
      /\ Timed(st) /\ Len(st.history) <= HistorySize
  BY DEF TypeInv, Pending, ReadWell, Updates
<1>2. Working(m) = [eng EXCEPT !.entities[e] = st]
  BY DEF Working
<1> HIDE DEF eng, e, st
<1>3. eng.entities \in [Entities -> EntityStates]
  BY <1>1 DEF EngineStates
<1>4. Working(m) = [area |-> eng.area, dwell |-> eng.dwell, entities |-> new,
                    configurable_rules |-> eng.configurable_rules,
                    sequence_rules |-> eng.sequence_rules]
  BY <1>1, <1>2 DEF EngineStates
<1>5. new \in [Entities -> EntityStates] /\ new[e] = st
  BY <1>1, <1>3
<1>6. WellFormed(new)
  BY <1>1, <1>3 DEF WellFormed
<1> HIDE DEF new
<1>7. Working(m) \in EngineStates({}, {})
  BY <1>1, <1>4, <1>5 DEF EngineStates
<1>8. QED
  BY <1>4, <1>5, <1>6, <1>7 DEF eng, e, st

\* process_event succeeds on what it read, and writes back the advanced entity.
LEMMA ResultOutcome ==
  ASSUME TypeInv, NEW m \in Engines, Pending(m)
  PROVE  LET u == call[m].update
             new == Advance(machine[m], call[m].state, u)
         IN  /\ u \in Updates
             /\ new \in EntityStates /\ Timed(new) /\ Len(new.history) <= HistorySize
             /\ Written(m) = [stored EXCEPT ![u.id] = new]
             /\ Reports(Result(m).events, call[m].state, new, u)
<1> DEFINE u == call[m].update
           st == call[m].state
           eng == Working(m)
           r == Result(m)
           new == Advance(machine[m], st, u)
<1>1. /\ eng \in EngineStates({}, {}) /\ WellFormed(eng.entities)
      /\ eng.entities[u.id] = st
      /\ eng.area = machine[m].area /\ eng.dwell = machine[m].dwell
  BY WorkingType
<1>2. /\ u \in Updates /\ u.id \in Entities /\ st \in EntityStates
      /\ Timed(st) /\ Len(st.history) <= HistorySize /\ Accepts(st, u)
  BY DEF TypeInv, Pending, ReadWell, Updates
<1>3. r = ProcessEvent(eng, u, None)
  BY DEF Result, Working
<1>4. Advance(eng, st, u) = new
  BY <1>1 DEF Advance, Covers
<1>5. machine[m].dwell \in [Geometries -> Dwells]
  BY DEF TypeInv, EngineStates
<1> HIDE DEF eng, r, u, st
<1>6. Outcome(eng, u, None, r)
  BY <1>1, <1>2, <1>3, ProcessEventOutcome
<1>7. new \in EntityStates /\ Timed(new) /\ Len(new.history) <= HistorySize
  BY <1>2, <1>5, AdvanceType
<1>8. After(eng, u) = new
  BY <1>1, <1>4 DEF After
<1>9. r.error = None
  BY <1>1, <1>2, <1>6, EngineAssumption DEF Outcome
<1> HIDE DEF new
<1>10. r.engine.entities[u.id] = new
  <2>1. Stores(eng, u, None)
    BY <1>1, <1>2, EngineAssumption DEF Stores, StoreFaults
  <2>2. r.engine.entities = IF Stores(eng, u, None) THEN [eng.entities EXCEPT ![u.id] = new] ELSE eng.entities
    BY <1>6, <1>8, Zenon DEF Outcome
  <2>3. eng.entities \in [Entities -> EntityStates]
    BY <1>1 DEF EngineStates
  <2>4. QED
    BY <1>2, <2>1, <2>2, <2>3
<1>11. Reports(r.events, st, new, u)
  <2>1. IF r.error = None THEN Reports(r.events, eng.entities[u.id], After(eng, u), u) ELSE r.events = {}
    BY <1>6, ProcessEventReports
  <2>2. QED
    BY <1>1, <1>8, <1>9, <2>1
<1>12. Written(m) = [stored EXCEPT ![u.id] = new]
  BY <1>10 DEF Written, r, u
<1>13. QED
  BY <1>2, <1>7, <1>11, <1>12 DEF u, st, new, r

-----------------------------------------------------------------------------
LEMMA InitType == Init => TypeInv
<1> SUFFICES ASSUME Init PROVE TypeInv
  OBVIOUS
<1>1. NewEngine \in EngineStates({}, {}) /\ WellFormed(NewEngine.entities)
  BY NewEngineType
<1>2. stored \in [Entities -> EntityStates] /\ WellFormed(stored)
  BY NewEntityType DEF Init, WellFormed
<1>3. QED
  BY <1>1, <1>2 DEF Init, TypeInv, NoCall

LEMMA RegisterType ==
  ASSUME TypeInv, NEW m \in Engines, NEW g \in Geometries, RegisterAgain(m, g)
  PROVE  TypeInv'
<1> DEFINE r == Register(machine[m], g, Registered[g], NoDwell)
<1>1. machine[m] \in EngineStates({}, {}) /\ Registered[g] \in Areas \union {None} /\ NoDwell \in Dwells
  BY SharedStoreAssumption DEF TypeInv, NoDwell, Dwells
<1> HIDE DEF r
<1>2. r \in EngineStates({}, {}) /\ r.entities = machine[m].entities
  <2> DEFINE eng == machine[m]
             area == Registered[g]
  <2>1. /\ Register(eng, g, area, NoDwell) \in EngineStates({}, {})
        /\ Register(eng, g, area, NoDwell).entities = eng.entities
        /\ IF eng.area[g] # None \/ area \notin Areas
              THEN Register(eng, g, area, NoDwell) = eng
              ELSE /\ Register(eng, g, area, NoDwell).area = [eng.area EXCEPT ![g] = area]
                   /\ Register(eng, g, area, NoDwell).dwell = [eng.dwell EXCEPT ![g] = NoDwell]
    BY <1>1, RegisterOutcome
  <2>2. QED
    BY <1>1, <2>1 DEF r
<1>3. machine' = [machine EXCEPT ![m] = r] /\ UNCHANGED <<stored, call>>
  BY DEF RegisterAgain, r
<1>4. machine' \in [Engines -> EngineStates({}, {})]
  BY <1>2, <1>3 DEF TypeInv
<1>5. \A n \in Engines : machine'[n].entities = machine[n].entities
  BY <1>2, <1>3 DEF TypeInv
<1>6. QED
  BY <1>3, <1>4, <1>5 DEF TypeInv

LEMMA GetType ==
  ASSUME TypeInv, NEW m \in Engines, NEW u \in Updates, Get(m, u)
  PROVE  TypeInv'
<1>1. /\ u.id \in Entities /\ stored[u.id] \in EntityStates
      /\ Timed(stored[u.id]) /\ Len(stored[u.id].history) <= HistorySize
  BY DEF TypeInv, Updates, WellFormed
<1>2. UNCHANGED <<stored, machine>>
  BY DEF Get
<1>3. CASE Accepts(stored[u.id], u)
  <2> DEFINE c == [step |-> "read", update |-> u, state |-> stored[u.id], events |-> {}]
  <2>1. call' = [call EXCEPT ![m] = c]
    BY <1>3 DEF Get
  <2>2. c.step = "read" /\ c.events = {} /\ ReadWell(c)
    BY <1>1, <1>3 DEF ReadWell
  <2> HIDE DEF c
  <2>3. QED
    BY <1>2, <2>1, <2>2 DEF TypeInv
<1>4. CASE ~Accepts(stored[u.id], u)
  BY <1>2, <1>4 DEF Get, TypeInv
<1>5. QED
  BY <1>3, <1>4

\* What is written keeps the store well-formed.
LEMMA WrittenType ==
  ASSUME TypeInv, NEW m \in Engines, Pending(m)
  PROVE  Written(m) \in [Entities -> EntityStates] /\ WellFormed(Written(m))
<1> DEFINE e == call[m].update.id
           new == Advance(machine[m], call[m].state, call[m].update)
<1>1. /\ e \in Entities /\ new \in EntityStates /\ Timed(new) /\ Len(new.history) <= HistorySize
      /\ Written(m) = [stored EXCEPT ![e] = new]
  BY ResultOutcome DEF Updates
<1> HIDE DEF e, new
<1>2. QED
  BY <1>1 DEF TypeInv, WellFormed

\* A step that only writes, or not, and moves its engine's call on.
LEMMA CallType ==
  ASSUME TypeInv, NEW m \in Engines, NEW c, call' = [call EXCEPT ![m] = c],
         c.step # "read", c.step # "written" => c.events = {},
         machine' = machine \/ machine' = [machine EXCEPT ![m] = NewEngine],
         stored' = stored \/ (stored' \in [Entities -> EntityStates] /\ WellFormed(stored'))
  PROVE  TypeInv'
<1>1. stored' \in [Entities -> EntityStates] /\ WellFormed(stored')
  BY DEF TypeInv
<1>2. /\ machine' \in [Engines -> EngineStates({}, {})]
      /\ \A n \in Engines : WellFormed(machine'[n].entities)
  BY NewEngineType DEF TypeInv
<1>3. call' = [n \in Engines |-> call'[n]] /\ call'[m] = c /\ \A n \in Engines \ {m} : call'[n] = call[n]
  BY DEF TypeInv
<1>4. QED
  BY <1>1, <1>2, <1>3 DEF TypeInv

LEMMA CallSteps ==
  ASSUME NEW m \in Engines, Set(m) \/ SetFails(m) \/ Deliver(m) \/ Crash(m)
  PROVE  \E c : /\ call' = [call EXCEPT ![m] = c]
                /\ c = NoCall \/ c = [step |-> "written", update |-> call[m].update,
                                      state |-> None, events |-> Result(m).events]
                /\ c.step # "read" /\ (c.step # "written" => c.events = {})
                /\ machine' = machine \/ machine' = [machine EXCEPT ![m] = NewEngine]
                /\ stored' = stored \/ (Pending(m) /\ stored' = Written(m))
<1> DEFINE w == [step |-> "written", update |-> call[m].update,
                 state |-> None, events |-> Result(m).events]
<1>1. CASE Set(m)
  <2>1. call' = [call EXCEPT ![m] = w] /\ UNCHANGED machine /\ Pending(m) /\ stored' = Written(m)
    BY <1>1 DEF Set, AfterSet
  <2>2. w.step = "written"
    OBVIOUS
  <2> HIDE DEF w
  <2>3. QED
    BY <2>1, <2>2 DEF w
<1>2. CASE SetFails(m) \/ Deliver(m) \/ Crash(m)
  <2>1. /\ call' = [call EXCEPT ![m] = NoCall]
        /\ machine' = machine \/ machine' = [machine EXCEPT ![m] = NewEngine]
        /\ stored' = stored \/ (Pending(m) /\ stored' = Written(m))
    BY <1>2 DEF SetFails, Deliver, Crash
  <2>2. NoCall.step = "idle" /\ NoCall.events = {}
    BY DEF NoCall
  <2>3. QED
    BY <2>1, <2>2
<1>3. QED
  BY <1>1, <1>2

LEMMA TypeStep == TypeInv /\ [Next]_vars => TypeInv'
<1>1. ASSUME TypeInv, NEW m \in Engines, Set(m) \/ SetFails(m) \/ Deliver(m) \/ Crash(m)
      PROVE  TypeInv'
  <2>1. PICK c : /\ call' = [call EXCEPT ![m] = c]
                 /\ c.step # "read" /\ (c.step # "written" => c.events = {})
                 /\ machine' = machine \/ machine' = [machine EXCEPT ![m] = NewEngine]
                 /\ stored' = stored \/ (Pending(m) /\ stored' = Written(m))
    BY <1>1, CallSteps
  <2>2. stored' = stored \/ (stored' \in [Entities -> EntityStates] /\ WellFormed(stored'))
    BY <1>1, <2>1, WrittenType
  <2>3. QED
    BY <1>1, <2>1, <2>2, CallType
<1>2. TypeInv /\ UNCHANGED vars => TypeInv'
  BY DEF TypeInv, vars
<1>3. QED
  BY <1>1, <1>2, RegisterType, GetType DEF Next

\* The store, the engines and the calls under way keep their types: a call that has
\* read a state holds an update that state accepts.
THEOREM TypeInvariance == Spec => []TypeInv
BY InitType, TypeStep, PTL DEF Spec

-----------------------------------------------------------------------------
\* Where the applications register everything before they feed updates, a call
\* runs with the zones every application registers, and without thresholds.
ZonesInv ==
  \A m \in Engines, g \in Geometries :
    /\ machine[m].area[g] \in {None, Registered[g]}
    /\ machine[m].dwell[g] = NoDwell
    /\ call[m].step = "read" => machine[m].area[g] # None

LEMMA InitZones == Init => ZonesInv
BY DEF Init, NewEngine, NoCall, ZonesInv

LEMMA RegisterZones ==
  ASSUME TypeInv, ZonesInv, NEW m \in Engines, NEW g \in Geometries, RegisterAgain(m, g)
  PROVE  ZonesInv'
<1> DEFINE r == Register(machine[m], g, Registered[g], NoDwell)
           eng == machine[m]
           area == Registered[g]
<1>1. eng \in EngineStates({}, {}) /\ area \in Areas \union {None} /\ NoDwell \in Dwells /\ area \in Areas
  BY SharedStoreAssumption DEF TypeInv, NoDwell, Dwells
<1>2. /\ Register(eng, g, area, NoDwell) \in EngineStates({}, {})
      /\ Register(eng, g, area, NoDwell).entities = eng.entities
      /\ IF eng.area[g] # None \/ area \notin Areas
            THEN Register(eng, g, area, NoDwell) = eng
            ELSE /\ Register(eng, g, area, NoDwell).area = [eng.area EXCEPT ![g] = area]
                 /\ Register(eng, g, area, NoDwell).dwell = [eng.dwell EXCEPT ![g] = NoDwell]
  BY <1>1, RegisterOutcome
<1>3. r.area = [eng.area EXCEPT ![g] = area] /\ r.dwell = [eng.dwell EXCEPT ![g] = NoDwell]
  BY <1>1, <1>2 DEF RegisterAgain
<1>4. eng.area \in [Geometries -> Areas \union {None}] /\ eng.dwell \in [Geometries -> Dwells]
  BY <1>1 DEF EngineStates
<1>5. machine' = [machine EXCEPT ![m] = r] /\ UNCHANGED call /\ machine \in [Engines -> EngineStates({}, {})]
      /\ call[m].step = "idle"
  BY DEF RegisterAgain, TypeInv
<1> HIDE DEF r
<1>6. ASSUME NEW n \in Engines, NEW h \in Geometries
      PROVE  /\ machine'[n].area[h] \in {None, Registered[h]}
             /\ machine'[n].dwell[h] = NoDwell
             /\ call'[n].step = "read" => machine'[n].area[h] # None
  <2>1. CASE n = m
    <3>1. machine'[n] = r
      BY <1>5, <2>1
    <3>2. r.area[h] \in {None, Registered[h]} /\ r.dwell[h] = NoDwell
      BY <1>3, <1>4 DEF ZonesInv
    <3>3. QED
      BY <1>5, <2>1, <3>1, <3>2
  <2>2. CASE n # m
    <3>1. machine'[n] = machine[n]
      BY <1>5, <2>2
    <3>2. QED
      BY <1>5, <3>1 DEF ZonesInv
  <2>3. QED
    BY <2>1, <2>2
<1>7. QED
  BY <1>6 DEF ZonesInv

LEMMA ZonesStep ==
  ASSUME WaitsForZones
  PROVE  TypeInv /\ ZonesInv /\ [Next]_vars => ZonesInv'
<1>1. ASSUME TypeInv, ZonesInv, NEW m \in Engines, NEW u \in Updates, Get(m, u)
      PROVE  ZonesInv'
  <2>1. UNCHANGED machine /\ \A g \in Geometries : machine[m].area[g] # None
    BY <1>1 DEF Get
  <2>2. \A n \in Engines : n # m => call'[n] = call[n]
    BY <1>1 DEF Get, TypeInv
  <2>3. QED
    BY <1>1, <2>1, <2>2 DEF ZonesInv
<1>2. ASSUME TypeInv, ZonesInv, NEW m \in Engines, Set(m) \/ SetFails(m) \/ Deliver(m) \/ Crash(m)
      PROVE  ZonesInv'
  <2>1. PICK c : /\ call' = [call EXCEPT ![m] = c]
                 /\ c.step # "read"
                 /\ machine' = machine \/ machine' = [machine EXCEPT ![m] = NewEngine]
    BY <1>2, CallSteps
  <2>2. call'[m] = c /\ \A n \in Engines \ {m} : call'[n] = call[n]
    BY <1>2, <2>1 DEF TypeInv
  <2>3. \A n \in Engines : machine'[n] = machine[n] \/ (n = m /\ machine'[n] = NewEngine)
    BY <1>2, <2>1 DEF TypeInv
  <2>4. \A g \in Geometries : NewEngine.area[g] = None /\ NewEngine.dwell[g] = NoDwell
    BY DEF NewEngine
  <2>5. QED
    BY <1>2, <2>1, <2>2, <2>3, <2>4 DEF ZonesInv
<1>3. ZonesInv /\ UNCHANGED vars => ZonesInv'
  BY DEF ZonesInv, vars
<1>4. QED
  BY <1>1, <1>2, <1>3, RegisterZones DEF Next

\* If applications register before they feed updates, every call runs with every
\* zone, through crashes.
THEOREM ZonesInvariance ==
  ASSUME WaitsForZones
  PROVE  Spec => []ZonesInv
BY TypeInvariance, InitZones, ZonesStep, PTL DEF Spec

\* What a call writes is inside what its position is in.
LEMMA WrittenWhereItIs ==
  ASSUME TypeInv, ZonesInv, StoredIsWhereItIs, NEW m \in Engines, Pending(m)
  PROVE  \A e \in Entities, g \in Geometries :
           Written(m)[e].position # None =>
             (Written(m)[e].presence[g].inside <=> Written(m)[e].position \in Registered[g])
<1> DEFINE u == call[m].update
           st == call[m].state
           new == Advance(machine[m], st, u)
<1>1. u \in Updates /\ u.id \in Entities /\ u.x \in Points
  BY ResultOutcome DEF Updates
<1>2. Written(m) = [stored EXCEPT ![u.id] = new] /\ stored \in [Entities -> EntityStates]
  BY ResultOutcome DEF TypeInv
<1>3. ASSUME NEW g \in Geometries
      PROVE  new.position = u.x /\ (new.presence[g].inside <=> u.x \in Registered[g])
  <2>1. st.presence[g] \in Presences
    BY DEF TypeInv, Pending, ReadWell, EntityStates
  <2>2. machine[m].area[g] = Registered[g] /\ machine[m].area[g] # None /\ machine[m].dwell[g] = NoDwell
    BY DEF ZonesInv, Pending
  <2>3. Covers(machine[m], g, u.x) = (u.x \in Registered[g])
    BY <2>2 DEF Covers
  <2>4. /\ new.position = u.x
        /\ new.presence[g] = DwellStep(st.presence[g], Covers(machine[m], g, u.x), u.t_ms, machine[m].dwell[g])
    BY DEF Advance
  <2> HIDE DEF new, st, u
  <2>5. DwellStep(st.presence[g], Covers(machine[m], g, u.x), u.t_ms, NoDwell).inside
          = Covers(machine[m], g, u.x)
    BY <2>1, NoDwellStep, CoversType
  <2>6. QED
    BY <2>2, <2>3, <2>4, <2>5
<1> HIDE DEF new
<1>4. ASSUME NEW e \in Entities, NEW g \in Geometries, Written(m)[e].position # None
      PROVE  Written(m)[e].presence[g].inside <=> Written(m)[e].position \in Registered[g]
  <2>1. CASE e = u.id
    BY <1>1, <1>2, <1>3, <2>1
  <2>2. CASE e # u.id
    <3>1. Written(m)[e] = stored[e]
      BY <1>2, <2>2
    <3>2. QED
      BY <1>4, <3>1 DEF StoredIsWhereItIs
  <2>3. QED
    BY <2>1, <2>2
<1>5. QED
  BY <1>4

LEMMA OnlySetsStore ==
  ASSUME [Next]_vars
  PROVE  stored' = stored \/ \E m \in Engines : Pending(m) /\ stored' = Written(m)
BY CallSteps DEF Next, RegisterAgain, Get, vars

\* However many engines write one entity, from whatever they read and through
\* whatever crashes, a stored position has its memberships with it.
THEOREM StoredCorrect ==
  ASSUME WaitsForZones
  PROVE  Spec => []StoredIsWhereItIs
<1>1. Init => StoredIsWhereItIs
  BY DEF Init, NewEntity, StoredIsWhereItIs
<1>2. TypeInv /\ ZonesInv /\ StoredIsWhereItIs /\ [Next]_vars => StoredIsWhereItIs'
  <2>1. StoredIsWhereItIs /\ stored' = stored => StoredIsWhereItIs'
    BY DEF StoredIsWhereItIs
  <2>2. ASSUME TypeInv, ZonesInv, StoredIsWhereItIs, NEW m \in Engines, Pending(m), stored' = Written(m)
        PROVE  StoredIsWhereItIs'
    BY <2>2, WrittenWhereItIs DEF StoredIsWhereItIs
  <2>3. QED
    BY <2>1, <2>2, OnlySetsStore
<1>3. QED
  BY TypeInvariance, ZonesInvariance, <1>1, <1>2, PTL DEF Spec

-----------------------------------------------------------------------------
\* Each entity's updates go to one engine.
OneEngineEach == \A e \in Entities : \A m, n \in Route[e] : m = n

\* The engine that an entity's updates go to, while it has one under way, is the
\* only one that writes the entity: what it read is still stored, and what it wrote
\* is not overwritten before its events are out.
RouteInv ==
  \A m \in Engines :
    /\ call[m].step \in {"idle", "read", "written"}
    /\ call[m].step # "idle" =>
         call[m].update.id \in Entities /\ m \in Route[call[m].update.id]
    /\ call[m].step = "read" => call[m].state = stored[call[m].update.id]
    /\ call[m].step = "written" => Tells(call[m].events, call[m].update.id, stored)

\* A call tells exactly what its write changes.
LEMMA WrittenTold ==
  ASSUME TypeInv, NEW m \in Engines, Pending(m), call[m].state = stored[call[m].update.id]
  PROVE  /\ Tells(Result(m).events, call[m].update.id, Written(m))
         /\ Differences(Inside(stored), Written(m)) \subseteq About(Result(m).events, SpatialKinds)
         /\ \A e \in Entities : e # call[m].update.id => Written(m)[e] = stored[e]
<1> DEFINE u == call[m].update
           new == Advance(machine[m], call[m].state, u)
           events == Result(m).events
<1>1. /\ u \in Updates /\ u.id \in Entities /\ new \in EntityStates
      /\ Written(m) = [stored EXCEPT ![u.id] = new]
      /\ Reports(events, stored[u.id], new, u)
  BY ResultOutcome DEF Updates
<1>2. stored \in [Entities -> EntityStates]
  BY DEF TypeInv
<1> HIDE DEF new, events, u
<1>3. /\ Tells(events, u.id, [stored EXCEPT ![u.id] = new])
      /\ Differences(Inside(stored), [stored EXCEPT ![u.id] = new]) \subseteq About(events, SpatialKinds)
  BY <1>1, <1>2, ReportsTell
<1>4. QED
  BY <1>1, <1>2, <1>3 DEF u, events

LEMMA InitRoute == Init => RouteInv
BY DEF Init, NoCall, RouteInv

\* Writing another entity leaves what these events tell true.
LEMMA TellsKept ==
  ASSUME NEW events, NEW e, NEW before, NEW after, Tells(events, e, before),
         after[e] = before[e]
  PROVE  Tells(events, e, after)
<1>1. \A g : <<e, g>> \in Inside(after) <=> <<e, g>> \in Inside(before)
  BY DEF Inside
<1>2. QED
  BY <1>1, AboutSplit DEF Tells

LEMMA SetRoute ==
  ASSUME OneEngineEach, TypeInv, RouteInv, NEW m \in Engines, NEW c,
         call' = [call EXCEPT ![m] = c], Pending(m), stored' = Written(m),
         c.step = "idle" \/ (/\ c.step = "written" /\ c.update = call[m].update
                             /\ c.events = Result(m).events)
  PROVE  RouteInv'
<1>1. /\ Tells(Result(m).events, call[m].update.id, stored')
      /\ \A e \in Entities : e # call[m].update.id => stored'[e] = stored[e]
  BY WrittenTold DEF RouteInv, Pending
<1>2. call'[m] = c /\ \A n \in Engines \ {m} : call'[n] = call[n]
  BY DEF TypeInv
<1>3. ASSUME NEW n \in Engines \ {m}, call[n].step # "idle"
      PROVE  stored'[call[n].update.id] = stored[call[n].update.id]
  BY <1>1, <1>3 DEF OneEngineEach, RouteInv, Pending
<1>4. ASSUME NEW n \in Engines \ {m}, call[n].step = "written"
      PROVE  Tells(call[n].events, call[n].update.id, stored')
  BY <1>3, <1>4, TellsKept DEF RouteInv
<1>5. QED
  BY <1>1, <1>2, <1>3, <1>4 DEF RouteInv, Pending

LEMMA IdleRoute ==
  ASSUME TypeInv, RouteInv, NEW m \in Engines, call' = [call EXCEPT ![m] = NoCall], stored' = stored
  PROVE  RouteInv'
<1>1. call'[m].step = "idle" /\ \A n \in Engines \ {m} : call'[n] = call[n]
  BY DEF TypeInv, NoCall
<1>2. QED
  BY <1>1 DEF RouteInv

LEMMA RouteStep ==
  ASSUME OneEngineEach
  PROVE  TypeInv /\ RouteInv /\ [Next]_vars => RouteInv'
<1>1. ASSUME TypeInv, RouteInv, NEW m \in Engines, NEW u \in Updates, Get(m, u)
      PROVE  RouteInv'
  <2>1. CASE Accepts(stored[u.id], u)
    <3> DEFINE c == [step |-> "read", update |-> u, state |-> stored[u.id], events |-> {}]
    <3>1. call' = [call EXCEPT ![m] = c] /\ UNCHANGED stored /\ m \in Route[u.id] /\ u.id \in Entities
      BY <1>1, <2>1 DEF Get, Updates
    <3>2. c.step = "read" /\ c.update = u /\ c.state = stored[u.id]
      OBVIOUS
    <3> HIDE DEF c
    <3>3. call'[m] = c /\ \A n \in Engines \ {m} : call'[n] = call[n]
      BY <1>1, <3>1 DEF TypeInv
    <3>4. QED
      BY <1>1, <3>1, <3>2, <3>3 DEF RouteInv
  <2>2. CASE ~Accepts(stored[u.id], u)
    BY <1>1, <2>2 DEF Get, RouteInv
  <2>3. QED
    BY <2>1, <2>2
<1>2. ASSUME TypeInv, RouteInv, NEW m \in Engines, Set(m)
      PROVE  RouteInv'
  <2> DEFINE c == [step |-> "written", update |-> call[m].update, state |-> None, events |-> Result(m).events]
  <2>1. call' = [call EXCEPT ![m] = c] /\ Pending(m) /\ stored' = Written(m)
    BY <1>2 DEF Set, AfterSet
  <2>2. c.step = "written" /\ c.update = call[m].update /\ c.events = Result(m).events
    OBVIOUS
  <2> HIDE DEF c
  <2>3. QED
    BY <1>2, <2>1, <2>2, SetRoute
<1>3. ASSUME TypeInv, RouteInv, NEW m \in Engines, SetFails(m)
      PROVE  RouteInv'
  <2>1. call' = [call EXCEPT ![m] = NoCall] /\ Pending(m) /\ (stored' = stored \/ stored' = Written(m))
    BY <1>3 DEF SetFails
  <2>2. NoCall.step = "idle"
    BY DEF NoCall
  <2>3. QED
    BY <1>3, <2>1, <2>2, SetRoute, IdleRoute
<1>4. ASSUME TypeInv, RouteInv, NEW m \in Engines, Deliver(m) \/ Crash(m)
      PROVE  RouteInv'
  BY <1>4, IdleRoute DEF Deliver, Crash
<1>5. RouteInv /\ UNCHANGED <<stored, call>> => RouteInv'
  BY DEF RouteInv
<1>6. QED
  BY <1>1, <1>2, <1>3, <1>4, <1>5 DEF Next, RegisterAgain, vars

\* If each entity is routed to one engine, what a call has read is still stored, and
\* what it has written stays until its events are out (process_event over
\* RedisStateStore).
THEOREM RouteInvariance ==
  ASSUME OneEngineEach
  PROVE  Spec => []RouteInv
BY TypeInvariance, InitRoute, RouteStep, PTL DEF Spec

-----------------------------------------------------------------------------
LEMMA DeliverTold ==
  ASSUME TypeInv, RouteInv, ToldIsStored, NEW m \in Engines, Deliver(m)
  PROVE  ToldIsStored'
<1> DEFINE about(n) == About(call[n].events, SpatialKinds)
<1>1. /\ Differences(told', stored) \subseteq Differences(told, stored) \ about(m)
      /\ stored' = stored /\ doubt' = doubt \ about(m)
  BY HeardSettles DEF Deliver, RouteInv
<1>2. \A n \in Engines : n # m => call'[n] = call[n]
  BY DEF Deliver, TypeInv
<1>3. OnTheWay \ about(m) \subseteq OnTheWay'
  BY <1>2 DEF OnTheWay
<1>4. QED
  BY <1>1, <1>3 DEF ToldIsStored, Differences

\* A write makes differences only of what its events are about.
LEMMA WrittenDiffers ==
  ASSUME TypeInv, RouteInv, NEW m \in Engines, Pending(m), NEW known
  PROVE  Differences(known, Written(m))
           \subseteq Differences(known, stored) \union About(Result(m).events, SpatialKinds)
BY WrittenTold DEF RouteInv, Pending, Differences

\* An engine without written events has none on the way.
LEMMA OthersOnTheWay ==
  ASSUME TypeInv, NEW m \in Engines, NEW c, call' = [call EXCEPT ![m] = c]
  PROVE  /\ OnTheWay \subseteq OnTheWay' \union About(call[m].events, SpatialKinds)
         /\ About(c.events, SpatialKinds) \subseteq OnTheWay'
         /\ Pending(m) => About(call[m].events, SpatialKinds) = {}
<1>1. call'[m] = c /\ \A n \in Engines \ {m} : call'[n] = call[n]
  BY DEF TypeInv
<1>2. Pending(m) => call[m].events = {}
  BY DEF TypeInv, Pending
<1>3. OnTheWay \subseteq OnTheWay' \union About(call[m].events, SpatialKinds)
  BY <1>1 DEF OnTheWay
<1>4. About(c.events, SpatialKinds) \subseteq OnTheWay'
  BY <1>1 DEF OnTheWay
<1>5. QED
  BY <1>2, <1>3, <1>4 DEF About

LEMMA SetTold ==
  ASSUME TypeInv, RouteInv, ToldIsStored, NEW m \in Engines, Set(m) \/ SetFails(m)
  PROVE  ToldIsStored'
<1> DEFINE lost == About(Result(m).events, SpatialKinds)
<1>1. Pending(m) /\ told' = told
  BY DEF Set, SetFails
<1>2. Differences(told, Written(m)) \subseteq Differences(told, stored) \union lost
  BY <1>1, WrittenDiffers
<1>3. Differences(told, stored) \subseteq doubt \union OnTheWay
  BY DEF ToldIsStored, Differences
<1>4. CASE Set(m)
  <2> DEFINE c == [step |-> "written", update |-> call[m].update, state |-> None, events |-> Result(m).events]
  <2>1. call' = [call EXCEPT ![m] = c] /\ stored' = Written(m) /\ doubt' = doubt
    BY <1>4 DEF Set, AfterSet
  <2>2. c.events = Result(m).events
    OBVIOUS
  <2> HIDE DEF c
  <2>3. OnTheWay \subseteq OnTheWay' /\ lost \subseteq OnTheWay'
    BY <1>1, <2>1, <2>2, OthersOnTheWay
  <2>4. QED
    BY <1>1, <1>2, <1>3, <2>1, <2>3 DEF ToldIsStored, Differences
<1>5. CASE SetFails(m)
  <2>1. /\ call' = [call EXCEPT ![m] = NoCall]
        /\ \/ stored' = stored /\ doubt' = doubt
           \/ stored' = Written(m) /\ doubt' = doubt \union lost
    BY <1>5 DEF SetFails
  <2>2. OnTheWay \subseteq OnTheWay'
    BY <1>1, <2>1, OthersOnTheWay
  <2> HIDE DEF lost
  <2>3. QED
    BY <1>1, <1>2, <1>3, <2>1, <2>2 DEF ToldIsStored, Differences
<1>6. QED
  BY <1>4, <1>5

LEMMA CrashTold ==
  ASSUME TypeInv, ToldIsStored, NEW m \in Engines, Crash(m)
  PROVE  ToldIsStored'
<1>1. /\ call' = [call EXCEPT ![m] = NoCall] /\ UNCHANGED <<stored, told>>
      /\ doubt' = doubt \union About(call[m].events, SpatialKinds)
  BY DEF Crash
<1>2. OnTheWay \subseteq OnTheWay' \union About(call[m].events, SpatialKinds)
  BY <1>1, OthersOnTheWay
<1>3. QED
  BY <1>1, <1>2 DEF ToldIsStored

LEMMA GetTold ==
  ASSUME TypeInv, ToldIsStored, NEW m \in Engines, NEW u \in Updates, Get(m, u)
  PROVE  ToldIsStored'
<1>1. UNCHANGED <<stored, told, doubt>>
  BY DEF Get
<1>2. OnTheWay \subseteq OnTheWay'
  <2>1. CASE Accepts(stored[u.id], u)
    <3>1. call' = [call EXCEPT ![m] = [step |-> "read", update |-> u, state |-> stored[u.id], events |-> {}]]
          /\ call[m].events = {}
      BY <2>1 DEF Get, TypeInv
    <3>2. About(call[m].events, SpatialKinds) = {}
      BY <3>1 DEF About
    <3>3. QED
      BY <3>1, <3>2, OthersOnTheWay
  <2>2. CASE ~Accepts(stored[u.id], u)
    BY <2>2 DEF Get, OnTheWay
  <2>3. QED
    BY <2>1, <2>2
<1>3. QED
  BY <1>1, <1>2 DEF ToldIsStored

\* For every number of engines, entities and geometries, and through crashes and
\* failed writes: if each entity is fed to one engine, the consumer is wrong at
\* most about what a lost event was about, or one still on its way.
THEOREM ToldCorrect ==
  ASSUME OneEngineEach
  PROVE  Spec => []ToldIsStored
<1>1. Init => ToldIsStored
  BY OutsideType DEF Init, NewEntity, Inside, ToldIsStored
<1>2. TypeInv /\ RouteInv /\ ToldIsStored /\ [Next]_vars => ToldIsStored'
  <2>1. ToldIsStored /\ UNCHANGED <<stored, call, told, doubt>> => ToldIsStored'
    BY DEF ToldIsStored, OnTheWay
  <2>2. QED
    BY <2>1, GetTold, SetTold, DeliverTold, CrashTold DEF Next, RegisterAgain, vars
<1>3. QED
  BY TypeInvariance, RouteInvariance, <1>1, <1>2, PTL DEF Spec
==============================================================================
