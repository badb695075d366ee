--------------------------- MODULE EngineOpsProofs ---------------------------
(***************************************************************************)
(* What the operations of the engine preserve, what an update changes, and *)
(* what a batch of them returns and leaves, for every set of entities,     *)
(* geometries, areas, rules and times: the lemmas that the proofs about    *)
(* the state machines over EngineOps and BatchOps cite.                    *)
(***************************************************************************)
EXTENDS BatchOps, FiniteSetTheorems, WellFoundedInduction, TLAPS

-----------------------------------------------------------------------------
\* The dwell step of one geometry keeps the types of its two pending entries.
LEMMA DwellStepType ==
  ASSUME NEW m \in Presences, NEW phys \in BOOLEAN, NEW t \in Times, NEW d \in Dwells
  PROVE  DwellStep(m, phys, t, d) \in Presences
BY DEF DwellStep, Waited, WaitingSince, MinDwell, Presences

\* An entity starts outside of everything.
LEMMA OutsideType == Outside \in Presences /\ ~Outside.inside
BY DEF Outside, Presences

\* The state of an entity before its first update is typed and well formed.
LEMMA NewEntityType == NewEntity \in EntityStates /\ Timed(NewEntity) /\ Len(NewEntity.history) <= HistorySize
<1>1. <<>> \in Seq([x : Points, t_ms : Times]) /\ Len(<<>>) = 0
  OBVIOUS
<1>2. [g \in Geometries |-> Outside] \in [Geometries -> Presences]
  BY OutsideType
<1>3. NewEntity \in EntityStates
  BY <1>1, <1>2 DEF NewEntity, EntityStates
<1>4. QED
  BY <1>1, <1>3, EngineAssumption DEF NewEntity, Timed

\* A motion is a distance and a heading over a positive time, or nothing.
LEMMA MotionType ==
  ASSUME NEW st \in EntityStates, Timed(st), NEW u \in Updates, Accepts(st, u)
  PROVE  Motion(st, u) \in Legs \union {None}
<1>1. /\ u.x \in Int /\ u.t_ms \in Nat
      /\ st.position \in Points \union {None} /\ st.last_t_ms \in Times \union {None}
  BY TimesAssumption, EngineAssumption DEF Updates, EntityStates
<1>2. CASE st.position = None \/ u.t_ms = st.last_t_ms
  BY <1>2 DEF Motion
<1>3. CASE st.position # None /\ u.t_ms # st.last_t_ms
  <2>1. st.position \in Int /\ st.last_t_ms \in Nat
    BY <1>1, <1>3, TimesAssumption, EngineAssumption DEF Timed
  <2>2. u.t_ms >= st.last_t_ms
    BY <1>3 DEF Timed, Accepts
  <2>3. u.t_ms - st.last_t_ms \in Nat \ {0}
    BY <1>1, <1>3, <2>1, <2>2
  <2>4. QED
    BY <1>1, <1>3, <2>1, <2>3 DEF Motion, Legs
<1>4. QED
  BY <1>2, <1>3

\* The ring buffer stays within its size.
LEMMA RememberType ==
  ASSUME NEW S, NEW history \in Seq(S), NEW sample \in S, Len(history) <= HistorySize
  PROVE  Remember(history, sample) \in Seq(S) /\ Len(Remember(history, sample)) <= HistorySize
<1>1. HistorySize \in Nat /\ Len(history) \in Nat
  BY EngineAssumption
<1>2. CASE HistorySize = 0
  BY <1>2 DEF Remember
<1>3. CASE HistorySize # 0 /\ Len(history) >= HistorySize
  <2>1. history # <<>>
    BY <1>1, <1>3
  <2>2. Tail(history) \in Seq(S) /\ Len(Tail(history)) = Len(history) - 1
    BY <2>1
  <2>3. QED
    BY <1>1, <1>3, <2>2 DEF Remember
<1>4. CASE HistorySize # 0 /\ Len(history) < HistorySize
  BY <1>1, <1>4 DEF Remember
<1>5. QED
  BY <1>1, <1>2, <1>3, <1>4

\* Whether an area covers a point is TRUE or FALSE, whatever is compared.
LEMMA CoversType == \A eng, g, x : Covers(eng, g, x) \in BOOLEAN
BY DEF Covers

\* An accepted update leaves a well-formed entity.
LEMMA AdvanceType ==
  ASSUME NEW eng, NEW st \in EntityStates, NEW u \in Updates,
         eng.dwell \in [Geometries -> Dwells],
         Timed(st), Len(st.history) <= HistorySize, Accepts(st, u)
  PROVE  /\ Advance(eng, st, u) \in EntityStates
         /\ Timed(Advance(eng, st, u))
         /\ Len(Advance(eng, st, u).history) <= HistorySize
<1> DEFINE h == Remember(st.history, [x |-> u.x, t_ms |-> u.t_ms])
           p == [g \in Geometries |->
                   DwellStep(st.presence[g], Covers(eng, g, u.x), u.t_ms, eng.dwell[g])]
<1>1. u.x \in Points /\ u.t_ms \in Times
  BY DEF Updates
<1>2. Motion(st, u) \in Legs \union {None}
  BY MotionType
<1>3. h \in Seq([x : Points, t_ms : Times]) /\ Len(h) <= HistorySize
  BY <1>1, RememberType DEF EntityStates
<1>4. p \in [Geometries -> Presences]
  <2>1. ASSUME NEW g \in Geometries
        PROVE  DwellStep(st.presence[g], Covers(eng, g, u.x), u.t_ms, eng.dwell[g]) \in Presences
    BY <1>1, CoversType, DwellStepType DEF EntityStates
  <2>2. QED
    BY <2>1
<1> HIDE DEF h, p
<1>5. Advance(eng, st, u) = [position |-> u.x, last_t_ms |-> u.t_ms, motion |-> Motion(st, u),
                             history |-> h, presence |-> p]
  BY DEF Advance, h, p
<1>6. u.x # None /\ u.t_ms # None
  BY <1>1, TimesAssumption, EngineAssumption
<1>7. QED
  BY <1>1, <1>2, <1>3, <1>4, <1>5, <1>6 DEF EntityStates, Timed

-----------------------------------------------------------------------------
\* The events an update has of its own entity; rules only add events of other kinds.
LEMMA SpatialEventSubject ==
  ASSUME NEW before, NEW after, NEW u, NEW ev \in SpatialEvents(before, after, u)
  PROVE  \E g \in Geometries :
           /\ Subject(ev) = <<u.id, g>>
           /\ before.presence[g].inside # after.presence[g].inside
           /\ ev.kind = EventKind(g, after.presence[g].inside)
           /\ ev.id = u.id /\ ev.name = g[2]
<1>1. PICK g \in Geometries :
        /\ before.presence[g].inside # after.presence[g].inside
        /\ ev.kind = EventKind(g, after.presence[g].inside)
        /\ ev.id = u.id /\ ev.name = g[2]
  BY DEF SpatialEvents
<1>2. g = <<g[1], g[2]>> /\ g[1] \in {"zone", "circle"}
  BY DEF Geometries
<1>3. IF ev.kind \in {"enter", "exit"} THEN g[1] = "zone" ELSE g[1] = "circle"
  BY <1>1, <1>2 DEF EventKind
<1>4. Subject(ev) = <<u.id, g>>
  BY <1>1, <1>2, <1>3 DEF Subject
<1>5. QED
  BY <1>1, <1>4

\* A change of presence has an event, about the pair that changed.
LEMMA SpatialEventOf ==
  ASSUME NEW before, NEW after, NEW u, NEW g \in Geometries,
         before.presence[g].inside # after.presence[g].inside
  PROVE  \E ev \in SpatialEvents(before, after, u) :
           /\ ev.kind = EventKind(g, after.presence[g].inside)
           /\ ev.id = u.id /\ ev.name = g[2]
           /\ Subject(ev) = <<u.id, g>>
<1> DEFINE ev == [kind |-> EventKind(g, after.presence[g].inside), id |-> u.id, name |-> g[2],
                  t_ms |-> u.t_ms, motion |-> after.motion, rule |-> 0]
<1>1. ev \in SpatialEvents(before, after, u)
  BY DEF SpatialEvents
<1>2. g = <<g[1], g[2]>> /\ g[1] \in {"zone", "circle"}
  BY DEF Geometries
<1>3. IF ev.kind \in {"enter", "exit"} THEN g[1] = "zone" ELSE g[1] = "circle"
  BY <1>2 DEF EventKind
<1>4. Subject(ev) = <<u.id, g>>
  BY <1>2, <1>3 DEF Subject
<1>5. QED
  BY <1>1, <1>4

\* The kind of an event tells its tier and its direction.
LEMMA KindOfEvent ==
  ASSUME NEW g \in Geometries, NEW entered \in BOOLEAN
  PROVE  /\ EventKind(g, entered) \in SpatialKinds
         /\ EventKind(g, entered) \in {"enter", "approach"} <=> entered
         /\ EventKind(g, entered) \in {"exit", "recede"} <=> ~entered
         /\ EventKind(g, entered) \in {"enter", "exit"} <=> g[1] = "zone"
BY DEF EventKind, SpatialKinds, Geometries

\* Spatial events, and events of other kinds next to them.
Reports(events, before, after, u) ==
  /\ SpatialEvents(before, after, u) \subseteq events
  /\ \A ev \in events : ev.kind \in SpatialKinds => ev \in SpatialEvents(before, after, u)

\* The pairs that these events are about are those whose answer changes.
LEMMA AboutChanged ==
  ASSUME NEW before \in EntityStates, NEW after \in EntityStates, NEW u, NEW events,
         Reports(events, before, after, u),
         NEW kinds, kinds \subseteq SpatialKinds
  PROVE  About(events, kinds) =
           {<<u.id, g>> : g \in {h \in Geometries :
              /\ before.presence[h].inside # after.presence[h].inside
              /\ EventKind(h, after.presence[h].inside) \in kinds}}
<1> DEFINE Changed == {h \in Geometries :
              /\ before.presence[h].inside # after.presence[h].inside
              /\ EventKind(h, after.presence[h].inside) \in kinds}
<1>1. ASSUME NEW p \in About(events, kinds)
      PROVE  p \in {<<u.id, g>> : g \in Changed}
  <2>1. PICK ev \in events : ev.kind \in kinds /\ p = Subject(ev)
    BY DEF About
  <2>2. ev \in SpatialEvents(before, after, u)
    BY <2>1 DEF Reports
  <2>3. QED
    BY <2>1, <2>2, SpatialEventSubject
<1>2. ASSUME NEW g \in Changed
      PROVE  <<u.id, g>> \in About(events, kinds)
  <2>1. PICK ev \in SpatialEvents(before, after, u) :
           ev.kind = EventKind(g, after.presence[g].inside) /\ Subject(ev) = <<u.id, g>>
    BY SpatialEventOf
  <2>2. QED
    BY <2>1 DEF About, Reports
<1>3. QED
  BY <1>1, <1>2

\* A consumer who is right about the entity before its update, and hears the
\* events, is right about it afterwards, and about other entities as right as before.
LEMMA HeardIsChange ==
  ASSUME NEW before \in EntityStates, NEW after \in EntityStates,
         NEW u, NEW events, Reports(events, before, after, u),
         NEW known, NEW p, NEW e, NEW g \in Geometries, p = <<e, g>>
  PROVE  p \in Heard(known, events) <=>
           IF e = u.id /\ before.presence[g].inside # after.presence[g].inside
             THEN after.presence[g].inside
             ELSE p \in known
<1>1. {"enter", "approach"} \subseteq SpatialKinds /\ {"exit", "recede"} \subseteq SpatialKinds
  BY DEF SpatialKinds
<1>2. \A kinds : kinds \subseteq SpatialKinds =>
        (p \in About(events, kinds) <=>
           /\ e = u.id
           /\ before.presence[g].inside # after.presence[g].inside
           /\ EventKind(g, after.presence[g].inside) \in kinds)
  <2> SUFFICES ASSUME NEW kinds, kinds \subseteq SpatialKinds
               PROVE  p \in About(events, kinds) <=>
                        /\ e = u.id
                        /\ before.presence[g].inside # after.presence[g].inside
                        /\ EventKind(g, after.presence[g].inside) \in kinds
    OBVIOUS
  <2>1. About(events, kinds) =
          {<<u.id, h>> : h \in {k \in Geometries :
              /\ before.presence[k].inside # after.presence[k].inside
              /\ EventKind(k, after.presence[k].inside) \in kinds}}
    BY AboutChanged
  <2>2. QED
    BY <2>1
<1>3. after.presence[g].inside \in BOOLEAN
  BY DEF EntityStates, Presences
<1>4. /\ EventKind(g, after.presence[g].inside) \in {"enter", "approach"} <=> after.presence[g].inside
      /\ EventKind(g, after.presence[g].inside) \in {"exit", "recede"} <=> ~after.presence[g].inside
  BY <1>3, KindOfEvent
<1>5. p \in Heard(known, events) <=>
        \/ p \in known /\ p \notin About(events, {"exit", "recede"})
        \/ p \in About(events, {"enter", "approach"})
  BY DEF Heard
<1>6. QED
  BY <1>1, <1>2, <1>3, <1>4, <1>5

-----------------------------------------------------------------------------
\* What membership in Seq(S) says.
LEMMA SeqElements ==
  ASSUME NEW S, NEW s \in Seq(S)
  PROVE  Len(s) \in Nat /\ DOMAIN s = 1 .. Len(s) /\ \A i \in 1 .. Len(s) : s[i] \in S
OBVIOUS

\* A sequence rule keeps its rule and the type of its progress.
LEMMA FireSequencesType ==
  ASSUME NEW rules, NEW sequences, NEW eng \in EngineStates(rules, sequences),
         NEW u \in Updates, NEW events
  PROVE  FireSequences(eng, events, u)
           \in Seq([rule : sequences, progress : [Entities -> Progresses]])
<1> DEFINE S == [rule : sequences, progress : [Entities -> Progresses]]
           n == Len(eng.sequence_rules)
<1>1. eng.sequence_rules \in Seq(S)
  BY DEF EngineStates
<1>2. n \in Nat /\ DOMAIN eng.sequence_rules = 1 .. n /\ \A i \in 1 .. n : eng.sequence_rules[i] \in S
  BY <1>1, SeqElements
<1>3. u.id \in Entities /\ u.t_ms \in Times
  BY DEF Updates
<1>4. ASSUME NEW i \in 1 .. n
      PROVE  [eng.sequence_rules[i] EXCEPT
                !.progress[u.id] = FireOf(eng.sequence_rules[i], events, u).progress] \in S
  <2> DEFINE s == eng.sequence_rules[i]
             q == FireOf(s, events, u).progress
  <2>1. s.rule \in sequences /\ s.progress \in [Entities -> Progresses] /\ s \in S
    BY <1>2
  <2> HIDE DEF s
  <2>2. Idle \in Progresses
    BY DEF Idle, Progresses
  <2>3. q \in Progresses
    <3> DEFINE p == IF Expired(s.rule, s.progress[u.id], u.t_ms) THEN Idle ELSE s.progress[u.id]
    <3>1. p \in Progresses
      BY <1>3, <2>1, <2>2
    <3> HIDE DEF p
    <3>2. [current_step |-> p.current_step + 1, started_at |-> WindowStart(p, u.t_ms)] \in Progresses
      BY <1>3, <3>1 DEF Progresses, WindowStart
    <3>3. \/ q = s.progress[u.id] \/ q = Idle \/ q = p
          \/ q = [current_step |-> p.current_step + 1, started_at |-> WindowStart(p, u.t_ms)]
      BY DEF FireOf, FireSequence, p
    <3>4. QED
      BY <1>3, <2>1, <2>2, <3>1, <3>2, <3>3
  <2> HIDE DEF q
  <2>4. [s EXCEPT !.progress[u.id] = q] = [rule |-> s.rule, progress |-> [s.progress EXCEPT ![u.id] = q]]
    BY <2>1
  <2>5. [s EXCEPT !.progress[u.id] = q] \in S
    BY <1>3, <2>1, <2>3, <2>4
  <2>6. QED
    BY <2>5 DEF s, q
<1>5. [i \in 1 .. n |-> [eng.sequence_rules[i] EXCEPT
                !.progress[u.id] = FireOf(eng.sequence_rules[i], events, u).progress]] \in Seq(S)
  <2> DEFINE f(i) == [eng.sequence_rules[i] EXCEPT
                        !.progress[u.id] = FireOf(eng.sequence_rules[i], events, u).progress]
  <2>1. \A i \in 1 .. n : f(i) \in S
    BY <1>4
  <2> HIDE DEF f, S, n
  <2>2. [i \in 1 .. n |-> f(i)] \in Seq(S)
    BY <1>2, <2>1
  <2>3. QED
    BY <2>2 DEF f
<1>6. QED
  BY <1>2, <1>5 DEF FireSequences

\* The entity after an accepted update, and the spatial events of the update.
After(eng, u) == Advance(eng, eng.entities[u.id], u)

\* The spatial events of an update.
Crossings(eng, u) == SpatialEvents(eng.entities[u.id], After(eng, u), u)

\* What one update does to the engine, and what the caller is told: a call that
\* returns no error has advanced its entity and reports that change; one that does
\* has no events, and has advanced its entity if its write was applied.
Outcome(eng, u, fault, r) ==
  /\ r.engine.area = eng.area
  /\ r.engine.dwell = eng.dwell
  /\ r.engine.configurable_rules = eng.configurable_rules
  /\ r.engine.sequence_rules =
       IF fault # "get" /\ Accepts(eng.entities[u.id], u)
         THEN FireSequences(eng, Crossings(eng, u), u)
         ELSE eng.sequence_rules
  /\ r.engine.entities =
       IF Stores(eng, u, fault) THEN [eng.entities EXCEPT ![u.id] = After(eng, u)] ELSE eng.entities
  /\ r.events =
       IF r.error = None
         THEN Crossings(eng, u)
              \union CustomEvents(eng, Crossings(eng, u), After(eng, u).motion, u)
              \union SequenceEvents(eng, Crossings(eng, u), u)
         ELSE {}
  /\ r.error = None <=> fault \notin StoreFaults /\ Accepts(eng.entities[u.id], u)
  /\ r.error = "monotonicity" <=> fault # "get" /\ ~Accepts(eng.entities[u.id], u)
  /\ r.error \in {None, "monotonicity", "state_store"}

\* process_event is described by Outcome, whatever its rules are and whatever fails.
LEMMA ProcessEventOutcome ==
  ASSUME NEW rules, NEW sequences, NEW eng \in EngineStates(rules, sequences),
         NEW u \in Updates, NEW fault
  PROVE  Outcome(eng, u, fault, ProcessEvent(eng, u, fault))
<1> DEFINE before == eng.entities[u.id]
           after == After(eng, u)
           spatial == Crossings(eng, u)
           r == ProcessEvent(eng, u, fault)
           seqs == FireSequences(eng, spatial, u)
           set == SetEntity(eng.entities, u, after, fault)
           written == [eng EXCEPT !.sequence_rules = seqs, !.entities = set]
           events == spatial \union CustomEvents(eng, spatial, after.motion, u)
                             \union SequenceEvents(eng, spatial, u)
<1>1. r = IF fault = "get"
            THEN [engine |-> eng, events |-> {}, error |-> "state_store"]
          ELSE IF ~Accepts(before, u)
            THEN [engine |-> eng, events |-> {}, error |-> "monotonicity"]
          ELSE IF fault \in StoreFaults
            THEN [engine |-> written, events |-> {}, error |-> "state_store"]
          ELSE [engine |-> written, events |-> events, error  |-> None]
  BY Zenon DEF ProcessEvent, After, Crossings
<1>2. set = IF fault = "set" THEN eng.entities ELSE [eng.entities EXCEPT ![u.id] = after]
  BY DEF SetEntity
<1> HIDE DEF r, before, after, spatial, seqs, events, set
<1>3. /\ written.area = eng.area /\ written.dwell = eng.dwell
      /\ written.configurable_rules = eng.configurable_rules
      /\ written.entities = set /\ written.sequence_rules = seqs
  BY DEF EngineStates
<1> HIDE DEF written
<1>4. None \notin StoreFaults /\ None \notin {"state_store", "monotonicity"}
  BY EngineAssumption
<1> SUFFICES Outcome(eng, u, fault, r)
  BY DEF r
<1>5. CASE fault = "get"
  BY <1>1, <1>4, <1>5 DEF Outcome, Stores, StoreFaults
<1>6. CASE fault # "get" /\ ~Accepts(before, u)
  BY <1>1, <1>4, <1>6 DEF Outcome, Stores, before
<1>7. ASSUME fault # "get", Accepts(before, u)
      PROVE  set = IF Stores(eng, u, fault) THEN [eng.entities EXCEPT ![u.id] = after] ELSE eng.entities
  BY <1>2, <1>7 DEF Stores, before
<1>8. CASE fault # "get" /\ fault \in StoreFaults /\ Accepts(before, u)
  <2>1. r = [engine |-> written, events |-> {}, error |-> "state_store"]
    BY <1>1, <1>8
  <2>2. r.error = "state_store" /\ r.events = {} /\ r.engine = written /\ r.error # None
    BY <1>4, <2>1
  <2>3. set = IF Stores(eng, u, fault) THEN [eng.entities EXCEPT ![u.id] = After(eng, u)] ELSE eng.entities
    BY <1>7, <1>8 DEF after
  <2>4. QED
    BY <1>3, <1>8, <2>2, <2>3 DEF Outcome, seqs, spatial, before
<1>9. CASE fault \notin StoreFaults /\ Accepts(before, u)
  <2>1. r = [engine |-> written, events |-> events, error |-> None]
    BY <1>1, <1>9 DEF StoreFaults
  <2>2. r.error = None /\ r.events = events /\ r.engine = written /\ r.error # "monotonicity"
    BY <1>4, <2>1
  <2>3. fault # "get"
    BY <1>9 DEF StoreFaults
  <2>4. set = IF Stores(eng, u, fault) THEN [eng.entities EXCEPT ![u.id] = After(eng, u)] ELSE eng.entities
    BY <1>7, <1>9, <2>3 DEF after
  <2>5. QED
    BY <1>3, <1>9, <2>2, <2>3, <2>4 DEF Outcome, seqs, events, spatial, before, after
<1>10. QED
  BY <1>5, <1>6, <1>8, <1>9

\* process_event keeps engines typed and well formed.
LEMMA ProcessEventType ==
  ASSUME NEW rules, NEW sequences, NEW eng \in EngineStates(rules, sequences),
         WellFormed(eng.entities), NEW u \in Updates, NEW fault
  PROVE  /\ ProcessEvent(eng, u, fault).engine \in EngineStates(rules, sequences)
         /\ WellFormed(ProcessEvent(eng, u, fault).engine.entities)
<1> DEFINE r == ProcessEvent(eng, u, fault)
           before == eng.entities[u.id]
           after == After(eng, u)
           seqs == FireSequences(eng, Crossings(eng, u), u)
<1>1. /\ eng.entities \in [Entities -> EntityStates] /\ eng.dwell \in [Geometries -> Dwells]
      /\ u.id \in Entities /\ before \in EntityStates
      /\ Timed(before) /\ Len(before.history) <= HistorySize
  BY DEF EngineStates, Updates, WellFormed
<1>2. /\ r.engine.area = eng.area
      /\ r.engine.dwell = eng.dwell
      /\ r.engine.configurable_rules = eng.configurable_rules
      /\ \/ r.engine.sequence_rules = seqs
         \/ r.engine.sequence_rules = eng.sequence_rules
      /\ r.engine.entities = IF Stores(eng, u, fault) THEN [eng.entities EXCEPT ![u.id] = after] ELSE eng.entities
      /\ Stores(eng, u, fault) => Accepts(before, u)
  <2>1. Outcome(eng, u, fault, r)
    BY ProcessEventOutcome
  <2> HIDE DEF r
  <2>2. Stores(eng, u, fault) => Accepts(before, u)
    BY DEF Stores
  <2>3. QED
    BY <2>1, <2>2 DEF Outcome
<1>3. DOMAIN r.engine = DOMAIN eng /\ r.engine = [area |-> r.engine.area, dwell |-> r.engine.dwell,
         entities |-> r.engine.entities, configurable_rules |-> r.engine.configurable_rules,
         sequence_rules |-> r.engine.sequence_rules]
  BY DEF ProcessEvent, EngineStates
<1>4. seqs \in Seq([rule : sequences, progress : [Entities -> Progresses]])
  BY FireSequencesType
<1> HIDE DEF r, seqs, after
<1>5. Accepts(before, u) =>
        /\ after \in EntityStates
        /\ Timed(after)
        /\ Len(after.history) <= HistorySize
  BY <1>1, AdvanceType DEF after, After
<1>6. r.engine.entities \in [Entities -> EntityStates] /\ WellFormed(r.engine.entities)
  <2>1. CASE Stores(eng, u, fault)
    <3>1. r.engine.entities = [eng.entities EXCEPT ![u.id] = after] /\ after \in EntityStates
      BY <1>2, <1>5, <2>1
    <3>2. \A e \in Entities : r.engine.entities[e] = IF e = u.id THEN after ELSE eng.entities[e]
      BY <1>1, <3>1
    <3>3. QED
      BY <1>1, <1>2, <1>5, <2>1, <3>1, <3>2 DEF WellFormed
  <2>2. CASE ~Stores(eng, u, fault)
    BY <1>1, <1>2, <2>2
  <2>3. QED
    BY <2>1, <2>2
<1>7. r.engine \in EngineStates(rules, sequences)
  <2>1. /\ r.engine.area \in [Geometries -> Areas \union {None}]
        /\ r.engine.dwell \in [Geometries -> Dwells]
        /\ r.engine.configurable_rules \in Seq(rules)
        /\ r.engine.sequence_rules \in Seq([rule : sequences, progress : [Entities -> Progresses]])
    BY <1>2, <1>4 DEF EngineStates
  <2>2. QED
    BY <1>3, <1>6, <2>1 DEF EngineStates
<1>8. QED
  BY <1>6, <1>7 DEF r

\* The events of a call report the change of its entity; there are none without one.
LEMMA ProcessEventReports ==
  ASSUME NEW eng, NEW u, NEW fault, NEW r, Outcome(eng, u, fault, r)
  PROVE  IF r.error = None THEN Reports(r.events, eng.entities[u.id], After(eng, u), u) ELSE r.events = {}
<1> DEFINE spatial == Crossings(eng, u)
           custom == CustomEvents(eng, spatial, After(eng, u).motion, u)
           sequence == SequenceEvents(eng, spatial, u)
<1>1. CASE r.error = None
  <2>1. r.events = spatial \union custom \union sequence
    BY <1>1 DEF Outcome
  <2>2. \A ev \in custom : ev.kind = "custom"
    BY DEF CustomEvents
  <2>3. \A ev \in sequence : ev.kind = "sequence_complete"
    BY DEF SequenceEvents
  <2>4. spatial = SpatialEvents(eng.entities[u.id], After(eng, u), u)
    BY DEF Crossings
  <2> HIDE DEF spatial, custom, sequence
  <2>5. QED
    BY <1>1, <2>1, <2>2, <2>3, <2>4 DEF Reports, SpatialKinds
<1>2. CASE r.error # None
  BY <1>2 DEF Outcome
<1>3. QED
  BY <1>1, <1>2

\* A rule's event is there exactly when the rule fires, and is about the update's entity.
LEMMA CustomEventOf ==
  ASSUME NEW eng, NEW events, NEW motion, NEW u, NEW i \in DOMAIN eng.configurable_rules
  PROVE  /\ \A ev \in CustomEvents(eng, events, motion, u) : ev.kind = "custom" /\ ev.id = u.id
         /\ (\E ev \in CustomEvents(eng, events, motion, u) : ev.rule = i)
            <=> Fires(eng.configurable_rules[i], events, motion)
<1> DEFINE ev(j) == [kind |-> "custom", id |-> u.id, name |-> eng.configurable_rules[j].emit,
                     t_ms |-> u.t_ms, motion |-> motion, rule |-> j]
           firing(j) == Fires(eng.configurable_rules[j], events, motion)
<1>1. CustomEvents(eng, events, motion, u) = {ev(j) : j \in {k \in DOMAIN eng.configurable_rules : firing(k)}}
  BY DEF CustomEvents
<1>2. \A j : ev(j).kind = "custom" /\ ev(j).id = u.id /\ ev(j).rule = j
  OBVIOUS
<1> HIDE DEF ev
<1>3. (\E x \in CustomEvents(eng, events, motion, u) : x.rule = i) <=> firing(i)
  <2> HIDE DEF firing
  <2>1. QED
    BY <1>1, <1>2
<1>4. \A x \in CustomEvents(eng, events, motion, u) : x.kind = "custom" /\ x.id = u.id
  <2> HIDE DEF firing
  <2>1. QED
    BY <1>1, <1>2
<1>5. QED
  BY <1>3, <1>4

\* What a consumer makes of the events of a call, pair by pair, unless they are lost
\* though the write was applied.
LEMMA HeardIsStep ==
  ASSUME NEW rules, NEW sequences, NEW eng \in EngineStates(rules, sequences),
         WellFormed(eng.entities), NEW u \in Updates, NEW fault, fault # "lost",
         NEW r, Outcome(eng, u, fault, r),
         NEW known, NEW e \in Entities, NEW g \in Geometries
  PROVE  <<e, g>> \in Heard(known, r.events) <=>
           IF r.engine.entities[e].presence[g].inside # eng.entities[e].presence[g].inside
             THEN r.engine.entities[e].presence[g].inside
             ELSE <<e, g>> \in known
<1> DEFINE before == eng.entities[u.id]
           after == After(eng, u)
<1>1. /\ eng.entities \in [Entities -> EntityStates] /\ eng.dwell \in [Geometries -> Dwells]
      /\ u.id \in Entities /\ before \in EntityStates
      /\ Timed(before) /\ Len(before.history) <= HistorySize
  BY DEF EngineStates, Updates, WellFormed
<1>2. Accepts(before, u) => after \in EntityStates
  BY <1>1, AdvanceType DEF After
<1>3. CASE r.error = None
  <2>1. Reports(r.events, before, after, u)
    BY <1>3, ProcessEventReports
  <2>2. Accepts(before, u) /\ r.engine.entities = [eng.entities EXCEPT ![u.id] = after]
    BY <1>3 DEF Outcome, Stores, StoreFaults
  <2> HIDE DEF after
  <2>3. <<e, g>> \in Heard(known, r.events) <=>
           IF e = u.id /\ before.presence[g].inside # after.presence[g].inside
             THEN after.presence[g].inside
             ELSE <<e, g>> \in known
    BY <1>1, <1>2, <2>1, <2>2, HeardIsChange
  <2>4. r.engine.entities[e] = IF e = u.id THEN after ELSE eng.entities[e]
    BY <1>1, <2>2
  <2>5. QED
    BY <2>3, <2>4
<1>4. CASE r.error # None
  <2>1. r.events = {} /\ r.engine.entities = eng.entities
    BY <1>4 DEF Outcome, Stores, StoreFaults
  <2>2. Heard(known, r.events) = known
    BY <2>1 DEF Heard, About
  <2>3. QED
    BY <2>1, <2>2
<1>5. QED
  BY <1>3, <1>4

\* The pairs a call can be about.
LEMMA HeardIsPairs ==
  ASSUME NEW eng, NEW u \in Updates, NEW fault, NEW r, Outcome(eng, u, fault, r),
         NEW known, known \subseteq Entities \X Geometries
  PROVE  Heard(known, r.events) \subseteq Entities \X Geometries
<1>1. ASSUME NEW ev \in r.events, ev.kind \in {"enter", "approach"}
      PROVE  Subject(ev) \in Entities \X Geometries
  <2>1. r.error = None
    BY <1>1 DEF Outcome
  <2>2. ev \in SpatialEvents(eng.entities[u.id], After(eng, u), u)
    BY <1>1, <2>1, ProcessEventReports DEF Reports, SpatialKinds
  <2>3. u.id \in Entities
    BY DEF Updates
  <2>4. QED
    BY <2>2, <2>3, SpatialEventSubject
<1>2. QED
  BY <1>1 DEF Heard, About

\* A consumer who knows the membership before such a call knows it after the call.
LEMMA HeardIsInside ==
  ASSUME NEW rules, NEW sequences, NEW eng \in EngineStates(rules, sequences),
         WellFormed(eng.entities), NEW u \in Updates, NEW fault, fault # "lost",
         NEW r, Outcome(eng, u, fault, r), r.engine \in EngineStates(rules, sequences)
  PROVE  Heard(Inside(eng.entities), r.events) = Inside(r.engine.entities)
<1> DEFINE known == Inside(eng.entities)
<1>1. \A e \in Entities, g \in Geometries : <<e, g>> \in known <=> eng.entities[e].presence[g].inside
  BY DEF Inside
<1>2. known \subseteq Entities \X Geometries
  BY DEF Inside
<1>3. ASSUME NEW e \in Entities, NEW g \in Geometries
      PROVE  /\ eng.entities[e].presence[g].inside \in BOOLEAN
             /\ r.engine.entities[e].presence[g].inside \in BOOLEAN
  BY DEF EngineStates, EntityStates, Presences
<1> HIDE DEF known
<1>4. ASSUME NEW e \in Entities, NEW g \in Geometries
      PROVE  <<e, g>> \in Heard(known, r.events) <=> r.engine.entities[e].presence[g].inside
  <2>1. <<e, g>> \in Heard(known, r.events) <=>
           IF r.engine.entities[e].presence[g].inside # eng.entities[e].presence[g].inside
             THEN r.engine.entities[e].presence[g].inside
             ELSE <<e, g>> \in known
    BY HeardIsStep
  <2>2. QED
    BY <1>1, <1>3, <2>1
<1>5. Heard(known, r.events) \subseteq Entities \X Geometries
  BY <1>2, HeardIsPairs
<1>6. Inside(r.engine.entities) = {p \in Entities \X Geometries : r.engine.entities[p[1]].presence[p[2]].inside}
  BY DEF Inside
<1>7. QED
  BY <1>4, <1>5, <1>6 DEF known

-----------------------------------------------------------------------------
\* These events are about pairs of one entity, and are true of these entities.
Tells(events, e, entities) ==
  /\ \A p \in About(events, SpatialKinds) : \E g \in Geometries : p = <<e, g>>
  /\ About(events, {"enter", "approach"}) \subseteq Inside(entities)
  /\ About(events, {"exit", "recede"}) \intersect Inside(entities) = {}

\* The pairs on which a consumer and the membership do not agree.
Differences(known, entities) == (known \ Inside(entities)) \union (Inside(entities) \ known)

\* An event of a spatial kind is of one that arrives or of one that leaves.
LEMMA AboutSplit ==
  ASSUME NEW events
  PROVE  About(events, SpatialKinds) =
           About(events, {"enter", "approach"}) \union About(events, {"exit", "recede"})
BY DEF About, SpatialKinds

\* An update tells exactly what it changes.
LEMMA ReportsTell ==
  ASSUME NEW entities \in [Entities -> EntityStates], NEW u \in Updates, NEW new \in EntityStates,
         NEW events, Reports(events, entities[u.id], new, u)
  PROVE  /\ Tells(events, u.id, [entities EXCEPT ![u.id] = new])
         /\ Differences(Inside(entities), [entities EXCEPT ![u.id] = new])
              \subseteq About(events, SpatialKinds)
<1> DEFINE old == entities[u.id]
           after == [entities EXCEPT ![u.id] = new]
           Changed(kinds) == {h \in Geometries :
                                /\ old.presence[h].inside # new.presence[h].inside
                                /\ EventKind(h, new.presence[h].inside) \in kinds}
<1>1. u.id \in Entities /\ old \in EntityStates
  BY DEF Updates
<1>2. \A e \in Entities : after[e] = IF e = u.id THEN new ELSE entities[e]
  BY <1>1
<1> HIDE DEF old, after
<1>3. ASSUME NEW kinds, kinds \subseteq SpatialKinds
      PROVE  About(events, kinds) = {<<u.id, g>> : g \in Changed(kinds)}
  BY <1>1, <1>3, AboutChanged DEF old
<1>4. \A g \in Geometries : new.presence[g].inside \in BOOLEAN /\ old.presence[g].inside \in BOOLEAN
  BY <1>1 DEF EntityStates, Presences
<1>5. /\ {"enter", "approach"} \subseteq SpatialKinds /\ {"exit", "recede"} \subseteq SpatialKinds
      /\ SpatialKinds \subseteq SpatialKinds
  BY DEF SpatialKinds
<1>6. \A p \in About(events, SpatialKinds) : \E g \in Geometries : p = <<u.id, g>>
  BY <1>3, <1>5
<1>7. About(events, {"enter", "approach"}) \subseteq Inside(after)
  <2>1. ASSUME NEW g \in Changed({"enter", "approach"})
        PROVE  <<u.id, g>> \in Inside(after)
    <3>1. new.presence[g].inside
      BY <1>4, KindOfEvent
    <3>2. QED
      BY <1>1, <1>2, <3>1 DEF Inside
  <2>2. About(events, {"enter", "approach"}) = {<<u.id, g>> : g \in Changed({"enter", "approach"})}
    BY <1>3, <1>5
  <2> HIDE DEF Changed
  <2>3. QED
    BY <2>1, <2>2
<1>8. About(events, {"exit", "recede"}) \intersect Inside(after) = {}
  <2>1. ASSUME NEW g \in Changed({"exit", "recede"})
        PROVE  <<u.id, g>> \notin Inside(after)
    <3>1. ~new.presence[g].inside
      BY <1>4, KindOfEvent
    <3>2. QED
      BY <1>1, <1>2, <3>1 DEF Inside
  <2>2. About(events, {"exit", "recede"}) = {<<u.id, g>> : g \in Changed({"exit", "recede"})}
    BY <1>3, <1>5
  <2> HIDE DEF Changed
  <2>3. QED
    BY <2>1, <2>2
<1>9. ASSUME NEW p, (p \in Inside(entities)) # (p \in Inside(after))
       PROVE  p \in About(events, SpatialKinds)
  <2>1. PICK e \in Entities, g \in Geometries :
          p = <<e, g>> /\ entities[e].presence[g].inside # after[e].presence[g].inside
    BY <1>9 DEF Inside
  <2>2. e = u.id /\ old.presence[g].inside # new.presence[g].inside
    BY <1>1, <1>2, <2>1 DEF old
  <2>3. EventKind(g, new.presence[g].inside) \in SpatialKinds
    BY <1>4, KindOfEvent
  <2>4. g \in Changed(SpatialKinds)
    BY <2>2, <2>3
  <2> HIDE DEF Changed
  <2>5. QED
    BY <1>3, <1>5, <2>1, <2>2, <2>4
<1>10. QED
  BY <1>6, <1>7, <1>8, <1>9 DEF Tells, Differences, after

\* Folding events that are true settles what they are about.
LEMMA HeardSettles ==
  ASSUME NEW events, NEW e, NEW entities, Tells(events, e, entities), NEW known
  PROVE  Differences(Heard(known, events), entities)
           \subseteq Differences(known, entities) \ About(events, SpatialKinds)
BY AboutSplit DEF Tells, Heard, Differences

\* The same answer at the same time, once more, leaves a geometry as it is: a wait
\* that began with it has not lasted, and one that goes on is no longer.
LEMMA StepTwice ==
  ASSUME NEW m \in Presences, NEW phys \in BOOLEAN, NEW t \in Times, NEW d \in Dwells
  PROVE  DwellStep(DwellStep(m, phys, t, d), phys, t, d) = DwellStep(m, phys, t, d)
<1> DEFINE min == MinDwell(phys, d)
           pending == IF phys THEN m.enter_pending ELSE m.exit_pending
           m1 == DwellStep(m, phys, t, d)
           pending1 == IF phys THEN m1.enter_pending ELSE m1.exit_pending
<1>1. /\ t \in Nat /\ t # None /\ min \in Nat /\ m.inside \in BOOLEAN
      /\ pending \in Nat \union {None}
  BY TimesAssumption DEF Presences, Dwells, MinDwell
<1>2. CASE phys = m.inside \/ Waited(pending, t, min)
  <2>1. m1 = [inside |-> phys, enter_pending |-> None, exit_pending |-> None]
    BY <1>1, <1>2 DEF DwellStep
  <2> HIDE DEF m1
  <2>2. DwellStep(m1, phys, t, d) = m1
    BY <2>1 DEF DwellStep
  <2>3. QED
    BY <2>2 DEF m1
<1>3. CASE phys # m.inside /\ ~Waited(pending, t, min)
  <2> DEFINE since == WaitingSince(pending, t)
  <2>1. m1 = [inside        |-> m.inside,
              enter_pending |-> IF phys THEN since ELSE None,
              exit_pending  |-> IF ~phys THEN since ELSE None]
    BY <1>1, <1>3 DEF DwellStep
  <2>2. ~Waited(since, t, min)
    BY <1>1, <1>3 DEF Waited, WaitingSince, SaturatingSub
  <2>3. since # None /\ WaitingSince(since, t) = since
    BY <1>1 DEF WaitingSince
  <2> HIDE DEF m1, since
  <2>4. DwellStep(m1, phys, t, d) = m1
    BY <1>3, <2>1, <2>2, <2>3 DEF DwellStep
  <2>5. QED
    BY <2>4 DEF m1
<1>4. QED
  BY <1>2, <1>3

\* Would this update, once more, leave every geometry of this state as it is?
Settled(eng, st, u) ==
  \A g \in Geometries :
    DwellStep(st.presence[g], Covers(eng, g, u.x), u.t_ms, eng.dwell[g]) = st.presence[g]

\* An entity that has taken an update is settled as far as that one goes.
LEMMA AdvanceSettles ==
  ASSUME NEW eng, eng.dwell \in [Geometries -> Dwells], NEW st \in EntityStates, NEW u \in Updates
  PROVE  Settled(eng, Advance(eng, st, u), u)
<1> DEFINE phys(g) == Covers(eng, g, u.x)
           once(g) == DwellStep(st.presence[g], phys(g), u.t_ms, eng.dwell[g])
<1>1. ASSUME NEW g \in Geometries
      PROVE  DwellStep(once(g), phys(g), u.t_ms, eng.dwell[g]) = once(g)
  <2>1. st.presence[g] \in Presences /\ u.t_ms \in Times /\ eng.dwell[g] \in Dwells /\ phys(g) \in BOOLEAN
    BY CoversType DEF EntityStates, Updates
  <2> HIDE DEF phys
  <2>2. QED
    BY <2>1, StepTwice
<1>2. \A g \in Geometries : Advance(eng, st, u).presence[g] = once(g)
  BY DEF Advance
<1> HIDE DEF once
<1>3. QED
  BY <1>1, <1>2 DEF Settled

\* A call whose write is lost though applied leaves the consumer wrong about what it
\* has not told, and no other call leaves the consumer wrong about anything new.
LEMMA DoubtStep ==
  ASSUME NEW rules, NEW sequences, NEW eng \in EngineStates(rules, sequences),
         WellFormed(eng.entities), NEW u \in Updates, NEW fault,
         NEW r, Outcome(eng, u, fault, r),
         NEW known, NEW doubted, Differences(known, eng.entities) \subseteq doubted
  PROVE  Differences(Heard(known, r.events), r.engine.entities)
           \subseteq (doubted \ About(r.events, SpatialKinds)) \union Untold(eng, u, fault)
<1> DEFINE new == [eng.entities EXCEPT ![u.id] = After(eng, u)]
           first == ProcessEvent(eng, u, None)
           about == About(first.events, SpatialKinds)
           Now(k) == Differences(k, r.engine.entities)
<1>1. /\ eng.entities \in [Entities -> EntityStates] /\ eng.dwell \in [Geometries -> Dwells]
      /\ u.id \in Entities /\ eng.entities[u.id] \in EntityStates
      /\ Timed(eng.entities[u.id]) /\ Len(eng.entities[u.id].history) <= HistorySize
  BY DEF EngineStates, Updates, WellFormed
<1>2. Accepts(eng.entities[u.id], u) => After(eng, u) \in EntityStates
  BY <1>1, AdvanceType DEF After
<1> HIDE DEF first
<1>3. ASSUME NEW q, Outcome(eng, u, None, q), Accepts(eng.entities[u.id], u)
      PROVE  /\ Tells(q.events, u.id, new)
             /\ Differences(Inside(eng.entities), new) \subseteq About(q.events, SpatialKinds)
  <2>1. q.error = None
    BY <1>3, EngineAssumption DEF Outcome
  <2>2. Reports(q.events, eng.entities[u.id], After(eng, u), u)
    BY <1>3, <2>1, ProcessEventReports
  <2>3. QED
    BY <1>1, <1>2, <1>3, <2>2, ReportsTell
<1>4. \A k, some : Differences(k, some) \subseteq
          Differences(k, eng.entities) \union Differences(Inside(eng.entities), some)
  BY DEF Differences
<1>5. CASE r.error = None
  <2>1. Accepts(eng.entities[u.id], u) /\ r.engine.entities = new
    BY <1>5 DEF Outcome, Stores, StoreFaults
  <2>2. Reports(r.events, eng.entities[u.id], After(eng, u), u)
    BY <1>5, ProcessEventReports
  <2>3. /\ Tells(r.events, u.id, new)
        /\ Differences(Inside(eng.entities), new) \subseteq About(r.events, SpatialKinds)
    BY <1>1, <1>2, <2>1, <2>2, ReportsTell
  <2> HIDE DEF new
  <2>4. Differences(Heard(known, r.events), new) \subseteq Differences(known, new) \ About(r.events, SpatialKinds)
    BY <2>3, HeardSettles
  <2>5. QED
    BY <1>4, <2>1, <2>3, <2>4
<1>6. ASSUME r.error # None
      PROVE  r.events = {} /\ Heard(known, r.events) = known /\ About(r.events, SpatialKinds) = {}
  BY <1>6 DEF Outcome, Heard, About
<1>7. CASE r.error # None /\ ~Stores(eng, u, fault)
  <2>1. r.engine.entities = eng.entities
    BY <1>7 DEF Outcome
  <2>2. QED
    BY <1>6, <1>7, <2>1
<1>8. CASE r.error # None /\ Stores(eng, u, fault)
  <2>1. fault = "lost" /\ Accepts(eng.entities[u.id], u) /\ r.engine.entities = new
    BY <1>8 DEF Outcome, Stores, StoreFaults
  <2>2. Outcome(eng, u, None, first)
    BY ProcessEventOutcome DEF first
  <2>3. Untold(eng, u, fault) = about
    BY <2>1 DEF Untold, first
  <2> HIDE DEF new
  <2>4. Differences(Inside(eng.entities), new) \subseteq about
    BY <1>3, <2>1, <2>2
  <2>5. QED
    BY <1>4, <1>6, <1>8, <2>1, <2>3, <2>4
<1>9. QED
  BY <1>5, <1>7, <1>8

\* An untold transition is of an entity and a geometry.
LEMMA UntoldType ==
  ASSUME NEW rules, NEW sequences, NEW eng \in EngineStates(rules, sequences),
         NEW u \in Updates, NEW fault
  PROVE  Untold(eng, u, fault) \subseteq Entities \X Geometries
<1> DEFINE r == ProcessEvent(eng, u, None)
<1>1. Outcome(eng, u, None, r)
  BY ProcessEventOutcome
<1> HIDE DEF r
<1>2. ASSUME NEW ev \in r.events, ev.kind \in SpatialKinds
      PROVE  Subject(ev) \in Entities \X Geometries
  <2>1. r.error = None
    BY <1>1, <1>2 DEF Outcome
  <2>2. ev \in SpatialEvents(eng.entities[u.id], After(eng, u), u)
    BY <1>1, <1>2, <2>1, ProcessEventReports DEF Reports
  <2>3. u.id \in Entities
    BY DEF Updates
  <2>4. QED
    BY <2>2, <2>3, SpatialEventSubject
<1>3. About(r.events, SpatialKinds) \subseteq Entities \X Geometries
  BY <1>2 DEF About
<1>4. QED
  BY <1>3 DEF Untold, r

-----------------------------------------------------------------------------
\* The other operations: a registration touches one geometry that had none, and
\* none of them touches the entities.
LEMMA NewEngineType ==
  ASSUME NEW rules, NEW sequences
  PROVE  /\ NewEngine \in EngineStates(rules, sequences)
         /\ WellFormed(NewEngine.entities)
         /\ Inside(NewEngine.entities) = {}
<1>1. /\ [e \in Entities |-> NewEntity] \in [Entities -> EntityStates]
      /\ [g \in Geometries |-> NoDwell] \in [Geometries -> Dwells]
      /\ [g \in Geometries |-> None] \in [Geometries -> Areas \union {None}]
  BY NewEntityType DEF NoDwell, Dwells
<1>2. NewEngine \in EngineStates(rules, sequences)
  BY <1>1 DEF NewEngine, EngineStates
<1>3. \A e \in Entities : NewEngine.entities[e] = NewEntity
  BY DEF NewEngine
<1>4. \A g \in Geometries : NewEntity.presence[g].inside = FALSE
  BY DEF NewEntity, Outside
<1>5. WellFormed(NewEngine.entities)
  BY <1>3, NewEntityType DEF WellFormed
<1>6. Inside(NewEngine.entities) = {}
  BY <1>3, <1>4 DEF Inside
<1>7. QED
  BY <1>2, <1>5, <1>6

\* An engine with other configurable rules, field by field.
LEMMA RulesReplaced ==
  ASSUME NEW rules, NEW sequences, NEW eng \in EngineStates(rules, sequences), NEW v
  PROVE  [eng EXCEPT !.configurable_rules = v] =
           [area |-> eng.area, dwell |-> eng.dwell, entities |-> eng.entities,
            configurable_rules |-> v, sequence_rules |-> eng.sequence_rules]
BY DEF EngineStates

\* An engine with other sequence rules, field by field.
LEMMA SequencesReplaced ==
  ASSUME NEW rules, NEW sequences, NEW eng \in EngineStates(rules, sequences), NEW v
  PROVE  [eng EXCEPT !.sequence_rules = v] =
           [area |-> eng.area, dwell |-> eng.dwell, entities |-> eng.entities,
            configurable_rules |-> eng.configurable_rules, sequence_rules |-> v]
BY DEF EngineStates

\* Registering changes one area and one dwell, or nothing.
LEMMA RegisterOutcome ==
  ASSUME NEW rules, NEW sequences, NEW eng \in EngineStates(rules, sequences),
         NEW g \in Geometries, NEW area \in Areas \union {None}, NEW d \in Dwells
  PROVE  /\ Register(eng, g, area, d) \in EngineStates(rules, sequences)
         /\ Register(eng, g, area, d).entities = eng.entities
         /\ Register(eng, g, area, d).configurable_rules = eng.configurable_rules
         /\ Register(eng, g, area, d).sequence_rules = eng.sequence_rules
         /\ IF eng.area[g] # None \/ area \notin Areas
              THEN Register(eng, g, area, d) = eng
              ELSE /\ Register(eng, g, area, d).area = [eng.area EXCEPT ![g] = area]
                   /\ Register(eng, g, area, d).dwell = [eng.dwell EXCEPT ![g] = d]
<1> DEFINE r == [eng EXCEPT !.area[g] = area, !.dwell[g] = d]
<1>1. CASE eng.area[g] # None \/ area \notin Areas
  BY <1>1 DEF Register
<1>2. CASE ~(eng.area[g] # None \/ area \notin Areas)
  <2>1. Register(eng, g, area, d) = r
    BY <1>2 DEF Register
  <2>2. /\ r.area = [eng.area EXCEPT ![g] = area]
        /\ r.dwell = [eng.dwell EXCEPT ![g] = d]
        /\ r.entities = eng.entities
        /\ r.configurable_rules = eng.configurable_rules
        /\ r.sequence_rules = eng.sequence_rules
    BY DEF EngineStates
  <2>3. r \in EngineStates(rules, sequences)
    BY <2>2 DEF EngineStates
  <2> HIDE DEF r
  <2>4. QED
    BY <1>2, <2>1, <2>2, <2>3
<1>3. QED
  BY <1>1, <1>2

\* Adding a configurable rule appends it and leaves the rest alone.
LEMMA AddRuleOutcome ==
  ASSUME NEW rules, NEW sequences, NEW eng \in EngineStates(rules, sequences), NEW rule \in rules
  PROVE  /\ AddRule(eng, rule) \in EngineStates(rules, sequences)
         /\ AddRule(eng, rule).area = eng.area
         /\ AddRule(eng, rule).dwell = eng.dwell
         /\ AddRule(eng, rule).entities = eng.entities
         /\ AddRule(eng, rule).configurable_rules = Append(eng.configurable_rules, rule)
         /\ AddRule(eng, rule).sequence_rules = eng.sequence_rules
<1>1. AddRule(eng, rule) =
        [area |-> eng.area, dwell |-> eng.dwell, entities |-> eng.entities,
         configurable_rules |-> Append(eng.configurable_rules, rule),
         sequence_rules |-> eng.sequence_rules]
  BY RulesReplaced DEF AddRule
<1>2. Append(eng.configurable_rules, rule) \in Seq(rules)
  BY DEF EngineStates
<1>3. AddRule(eng, rule) \in EngineStates(rules, sequences)
  BY <1>1, <1>2 DEF EngineStates
<1>4. QED
  BY <1>1, <1>3

\* A sequence rule as it is added, and as it comes back from a restart.
Started(rule) == [rule |-> rule, progress |-> [e \in Entities |-> Idle]]

\* A sequence rule without progress.
StartedOver(s) == [s EXCEPT !.progress = [e \in Entities |-> Idle]]

\* Adding a sequence rule appends it, without progress, and leaves the rest alone.
LEMMA AddSequenceOutcome ==
  ASSUME NEW rules, NEW sequences, NEW eng \in EngineStates(rules, sequences), NEW rule \in sequences
  PROVE  /\ AddSequence(eng, rule) \in EngineStates(rules, sequences)
         /\ AddSequence(eng, rule).area = eng.area
         /\ AddSequence(eng, rule).dwell = eng.dwell
         /\ AddSequence(eng, rule).entities = eng.entities
         /\ AddSequence(eng, rule).configurable_rules = eng.configurable_rules
         /\ AddSequence(eng, rule).sequence_rules = Append(eng.sequence_rules, Started(rule))
<1> DEFINE s == Started(rule)
           S == [rule : sequences, progress : [Entities -> Progresses]]
<1>1. s \in S
  BY DEF Idle, Progresses, Started
<1>2. eng.sequence_rules \in Seq(S)
  BY DEF EngineStates
<1> DEFINE new == Append(eng.sequence_rules, s)
<1>3. AddSequence(eng, rule) = [eng EXCEPT !.sequence_rules = new]
  BY DEF AddSequence, Started
<1>4. new \in Seq(S)
  <2> HIDE DEF s, S
  <2>1. QED
    BY <1>1, <1>2
<1> HIDE DEF new
<1>5. AddSequence(eng, rule) =
        [area |-> eng.area, dwell |-> eng.dwell, entities |-> eng.entities,
         configurable_rules |-> eng.configurable_rules, sequence_rules |-> new]
  BY <1>3, SequencesReplaced
<1>6. AddSequence(eng, rule) \in EngineStates(rules, sequences)
  BY <1>4, <1>5 DEF EngineStates
<1>7. QED
  BY <1>5, <1>6 DEF new

\* Restoring keeps everything but the sequence rules.
LEMMA RestoredOutcome ==
  ASSUME NEW rules, NEW sequences, NEW eng \in EngineStates(rules, sequences)
  PROVE  /\ Restored(eng) \in EngineStates(rules, sequences)
         /\ Restored(eng).area = eng.area
         /\ Restored(eng).dwell = eng.dwell
         /\ Restored(eng).entities = eng.entities
         /\ Restored(eng).configurable_rules = eng.configurable_rules
<1> DEFINE S == [rule : sequences, progress : [Entities -> Progresses]]
           f(i) == StartedOver(eng.sequence_rules[i])
           n == Len(eng.sequence_rules)
           new == [i \in DOMAIN eng.sequence_rules |-> f(i)]
<1>1. eng.sequence_rules \in Seq(S)
  BY DEF EngineStates
<1>2. n \in Nat /\ DOMAIN eng.sequence_rules = 1 .. n /\ \A i \in 1 .. n : eng.sequence_rules[i] \in S
  BY <1>1, SeqElements
<1>3. [e \in Entities |-> Idle] \in [Entities -> Progresses]
  BY DEF Idle, Progresses
<1>4. \A i \in 1 .. n : f(i) \in S
  BY <1>2, <1>3 DEF StartedOver
<1>5. Restored(eng) =
        [area |-> eng.area, dwell |-> eng.dwell, entities |-> eng.entities,
         configurable_rules |-> eng.configurable_rules, sequence_rules |-> new]
  BY SequencesReplaced DEF Restored, StartedOver
<1>6. new \in Seq(S)
  <2> HIDE DEF f, S, n
  <2>1. [i \in 1 .. n |-> f(i)] \in Seq(S)
    BY <1>2, <1>4
  <2>2. QED
    BY <1>2, <2>1
<1> HIDE DEF new
<1>7. Restored(eng) \in EngineStates(rules, sequences)
  BY <1>5, <1>6 DEF EngineStates
<1>8. QED
  BY <1>5, <1>7

\* Of those it keeps the rules and drops the progress.
LEMMA RestoredSequences ==
  ASSUME NEW rules, NEW sequences, NEW eng \in EngineStates(rules, sequences)
  PROVE  Restored(eng).sequence_rules =
           [i \in DOMAIN eng.sequence_rules |-> StartedOver(eng.sequence_rules[i])]
<1> DEFINE new == [i \in DOMAIN eng.sequence_rules |-> StartedOver(eng.sequence_rules[i])]
<1>1. Restored(eng) = [eng EXCEPT !.sequence_rules = new]
  BY DEF Restored, StartedOver
<1> HIDE DEF new
<1>2. Restored(eng).sequence_rules = new
  BY <1>1, SequencesReplaced
<1>3. QED
  BY <1>2 DEF new

-----------------------------------------------------------------------------
\* A set of numbers has a least one.
LEMMA Smallest ==
  ASSUME NEW S, S \subseteq Nat, S # {}
  PROVE  \E x \in S : \A y \in S : x <= y
<1> DEFINE R == OpToRel(<, Nat)
<1>1. IsWellFoundedOn(R, Nat)
  BY NatLessThanWellFounded
<1>2. ASSUME NEW x \in S, NEW y \in S, y < x
      PROVE  <<y, x>> \in R
  <2>1. <<y, x>> \in Nat \X Nat /\ <<y, x>>[1] < <<y, x>>[2]
    BY <1>2
  <2>2. QED
    BY <2>1, Zenon DEF OpToRel
<1> HIDE DEF R
<1>3. PICK x \in S : \A y \in S : ~(<<y, x>> \in R)
  BY <1>1, WFMin
<1>4. \A y \in S : ~(y < x)
  BY <1>2, <1>3
<1>5. QED
  BY <1>4

\* Induction up to a number: a set with 0, and with every number after one of its own.
LEMMA UpTo ==
  ASSUME NEW N \in Nat, NEW S, 0 \in S, \A n \in 1 .. N : n - 1 \in S => n \in S
  PROVE  \A n \in 0 .. N : n \in S
<1> DEFINE D == {n \in 0 .. N : n \notin S}
<1> SUFFICES ASSUME D # {} PROVE FALSE
  OBVIOUS
<1>1. D \subseteq Nat
  OBVIOUS
<1> HIDE DEF D
<1>2. PICK m \in D : \A y \in D : m <= y
  BY <1>1, Smallest
<1>3. m \in 1 .. N /\ m \notin S /\ m - 1 \in 0 .. N
  BY <1>2 DEF D
<1>4. m - 1 \in S
  BY <1>2, <1>3 DEF D
<1>5. QED
  BY <1>3, <1>4

\* A strict total order, as a set of pairs.
Orders(R, S) ==
  /\ \A a \in S : <<a, a>> \notin R
  /\ \A a, b, c \in S : <<a, b>> \in R /\ <<b, c>> \in R => <<a, c>> \in R
  /\ \A a, b \in S : a # b => <<a, b>> \in R \/ <<b, a>> \in R

\* How many members of S come before it.
Ranking(S, R) == [a \in S |-> Cardinality({b \in S : <<b, a>> \in R})]

\* In a finite set with a strict total order, the members below one of it are 0, 1,
\* 2 and so on, each count of one member.
LEMMA Ranks ==
  ASSUME NEW S, IsFiniteSet(S), NEW R, Orders(R, S), NEW rank, rank = Ranking(S, R)
  PROVE  /\ Cardinality(S) \in Nat
         /\ rank \in [S -> 0 .. Cardinality(S) - 1]
         /\ \A a, b \in S : <<a, b>> \in R => rank[a] < rank[b]
         /\ \A n \in 1 .. Cardinality(S) : \E a \in S : rank[a] = n - 1
<1> DEFINE Below(a) == {b \in S : <<b, a>> \in R}
           C == Cardinality(S)
<1>1. C \in Nat
  BY FS_CardinalityType
<1>2. ASSUME NEW a \in S
      PROVE  IsFiniteSet(Below(a)) /\ Cardinality(Below(a)) \in 0 .. C - 1
  <2>1. Below(a) \in SUBSET (S \ {a})
    BY DEF Orders
  <2>2. IsFiniteSet(S \ {a}) /\ Cardinality(S \ {a}) = C - 1
    BY FS_RemoveElement
  <2> HIDE DEF Below
  <2>3. IsFiniteSet(Below(a)) /\ Cardinality(Below(a)) <= C - 1
    BY <2>1, <2>2, FS_Subset
  <2>4. Cardinality(Below(a)) \in Nat
    BY <2>3, FS_CardinalityType
  <2>5. QED
    BY <1>1, <2>3, <2>4
<1>3. ASSUME NEW a \in S, NEW b \in S, <<a, b>> \in R
      PROVE  Cardinality(Below(a)) < Cardinality(Below(b))
  <2>1. Below(a) \in SUBSET Below(b)
    BY <1>3 DEF Orders
  <2>2. a \in Below(b) /\ a \notin Below(a)
    BY <1>3 DEF Orders
  <2> HIDE DEF Below
  <2>3. /\ Cardinality(Below(a)) <= Cardinality(Below(b))
        /\ Cardinality(Below(a)) # Cardinality(Below(b))
    BY <1>2, <2>1, <2>2, FS_Subset
  <2>4. QED
    BY <1>1, <1>2, <2>3
<1>4. rank = [a \in S |-> Cardinality(Below(a))] /\ \A a \in S : rank[a] = Cardinality(Below(a))
  BY DEF Ranking
<1>5. \A a, b \in S : <<a, b>> \in R => rank[a] < rank[b]
  BY <1>3, <1>4
<1> HIDE DEF Below
<1>6. rank \in [S -> 0 .. C - 1]
  BY <1>2, <1>4
<1>7. rank \in Injection(S, 0 .. C - 1)
  <2>1. ASSUME NEW a \in S, NEW b \in S, a # b
        PROVE  rank[a] # rank[b]
    <3>1. rank[a] < rank[b] \/ rank[b] < rank[a]
      BY <1>5, <2>1 DEF Orders
    <3>2. rank[a] \in Int /\ rank[b] \in Int
      BY <1>1, <1>6
    <3>3. QED
      BY <3>1, <3>2
  <2>2. \A a, b \in S : rank[a] = rank[b] => a = b
    BY <2>1
  <2>3. QED
    BY <1>6, <2>2 DEF Injection, IsInjective
<1>8. IsFiniteSet(0 .. C - 1) /\ Cardinality(0 .. C - 1) = C
  BY <1>1, FS_Interval
<1>9. rank \in Surjection(S, 0 .. C - 1)
  BY <1>7, <1>8, FS_Injection
<1>10. \A n \in 1 .. C : \E a \in S : rank[a] = n - 1
  BY <1>1, <1>9 DEF Surjection
<1>11. QED
  BY <1>1, <1>6, <1>5, <1>10

\* The members of S, each once and in the order R.
InOrder(s, S, R) ==
  /\ Cardinality(S) \in Nat
  /\ \A n \in 1 .. Cardinality(S) : s[n] \in S
  /\ \A i, j \in 1 .. Cardinality(S) : i < j => <<s[i], s[j]>> \in R
  /\ \A a \in S : \E n \in 1 .. Cardinality(S) : s[n] = a

\* Choosing as n-th the member that has n - 1 before it puts the set in order.
LEMMA Sorted ==
  ASSUME NEW S, IsFiniteSet(S), NEW R, Orders(R, S), NEW s,
         \A n \in 1 .. Cardinality(S) :
           (\E a \in S : Cardinality({b \in S : <<b, a>> \in R}) = n - 1)
           => s[n] \in S /\ Cardinality({b \in S : <<b, s[n]>> \in R}) = n - 1
  PROVE  InOrder(s, S, R)
<1> DEFINE C == Cardinality(S)
           rank == Ranking(S, R)
<1>1. \A a \in S : rank[a] = Cardinality({b \in S : <<b, a>> \in R})
  BY DEF Ranking
<1>2. /\ C \in Nat
      /\ rank \in [S -> 0 .. C - 1]
      /\ \A a, b \in S : <<a, b>> \in R => rank[a] < rank[b]
      /\ \A n \in 1 .. C : \E a \in S : rank[a] = n - 1
  BY Ranks
<1> HIDE DEF rank
<1>3. ASSUME NEW n \in 1 .. C
      PROVE  s[n] \in S /\ rank[s[n]] = n - 1
  <2>1. PICK a \in S : rank[a] = n - 1
    BY <1>2
  <2>2. Cardinality({b \in S : <<b, a>> \in R}) = n - 1
    BY <1>1, <2>1
  <2>3. QED
    BY <1>1, <2>2
<1> HIDE DEF C
<1>4. ASSUME NEW a \in S, NEW b \in S, rank[a] <= rank[b], a # b
      PROVE  <<a, b>> \in R
  <2>1. rank[a] \in Int /\ rank[b] \in Int
    BY <1>2
  <2>2. <<b, a>> \notin R
    BY <1>2, <1>4, <2>1
  <2>3. QED
    BY <1>4, <2>2 DEF Orders
<1>5. ASSUME NEW i \in 1 .. C, NEW j \in 1 .. C, i < j
      PROVE  <<s[i], s[j]>> \in R
  <2>1. /\ s[i] \in S /\ s[j] \in S
        /\ rank[s[i]] = i - 1 /\ rank[s[j]] = j - 1
    BY <1>3
  <2>2. rank[s[i]] <= rank[s[j]] /\ s[i] # s[j]
    BY <1>5, <2>1
  <2>3. QED
    BY <1>4, <2>1, <2>2
<1>6. ASSUME NEW a \in S
      PROVE  \E n \in 1 .. C : s[n] = a
  <2>1. rank[a] + 1 \in 1 .. C
    BY <1>2
  <2>2. s[rank[a] + 1] \in S /\ rank[s[rank[a] + 1]] = rank[a]
    <3>1. rank[a] \in Int /\ (rank[a] + 1) - 1 = rank[a]
      BY <1>2
    <3>2. QED
      BY <1>3, <2>1, <3>1
  <2>3. \A b \in S : <<a, b>> \in R \/ <<b, a>> \in R => rank[b] # rank[a]
    BY <1>2
  <2>4. s[rank[a] + 1] = a
    BY <2>2, <2>3 DEF Orders
  <2>5. QED
    BY <2>1, <2>4
<1>7. QED
  BY <1>2, <1>3, <1>5, <1>6 DEF C, InOrder

\* There is one such order.
LEMMA InOrderIsUnique ==
  ASSUME NEW S, NEW R, Orders(R, S), NEW s, NEW r, InOrder(s, S, R), InOrder(r, S, R)
  PROVE  \A n \in 1 .. Cardinality(S) : s[n] = r[n]
<1> DEFINE C == Cardinality(S)
           D == {n \in 1 .. C : s[n] # r[n]}
<1> SUFFICES ASSUME D # {} PROVE FALSE
  OBVIOUS
<1>1. C \in Nat /\ D \subseteq Nat
  BY DEF InOrder
<1>2. PICK n \in D : \A k \in D : n <= k
  BY <1>1, Smallest
<1>3. \A k \in 1 .. n - 1 : s[k] = r[k]
  BY <1>1, <1>2
<1>4. ASSUME NEW x, NEW y, InOrder(x, S, R), InOrder(y, S, R), x[n] # y[n],
             \A k \in 1 .. n - 1 : x[k] = y[k]
      PROVE  <<y[n], x[n]>> \in R
  <2>1. n \in 1 .. C /\ x[n] \in S
    BY <1>2, <1>4 DEF InOrder
  <2>2. PICK m \in 1 .. C : y[m] = x[n]
    BY <1>4, <2>1 DEF InOrder
  <2>3. m >= n
    <3>1. SUFFICES ASSUME m < n PROVE FALSE
      BY <1>1, <2>1
    <3>2. x[m] = x[n]
      BY <1>1, <1>4, <2>1, <2>2, <3>1
    <3>3. <<x[m], x[n]>> \in R
      BY <1>4, <2>1, <2>2, <3>1 DEF InOrder
    <3>4. QED
      BY <2>1, <3>2, <3>3 DEF Orders
  <2>4. n < m
    BY <1>1, <1>4, <2>1, <2>2, <2>3
  <2>5. QED
    BY <1>4, <2>1, <2>2, <2>4 DEF InOrder
<1>5. s[n] \in S /\ r[n] \in S /\ s[n] # r[n]
  BY <1>2 DEF InOrder
<1>6. <<s[n], r[n]>> \in R /\ <<r[n], s[n]>> \in R
  BY <1>3, <1>4, <1>5
<1>7. QED
  BY <1>5, <1>6 DEF Orders

-----------------------------------------------------------------------------
\* The order of tuples of n numbers is strict and total.
LEMMA BeforeIsOrder ==
  ASSUME NEW n \in Nat
  PROVE  /\ \A a \in [1 .. n -> Int] : ~Before(a, a)
         /\ \A a, b, c \in [1 .. n -> Int] : Before(a, b) /\ Before(b, c) => Before(a, c)
         /\ \A a, b \in [1 .. n -> Int] : a # b => Before(a, b) \/ Before(b, a)
<1>1. ASSUME NEW a \in [1 .. n -> Int]
      PROVE  ~Before(a, a)
  BY DEF Before
<1>2. ASSUME NEW a \in [1 .. n -> Int], NEW b \in [1 .. n -> Int], NEW c \in [1 .. n -> Int],
             Before(a, b), Before(b, c)
      PROVE  Before(a, c)
  <2>1. PICK i \in 1 .. n : a[i] < b[i] /\ \A k \in 1 .. i - 1 : a[k] = b[k]
    BY <1>2 DEF Before
  <2>2. PICK j \in 1 .. n : b[j] < c[j] /\ \A k \in 1 .. j - 1 : b[k] = c[k]
    BY <1>2 DEF Before
  <2>3. CASE i <= j
    <3>1. a[i] < c[i]
      <4>1. a[i] \in Int /\ b[i] \in Int /\ c[i] \in Int
        OBVIOUS
      <4>2. i = j \/ i \in 1 .. j - 1
        BY <2>3
      <4>3. QED
        BY <2>1, <2>2, <4>1, <4>2
    <3>2. \A k \in 1 .. i - 1 : a[k] = c[k]
      BY <2>1, <2>2, <2>3
    <3>3. QED
      BY <3>1, <3>2 DEF Before
  <2>4. CASE j < i
    <3>1. j \in 1 .. i - 1 /\ a[j] < c[j]
      BY <2>1, <2>2, <2>4
    <3>2. \A k \in 1 .. j - 1 : a[k] = c[k]
      BY <2>1, <2>2, <2>4
    <3>3. QED
      BY <3>1, <3>2 DEF Before
  <2>5. QED
    BY <2>3, <2>4
<1>3. ASSUME NEW a \in [1 .. n -> Int], NEW b \in [1 .. n -> Int], a # b
      PROVE  Before(a, b) \/ Before(b, a)
  <2> DEFINE D == {k \in 1 .. n : a[k] # b[k]}
  <2>1. D \subseteq Nat /\ D # {}
    BY <1>3
  <2>2. PICK k \in D : \A j \in D : k <= j
    BY <2>1, Smallest
  <2>3. \A j \in 1 .. k - 1 : a[j] = b[j]
    BY <2>2
  <2>4. a[k] < b[k] \/ b[k] < a[k]
    BY <2>2
  <2>5. QED
    BY <2>2, <2>3, <2>4 DEF Before
<1>4. QED
  BY <1>1, <1>2, <1>3
-----------------------------------------------------------------------------
\* The order in which process_batch takes the updates of a batch, by their places in it.
Precedes(batch, i, j) ==
  \/ batch[i].id < batch[j].id
  \/ batch[i].id = batch[j].id /\ batch[i].t_ms < batch[j].t_ms
  \/ batch[i].id = batch[j].id /\ batch[i].t_ms = batch[j].t_ms /\ i < j

\* The order in which process_batch takes the updates, as a relation on their places.
BatchOrder(batch) ==
  {p \in (DOMAIN batch) \X (DOMAIN batch) : Precedes(batch, p[1], p[2])}

\* It is a strict total order.
LEMMA BatchOrderIsOrder ==
  ASSUME NumberedIds, NEW N \in Nat, NEW batch \in [1 .. N -> Updates]
  PROVE  /\ Orders(BatchOrder(batch), 1 .. N)
         /\ \A i, j \in 1 .. N : <<i, j>> \in BatchOrder(batch) <=> Precedes(batch, i, j)
<1>1. ASSUME NEW i \in 1 .. N
      PROVE  batch[i].id \in Int /\ batch[i].t_ms \in Int /\ i \in Int
  <2>1. batch[i] \in Updates
    OBVIOUS
  <2>2. batch[i].id \in Entities /\ batch[i].t_ms \in Times
    BY <2>1 DEF Updates
  <2>3. Entities \subseteq Int /\ Times \subseteq Int
    BY TimesAssumption DEF NumberedIds
  <2>4. batch[i].id \in Int /\ batch[i].t_ms \in Int
    BY <2>2, <2>3
  <2>5. QED
    BY <2>4
<1>2. \A i, j \in 1 .. N : <<i, j>> \in BatchOrder(batch) <=> Precedes(batch, i, j)
  BY DEF BatchOrder
<1>3. \A a \in 1 .. N : ~Precedes(batch, a, a)
  BY <1>1 DEF Precedes
<1>4. ASSUME NEW a \in 1 .. N, NEW b \in 1 .. N, NEW c \in 1 .. N,
             Precedes(batch, a, b), Precedes(batch, b, c)
      PROVE  Precedes(batch, a, c)
  <2>1. /\ batch[a].id \in Int /\ batch[a].t_ms \in Int
        /\ batch[b].id \in Int /\ batch[b].t_ms \in Int
        /\ batch[c].id \in Int /\ batch[c].t_ms \in Int
    BY <1>1
  <2>2. QED
    BY <1>4, <2>1 DEF Precedes
<1>5. ASSUME NEW a \in 1 .. N, NEW b \in 1 .. N, a # b
      PROVE  Precedes(batch, a, b) \/ Precedes(batch, b, a)
  BY <1>1, <1>5 DEF Precedes
<1>6. QED
  BY <1>2, <1>3, <1>4, <1>5 DEF Orders

\* The sort of process_batch is a sort.
LEMMA SortUpdatesIsSort ==
  ASSUME NumberedIds, NEW N \in Nat, NEW batch \in [1 .. N -> Updates]
  PROVE  \E order \in [1 .. N -> 1 .. N] :
           /\ InOrder(order, 1 .. N, BatchOrder(batch))
           /\ SortUpdates(batch) = [n \in 1 .. N |-> batch[order[n]]]
<1> DEFINE S == DOMAIN batch
           R == BatchOrder(batch)
           order == [n \in 1 .. Cardinality(S) |->
                       CHOOSE a \in S :
                         Cardinality({b \in S : Before(<<batch[b].id, batch[b].t_ms, b>>,
                                                     <<batch[a].id, batch[a].t_ms, a>>)}) = n - 1]
<1>1. S = 1 .. N /\ IsFiniteSet(S) /\ Cardinality(S) = N
  BY FS_Interval
<1>2. SortUpdates(batch) = [n \in S |-> batch[order[n]]]
  BY Zenon DEF SortUpdates, SortedBy
<1>3. ASSUME NEW i \in S, NEW j \in S
      PROVE  Before(<<batch[i].id, batch[i].t_ms, i>>, <<batch[j].id, batch[j].t_ms, j>>)
               <=> <<i, j>> \in R
  <2> DEFINE a == <<batch[i].id, batch[i].t_ms, i>>
             b == <<batch[j].id, batch[j].t_ms, j>>
  <2>1. /\ a[1] = batch[i].id /\ a[2] = batch[i].t_ms /\ a[3] = i
        /\ b[1] = batch[j].id /\ b[2] = batch[j].t_ms /\ b[3] = j
    OBVIOUS
  <2>2. DOMAIN a = {1, 2, 3} /\ 1 .. 0 = {} /\ 1 .. 1 = {1} /\ 1 .. 2 = {1, 2}
    OBVIOUS
  <2> HIDE DEF a, b
  <2>3. Before(a, b) <=>
          \/ a[1] < b[1]
          \/ a[2] < b[2] /\ a[1] = b[1]
          \/ a[3] < b[3] /\ a[1] = b[1] /\ a[2] = b[2]
    BY <2>2 DEF Before
  <2>4. Before(a, b) <=> Precedes(batch, i, j)
    BY <2>1, <2>3 DEF Precedes
  <2>5. QED
    BY <1>1, <2>4, BatchOrderIsOrder DEF a, b
<1>4. \A a \in S :
        {b \in S : Before(<<batch[b].id, batch[b].t_ms, b>>, <<batch[a].id, batch[a].t_ms, a>>)} =
        {b \in S : <<b, a>> \in R}
  BY <1>3
<1>5. \A n \in 1 .. Cardinality(S) :
        (\E a \in S : Cardinality({b \in S : <<b, a>> \in R}) = n - 1)
        => order[n] \in S /\ Cardinality({b \in S : <<b, order[n]>> \in R}) = n - 1
  BY <1>4
<1> HIDE DEF order, R
<1>6. InOrder(order, S, R)
  BY <1>1, <1>5, BatchOrderIsOrder, Sorted DEF R
<1> DEFINE s == [n \in 1 .. N |-> order[n]]
<1> HIDE DEF S
<1>7. \A n \in 1 .. N : s[n] = order[n] /\ order[n] \in 1 .. N
  BY <1>1, <1>6 DEF InOrder
<1>8. s \in [1 .. N -> 1 .. N] /\ SortUpdates(batch) = [n \in 1 .. N |-> batch[s[n]]]
  BY <1>1, <1>2, <1>7
<1> HIDE DEF s
<1>9. InOrder(s, 1 .. N, R)
  BY <1>1, <1>6, <1>7 DEF InOrder
<1>10. QED
  BY <1>8, <1>9 DEF R

-----------------------------------------------------------------------------
\* The function a fold is defined with, for a step F from the result so far and the
\* place in the sequence.
Folded(N, base, F, g) ==
  g = [t \in SUBSET (1 .. N) |-> IF t = {} THEN base ELSE F[<<g[t \ {Max(t)}], Max(t)>>]]

\* The greatest of a set that ends at n.
LEMMA MaxIs ==
  ASSUME NEW t, t \subseteq Int, NEW n \in t, \A k \in t : k <= n
  PROVE  Max(t) = n
<1>1. \A x \in t : (\A y \in t : x >= y) => x = n
  OBVIOUS
<1>2. \E x \in t : \A y \in t : x >= y
  OBVIOUS
<1>3. QED
  BY <1>1, <1>2 DEF Max

\* Max takes an interval apart from its end: the order in which the folds go.
LEMMA MaxOfInterval ==
  ASSUME NEW n \in Nat, n # 0
  PROVE  Max(1 .. n) = n /\ (1 .. n) \ {n} = 1 .. n - 1 /\ 1 .. n # {}
<1>1. 1 .. n \subseteq Int /\ n \in 1 .. n /\ \A k \in 1 .. n : k <= n
  OBVIOUS
<1>2. Max(1 .. n) = n
  BY <1>1, MaxIs
<1>3. (1 .. n) \ {n} = 1 .. n - 1
  OBVIOUS
<1>4. QED
  BY <1>1, <1>2, <1>3

\* Max is a greatest member.
LEMMA MaxInSet ==
  ASSUME NEW N \in Nat, NEW t \in SUBSET (1 .. N), t # {}
  PROVE  Max(t) \in t /\ \A k \in t : k <= Max(t)
<1> DEFINE D == {N - k : k \in t}
<1>1. D \subseteq Nat /\ D # {}
  <2>1. \A k \in t : N - k \in Nat
    OBVIOUS
  <2>2. QED
    BY <2>1
<1>2. PICK d \in D : \A k \in D : d <= k
  BY <1>1, Smallest
<1>3. PICK n \in t : d = N - n
  BY <1>2
<1>4. \A k \in t : k <= n
  <2>1. ASSUME NEW k \in t PROVE k <= n
    <3>1. d <= N - k /\ k \in Int /\ n \in Int
      BY <1>2
    <3>2. QED
      BY <1>3, <3>1
  <2>2. QED
    BY <2>1
<1>5. t \subseteq Int
  OBVIOUS
<1>6. Max(t) = n
  BY <1>4, <1>5, MaxIs
<1>7. QED
  BY <1>4, <1>6

\* There is such a function.
LEMMA FoldedExists ==
  ASSUME NEW N \in Nat, NEW A, NEW base \in A, NEW F \in [A \X (1 .. N) -> A]
  PROVE  \E g \in [SUBSET (1 .. N) -> A] : Folded(N, base, F, g)
<1> DEFINE Step(g, t) == IF t = {} THEN base ELSE F[<<g[t \ {Max(t)}], Max(t)>>]
           Good(g, n) == g \in [SUBSET (1 .. n) -> A] /\ \A t \in SUBSET (1 .. n) : g[t] = Step(g, t)
           S == {n \in 0 .. N : \E g : Good(g, n)}
<1>1. 0 \in S
  <2> DEFINE g == [t \in SUBSET (1 .. 0) |-> base]
  <2>1. Good(g, 0)
    OBVIOUS
  <2> HIDE DEF g, Good
  <2>2. QED
    BY <2>1
<1>2. ASSUME NEW n \in 1 .. N, n - 1 \in S
      PROVE  n \in S
  <2>1. PICK f : Good(f, n - 1)
    BY <1>2
  <2> DEFINE g == [t \in SUBSET (1 .. n) |->
                     IF n \in t THEN F[<<f[t \ {n}], n>>] ELSE f[t]]
  <2>2. ASSUME NEW t \in SUBSET (1 .. n)
        PROVE  g[t] \in A /\ g[t] = Step(g, t)
    <3>1. CASE n \in t
      <4>1. t \ {n} \in SUBSET (1 .. n - 1) /\ t \ {n} \in SUBSET (1 .. n) /\ n \notin t \ {n}
        OBVIOUS
      <4>2. Max(t) = n
        <5>1. t \subseteq Int /\ \A k \in t : k <= n
          OBVIOUS
        <5>2. QED
          BY <3>1, <5>1, MaxIs
      <4>3. f[t \ {n}] \in A /\ g[t \ {n}] = f[t \ {n}]
        BY <2>1, <4>1
      <4>4. g[t] = F[<<f[t \ {n}], n>>]
        BY <3>1
      <4> HIDE DEF g
      <4>5. QED
        BY <3>1, <4>2, <4>3, <4>4
    <3>2. CASE n \notin t /\ t # {}
      <4>1. t \in SUBSET (1 .. n - 1) /\ t \in SUBSET (1 .. N)
        BY <3>2
      <4>2. t \ {Max(t)} \in SUBSET (1 .. n - 1) /\ t \ {Max(t)} \in SUBSET (1 .. n) /\ n \notin t \ {Max(t)}
        BY <3>2, <4>1
      <4>3. g[t \ {Max(t)}] = f[t \ {Max(t)}] /\ g[t] = f[t] /\ f[t] \in A
        BY <2>1, <3>2, <4>1, <4>2
      <4>4. f[t] = Step(f, t)
        BY <2>1, <4>1
      <4> HIDE DEF g
      <4>5. QED
        BY <3>2, <4>3, <4>4
    <3>3. CASE t = {}
      <4>1. t \in SUBSET (1 .. n - 1) /\ n \notin t
        BY <3>3
      <4>2. g[t] = f[t] /\ f[t] \in A /\ f[t] = Step(f, t)
        BY <2>1, <4>1
      <4> HIDE DEF g
      <4>3. QED
        BY <3>3, <4>2
    <3>4. QED
      BY <3>1, <3>2, <3>3
  <2>3. g \in [SUBSET (1 .. n) -> A]
    BY <2>2
  <2> HIDE DEF g
  <2>4. Good(g, n) /\ n \in 0 .. N
    BY <2>2, <2>3
  <2> HIDE DEF Good
  <2>5. QED
    BY <2>4
<1>3. N \in 0 .. N
  OBVIOUS
<1> HIDE DEF S
<1>4. \A n \in 0 .. N : n \in S
  BY <1>1, <1>2, UpTo
<1>5. PICK g : Good(g, N)
  BY <1>3, <1>4 DEF S
<1>6. g = [t \in SUBSET (1 .. N) |-> Step(g, t)]
  BY <1>5
<1>7. QED
  BY <1>5, <1>6 DEF Folded

\* A function that is defined so goes through the places one by one.
LEMMA FoldedRuns ==
  ASSUME NEW N \in Nat, NEW h, NEW base,
         \A t \in SUBSET (1 .. N) : t = {} => h[t] = base
  PROVE  /\ h[1 .. 0] = base
         /\ \A n \in 1 .. N : /\ 1 .. n \in SUBSET (1 .. N) /\ 1 .. n # {}
                             /\ Max(1 .. n) = n /\ (1 .. n) \ {Max(1 .. n)} = 1 .. n - 1
<1>1. 1 .. 0 = {}
  OBVIOUS
<1>2. \A n \in 1 .. N : n \in Nat /\ n # 0 /\ 1 .. n \in SUBSET (1 .. N)
  OBVIOUS
<1>3. QED
  BY <1>1, <1>2, MaxOfInterval

-----------------------------------------------------------------------------
\* The image of a finite set is finite.
LEMMA ImageIsFinite ==
  ASSUME NEW S, IsFiniteSet(S), NEW f
  PROVE  IsFiniteSet({f[x] : x \in S})
<1> DEFINE T == {f[x] : x \in S}
           h == [x \in S |-> f[x]]
<1>1. h \in [S -> T] /\ \A y \in T : \E x \in S : h[x] = y
  OBVIOUS
<1> HIDE DEF h, T
<1>2. h \in Surjection(S, T)
  BY <1>1 DEF Surjection
<1>3. IsFiniteSet(T)
  BY <1>2, FS_Surjection
<1>4. QED
  BY <1>3 DEF T

\* There are finitely many geometries, so an update has finitely many events.
LEMMA GeometriesAreFinite ==
  ASSUME NumberedIds
  PROVE  IsFiniteSet(Geometries)
<1>1. IsFiniteSet({"zone"}) /\ IsFiniteSet({"circle"}) /\ IsFiniteSet(Zones) /\ IsFiniteSet(Circles)
  BY FS_Singleton DEF NumberedIds
<1>2. IsFiniteSet({"zone"} \X Zones) /\ IsFiniteSet({"circle"} \X Circles)
  BY <1>1, FS_Product
<1>3. QED
  BY <1>2, FS_Union DEF Geometries

\* All kinds of events.
Kinds == SpatialKinds \union {"custom", "sequence_complete"}

\* The events one call may return for the update u.
EventsFor(u) ==
  [kind : Kinds, id : {u.id}, name : Int, t_ms : {u.t_ms}, motion : Legs \union {None}, rule : Nat]

\* What process_event returns for the update u: finitely many events about its entity,
\* at its time, with the motion it had; those of zones and circles name one.
CallEvents(u) ==
  {events \in SUBSET EventsFor(u) :
     /\ IsFiniteSet(events)
     /\ \A a, b \in events : a.kind = b.kind => a.motion = b.motion
     /\ \A a \in events : a.kind \in SpatialKinds => Subject(a) \in Entities \X Geometries}

\* What process_event returns is in CallEvents.
LEMMA CallEventsType ==
  ASSUME NumberedIds, NEW eng \in EngineStates(AnyRules, AnySequences), WellFormed(eng.entities),
         NEW u \in Updates, NEW fault, NEW r, Outcome(eng, u, fault, r)
  PROVE  r.events \in CallEvents(u)
<1> DEFINE before == eng.entities[u.id]
           after == After(eng, u)
           spatial == Crossings(eng, u)
           custom == CustomEvents(eng, spatial, after.motion, u)
           sequence == SequenceEvents(eng, spatial, u)
<1>1. CASE r.error # None
  <2>1. r.events = {} /\ IsFiniteSet({})
    BY <1>1, FS_EmptySet DEF Outcome
  <2>2. QED
    BY <2>1 DEF CallEvents
<1>2. CASE r.error = None
  <2>1. /\ r.events = (spatial \union custom) \union sequence
        /\ Accepts(before, u)
    BY <1>2 DEF Outcome
  <2>2. /\ eng.entities \in [Entities -> EntityStates] /\ eng.dwell \in [Geometries -> Dwells]
        /\ u.id \in Entities /\ before \in EntityStates
        /\ Timed(before) /\ Len(before.history) <= HistorySize
    BY DEF EngineStates, Updates, WellFormed
  <2>3. after.motion \in Legs \union {None}
    BY <2>1, <2>2, AdvanceType DEF After, EntityStates
  <2> DEFINE f == [g \in Geometries |-> [kind |-> EventKind(g, after.presence[g].inside), id |-> u.id, name |-> g[2],
                        t_ms |-> u.t_ms, motion |-> after.motion, rule |-> 0]]
             S == {h \in Geometries : before.presence[h].inside # after.presence[h].inside}
  <2>4. spatial = {f[g] : g \in S}
    BY DEF Crossings, SpatialEvents
  <2>5. IsFiniteSet(spatial)
    <3>1. S \in SUBSET Geometries
      OBVIOUS
    <3> HIDE DEF S, f, spatial
    <3>2. IsFiniteSet(S)
      BY <3>1, GeometriesAreFinite, FS_Subset
    <3>3. QED
      BY <2>4, <3>2, ImageIsFinite
  <2>6. \A g \in Geometries : g[2] \in Int /\ EventKind(g, after.presence[g].inside) \in SpatialKinds
    BY DEF NumberedIds, Geometries, EventKind, SpatialKinds
  <2>7. \A ev \in spatial : ev \in EventsFor(u) /\ ev.kind \in SpatialKinds /\ ev.motion = after.motion
    <3>1. \A g \in Geometries : f[g] \in EventsFor(u) /\ f[g].kind \in SpatialKinds /\ f[g].motion = after.motion
      <4> HIDE DEF after
      <4>1. QED
        BY <2>3, <2>6 DEF EventsFor, Kinds
    <3> HIDE DEF f
    <3>2. QED
      BY <2>4, <3>1
  <2>8. \A ev \in spatial : Subject(ev) \in Entities \X Geometries
    BY <2>2, SpatialEventSubject DEF Crossings
  <2> HIDE DEF spatial, after, f, S
  <2>9. /\ IsFiniteSet(custom)
        /\ \A ev \in custom : ev \in EventsFor(u) /\ ev.kind = "custom" /\ ev.motion = after.motion
    <3> DEFINE R == {j \in DOMAIN eng.configurable_rules : Fires(eng.configurable_rules[j], spatial, after.motion)}
               c == [i \in DOMAIN eng.configurable_rules |->
                       [kind |-> "custom", id |-> u.id, name |-> eng.configurable_rules[i].emit,
                        t_ms |-> u.t_ms, motion |-> after.motion, rule |-> i]]
    <3>1. custom = {c[i] : i \in R}
      BY DEF CustomEvents
    <3>2. eng.configurable_rules \in Seq(AnyRules)
      BY DEF EngineStates
    <3>3. /\ Len(eng.configurable_rules) \in Nat /\ DOMAIN eng.configurable_rules = 1 .. Len(eng.configurable_rules)
          /\ \A i \in DOMAIN eng.configurable_rules : eng.configurable_rules[i].emit \in Int /\ i \in Nat
      <4>1. /\ Len(eng.configurable_rules) \in Nat /\ DOMAIN eng.configurable_rules = 1 .. Len(eng.configurable_rules)
            /\ \A i \in 1 .. Len(eng.configurable_rules) : eng.configurable_rules[i] \in AnyRules
        BY <3>2, SeqElements
      <4>2. \A i \in 1 .. Len(eng.configurable_rules) : i \in Nat
        BY <4>1
      <4>3. QED
        BY <4>1, <4>2 DEF AnyRules
    <3>4. IsFiniteSet(DOMAIN eng.configurable_rules) /\ R \in SUBSET DOMAIN eng.configurable_rules
      BY <3>3, FS_Interval
    <3>5. \A i \in R : c[i] \in EventsFor(u) /\ c[i].kind = "custom" /\ c[i].motion = after.motion
      BY <2>3, <3>3 DEF EventsFor, Kinds
    <3> HIDE DEF R, c, custom
    <3>6. IsFiniteSet(R)
      BY <3>4, FS_Subset
    <3>7. IsFiniteSet(custom)
      BY <3>1, <3>6, ImageIsFinite
    <3>8. QED
      BY <3>1, <3>5, <3>7
  <2>10. /\ IsFiniteSet(sequence)
         /\ \A ev \in sequence : ev \in EventsFor(u) /\ ev.kind = "sequence_complete" /\ ev.motion = None
    <3> DEFINE R == {j \in DOMAIN eng.sequence_rules : FireOf(eng.sequence_rules[j], spatial, u).complete}
               c == [i \in DOMAIN eng.sequence_rules |->
                       [kind |-> "sequence_complete", id |-> u.id, name |-> eng.sequence_rules[i].rule.name,
                        t_ms |-> u.t_ms, motion |-> None, rule |-> i]]
    <3>1. sequence = {c[i] : i \in R}
      BY DEF SequenceEvents
    <3>2. eng.sequence_rules \in Seq([rule : AnySequences, progress : [Entities -> Progresses]])
      BY DEF EngineStates
    <3>3. /\ Len(eng.sequence_rules) \in Nat /\ DOMAIN eng.sequence_rules = 1 .. Len(eng.sequence_rules)
          /\ \A i \in DOMAIN eng.sequence_rules : eng.sequence_rules[i].rule.name \in Int /\ i \in Nat
      <4>1. /\ Len(eng.sequence_rules) \in Nat /\ DOMAIN eng.sequence_rules = 1 .. Len(eng.sequence_rules)
            /\ \A i \in 1 .. Len(eng.sequence_rules) : eng.sequence_rules[i] \in [rule : AnySequences, progress : [Entities -> Progresses]]
        BY <3>2, SeqElements
      <4>2. \A i \in 1 .. Len(eng.sequence_rules) : i \in Nat
        BY <4>1
      <4>3. QED
        BY <4>1, <4>2 DEF AnySequences
    <3>4. IsFiniteSet(DOMAIN eng.sequence_rules) /\ R \in SUBSET DOMAIN eng.sequence_rules
      BY <3>3, FS_Interval
    <3>5. \A i \in R : c[i] \in EventsFor(u) /\ c[i].kind = "sequence_complete" /\ c[i].motion = None
      BY <3>3 DEF EventsFor, Kinds
    <3> HIDE DEF R, c, sequence
    <3>6. IsFiniteSet(R)
      BY <3>4, FS_Subset
    <3>7. IsFiniteSet(sequence)
      BY <3>1, <3>6, ImageIsFinite
    <3>8. QED
      BY <3>1, <3>5, <3>7
  <2> HIDE DEF custom, sequence
  <2>11. IsFiniteSet((spatial \union custom) \union sequence)
    BY <2>5, <2>9, <2>10, FS_Union
  <2>12. \A a, b \in r.events : a.kind = b.kind => a.motion = b.motion
    BY <2>1, <2>7, <2>9, <2>10 DEF SpatialKinds
  <2>13. \A a \in r.events : a.kind \in SpatialKinds => Subject(a) \in Entities \X Geometries
    BY <2>1, <2>8, <2>9, <2>10 DEF SpatialKinds
  <2>14. r.events \in SUBSET EventsFor(u)
    BY <2>1, <2>7, <2>9, <2>10
  <2>15. QED
    BY <2>1, <2>11, <2>12, <2>13, <2>14 DEF CallEvents
<1>3. QED
  BY <1>1, <1>2

-----------------------------------------------------------------------------
\* One round of the loop of process_batch.
Round(done, u, fault) ==
  LET result == ProcessEvent(done.engine, u, fault)
  IN  [engine |-> result.engine,
       calls  |-> Append(done.calls, result.events),
       errors |-> IF result.error = None
                    THEN done.errors
                    ELSE Append(done.errors, [update |-> u, error |-> result.error])]

\* No call of a batch without faults fails.
LEMMA NoFault == \A n : FaultOf(<<>>, n) = None
BY DEF FaultOf

\* What the fold over the updates starts from.
Begun(eng) == [engine |-> eng, calls |-> <<>>, errors |-> <<>>]

\* The loop of process_batch over N sorted updates, round after round.
IsRun(run, N, eng, updates, broken) ==
  /\ run[0] = Begun(eng)
  /\ \A n \in 1 .. N : run[n] = Round(run[n - 1], updates[n], FaultOf(broken, n))

\* What the loop has between two rounds.
Dones ==
  {done \in [engine : EngineStates(AnyRules, AnySequences),
             calls  : Seq(UNION {CallEvents(u) : u \in Updates}),
             errors : Seq([update : Updates, error : {"monotonicity", "state_store"}])] :
     WellFormed(done.engine.entities)}

\* The fold starts from what is in Dones.
LEMMA StartType ==
  ASSUME NEW eng \in EngineStates(AnyRules, AnySequences), WellFormed(eng.entities)
  PROVE  Begun(eng) \in Dones
BY DEF Begun, Dones

\* A round stays in Dones.
LEMMA RoundType ==
  ASSUME NumberedIds, NEW done \in Dones, NEW u \in Updates, NEW fault
  PROVE  Round(done, u, fault) \in Dones
<1> DEFINE r == ProcessEvent(done.engine, u, fault)
           E == UNION {CallEvents(v) : v \in Updates}
           errs == [update : Updates, error : {"monotonicity", "state_store"}]
<1>1. /\ done.engine \in EngineStates(AnyRules, AnySequences) /\ WellFormed(done.engine.entities)
      /\ done.calls \in Seq(E) /\ done.errors \in Seq(errs)
  BY DEF Dones
<1>2. r.engine \in EngineStates(AnyRules, AnySequences) /\ WellFormed(r.engine.entities)
  BY <1>1, ProcessEventType
<1>3. Outcome(done.engine, u, fault, r)
  BY <1>1, ProcessEventOutcome
<1> HIDE DEF r
<1>4. r.events \in CallEvents(u)
  BY <1>1, <1>3, CallEventsType
<1>5. r.events \in E
  BY <1>4
<1>6. r.error # None => [update |-> u, error |-> r.error] \in errs
  BY <1>3 DEF Outcome
<1> HIDE DEF E, errs
<1>7. Append(done.calls, r.events) \in Seq(E)
  BY <1>1, <1>5
<1>8. (IF r.error = None THEN done.errors ELSE Append(done.errors, [update |-> u, error |-> r.error])) \in Seq(errs)
  BY <1>1, <1>6
<1>9. Round(done, u, fault) =
        [engine |-> r.engine, calls |-> Append(done.calls, r.events),
         errors |-> IF r.error = None THEN done.errors ELSE Append(done.errors, [update |-> u, error |-> r.error])]
  BY DEF Round, r
<1>10. QED
  BY <1>2, <1>7, <1>8, <1>9 DEF Dones, E, errs

\* The fold of process_batch is such a run.
CallsAreRun(run, N, eng, batch, broken) ==
  /\ IsRun(run, N, eng, SortUpdates(batch), broken)
  /\ Calls(eng, batch, broken) = run[N]

\* The fold over the updates is a run, round by round.
LEMMA CallsRun ==
  ASSUME NumberedIds, NEW eng \in EngineStates(AnyRules, AnySequences), WellFormed(eng.entities),
         NEW N \in Nat, NEW batch, SortUpdates(batch) \in [1 .. N -> Updates], NEW broken
  PROVE  \E run : CallsAreRun(run, N, eng, batch, broken)
<1> DEFINE updates == SortUpdates(batch)
           places == [n \in DOMAIN updates |-> n]
           Step(done, n) == Round(done, updates[n], FaultOf(broken, n))
           F == [p \in Dones \X (1 .. N) |-> Step(p[1], p[2])]
           Eq(h) == h = [t \in SUBSET (DOMAIN places) |->
                           IF t = {} THEN Begun(eng) ELSE Step(h[t \ {Max(t)}], places[Max(t)])]
           fold == CHOOSE h : Eq(h)
<1>1. Calls(eng, batch, broken) = fold[DOMAIN places]
  BY Zenon DEF Calls, FoldLeft, MapThenFoldSet, Round, Begun
<1>2. DOMAIN places = 1 .. N /\ \A n \in 1 .. N : places[n] = n /\ updates[n] \in Updates
  OBVIOUS
<1> HIDE DEF places, updates
<1>3. F \in [Dones \X (1 .. N) -> Dones]
  <2>1. \A p \in Dones \X (1 .. N) : Step(p[1], p[2]) \in Dones
    BY <1>2, RoundType
  <2>2. QED
    BY <2>1
<1>4. \A d \in Dones, n \in 1 .. N : F[<<d, n>>] = Step(d, n)
  OBVIOUS
<1> HIDE DEF F
<1>5. PICK g \in [SUBSET (1 .. N) -> Dones] : Folded(N, Begun(eng), F, g)
  BY <1>3, StartType, FoldedExists
<1>6. Eq(g)
  <2>1. ASSUME NEW t \in SUBSET (1 .. N), t # {}
        PROVE  F[<<g[t \ {Max(t)}], Max(t)>>] = Step(g[t \ {Max(t)}], places[Max(t)])
    <3>1. Max(t) \in 1 .. N /\ t \ {Max(t)} \in SUBSET (1 .. N)
      BY <2>1, MaxInSet
    <3>2. g[t \ {Max(t)}] \in Dones
      BY <3>1
    <3> HIDE DEF Step
    <3>3. QED
      BY <1>2, <1>4, <3>1, <3>2
  <2> HIDE DEF Step
  <2>2. QED
    BY <1>2, <1>5, <2>1 DEF Folded
<1>7. Eq(fold)
  BY <1>6
<1> DEFINE run == [n \in 0 .. N |-> fold[1 .. n]]
<1>8. \A t \in SUBSET (1 .. N) :
        fold[t] = IF t = {} THEN Begun(eng) ELSE Step(fold[t \ {Max(t)}], places[Max(t)])
  BY <1>2, <1>7
<1> HIDE DEF fold, Step
<1>9. \A n \in 0 .. N : run[n] = fold[1 .. n]
  OBVIOUS
<1>10. /\ fold[1 .. 0] = Begun(eng)
       /\ \A n \in 1 .. N : /\ 1 .. n \in SUBSET (1 .. N) /\ 1 .. n # {}
                           /\ Max(1 .. n) = n /\ (1 .. n) \ {Max(1 .. n)} = 1 .. n - 1
  BY <1>8, FoldedRuns
<1>11. ASSUME NEW n \in 1 .. N
       PROVE  fold[1 .. n] = Step(fold[1 .. n - 1], n)
  <2>1. /\ 1 .. n \in SUBSET (1 .. N) /\ 1 .. n # {}
        /\ Max(1 .. n) = n /\ (1 .. n) \ {Max(1 .. n)} = 1 .. n - 1
    BY <1>10
  <2>2. fold[1 .. n] = Step(fold[(1 .. n) \ {Max(1 .. n)}], places[Max(1 .. n)])
    BY <1>8, <2>1
  <2>3. QED
    BY <1>2, <2>1, <2>2
<1>12. \A n \in 1 .. N : n \in 0 .. N /\ n - 1 \in 0 .. N
  OBVIOUS
<1>13. 0 \in 0 .. N /\ N \in 0 .. N
  OBVIOUS
<1> HIDE DEF run
<1>14. IsRun(run, N, eng, updates, broken)
  BY <1>9, <1>10, <1>11, <1>12, <1>13 DEF IsRun, Step
<1>15. Calls(eng, batch, broken) = run[N]
  BY <1>1, <1>2, <1>9, <1>13
<1>16. QED
  BY <1>14, <1>15 DEF updates, CallsAreRun

\* What the call of the n-th round returns.
RoundResult(run, updates, broken, n) == ProcessEvent(run[n - 1].engine, updates[n], FaultOf(broken, n))

\* The errors that a run reports up to round n.
Failures(run, updates, broken, n) ==
  {[update |-> updates[k], error |-> RoundResult(run, updates, broken, k).error] :
     k \in {j \in 1 .. n : RoundResult(run, updates, broken, j).error # None}}

\* What a run has after n rounds: the events of every call, in the order of the calls,
\* and the errors of those that failed.
LEMMA RunShape ==
  ASSUME NumberedIds, NEW eng \in EngineStates(AnyRules, AnySequences), WellFormed(eng.entities),
         NEW N \in Nat, NEW updates \in [1 .. N -> Updates], NEW broken,
         NEW run, IsRun(run, N, eng, updates, broken), NEW n \in 0 .. N
  PROVE  /\ run[n] \in Dones
         /\ Len(run[n].calls) = n
         /\ \A k \in 1 .. n : run[n].calls[k] = RoundResult(run, updates, broken, k).events
         /\ {run[n].errors[k] : k \in DOMAIN run[n].errors} = Failures(run, updates, broken, n)
<1> DEFINE Good(m) ==
             /\ run[m] \in Dones
             /\ Len(run[m].calls) = m
             /\ \A k \in 1 .. m : run[m].calls[k] = RoundResult(run, updates, broken, k).events
             /\ {run[m].errors[k] : k \in DOMAIN run[m].errors} = Failures(run, updates, broken, m)
           S == {m \in 0 .. N : Good(m)}
<1>1. Good(0)
  <2>1. run[0] = Begun(eng) /\ run[0] \in Dones
    BY StartType DEF IsRun
  <2>2. run[0].calls = <<>> /\ run[0].errors = <<>>
    BY <2>1 DEF Begun
  <2>3. 1 .. 0 = {}
    OBVIOUS
  <2>4. {run[0].errors[k] : k \in DOMAIN run[0].errors} = {} /\ Failures(run, updates, broken, 0) = {}
    BY <2>2, <2>3 DEF Failures
  <2>5. QED
    BY <2>1, <2>2, <2>3, <2>4
<1>2. ASSUME NEW m \in 1 .. N, Good(m - 1)
      PROVE  Good(m)
  <2> DEFINE r == RoundResult(run, updates, broken, m)
             done == run[m - 1]
             err == [update |-> updates[m], error |-> r.error]
  <2>1. /\ run[m] = Round(done, updates[m], FaultOf(broken, m))
        /\ updates[m] \in Updates
    BY DEF IsRun
  <2>2. run[m] = [engine |-> r.engine, calls |-> Append(done.calls, r.events),
                  errors |-> IF r.error = None THEN done.errors ELSE Append(done.errors, err)]
    BY <2>1 DEF Round, RoundResult
  <2>3. run[m] \in Dones
    BY <1>2, <2>1, RoundType
  <2>4. /\ done.calls \in Seq(UNION {CallEvents(u) : u \in Updates})
        /\ done.errors \in Seq([update : Updates, error : {"monotonicity", "state_store"}])
        /\ Len(done.calls) = m - 1
        /\ \A k \in 1 .. m - 1 : done.calls[k] = RoundResult(run, updates, broken, k).events
        /\ {done.errors[k] : k \in DOMAIN done.errors} = Failures(run, updates, broken, m - 1)
    BY <1>2 DEF Dones
  <2>5. /\ run[m].calls = Append(done.calls, r.events)
        /\ run[m].errors = IF r.error = None THEN done.errors ELSE Append(done.errors, err)
    BY <2>2
  <2> DEFINE result(k) == RoundResult(run, updates, broken, k)
  <2>6. Failures(run, updates, broken, m) =
          Failures(run, updates, broken, m - 1) \union (IF r.error = None THEN {} ELSE {err})
    <3>1. 1 .. m = (1 .. m - 1) \union {m}
      OBVIOUS
    <3> HIDE DEF r
    <3>2. r = RoundResult(run, updates, broken, m)
      BY DEF r
    <3>3. QED
      BY <3>1, <3>2 DEF Failures
  <2> HIDE DEF r, done, err
  <2>7. {run[m].errors[k] : k \in DOMAIN run[m].errors} = Failures(run, updates, broken, m)
    <3>1. CASE r.error = None
      BY <2>4, <2>5, <2>6, <3>1
    <3>2. CASE r.error # None
      <4>1. /\ Len(done.errors) \in Nat /\ DOMAIN done.errors = 1 .. Len(done.errors)
            /\ DOMAIN run[m].errors = (1 .. Len(done.errors)) \union {Len(done.errors) + 1}
            /\ \A k \in 1 .. Len(done.errors) : run[m].errors[k] = done.errors[k]
            /\ run[m].errors[Len(done.errors) + 1] = err
        BY <2>4, <2>5, <3>2
      <4>2. QED
        BY <2>4, <2>6, <3>2, <4>1
    <3>3. QED
      BY <3>1, <3>2
  <2>8. Len(run[m].calls) = m
    BY <2>4, <2>5
  <2>9. ASSUME NEW k \in 1 .. m
        PROVE  run[m].calls[k] = RoundResult(run, updates, broken, k).events
    <3>1. CASE k = m
      BY <2>4, <2>5, <3>1 DEF r
    <3>2. CASE k # m
      <4>1. k \in 1 .. m - 1 /\ run[m].calls[k] = done.calls[k]
        BY <2>4, <2>5, <3>2
      <4>2. QED
        BY <2>4, <4>1
    <3>3. QED
      BY <3>1, <3>2
  <2>10. QED
    BY <2>3, <2>7, <2>8, <2>9
<1> HIDE DEF Good
<1>3. 0 \in S /\ \A m \in 1 .. N : m - 1 \in S => m \in S
  BY <1>1, <1>2
<1> HIDE DEF S
<1>4. n \in S
  BY <1>3, UpTo
<1>5. QED
  BY <1>4 DEF S, Good

\* Round by round, the engine changes as process_event changes it.
LEMMA RunStep ==
  ASSUME NumberedIds, NEW eng \in EngineStates(AnyRules, AnySequences), WellFormed(eng.entities),
         NEW N \in Nat, NEW updates \in [1 .. N -> Updates], NEW broken,
         NEW run, IsRun(run, N, eng, updates, broken), NEW n \in 1 .. N
  PROVE  /\ run[n - 1].engine \in EngineStates(AnyRules, AnySequences) /\ WellFormed(run[n - 1].engine.entities)
         /\ run[n].engine \in EngineStates(AnyRules, AnySequences)
         /\ Outcome(run[n - 1].engine, updates[n], FaultOf(broken, n), RoundResult(run, updates, broken, n))
         /\ run[n].engine = RoundResult(run, updates, broken, n).engine
         /\ RoundResult(run, updates, broken, n).events \in CallEvents(updates[n])
<1>1. n - 1 \in 0 .. N /\ n \in 0 .. N /\ updates[n] \in Updates
  OBVIOUS
<1>2. run[n - 1] \in Dones /\ run[n] \in Dones
  BY <1>1, RunShape
<1>3. /\ run[n - 1].engine \in EngineStates(AnyRules, AnySequences) /\ WellFormed(run[n - 1].engine.entities)
      /\ run[n].engine \in EngineStates(AnyRules, AnySequences)
  BY <1>2 DEF Dones
<1>4. Outcome(run[n - 1].engine, updates[n], FaultOf(broken, n), RoundResult(run, updates, broken, n))
  BY <1>1, <1>3, ProcessEventOutcome DEF RoundResult
<1>5. run[n].engine = RoundResult(run, updates, broken, n).engine
  <2>1. run[n] = Round(run[n - 1], updates[n], FaultOf(broken, n))
    BY DEF IsRun
  <2>2. Round(run[n - 1], updates[n], FaultOf(broken, n)).engine = RoundResult(run, updates, broken, n).engine
    BY DEF Round, RoundResult
  <2>3. QED
    BY <2>1, <2>2
<1>6. QED
  BY <1>1, <1>3, <1>4, <1>5, CallEventsType

\* The time of an entity only grows, and only to the times of its own updates.
LEMMA RunTimes ==
  ASSUME NumberedIds, NEW eng \in EngineStates(AnyRules, AnySequences), WellFormed(eng.entities),
         NEW N \in Nat, NEW updates \in [1 .. N -> Updates], NEW broken,
         NEW run, IsRun(run, N, eng, updates, broken), NEW n \in 0 .. N, NEW e \in Entities
  PROVE  LET first == eng.entities[e].last_t_ms
             last  == run[n].engine.entities[e].last_t_ms
         IN  /\ last = first \/ \E k \in 1 .. n : updates[k].id = e /\ last = updates[k].t_ms
             /\ first # None => last # None /\ last >= first
<1> DEFINE first == eng.entities[e].last_t_ms
           last(m) == run[m].engine.entities[e].last_t_ms
           Good(m) == /\ last(m) = first \/ \E k \in 1 .. m : updates[k].id = e /\ last(m) = updates[k].t_ms
                      /\ first # None => last(m) # None /\ last(m) >= first
           S == {m \in 0 .. N : Good(m)}
<1>1. first \in Times \union {None} /\ Times \subseteq Nat
  BY TimesAssumption DEF EngineStates, EntityStates
<1>2. Good(0)
  <2>1. run[0].engine = eng
    BY DEF IsRun, Begun
  <2>2. first # None => first >= first
    <3> HIDE DEF first
    <3>1. first # None => first \in Int
      BY <1>1
    <3>2. QED
      BY <3>1
  <2>3. QED
    BY <2>1, <2>2
<1>3. ASSUME NEW m \in 1 .. N, Good(m - 1)
      PROVE  Good(m)
  <2> DEFINE u == updates[m]
             old == run[m - 1].engine
             r == RoundResult(run, updates, broken, m)
  <2>1. /\ old \in EngineStates(AnyRules, AnySequences) /\ WellFormed(old.entities)
        /\ Outcome(old, u, FaultOf(broken, m), r)
        /\ run[m].engine = r.engine
    BY RunStep
  <2>2. u \in Updates /\ u.id \in Entities /\ u.t_ms \in Nat /\ u.t_ms # None
    BY TimesAssumption DEF Updates
  <2>3. old.entities \in [Entities -> EntityStates] /\ After(old, u).last_t_ms = u.t_ms
    BY <2>1 DEF EngineStates, After, Advance
  <2>4. last(m - 1) \in Times \union {None}
    BY <2>3 DEF EntityStates
  <2>5. \/ last(m) = last(m - 1)
        \/ e = u.id /\ last(m) = u.t_ms /\ Accepts(old.entities[e], u)
    <3> HIDE DEF r, u
    <3>1. CASE Stores(old, u, FaultOf(broken, m))
      <4>1. /\ r.engine.entities = [old.entities EXCEPT ![u.id] = After(old, u)]
            /\ Accepts(old.entities[u.id], u)
        <5>1. Accepts(old.entities[u.id], u)
          BY <3>1 DEF Stores
        <5>2. QED
          BY <2>1, <3>1, <5>1 DEF Outcome
      <4>2. r.engine.entities[e] = IF e = u.id THEN After(old, u) ELSE old.entities[e]
        BY <2>2, <2>3, <4>1
      <4>3. QED
        BY <2>1, <2>3, <4>1, <4>2
    <3>2. CASE ~Stores(old, u, FaultOf(broken, m))
      <4>1. r.engine.entities = old.entities
        BY <2>1, <3>2 DEF Outcome
      <4>2. QED
        BY <2>1, <4>1
    <3>3. QED
      BY <3>1, <3>2
  <2>6. (1 .. m - 1) \union {m} = 1 .. m
    OBVIOUS
  <2>7. CASE last(m) = last(m - 1)
    <3> HIDE DEF last, first
    <3>1. QED
      BY <1>3, <2>6, <2>7
  <2>8. CASE e = u.id /\ last(m) = u.t_ms /\ Accepts(old.entities[e], u)
    <3>1. last(m - 1) # None => u.t_ms >= last(m - 1)
      BY <2>8 DEF Accepts
    <3> HIDE DEF last, first
    <3>2. last(m) = u.t_ms
      BY <2>8
    <3>3. \E k \in 1 .. m : updates[k].id = e /\ last(m) = updates[k].t_ms
      BY <2>6, <2>8
    <3>4. first # None => last(m) # None /\ last(m) >= first
      <4>1. SUFFICES ASSUME first # None PROVE last(m) # None /\ last(m) >= first
        OBVIOUS
      <4>2. first \in Nat
        BY <1>1, <4>1
      <4>3. last(m - 1) # None /\ last(m - 1) >= first /\ last(m - 1) \in Nat
        BY <1>1, <1>3, <2>4, <4>1
      <4> HIDE DEF u
      <4>4. QED
        BY <2>2, <3>1, <3>2, <4>2, <4>3
    <3>5. QED
      BY <3>3, <3>4
  <2>9. QED
    BY <2>5, <2>7, <2>8
<1> HIDE DEF Good
<1>4. 0 \in S /\ \A m \in 1 .. N : m - 1 \in S => m \in S
  BY <1>2, <1>3
<1> HIDE DEF S
<1>5. n \in S
  BY <1>4, UpTo
<1>6. QED
  BY <1>5 DEF S, Good

\* The run behind a batch: its order, and what process_batch returns of it.
BehindBatch(eng, N, batch, broken, order, updates, run) ==
  /\ order \in [1 .. N -> 1 .. N]
  /\ InOrder(order, 1 .. N, BatchOrder(batch))
  /\ updates = [n \in 1 .. N |-> batch[order[n]]]
  /\ updates = SortUpdates(batch)
  /\ updates \in [1 .. N -> Updates]
  /\ IsRun(run, N, eng, updates, broken)
  /\ ProcessBatch(eng, batch, broken) =
       [engine |-> run[N].engine, events |-> SortEvents(run[N].calls), errors |-> run[N].errors]

\* So process_batch is a sort, a run over the sorted updates, and a sort of its events.
LEMMA BatchRun ==
  ASSUME NumberedIds, NEW eng \in EngineStates(AnyRules, AnySequences), WellFormed(eng.entities),
         NEW N \in Nat, NEW batch \in [1 .. N -> Updates], NEW broken
  PROVE  \E order, updates, run : BehindBatch(eng, N, batch, broken, order, updates, run)
<1> DEFINE updates == SortUpdates(batch)
<1>1. PICK order \in [1 .. N -> 1 .. N] :
        /\ InOrder(order, 1 .. N, BatchOrder(batch))
        /\ updates = [n \in 1 .. N |-> batch[order[n]]]
  BY SortUpdatesIsSort
<1>2. updates \in [1 .. N -> Updates]
  BY <1>1
<1>3. PICK run : CallsAreRun(run, N, eng, batch, broken)
  BY <1>2, CallsRun
<1>4. IsRun(run, N, eng, updates, broken) /\ Calls(eng, batch, broken) = run[N]
  BY <1>3 DEF CallsAreRun
<1>5. ProcessBatch(eng, batch, broken) =
        [engine |-> run[N].engine, events |-> SortEvents(run[N].calls), errors |-> run[N].errors]
  BY <1>4, Zenon DEF ProcessBatch
<1> HIDE DEF updates
<1>6. updates = SortUpdates(batch)
  BY DEF updates
<1>7. BehindBatch(eng, N, batch, broken, order, updates, run)
  BY <1>1, <1>2, <1>4, <1>5, <1>6 DEF BehindBatch
<1>8. QED
  BY <1>7

\* Each update of the batch has its round.
AllHaveRounds(N, batch, order, updates) ==
  \A i \in 1 .. N : \E n \in 1 .. N : order[n] = i /\ updates[n] = batch[i]

\* A later round has an update of a later entity, or a later one of the same entity.
LEMMA BatchSorted ==
  ASSUME NumberedIds, NEW eng, NEW N \in Nat, NEW batch \in [1 .. N -> Updates], NEW broken,
         NEW order, NEW updates, NEW run, BehindBatch(eng, N, batch, broken, order, updates, run)
  PROVE  /\ AllHaveRounds(N, batch, order, updates)
         /\ \A i, j \in 1 .. N : i < j =>
              /\ order[i] # order[j]
              /\ \/ updates[i].id < updates[j].id
                 \/ updates[i].id = updates[j].id /\ updates[i].t_ms <= updates[j].t_ms
<1>1. Cardinality(1 .. N) = N
  BY FS_Interval
<1>2. /\ order \in [1 .. N -> 1 .. N]
      /\ \A i, j \in 1 .. N : i < j => <<order[i], order[j]>> \in BatchOrder(batch)
      /\ \A i \in 1 .. N : \E n \in 1 .. N : order[n] = i
      /\ \A n \in 1 .. N : updates[n] = batch[order[n]]
  BY <1>1 DEF BehindBatch, InOrder
<1>3. ASSUME NEW i \in 1 .. N, NEW j \in 1 .. N, i < j
      PROVE  /\ order[i] # order[j]
             /\ \/ updates[i].id < updates[j].id
                \/ updates[i].id = updates[j].id /\ updates[i].t_ms <= updates[j].t_ms
  <2>1. Precedes(batch, order[i], order[j])
    BY <1>2, <1>3, BatchOrderIsOrder
  <2>2. order[i] # order[j]
    BY <1>2, <1>3, BatchOrderIsOrder DEF Orders
  <2>3. /\ updates[i] = batch[order[i]] /\ updates[j] = batch[order[j]]
        /\ updates[i] \in Updates /\ updates[j] \in Updates
    BY <1>2
  <2>4. updates[i].t_ms \in Nat /\ updates[j].t_ms \in Nat
    BY <2>3, TimesAssumption DEF Updates
  <2>5. QED
    BY <2>1, <2>2, <2>3, <2>4 DEF Precedes
<1>4. AllHaveRounds(N, batch, order, updates)
  BY <1>2 DEF AllHaveRounds
<1>5. QED
  BY <1>3, <1>4

-----------------------------------------------------------------------------
\* A batch leaves an engine as process_event does.
LEMMA BatchKeepsType ==
  ASSUME NumberedIds, NEW eng \in EngineStates(AnyRules, AnySequences), WellFormed(eng.entities),
         NEW N \in Nat, NEW batch \in [1 .. N -> Updates], NEW broken
  PROVE  LET new == ProcessBatch(eng, batch, broken).engine
         IN  new \in EngineStates(AnyRules, AnySequences) /\ WellFormed(new.entities)
<1>1. PICK order, updates, run : BehindBatch(eng, N, batch, broken, order, updates, run)
  BY BatchRun
<1>2. /\ updates \in [1 .. N -> Updates] /\ IsRun(run, N, eng, updates, broken)
      /\ ProcessBatch(eng, batch, broken).engine = run[N].engine
  BY <1>1 DEF BehindBatch
<1>3. N \in 0 .. N
  OBVIOUS
<1>4. run[N] \in Dones
  BY <1>2, <1>3, RunShape
<1>5. QED
  BY <1>2, <1>4 DEF Dones

-----------------------------------------------------------------------------
\* An update older than what its entity has before the round is refused, and no other,
\* if the call can read what that is.
LEMMA RefusedInRound ==
  ASSUME NumberedIds, NEW eng \in EngineStates(AnyRules, AnySequences), WellFormed(eng.entities),
         NEW N \in Nat, NEW updates \in [1 .. N -> Updates], NEW broken,
         NEW run, IsRun(run, N, eng, updates, broken), NEW n \in 1 .. N
  PROVE  RoundResult(run, updates, broken, n).error = "monotonicity"
           <=> LET last == run[n - 1].engine.entities[updates[n].id].last_t_ms
               IN  FaultOf(broken, n) # "get" /\ last # None /\ last > updates[n].t_ms
<1> DEFINE last == run[n - 1].engine.entities[updates[n].id].last_t_ms
<1>1. /\ run[n - 1].engine \in EngineStates(AnyRules, AnySequences)
      /\ Outcome(run[n - 1].engine, updates[n], FaultOf(broken, n), RoundResult(run, updates, broken, n))
  BY RunStep
<1>2. updates[n] \in Updates
  OBVIOUS
<1>3. updates[n].id \in Entities /\ updates[n].t_ms \in Nat
  BY <1>2, TimesAssumption DEF Updates
<1>4. last \in Nat \union {None}
  BY <1>1, <1>3, TimesAssumption DEF EngineStates, EntityStates
<1>5. RoundResult(run, updates, broken, n).error = "monotonicity"
        <=> FaultOf(broken, n) # "get" /\ ~Accepts(run[n - 1].engine.entities[updates[n].id], updates[n])
  BY <1>1 DEF Outcome
<1>6. Accepts(run[n - 1].engine.entities[updates[n].id], updates[n]) <=> (last # None => updates[n].t_ms >= last)
  BY DEF Accepts
<1> HIDE DEF last
<1>7. last # None => (~(updates[n].t_ms >= last) <=> last > updates[n].t_ms)
  BY <1>3, <1>4
<1>8. QED
  BY <1>5, <1>6, <1>7 DEF last

\* A call for the update u can read what the store has of its entity.
CanRead(updates, N, broken, u) ==
  \E n \in 1 .. N : updates[n] = u /\ FaultOf(broken, n) # "get"

\* These errors refuse the update u for its time.
Refused(errors, u) ==
  \E k \in DOMAIN errors : errors[k] = [update |-> u, error |-> "monotonicity"]

\* What the errors of a batch say of one of its updates.
LEMMA RefusedInBatch ==
  ASSUME NumberedIds, NEW eng \in EngineStates(AnyRules, AnySequences), WellFormed(eng.entities),
         NEW N \in Nat, NEW batch \in [1 .. N -> Updates], NEW broken, NEW i \in 1 .. N,
         NEW errors, errors = ProcessBatch(eng, batch, broken).errors
  PROVE  Refused(errors, batch[i])
           <=> LET last == eng.entities[batch[i].id].last_t_ms
               IN  /\ CanRead(SortUpdates(batch), N, broken, batch[i])
                   /\ last # None /\ last > batch[i].t_ms
<1>1. PICK order, updates, run : BehindBatch(eng, N, batch, broken, order, updates, run)
  BY BatchRun
<1>2. /\ updates \in [1 .. N -> Updates] /\ IsRun(run, N, eng, updates, broken)
      /\ errors = run[N].errors
  BY <1>1 DEF BehindBatch
<1> DEFINE result(n) == RoundResult(run, updates, broken, n)
           first == eng.entities[batch[i].id].last_t_ms
<1>3. {errors[k] : k \in DOMAIN errors} = Failures(run, updates, broken, N)
  <2>1. N \in 0 .. N
    OBVIOUS
  <2>2. QED
    BY <1>2, <2>1, RunShape
<1>4. Refused(errors, batch[i])
        <=> \E n \in 1 .. N : updates[n] = batch[i] /\ result(n).error = "monotonicity"
  <2> HIDE DEF result
  <2>1. "monotonicity" # None
    BY EngineAssumption
  <2>2. Failures(run, updates, broken, N) =
          {[update |-> updates[k], error |-> result(k).error] : k \in {j \in 1 .. N : result(j).error # None}}
    BY DEF Failures, result
  <2>3. Refused(errors, batch[i])
          <=> [update |-> batch[i], error |-> "monotonicity"] \in Failures(run, updates, broken, N)
    BY <1>3 DEF Refused
  <2>4. QED
    BY <2>1, <2>2, <2>3
<1>5. batch[i] \in Updates
  OBVIOUS
<1>6. /\ batch[i].id \in Entities /\ batch[i].t_ms \in Nat /\ first \in Nat \union {None}
  BY <1>5, TimesAssumption DEF Updates, EngineStates, EntityStates
<1>7. ASSUME NEW n \in 1 .. N, updates[n] = batch[i]
      PROVE  result(n).error = "monotonicity"
               <=> FaultOf(broken, n) # "get" /\ first # None /\ first > batch[i].t_ms
  <2> DEFINE last == run[n - 1].engine.entities[batch[i].id].last_t_ms
  <2>1. result(n).error = "monotonicity"
          <=> FaultOf(broken, n) # "get" /\ last # None /\ last > batch[i].t_ms
    BY <1>2, <1>7, RefusedInRound
  <2>2. n - 1 \in 0 .. N
    OBVIOUS
  <2>3. /\ last = first \/ \E k \in 1 .. n - 1 : updates[k].id = batch[i].id /\ last = updates[k].t_ms
        /\ first # None => last # None /\ last >= first
    BY <1>2, <1>6, <2>2, RunTimes
  <2>4. \A k \in 1 .. n - 1 : updates[k].id = batch[i].id => updates[k].t_ms \in Nat /\ updates[k].t_ms <= batch[i].t_ms
    <3>1. ASSUME NEW k \in 1 .. n - 1, updates[k].id = batch[i].id
          PROVE  updates[k].t_ms \in Nat /\ updates[k].t_ms <= batch[i].t_ms
      <4>1. k \in 1 .. N /\ k < n
        OBVIOUS
      <4>2. updates[k] \in Updates
        BY <1>2, <4>1
      <4>3. \/ updates[k].id < updates[n].id
            \/ updates[k].id = updates[n].id /\ updates[k].t_ms <= updates[n].t_ms
        BY <1>1, <4>1, BatchSorted
      <4>4. updates[n].id \in Int
        BY <1>6, <1>7 DEF NumberedIds
      <4>5. updates[k].t_ms \in Nat
        BY <4>2, TimesAssumption DEF Updates
      <4>6. QED
        BY <1>7, <3>1, <4>3, <4>4, <4>5
    <3>2. QED
      BY <3>1
  <2> HIDE DEF last, first, result
  <2>5. ASSUME last # None, last > batch[i].t_ms
        PROVE  first # None /\ first > batch[i].t_ms
    <3>1. SUFFICES last = first
      BY <2>5
    <3>2. SUFFICES ASSUME NEW k \in 1 .. n - 1, updates[k].id = batch[i].id, last = updates[k].t_ms
                   PROVE  FALSE
      BY <2>3
    <3>3. last \in Nat /\ last <= batch[i].t_ms
      BY <2>4, <3>2
    <3>4. QED
      BY <1>6, <2>5, <3>3
  <2>6. ASSUME first # None, first > batch[i].t_ms
        PROVE  last # None /\ last > batch[i].t_ms
    <3>1. first \in Nat /\ last # None /\ last >= first
      BY <1>6, <2>3, <2>6
    <3>2. last \in Nat
      BY <2>3, <2>4, <3>1
    <3>3. QED
      BY <1>6, <2>6, <3>1, <3>2
  <2>7. QED
    BY <2>1, <2>5, <2>6
<1> HIDE DEF result, first
<1>8. (\E n \in 1 .. N : updates[n] = batch[i] /\ result(n).error = "monotonicity")
        <=> CanRead(updates, N, broken, batch[i]) /\ first # None /\ first > batch[i].t_ms
  BY <1>7 DEF CanRead
<1>9. updates = SortUpdates(batch)
  BY <1>1 DEF BehindBatch
<1>10. QED
  BY <1>4, <1>8, <1>9 DEF first

-----------------------------------------------------------------------------
\* The loop is deterministic.
LEMMA RunsAgree ==
  ASSUME NEW N \in Nat, NEW eng, NEW updates, NEW broken, NEW run, NEW other,
         IsRun(run, N, eng, updates, broken), IsRun(other, N, eng, updates, broken)
  PROVE  run[N] = other[N]
<1> DEFINE S == {n \in 0 .. N : run[n] = other[n]}
<1>1. 0 \in S
  BY DEF IsRun
<1>2. ASSUME NEW n \in 1 .. N, n - 1 \in S
      PROVE  n \in S
  <2>1. /\ run[n - 1] = other[n - 1]
        /\ run[n] = Round(run[n - 1], updates[n], FaultOf(broken, n))
        /\ other[n] = Round(other[n - 1], updates[n], FaultOf(broken, n))
    BY <1>2 DEF IsRun
  <2>2. QED
    BY <2>1
<1> HIDE DEF S
<1>3. N \in S
  BY <1>1, <1>2, UpTo
<1>4. QED
  BY <1>3 DEF S

\* process_batch sees no more of a batch than its sorted updates.
LEMMA BatchIsItsSort ==
  ASSUME NumberedIds, NEW eng \in EngineStates(AnyRules, AnySequences), WellFormed(eng.entities),
         NEW N \in Nat, NEW batch \in [1 .. N -> Updates], NEW again \in [1 .. N -> Updates],
         SortUpdates(again) = SortUpdates(batch), NEW broken
  PROVE  ProcessBatch(eng, again, broken) = ProcessBatch(eng, batch, broken)
<1>1. PICK order, updates, run : BehindBatch(eng, N, batch, broken, order, updates, run)
  BY BatchRun
<1>2. PICK order2, updates2, run2 : BehindBatch(eng, N, again, broken, order2, updates2, run2)
  BY BatchRun
<1>3. /\ updates = updates2
      /\ IsRun(run, N, eng, updates, broken) /\ IsRun(run2, N, eng, updates2, broken)
      /\ ProcessBatch(eng, batch, broken) =
           [engine |-> run[N].engine, events |-> SortEvents(run[N].calls), errors |-> run[N].errors]
      /\ ProcessBatch(eng, again, broken) =
           [engine |-> run2[N].engine, events |-> SortEvents(run2[N].calls), errors |-> run2[N].errors]
  BY <1>1, <1>2 DEF BehindBatch
<1>4. run[N] = run2[N]
  BY <1>3, RunsAgree
<1>5. QED
  BY <1>3, <1>4

-----------------------------------------------------------------------------
\* The events of a batch, each with the number of its call.
Emitted(calls) == UNION {{[call |-> n, event |-> ev] : ev \in calls[n]} : n \in DOMAIN calls}

\* The order of event_sort_key, as a relation.
EventOrder(E) == {p \in E \X E : Before(SortKey(p[1]), SortKey(p[2]))}

\* The calls of a batch with these updates.
AreCalls(calls, N, updates) ==
  DOMAIN calls = 1 .. N /\ \A n \in 1 .. N : updates[n] \in Updates /\ calls[n] \in CallEvents(updates[n])

\* The emitted events are finitely many pairs of a call and an event of it.
LEMMA EmittedIs ==
  ASSUME NEW N \in Nat, NEW updates, NEW calls, AreCalls(calls, N, updates)
  PROVE  /\ IsFiniteSet(Emitted(calls))
         /\ \A a \in Emitted(calls) : /\ a.call \in 1 .. N /\ a.event \in calls[a.call]
                                     /\ a = [call |-> a.call, event |-> a.event]
         /\ \A n \in 1 .. N : \A ev \in calls[n] : [call |-> n, event |-> ev] \in Emitted(calls)
<1> DEFINE of(n) == {[call |-> n, event |-> ev] : ev \in calls[n]}
           f == [n \in 1 .. N |-> of(n)]
<1>1. Emitted(calls) = UNION {f[n] : n \in 1 .. N}
  BY DEF Emitted, AreCalls
<1>2. \A n \in 1 .. N : f[n] = of(n)
  OBVIOUS
<1>3. ASSUME NEW n \in 1 .. N PROVE IsFiniteSet(of(n))
  <2> DEFINE h == [ev \in calls[n] |-> [call |-> n, event |-> ev]]
  <2>1. IsFiniteSet(calls[n])
    BY DEF AreCalls, CallEvents
  <2>2. of(n) = {h[ev] : ev \in calls[n]}
    OBVIOUS
  <2> HIDE DEF of, h
  <2>3. QED
    BY <2>1, <2>2, ImageIsFinite
<1>4. IsFiniteSet(1 .. N)
  BY FS_Interval
<1>5. \A n \in 1 .. N : \A a \in of(n) : a.call = n /\ a.event \in calls[n] /\ a = [call |-> a.call, event |-> a.event]
  OBVIOUS
<1>6. \A n \in 1 .. N : \A ev \in calls[n] : [call |-> n, event |-> ev] \in of(n)
  OBVIOUS
<1> HIDE DEF f, of
<1>7. IsFiniteSet({f[n] : n \in 1 .. N})
  BY <1>4, ImageIsFinite
<1>8. IsFiniteSet(Emitted(calls))
  BY <1>1, <1>2, <1>3, <1>7, FS_UNION
<1>9. QED
  BY <1>1, <1>2, <1>5, <1>6, <1>8

\* The fields of an update.
LEMMA UpdateType ==
  ASSUME NumberedIds, NEW u \in Updates
  PROVE  u.id \in Entities /\ u.id \in Int /\ u.t_ms \in Times /\ u.t_ms \in Nat
<1>1. u.id \in Entities /\ u.t_ms \in Times
  BY DEF Updates
<1>2. Entities \subseteq Int /\ Times \subseteq Nat
  BY TimesAssumption DEF NumberedIds
<1>3. QED
  BY <1>1, <1>2

\* A sequence is a function on 1 .. its length.
LEMMA SeqIsFunction ==
  ASSUME NEW S, NEW s \in Seq(S)
  PROVE  s \in [1 .. Len(s) -> S]
OBVIOUS

\* What a key is made of.
LEMMA SortKeyType ==
  ASSUME NumberedIds, NEW u \in Updates, NEW ev \in EventsFor(u), NEW n \in Nat, NEW a, a = [call |-> n, event |-> ev]
  PROVE  /\ SortKey(a) \in [1 .. 7 -> Int]
         /\ SortKey(a)[1] = u.id /\ SortKey(a)[2] = u.t_ms
         /\ SortKey(a)[3] = Tier(ev.kind) /\ SortKey(a)[4] = ev.name /\ SortKey(a)[5] = Phase(ev.kind)
         /\ SortKey(a)[6] = n /\ SortKey(a)[7] = ev.rule
<1>1. /\ ev.kind \in Kinds /\ ev.id = u.id /\ ev.t_ms = u.t_ms /\ ev.name \in Int /\ ev.rule \in Int
  BY DEF EventsFor
<1>2. u.id \in Int /\ u.t_ms \in Int
  BY UpdateType
<1>3. Tier(ev.kind) \in Int /\ Phase(ev.kind) \in Int
  BY <1>1 DEF Kinds, SpatialKinds, Tier, Phase
<1>4. SortKey(a) = <<u.id, u.t_ms, Tier(ev.kind), ev.name, Phase(ev.kind), n, ev.rule>>
  BY <1>1 DEF SortKey
<1>5. <<u.id, u.t_ms, Tier(ev.kind), ev.name, Phase(ev.kind), n, ev.rule>> \in [1 .. 7 -> Int]
  <2> DEFINE k == <<u.id, u.t_ms, Tier(ev.kind), ev.name, Phase(ev.kind), n, ev.rule>>
  <2>1. k \in Seq(Int) /\ Len(k) = 7
    BY <1>1, <1>2, <1>3
  <2> HIDE DEF k
  <2>2. k \in [1 .. 7 -> Int]
    BY <2>1, SeqIsFunction
  <2>3. QED
    BY <2>2 DEF k
<1>6. QED
  BY <1>4, <1>5

\* Two events with one key are one event: it tells the kind, and within a call the
\* events of one kind share their motion.
LEMMA SortKeyTells ==
  ASSUME NumberedIds, NEW N \in Nat, NEW updates, NEW calls, AreCalls(calls, N, updates),
         NEW a \in Emitted(calls), NEW b \in Emitted(calls), SortKey(a) = SortKey(b)
  PROVE  a = b
<1>1. /\ a.call \in 1 .. N /\ a.event \in calls[a.call] /\ a = [call |-> a.call, event |-> a.event]
      /\ b.call \in 1 .. N /\ b.event \in calls[b.call] /\ b = [call |-> b.call, event |-> b.event]
  BY EmittedIs
<1>2. /\ updates[a.call] \in Updates /\ a.event \in EventsFor(updates[a.call])
      /\ updates[b.call] \in Updates /\ b.event \in EventsFor(updates[b.call])
      /\ a.call \in Nat /\ b.call \in Nat
  BY <1>1 DEF AreCalls, CallEvents
<1>3. /\ Tier(a.event.kind) = Tier(b.event.kind) /\ a.event.name = b.event.name
      /\ Phase(a.event.kind) = Phase(b.event.kind) /\ a.call = b.call /\ a.event.rule = b.event.rule
  BY <1>1, <1>2, SortKeyType
<1>4. a.event.kind = b.event.kind
  BY <1>2, <1>3 DEF EventsFor, Kinds, SpatialKinds, Tier, Phase
<1>5. a.event.motion = b.event.motion
  BY <1>1, <1>3, <1>4 DEF AreCalls, CallEvents
<1>6. a.event = b.event
  BY <1>2, <1>3, <1>4, <1>5 DEF EventsFor
<1>7. QED
  BY <1>1, <1>3, <1>6

\* The keys of the events of a batch differ, so their order is strict and total.
LEMMA EventOrderIsOrder ==
  ASSUME NumberedIds, NEW N \in Nat, NEW updates, NEW calls, AreCalls(calls, N, updates)
  PROVE  /\ Orders(EventOrder(Emitted(calls)), Emitted(calls))
         /\ \A a, b \in Emitted(calls) : <<a, b>> \in EventOrder(Emitted(calls)) <=> Before(SortKey(a), SortKey(b))
<1> DEFINE E == Emitted(calls)
           R == EventOrder(E)
<1>1. ASSUME NEW a \in E PROVE SortKey(a) \in [1 .. 7 -> Int]
  <2>1. a.call \in 1 .. N /\ a.event \in calls[a.call] /\ a = [call |-> a.call, event |-> a.event]
    BY EmittedIs
  <2>2. updates[a.call] \in Updates /\ a.event \in EventsFor(updates[a.call]) /\ a.call \in Nat
    BY <2>1 DEF AreCalls, CallEvents
  <2>3. QED
    BY <2>1, <2>2, SortKeyType
<1>2. \A a, b \in E : <<a, b>> \in R <=> Before(SortKey(a), SortKey(b))
  BY DEF EventOrder
<1>3. \A a, b \in E : SortKey(a) = SortKey(b) => a = b
  BY SortKeyTells
<1> HIDE DEF E, R
<1>4. ASSUME NEW a \in E PROVE <<a, a>> \notin R
  BY <1>1, <1>2, BeforeIsOrder
<1>5. ASSUME NEW a \in E, NEW b \in E, NEW c \in E, <<a, b>> \in R, <<b, c>> \in R
      PROVE  <<a, c>> \in R
  <2>1. /\ SortKey(a) \in [1 .. 7 -> Int] /\ SortKey(b) \in [1 .. 7 -> Int] /\ SortKey(c) \in [1 .. 7 -> Int]
        /\ Before(SortKey(a), SortKey(b)) /\ Before(SortKey(b), SortKey(c))
    BY <1>1, <1>2, <1>5
  <2>2. Before(SortKey(a), SortKey(c))
    BY <2>1, BeforeIsOrder
  <2>3. QED
    BY <1>2, <2>2
<1>6. ASSUME NEW a \in E, NEW b \in E, a # b
      PROVE  <<a, b>> \in R \/ <<b, a>> \in R
  <2>1. SortKey(a) \in [1 .. 7 -> Int] /\ SortKey(b) \in [1 .. 7 -> Int] /\ SortKey(a) # SortKey(b)
    BY <1>1, <1>3, <1>6
  <2>2. Before(SortKey(a), SortKey(b)) \/ Before(SortKey(b), SortKey(a))
    BY <2>1, BeforeIsOrder
  <2>3. QED
    BY <1>2, <2>2
<1>7. Orders(R, E)
  BY <1>4, <1>5, <1>6 DEF Orders
<1>8. QED
  BY <1>2, <1>7 DEF E, R

\* The output of a batch is what was emitted, in the order of the keys.
IsOutput(sorted, calls, events) ==
  LET M == Cardinality(Emitted(calls))
  IN  /\ M \in Nat
      /\ InOrder(sorted, Emitted(calls), EventOrder(Emitted(calls)))
      /\ events = [n \in 1 .. M |-> sorted[n].event]

\* sort_events_deterministic puts the events in that order.
LEMMA SortEventsIsSort ==
  ASSUME NumberedIds, NEW N \in Nat, NEW updates, NEW calls, AreCalls(calls, N, updates)
  PROVE  \E sorted : IsOutput(sorted, calls, SortEvents(calls))
<1> DEFINE E == Emitted(calls)
           R == EventOrder(E)
           sorted == [n \in 1 .. Cardinality(E) |->
                        CHOOSE a \in E : Cardinality({b \in E : Before(SortKey(b), SortKey(a))}) = n - 1]
<1>1. SortEvents(calls) = [n \in DOMAIN sorted |-> sorted[n].event]
  BY Zenon DEF SortEvents, SortedBy, Emitted
<1>2. DOMAIN sorted = 1 .. Cardinality(E)
  OBVIOUS
<1>3. \A a \in E : {b \in E : Before(SortKey(b), SortKey(a))} = {b \in E : <<b, a>> \in R}
  <2>1. \A a, b \in E : <<a, b>> \in R <=> Before(SortKey(a), SortKey(b))
    BY EventOrderIsOrder
  <2> HIDE DEF E, R
  <2>2. QED
    BY <2>1
<1>4. IsFiniteSet(E) /\ Orders(R, E)
  BY EmittedIs, EventOrderIsOrder
<1> HIDE DEF E, R
<1>5. \A n \in 1 .. Cardinality(E) :
        (\E a \in E : Cardinality({b \in E : <<b, a>> \in R}) = n - 1)
        => sorted[n] \in E /\ Cardinality({b \in E : <<b, sorted[n]>> \in R}) = n - 1
  BY <1>3
<1> HIDE DEF sorted
<1>6. InOrder(sorted, E, R)
  BY <1>4, <1>5, Sorted
<1>7. Cardinality(E) \in Nat
  BY <1>4, FS_CardinalityType
<1>8. IsOutput(sorted, calls, SortEvents(calls))
  BY <1>1, <1>2, <1>6, <1>7 DEF IsOutput, E, R
<1>9. QED
  BY <1>8

\* What a consumer has seen after each of M events.
Sees(run, M, events) == \A n \in 1 .. M : run[n] = See(run[n - 1], events[n])

\* The consumer that starts with `seen` and folds the events.
Folds(run, M, seen, events) ==
  /\ run[0] = seen
  /\ Sees(run, M, events)
  /\ run[M] = FoldLeft(See, seen, events)

\* Folding events into a picture, as a run.
LEMMA SeeRun ==
  ASSUME NEW M \in Nat, NEW events, DOMAIN events = 1 .. M, NEW seen, NEW P, seen \subseteq P,
         \A n \in 1 .. M : events[n].kind \in {"enter", "approach"} => Subject(events[n]) \in P
  PROVE  \E run : Folds(run, M, seen, events)
<1> DEFINE Step(known, n) == See(known, events[n])
           A == SUBSET P
           F == [p \in A \X (1 .. M) |-> Step(p[1], p[2])]
           Eq(h) == h = [t \in SUBSET DOMAIN events |->
                           IF t = {} THEN seen ELSE Step(h[t \ {Max(t)}], Max(t))]
           fold == CHOOSE h : Eq(h)
<1>1. FoldLeft(See, seen, events) = fold[DOMAIN events]
  BY Zenon DEF FoldLeft, MapThenFoldSet
<1>2. \A known \in A, n \in 1 .. M : Step(known, n) \in A
  BY DEF See
<1> HIDE DEF A, Step
<1>3. F \in [A \X (1 .. M) -> A] /\ \A d \in A, n \in 1 .. M : F[<<d, n>>] = Step(d, n)
  <2>1. \A p \in A \X (1 .. M) : Step(p[1], p[2]) \in A
    BY <1>2
  <2>2. QED
    BY <2>1
<1>4. seen \in A
  BY DEF A
<1> HIDE DEF F
<1>5. PICK g \in [SUBSET (1 .. M) -> A] : Folded(M, seen, F, g)
  BY <1>3, <1>4, FoldedExists
<1>6. Eq(g)
  <2>1. ASSUME NEW t \in SUBSET (1 .. M), t # {}
        PROVE  F[<<g[t \ {Max(t)}], Max(t)>>] = Step(g[t \ {Max(t)}], Max(t))
    <3>1. Max(t) \in 1 .. M /\ t \ {Max(t)} \in SUBSET (1 .. M)
      BY <2>1, MaxInSet
    <3>2. g[t \ {Max(t)}] \in A
      BY <3>1
    <3>3. QED
      BY <1>3, <3>1, <3>2
  <2>2. QED
    BY <1>5, <2>1 DEF Folded
<1>7. Eq(fold)
  BY <1>6
<1> DEFINE run == [n \in 0 .. M |-> fold[1 .. n]]
<1>8. \A t \in SUBSET (1 .. M) :
        fold[t] = IF t = {} THEN seen ELSE Step(fold[t \ {Max(t)}], Max(t))
  BY <1>7
<1> HIDE DEF fold
<1>9. \A n \in 0 .. M : run[n] = fold[1 .. n]
  OBVIOUS
<1>10. /\ fold[1 .. 0] = seen
       /\ \A n \in 1 .. M : /\ 1 .. n \in SUBSET (1 .. M) /\ 1 .. n # {}
                           /\ Max(1 .. n) = n /\ (1 .. n) \ {Max(1 .. n)} = 1 .. n - 1
  BY <1>8, FoldedRuns
<1>11. ASSUME NEW n \in 1 .. M
       PROVE  fold[1 .. n] = Step(fold[1 .. n - 1], n)
  <2>1. /\ 1 .. n \in SUBSET (1 .. M) /\ 1 .. n # {}
        /\ Max(1 .. n) = n /\ (1 .. n) \ {Max(1 .. n)} = 1 .. n - 1
    BY <1>10
  <2>2. fold[1 .. n] = Step(fold[(1 .. n) \ {Max(1 .. n)}], Max(1 .. n))
    BY <1>8, <2>1
  <2>3. QED
    BY <2>1, <2>2
<1>12. \A n \in 1 .. M : n \in 0 .. M /\ n - 1 \in 0 .. M
  OBVIOUS
<1>13. 0 \in 0 .. M /\ M \in 0 .. M
  OBVIOUS
<1> HIDE DEF run
<1>14. run[0] = seen /\ \A n \in 1 .. M : run[n] = See(run[n - 1], events[n])
  BY <1>9, <1>10, <1>11, <1>12, <1>13 DEF Step
<1>15. run[M] = FoldLeft(See, seen, events)
  BY <1>1, <1>9, <1>13
<1>16. Folds(run, M, seen, events)
  BY <1>14, <1>15 DEF Folds, Sees
<1>17. QED
  BY <1>16

\* An event of a zone or circle that is about this pair of entity and geometry.
Concerns(ev, p) == ev.kind \in SpatialKinds /\ Subject(ev) = p

\* No event after the l-th is about the pair p.
NoneAfter(l, M, events, p) == \A k \in 1 .. M : k > l => ~Concerns(events[k], p)

\* A consumer's answer for a pair changes only with an event that concerns it.
LEMMA SeeLast ==
  ASSUME NEW M \in Nat, NEW events, NEW run, Sees(run, M, events),
         NEW p, NEW l \in 0 .. M, NoneAfter(l, M, events, p)
  PROVE  /\ p \in run[M] <=> p \in run[l]
         /\ l # 0 /\ Concerns(events[l], p) => (p \in run[l] <=> events[l].kind \in {"enter", "approach"})
<1> DEFINE S == {n \in 0 .. M : n >= l => (p \in run[n] <=> p \in run[l])}
<1>1. 0 \in S
  OBVIOUS
<1>2. ASSUME NEW n \in 1 .. M, n - 1 \in S
      PROVE  n \in S
  <2>1. CASE n > l
    <3>1. ~Concerns(events[n], p) /\ n - 1 >= l
      BY <2>1 DEF NoneAfter
    <3>2. run[n] = See(run[n - 1], events[n])
      BY DEF Sees
    <3>3. p \in See(run[n - 1], events[n]) <=> p \in run[n - 1]
      BY <3>1 DEF See, Concerns, SpatialKinds
    <3>4. QED
      BY <1>2, <3>1, <3>2, <3>3
  <2>2. CASE n <= l
    BY <2>2
  <2>3. QED
    BY <2>1, <2>2
<1> HIDE DEF S
<1>3. M \in S
  BY <1>1, <1>2, UpTo
<1>4. p \in run[M] <=> p \in run[l]
  BY <1>3 DEF S
<1>5. ASSUME l # 0, Concerns(events[l], p)
      PROVE  p \in run[l] <=> events[l].kind \in {"enter", "approach"}
  <2>1. run[l] = See(run[l - 1], events[l])
    BY <1>5 DEF Sees
  <2>2. QED
    BY <1>5, <2>1 DEF See, Concerns, SpatialKinds
<1>6. QED
  BY <1>4, <1>5

\* The membership after n rounds.
InsideAfter(run, n, e, g) == run[n].engine.entities[e].presence[g].inside

\* The call of the n-th round returns no event that concerns the pair.
Silent(run, updates, broken, n, p) ==
  \A ev \in RoundResult(run, updates, broken, n).events : ~Concerns(ev, p)

\* The stored membership of a pair changes only in a round that emits an event which
\* concerns it, and is then what the event says, unless the events of the round were lost.
LEMMA InsideStep ==
  ASSUME NumberedIds, NEW eng \in EngineStates(AnyRules, AnySequences), WellFormed(eng.entities),
         NEW N \in Nat, NEW updates \in [1 .. N -> Updates], NEW broken,
         NEW run, IsRun(run, N, eng, updates, broken), NEW n \in 1 .. N,
         NEW e \in Entities, NEW g \in Geometries, updates[n].id = e => FaultOf(broken, n) # "lost"
  PROVE  /\ \A ev \in RoundResult(run, updates, broken, n).events : Concerns(ev, <<e, g>>) =>
               /\ updates[n].id = e
               /\ ev.kind \in {"enter", "approach"} <=> InsideAfter(run, n, e, g)
         /\ Silent(run, updates, broken, n, <<e, g>>) =>
               InsideAfter(run, n, e, g) = InsideAfter(run, n - 1, e, g)
<1> DEFINE u == updates[n]
           old == run[n - 1].engine
           r == RoundResult(run, updates, broken, n)
           before == old.entities[u.id]
           after == After(old, u)
<1>1. /\ old \in EngineStates(AnyRules, AnySequences) /\ WellFormed(old.entities)
      /\ run[n].engine \in EngineStates(AnyRules, AnySequences)
      /\ Outcome(old, u, FaultOf(broken, n), r)
      /\ run[n].engine = r.engine
  BY RunStep
<1>2. u \in Updates /\ u.id \in Entities
  BY UpdateType
<1>3. old.entities \in [Entities -> EntityStates]
  BY <1>1 DEF EngineStates
<1>4. InsideAfter(run, n, e, g) \in BOOLEAN
  BY <1>1 DEF InsideAfter, EngineStates, EntityStates, Presences
<1>5. CASE r.error # None
  <2>1. /\ r.events = {}
        /\ \/ r.engine.entities = old.entities
           \/ u.id # e /\ r.engine.entities = [old.entities EXCEPT ![u.id] = after]
    <3> HIDE DEF r, after
    <3>1. u.id = e => ~Stores(old, u, FaultOf(broken, n))
      BY <1>1, <1>5 DEF Outcome, Stores, StoreFaults
    <3>2. QED
      BY <1>1, <1>5, <3>1 DEF Outcome, after
  <2>2. r.engine.entities[e] = old.entities[e]
    <3> HIDE DEF r, after
    <3>1. QED
      BY <1>3, <2>1
  <2>3. QED
    BY <1>1, <2>1, <2>2 DEF InsideAfter, Silent
<1>6. CASE r.error = None
  <2>1. r.engine.entities = [old.entities EXCEPT ![u.id] = after]
    BY <1>1, <1>6 DEF Outcome, Stores, StoreFaults
  <2>2. Reports(r.events, before, after, u)
    BY <1>1, <1>6, ProcessEventReports
  <2> HIDE DEF r, u
  <2>3. r.engine.entities[e] = IF e = u.id THEN after ELSE old.entities[e]
    BY <1>2, <1>3, <2>1
  <2> HIDE DEF after
  <2>4. ASSUME NEW ev \in r.events, Concerns(ev, <<e, g>>)
        PROVE  u.id = e /\ (ev.kind \in {"enter", "approach"} <=> InsideAfter(run, n, e, g))
    <3>1. ev \in SpatialEvents(before, after, u)
      BY <2>2, <2>4 DEF Concerns, Reports
    <3>2. PICK h \in Geometries :
            Subject(ev) = <<u.id, h>> /\ ev.kind = EventKind(h, after.presence[h].inside)
      BY <3>1, SpatialEventSubject
    <3>3. h = g /\ u.id = e
      BY <2>4, <3>2 DEF Concerns
    <3>4. after.presence[g].inside = InsideAfter(run, n, e, g)
      BY <1>1, <2>3, <3>3 DEF InsideAfter
    <3>5. QED
      BY <1>4, <3>2, <3>3, <3>4, KindOfEvent
  <2>5. ASSUME \A ev \in r.events : ~Concerns(ev, <<e, g>>)
        PROVE  InsideAfter(run, n, e, g) = InsideAfter(run, n - 1, e, g)
    <3>1. CASE e # u.id
      BY <1>1, <2>3, <3>1 DEF InsideAfter
    <3>2. CASE e = u.id
      <4>1. after.presence[g].inside = InsideAfter(run, n, e, g)
        BY <1>1, <2>3, <3>2 DEF InsideAfter
      <4>2. before.presence[g].inside = InsideAfter(run, n - 1, e, g)
        BY <3>2 DEF InsideAfter
      <4> HIDE DEF before
      <4>3. SUFFICES ASSUME before.presence[g].inside # after.presence[g].inside PROVE FALSE
        BY <4>1, <4>2
      <4>4. PICK ev \in SpatialEvents(before, after, u) :
              ev.kind = EventKind(g, after.presence[g].inside) /\ Subject(ev) = <<u.id, g>>
        BY <4>3, SpatialEventOf
      <4>5. ev \in r.events /\ ev.kind \in SpatialKinds
        BY <1>4, <2>2, <4>1, <4>4, KindOfEvent DEF Reports, before
      <4>6. QED
        BY <2>5, <3>2, <4>4, <4>5 DEF Concerns
    <3>3. QED
      BY <3>1, <3>2
  <2>6. QED
    BY <2>4, <2>5 DEF r, u, Silent
<1>7. QED
  BY <1>5, <1>6

\* No call after the m-th returns an event about the pair p.
NoCallAfter(m, N, run, updates, broken, p) ==
  \A n \in 1 .. N : n > m => Silent(run, updates, broken, n, p)

\* No round of the entity loses its events though its write is applied.
NotLost(N, updates, broken, e) ==
  \A n \in 1 .. N : updates[n].id = e => FaultOf(broken, n) # "lost"

\* So what was stored after the m-th call is stored at the end.
LEMMA InsideLast ==
  ASSUME NumberedIds, NEW eng \in EngineStates(AnyRules, AnySequences), WellFormed(eng.entities),
         NEW N \in Nat, NEW updates \in [1 .. N -> Updates], NEW broken,
         NEW run, IsRun(run, N, eng, updates, broken), NEW m \in 0 .. N,
         NEW e \in Entities, NEW g \in Geometries, NotLost(N, updates, broken, e),
         NoCallAfter(m, N, run, updates, broken, <<e, g>>)
  PROVE  InsideAfter(run, N, e, g) = InsideAfter(run, m, e, g)
<1> DEFINE S == {n \in 0 .. N : n >= m => InsideAfter(run, n, e, g) = InsideAfter(run, m, e, g)}
<1>1. 0 \in S
  OBVIOUS
<1>2. ASSUME NEW n \in 1 .. N, n - 1 \in S
      PROVE  n \in S
  <2>1. CASE n > m
    <3>1. n - 1 >= m /\ Silent(run, updates, broken, n, <<e, g>>)
      BY <2>1 DEF NoCallAfter
    <3>2. InsideAfter(run, n, e, g) = InsideAfter(run, n - 1, e, g)
      BY <3>1, InsideStep DEF NotLost
    <3>3. QED
      BY <1>2, <3>1, <3>2
  <2>2. CASE n <= m
    BY <2>2
  <2>3. QED
    BY <2>1, <2>2
<1>3. 0 \in S /\ \A n \in 1 .. N : n - 1 \in S => n \in S
  BY <1>1, <1>2
<1> HIDE DEF S
<1>4. \A n \in 0 .. N : n \in S
  BY <1>3, UpTo
<1>5. N \in S
  BY <1>4
<1>6. QED
  BY <1>5 DEF S

\* The calls of a run are typed, one for each update, with what it returned.
LEMMA RunCalls ==
  ASSUME NumberedIds, NEW eng \in EngineStates(AnyRules, AnySequences), WellFormed(eng.entities),
         NEW N \in Nat, NEW updates \in [1 .. N -> Updates], NEW broken,
         NEW run, IsRun(run, N, eng, updates, broken)
  PROVE  /\ AreCalls(run[N].calls, N, updates)
         /\ \A n \in 1 .. N : run[N].calls[n] = RoundResult(run, updates, broken, n).events
<1> DEFINE E == UNION {CallEvents(u) : u \in Updates}
           calls == run[N].calls
<1>1. N \in 0 .. N
  OBVIOUS
<1>2. /\ run[N] \in Dones /\ Len(calls) = N
      /\ \A n \in 1 .. N : calls[n] = RoundResult(run, updates, broken, n).events
  BY <1>1, RunShape
<1>3. \A n \in 1 .. N : RoundResult(run, updates, broken, n).events \in CallEvents(updates[n])
  BY RunStep
<1>4. calls \in Seq(E)
  BY <1>2 DEF Dones
<1> HIDE DEF E, calls
<1>5. DOMAIN calls = 1 .. N
  BY <1>2, <1>4
<1>6. \A n \in 1 .. N : updates[n] \in Updates /\ calls[n] \in CallEvents(updates[n])
  BY <1>2, <1>3
<1>7. QED
  BY <1>2, <1>5, <1>6 DEF AreCalls, calls

\* The rounds of this entity are strictly in time.
StrictlySorted(updates, N, e) ==
  \A i, j \in 1 .. N :
    i < j /\ updates[i].id = e /\ updates[j].id = e => updates[i].t_ms < updates[j].t_ms

\* Of two events of one entity, the one of the later call comes later in the output.
LEMMA LaterCallLater ==
  ASSUME NumberedIds, NEW N \in Nat, NEW updates, NEW calls, AreCalls(calls, N, updates),
         NEW e, StrictlySorted(updates, N, e),
         NEW a \in Emitted(calls), NEW b \in Emitted(calls),
         updates[a.call].id = e, updates[b.call].id = e, a.call < b.call
  PROVE  Before(SortKey(a), SortKey(b))
<1>1. /\ a.call \in 1 .. N /\ a.event \in calls[a.call] /\ a = [call |-> a.call, event |-> a.event]
      /\ b.call \in 1 .. N /\ b.event \in calls[b.call] /\ b = [call |-> b.call, event |-> b.event]
  BY EmittedIs
<1>2. /\ updates[a.call] \in Updates /\ a.event \in EventsFor(updates[a.call]) /\ a.call \in Nat
      /\ updates[b.call] \in Updates /\ b.event \in EventsFor(updates[b.call]) /\ b.call \in Nat
  BY <1>1 DEF AreCalls, CallEvents
<1>3. updates[a.call].id \in Int /\ updates[b.call].id \in Int
  BY <1>2, UpdateType
<1>4. updates[a.call].t_ms < updates[b.call].t_ms
  BY <1>1, <1>3 DEF StrictlySorted
<1>5. /\ SortKey(a) \in [1 .. 7 -> Int] /\ SortKey(a)[1] = updates[a.call].id /\ SortKey(a)[2] = updates[a.call].t_ms
      /\ SortKey(b) \in [1 .. 7 -> Int] /\ SortKey(b)[1] = updates[b.call].id /\ SortKey(b)[2] = updates[b.call].t_ms
  BY <1>1, <1>2, SortKeyType
<1>6. DOMAIN SortKey(a) = 1 .. 7 /\ 2 \in 1 .. 7 /\ \A j \in 1 .. 2 - 1 : j = 1
  BY <1>5
<1>7. QED
  BY <1>4, <1>5, <1>6 DEF Before

\* A consumer that knows `known` and the engine after n rounds agree on a pair.
Agree(known, run, n, e, g) == <<e, g>> \in known <=> InsideAfter(run, n, e, g)

\* What a consumer ends a batch with, for one pair of entity and geometry, is what the
\* last round left: the last event that concerns the pair is of the last call that
\* returned such an event.
LEMMA SeenIsInside ==
  ASSUME NumberedIds, NEW eng \in EngineStates(AnyRules, AnySequences), WellFormed(eng.entities),
         NEW N \in Nat, NEW updates \in [1 .. N -> Updates], NEW broken,
         NEW run, IsRun(run, N, eng, updates, broken),
         NEW sorted, NEW events, IsOutput(sorted, run[N].calls, events),
         NEW M, M = Cardinality(Emitted(run[N].calls)), NEW seen,
         Sees(seen, M, events),
         NEW e \in Entities, NEW g \in Geometries,
         StrictlySorted(updates, N, e), NotLost(N, updates, broken, e),
         Agree(seen[0], run, 0, e, g)
  PROVE  Agree(seen[M], run, N, e, g)
<1> DEFINE calls == run[N].calls
           p == <<e, g>>
           D == {k \in 1 .. M : Concerns(events[k], p)}
           R == EventOrder(Emitted(calls))
<1>1. /\ AreCalls(calls, N, updates)
      /\ \A n \in 1 .. N : calls[n] = RoundResult(run, updates, broken, n).events
  BY RunCalls
<1> HIDE DEF calls
<1>2. /\ M \in Nat /\ M = Cardinality(Emitted(calls))
      /\ InOrder(sorted, Emitted(calls), EventOrder(Emitted(calls)))
      /\ events = [n \in 1 .. M |-> sorted[n].event]
  BY Zenon DEF IsOutput, calls
<1>3. M \in Nat
  BY <1>2
<1>4. /\ \A n \in 1 .. M : sorted[n] \in Emitted(calls) /\ events[n] = sorted[n].event
      /\ \A i, j \in 1 .. M : i < j => <<sorted[i], sorted[j]>> \in R
      /\ \A a \in Emitted(calls) : \E n \in 1 .. M : sorted[n] = a
  BY <1>2 DEF InOrder
<1>5. ASSUME NEW n \in 1 .. N, NEW ev \in calls[n], Concerns(ev, p)
      PROVE  \E k \in D : sorted[k] = [call |-> n, event |-> ev]
  <2>1. [call |-> n, event |-> ev] \in Emitted(calls)
    BY <1>1, EmittedIs
  <2>2. PICK k \in 1 .. M : sorted[k] = [call |-> n, event |-> ev]
    BY <1>4, <2>1
  <2>3. events[k] = ev
    BY <1>4, <2>2
  <2>4. QED
    BY <1>5, <2>2, <2>3
<1>6. CASE D = {}
  <2>1. 0 \in 0 .. M /\ 0 \in 0 .. N
    BY <1>3
  <2>2. \A k \in 1 .. M : ~Concerns(events[k], p)
    BY <1>6
  <2>3. 0 \in 0 .. M /\ 0 \in 0 .. N /\ NoneAfter(0, M, events, p)
    BY <2>1, <2>2 DEF NoneAfter
  <2>4. p \in seen[M] <=> p \in seen[0]
    BY <1>2, <2>3, SeeLast
  <2>5. NoCallAfter(0, N, run, updates, broken, p)
    <3> HIDE DEF D, p
    <3>1. QED
      BY <1>1, <1>5, <1>6 DEF NoCallAfter, Silent
  <2>6. InsideAfter(run, N, e, g) = InsideAfter(run, 0, e, g)
    BY <2>3, <2>5, InsideLast
  <2>7. QED
    BY <2>4, <2>6 DEF Agree
<1>7. CASE D # {}
  <2> DEFINE l == Max(D)
             m == sorted[l].call
  <2>1. l \in D /\ \A k \in D : k <= l
    BY <1>2, <1>7, MaxInSet
  <2> HIDE DEF l
  <2>2. l \in 1 .. M /\ Concerns(events[l], p) /\ sorted[l] \in Emitted(calls) /\ events[l] = sorted[l].event
    BY <1>4, <2>1
  <2>3. m \in 1 .. N /\ events[l] \in calls[m]
    BY <1>1, <2>2, EmittedIs
  <2>4. events[l] \in RoundResult(run, updates, broken, m).events
    BY <1>1, <2>3
  <2>5. updates[m].id = e /\ (events[l].kind \in {"enter", "approach"} <=> InsideAfter(run, m, e, g))
    BY <2>2, <2>3, <2>4, InsideStep DEF NotLost
  <2>6. ASSUME NEW n \in 1 .. N, n > m, NEW ev \in RoundResult(run, updates, broken, n).events, Concerns(ev, p)
        PROVE  FALSE
    <3>1. m < n /\ ev \in calls[n]
      BY <1>1, <2>3, <2>6
    <3>2. updates[n].id = e
      BY <2>6, <3>1, InsideStep DEF NotLost
    <3>3. PICK k \in D : sorted[k] = [call |-> n, event |-> ev]
      BY <1>5, <2>6, <3>1
    <3>4. k \in 1 .. M /\ l \in 1 .. M /\ k <= l /\ k # l /\ sorted[k].call = n
      BY <2>1, <2>2, <3>1, <3>3
    <3>5. <<sorted[k], sorted[l]>> \in R /\ sorted[k] \in Emitted(calls)
      <4>1. k < l
        BY <1>3, <3>4
      <4>2. QED
        BY <1>4, <3>4, <4>1
    <3>6. Before(SortKey(sorted[l]), SortKey(sorted[k]))
      BY <1>1, <2>2, <2>5, <3>1, <3>2, <3>4, <3>5, LaterCallLater
    <3> HIDE DEF D, R
    <3>7. <<sorted[l], sorted[k]>> \in R
      BY <1>1, <2>2, <3>5, <3>6, EventOrderIsOrder DEF R
    <3>8. QED
      BY <1>1, <2>2, <3>5, <3>7, EventOrderIsOrder DEF R, Orders
  <2>7. InsideAfter(run, N, e, g) = InsideAfter(run, m, e, g)
    <3>1. m \in 0 .. N /\ NoCallAfter(m, N, run, updates, broken, p)
      BY <2>3, <2>6 DEF NoCallAfter, Silent
    <3> HIDE DEF m
    <3>2. QED
      BY <3>1, InsideLast
  <2>8. /\ p \in seen[M] <=> p \in seen[l]
        /\ p \in seen[l] <=> events[l].kind \in {"enter", "approach"}
    <3>1. \A k \in 1 .. M : k > l => k \notin D
      <4> HIDE DEF D
      <4>1. M \in Nat /\ l \in 1 .. M /\ \A k \in D : k <= l
        BY <1>3, <2>1, <2>2
      <4>2. QED
        BY <4>1
    <3>2. \A k \in 1 .. M : k > l => ~Concerns(events[k], p)
      BY <3>1
    <3>3. NoneAfter(l, M, events, p)
      BY <3>2 DEF NoneAfter
    <3>4. l \in 0 .. M /\ l # 0
      BY <1>3, <2>2
    <3>5. QED
      BY <1>3, <2>2, <3>3, <3>4, SeeLast
  <2>9. QED
    BY <2>5, <2>7, <2>8 DEF Agree
<1>8. QED
  BY <1>6, <1>7

\* Does this consumer know whether the pair is stored as inside?
Aware(known, entities, e, g) == <<e, g>> \in known <=> entities[e].presence[g].inside

\* Who knows of a pair before a batch, and folds the output, knows of it after the batch,
\* if its entity has no ties in the batch and none of its calls loses its events.
LEMMA BatchKnows ==
  ASSUME NumberedIds, NEW eng \in EngineStates(AnyRules, AnySequences), WellFormed(eng.entities),
         NEW N \in Nat, NEW batch \in [1 .. N -> Updates], NEW broken,
         NEW result, result = ProcessBatch(eng, batch, broken),
         NEW known, known \subseteq Entities \X Geometries
  PROVE  /\ FoldLeft(See, known, result.events) \subseteq Entities \X Geometries
         /\ \A e \in Entities, g \in Geometries :
              Untied(batch, e) /\ NoneLost(batch, broken, e) /\ Aware(known, eng.entities, e, g)
                => Aware(FoldLeft(See, known, result.events), result.engine.entities, e, g)
<1>1. PICK order, updates, run : BehindBatch(eng, N, batch, broken, order, updates, run)
  BY BatchRun
<1> DEFINE calls == run[N].calls
           events == SortEvents(calls)
           M == Cardinality(Emitted(calls))
<1>2. /\ order \in [1 .. N -> 1 .. N]
      /\ updates = [n \in 1 .. N |-> batch[order[n]]]
      /\ updates \in [1 .. N -> Updates] /\ IsRun(run, N, eng, updates, broken)
      /\ result = [engine |-> run[N].engine, events |-> events, errors |-> run[N].errors]
      /\ updates = SortUpdates(batch)
  BY <1>1 DEF BehindBatch
<1>3. ASSUME NEW e \in Entities, Untied(batch, e)
      PROVE  StrictlySorted(updates, N, e)
  <2>1. ASSUME NEW i \in 1 .. N, NEW j \in 1 .. N, i < j, updates[i].id = e, updates[j].id = e
        PROVE  updates[i].t_ms < updates[j].t_ms
    <3>1. /\ order[i] # order[j]
          /\ \/ updates[i].id < updates[j].id
             \/ updates[i].id = updates[j].id /\ updates[i].t_ms <= updates[j].t_ms
      BY <1>1, <2>1, BatchSorted
    <3>2. /\ updates[i] = batch[order[i]] /\ updates[j] = batch[order[j]]
          /\ updates[i] \in Updates /\ updates[j] \in Updates
          /\ order[i] \in DOMAIN batch /\ order[j] \in DOMAIN batch
      BY <1>2
    <3>3. updates[i].t_ms # updates[j].t_ms
      BY <1>3, <2>1, <3>1, <3>2 DEF Untied
    <3>4. updates[i].t_ms \in Nat /\ updates[j].t_ms \in Nat /\ e \in Int
      BY <2>1, <3>2, UpdateType
    <3>5. QED
      BY <2>1, <3>1, <3>3, <3>4
  <2>2. QED
    BY <2>1 DEF StrictlySorted
<1>4. AreCalls(calls, N, updates)
  BY <1>2, RunCalls
<1>5. PICK sorted : IsOutput(sorted, calls, events)
  BY <1>4, SortEventsIsSort
<1> HIDE DEF events
<1>6. /\ M \in Nat /\ DOMAIN events = 1 .. M
      /\ \A n \in 1 .. M : sorted[n] \in Emitted(calls) /\ events[n] = sorted[n].event
  <2>1. M \in Nat /\ events = [n \in 1 .. M |-> sorted[n].event]
        /\ InOrder(sorted, Emitted(calls), EventOrder(Emitted(calls)))
    BY <1>5, Zenon DEF IsOutput
  <2>2. QED
    BY <2>1 DEF InOrder
<1> DEFINE P == Entities \X Geometries
<1>7. ASSUME NEW n \in 1 .. M, events[n].kind \in SpatialKinds
      PROVE  Subject(events[n]) \in P
  <2>1. sorted[n].call \in 1 .. N /\ events[n] \in calls[sorted[n].call]
    BY <1>4, <1>6, EmittedIs
  <2>2. QED
    BY <1>4, <1>7, <2>1 DEF AreCalls, CallEvents
<1>8. known \subseteq P
  OBVIOUS
<1>9. \A n \in 1 .. M : events[n].kind \in {"enter", "approach"} => Subject(events[n]) \in P
  BY <1>7 DEF SpatialKinds
<1> HIDE DEF P, M, calls
<1>10. PICK seen : Folds(seen, M, known, events)
  BY <1>6, <1>8, <1>9, SeeRun
<1>11. seen[M] \subseteq P
  <2> DEFINE S == {n \in 0 .. M : seen[n] \subseteq P}
  <2>1. 0 \in S
    BY <1>6, <1>8, <1>10 DEF Folds
  <2>2. ASSUME NEW n \in 1 .. M, n - 1 \in S
        PROVE  n \in S
    <3>1. seen[n] = See(seen[n - 1], events[n]) /\ seen[n - 1] \subseteq P
      BY <1>10, <2>2 DEF Folds, Sees
    <3>2. events[n].kind \in {"enter", "approach"} => Subject(events[n]) \in P
      BY <1>9
    <3>3. seen[n] \subseteq P
      BY <3>1, <3>2 DEF See
    <3>4. QED
      BY <1>6, <3>3
  <2>3. 0 \in S /\ \A n \in 1 .. M : n - 1 \in S => n \in S
    BY <2>1, <2>2
  <2> HIDE DEF S
  <2>4. \A n \in 0 .. M : n \in S
    BY <1>6, <2>3, UpTo
  <2>5. M \in S
    BY <1>6, <2>4
  <2>6. QED
    BY <2>5 DEF S
<1>12. Sees(seen, M, events)
  BY <1>10 DEF Folds
<1>13. ASSUME NEW e \in Entities, NEW g \in Geometries,
              Untied(batch, e), NoneLost(batch, broken, e), Aware(known, eng.entities, e, g)
       PROVE  Aware(seen[M], run[N].engine.entities, e, g)
  <2>1. Agree(seen[0], run, 0, e, g)
    <3>1. run[0].engine = eng
      BY <1>2 DEF IsRun, Begun
    <3>2. QED
      BY <1>10, <1>13, <3>1 DEF Aware, InsideAfter, Agree, Folds
  <2>2. M = Cardinality(Emitted(run[N].calls)) /\ IsOutput(sorted, run[N].calls, events)
    BY <1>5 DEF M, calls
  <2>3. StrictlySorted(updates, N, e)
    BY <1>3, <1>13
  <2>4. NotLost(N, updates, broken, e)
    BY <1>2, <1>13 DEF NotLost, NoneLost
  <2>5. Agree(seen[M], run, N, e, g)
    BY <1>2, <1>12, <2>1, <2>2, <2>3, <2>4, SeenIsInside
  <2>6. QED
    BY <2>5 DEF InsideAfter, Agree, Aware
<1>14. seen[M] = FoldLeft(See, known, events)
  BY <1>10 DEF Folds
<1>15. result.events = events /\ result.engine = run[N].engine
  BY <1>2
<1>16. FoldLeft(See, known, result.events) = seen[M]
  BY <1>14, <1>15, Zenon
<1>17. QED
  BY <1>11, <1>13, <1>15, <1>16, Zenon DEF P

\* Folding the output of a batch without ties gives the membership that is stored.
LEMMA BatchFolds ==
  ASSUME NumberedIds, NEW eng \in EngineStates(AnyRules, AnySequences), WellFormed(eng.entities),
         NEW N \in Nat, NEW batch \in [1 .. N -> Updates], NoTies(batch),
         NEW result, result = ProcessBatch(eng, batch, <<>>)
  PROVE  FoldLeft(See, Inside(eng.entities), result.events) = Inside(result.engine.entities)
<1> DEFINE known == Inside(eng.entities)
           seen == FoldLeft(See, known, result.events)
<1>1. known \subseteq Entities \X Geometries
  BY DEF Inside
<1>2. ASSUME NEW e \in Entities
      PROVE  Untied(batch, e) /\ NoneLost(batch, <<>>, e)
  BY NoFault, EngineAssumption DEF NoTies, Untied, NoneLost, StoreFaults
<1>3. \A e \in Entities, g \in Geometries : Aware(known, eng.entities, e, g)
  BY DEF Aware, Inside
<1> HIDE DEF known
<1>4. /\ seen \subseteq Entities \X Geometries
      /\ \A e \in Entities, g \in Geometries :
           Untied(batch, e) /\ NoneLost(batch, <<>>, e) /\ Aware(known, eng.entities, e, g)
             => Aware(seen, result.engine.entities, e, g)
  BY <1>1, BatchKnows
<1> HIDE DEF seen
<1>5. ASSUME NEW e \in Entities, NEW g \in Geometries
      PROVE  Aware(seen, result.engine.entities, e, g)
  BY <1>2, <1>3, <1>4
<1>6. seen = Inside(result.engine.entities)
  BY <1>4, <1>5 DEF Aware, Inside
<1>7. QED
  BY <1>6 DEF seen, known

-----------------------------------------------------------------------------
\* A fold over a sequence of N, from its function.
Ran(run, N, A, base, F, fold) ==
  /\ fold[1 .. N] = run[N]
  /\ run \in [0 .. N -> A]
  /\ run[0] = base
  /\ \A n \in 1 .. N : run[n] = F[<<run[n - 1], n>>]

\* A function that is defined as the folds are (Folds), as far as its values are in A.
Unfolds(fold, N, A, base, F) ==
  /\ fold[{}] = base
  /\ \A t \in SUBSET (1 .. N) :
       t # {} /\ fold[t \ {Max(t)}] \in A => fold[t] = F[<<fold[t \ {Max(t)}], Max(t)>>]

\* It goes through the places of the sequence one by one.
LEMMA FoldRun ==
  ASSUME NEW N \in Nat, NEW A, NEW base \in A, NEW F \in [A \X (1 .. N) -> A], NEW fold,
         Unfolds(fold, N, A, base, F)
  PROVE  \E run : Ran(run, N, A, base, F, fold)
<1> DEFINE S == {n \in 0 .. N : fold[1 .. n] \in A}
           run == [n \in 0 .. N |-> fold[1 .. n]]
<1>1. /\ fold[1 .. 0] = base
      /\ \A n \in 1 .. N : /\ 1 .. n \in SUBSET (1 .. N) /\ 1 .. n # {}
                          /\ Max(1 .. n) = n /\ (1 .. n) \ {Max(1 .. n)} = 1 .. n - 1
  BY FoldedRuns DEF Unfolds
<1>2. 0 \in S
  BY <1>1
<1>3. ASSUME NEW n \in 1 .. N, fold[1 .. n - 1] \in A
      PROVE  fold[1 .. n] = F[<<fold[1 .. n - 1], n>>] /\ fold[1 .. n] \in A
  <2>1. /\ 1 .. n \in SUBSET (1 .. N) /\ 1 .. n # {}
        /\ Max(1 .. n) = n /\ (1 .. n) \ {Max(1 .. n)} = 1 .. n - 1
    BY <1>1
  <2>2. fold[1 .. n] = F[<<fold[(1 .. n) \ {Max(1 .. n)}], Max(1 .. n)>>]
    BY <1>3, <2>1 DEF Unfolds
  <2>3. QED
    BY <1>3, <2>1, <2>2
<1>4. ASSUME NEW n \in 1 .. N, n - 1 \in S
      PROVE  n \in S
  <2>1. fold[1 .. n - 1] \in A /\ n \in 0 .. N
    BY <1>4
  <2>2. fold[1 .. n] \in A
    BY <1>3, <2>1
  <2>3. QED
    BY <2>1, <2>2
<1> HIDE DEF S
<1>5. \A n \in 0 .. N : n \in S
  BY <1>2, <1>4, UpTo
<1>6. \A n \in 0 .. N : run[n] = fold[1 .. n] /\ fold[1 .. n] \in A
  BY <1>5 DEF S
<1>7. \A n \in 1 .. N : n \in 0 .. N /\ n - 1 \in 0 .. N
  OBVIOUS
<1>8. 0 \in 0 .. N /\ N \in 0 .. N
  OBVIOUS
<1>9. run \in [0 .. N -> A]
  BY <1>6
<1> HIDE DEF run
<1>10. Ran(run, N, A, base, F, fold)
  BY <1>1, <1>3, <1>6, <1>7, <1>8, <1>9 DEF Ran
<1>11. QED
  BY <1>10

-----------------------------------------------------------------------------
\* What a batch leaves alone, round after round.
SameSetup(eng, new) ==
  /\ new.area = eng.area /\ new.dwell = eng.dwell
  /\ new.configurable_rules = eng.configurable_rules

\* The calls of a batch leave geometries, thresholds and rules alone.
LEMMA RunKeepsSetup ==
  ASSUME NumberedIds, NEW eng \in EngineStates(AnyRules, AnySequences), WellFormed(eng.entities),
         NEW N \in Nat, NEW updates \in [1 .. N -> Updates], NEW broken,
         NEW run, IsRun(run, N, eng, updates, broken), NEW m \in 0 .. N
  PROVE  SameSetup(eng, run[m].engine)
<1> DEFINE S == {n \in 0 .. N : SameSetup(eng, run[n].engine)}
<1>1. 0 \in S
  BY DEF IsRun, Begun, SameSetup
<1>2. ASSUME NEW n \in 1 .. N, n - 1 \in S
      PROVE  n \in S
  <2>1. /\ Outcome(run[n - 1].engine, updates[n], FaultOf(broken, n), RoundResult(run, updates, broken, n))
        /\ run[n].engine = RoundResult(run, updates, broken, n).engine
    BY RunStep
  <2>2. SameSetup(eng, run[n].engine)
    BY <1>2, <2>1 DEF Outcome, SameSetup
  <2>3. QED
    BY <2>2
<1> HIDE DEF S
<1>3. m \in S
  BY <1>1, <1>2, UpTo
<1>4. QED
  BY <1>3 DEF S

\* The events of a batch are a list.
LEMMA BatchEvents ==
  ASSUME NumberedIds, NEW eng \in EngineStates(AnyRules, AnySequences), WellFormed(eng.entities),
         NEW N \in Nat, NEW batch \in [1 .. N -> Updates], NEW broken
  PROVE  \E M \in Nat : DOMAIN ProcessBatch(eng, batch, broken).events = 1 .. M
<1>1. PICK order, updates, run : BehindBatch(eng, N, batch, broken, order, updates, run)
  BY BatchRun
<1>2. /\ updates \in [1 .. N -> Updates] /\ IsRun(run, N, eng, updates, broken)
      /\ ProcessBatch(eng, batch, broken).events = SortEvents(run[N].calls)
  BY <1>1 DEF BehindBatch
<1>3. AreCalls(run[N].calls, N, updates)
  BY <1>2, RunCalls
<1>4. PICK sorted : IsOutput(sorted, run[N].calls, SortEvents(run[N].calls))
  BY <1>3, SortEventsIsSort
<1>5. QED
  BY <1>2, <1>4 DEF IsOutput

-----------------------------------------------------------------------------
\* Without a threshold, where an entity is decides, and nothing waits.
LEMMA NoDwellStep ==
  ASSUME NEW m \in Presences, NEW phys \in BOOLEAN, NEW at
  PROVE  DwellStep(m, phys, at, NoDwell) = [inside |-> phys, enter_pending |-> None, exit_pending |-> None]
BY DEF DwellStep, Waited, MinDwell, NoDwell, Presences

\* An update that is older than what its entity has.
Late(eng, u) ==
  LET last == eng.entities[u.id].last_t_ms
  IN  last # None /\ last > u.t_ms

\* No round has moved the entity: all its updates are late.
Unmoved(eng, st, e, n, updates) ==
  /\ st = eng.entities[e]
  /\ \A k \in 1 .. n : updates[k].id = e => Late(eng, updates[k])

\* The presence of an entity at x where there is no threshold.
PresenceAt(eng, g, x) == [inside |-> Covers(eng, g, x), enter_pending |-> None, exit_pending |-> None]

\* It is where an update put it, which is not late, and in the geometries there.
PutBy(eng, st, e, u) ==
  /\ u.id = e /\ ~Late(eng, u)
  /\ st.position = u.x /\ st.last_t_ms = u.t_ms
  /\ \A g \in Geometries : eng.dwell[g] = NoDwell => st.presence[g] = PresenceAt(eng, g, u.x)

\* That is so, and it was the entity's last round.
LastPut(eng, st, e, n, updates) ==
  \E k \in 1 .. n :
    /\ PutBy(eng, st, e, updates[k])
    /\ \A j \in 1 .. n : updates[j].id = e => j <= k

\* The entity e after round n.
Has(run, n, e) == run[n].engine.entities[e]

\* What one update does to its entity.
LEMMA PutByUpdate ==
  ASSUME NEW eng \in EngineStates(AnyRules, AnySequences), NEW old \in EngineStates(AnyRules, AnySequences),
         SameSetup(eng, old), NEW u \in Updates, ~Late(eng, u), NEW st, st = After(old, u)
  PROVE  PutBy(eng, st, u.id, u)
<1>1. u.id \in Entities /\ u.x \in Points
  BY DEF Updates
<1>2. st.position = u.x /\ st.last_t_ms = u.t_ms
  BY DEF After, Advance
<1>3. ASSUME NEW g \in Geometries, eng.dwell[g] = NoDwell
      PROVE  st.presence[g] = PresenceAt(eng, g, u.x)
  <2>1. st.presence[g] = DwellStep(old.entities[u.id].presence[g], Covers(old, g, u.x), u.t_ms, old.dwell[g])
    BY DEF After, Advance
  <2>2. old.dwell[g] = NoDwell /\ Covers(old, g, u.x) = Covers(eng, g, u.x)
    BY <1>3 DEF SameSetup, Covers
  <2>3. old.entities[u.id].presence[g] \in Presences
    BY <1>1 DEF EngineStates, EntityStates
  <2>4. Covers(eng, g, u.x) \in BOOLEAN
    BY CoversType
  <2>5. QED
    BY <2>1, <2>2, <2>3, <2>4, NoDwellStep DEF PresenceAt
<1>4. QED
  BY <1>2, <1>3 DEF PutBy

\* After every round an entity is where it was before the batch, or where the latest of
\* its updates put it.
LEMMA Settles ==
  ASSUME NumberedIds, NEW eng \in EngineStates(AnyRules, AnySequences), WellFormed(eng.entities),
         NEW N \in Nat, NEW updates \in [1 .. N -> Updates],
         \A i, j \in 1 .. N : i < j /\ updates[i].id = updates[j].id => updates[i].t_ms <= updates[j].t_ms,
         NEW run, IsRun(run, N, eng, updates, <<>>), NEW e \in Entities
  PROVE  Unmoved(eng, Has(run, N, e), e, N, updates) \/ LastPut(eng, Has(run, N, e), e, N, updates)
<1> DEFINE Good(n) == Unmoved(eng, Has(run, n, e), e, n, updates) \/ LastPut(eng, Has(run, n, e), e, n, updates)
           S == {n \in 0 .. N : Good(n)}
<1>1. 0 \in S
  <2>1. Has(run, 0, e) = eng.entities[e]
    BY DEF IsRun, Begun, Has
  <2>2. QED
    BY <2>1 DEF Unmoved
<1>2. ASSUME NEW n \in 1 .. N, n - 1 \in S
      PROVE  n \in S
  <2> DEFINE u == updates[n]
             old == run[n - 1].engine
             r == RoundResult(run, updates, <<>>, n)
             st == Has(run, n - 1, e)
             new == Has(run, n, e)
  <2>1. /\ old \in EngineStates(AnyRules, AnySequences) /\ Outcome(old, u, FaultOf(<<>>, n), r)
        /\ run[n].engine = r.engine
    <3>1. PICK broken : broken = <<>>
      OBVIOUS
    <3>2. IsRun(run, N, eng, updates, broken)
      BY <3>1
    <3>3. /\ old \in EngineStates(AnyRules, AnySequences)
          /\ Outcome(old, u, FaultOf(broken, n), RoundResult(run, updates, broken, n))
          /\ run[n].engine = RoundResult(run, updates, broken, n).engine
      BY <3>2, RunStep
    <3>4. QED
      BY <3>1, <3>3
  <2>2. SameSetup(eng, old)
    <3>1. n - 1 \in 0 .. N
      OBVIOUS
    <3>2. QED
      BY <3>1, RunKeepsSetup
  <2>3. u \in Updates /\ u.id \in Entities /\ u.t_ms \in Nat
    BY UpdateType
  <2>4. Good(n - 1) /\ n \in 0 .. N
    BY <1>2
  <2>5. FaultOf(<<>>, n) = None /\ None \notin StoreFaults
    BY EngineAssumption, NoFault
  <2>6. r.engine.entities =
          IF Accepts(old.entities[u.id], u) THEN [old.entities EXCEPT ![u.id] = After(old, u)] ELSE old.entities
    BY <2>1, <2>5 DEF Outcome, Stores, StoreFaults
  <2>7. old.entities \in [Entities -> EntityStates]
    BY <2>1 DEF EngineStates
  <2> HIDE DEF u, r
  <2>8. CASE u.id # e
    <3>1. new = st
      BY <2>1, <2>3, <2>6, <2>7, <2>8 DEF Has
    <3>2. 1 .. n = (1 .. n - 1) \union {n} /\ \A k \in 1 .. n - 1 : k \in 1 .. n
      OBVIOUS
    <3>3. CASE Unmoved(eng, st, e, n - 1, updates)
      BY <2>4, <2>8, <3>1, <3>2, <3>3 DEF Unmoved, u
    <3>4. CASE LastPut(eng, st, e, n - 1, updates)
      BY <2>4, <2>8, <3>1, <3>2, <3>4 DEF LastPut, u
    <3>5. QED
      BY <2>4, <3>3, <3>4
  <2>9. CASE u.id = e /\ Accepts(st, u) /\ ~Late(eng, u)
    <3>1. new = After(old, u)
      BY <2>1, <2>3, <2>6, <2>7, <2>9 DEF Has
    <3>2. PutBy(eng, new, e, u)
      BY <2>1, <2>2, <2>3, <2>9, <3>1, PutByUpdate
    <3>3. n \in 1 .. n /\ \A j \in 1 .. n : j <= n
      OBVIOUS
    <3>4. LastPut(eng, new, e, n, updates)
      BY <3>2, <3>3 DEF LastPut, u
    <3>5. QED
      BY <2>4, <3>4
  <2>10. CASE u.id = e /\ Unmoved(eng, st, e, n - 1, updates) /\ Late(eng, u)
    <3>1. ~Accepts(st, u)
      <4>1. st.last_t_ms # None /\ st.last_t_ms > u.t_ms /\ st.last_t_ms \in Nat
        <5>1. st.last_t_ms \in Nat \union {None}
          BY <2>7, TimesAssumption DEF Has, EntityStates
        <5>2. st.last_t_ms # None /\ st.last_t_ms > u.t_ms
          BY <2>10 DEF Unmoved, Late
        <5>3. QED
          BY <5>1, <5>2
      <4>2. QED
        BY <2>3, <4>1 DEF Accepts
    <3>2. new = st
      BY <2>1, <2>6, <2>10, <3>1 DEF Has
    <3>3. 1 .. n = (1 .. n - 1) \union {n}
      OBVIOUS
    <3>4. Unmoved(eng, new, e, n, updates)
      BY <2>10, <3>2, <3>3 DEF Unmoved, u
    <3>5. QED
      BY <2>4, <3>4
  <2>11. ASSUME u.id = e, Unmoved(eng, st, e, n - 1, updates), ~Late(eng, u)
         PROVE  Accepts(st, u)
    <3>1. st.last_t_ms = eng.entities[e].last_t_ms
      BY <2>11 DEF Unmoved
    <3>2. st.last_t_ms \in Nat \union {None}
      BY <2>7, TimesAssumption DEF Has, EntityStates
    <3>3. st.last_t_ms # None => ~(st.last_t_ms > u.t_ms)
      BY <2>11, <3>1 DEF Late
    <3>4. QED
      BY <2>3, <3>2, <3>3 DEF Accepts
  <2>12. ASSUME u.id = e, LastPut(eng, st, e, n - 1, updates)
         PROVE  Accepts(st, u) /\ ~Late(eng, u)
    <3>1. PICK k \in 1 .. n - 1 : PutBy(eng, st, e, updates[k])
      BY <2>12 DEF LastPut
    <3>2. k \in 1 .. N /\ k < n
      OBVIOUS
    <3>3. updates[k] \in Updates /\ updates[k].t_ms \in Nat
      BY <3>2, UpdateType
    <3>4. /\ updates[k].id = e /\ ~Late(eng, updates[k]) /\ st.last_t_ms = updates[k].t_ms
      BY <3>1 DEF PutBy
    <3>5. updates[k].t_ms <= u.t_ms
      BY <2>12, <3>2, <3>4 DEF u
    <3>6. Accepts(st, u)
      BY <2>3, <3>3, <3>4, <3>5 DEF Accepts
    <3>7. eng.entities[e].last_t_ms \in Nat \union {None}
      BY TimesAssumption DEF EngineStates, EntityStates
    <3>8. ~Late(eng, u)
      BY <2>3, <2>12, <3>3, <3>4, <3>5, <3>7 DEF Late
    <3>9. QED
      BY <3>6, <3>8
  <2>13. QED
    BY <2>4, <2>8, <2>9, <2>10, <2>11, <2>12
<1> HIDE DEF S
<1>3. \A n \in 0 .. N : n \in S
  BY <1>1, <1>2, UpTo
<1>4. N \in S
  BY <1>3
<1>5. QED
  BY <1>4 DEF S

\* The same for a batch as it arrives: of the updates of an entity, the one counts that
\* comes last by time and, at one time, by its place.
LastOf(batch, N, i) ==
  \A j \in 1 .. N : j # i /\ batch[j].id = batch[i].id => Precedes(batch, j, i)

\* The state is what a last accepted update of the batch put.
BatchPut(eng, st, e, N, batch) ==
  \E i \in 1 .. N : PutBy(eng, st, e, batch[i]) /\ LastOf(batch, N, i)

\* The same for a batch, whose updates are sorted first.
LEMMA BatchSettles ==
  ASSUME NumberedIds, NEW eng \in EngineStates(AnyRules, AnySequences), WellFormed(eng.entities),
         NEW N \in Nat, NEW batch \in [1 .. N -> Updates], NEW e \in Entities,
         NEW new, new = ProcessBatch(eng, batch, <<>>).engine
  PROVE  \/ Unmoved(eng, new.entities[e], e, N, batch)
         \/ BatchPut(eng, new.entities[e], e, N, batch)
<1>1. PICK order, updates, run : BehindBatch(eng, N, batch, <<>>, order, updates, run)
  BY BatchRun
<1>2. /\ order \in [1 .. N -> 1 .. N]
      /\ InOrder(order, 1 .. N, BatchOrder(batch))
      /\ \A n \in 1 .. N : updates[n] = batch[order[n]] /\ order[n] \in 1 .. N
      /\ updates \in [1 .. N -> Updates] /\ IsRun(run, N, eng, updates, <<>>)
      /\ new = run[N].engine
  BY <1>1 DEF BehindBatch
<1>3. AllHaveRounds(N, batch, order, updates)
  BY <1>1, BatchSorted
<1>4. ASSUME NEW i \in 1 .. N, NEW j \in 1 .. N, i < j, updates[i].id = updates[j].id
      PROVE  updates[i].t_ms <= updates[j].t_ms
  <2>1. updates[i].id \in Int /\ updates[j].id \in Int
    BY <1>2, UpdateType
  <2>2. \/ updates[i].id < updates[j].id
        \/ updates[i].id = updates[j].id /\ updates[i].t_ms <= updates[j].t_ms
    BY <1>1, <1>4, BatchSorted
  <2>3. QED
    BY <1>4, <2>1, <2>2
<1>5. new.entities[e] = Has(run, N, e)
  BY <1>2 DEF Has
<1>6. Unmoved(eng, Has(run, N, e), e, N, updates) \/ LastPut(eng, Has(run, N, e), e, N, updates)
  BY <1>2, <1>4, Settles
<1>7. CASE Unmoved(eng, Has(run, N, e), e, N, updates)
  <2>1. ASSUME NEW i \in 1 .. N, batch[i].id = e
        PROVE  Late(eng, batch[i])
    <3>1. PICK n \in 1 .. N : order[n] = i /\ updates[n] = batch[i]
      BY <1>3 DEF AllHaveRounds
    <3>2. QED
      BY <1>7, <2>1, <3>1 DEF Unmoved
  <2>2. QED
    BY <1>5, <1>7, <2>1 DEF Unmoved
<1>8. CASE LastPut(eng, Has(run, N, e), e, N, updates)
  <2>1. PICK k \in 1 .. N :
          /\ PutBy(eng, Has(run, N, e), e, updates[k])
          /\ \A j \in 1 .. N : updates[j].id = e => j <= k
    BY <1>8 DEF LastPut
  <2> DEFINE i == order[k]
  <2>2. i \in 1 .. N /\ updates[k] = batch[i] /\ batch[i].id = e
    BY <1>2, <2>1 DEF PutBy
  <2>3. ASSUME NEW j \in 1 .. N, j # i, batch[j].id = batch[i].id
        PROVE  Precedes(batch, j, i)
    <3>1. PICK m \in 1 .. N : order[m] = j /\ updates[m] = batch[j]
      BY <1>3 DEF AllHaveRounds
    <3>2. m < k
      <4>1. m <= k /\ m # k
        BY <2>1, <2>2, <2>3, <3>1
      <4>2. QED
        BY <4>1
    <3>3. Cardinality(1 .. N) = N
      BY FS_Interval
    <3>4. <<order[m], order[k]>> \in BatchOrder(batch)
      BY <1>2, <3>2, <3>3 DEF InOrder
    <3>5. QED
      BY <1>2, <3>1, <3>4, BatchOrderIsOrder
  <2> HIDE DEF i
  <2>4. BatchPut(eng, new.entities[e], e, N, batch)
    BY <1>5, <2>1, <2>2, <2>3 DEF BatchPut, LastOf
  <2>5. QED
    BY <2>4
<1>9. QED
  BY <1>6, <1>7, <1>8
=============================================================================
