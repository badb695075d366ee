----------------------------- MODULE KafkaProofs -----------------------------
(***************************************************************************)
(* KafkaAdapter for every number of messages, entities and geometries,     *)
(* with any thresholds, however often sends are rejected, the consumer     *)
(* goes back and the process ends: what the output topic tells, and what   *)
(* a message does that the engine has taken before.                        *)
(***************************************************************************)
EXTENDS KafkaAdapter, EngineOpsProofs

\* A process that runs has a place to go back to.
TypeInv ==
  /\ engine \in EngineStates({}, {})
  /\ WellFormed(engine.entities)
  /\ topic \in Seq(Messages)
  /\ offset \in Nat
  /\ committed \in Nat \union {None}
  /\ since \in Nat \union {None}
  /\ up => committed # None \/ since # None
  /\ sending # {} => up

\* What is being sent is about one entity, and true.
SendingInv == \E e : Tells(sending, e, engine.entities)

-----------------------------------------------------------------------------
\* The engine is handed the update u, and the store fails that call so, if at all.
Took(u, fault) ==
  /\ u \in Updates /\ u = topic[offset + 1] /\ offset + 1 \in DOMAIN topic
  /\ engine' = ProcessEvent(engine, u, fault).engine
  /\ sending' = ProcessEvent(engine, u, fault).events
  /\ doubt' = doubt \union Untold(engine, u, fault)
  /\ ingested' = IF Stores(engine, u, fault) \/ ProcessEvent(engine, u, fault).error = "monotonicity"
                   THEN ingested \union {offset + 1}
                   ELSE ingested
  /\ Outcome(engine, u, fault, ProcessEvent(engine, u, fault))
  /\ engine' \in EngineStates({}, {})
  /\ WellFormed(engine'.entities)

\* An update is neither garbage nor misshapen; the engine that takes it reports
\* what it changes, and keeps its geometries.
LEMMA EachMessageOutcome ==
  ASSUME TypeInv, EachMessage, topic[offset + 1] # Garbage
  PROVE  \E u, fault : Took(u, fault)
<1> DEFINE u == topic[offset + 1]
<1>1. offset + 1 \in 1 .. Len(topic) /\ u # Misshapen /\ u # Garbage
  BY DEF EachMessage, Deliverable, TypeInv
<1>2. u \in Messages /\ offset + 1 \in DOMAIN topic
  BY <1>1, SeqElements DEF TypeInv
<1>3. u \in Updates
  BY <1>1, <1>2, KafkaAssumption
<1>4. PICK fault : Ingest(u, fault)
  BY DEF EachMessage
<1>5. engine \in EngineStates({}, {}) /\ WellFormed(engine.entities)
  BY DEF TypeInv
<1>6. /\ engine' = ProcessEvent(engine, u, fault).engine
      /\ sending' = ProcessEvent(engine, u, fault).events
      /\ doubt' = doubt \union Untold(engine, u, fault)
      /\ ingested' = IF Stores(engine, u, fault) \/ ProcessEvent(engine, u, fault).error = "monotonicity"
                       THEN ingested \union {offset + 1}
                       ELSE ingested
  BY <1>4, Zenon DEF Ingest
<1>7. u = topic[offset + 1]
  OBVIOUS
<1> HIDE DEF u
<1>8. Outcome(engine, u, fault, ProcessEvent(engine, u, fault))
  BY <1>3, <1>5, ProcessEventOutcome
<1>9. /\ ProcessEvent(engine, u, fault).engine \in EngineStates({}, {})
      /\ WellFormed(ProcessEvent(engine, u, fault).engine.entities)
  BY <1>3, <1>5, ProcessEventType
<1>10. Took(u, fault)
  BY <1>2, <1>3, <1>6, <1>7, <1>8, <1>9 DEF Took
<1>11. QED
  BY <1>10

LEMMA PreparedType ==
  /\ Prepared \in EngineStates({}, {})
  /\ Prepared.entities = NewEngine.entities
  /\ WellFormed(Prepared.entities)
  /\ Inside(Prepared.entities) = {}
<1> DEFINE area == [g \in Geometries |-> Registered[g].area]
           dwell == [g \in Geometries |-> Registered[g].dwell]
<1>1. area \in [Geometries -> Areas \union {None}] /\ dwell \in [Geometries -> Dwells]
  BY KafkaAssumption
<1>2. NewEngine \in EngineStates({}, {}) /\ WellFormed(NewEngine.entities) /\ Inside(NewEngine.entities) = {}
  BY NewEngineType
<1>3. Prepared = [NewEngine EXCEPT !.area = area, !.dwell = dwell]
  BY DEF Prepared
<1> HIDE DEF area, dwell
<1>4. Prepared = [area |-> area, dwell |-> dwell, entities |-> NewEngine.entities,
                  configurable_rules |-> NewEngine.configurable_rules,
                  sequence_rules |-> NewEngine.sequence_rules]
  BY <1>2, <1>3 DEF EngineStates
<1>5. Prepared \in EngineStates({}, {}) /\ Prepared.entities = NewEngine.entities
  BY <1>1, <1>2, <1>4 DEF EngineStates
<1>6. QED
  BY <1>2, <1>5

-----------------------------------------------------------------------------
LEMMA InitType == Init => TypeInv
BY PreparedType DEF Init, TypeInv

LEMMA EachMessageType == ASSUME TypeInv, EachMessage PROVE TypeInv'
<1>1. /\ offset' \in Nat /\ up
      /\ UNCHANGED <<topic, committed, since, up>>
  <2>1. offset \in Nat /\ up /\ UNCHANGED <<topic, committed, since, up>>
    BY DEF EachMessage, Deliverable, TypeInv
  <2>2. ASSUME NEW u, NEW fault, Ingest(u, fault)
        PROVE  offset' = offset + 1 \/ offset' = offset
    BY <2>2 DEF Ingest
  <2>3. offset' = offset + 1 \/ offset' = offset
    BY <2>2 DEF EachMessage
  <2>4. QED
    BY <2>1, <2>3
<1>2. engine' \in EngineStates({}, {}) /\ WellFormed(engine'.entities)
  BY EachMessageOutcome DEF EachMessage, TypeInv, Took
<1>3. QED
  BY <1>1, <1>2 DEF TypeInv

LEMMA RejectedType == ASSUME TypeInv, SendRejected PROVE TypeInv'
<1>1. committed \in Nat \/ (committed = None /\ since \in Nat)
  BY DEF SendRejected, TypeInv
<1>2. offset' \in Nat
  BY <1>1, TimesAssumption DEF SendRejected, Resumable, TypeInv
<1>3. QED
  BY <1>2 DEF SendRejected, TypeInv

LEMMA EndType == ASSUME TypeInv, End PROVE TypeInv'
BY PreparedType DEF End, TypeInv

LEMMA TypeStep == TypeInv /\ [Next]_vars => TypeInv'
<1>1. ASSUME TypeInv, NEW message \in Messages, Write(message) PROVE TypeInv'
  BY <1>1 DEF Write, TypeInv
<1>2. ASSUME TypeInv, Start PROVE TypeInv'
  BY <1>2, TimesAssumption DEF Start, TypeInv
<1>3. ASSUME TypeInv, Sent \/ Commit PROVE TypeInv'
  BY <1>3, TimesAssumption DEF Sent, Commit, TypeInv
<1>4. TypeInv /\ UNCHANGED vars => TypeInv'
  BY DEF TypeInv, vars
<1>5. QED
  BY <1>1, <1>2, <1>3, <1>4, EachMessageType, RejectedType, EndType DEF Next

\* The adapter and its engine keep their types, and a running process has an
\* offset to go back to.
THEOREM TypeInvariance == Spec => []TypeInv
BY InitType, TypeStep, PTL DEF Spec

-----------------------------------------------------------------------------
LEMMA TellsNothing == \A e, entities : Tells({}, e, entities)
BY DEF Tells, About

\* What part of the events tells is as true as all of them.
LEMMA PartTells ==
  ASSUME NEW events, NEW through \in SUBSET events, NEW e, NEW entities, Tells(events, e, entities)
  PROVE  Tells(through, e, entities) /\ About(through, SpatialKinds) \subseteq About(events, SpatialKinds)
<1>1. \A kinds : About(through, kinds) \subseteq About(events, kinds)
  BY DEF About
<1>2. QED
  BY <1>1 DEF Tells

\* A message makes differences only of what its events are about, or of what the
\* store hides.
LEMMA EachMessageTells ==
  ASSUME TypeInv, EachMessage
  PROVE  /\ SendingInv'
         /\ Differences(Inside(engine.entities), engine'.entities) \subseteq OnTheWay' \union doubt'
         /\ doubt \subseteq doubt'
<1>1. CASE topic[offset + 1] = Garbage
  <2>1. UNCHANGED <<engine, sending, doubt>> /\ sending = {}
    BY <1>1 DEF EachMessage, Deliverable
  <2>2. QED
    BY <2>1, TellsNothing DEF SendingInv, Differences
<1>2. CASE topic[offset + 1] # Garbage
  <2>1. PICK u, fault : Took(u, fault)
    BY <1>2, EachMessageOutcome
  <2> DEFINE r == ProcessEvent(engine, u, fault)
             new == After(engine, u)
  <2>2. /\ u \in Updates /\ engine' = r.engine /\ sending' = r.events
        /\ Outcome(engine, u, fault, r) /\ engine' \in EngineStates({}, {})
        /\ doubt' = doubt \union Untold(engine, u, fault)
    BY <2>1 DEF Took
  <2>3. /\ engine.entities \in [Entities -> EntityStates] /\ u.id \in Entities
        /\ engine'.entities \in [Entities -> EntityStates]
    BY <2>2 DEF TypeInv, EngineStates, Updates
  <2> HIDE DEF r, new
  <2>4. CASE r.error = None
    <3>1. engine'.entities = [engine.entities EXCEPT ![u.id] = new]
      BY <2>2, <2>4 DEF Outcome, new, Stores, StoreFaults
    <3>2. Reports(r.events, engine.entities[u.id], new, u)
      <4>1. IF r.error = None THEN Reports(r.events, engine.entities[u.id], After(engine, u), u) ELSE r.events = {}
        BY <2>2, ProcessEventReports
      <4>2. QED
        BY <2>4, <4>1 DEF new
    <3>3. new \in EntityStates
      BY <2>3, <3>1
    <3>4. /\ Tells(r.events, u.id, [engine.entities EXCEPT ![u.id] = new])
          /\ Differences(Inside(engine.entities), [engine.entities EXCEPT ![u.id] = new])
               \subseteq About(r.events, SpatialKinds)
      BY <2>2, <2>3, <3>2, <3>3, ReportsTell
    <3>5. QED
      BY <2>2, <3>1, <3>4 DEF SendingInv, OnTheWay
  <2>5. CASE r.error # None
    <3>1. sending' = {}
      BY <2>2, <2>5 DEF Outcome
    <3>2. Differences(Heard(Inside(engine.entities), r.events), r.engine.entities)
            \subseteq ({} \ About(r.events, SpatialKinds)) \union Untold(engine, u, fault)
      <4>1. Differences(Inside(engine.entities), engine.entities) \subseteq {}
        BY DEF Differences
      <4>2. QED
        BY <2>2, <4>1, DoubtStep DEF TypeInv
    <3>3. Heard(Inside(engine.entities), r.events) = Inside(engine.entities)
      BY <2>2, <3>1 DEF Heard, About
    <3>4. QED
      BY <2>2, <3>1, <3>2, <3>3, TellsNothing DEF SendingInv
  <2>6. QED
    BY <2>4, <2>5
<1>3. QED
  BY <1>1, <1>2

\* The events of a send under way are those of one update, and agree with what the
\* engine has become (eachMessage, geo-stream/src/kafka.ts).
THEOREM SendingInvariance == Spec => []SendingInv
<1>1. Init => SendingInv
  BY TellsNothing DEF Init, SendingInv
<1>2. TypeInv /\ SendingInv /\ [Next]_vars => SendingInv'
  <2>1. SendingInv /\ UNCHANGED <<engine, sending>> => SendingInv'
    BY DEF SendingInv
  <2>2. sending' = {} => SendingInv'
    BY TellsNothing DEF SendingInv
  <2>3. QED
    BY <2>1, <2>2, EachMessageTells DEF Next, Write, Start, Sent, SendRejected, Commit, End, vars
<1>3. QED
  BY TypeInvariance, <1>1, <1>2, PTL DEF Spec

-----------------------------------------------------------------------------
LEMMA ToldIsDifferences ==
  ToldIsMembership <=> Differences(told, engine.entities) \subseteq doubt \union OnTheWay
BY DEF ToldIsMembership, Differences

\* Whatever part of a send gets through, it adds no difference.
LEMMA PartSettles ==
  ASSUME SendingInv, NEW through \in SUBSET sending
  PROVE  Differences(Heard(told, through), engine.entities) \subseteq Differences(told, engine.entities)
<1>1. PICK e : Tells(sending, e, engine.entities)
  BY DEF SendingInv
<1>2. Tells(through, e, engine.entities)
  BY <1>1, PartTells
<1>3. QED
  BY <1>2, HeardSettles

LEMMA SentTold ==
  ASSUME SendingInv, ToldIsMembership, Sent
  PROVE  ToldIsMembership'
<1>1. PICK e : Tells(sending, e, engine.entities)
  BY DEF SendingInv
<1>2. Differences(Heard(told, sending), engine.entities)
        \subseteq Differences(told, engine.entities) \ OnTheWay
  BY <1>1, HeardSettles DEF OnTheWay
<1>3. /\ told' = Heard(told, sending) /\ doubt' = doubt \ OnTheWay /\ engine' = engine
  BY DEF Sent, OnTheWay
<1>4. Differences(told', engine'.entities) \subseteq doubt'
  BY <1>2, <1>3, ToldIsDifferences
<1>5. QED
  BY <1>4 DEF ToldIsMembership, Differences

LEMMA RejectedTold ==
  ASSUME SendingInv, ToldIsMembership, SendRejected
  PROVE  ToldIsMembership'
<1>1. PICK through \in SUBSET sending : told' = Heard(told, through)
  BY DEF SendRejected, PartlySent
<1>2. engine' = engine /\ doubt' = doubt \union OnTheWay
  BY DEF SendRejected, OnTheWay
<1>3. Differences(told', engine'.entities) \subseteq doubt'
  BY <1>1, <1>2, PartSettles, ToldIsDifferences
<1>4. QED
  BY <1>3 DEF ToldIsMembership, Differences

LEMMA EndTold ==
  ASSUME SendingInv, ToldIsMembership, End
  PROVE  ToldIsMembership'
<1>1. PICK through \in SUBSET sending : told' = Heard(told, through)
  BY DEF End, PartlySent
<1>2. CASE durable
  <2>1. engine' = engine /\ OnTheWay \union doubt \subseteq doubt'
    BY <1>2 DEF End, OnTheWay
  <2>2. Differences(told', engine'.entities) \subseteq doubt'
    BY <1>1, <2>1, PartSettles, ToldIsDifferences
  <2>3. QED
    BY <2>2 DEF ToldIsMembership, Differences
<1>3. CASE ~durable
  <2>1. Inside(engine'.entities) = {} /\ OnTheWay \union told \subseteq doubt'
    BY <1>3, PreparedType DEF End, OnTheWay
  <2>2. {"enter", "approach"} \subseteq SpatialKinds
    BY DEF SpatialKinds
  <2>3. told' \subseteq told \union OnTheWay
    BY <1>1, <2>2 DEF Heard, About, OnTheWay
  <2>4. QED
    BY <2>1, <2>3 DEF ToldIsMembership
<1>4. QED
  BY <1>2, <1>3

LEMMA EachMessageTold ==
  ASSUME TypeInv, ToldIsMembership, EachMessage
  PROVE  ToldIsMembership'
<1>1. /\ Differences(Inside(engine.entities), engine'.entities) \subseteq OnTheWay' \union doubt'
      /\ doubt \subseteq doubt'
  BY EachMessageTells
<1>2. told' = told /\ OnTheWay = {}
  BY DEF EachMessage, Deliverable, OnTheWay, About
<1>3. QED
  BY <1>1, <1>2 DEF ToldIsMembership, Differences

\* However the adapter goes on, and however the store fails it, who folds the output
\* topic is wrong about nothing but what lost or dropped events were about, what is
\* on its way, or what a process told whose engine has forgotten it.
THEOREM ToldCorrect == Spec => []ToldIsMembership
<1>1. Init => ToldIsMembership
  BY PreparedType DEF Init, ToldIsMembership
<1>2. TypeInv /\ SendingInv /\ ToldIsMembership /\ [Next]_vars => ToldIsMembership'
  <2>1. ToldIsMembership /\ UNCHANGED <<engine, sending, told, doubt>> => ToldIsMembership'
    BY DEF ToldIsMembership, OnTheWay
  <2>2. QED
    BY <2>1, EachMessageTold, SentTold, RejectedTold, EndTold DEF Next, Write, Start, Commit, vars
<1>3. QED
  BY TypeInvariance, SendingInvariance, <1>1, <1>2, PTL DEF Spec

-----------------------------------------------------------------------------
\* The times of every entity's messages grow.
TimesGrow(messages) ==
  \A i, j \in DOMAIN messages :
    i < j /\ {messages[i], messages[j]} \subseteq Updates /\ messages[i].id = messages[j].id
      => messages[i].t_ms < messages[j].t_ms

\* The engine has passed what it has taken.
Passed(st, u) == st.last_t_ms # None /\ st.last_t_ms >= u.t_ms

\* What the engine has taken is at or before its entity's last time; and if the
\* entity's times grow, an update at the last time is the one the state comes from.
IngestedInv ==
  \A n \in ingested :
    /\ n \in DOMAIN topic /\ topic[n] \in Updates
    /\ Passed(engine.entities[topic[n].id], topic[n])
    /\ TimesGrow(topic) /\ engine.entities[topic[n].id].last_t_ms = topic[n].t_ms
         => Settled(engine, engine.entities[topic[n].id], topic[n])

LEMMA WriteIngested ==
  ASSUME TypeInv, IngestedInv, NEW message \in Messages, Write(message)
  PROVE  IngestedInv'
<1>1. topic' = Append(topic, message) /\ UNCHANGED <<engine, ingested>> /\ topic \in Seq(Messages)
  BY DEF Write, TypeInv
<1>2. DOMAIN topic \subseteq DOMAIN topic' /\ \A n \in DOMAIN topic : topic'[n] = topic[n]
  BY <1>1
<1>3. TimesGrow(topic') => TimesGrow(topic)
  BY <1>2 DEF TimesGrow
<1>4. QED
  BY <1>1, <1>2, <1>3 DEF IngestedInv

LEMMA EachMessageIngested ==
  ASSUME TypeInv, IngestedInv, EachMessage
  PROVE  IngestedInv'
<1> DEFINE k == offset + 1
<1>1. CASE topic[k] = Garbage
  <2>1. UNCHANGED <<engine, ingested, topic>>
    BY <1>1 DEF EachMessage
  <2>2. QED
    BY <2>1 DEF IngestedInv
<1>2. CASE topic[k] # Garbage
  <2> PICK u, fault : Took(u, fault)
    BY <1>2, EachMessageOutcome
  <2> DEFINE r == ProcessEvent(engine, u, fault)
             new == After(engine, u)
  <2>1. /\ u \in Updates /\ u = topic[k] /\ k \in DOMAIN topic /\ engine' = r.engine
        /\ Outcome(engine, u, fault, r)
    BY DEF Took
  <2>2. /\ topic' = topic
        /\ ingested' = IF Stores(engine, u, fault) \/ r.error = "monotonicity"
                         THEN ingested \union {k} ELSE ingested
    BY DEF EachMessage, Took
  <2>3. /\ engine.entities \in [Entities -> EntityStates] /\ engine.dwell \in [Geometries -> Dwells]
        /\ u.id \in Entities /\ u.t_ms \in Nat /\ u.t_ms # None
        /\ engine.entities[u.id] \in EntityStates
        /\ engine.entities[u.id].last_t_ms \in Nat \union {None}
    BY <2>1, TimesAssumption DEF TypeInv, EngineStates, EntityStates, Updates
  <2>4. DOMAIN topic \subseteq Nat /\ k \in Nat
    BY DEF TypeInv
  <2> HIDE DEF k, r, new
  <2>5. engine'.area = engine.area /\ engine'.dwell = engine.dwell
    BY <2>1 DEF Outcome
  <2>6. \A st, v : Settled(engine', st, v) <=> Settled(engine, st, v)
    BY <2>5 DEF Settled, Covers
  <2>7. CASE Stores(engine, u, fault)
    <3>1. /\ engine'.entities = [engine.entities EXCEPT ![u.id] = new]
          /\ Accepts(engine.entities[u.id], u)
      BY <2>1, <2>7 DEF Outcome, new, Stores
    <3>2. new.last_t_ms = u.t_ms
      BY DEF new, After, Advance
    <3>3. Settled(engine, new, u)
      BY <2>1, <2>3, AdvanceSettles DEF new, After
    <3>4. \A e \in Entities : engine'.entities[e] = IF e = u.id THEN new ELSE engine.entities[e]
      BY <2>3, <3>1
    <3>5. ASSUME NEW n \in ingested, topic[n].id = u.id
          PROVE  /\ Passed(new, topic[n])
                 /\ TimesGrow(topic) /\ topic[n].t_ms = u.t_ms => topic[n] = u
      <4>1. topic[n] \in Updates /\ Passed(engine.entities[u.id], topic[n]) /\ n \in DOMAIN topic
        BY <3>5 DEF IngestedInv
      <4>2. topic[n].t_ms \in Nat
        BY <4>1, TimesAssumption DEF Updates
      <4>3. Passed(new, topic[n])
        BY <2>3, <3>1, <3>2, <4>1, <4>2 DEF Accepts, Passed
      <4>4. TimesGrow(topic) /\ topic[n].t_ms = u.t_ms => n = k
        <5>1. n \in Nat /\ {topic[n], topic[k]} \subseteq Updates /\ topic[n].id = topic[k].id
          BY <2>1, <2>4, <3>5, <4>1
        <5>2. TimesGrow(topic) /\ n < k => topic[n].t_ms < topic[k].t_ms
          BY <2>1, <4>1, <5>1 DEF TimesGrow
        <5>3. TimesGrow(topic) /\ k < n => topic[k].t_ms < topic[n].t_ms
          BY <2>1, <4>1, <5>1 DEF TimesGrow
        <5>4. QED
          BY <2>1, <2>3, <2>4, <4>2, <5>1, <5>2, <5>3
      <4>5. QED
        BY <2>1, <4>3, <4>4
    <3>6. ASSUME NEW n \in ingested'
          PROVE  /\ n \in DOMAIN topic /\ topic[n] \in Updates
                 /\ Passed(engine'.entities[topic[n].id], topic[n])
                 /\ TimesGrow(topic) /\ engine'.entities[topic[n].id].last_t_ms = topic[n].t_ms
                      => Settled(engine, engine'.entities[topic[n].id], topic[n])
      <4>1. CASE n = k
        <5>1. topic[n] = u /\ engine'.entities[u.id] = new
          BY <2>1, <2>3, <3>4, <4>1
        <5>2. QED
          BY <2>1, <2>3, <3>2, <3>3, <4>1, <5>1 DEF Passed
      <4>2. CASE n # k /\ topic[n].id = u.id
        <5>1. n \in ingested /\ engine'.entities[topic[n].id] = new
          BY <2>2, <2>3, <2>7, <3>4, <4>2
        <5>2. QED
          BY <3>2, <3>3, <3>5, <4>2, <5>1 DEF IngestedInv
      <4>3. CASE n # k /\ topic[n].id # u.id
        <5>1. n \in ingested /\ topic[n] \in Updates
          BY <2>2, <2>7, <4>3 DEF IngestedInv
        <5>2. engine'.entities[topic[n].id] = engine.entities[topic[n].id]
          BY <3>4, <4>3, <5>1 DEF Updates
        <5>3. QED
          BY <5>1, <5>2 DEF IngestedInv
      <4>4. QED
        BY <4>1, <4>2, <4>3
    <3>7. QED
      BY <2>2, <2>6, <3>6 DEF IngestedInv
  <2>8. CASE ~Stores(engine, u, fault)
    <3>1. engine'.entities = engine.entities
      BY <2>1, <2>8 DEF Outcome
    <3>2. CASE r.error = "monotonicity"
      <4>1. ~Accepts(engine.entities[u.id], u)
        BY <2>1, <3>2 DEF Outcome
      <4>2. /\ Passed(engine.entities[u.id], u)
            /\ engine.entities[u.id].last_t_ms # u.t_ms
        BY <2>3, <4>1 DEF Accepts, Passed
      <4>3. QED
        BY <2>1, <2>2, <2>6, <2>8, <3>1, <3>2, <4>2 DEF IngestedInv
    <3>3. CASE r.error # "monotonicity"
      <4>1. ingested' = ingested
        BY <2>2, <2>8, <3>3
      <4>2. QED
        BY <2>2, <2>6, <3>1, <4>1 DEF IngestedInv
    <3>4. QED
      BY <3>2, <3>3
  <2>9. QED
    BY <2>7, <2>8
<1>3. QED
  BY <1>1, <1>2

\* No message the engine has taken is ahead of it, whatever is delivered again.
THEOREM IngestedInvariance == Spec => []IngestedInv
<1>1. Init => IngestedInv
  BY DEF Init, IngestedInv
<1>2. TypeInv /\ IngestedInv /\ [Next]_vars => IngestedInv'
  <2>1. IngestedInv /\ UNCHANGED <<engine, ingested, topic>> => IngestedInv'
    BY DEF IngestedInv
  <2>2. IngestedInv /\ End => IngestedInv'
    BY DEF End, IngestedInv
  <2>3. QED
    BY <2>1, <2>2, WriteIngested, EachMessageIngested DEF Next, Start, Sent, SendRejected, Commit, vars
<1>3. QED
  BY TypeInvariance, <1>1, <1>2, PTL DEF Spec

-----------------------------------------------------------------------------
\* An update that leaves every geometry as it is has no events without rules, and
\* changes no membership, whether the store fails or not.
LEMMA SettledTellsNothing ==
  ASSUME NEW eng \in EngineStates({}, {}), NEW u \in Updates, NEW fault,
         NEW r, Outcome(eng, u, fault, r),
         Stores(eng, u, fault) => Settled(eng, eng.entities[u.id], u)
  PROVE  r.events = {} /\ Inside(r.engine.entities) = Inside(eng.entities)
<1> DEFINE st == eng.entities[u.id]
           new == After(eng, u)
<1>1. CASE ~Stores(eng, u, fault)
  <2>1. r.error # None /\ r.engine.entities = eng.entities
    BY <1>1 DEF Outcome, Stores, StoreFaults
  <2>2. QED
    BY <2>1 DEF Outcome
<1>2. CASE Stores(eng, u, fault)
  <2>1. \A g \in Geometries : new.presence[g].inside = st.presence[g].inside
    BY <1>2 DEF Settled, After, Advance
  <2>2. eng.entities \in [Entities -> EntityStates] /\ u.id \in Entities
    BY DEF EngineStates, Updates
  <2>3. r.engine.entities = [eng.entities EXCEPT ![u.id] = new]
    BY <1>2 DEF Outcome
  <2>4. Crossings(eng, u) = {}
    BY <2>1 DEF Crossings, SpatialEvents
  <2>5. DOMAIN eng.configurable_rules = {}
    <3>1. eng.configurable_rules \in Seq({})
      BY DEF EngineStates
    <3>2. QED
      BY <3>1, SeqElements
  <2>6. DOMAIN eng.sequence_rules = {}
    <3>1. eng.sequence_rules \in Seq([rule : {}, progress : [Entities -> Progresses]])
      BY DEF EngineStates
    <3>2. [rule : {}, progress : [Entities -> Progresses]] = {}
      OBVIOUS
    <3>3. QED
      BY <3>1, <3>2, SeqElements
  <2>7. r.events = {}
    <3>1. r.events = {} \/ r.events = Crossings(eng, u)
             \union CustomEvents(eng, Crossings(eng, u), new.motion, u)
             \union SequenceEvents(eng, Crossings(eng, u), u)
      BY DEF Outcome
    <3>2. QED
      BY <2>4, <2>5, <2>6, <3>1 DEF CustomEvents, SequenceEvents
  <2> HIDE DEF new
  <2>8. \A e \in Entities, g \in Geometries :
          r.engine.entities[e].presence[g].inside = eng.entities[e].presence[g].inside
    BY <2>1, <2>2, <2>3
  <2>9. QED
    BY <2>7, <2>8 DEF Inside
<1>3. QED
  BY <1>1, <1>2

\* A message the engine has taken before is late, or settled.
LEMMA AgainTellsNothing ==
  ASSUME TypeInv, IngestedInv, TimesGrow(topic), EachMessage, offset + 1 \in ingested
  PROVE  sending' = {} /\ Inside(engine'.entities) = Inside(engine.entities)
<1>1. CASE topic[offset + 1] = Garbage
  BY <1>1 DEF EachMessage, Deliverable
<1>2. CASE topic[offset + 1] # Garbage
  <2> PICK u, fault : Took(u, fault)
    BY <1>2, EachMessageOutcome
  <2> DEFINE r == ProcessEvent(engine, u, fault)
  <2>1. /\ u \in Updates /\ u = topic[offset + 1] /\ engine' = r.engine /\ sending' = r.events
        /\ Outcome(engine, u, fault, r)
    BY DEF Took
  <2>2. engine \in EngineStates({}, {}) /\ engine.entities[u.id] \in EntityStates
    BY <2>1 DEF TypeInv, EngineStates, Updates
  <2>3. /\ Passed(engine.entities[u.id], u)
        /\ engine.entities[u.id].last_t_ms = u.t_ms => Settled(engine, engine.entities[u.id], u)
    BY <2>1 DEF IngestedInv
  <2>4. engine.entities[u.id].last_t_ms \in Nat \union {None} /\ u.t_ms \in Nat
    BY <2>1, <2>2, TimesAssumption DEF EntityStates, Updates
  <2> HIDE DEF r
  <2>5. Stores(engine, u, fault) => Accepts(engine.entities[u.id], u)
    BY DEF Stores
  <2>6. Stores(engine, u, fault) => Settled(engine, engine.entities[u.id], u)
    BY <2>3, <2>4, <2>5 DEF Passed, Accepts
  <2>7. r.events = {} /\ Inside(r.engine.entities) = Inside(engine.entities)
    BY <2>1, <2>2, <2>6, SettledTellsNothing
  <2>8. QED
    BY <2>1, <2>7
<1>3. QED
  BY <1>1, <1>2

\* With any thresholds, and wherever the consumer goes back to: if no two messages
\* of an entity have one time and none is late, a message the engine has taken
\* before has no events and changes no membership.
THEOREM RedeliveryCorrect == Spec => RedeliveryTellsNothing
<1> DEFINE Quiet ==
      \A n \in ingested :
        /\ TimesGrow(topic)
        /\ n = offset + 1 /\ sending = {} /\ up /\ up'
        => sending' = {} /\ Inside(engine'.entities) = Inside(engine.entities)
<1>1. TypeInv /\ IngestedInv /\ [Next]_vars => [Quiet]_vars
  <2>1. UNCHANGED <<engine, sending>> => Quiet
    BY DEF Quiet
  <2>2. Sent \/ SendRejected \/ End => Quiet
    BY DEF Sent, SendRejected, End
  <2>3. TypeInv /\ IngestedInv /\ EachMessage => Quiet
    BY AgainTellsNothing
  <2> HIDE DEF Quiet
  <2>4. QED
    BY <2>1, <2>2, <2>3 DEF Next, Write, Start, Commit, vars
<1>2. TypeInv /\ IngestedInv /\ [Next]_vars =>
        [\A n \in ingested :
           /\ \A i, j \in DOMAIN topic :
                i < j /\ {topic[i], topic[j]} \subseteq Updates /\ topic[i].id = topic[j].id
                  => topic[i].t_ms < topic[j].t_ms
           /\ n = offset + 1 /\ sending = {} /\ up /\ up'
         => sending' = {} /\ Inside(engine'.entities) = Inside(engine.entities)]_vars
  BY <1>1 DEF TimesGrow
<1>3. QED
  BY TypeInvariance, IngestedInvariance, <1>2, PTL DEF Spec, RedeliveryTellsNothing
=============================================================================
