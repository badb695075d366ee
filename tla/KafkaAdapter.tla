---------------------------- MODULE KafkaAdapter ----------------------------
(***************************************************************************)
(* GeoStreamKafka (geo-stream/src/kafka.ts): each message of the input     *)
(* topic is parsed, handed to the engine, and its events are sent to the   *)
(* output topic in one call.  The consumer delivers at least once: it goes *)
(* back to a message whose handler rejected, at most as far as to the      *)
(* offset it committed last, and a new process begins at that offset.      *)
(* The zones are registered again before every start; the entities are     *)
(* still there only if the engine keeps them in Redis, whose calls may     *)
(* fail.                                                                   *)
(***************************************************************************)
EXTENDS EngineOps

CONSTANTS Garbage,     \* a message that has no value or is not JSON
          Misshapen,   \* JSON that is not a PointUpdate
          Messages,    \* what may be written: updates, Garbage, Misshapen
          Registered,  \* area and dwell of every geometry
          Backends,    \* does a process find the entities of the one before
          MaxMessages, \* bound: messages in the input topic
          MaxTrouble   \* bound: rejected sends, failed store calls and ended processes

ASSUME KafkaAssumption ==
  /\ Messages \subseteq Updates \union {Garbage, Misshapen}
  /\ Registered \in [Geometries -> [area : Areas, dwell : Dwells]]
  /\ Backends \subseteq BOOLEAN

VARIABLES durable,    \* does this adapter's engine keep its entities in Redis
          topic,      \* the input topic
          committed,  \* the offset committed last: the messages before it are done
          since,      \* the offset the last process without a committed one began at
          offset,     \* the offset reached
          engine,
          sending,    \* the events producer.send is called with; {} between messages
          up,         \* is a process running
          ingested,   \* offsets of the messages the engine has taken
          told,       \* the output topic, as one consumer folds it
          doubt,      \* pairs of entity and geometry whose last event may be lost
          trouble     \* rejected sends, failed store calls and ended processes so far

vars == <<durable, topic, committed, since, offset, engine, sending, up, ingested, told, doubt, trouble>>

\* A new engine with everything registered.
Prepared ==
  [NewEngine EXCEPT !.area = [g \in Geometries |-> Registered[g].area],
                    !.dwell = [g \in Geometries |-> Registered[g].dwell]]

Init ==
  /\ durable \in Backends
  /\ topic = <<>>
  /\ committed = None
  /\ since = None
  /\ offset = 0
  /\ engine = Prepared
  /\ sending = {}
  /\ up = FALSE
  /\ ingested = {}
  /\ told = {}
  /\ doubt = {}
  /\ trouble = 0

Write(message) ==
  /\ Len(topic) < MaxMessages
  /\ topic' = Append(topic, message)
  /\ UNCHANGED <<durable, committed, since, offset, engine, sending, up, ingested, told, doubt, trouble>>

\* start(): with `fromBeginning: false`, a group without a committed offset
\* begins behind the last message there is.
Start ==
  /\ ~up
  /\ up' = TRUE
  /\ offset' = IF committed = None THEN Len(topic) ELSE committed
  /\ since' = IF committed = None THEN offset' ELSE since
  /\ UNCHANGED <<durable, topic, committed, engine, sending, ingested, told, doubt, trouble>>

\* Mutant: a message that does not parse makes the handler reject.
DeliverableParsed == up /\ sending = {} /\ offset < Len(topic) /\ topic[offset + 1] \in Updates

\* Is there a message whose handler will get anywhere: on a misshapen one ingest
\* throws before anything changes, and does so whenever the consumer comes back.
Deliverable == up /\ sending = {} /\ offset < Len(topic) /\ topic[offset + 1] # Misshapen

\* How the state store may fail a call: in memory it does not.
PossibleFaults == IF durable /\ trouble < MaxTrouble THEN StoreFaults ELSE {}

\* ingest: it drops the error of an update that failed or was refused, so that
\* the message is passed like one without events.  The batch is one update; its
\* events are about different pairs, so that their order does not matter.
Ingest(u, fault) ==
  LET result == ProcessEvent(engine, u, fault)
  IN  /\ engine' = result.engine
      /\ sending' = result.events
      /\ offset' = IF result.events = {} THEN offset + 1 ELSE offset
      /\ ingested' = IF Stores(engine, u, fault) \/ result.error = "monotonicity"
                       THEN ingested \union {offset + 1}
                       ELSE ingested
      /\ doubt' = doubt \union Untold(engine, u, fault)
      /\ trouble' = IF fault = None THEN trouble ELSE trouble + 1

\* eachMessage up to the send, or to its end if there is nothing to send.
EachMessage ==
  /\ Deliverable
  /\ IF topic[offset + 1] = Garbage
       THEN /\ offset' = offset + 1
            /\ UNCHANGED <<engine, sending, ingested, doubt, trouble>>
       ELSE \E fault \in PossibleFaults \union {None} : Ingest(topic[offset + 1], fault)
  /\ UNCHANGED <<durable, topic, committed, since, up, told>>

\* Mutant: only one event is sent.
SentFirst ==
  /\ sending # {}
  /\ \E ev \in sending : told' = Heard(told, {ev})
  /\ doubt' = doubt \ About(sending, SpatialKinds)
  /\ sending' = {}
  /\ offset' = offset + 1
  /\ UNCHANGED <<durable, topic, committed, since, engine, up, ingested, trouble>>

\* producer.send resolves, and the message is done.
Sent ==
  /\ sending # {}
  /\ told' = Heard(told, sending)
  /\ doubt' = doubt \ About(sending, SpatialKinds)
  /\ sending' = {}
  /\ offset' = offset + 1
  /\ UNCHANGED <<durable, topic, committed, since, engine, up, ingested, trouble>>

\* Offsets the consumer may go back to.
Resumable == (IF committed = None THEN since ELSE committed) .. offset

\* What may have got through of a send, if there was one, that did not resolve.
PartlySent ==
  \E through \in SUBSET sending : told' = Heard(told, through)

\* producer.send rejects, and the handler with it.
SendRejected ==
  /\ sending # {} /\ trouble < MaxTrouble
  /\ PartlySent
  /\ doubt' = doubt \union About(sending, SpatialKinds)
  /\ sending' = {}
  /\ offset' \in Resumable
  /\ trouble' = trouble + 1
  /\ UNCHANGED <<durable, topic, committed, since, engine, up, ingested>>

\* The consumer commits now and then what is done.
Commit ==
  /\ up /\ committed # offset
  /\ committed' = offset
  /\ UNCHANGED <<durable, topic, since, offset, engine, sending, up, ingested, told, doubt, trouble>>

\* stop(), or the end of the process.  An engine in memory forgets who is where,
\* and no later exit will tell the consumer.
End ==
  /\ up /\ trouble < MaxTrouble
  /\ PartlySent
  /\ doubt' = doubt \union About(sending, SpatialKinds) \union (IF durable THEN {} ELSE told)
  /\ engine' = IF durable THEN engine ELSE Prepared
  /\ ingested' = IF durable THEN ingested ELSE {}
  /\ up' = FALSE
  /\ sending' = {}
  /\ trouble' = trouble + 1
  /\ UNCHANGED <<durable, topic, committed, since, offset>>

Next ==
  \/ \E message \in Messages : Write(message)
  \/ Start
  \/ EachMessage
  \/ Sent
  \/ SendRejected
  \/ Commit
  \/ End

Spec == Init /\ [][Next]_vars

\* The consumer goes on to the next message, the broker answers, and whoever runs
\* the process starts it again.  The first of these is WF_vars(EachMessage) in
\* other words: no other step takes a deliverable message.
FairSpec ==
  /\ Spec
  /\ []<>~Deliverable \/ []<><<Deliverable /\ (offset' = offset + 1 \/ sending' # {})>>_vars
  /\ WF_vars(Sent) /\ WF_vars(Start)

-----------------------------------------------------------------------------
OnTheWay == About(sending, SpatialKinds)

\* Through messages delivered again, rejected sends, failed store calls, ends and
\* new starts, who folds the output topic is wrong about nothing but what the
\* events were about that did not get through, that were dropped because the store
\* reported an error for a write it had applied, or that were told by a process
\* whose engine has forgotten them; and the next event that gets through heals it.
ToldIsMembership ==
  (told \ Inside(engine.entities)) \union (Inside(engine.entities) \ told) \subseteq doubt \union OnTheWay

\* If no two messages of an entity have one time and none is late, a message the
\* engine has taken before moves nothing and tells nothing: delivering at least
\* once is as good as once, but events that did not get through are lost.
RedeliveryTellsNothing ==
  [][\A n \in ingested :
       /\ \A i, j \in DOMAIN topic :
            i < j /\ {topic[i], topic[j]} \subseteq Updates /\ topic[i].id = topic[j].id
              => topic[i].t_ms < topic[j].t_ms
       /\ n = offset + 1 /\ sending = {} /\ up /\ up'
     => sending' = {} /\ Inside(engine'.entities) = Inside(engine.entities)]_vars

\* Every message behind the first start is passed in the end, however often the
\* consumer goes back or the process ends, unless one before it is misshapen: that
\* one is never passed, although kafka.ts:73 has a handler for messages that
\* "cannot be parsed as a PointUpdate".  A process that ends before the first
\* commit leaves the messages to be skipped by the next.
EverythingIsPassed ==
  \A n \in 1 .. MaxMessages :
    (since # None /\ since < n /\ n <= Len(topic)) ~>
      (since # None /\ (n <= offset \/ \E k \in DOMAIN topic : since < k /\ k <= n /\ topic[k] = Misshapen))
=============================================================================
