----------------------------- MODULE SharedStore -----------------------------
(***************************************************************************)
(* Several engines over one RedisStateStore.  process_event reads an       *)
(* entity, works on its copy, writes it back and hands out the events; the *)
(* store knows nothing of these steps belonging together.  A write may     *)
(* fail, before or after Redis has applied it.  An engine that crashes     *)
(* comes back with the entities, which are in Redis, and without its zones,*)
(* which are not, until its application registers them again.              *)
(***************************************************************************)
EXTENDS EngineOps

CONSTANTS Engines,       \* the processes
          Registered,    \* the area every application registers for a geometry
          Route,         \* engines an entity's updates may be sent to
          WaitsForZones, \* does an application register everything before it feeds updates
          MaxUpdates     \* bound: updates sent

ASSUME SharedStoreAssumption ==
  /\ Registered \in [Geometries -> Areas]
  /\ Route \in [Entities -> SUBSET Engines]
  /\ WaitsForZones \in BOOLEAN

VARIABLES stored,    \* what Redis holds for each entity
          machine,   \* each engine: its zones, and a store it does not use
          call,      \* per engine, the update under way: the state it read, its events once written
          told,      \* the events of all engines, as one consumer folds them
          doubt,     \* pairs whose last event was lost
          sent       \* updates sent so far

vars == <<stored, machine, call, told, doubt, sent>>

NoCall == [step |-> "idle", update |-> None, state |-> None, events |-> {}]

Init ==
  /\ stored = [e \in Entities |-> NewEntity]
  /\ machine = [m \in Engines |-> NewEngine]
  /\ call = [m \in Engines |-> NoCall]
  /\ told = {}
  /\ doubt = {}
  /\ sent = 0

RegisterAgain(m, g) ==
  /\ call[m].step = "idle"
  /\ machine[m].area[g] = None
  /\ machine' = [machine EXCEPT ![m] = Register(@, g, Registered[g], NoDwell)]
  /\ UNCHANGED <<stored, call, told, doubt, sent>>

\* entities.get, and the monotonicity check on what it returned.
Get(m, u) ==
  /\ sent < MaxUpdates
  /\ m \in Route[u.id]
  /\ WaitsForZones => \A g \in Geometries : machine[m].area[g] # None
  /\ call[m].step = "idle"
  /\ call' = IF Accepts(stored[u.id], u)
               THEN [call EXCEPT ![m] =
                       [step |-> "read", update |-> u, state |-> stored[u.id], events |-> {}]]
               ELSE call
  /\ sent' = sent + 1
  /\ UNCHANGED <<stored, machine, told, doubt>>

\* What process_event makes of the update, given the state it read.
Result(m) ==
  LET u == call[m].update
  IN  ProcessEvent([machine[m] EXCEPT !.entities[u.id] = call[m].state], u, None)

Written(m) ==
  [stored EXCEPT ![call[m].update.id] = Result(m).engine.entities[call[m].update.id]]

Pending(m) == call[m].step = "read"

AfterSet(m) ==
  [call EXCEPT ![m] = [step |-> "written", update |-> @.update, state |-> None, events |-> Result(m).events]]

\* Mutant: the events are handed out although the write is not sure.
SetBeforeSure(m) ==
  /\ Pending(m)
  /\ \/ UNCHANGED stored
     \/ stored' = Written(m)
  /\ call' = AfterSet(m)
  /\ UNCHANGED <<machine, told, doubt, sent>>

\* The rest of process_event, up to an entities.set that Redis acknowledges.
Set(m) ==
  /\ Pending(m)
  /\ stored' = Written(m)
  /\ call' = AfterSet(m)
  /\ UNCHANGED <<machine, told, doubt, sent>>

\* entities.set fails, and with it process_event: Redis may have applied the
\* write, and only its reply was lost.
SetFails(m) ==
  /\ Pending(m)
  /\ \/ UNCHANGED <<stored, doubt>>
     \/ /\ stored' = Written(m)
        /\ doubt' = doubt \union About(Result(m).events, SpatialKinds)
  /\ call' = [call EXCEPT ![m] = NoCall]
  /\ UNCHANGED <<machine, told, sent>>

\* The caller gets the events and passes them on.
Deliver(m) ==
  /\ call[m].step = "written"
  /\ told' = Heard(told, call[m].events)
  /\ doubt' = doubt \ About(call[m].events, SpatialKinds)
  /\ call' = [call EXCEPT ![m] = NoCall]
  /\ UNCHANGED <<stored, machine, sent>>

\* The process dies: between a read and its write, between a write and the
\* delivery of its events, or elsewhere.
Crash(m) ==
  /\ machine[m] # NewEngine \/ call[m].step # "idle"
  /\ machine' = [machine EXCEPT ![m] = NewEngine]
  /\ doubt' = doubt \union About(call[m].events, SpatialKinds)
  /\ call' = [call EXCEPT ![m] = NoCall]
  /\ UNCHANGED <<stored, told, sent>>

Next ==
  \E m \in Engines :
    \/ \E g \in Geometries : RegisterAgain(m, g)
    \/ \E u \in Updates : Get(m, u)
    \/ Set(m)
    \/ SetFails(m)
    \/ Deliver(m)
    \/ Crash(m)

Spec == Init /\ [][Next]_vars

-----------------------------------------------------------------------------
\* Subjects of events that are written and about to be handed out.
OnTheWay == UNION {About(call[m].events, SpatialKinds) : m \in Engines}

\* When each entity's updates go to one engine at a time, the events of all the
\* engines together tell the membership in the store, through failed writes,
\* updates sent again after one, crashes and restarts.  A write that was applied
\* without its events getting out leaves the consumer wrong about what those
\* events were about, and about nothing else; the next event heals it.
ToldIsStored ==
  (told \ Inside(stored)) \union (Inside(stored) \ told) \subseteq doubt \union OnTheWay

\* Between updates too, the store has an entity inside a geometry exactly if its
\* last stored position is: no crash leaves a position without its transitions.
StoredIsWhereItIs ==
  \A e \in Entities, g \in Geometries :
    stored[e].position # None =>
      (stored[e].presence[g].inside <=> stored[e].position \in Registered[g])
=============================================================================
