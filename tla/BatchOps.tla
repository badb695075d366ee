------------------------------ MODULE BatchOps ------------------------------
(***************************************************************************)
(* Engine::process_batch and the order of its output                       *)
(* (crates/engine/src/lib.rs).                                             *)
(***************************************************************************)
EXTENDS EngineOps, SequencesExt

\* The sort compares ids and names, so they are numbers here (EngineOps).
NumberedIds ==
  /\ Entities \subseteq Int
  /\ Zones \subseteq Int /\ IsFiniteSet(Zones)
  /\ Circles \subseteq Int /\ IsFiniteSet(Circles)

\* The rules an application may add; nothing checks the values of a filter.
AnyRules ==
  [name : Int, emit : Int, triggers : SUBSET [event_kind : SpatialKinds, target_id : Int],
   filters : SUBSET ([type : {"speed_above", "speed_below"}, value : Int]
                     \union [type : {"heading_between"}, from : Int, to : Int])]

AnySequences == [name : Int, steps : Seq(Int), within_ms : Nat \union {None}]

\* The order of tuples in which the first difference decides.
Before(a, b) ==
  \E k \in DOMAIN a : a[k] < b[k] /\ \A j \in 1 .. k - 1 : a[j] = b[j]

\* The members of S in the order of their keys, which differ.
SortedBy(Key(_), S) ==
  [n \in 1 .. Cardinality(S) |->
     CHOOSE a \in S : Cardinality({b \in S : Before(Key(b), Key(a))}) = n - 1]

\* Mutant: by id only.
SortUpdatesById(batch) ==
  LET Key(i) == <<batch[i].id, i>>
      order  == SortedBy(Key, DOMAIN batch)
  IN  [n \in DOMAIN batch |-> batch[order[n]]]

\* By id, then time; the sort is stable.
SortUpdates(batch) ==
  LET Key(i) == <<batch[i].id, batch[i].t_ms, i>>
      order  == SortedBy(Key, DOMAIN batch)
  IN  [n \in DOMAIN batch |-> batch[order[n]]]

\* EventTier and the last component of event_sort_key.
Tier(kind) ==
  CASE kind \in {"enter", "exit"}       -> 0
    [] kind \in {"approach", "recede"}  -> 1
    [] kind = "custom"                  -> 2
    [] kind = "sequence_complete"       -> 3

Phase(kind) == IF kind \in {"exit", "recede"} THEN 1 ELSE 0

\* Mutant: an entity's exits after its enters, whatever their times.
SortKeyPhaseFirst(e) ==
  <<e.event.id, Phase(e.event.kind), e.event.t_ms, Tier(e.event.kind), e.event.name,
    e.call, e.event.rule>>

\* event_sort_key, and the order the events arrived in.
SortKey(e) ==
  <<e.event.id, e.event.t_ms, Tier(e.event.kind), e.event.name, Phase(e.event.kind),
    e.call, e.event.rule>>

\* sort_events_deterministic: stable, so of events with one key the earlier
\* call comes first, and within a call the earlier rule.
SortEvents(calls) ==
  LET emitted == UNION {{[call |-> n, event |-> ev] : ev \in calls[n]} : n \in DOMAIN calls}
      sorted  == SortedBy(SortKey, emitted)
  IN  [n \in DOMAIN sorted |-> sorted[n].event]

\* How the state store fails the n-th call of a batch, if it does.
FaultOf(broken, n) == IF n \in DOMAIN broken THEN broken[n] ELSE None

\* Mutant: the first error ends the batch.
CallsUntilError(engine, batch, broken) ==
  LET updates == SortUpdates(batch)
      Call(done, n) ==
        LET result == ProcessEvent(done.engine, updates[n], FaultOf(broken, n))
        IN  IF done.errors # <<>>
              THEN done
              ELSE [engine |-> result.engine,
                    calls  |-> Append(done.calls, result.events),
                    errors |-> IF result.error = None
                                 THEN done.errors
                                 ELSE Append(done.errors, [update |-> updates[n], error |-> result.error])]
  IN  FoldLeft(Call, [engine |-> engine, calls |-> <<>>, errors |-> <<>>], [n \in DOMAIN updates |-> n])

\* The calls of process_event, in order, each with its events, and the errors;
\* `broken` maps the calls that find the state store failing to how it fails.  A
\* call that fails has no events and does not stop the batch.
Calls(engine, batch, broken) ==
  LET updates == SortUpdates(batch)
      Call(done, n) ==
        LET result == ProcessEvent(done.engine, updates[n], FaultOf(broken, n))
        IN  [engine |-> result.engine,
             calls  |-> Append(done.calls, result.events),
             errors |-> IF result.error = None
                          THEN done.errors
                          ELSE Append(done.errors, [update |-> updates[n], error |-> result.error])]
  IN  FoldLeft(Call, [engine |-> engine, calls |-> <<>>, errors |-> <<>>], [n \in DOMAIN updates |-> n])

ProcessBatch(engine, batch, broken) ==
  LET done == Calls(engine, batch, broken)
  IN  [engine |-> done.engine, events |-> SortEvents(done.calls), errors |-> done.errors]

-----------------------------------------------------------------------------
\* What a consumer who knows the pairs in `seen` as inside makes of one event.
See(seen, ev) ==
  CASE ev.kind \in {"enter", "approach"} -> seen \union {Subject(ev)}
    [] ev.kind \in {"exit", "recede"}    -> seen \ {Subject(ev)}
    [] OTHER                             -> seen

\* No call of the entity fails with its write applied.
NoneLost(batch, broken, e) ==
  \A n \in DOMAIN batch : SortUpdates(batch)[n].id = e => FaultOf(broken, n) # "lost"

\* No two updates of this entity carry the same time.
Untied(batch, e) ==
  \A i, j \in DOMAIN batch :
    i # j /\ batch[i].id = e /\ batch[j].id = e => batch[i].t_ms # batch[j].t_ms

\* No two updates of any one entity do.
NoTies(batch) ==
  \A i, j \in DOMAIN batch : i # j => batch[i].id # batch[j].id \/ batch[i].t_ms # batch[j].t_ms
=============================================================================
