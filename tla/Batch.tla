-------------------------------- MODULE Batch --------------------------------
(***************************************************************************)
(* An engine fed in batches, as every adapter feeds it, and a consumer     *)
(* that folds the events of each batch in the order they are returned.     *)
(***************************************************************************)
EXTENDS BatchOps

CONSTANTS Engines,      \* engines an application may have set up
          MaxUpdates,   \* bound: updates in all batches together
          MaxBroken     \* bound: store calls that fail in one batch

ASSUME BatchAssumption ==
  /\ NumberedIds
  /\ \A eng \in Engines : eng \in EngineStates(AnyRules, AnySequences) /\ WellFormed(eng.entities)
  /\ MaxUpdates \in Nat

VARIABLES engine,
          out,    \* the last batch and what process_batch returned for it
          view,   \* the consumer's picture: pairs of entity and geometry
          sent    \* updates sent so far

vars == <<engine, out, view, sent>>

Init ==
  /\ engine \in Engines
  /\ out = [batch |-> <<>>, broken |-> <<>>, events |-> <<>>, errors |-> <<>>]
  /\ view = {}
  /\ sent = 0

Flush(batch, broken) ==
  LET result == ProcessBatch(engine, batch, broken)
  IN  /\ sent + Len(batch) <= MaxUpdates
      /\ sent' = sent + Len(batch)
      /\ engine' = result.engine
      /\ out' = [batch |-> batch, broken |-> broken,
                 events |-> result.events, errors |-> result.errors]
      /\ view' = FoldLeft(See, view, result.events)

Next ==
  \E n \in 1 .. MaxUpdates - sent : \E batch \in [1 .. n -> Updates] :
    \E failing \in {f \in SUBSET (1 .. n) : Cardinality(f) <= MaxBroken} :
      \E broken \in [failing -> StoreFaults] : Flush(batch, broken)

Spec == Init /\ [][Next]_vars

-----------------------------------------------------------------------------
Membership == Inside(engine.entities)

\* Of a batch, exactly the updates older than what their entity had before the
\* batch are refused for their time, if the call could read what that was: the
\* updates of a batch never push each other out, in whatever order they were
\* sent, and a failure in the middle takes none of the later ones with it.
RefusesOnlyLateArrivals ==
  [][LET calls == SortUpdates(out'.batch)
         Late(u) == LET last == engine.entities[u.id].last_t_ms
                    IN  last # None /\ last > u.t_ms
     IN  \A u \in Range(out'.batch) :
           (\E k \in DOMAIN out'.errors : out'.errors[k] = [update |-> u, error |-> "monotonicity"])
             <=> Late(u) /\ \E n \in DOMAIN calls : calls[n] = u /\ FaultOf(out'.broken, n) # "get"]_vars

\* The orders in which the members of a sequence with domain S may come.
Reorderings(S) == {f \in [S -> S] : \A w \in S : \E v \in S : f[v] = w}

Shuffled(batch, order) == [n \in DOMAIN batch |-> batch[order[n]]]

\* The items of a sequence that are an entity's, updates or events, in their order.
OfEntity(items, e) ==
  LET Place(n) == <<n>>
      places   == SortedBy(Place, {n \in DOMAIN items : items[n].id = e})
  IN  [k \in DOMAIN places |-> items[places[k]]]

\* However the updates of a batch are shuffled before it is sent, the engine and
\* the output are the same, as long as no entity has two updates at one time.
ShufflingChangesNothing ==
  [][NoTies(out'.batch) /\ out'.broken = <<>> =>
       \A order \in Reorderings(DOMAIN out'.batch) :
         LET again == ProcessBatch(engine, Shuffled(out'.batch, order), <<>>)
         IN  /\ again.engine = engine'
             /\ again.events = out'.events
             /\ again.errors = out'.errors]_vars

\* Entities do not affect each other: each ends a batch where it would have ended
\* had its updates been sent alone, with the same progress through the sequences,
\* and with the same events in the same order; the output has one entity's events
\* after the other's.
EntitiesAreIndependent ==
  [][out'.broken = <<>> =>
       /\ \A e \in Entities :
            LET alone == ProcessBatch(engine, OfEntity(out'.batch, e), <<>>)
            IN  /\ engine'.entities[e] = alone.engine.entities[e]
                /\ \A i \in DOMAIN engine.sequence_rules :
                     engine'.sequence_rules[i].progress[e] = alone.engine.sequence_rules[i].progress[e]
                /\ OfEntity(out'.events, e) = alone.events
       /\ \A i, j \in DOMAIN out'.events : i < j => out'.events[i].id <= out'.events[j].id]_vars

\* A consumer that folds the events in the order it gets them, and knows whether
\* an entity is in a geometry before a batch, knows it after the batch, if the
\* entity had no two updates at one time and no call for it failed with its write
\* applied; so sorting never puts an exit after the enter that followed it.  With
\* two updates at one time it may, and docs-site/docs/querying.md:45 is then not
\* what happens.
OutputFoldsToMembership ==
  [][\A e \in Entities, g \in Geometries :
       /\ Untied(out'.batch, e) /\ NoneLost(out'.batch, out'.broken, e)
       /\ <<e, g>> \in view <=> <<e, g>> \in Membership
     => (<<e, g>> \in view' <=> <<e, g>> \in Membership')]_vars
=============================================================================
