----------------------------- MODULE BatchProofs -----------------------------
(***************************************************************************)
(* Batches of any size, over any number of entities and geometries: what   *)
(* process_batch refuses, what its sorted output tells a consumer, and     *)
(* that neither order nor company of the updates matters.                  *)
(* Then the command line, which feeds lines into such batches: parts of a  *)
(* stream of any length, any batch size, and processes that die and start  *)
(* again.  The two are specifications of their own; a theorem is about the *)
(* one whose Spec, or CliSpec, it names.                                   *)
(***************************************************************************)
EXTENDS Batch, Cli, EngineOpsProofs

-----------------------------------------------------------------------------
\* Between batches: the engine is one process_event leaves, the consumer's picture is
\* of pairs of the engine's, and updates were sent.
TypeInv ==
  /\ engine \in EngineStates(AnyRules, AnySequences)
  /\ WellFormed(engine.entities)
  /\ view \subseteq Entities \X Geometries
  /\ sent \in Nat

\* Ids are numbers.
LEMMA Numbers == NumberedIds
BY BatchAssumption

\* The initial state is typed.
LEMMA TypeInvInit == Init => TypeInv
BY BatchAssumption DEF Init, TypeInv

\* The engine takes this batch, with these failures, and the consumer its output.
Takes(batch, broken) ==
  LET result == ProcessBatch(engine, batch, broken)
  IN  /\ engine' = result.engine
      /\ out' = [batch |-> batch, broken |-> broken,
                 events |-> result.events, errors |-> result.errors]
      /\ view' = FoldLeft(See, view, result.events)

\* What a step does: nothing, or a batch.
LEMMA StepIsBatch ==
  ASSUME TypeInv, [Next]_vars
  PROVE  \/ UNCHANGED vars
         \/ \E N \in Nat \ {0} : \E batch \in [1 .. N -> Updates] : \E broken :
              Takes(batch, broken) /\ sent' = sent + N
<1>1. CASE Next
  <2>1. PICK n \in 1 .. MaxUpdates - sent : \E batch \in [1 .. n -> Updates] :
          \E failing \in {f \in SUBSET (1 .. n) : Cardinality(f) <= MaxBroken} :
            \E broken \in [failing -> StoreFaults] : Flush(batch, broken)
    BY <1>1, Zenon DEF Next
  <2>2. PICK batch \in [1 .. n -> Updates] :
          \E failing \in {f \in SUBSET (1 .. n) : Cardinality(f) <= MaxBroken} :
            \E broken \in [failing -> StoreFaults] : Flush(batch, broken)
    BY <2>1
  <2>3. PICK broken : Flush(batch, broken)
    BY <2>2, Zenon
  <2>4. n \in Nat \ {0} /\ Len(batch) = n
    BY BatchAssumption DEF TypeInv
  <2>5. Takes(batch, broken) /\ sent' = sent + Len(batch)
    BY <2>3, Zenon DEF Flush, Takes
  <2>6. QED
    BY <2>4, <2>5, Zenon
<1>2. QED
  BY <1>1

\* Every batch keeps the type invariant.
LEMMA TypeInvNext == TypeInv /\ [Next]_vars => TypeInv'
<1> SUFFICES ASSUME TypeInv, [Next]_vars PROVE TypeInv'
  OBVIOUS
<1>1. CASE UNCHANGED vars
  BY <1>1 DEF vars, TypeInv
<1>2. CASE ~UNCHANGED vars
  <2>1. PICK N \in Nat \ {0} : \E batch \in [1 .. N -> Updates] : \E broken :
          Takes(batch, broken) /\ sent' = sent + N
    BY <1>2, StepIsBatch, Zenon
  <2>2. PICK batch \in [1 .. N -> Updates] : \E broken : Takes(batch, broken) /\ sent' = sent + N
    BY <2>1, Zenon
  <2>3. PICK broken : Takes(batch, broken) /\ sent' = sent + N
    BY <2>2
  <2>4. PICK result : result = ProcessBatch(engine, batch, broken)
    OBVIOUS
  <2>5. engine' = result.engine /\ view' = FoldLeft(See, view, result.events)
    BY <2>3, <2>4, Zenon DEF Takes
  <2>6. /\ engine \in EngineStates(AnyRules, AnySequences) /\ WellFormed(engine.entities)
        /\ view \subseteq Entities \X Geometries /\ N \in Nat
    BY DEF TypeInv
  <2>7. result.engine \in EngineStates(AnyRules, AnySequences) /\ WellFormed(result.engine.entities)
    BY <2>4, <2>6, Numbers, BatchKeepsType
  <2>8. FoldLeft(See, view, result.events) \subseteq Entities \X Geometries
    <3> PICK known : known = view
      OBVIOUS
    <3>1. FoldLeft(See, known, result.events) \subseteq Entities \X Geometries
      BY <2>4, <2>6, Numbers, BatchKnows
    <3>2. QED
      BY <3>1
  <2>9. engine' \in EngineStates(AnyRules, AnySequences) /\ WellFormed(engine'.entities)
    BY <2>5, <2>7
  <2>10. view' \subseteq Entities \X Geometries
    BY <2>5, <2>8
  <2>11. QED
    BY <2>3, <2>9, <2>10 DEF TypeInv
<1>3. QED
  BY <1>1, <1>2

\* Whatever batches are sent and however calls fail, the engine between two batches
\* has its type, and no history is longer than its limit.
THEOREM BatchTypeCorrect == Spec => []TypeInv
BY TypeInvInit, TypeInvNext, PTL DEF Spec

\* A batch refuses the updates older than what their entity had before it, if the call
\* could read that, and no others: sorting by time keeps the updates of a batch from
\* refusing each other, and a call that fails in the middle of process_batch takes none
\* down with it.
THEOREM BatchRefusals == Spec => RefusesOnlyLateArrivals
<1> DEFINE A == LET calls == SortUpdates(out'.batch)
                    TooLate(u) == LET last == engine.entities[u.id].last_t_ms
                               IN  last # None /\ last > u.t_ms
                IN  \A u \in Range(out'.batch) :
                      (\E k \in DOMAIN out'.errors : out'.errors[k] = [update |-> u, error |-> "monotonicity"])
                        <=> TooLate(u) /\ \E n \in DOMAIN calls : calls[n] = u /\ FaultOf(out'.broken, n) # "get"
           Fair(u) == (\E k \in DOMAIN out'.errors : out'.errors[k] = [update |-> u, error |-> "monotonicity"])
                        <=> /\ LET last == engine.entities[u.id].last_t_ms
                               IN  last # None /\ last > u.t_ms
                            /\ \E n \in DOMAIN SortUpdates(out'.batch) :
                                 SortUpdates(out'.batch)[n] = u /\ FaultOf(out'.broken, n) # "get"
<1>1. TypeInv /\ [Next]_vars => [A]_vars
  <2> SUFFICES ASSUME TypeInv, [Next]_vars PROVE A \/ UNCHANGED vars
    OBVIOUS
  <2>1. CASE UNCHANGED vars
    BY <2>1
  <2>2. CASE ~UNCHANGED vars
    <3>1. PICK N \in Nat \ {0} : \E batch \in [1 .. N -> Updates] : \E broken :
            Takes(batch, broken) /\ sent' = sent + N
      BY <2>2, StepIsBatch, Zenon
    <3>2. PICK batch \in [1 .. N -> Updates] : \E broken : Takes(batch, broken) /\ sent' = sent + N
      BY <3>1, Zenon
    <3>3. PICK broken : Takes(batch, broken)
      BY <3>2
    <3>4. PICK errors : errors = ProcessBatch(engine, batch, broken).errors
      OBVIOUS
    <3>5. out' = [batch |-> batch, broken |-> broken,
                  events |-> ProcessBatch(engine, batch, broken).events, errors |-> errors]
      BY <3>3, <3>4, Zenon DEF Takes
    <3>6. out'.batch = batch /\ out'.broken = broken /\ out'.errors = errors /\ DOMAIN batch = 1 .. N
      BY <3>5
    <3>7. /\ engine \in EngineStates(AnyRules, AnySequences) /\ WellFormed(engine.entities) /\ N \in Nat
      BY DEF TypeInv
    <3>8. DOMAIN SortUpdates(batch) = 1 .. N
      BY <3>6 DEF SortUpdates
    <3>9. ASSUME NEW i \in 1 .. N PROVE Fair(batch[i])
      <4>1. Refused(errors, batch[i])
              <=> LET last == engine.entities[batch[i].id].last_t_ms
                  IN  /\ CanRead(SortUpdates(batch), N, broken, batch[i])
                      /\ last # None /\ last > batch[i].t_ms
        BY <3>4, <3>7, Numbers, RefusedInBatch
      <4>2. QED
        BY <3>6, <3>8, <4>1, Zenon DEF Refused, CanRead
    <3>10. ASSUME NEW u \in Range(out'.batch) PROVE Fair(u)
      <4> HIDE DEF Fair
      <4>1. QED
        BY <3>6, <3>9 DEF Range
    <3>11. A
      BY <3>10, Zenon
    <3>12. QED
      BY <3>11
  <2>3. QED
    BY <2>1, <2>2
<1>2. QED
  BY <1>1, TypeInvInit, TypeInvNext, PTL DEF Spec, RefusesOnlyLateArrivals

\* Without ties, the sort does not see the order in which the updates were sent.
LEMMA ShuffledSortsAlike ==
  ASSUME NEW N \in Nat, NEW batch \in [1 .. N -> Updates], NoTies(batch),
         NEW p \in Reorderings(1 .. N)
  PROVE  /\ Shuffled(batch, p) \in [1 .. N -> Updates]
         /\ SortUpdates(Shuffled(batch, p)) = SortUpdates(batch)
<1> DEFINE again == Shuffled(batch, p)
           R == BatchOrder(batch)
<1>1. /\ p \in [1 .. N -> 1 .. N]
      /\ \A w \in 1 .. N : \E v \in 1 .. N : p[v] = w
      /\ DOMAIN batch = 1 .. N
  BY DEF Reorderings
<1>2. again \in [1 .. N -> Updates] /\ \A i \in 1 .. N : again[i] = batch[p[i]] /\ p[i] \in 1 .. N
  BY <1>1 DEF Shuffled
<1>3. \A i, j \in 1 .. N : i # j => p[i] # p[j]
  <2>1. IsFiniteSet(1 .. N) /\ Cardinality(1 .. N) = N
    BY FS_Interval
  <2>2. p \in Surjection(1 .. N, 1 .. N)
    BY <1>1 DEF Surjection
  <2>3. p \in Injection(1 .. N, 1 .. N)
    BY <2>1, <2>2, FS_SurjSameCardinalityImpliesInj
  <2>4. QED
    BY <2>3 DEF Injection, IsInjective
<1> HIDE DEF again
<1>4. PICK order \in [1 .. N -> 1 .. N] :
        /\ InOrder(order, 1 .. N, R)
        /\ SortUpdates(batch) = [n \in 1 .. N |-> batch[order[n]]]
  BY Numbers, SortUpdatesIsSort
<1>5. PICK order2 \in [1 .. N -> 1 .. N] :
        /\ InOrder(order2, 1 .. N, BatchOrder(again))
        /\ SortUpdates(again) = [n \in 1 .. N |-> again[order2[n]]]
  BY <1>2, Numbers, SortUpdatesIsSort
<1> DEFINE s == [n \in 1 .. N |-> p[order2[n]]]
<1>6. \A n \in 1 .. N : s[n] = p[order2[n]] /\ order2[n] \in 1 .. N /\ s[n] \in 1 .. N
  BY <1>1
<1> HIDE DEF s
<1>7. InOrder(s, 1 .. N, R)
  <2>1. Cardinality(1 .. N) = N
    BY FS_Interval
  <2>2. ASSUME NEW i \in 1 .. N, NEW j \in 1 .. N, i < j
        PROVE  <<s[i], s[j]>> \in R
    <3> DEFINE a == order2[i]
               b == order2[j]
    <3>1. a \in 1 .. N /\ b \in 1 .. N /\ s[i] = p[a] /\ s[j] = p[b] /\ p[a] \in 1 .. N /\ p[b] \in 1 .. N
      BY <1>2, <1>6
    <3>2. <<a, b>> \in BatchOrder(again)
      BY <1>5, <2>1, <2>2 DEF InOrder
    <3>3. Precedes(again, a, b) /\ a # b
      BY <1>2, <3>1, <3>2, Numbers, BatchOrderIsOrder DEF Orders
    <3>4. batch[p[a]].id # batch[p[b]].id \/ batch[p[a]].t_ms # batch[p[b]].t_ms
      BY <1>1, <1>3, <3>1, <3>3 DEF NoTies
    <3>5. Precedes(batch, p[a], p[b])
      BY <1>2, <3>1, <3>3, <3>4 DEF Precedes
    <3> HIDE DEF a, b
    <3>6. QED
      BY <3>1, <3>5, Numbers, BatchOrderIsOrder
  <2>3. \A w \in 1 .. N : \E n \in 1 .. N : order2[n] = w
    BY <1>5, <2>1 DEF InOrder
  <2>4. ASSUME NEW w \in 1 .. N PROVE \E n \in 1 .. N : s[n] = w
    <3>1. PICK v \in 1 .. N : p[v] = w
      BY <1>1
    <3>2. PICK n \in 1 .. N : order2[n] = v
      BY <2>3
    <3>3. QED
      BY <1>6, <3>1, <3>2
  <2>5. QED
    BY <1>6, <2>1, <2>2, <2>4 DEF InOrder
<1>8. \A n \in 1 .. N : s[n] = order[n]
  <2>1. Cardinality(1 .. N) = N
    BY FS_Interval
  <2>2. Orders(R, 1 .. N)
    BY Numbers, BatchOrderIsOrder
  <2> HIDE DEF R
  <2>3. \A n \in 1 .. Cardinality(1 .. N) : s[n] = order[n]
    BY <1>4, <1>7, <2>2, InOrderIsUnique
  <2>4. QED
    BY <2>1, <2>3
<1>9. \A n \in 1 .. N : again[order2[n]] = batch[order[n]]
  BY <1>2, <1>6, <1>8
<1>10. SortUpdates(again) = SortUpdates(batch)
  BY <1>4, <1>5, <1>9
<1>11. QED
  BY <1>2, <1>10 DEF again

\* Whatever the order in which the updates of a batch arrive, process_batch leaves the
\* same engine, events and errors, if no entity has two updates at one time.
THEOREM BatchOrderOfArrival == Spec => ShufflingChangesNothing
<1> DEFINE A == NoTies(out'.batch) /\ out'.broken = <<>> =>
                  \A order \in Reorderings(DOMAIN out'.batch) :
                    LET again == ProcessBatch(engine, Shuffled(out'.batch, order), <<>>)
                    IN  /\ again.engine = engine'
                        /\ again.events = out'.events
                        /\ again.errors = out'.errors
<1>1. TypeInv /\ [Next]_vars => [A]_vars
  <2> SUFFICES ASSUME TypeInv, [Next]_vars PROVE A \/ UNCHANGED vars
    OBVIOUS
  <2>1. CASE UNCHANGED vars
    BY <2>1
  <2>2. CASE ~UNCHANGED vars
    <3>1. PICK N \in Nat \ {0} : \E batch \in [1 .. N -> Updates] : \E broken :
            Takes(batch, broken) /\ sent' = sent + N
      BY <2>2, StepIsBatch, Zenon
    <3>2. PICK batch \in [1 .. N -> Updates] : \E broken : Takes(batch, broken) /\ sent' = sent + N
      BY <3>1, Zenon
    <3>3. PICK broken :
              /\ engine' = ProcessBatch(engine, batch, broken).engine
              /\ out' = [batch |-> batch, broken |-> broken,
                         events |-> ProcessBatch(engine, batch, broken).events,
                         errors |-> ProcessBatch(engine, batch, broken).errors]
      BY <3>2, Zenon DEF Takes
    <3>4. /\ out'.batch = batch /\ out'.broken = broken /\ DOMAIN batch = 1 .. N
          /\ out'.events = ProcessBatch(engine, batch, broken).events
          /\ out'.errors = ProcessBatch(engine, batch, broken).errors
      BY <3>3
    <3>5. ASSUME NoTies(batch), broken = <<>>, NEW order \in Reorderings(1 .. N)
          PROVE  ProcessBatch(engine, Shuffled(batch, order), <<>>) = ProcessBatch(engine, batch, broken)
      <4>1. engine \in EngineStates(AnyRules, AnySequences) /\ WellFormed(engine.entities) /\ N \in Nat
        BY DEF TypeInv
      <4>2. /\ Shuffled(batch, order) \in [1 .. N -> Updates]
            /\ SortUpdates(Shuffled(batch, order)) = SortUpdates(batch)
        BY <3>5, <4>1, ShuffledSortsAlike
      <4>3. QED
        BY <3>5, <4>1, <4>2, Numbers, BatchIsItsSort
    <3>6. A
      BY <3>3, <3>4, <3>5
    <3>7. QED
      BY <3>6
  <2>3. QED
    BY <2>1, <2>2
<1>2. QED
  BY <1>1, TypeInvInit, TypeInvNext, PTL DEF Spec, ShufflingChangesNothing

\* A consumer that knows whether an entity is in a geometry before a batch, and folds the
\* events in the order process_batch returns them, knows it after the batch, if the entity
\* has no two updates at one time and none of its calls fails with its write applied: the
\* sort never puts an exit after the enter that followed it.
THEOREM BatchOutputFolds == Spec => OutputFoldsToMembership
<1> DEFINE Follows(e, g) ==
             /\ Untied(out'.batch, e) /\ NoneLost(out'.batch, out'.broken, e)
             /\ <<e, g>> \in view <=> <<e, g>> \in Membership
             => (<<e, g>> \in view' <=> <<e, g>> \in Membership')
           A == \A e \in Entities, g \in Geometries : Follows(e, g)
<1>1. TypeInv /\ [Next]_vars => [A]_vars
  <2> SUFFICES ASSUME TypeInv, [Next]_vars PROVE A \/ UNCHANGED vars
    OBVIOUS
  <2>1. CASE UNCHANGED vars
    BY <2>1
  <2>2. CASE ~UNCHANGED vars
    <3>1. PICK N \in Nat \ {0} : \E batch \in [1 .. N -> Updates] : \E broken :
            Takes(batch, broken) /\ sent' = sent + N
      BY <2>2, StepIsBatch, Zenon
    <3>2. PICK batch \in [1 .. N -> Updates] : \E broken : Takes(batch, broken) /\ sent' = sent + N
      BY <3>1, Zenon
    <3>3. PICK broken : Takes(batch, broken)
      BY <3>2
    <3>4. PICK result, known : result = ProcessBatch(engine, batch, broken) /\ known = view
      OBVIOUS
    <3>5. /\ engine' = result.engine
          /\ out' = [batch |-> batch, broken |-> broken,
                     events |-> result.events, errors |-> result.errors]
          /\ view' = FoldLeft(See, known, result.events)
      BY <3>3, <3>4, Zenon DEF Takes
    <3>6. /\ engine \in EngineStates(AnyRules, AnySequences) /\ WellFormed(engine.entities) /\ N \in Nat
          /\ known \subseteq Entities \X Geometries
      BY <3>4 DEF TypeInv
    <3>7. \A e \in Entities, g \in Geometries :
            Untied(batch, e) /\ NoneLost(batch, broken, e) /\ Aware(known, engine.entities, e, g)
              => Aware(FoldLeft(See, known, result.events), result.engine.entities, e, g)
      BY <3>4, <3>6, Numbers, BatchKnows
    <3>8. out'.batch = batch /\ out'.broken = broken
      BY <3>5
    <3>9. ASSUME NEW e \in Entities, NEW g \in Geometries PROVE Follows(e, g)
      <4>1. Aware(view, engine.entities, e, g) <=> (<<e, g>> \in view <=> <<e, g>> \in Membership)
        BY DEF Aware, Membership, Inside
      <4>2. Aware(view', engine'.entities, e, g) <=> (<<e, g>> \in view' <=> <<e, g>> \in Membership')
        BY DEF Aware, Membership, Inside
      <4>3. /\ Untied(batch, e) /\ NoneLost(batch, broken, e) /\ Aware(view, engine.entities, e, g)
            => Aware(view', engine'.entities, e, g)
        BY <3>4, <3>5, <3>7
      <4>4. QED
        BY <3>8, <4>1, <4>2, <4>3
    <3> HIDE DEF Follows
    <3>10. A
      BY <3>9
    <3>11. QED
      BY <3>10
  <2>3. QED
    BY <2>1, <2>2
<1>2. QED
  BY <1>1, TypeInvInit, TypeInvNext, PTL DEF Spec, OutputFoldsToMembership

-----------------------------------------------------------------------------
\* The places of an entity's items in a list of N are w[1], w[2] up to w[M].
Picks(w, M, N, items, e) ==
  /\ w \in [1 .. M -> 1 .. N]
  /\ \A i, j \in 1 .. M : i < j => w[i] < w[j]
  /\ \A n \in 1 .. N : items[n].id = e <=> \E i \in 1 .. M : w[i] = n

\* An entity's items, from these places, on their own.
IsAlone(alone, w, M, N, items, e) ==
  Picks(w, M, N, items, e) /\ alone = [k \in 1 .. M |-> items[w[k]]]

\* The places of an entity's items, as a set.
PlacesOf(N, items, e) == {n \in 1 .. N : items[n].id = e}

\* The order of numbers, as a relation.
Less(S) == {p \in S \X S : p[1] < p[2]}

\* It is a strict total order.
LEMMA LessIsOrder ==
  ASSUME NEW S, S \subseteq Int
  PROVE  Orders(Less(S), S) /\ \A a, b \in S : <<a, b>> \in Less(S) <=> a < b
<1>1. \A a, b \in S : <<a, b>> \in Less(S) <=> a < b
  BY DEF Less
<1> DEFINE R == Less(S)
<1>2. \A a, b \in S : <<a, b>> \in R <=> a < b
  BY <1>1
<1> HIDE DEF R
<1>3. \A a \in S : <<a, a>> \notin R
  BY <1>2
<1>4. ASSUME NEW a \in S, NEW b \in S, NEW c \in S, <<a, b>> \in R, <<b, c>> \in R
      PROVE  <<a, c>> \in R
  BY <1>2, <1>4
<1>5. ASSUME NEW a \in S, NEW b \in S, a # b
      PROVE  <<a, b>> \in R \/ <<b, a>> \in R
  BY <1>2, <1>5
<1>6. QED
  BY <1>1, <1>3, <1>4, <1>5 DEF Orders, R

\* OfEntity picks them, in their order.
LEMMA OfEntityPicks ==
  ASSUME NEW N \in Nat, NEW items, DOMAIN items = 1 .. N, NEW e
  PROVE  \E M \in Nat : \E w : IsAlone(OfEntity(items, e), w, M, N, items, e)
<1> DEFINE S == {n \in DOMAIN items : items[n].id = e}
           R == Less(S)
           M == Cardinality(S)
           w == [n \in 1 .. Cardinality(S) |->
                   CHOOSE a \in S : Cardinality({b \in S : Before(<<b>>, <<a>>)}) = n - 1]
<1>1. OfEntity(items, e) = [k \in DOMAIN w |-> items[w[k]]]
  BY Zenon DEF OfEntity, SortedBy
<1>2. S \subseteq 1 .. N /\ IsFiniteSet(S) /\ M \in Nat
  <2>1. S \subseteq 1 .. N
    OBVIOUS
  <2>2. IsFiniteSet(1 .. N)
    BY FS_Interval
  <2> HIDE DEF S
  <2>3. QED
    BY <2>1, <2>2, FS_Subset, FS_CardinalityType
<1>3. \A n \in 1 .. N : n \in S <=> items[n].id = e
  OBVIOUS
<1> HIDE DEF S
<1>4. Orders(R, S) /\ \A a, b \in S : <<a, b>> \in R <=> a < b
  <2>1. S \subseteq Int
    BY <1>2
  <2>2. QED
    BY <2>1, LessIsOrder
<1>5. ASSUME NEW a \in S, NEW b \in S
      PROVE  Before(<<b>>, <<a>>) <=> <<b, a>> \in R
  <2> DEFINE x == <<b>>
             y == <<a>>
  <2>1. DOMAIN x = {1} /\ 1 .. 1 - 1 = {} /\ x[1] = b /\ y[1] = a
    OBVIOUS
  <2> HIDE DEF x, y
  <2>2. Before(x, y) <=> b < a
    BY <2>1 DEF Before
  <2>3. QED
    BY <1>4, <2>2 DEF x, y
<1> HIDE DEF R
<1>6. \A a \in S : {b \in S : Before(<<b>>, <<a>>)} = {b \in S : <<b, a>> \in R}
  BY <1>5
<1>7. \A n \in 1 .. Cardinality(S) :
        (\E a \in S : Cardinality({b \in S : <<b, a>> \in R}) = n - 1)
        => w[n] \in S /\ Cardinality({b \in S : <<b, w[n]>> \in R}) = n - 1
  BY <1>6
<1>8. DOMAIN w = 1 .. M
  OBVIOUS
<1> HIDE DEF w
<1>9. InOrder(w, S, R)
  BY <1>2, <1>4, <1>7, Sorted
<1> HIDE DEF M
<1>10. /\ \A n \in 1 .. M : w[n] \in S
       /\ \A i, j \in 1 .. M : i < j => <<w[i], w[j]>> \in R
       /\ \A a \in S : \E n \in 1 .. M : w[n] = a
  BY <1>9 DEF InOrder, M
<1> DEFINE v == [n \in 1 .. M |-> w[n]]
<1>11. \A n \in 1 .. M : w[n] \in 1 .. N /\ v[n] = w[n]
  BY <1>2, <1>10
<1>12. v \in [1 .. M -> 1 .. N]
  BY <1>11
<1> HIDE DEF v
<1>13. \A i, j \in 1 .. M : i < j => v[i] < v[j]
  BY <1>4, <1>10, <1>11
<1>14. \A n \in 1 .. N : items[n].id = e <=> \E i \in 1 .. M : v[i] = n
  BY <1>3, <1>10, <1>11
<1>15. Picks(v, M, N, items, e)
  BY <1>12, <1>13, <1>14 DEF Picks
<1>16. OfEntity(items, e) = [k \in 1 .. M |-> items[v[k]]]
  BY <1>1, <1>8, <1>11
<1>17. QED
  BY <1>2, <1>15, <1>16 DEF IsAlone

\* There is one such list of places.
LEMMA PicksAgree ==
  ASSUME NEW N \in Nat, NEW items, NEW e, NEW M \in Nat, NEW K \in Nat, NEW w, NEW v,
         Picks(w, M, N, items, e), Picks(v, K, N, items, e)
  PROVE  M = K /\ w = v
<1> DEFINE S == PlacesOf(N, items, e)
           R == Less(S)
<1>1. /\ S \subseteq Int
      /\ \A n \in 1 .. N : n \in S <=> items[n].id = e
      /\ S \subseteq 1 .. N
  BY DEF PlacesOf
<1> HIDE DEF S
<1>2. Orders(R, S) /\ \A a, b \in S : <<a, b>> \in R <=> a < b
  BY <1>1, LessIsOrder
<1> HIDE DEF R
<1>3. ASSUME NEW L \in Nat, NEW x, Picks(x, L, N, items, e)
      PROVE  L = Cardinality(S) /\ InOrder(x, S, R)
  <2>1. /\ x \in [1 .. L -> 1 .. N]
        /\ \A i, j \in 1 .. L : i < j => x[i] < x[j]
        /\ \A n \in 1 .. N : items[n].id = e <=> \E i \in 1 .. L : x[i] = n
    BY <1>3 DEF Picks
  <2>2. /\ \A i \in 1 .. L : x[i] \in S
        /\ \A a \in S : \E i \in 1 .. L : x[i] = a
    BY <1>1, <2>1
  <2>3. x \in [1 .. L -> S]
    BY <2>1, <2>2
  <2>4. \A i, j \in 1 .. L : x[i] = x[j] => i = j
    <3> SUFFICES ASSUME NEW i \in 1 .. L, NEW j \in 1 .. L, i # j PROVE x[i] # x[j]
      OBVIOUS
    <3>1. i < j \/ j < i
      OBVIOUS
    <3>2. x[i] < x[j] \/ x[j] < x[i]
      BY <2>1, <3>1
    <3>3. x[i] \in Int /\ x[j] \in Int
      BY <2>1
    <3>4. QED
      BY <3>2, <3>3
  <2>5. x \in Bijection(1 .. L, S)
    BY <2>2, <2>3, <2>4 DEF Bijection, Injection, IsInjective, Surjection
  <2>6. ExistsBijection(1 .. L, S)
    BY <2>5 DEF ExistsBijection
  <2>7. IsFiniteSet(1 .. L) /\ Cardinality(1 .. L) = L
    BY FS_Interval
  <2>8. Cardinality(S) = L
    BY <2>6, <2>7, FS_Bijection
  <2>9. \A i, j \in 1 .. L : i < j => <<x[i], x[j]>> \in R
    BY <1>2, <2>1, <2>2
  <2>10. QED
    BY <2>2, <2>8, <2>9 DEF InOrder
<1>4. M = Cardinality(S) /\ K = Cardinality(S) /\ InOrder(w, S, R) /\ InOrder(v, S, R)
  BY <1>3
<1>5. \A n \in 1 .. M : w[n] = v[n]
  BY <1>2, <1>4, InOrderIsUnique
<1>6. w \in [1 .. M -> 1 .. N] /\ v \in [1 .. M -> 1 .. N]
  BY <1>4 DEF Picks
<1>7. QED
  BY <1>4, <1>5, <1>6

\* Some members of T, in the order R.
Among(x, M, T, R) ==
  /\ \A i \in 1 .. M : x[i] \in T
  /\ \A i, j \in 1 .. M : i < j => <<x[i], x[j]>> \in R

\* The places in a list of C where the members of another one are.
Weaves(w, x, M, q, C) ==
  /\ w \in [1 .. M -> 1 .. C]
  /\ \A i, j \in 1 .. M : i < j => w[i] < w[j]
  /\ \A i \in 1 .. M, n \in 1 .. C : q[n] = x[i] <=> w[i] = n

\* Members of T that are in order have their places, in that order, in the list of all.
LEMMA Woven ==
  ASSUME NEW T, NEW R, Orders(R, T), NEW q, InOrder(q, T, R), NEW M \in Nat, NEW x, Among(x, M, T, R)
  PROVE  \E w : Weaves(w, x, M, q, Cardinality(T))
<1> DEFINE C == Cardinality(T)
           w == [i \in 1 .. M |-> CHOOSE n \in 1 .. C : q[n] = x[i]]
<1>1. /\ C \in Nat
      /\ \A n \in 1 .. C : q[n] \in T
      /\ \A i, j \in 1 .. C : i < j => <<q[i], q[j]>> \in R
      /\ \A a \in T : \E n \in 1 .. C : q[n] = a
  BY DEF InOrder
<1> HIDE DEF C
<1>2. \A i \in 1 .. M : w[i] \in 1 .. C /\ q[w[i]] = x[i]
  BY <1>1 DEF Among
<1>3. w \in [1 .. M -> 1 .. C]
  BY <1>2
<1> HIDE DEF w
<1>4. ASSUME NEW m \in 1 .. C, NEW n \in 1 .. C, <<q[m], q[n]>> \in R
      PROVE  m < n
  <2>1. CASE m = n
    BY <1>1, <1>4, <2>1 DEF Orders
  <2>2. CASE n < m
    <3>1. <<q[n], q[m]>> \in R /\ q[n] \in T /\ q[m] \in T
      BY <1>1, <2>2
    <3>2. QED
      BY <1>4, <3>1 DEF Orders
  <2>3. QED
    BY <1>1, <2>1, <2>2
<1>5. \A i, j \in 1 .. M : i < j => w[i] < w[j]
  BY <1>2, <1>4 DEF Among
<1>6. ASSUME NEW m \in 1 .. C, NEW n \in 1 .. C, q[m] = q[n]
      PROVE  m = n
  <2>1. m < n \/ n < m \/ m = n
    BY <1>1
  <2>2. q[m] \in T /\ <<q[m], q[n]>> \notin R /\ <<q[n], q[m]>> \notin R
    BY <1>1, <1>6 DEF Orders
  <2>3. QED
    BY <1>1, <2>1, <2>2
<1>7. \A i \in 1 .. M, n \in 1 .. C : q[n] = x[i] <=> w[i] = n
  BY <1>2, <1>6
<1>8. QED
  BY <1>3, <1>5, <1>7 DEF C, Weaves

-----------------------------------------------------------------------------
\* Two engines that nothing tells apart as far as one entity is concerned.
Twin(a, b, e) ==
  /\ SameSetup(a, b)
  /\ a.entities[e] = b.entities[e]
  /\ DOMAIN a.sequence_rules = DOMAIN b.sequence_rules
  /\ \A i \in DOMAIN a.sequence_rules :
       /\ a.sequence_rules[i].rule = b.sequence_rules[i].rule
       /\ a.sequence_rules[i].progress[e] = b.sequence_rules[i].progress[e]

\* They advance the entity alike.
LEMMA TwinAfter ==
  ASSUME NEW a, NEW b, NEW u, Twin(a, b, u.id)
  PROVE  After(a, u) = After(b, u) /\ Crossings(a, u) = Crossings(b, u)
<1>1. a.area = b.area /\ a.dwell = b.dwell /\ a.entities[u.id] = b.entities[u.id]
  BY DEF Twin, SameSetup
<1>2. After(a, u) = After(b, u)
  BY <1>1, Zenon DEF After, Advance, Covers
<1>3. QED
  BY <1>1, <1>2, Zenon DEF Crossings

\* Their rules report the same.
LEMMA TwinFires ==
  ASSUME NEW a, NEW b, NEW u, Twin(a, b, u.id), NEW events, NEW motion
  PROVE  /\ CustomEvents(a, events, motion, u) = CustomEvents(b, events, motion, u)
         /\ SequenceEvents(a, events, u) = SequenceEvents(b, events, u)
<1>1. a.configurable_rules = b.configurable_rules
  BY DEF Twin, SameSetup
<1>2. CustomEvents(a, events, motion, u) = CustomEvents(b, events, motion, u)
  BY <1>1, Zenon DEF CustomEvents
<1>3. /\ DOMAIN a.sequence_rules = DOMAIN b.sequence_rules
      /\ \A i \in DOMAIN a.sequence_rules : a.sequence_rules[i].rule = b.sequence_rules[i].rule
  BY DEF Twin
<1>4. \A i \in DOMAIN a.sequence_rules :
        FireOf(a.sequence_rules[i], events, u) = FireOf(b.sequence_rules[i], events, u)
  <2>1. \A i \in DOMAIN a.sequence_rules :
          /\ a.sequence_rules[i].rule = b.sequence_rules[i].rule
          /\ a.sequence_rules[i].progress[u.id] = b.sequence_rules[i].progress[u.id]
    BY DEF Twin
  <2>2. QED
    BY <2>1, Zenon DEF FireOf
<1>5. SequenceEvents(a, events, u) = SequenceEvents(b, events, u)
  BY <1>3, <1>4 DEF SequenceEvents
<1>6. QED
  BY <1>2, <1>5

\* What an update makes of the sequence rules.
LEMMA FiredRules ==
  ASSUME NEW a \in EngineStates(AnyRules, AnySequences), NEW u \in Updates, NEW events
  PROVE  /\ DOMAIN FireSequences(a, events, u) = DOMAIN a.sequence_rules
         /\ \A i \in DOMAIN a.sequence_rules :
              /\ FireSequences(a, events, u)[i].rule = a.sequence_rules[i].rule
              /\ FireSequences(a, events, u)[i].progress[u.id] = FireOf(a.sequence_rules[i], events, u).progress
              /\ \A e \in Entities : e # u.id =>
                   FireSequences(a, events, u)[i].progress[e] = a.sequence_rules[i].progress[e]
<1>1. a.sequence_rules \in Seq([rule : AnySequences, progress : [Entities -> Progresses]])
  BY DEF EngineStates
<1>2. \A i \in DOMAIN a.sequence_rules :
        a.sequence_rules[i] \in [rule : AnySequences, progress : [Entities -> Progresses]]
  <2> DEFINE S == [rule : AnySequences, progress : [Entities -> Progresses]]
  <2>1. a.sequence_rules \in Seq(S)
    BY <1>1
  <2> HIDE DEF S
  <2>2. \A i \in DOMAIN a.sequence_rules : a.sequence_rules[i] \in S
    BY <2>1, SeqElements
  <2>3. QED
    BY <2>2 DEF S
<1>3. u.id \in Entities
  BY DEF Updates
<1>4. ASSUME NEW i \in DOMAIN a.sequence_rules
      PROVE  /\ FireSequences(a, events, u)[i].rule = a.sequence_rules[i].rule
             /\ FireSequences(a, events, u)[i].progress[u.id] = FireOf(a.sequence_rules[i], events, u).progress
             /\ \A e \in Entities : e # u.id =>
                  FireSequences(a, events, u)[i].progress[e] = a.sequence_rules[i].progress[e]
  <2> DEFINE s == a.sequence_rules[i]
             q == FireOf(s, events, u).progress
  <2>1. FireSequences(a, events, u)[i] = [s EXCEPT !.progress[u.id] = q]
    BY DEF FireSequences
  <2>2. s \in [rule : AnySequences, progress : [Entities -> Progresses]]
    BY <1>2
  <2> HIDE DEF s, q
  <2>3. [s EXCEPT !.progress[u.id] = q] = [rule |-> s.rule, progress |-> [s.progress EXCEPT ![u.id] = q]]
    BY <2>2
  <2>4. s.progress \in [Entities -> Progresses]
    BY <2>2
  <2>5. /\ FireSequences(a, events, u)[i].rule = s.rule
        /\ FireSequences(a, events, u)[i].progress = [s.progress EXCEPT ![u.id] = q]
    BY <2>1, <2>3
  <2>6. QED
    BY <1>3, <2>4, <2>5 DEF s, q
<1>5. DOMAIN FireSequences(a, events, u) = DOMAIN a.sequence_rules
  BY DEF FireSequences
<1>6. QED
  BY <1>4, <1>5

\* An update of the entity leaves twins twins, and tells the same of both.
LEMMA TwinStep ==
  ASSUME NEW a \in EngineStates(AnyRules, AnySequences), NEW b \in EngineStates(AnyRules, AnySequences),
         NEW u \in Updates, Twin(a, b, u.id), NEW fault, NEW r, NEW s,
         Outcome(a, u, fault, r), Outcome(b, u, fault, s)
  PROVE  Twin(r.engine, s.engine, u.id) /\ r.events = s.events
<1>1. /\ SameSetup(a, b) /\ a.entities[u.id] = b.entities[u.id]
      /\ DOMAIN a.sequence_rules = DOMAIN b.sequence_rules
      /\ \A i \in DOMAIN a.sequence_rules :
           /\ a.sequence_rules[i].rule = b.sequence_rules[i].rule
           /\ a.sequence_rules[i].progress[u.id] = b.sequence_rules[i].progress[u.id]
  BY DEF Twin
<1>2. After(a, u) = After(b, u) /\ Crossings(a, u) = Crossings(b, u)
  BY TwinAfter
<1>3. r.error = None <=> s.error = None
  BY <1>1 DEF Outcome
<1>4. r.events = s.events
  <2>1. /\ CustomEvents(a, Crossings(a, u), After(a, u).motion, u) = CustomEvents(b, Crossings(a, u), After(a, u).motion, u)
        /\ SequenceEvents(a, Crossings(a, u), u) = SequenceEvents(b, Crossings(a, u), u)
    BY TwinFires
  <2>2. /\ r.events = IF r.error = None
                        THEN Crossings(a, u) \union CustomEvents(a, Crossings(a, u), After(a, u).motion, u)
                               \union SequenceEvents(a, Crossings(a, u), u)
                        ELSE {}
        /\ s.events = IF s.error = None
                        THEN Crossings(b, u) \union CustomEvents(b, Crossings(b, u), After(b, u).motion, u)
                               \union SequenceEvents(b, Crossings(b, u), u)
                        ELSE {}
    BY Zenon DEF Outcome
  <2>3. QED
    BY <1>2, <1>3, <2>1, <2>2
<1>5. SameSetup(r.engine, s.engine)
  BY <1>1 DEF Outcome, SameSetup
<1>6. r.engine.entities[u.id] = s.engine.entities[u.id]
  <2>1. u.id \in Entities /\ a.entities \in [Entities -> EntityStates] /\ b.entities \in [Entities -> EntityStates]
    BY DEF EngineStates, Updates
  <2>2. /\ r.engine.entities = IF Stores(a, u, fault) THEN [a.entities EXCEPT ![u.id] = After(a, u)] ELSE a.entities
        /\ s.engine.entities = IF Stores(b, u, fault) THEN [b.entities EXCEPT ![u.id] = After(b, u)] ELSE b.entities
    BY Zenon DEF Outcome
  <2>3. Stores(a, u, fault) <=> Stores(b, u, fault)
    BY <1>1 DEF Stores
  <2>4. QED
    BY <1>1, <1>2, <2>1, <2>2, <2>3
<1>7. /\ DOMAIN r.engine.sequence_rules = DOMAIN s.engine.sequence_rules
      /\ \A i \in DOMAIN r.engine.sequence_rules :
           /\ r.engine.sequence_rules[i].rule = s.engine.sequence_rules[i].rule
           /\ r.engine.sequence_rules[i].progress[u.id] = s.engine.sequence_rules[i].progress[u.id]
  <2>1. CASE ~(fault # "get" /\ Accepts(a.entities[u.id], u))
    <3>1. r.engine.sequence_rules = a.sequence_rules /\ s.engine.sequence_rules = b.sequence_rules
      BY <1>1, <2>1 DEF Outcome
    <3>2. QED
      BY <1>1, <3>1
  <2>2. CASE fault # "get" /\ Accepts(a.entities[u.id], u)
    <3> DEFINE events == Crossings(a, u)
    <3>1. /\ r.engine.sequence_rules = FireSequences(a, events, u)
          /\ s.engine.sequence_rules = FireSequences(b, events, u)
      BY <1>1, <1>2, <2>2 DEF Outcome
    <3> HIDE DEF events
    <3>2. /\ DOMAIN FireSequences(a, events, u) = DOMAIN a.sequence_rules
          /\ \A i \in DOMAIN a.sequence_rules :
               /\ FireSequences(a, events, u)[i].rule = a.sequence_rules[i].rule
               /\ FireSequences(a, events, u)[i].progress[u.id] = FireOf(a.sequence_rules[i], events, u).progress
      BY FiredRules
    <3>3. /\ DOMAIN FireSequences(b, events, u) = DOMAIN b.sequence_rules
          /\ \A i \in DOMAIN b.sequence_rules :
               /\ FireSequences(b, events, u)[i].rule = b.sequence_rules[i].rule
               /\ FireSequences(b, events, u)[i].progress[u.id] = FireOf(b.sequence_rules[i], events, u).progress
      BY FiredRules
    <3>4. \A i \in DOMAIN a.sequence_rules :
            FireOf(a.sequence_rules[i], events, u) = FireOf(b.sequence_rules[i], events, u)
      BY <1>1, Zenon DEF FireOf
    <3>5. QED
      BY <1>1, <3>1, <3>2, <3>3, <3>4
  <2>3. QED
    BY <2>1, <2>2
<1>8. QED
  BY <1>4, <1>5, <1>6, <1>7 DEF Twin

\* An update of another entity leaves twins twins, although only one of them takes it.
LEMMA TwinOther ==
  ASSUME NEW a \in EngineStates(AnyRules, AnySequences), NEW b, NEW e \in Entities, Twin(a, b, e),
         NEW u \in Updates, u.id # e, NEW fault, NEW r, Outcome(a, u, fault, r)
  PROVE  Twin(r.engine, b, e)
<1>1. /\ SameSetup(a, b) /\ a.entities[e] = b.entities[e]
      /\ DOMAIN a.sequence_rules = DOMAIN b.sequence_rules
      /\ \A i \in DOMAIN a.sequence_rules :
           /\ a.sequence_rules[i].rule = b.sequence_rules[i].rule
           /\ a.sequence_rules[i].progress[e] = b.sequence_rules[i].progress[e]
  BY DEF Twin
<1>2. SameSetup(r.engine, b)
  BY <1>1 DEF Outcome, SameSetup
<1>3. r.engine.entities[e] = a.entities[e]
  <2>1. a.entities \in [Entities -> EntityStates]
    BY DEF EngineStates
  <2>2. r.engine.entities = IF Stores(a, u, fault) THEN [a.entities EXCEPT ![u.id] = After(a, u)] ELSE a.entities
    BY Zenon DEF Outcome
  <2>3. QED
    BY <2>1, <2>2
<1>4. /\ DOMAIN r.engine.sequence_rules = DOMAIN a.sequence_rules
      /\ \A i \in DOMAIN a.sequence_rules :
           /\ r.engine.sequence_rules[i].rule = a.sequence_rules[i].rule
           /\ r.engine.sequence_rules[i].progress[e] = a.sequence_rules[i].progress[e]
  <2> DEFINE events == Crossings(a, u)
  <2>1. r.engine.sequence_rules = a.sequence_rules \/ r.engine.sequence_rules = FireSequences(a, events, u)
    BY DEF Outcome
  <2> HIDE DEF events
  <2>2. /\ DOMAIN FireSequences(a, events, u) = DOMAIN a.sequence_rules
        /\ \A i \in DOMAIN a.sequence_rules :
             /\ FireSequences(a, events, u)[i].rule = a.sequence_rules[i].rule
             /\ \A d \in Entities : d # u.id =>
                  FireSequences(a, events, u)[i].progress[d] = a.sequence_rules[i].progress[d]
    BY FiredRules
  <2>3. QED
    BY <2>1, <2>2
<1>5. QED
  BY <1>1, <1>2, <1>3, <1>4 DEF Twin

-----------------------------------------------------------------------------
\* What is picked from the updates of a batch is updates, all of that entity's.
LEMMA AloneType ==
  ASSUME NEW N \in Nat, NEW updates \in [1 .. N -> Updates], NEW M \in Nat, NEW e,
         NEW w, NEW alone, IsAlone(alone, w, M, N, updates, e)
  PROVE  /\ alone \in [1 .. M -> Updates]
         /\ \A i \in 1 .. M : w[i] \in 1 .. N /\ alone[i] = updates[w[i]] /\ alone[i].id = e
         /\ \A i, j \in 1 .. M : i < j => w[i] < w[j]
         /\ \A n \in 1 .. N : updates[n].id = e => \E i \in 1 .. M : w[i] = n
<1>1. /\ w \in [1 .. M -> 1 .. N]
      /\ \A i, j \in 1 .. M : i < j => w[i] < w[j]
      /\ \A n \in 1 .. N : updates[n].id = e <=> \E i \in 1 .. M : w[i] = n
      /\ alone = [k \in 1 .. M |-> updates[w[k]]]
  BY DEF IsAlone, Picks
<1>2. \A i \in 1 .. M : w[i] \in 1 .. N /\ alone[i] = updates[w[i]] /\ alone[i].id = e /\ alone[i] \in Updates
  BY <1>1
<1>3. alone \in [1 .. M -> Updates]
  BY <1>1, <1>2
<1>4. QED
  BY <1>1, <1>2, <1>3

\* Sorting the updates of one entity on their own puts them in the order they have
\* among the others.
LEMMA AloneSortsAlike ==
  ASSUME NumberedIds, NEW N \in Nat, NEW batch \in [1 .. N -> Updates], NEW e, NEW M \in Nat,
         NEW p, NEW sub, IsAlone(sub, p, M, N, batch, e),
         NEW eng, NEW order, NEW updates, NEW run, BehindBatch(eng, N, batch, <<>>, order, updates, run),
         NEW own, NEW alone, NEW other, BehindBatch(eng, M, sub, <<>>, own, alone, other)
  PROVE  \E w : IsAlone(alone, w, M, N, updates, e)
<1> DEFINE R == BatchOrder(batch)
           x == [j \in 1 .. M |-> p[own[j]]]
<1>1. /\ sub \in [1 .. M -> Updates]
      /\ \A i \in 1 .. M : p[i] \in 1 .. N /\ sub[i] = batch[p[i]] /\ sub[i].id = e
      /\ \A i, j \in 1 .. M : i < j => p[i] < p[j]
      /\ \A n \in 1 .. N : batch[n].id = e => \E i \in 1 .. M : p[i] = n
  BY AloneType
<1>2. Cardinality(1 .. N) = N /\ Cardinality(1 .. M) = M
  BY FS_Interval
<1>3. /\ order \in [1 .. N -> 1 .. N] /\ InOrder(order, 1 .. N, R)
      /\ \A n \in 1 .. N : updates[n] = batch[order[n]]
  BY DEF BehindBatch
<1>4. /\ own \in [1 .. M -> 1 .. M]
      /\ \A i, j \in 1 .. M : i < j => <<own[i], own[j]>> \in BatchOrder(sub)
      /\ \A i \in 1 .. M : \E j \in 1 .. M : own[j] = i
      /\ alone = [n \in 1 .. M |-> sub[own[n]]]
  BY <1>2 DEF BehindBatch, InOrder
<1>5. Orders(R, 1 .. N) /\ \A i, j \in 1 .. N : <<i, j>> \in R <=> Precedes(batch, i, j)
  BY BatchOrderIsOrder
<1>6. \A i, j \in 1 .. M : <<i, j>> \in BatchOrder(sub) <=> Precedes(sub, i, j)
  BY <1>1, BatchOrderIsOrder
<1> HIDE DEF R
<1>7. ASSUME NEW i \in 1 .. M
      PROVE  /\ x[i] = p[own[i]] /\ own[i] \in 1 .. M /\ x[i] \in 1 .. N
             /\ sub[own[i]] = batch[x[i]] /\ alone[i] = batch[x[i]] /\ batch[x[i]].id = e
  <2>1. own[i] \in 1 .. M /\ alone[i] = sub[own[i]] /\ x[i] = p[own[i]]
    BY <1>4
  <2>2. p[own[i]] \in 1 .. N /\ sub[own[i]] = batch[p[own[i]]] /\ sub[own[i]].id = e
    BY <1>1, <2>1
  <2>3. QED
    BY <2>1, <2>2
<1> HIDE DEF x
<1>8. ASSUME NEW i \in 1 .. M, NEW j \in 1 .. M, i < j
      PROVE  <<x[i], x[j]>> \in R
  <2>1. Precedes(sub, own[i], own[j])
    BY <1>4, <1>6, <1>7, <1>8
  <2>2. /\ sub[own[i]] = batch[x[i]] /\ sub[own[j]] = batch[x[j]]
        /\ own[i] < own[j] => x[i] < x[j]
    <3>1. own[i] < own[j] => p[own[i]] < p[own[j]]
      BY <1>1, <1>7
    <3>2. QED
      BY <1>7, <3>1
  <2>3. Precedes(batch, x[i], x[j])
    BY <2>1, <2>2 DEF Precedes
  <2>4. QED
    BY <1>5, <1>7, <2>3
<1>9. Among(x, M, 1 .. N, R)
  BY <1>7, <1>8 DEF Among
<1>10. PICK w : /\ w \in [1 .. M -> 1 .. N]
                /\ \A i, j \in 1 .. M : i < j => w[i] < w[j]
                /\ \A i \in 1 .. M, n \in 1 .. N : order[n] = x[i] <=> w[i] = n
  <2>1. PICK w : Weaves(w, x, M, order, Cardinality(1 .. N))
    BY <1>3, <1>5, <1>9, Woven
  <2>2. /\ w \in [1 .. M -> 1 .. N]
        /\ \A i, j \in 1 .. M : i < j => w[i] < w[j]
        /\ \A i \in 1 .. M, n \in 1 .. N : order[n] = x[i] <=> w[i] = n
    BY <1>2, <2>1, Zenon DEF Weaves
  <2>3. QED
    BY <2>2, Zenon
<1>11. \A i \in 1 .. M : w[i] \in 1 .. N /\ order[w[i]] = x[i] /\ alone[i] = updates[w[i]] /\ updates[w[i]].id = e
  <2>1. \A i \in 1 .. M : w[i] \in 1 .. N /\ order[w[i]] = x[i]
    BY <1>10
  <2>2. \A i \in 1 .. M : alone[i] = batch[x[i]] /\ batch[x[i]].id = e
    BY <1>7
  <2>3. QED
    BY <1>3, <2>1, <2>2
<1>12. ASSUME NEW n \in 1 .. N, updates[n].id = e
       PROVE  \E i \in 1 .. M : w[i] = n
  <2>1. batch[order[n]].id = e /\ order[n] \in 1 .. N
    BY <1>3, <1>12
  <2>2. PICK k \in 1 .. M : p[k] = order[n]
    BY <1>1, <2>1
  <2>3. PICK i \in 1 .. M : own[i] = k
    BY <1>4
  <2>4. order[n] = x[i]
    BY <1>7, <2>2, <2>3
  <2>5. QED
    BY <1>10, <2>4
<1>13. Picks(w, M, N, updates, e)
  BY <1>10, <1>11, <1>12 DEF Picks
<1>14. alone = [k \in 1 .. M |-> updates[w[k]]]
  BY <1>4, <1>11
<1>15. QED
  BY <1>13, <1>14 DEF IsAlone

\* After n rounds of the batch and j rounds of the entity's own.
InStep(run, updates, other, alone, w, M, e, n, j) ==
  /\ \A i \in 1 .. M : w[i] <= n <=> i <= j
  /\ Twin(run[n].engine, other[j].engine, e)
  /\ \A i \in 1 .. j : RoundResult(run, updates, <<>>, w[i]).events = RoundResult(other, alone, <<>>, i).events

\* The rounds of an entity find and do in a batch what they find and do on their own.
LEMMA AloneRunsAlike ==
  ASSUME NumberedIds, NEW eng \in EngineStates(AnyRules, AnySequences), WellFormed(eng.entities),
         NEW N \in Nat, NEW updates \in [1 .. N -> Updates], NEW M \in Nat, NEW e \in Entities,
         NEW w, NEW alone, IsAlone(alone, w, M, N, updates, e),
         NEW run, IsRun(run, N, eng, updates, <<>>), NEW other, IsRun(other, M, eng, alone, <<>>)
  PROVE  /\ Twin(run[N].engine, other[M].engine, e)
         /\ \A i \in 1 .. M : RoundResult(run, updates, <<>>, w[i]).events = RoundResult(other, alone, <<>>, i).events
<1> DEFINE Go(n, j) == InStep(run, updates, other, alone, w, M, e, n, j)
           S == {n \in 0 .. N : \E j \in 0 .. M : Go(n, j)}
<1>1. /\ alone \in [1 .. M -> Updates]
      /\ \A i \in 1 .. M : w[i] \in 1 .. N /\ alone[i] = updates[w[i]] /\ alone[i].id = e
      /\ \A i, j \in 1 .. M : i < j => w[i] < w[j]
      /\ \A n \in 1 .. N : updates[n].id = e => \E i \in 1 .. M : w[i] = n
  BY AloneType
<1>2. Go(0, 0)
  <2>1. run[0].engine = eng /\ other[0].engine = eng
    BY DEF IsRun, Begun
  <2>2. Twin(eng, eng, e)
    BY DEF Twin, SameSetup
  <2>3. \A i \in 1 .. M : w[i] <= 0 <=> i <= 0
    BY <1>1
  <2>4. 1 .. 0 = {}
    OBVIOUS
  <2>5. QED
    BY <2>1, <2>2, <2>3, <2>4 DEF InStep
<1>3. ASSUME NEW n \in 1 .. N, NEW j \in 0 .. M, Go(n - 1, j)
      PROVE  \E k \in 0 .. M : Go(n, k)
  <2> DEFINE a == run[n - 1].engine
             b == other[j].engine
             u == updates[n]
             r == RoundResult(run, updates, <<>>, n)
  <2>1. /\ \A i \in 1 .. M : w[i] <= n - 1 <=> i <= j
        /\ Twin(a, b, e)
        /\ \A i \in 1 .. j : RoundResult(run, updates, <<>>, w[i]).events = RoundResult(other, alone, <<>>, i).events
    BY <1>3 DEF InStep
  <2>2. /\ a \in EngineStates(AnyRules, AnySequences) /\ u \in Updates
        /\ Outcome(a, u, FaultOf(<<>>, n), r) /\ run[n].engine = r.engine
    BY RunStep
  <2>3. CASE u.id # e
    <3>1. Twin(run[n].engine, b, e)
      <4> HIDE DEF a, b, u, r
      <4>1. Twin(r.engine, b, e)
        BY <2>1, <2>2, <2>3, TwinOther
      <4>2. QED
        BY <2>2, <4>1
    <3>2. \A i \in 1 .. M : w[i] # n
      BY <1>1, <2>3
    <3>3. \A i \in 1 .. M : w[i] <= n <=> i <= j
      <4>1. \A i \in 1 .. M : w[i] \in Int
        BY <1>1
      <4>2. QED
        BY <2>1, <3>2, <4>1
    <3>4. Go(n, j)
      BY <2>1, <3>1, <3>3 DEF InStep
    <3>5. QED
      BY <3>4
  <2>4. CASE u.id = e
    <3>1. PICK i \in 1 .. M : w[i] = n
      BY <1>1, <2>4
    <3>2. i = j + 1
      <4>1. ~(i <= j)
        BY <2>1, <3>1
      <4>2. ASSUME j + 1 < i PROVE FALSE
        <5>1. j + 1 \in 1 .. M
          BY <4>2
        <5>2. w[j + 1] < n /\ w[j + 1] \in Int
          BY <1>1, <3>1, <4>2, <5>1
        <5>3. w[j + 1] <= n - 1
          BY <5>2
        <5>4. QED
          BY <2>1, <5>1, <5>3
      <4>3. QED
        BY <4>1, <4>2
    <3> DEFINE s == RoundResult(other, alone, <<>>, i)
    <3>3. /\ other[i - 1].engine \in EngineStates(AnyRules, AnySequences)
          /\ Outcome(other[i - 1].engine, alone[i], FaultOf(<<>>, i), s) /\ other[i].engine = s.engine
      <4>1. alone \in [1 .. M -> Updates]
        BY <1>1
      <4> HIDE DEF a, b, u, r, Go, S
      <4>2. QED
        BY <4>1, RunStep, SMTT(60)
    <3>4. i - 1 = j /\ alone[i] = u /\ FaultOf(<<>>, i) = FaultOf(<<>>, n)
      BY <1>1, <3>1, <3>2, NoFault
    <3>5. /\ b \in EngineStates(AnyRules, AnySequences)
          /\ Outcome(b, u, FaultOf(<<>>, n), s)
      BY <3>3, <3>4
    <3>6. Twin(run[n].engine, other[i].engine, e) /\ r.events = s.events
      <4> HIDE DEF a, b, u, r, s
      <4>1. Twin(r.engine, s.engine, u.id) /\ r.events = s.events
        <5>1. Twin(a, b, u.id)
          BY <2>1, <2>4
        <5>2. QED
          BY <2>2, <3>5, <5>1, TwinStep
      <4>2. QED
        BY <2>2, <2>4, <3>3, <4>1
    <3>7. \A k \in 1 .. M : w[k] <= n <=> k <= i
      <4>1. SUFFICES ASSUME NEW k \in 1 .. M PROVE w[k] <= n <=> k <= i
        OBVIOUS
      <4>2. k < i => w[k] < w[i]
        BY <1>1
      <4>3. i < k => w[i] < w[k]
        BY <1>1
      <4>4. w[k] \in Int /\ w[i] = n
        BY <1>1, <3>1
      <4>5. k < i \/ k = i \/ i < k
        OBVIOUS
      <4>6. QED
        BY <4>2, <4>3, <4>4, <4>5
    <3>8. \A k \in 1 .. i : RoundResult(run, updates, <<>>, w[k]).events = RoundResult(other, alone, <<>>, k).events
      <4>1. SUFFICES ASSUME NEW k \in 1 .. i
                     PROVE  RoundResult(run, updates, <<>>, w[k]).events = RoundResult(other, alone, <<>>, k).events
        OBVIOUS
      <4>2. CASE k = i
        BY <3>1, <3>6, <4>2
      <4>3. CASE k # i
        <5>1. k \in 1 .. j
          BY <3>2, <4>3
        <5>2. QED
          BY <2>1, <5>1
      <4>4. QED
        BY <4>2, <4>3
    <3>9. Go(n, i)
      BY <3>6, <3>7, <3>8 DEF InStep
    <3>10. QED
      BY <3>9
  <2>5. QED
    BY <2>3, <2>4
<1> HIDE DEF Go
<1>4. 0 \in S /\ \A n \in 1 .. N : n - 1 \in S => n \in S
  <2>1. 0 \in S
    BY <1>2
  <2>2. ASSUME NEW n \in 1 .. N, n - 1 \in S PROVE n \in S
    BY <1>3, <2>2
  <2>3. QED
    BY <2>1, <2>2
<1> HIDE DEF S
<1>5. N \in S
  BY <1>4, UpTo
<1>6. PICK j \in 0 .. M : Go(N, j)
  BY <1>5 DEF S
<1>7. /\ \A i \in 1 .. M : w[i] <= N <=> i <= j
      /\ Twin(run[N].engine, other[j].engine, e)
      /\ \A i \in 1 .. j : RoundResult(run, updates, <<>>, w[i]).events = RoundResult(other, alone, <<>>, i).events
  BY <1>6 DEF Go, InStep
<1>8. j = M
  <2>1. CASE M = 0
    BY <2>1
  <2>2. CASE M # 0
    <3>1. M \in 1 .. M
      BY <2>2
    <3>2. w[M] <= N
      BY <1>1, <3>1
    <3>3. QED
      BY <1>7, <3>1, <3>2
  <2>3. QED
    BY <2>1, <2>2
<1>9. QED
  BY <1>7, <1>8

-----------------------------------------------------------------------------
\* Keys that only differ in the number of the call, which grows with it.
Recalled(k, l, kk, ll) ==
  /\ \A i \in (1 .. 7) \ {6} : kk[i] = k[i] /\ ll[i] = l[i]
  /\ k[6] < l[6] => kk[6] < ll[6]
  /\ k[6] = l[6] => kk[6] = ll[6]

\* They come in the same order.
LEMMA RecalledBefore ==
  ASSUME NEW k \in [1 .. 7 -> Int], NEW l \in [1 .. 7 -> Int],
         NEW kk \in [1 .. 7 -> Int], NEW ll \in [1 .. 7 -> Int], Recalled(k, l, kk, ll), Before(k, l)
  PROVE  Before(kk, ll)
<1>1. PICK i \in 1 .. 7 : k[i] < l[i] /\ \A j \in 1 .. i - 1 : k[j] = l[j]
  BY DEF Before
<1>2. kk[i] < ll[i]
  BY <1>1 DEF Recalled
<1>3. \A j \in 1 .. i - 1 : kk[j] = ll[j]
  <2>1. SUFFICES ASSUME NEW j \in 1 .. i - 1 PROVE kk[j] = ll[j]
    OBVIOUS
  <2>2. j \in 1 .. 7 /\ k[j] = l[j]
    BY <1>1
  <2>3. QED
    BY <2>2 DEF Recalled
<1>4. DOMAIN kk = 1 .. 7
  OBVIOUS
<1>5. QED
  BY <1>2, <1>3, <1>4 DEF Before

\* The calls of a batch that are an entity's have the events of its own calls.
OwnCalls(calls, other, w, M) ==
  \A i \in 1 .. M : calls[w[i]] = other[i]

\* The events of an entity's own calls come in one order, alone and among the others.
LEMMA OwnEventsAlike ==
  ASSUME NumberedIds, NEW N \in Nat, NEW updates \in [1 .. N -> Updates], NEW M \in Nat, NEW e,
         NEW w, NEW alone, IsAlone(alone, w, M, N, updates, e),
         NEW calls, AreCalls(calls, N, updates), NEW other, AreCalls(other, M, alone),
         OwnCalls(calls, other, w, M)
  PROVE  OfEntity(SortEvents(calls), e) = SortEvents(other)
<1> DEFINE F == Emitted(calls)
           A == Emitted(other)
           R == EventOrder(F)
           L == Cardinality(A)
           C == Cardinality(F)
           events == SortEvents(calls)
<1>1. /\ alone \in [1 .. M -> Updates]
      /\ \A i \in 1 .. M : w[i] \in 1 .. N /\ alone[i] = updates[w[i]] /\ alone[i].id = e
      /\ \A i, j \in 1 .. M : i < j => w[i] < w[j]
      /\ \A n \in 1 .. N : updates[n].id = e => \E i \in 1 .. M : w[i] = n
  BY AloneType
<1>2. PICK q : IsOutput(q, calls, SortEvents(calls))
  BY SortEventsIsSort
<1>3. C \in Nat /\ InOrder(q, F, R) /\ events = [n \in 1 .. C |-> q[n].event]
  BY <1>2 DEF IsOutput
<1>4. PICK s : IsOutput(s, other, SortEvents(other))
  BY SortEventsIsSort
<1>5. L \in Nat /\ InOrder(s, A, EventOrder(A)) /\ SortEvents(other) = [n \in 1 .. L |-> s[n].event]
  BY <1>4 DEF IsOutput
<1>6. Orders(R, F) /\ \A a, b \in F : <<a, b>> \in R <=> Before(SortKey(a), SortKey(b))
  BY EventOrderIsOrder
<1>7. \A a, b \in A : <<a, b>> \in EventOrder(A) <=> Before(SortKey(a), SortKey(b))
  BY EventOrderIsOrder
<1>8. /\ \A a \in F : a.call \in 1 .. N /\ a.event \in calls[a.call] /\ a = [call |-> a.call, event |-> a.event]
      /\ \A n \in 1 .. N : \A ev \in calls[n] : [call |-> n, event |-> ev] \in F
  BY EmittedIs
<1>9. /\ \A a \in A : a.call \in 1 .. M /\ a.event \in other[a.call] /\ a = [call |-> a.call, event |-> a.event]
      /\ \A n \in 1 .. M : \A ev \in other[n] : [call |-> n, event |-> ev] \in A
  BY EmittedIs
<1> DEFINE Lift(a) == [call |-> w[a.call], event |-> a.event]
           x == [j \in 1 .. L |-> Lift(s[j])]
<1> HIDE DEF F, A, R
<1>10. ASSUME NEW a \in A
       PROVE  /\ a.call \in 1 .. M /\ a.call \in Nat /\ a.event \in EventsFor(updates[w[a.call]])
              /\ w[a.call] \in 1 .. N /\ w[a.call] \in Nat /\ updates[w[a.call]] \in Updates
              /\ Lift(a) \in F /\ a.event.id = e
  <2>1. a.call \in 1 .. M /\ a.event \in other[a.call]
    BY <1>9
  <2>2. w[a.call] \in 1 .. N /\ alone[a.call] = updates[w[a.call]] /\ alone[a.call].id = e
    BY <1>1, <2>1
  <2>3. other[a.call] \in CallEvents(alone[a.call]) /\ calls[w[a.call]] = other[a.call]
    BY <2>1 DEF AreCalls, OwnCalls
  <2>4. a.event \in EventsFor(updates[w[a.call]])
    BY <2>1, <2>2, <2>3 DEF CallEvents
  <2>5. a.event.id = e
    BY <2>2, <2>4 DEF EventsFor
  <2>6. Lift(a) \in F
    BY <1>8, <2>1, <2>2, <2>3
  <2>7. QED
    BY <2>1, <2>2, <2>4, <2>5, <2>6
<1>11. ASSUME NEW a \in A, NEW b \in A, <<a, b>> \in EventOrder(A)
       PROVE  <<Lift(a), Lift(b)>> \in R
  <2> DEFINE k == SortKey(a)
             l == SortKey(b)
             kk == SortKey(Lift(a))
             ll == SortKey(Lift(b))
  <2>1. ASSUME NEW c \in A
        PROVE  /\ SortKey(c) \in [1 .. 7 -> Int] /\ SortKey(Lift(c)) \in [1 .. 7 -> Int]
               /\ \A i \in (1 .. 7) \ {6} : SortKey(Lift(c))[i] = SortKey(c)[i]
               /\ SortKey(c)[6] = c.call /\ SortKey(Lift(c))[6] = w[c.call]
    <3> DEFINE u == updates[w[c.call]]
    <3>1. /\ u \in Updates /\ c.event \in EventsFor(u) /\ c.call \in Nat /\ w[c.call] \in Nat
      BY <1>10
    <3>2. c = [call |-> c.call, event |-> c.event]
      BY <1>9
    <3> HIDE DEF u
    <3>3. /\ SortKey(c) \in [1 .. 7 -> Int]
          /\ SortKey(c)[1] = u.id /\ SortKey(c)[2] = u.t_ms
          /\ SortKey(c)[3] = Tier(c.event.kind) /\ SortKey(c)[4] = c.event.name /\ SortKey(c)[5] = Phase(c.event.kind)
          /\ SortKey(c)[6] = c.call /\ SortKey(c)[7] = c.event.rule
      BY <3>1, <3>2, SortKeyType
    <3> DEFINE d == Lift(c)
    <3>4. d = [call |-> w[c.call], event |-> c.event]
      OBVIOUS
    <3> HIDE DEF d
    <3>5. /\ SortKey(d) \in [1 .. 7 -> Int]
          /\ SortKey(d)[1] = u.id /\ SortKey(d)[2] = u.t_ms
          /\ SortKey(d)[3] = Tier(c.event.kind) /\ SortKey(d)[4] = c.event.name /\ SortKey(d)[5] = Phase(c.event.kind)
          /\ SortKey(d)[6] = w[c.call] /\ SortKey(d)[7] = c.event.rule
      <4> PICK m, ev : m = w[c.call] /\ ev = c.event
        OBVIOUS
      <4>1. m \in Nat /\ ev \in EventsFor(u) /\ d = [call |-> m, event |-> ev]
        BY <3>1, <3>4
      <4>2. /\ SortKey(d) \in [1 .. 7 -> Int]
            /\ SortKey(d)[1] = u.id /\ SortKey(d)[2] = u.t_ms
            /\ SortKey(d)[3] = Tier(ev.kind) /\ SortKey(d)[4] = ev.name /\ SortKey(d)[5] = Phase(ev.kind)
            /\ SortKey(d)[6] = m /\ SortKey(d)[7] = ev.rule
        BY <3>1, <4>1, Numbers, SortKeyType
      <4>3. QED
        BY <4>2
    <3>6. (1 .. 7) \ {6} = {1, 2, 3, 4, 5, 7}
      OBVIOUS
    <3>7. \A i \in (1 .. 7) \ {6} : SortKey(d)[i] = SortKey(c)[i]
      BY <3>3, <3>5, <3>6
    <3>8. QED
      BY <3>3, <3>5, <3>7 DEF d
  <2> HIDE DEF Lift
  <2>2. /\ k \in [1 .. 7 -> Int] /\ l \in [1 .. 7 -> Int] /\ kk \in [1 .. 7 -> Int] /\ ll \in [1 .. 7 -> Int]
        /\ \A i \in (1 .. 7) \ {6} : kk[i] = k[i] /\ ll[i] = l[i]
        /\ k[6] = a.call /\ l[6] = b.call /\ kk[6] = w[a.call] /\ ll[6] = w[b.call]
    BY <2>1
  <2>3. Before(k, l)
    BY <1>7, <1>11
  <2> HIDE DEF k, l, kk, ll
  <2>4. a.call \in 1 .. M /\ b.call \in 1 .. M
    BY <1>10
  <2>5. a.call < b.call => w[a.call] < w[b.call]
    BY <1>1, <2>4
  <2>6. Recalled(k, l, kk, ll)
    BY <2>2, <2>5 DEF Recalled
  <2>7. Before(kk, ll)
    BY <2>2, <2>3, <2>6, RecalledBefore
  <2>8. Lift(a) \in F /\ Lift(b) \in F
    BY <1>10 DEF Lift
  <2>9. QED
    BY <1>6, <2>7, <2>8 DEF kk, ll
<1>12. /\ \A j \in 1 .. L : s[j] \in A
       /\ \A i, j \in 1 .. L : i < j => <<s[i], s[j]>> \in EventOrder(A)
       /\ \A a \in A : \E j \in 1 .. L : s[j] = a
  BY <1>5 DEF InOrder
<1>13. \A j \in 1 .. L : x[j] = Lift(s[j]) /\ x[j].event = s[j].event
  OBVIOUS
<1> HIDE DEF x, L, C, events
<1>14. Among(x, L, F, R)
  <2>1. \A j \in 1 .. L : x[j] \in F
    BY <1>10, <1>12, <1>13
  <2> HIDE DEF Lift
  <2>2. \A i, j \in 1 .. L : i < j => <<x[i], x[j]>> \in R
    BY <1>11, <1>12, <1>13
  <2>3. QED
    BY <2>1, <2>2 DEF Among
<1>15. PICK v : Weaves(v, x, L, q, Cardinality(F))
  BY <1>3, <1>5, <1>6, <1>14, Woven
<1>16. /\ v \in [1 .. L -> 1 .. C]
       /\ \A i, j \in 1 .. L : i < j => v[i] < v[j]
       /\ \A i \in 1 .. L, n \in 1 .. C : q[n] = x[i] <=> v[i] = n
  BY <1>15 DEF Weaves, C
<1>17. ASSUME NEW j \in 1 .. L
       PROVE  events[v[j]] = s[j].event /\ events[v[j]].id = e
  <2>1. v[j] \in 1 .. C /\ q[v[j]] = x[j]
    BY <1>16
  <2>2. events[v[j]] = x[j].event
    BY <1>3, <2>1
  <2>3. x[j].event = s[j].event
    BY <1>13
  <2>4. s[j].event.id = e
    BY <1>10, <1>12
  <2>5. QED
    BY <2>2, <2>3, <2>4
<1>18. ASSUME NEW n \in 1 .. C, events[n].id = e
       PROVE  \E j \in 1 .. L : v[j] = n
  <2> DEFINE a == q[n]
  <2>1. a \in F /\ a.event.id = e
    BY <1>3, <1>18 DEF InOrder, C
  <2> HIDE DEF a
  <2>2. a.call \in 1 .. N /\ a.event \in calls[a.call] /\ a = [call |-> a.call, event |-> a.event]
    BY <1>8, <2>1
  <2>3. a.event \in EventsFor(updates[a.call])
    BY <2>2 DEF AreCalls, CallEvents
  <2>4. updates[a.call].id = e
    BY <2>1, <2>3 DEF EventsFor
  <2>5. PICK i \in 1 .. M : w[i] = a.call
    BY <1>1, <2>2, <2>4
  <2>6. a.event \in other[i]
    BY <2>2, <2>5 DEF OwnCalls
  <2> DEFINE b == [call |-> i, event |-> a.event]
  <2>7. b \in A /\ Lift(b) = a
    BY <1>9, <2>2, <2>5, <2>6
  <2> HIDE DEF b, Lift
  <2>8. PICK j \in 1 .. L : s[j] = b
    BY <1>12, <2>7
  <2>9. q[n] = x[j]
    BY <1>13, <2>7, <2>8 DEF a
  <2>10. QED
    BY <1>16, <2>9
<1>19. Picks(v, L, C, events, e)
  BY <1>16, <1>17, <1>18 DEF Picks
<1>20. OfEntity(events, e) = [j \in 1 .. L |-> events[v[j]]]
  <2>1. DOMAIN events = 1 .. C
    BY <1>3
  <2>2. PICK K \in Nat : \E y : IsAlone(OfEntity(events, e), y, K, C, events, e)
    BY <1>3, <2>1, OfEntityPicks
  <2>3. PICK y : Picks(y, K, C, events, e) /\ OfEntity(events, e) = [k \in 1 .. K |-> events[y[k]]]
    BY <2>2 DEF IsAlone
  <2>4. K = L /\ y = v
    BY <1>3, <1>5, <1>19, <2>3, PicksAgree
  <2>5. QED
    BY <2>3, <2>4
<1>21. OfEntity(events, e) = [j \in 1 .. L |-> s[j].event]
  BY <1>17, <1>20
<1>22. QED
  BY <1>5, <1>21 DEF events

\* The output has the events of one entity after the other's.
LEMMA EventsGrouped ==
  ASSUME NumberedIds, NEW N \in Nat, NEW updates, NEW calls, AreCalls(calls, N, updates)
  PROVE  \A i, j \in DOMAIN SortEvents(calls) : i < j => SortEvents(calls)[i].id <= SortEvents(calls)[j].id
<1> DEFINE F == Emitted(calls)
           C == Cardinality(F)
           events == SortEvents(calls)
<1>1. PICK q : IsOutput(q, calls, SortEvents(calls))
  BY SortEventsIsSort
<1>2. C \in Nat /\ InOrder(q, F, EventOrder(F)) /\ events = [n \in 1 .. C |-> q[n].event]
  BY <1>1 DEF IsOutput
<1>3. \A a, b \in F : <<a, b>> \in EventOrder(F) <=> Before(SortKey(a), SortKey(b))
  BY EventOrderIsOrder
<1>4. ASSUME NEW a \in F
      PROVE  SortKey(a) \in [1 .. 7 -> Int] /\ SortKey(a)[1] = a.event.id
  <2>1. a.call \in 1 .. N /\ a.event \in calls[a.call] /\ a = [call |-> a.call, event |-> a.event]
    BY EmittedIs
  <2>2. updates[a.call] \in Updates /\ a.event \in EventsFor(updates[a.call]) /\ a.call \in Nat
    BY <2>1 DEF AreCalls, CallEvents
  <2>3. a.event.id = updates[a.call].id
    BY <2>2 DEF EventsFor
  <2>4. QED
    BY <2>1, <2>2, <2>3, SortKeyType
<1> HIDE DEF F
<1>5. ASSUME NEW i \in 1 .. C, NEW j \in 1 .. C, i < j
      PROVE  events[i].id <= events[j].id
  <2> DEFINE a == q[i]
             b == q[j]
  <2>1. a \in F /\ b \in F /\ <<a, b>> \in EventOrder(F) /\ events[i] = a.event /\ events[j] = b.event
    BY <1>2, <1>5 DEF InOrder
  <2> HIDE DEF a, b
  <2>2. Before(SortKey(a), SortKey(b))
    BY <1>3, <2>1
  <2>3. /\ SortKey(a) \in [1 .. 7 -> Int] /\ SortKey(a)[1] = a.event.id
        /\ SortKey(b) \in [1 .. 7 -> Int] /\ SortKey(b)[1] = b.event.id
    BY <1>4, <2>1
  <2>4. PICK n \in 1 .. 7 : SortKey(a)[n] < SortKey(b)[n] /\ \A m \in 1 .. n - 1 : SortKey(a)[m] = SortKey(b)[m]
    BY <2>2, <2>3 DEF Before
  <2>5. SortKey(a)[1] <= SortKey(b)[1]
    <3>1. SortKey(a)[1] \in Int /\ SortKey(b)[1] \in Int
      BY <2>3
    <3>2. CASE n = 1
      BY <2>4, <3>1, <3>2
    <3>3. CASE n # 1
      <4>1. 1 \in 1 .. n - 1
        BY <3>3
      <4>2. QED
        BY <2>4, <3>1, <4>1
    <3>4. QED
      BY <3>2, <3>3
  <2>6. QED
    BY <2>1, <2>3, <2>5
<1>6. QED
  BY <1>2, <1>5

-----------------------------------------------------------------------------
\* What a batch does to one entity is what the batch of its own updates does.
SameAlone(eng, batch, e) ==
  LET all   == ProcessBatch(eng, batch, <<>>)
      alone == ProcessBatch(eng, OfEntity(batch, e), <<>>)
  IN  /\ all.engine.entities[e] = alone.engine.entities[e]
      /\ \A i \in DOMAIN eng.sequence_rules :
           all.engine.sequence_rules[i].progress[e] = alone.engine.sequence_rules[i].progress[e]
      /\ OfEntity(all.events, e) = alone.events

\* The rules of an engine stay in their places.
LEMMA RunKeepsRules ==
  ASSUME NumberedIds, NEW eng \in EngineStates(AnyRules, AnySequences), WellFormed(eng.entities),
         NEW N \in Nat, NEW updates \in [1 .. N -> Updates], NEW broken,
         NEW run, IsRun(run, N, eng, updates, broken)
  PROVE  DOMAIN run[N].engine.sequence_rules = DOMAIN eng.sequence_rules
<1> DEFINE S == {n \in 0 .. N : DOMAIN run[n].engine.sequence_rules = DOMAIN eng.sequence_rules}
<1>1. 0 \in S
  BY DEF IsRun, Begun
<1>2. ASSUME NEW n \in 1 .. N, n - 1 \in S
      PROVE  n \in S
  <2> DEFINE a == run[n - 1].engine
             u == updates[n]
             r == RoundResult(run, updates, broken, n)
  <2>1. /\ a \in EngineStates(AnyRules, AnySequences) /\ u \in Updates
        /\ Outcome(a, u, FaultOf(broken, n), r) /\ run[n].engine = r.engine
    BY RunStep
  <2>2. DOMAIN a.sequence_rules = DOMAIN eng.sequence_rules
    BY <1>2
  <2> HIDE DEF a, u, r
  <2>3. \/ r.engine.sequence_rules = a.sequence_rules
        \/ r.engine.sequence_rules = FireSequences(a, Crossings(a, u), u)
    BY <2>1 DEF Outcome
  <2>4. DOMAIN FireSequences(a, Crossings(a, u), u) = DOMAIN a.sequence_rules
    BY DEF FireSequences
  <2>5. QED
    BY <2>1, <2>2, <2>3, <2>4
<1> HIDE DEF S
<1>3. N \in S
  BY <1>1, <1>2, UpTo
<1>4. QED
  BY <1>3 DEF S

\* So it is, for any batch and entity.
LEMMA BatchAlone ==
  ASSUME NumberedIds, NEW eng \in EngineStates(AnyRules, AnySequences), WellFormed(eng.entities),
         NEW N \in Nat, NEW batch \in [1 .. N -> Updates], NEW e \in Entities
  PROVE  SameAlone(eng, batch, e)
<1> DEFINE sub == OfEntity(batch, e)
<1>1. PICK M \in Nat : \E p : IsAlone(sub, p, M, N, batch, e)
  <2>1. DOMAIN batch = 1 .. N
    OBVIOUS
  <2>2. QED
    BY <2>1, OfEntityPicks
<1>2. PICK p : IsAlone(sub, p, M, N, batch, e)
  BY <1>1
<1> HIDE DEF sub
<1>3. sub \in [1 .. M -> Updates]
  BY <1>2, AloneType
<1>4. PICK order, updates, run : BehindBatch(eng, N, batch, <<>>, order, updates, run)
  BY BatchRun
<1>5. PICK own, alone, other : BehindBatch(eng, M, sub, <<>>, own, alone, other)
  BY <1>3, BatchRun
<1>6. PICK w : IsAlone(alone, w, M, N, updates, e)
  BY <1>2, <1>4, <1>5, AloneSortsAlike
<1>7. /\ updates \in [1 .. N -> Updates] /\ IsRun(run, N, eng, updates, <<>>)
      /\ ProcessBatch(eng, batch, <<>>) =
           [engine |-> run[N].engine, events |-> SortEvents(run[N].calls), errors |-> run[N].errors]
  BY <1>4 DEF BehindBatch
<1>8. /\ alone \in [1 .. M -> Updates] /\ IsRun(other, M, eng, alone, <<>>)
      /\ ProcessBatch(eng, sub, <<>>) =
           [engine |-> other[M].engine, events |-> SortEvents(other[M].calls), errors |-> other[M].errors]
  BY <1>5 DEF BehindBatch
<1>9. /\ Twin(run[N].engine, other[M].engine, e)
      /\ \A i \in 1 .. M : RoundResult(run, updates, <<>>, w[i]).events = RoundResult(other, alone, <<>>, i).events
  BY <1>6, <1>7, <1>8, AloneRunsAlike
<1>10. /\ AreCalls(run[N].calls, N, updates)
       /\ \A n \in 1 .. N : run[N].calls[n] = RoundResult(run, updates, <<>>, n).events
  BY <1>7, RunCalls
<1>11. /\ AreCalls(other[M].calls, M, alone)
       /\ \A n \in 1 .. M : other[M].calls[n] = RoundResult(other, alone, <<>>, n).events
  BY <1>8, RunCalls
<1>12. OwnCalls(run[N].calls, other[M].calls, w, M)
  <2>1. \A i \in 1 .. M : w[i] \in 1 .. N
    BY <1>6, <1>7, AloneType
  <2>2. \A i \in 1 .. M : run[N].calls[w[i]] = other[M].calls[i]
    BY <1>9, <1>10, <1>11, <2>1
  <2>3. QED
    BY <2>2 DEF OwnCalls
<1>13. OfEntity(SortEvents(run[N].calls), e) = SortEvents(other[M].calls)
  BY <1>6, <1>7, <1>10, <1>11, <1>12, OwnEventsAlike
<1>14. DOMAIN run[N].engine.sequence_rules = DOMAIN eng.sequence_rules
  BY <1>7, RunKeepsRules
<1>15. /\ run[N].engine.entities[e] = other[M].engine.entities[e]
       /\ \A i \in DOMAIN eng.sequence_rules :
            run[N].engine.sequence_rules[i].progress[e] = other[M].engine.sequence_rules[i].progress[e]
  BY <1>9, <1>14 DEF Twin
<1>16. /\ ProcessBatch(eng, batch, <<>>).engine = run[N].engine
       /\ ProcessBatch(eng, batch, <<>>).events = SortEvents(run[N].calls)
       /\ ProcessBatch(eng, sub, <<>>).engine = other[M].engine
       /\ ProcessBatch(eng, sub, <<>>).events = SortEvents(other[M].calls)
  BY <1>7, <1>8
<1>17. QED
  BY <1>13, <1>15, <1>16 DEF SameAlone, sub

\* A batch, its calls failing or not, puts the events of one entity after another's.
LEMMA BatchGroups ==
  ASSUME NumberedIds, NEW eng \in EngineStates(AnyRules, AnySequences), WellFormed(eng.entities),
         NEW N \in Nat, NEW batch \in [1 .. N -> Updates], NEW broken,
         NEW events, events = ProcessBatch(eng, batch, broken).events
  PROVE  \A i, j \in DOMAIN events : i < j => events[i].id <= events[j].id
<1>1. PICK order, updates, run : BehindBatch(eng, N, batch, broken, order, updates, run)
  BY BatchRun
<1>2. /\ updates \in [1 .. N -> Updates] /\ IsRun(run, N, eng, updates, broken)
      /\ events = SortEvents(run[N].calls)
  BY <1>1 DEF BehindBatch
<1>3. AreCalls(run[N].calls, N, updates)
  BY <1>2, RunCalls
<1>4. QED
  BY <1>2, <1>3, EventsGrouped

\* No entity's place, history, progress or events depend on the company its updates
\* have in a batch, however they are mixed: sorting takes them apart again, and no rule
\* of the engine looks at another entity.  Consumers can take the output apart too.
THEOREM BatchEntitiesIndependent == Spec => EntitiesAreIndependent
<1> DEFINE A == out'.broken = <<>> =>
                  /\ \A e \in Entities :
                       LET alone == ProcessBatch(engine, OfEntity(out'.batch, e), <<>>)
                       IN  /\ engine'.entities[e] = alone.engine.entities[e]
                           /\ \A i \in DOMAIN engine.sequence_rules :
                                engine'.sequence_rules[i].progress[e] = alone.engine.sequence_rules[i].progress[e]
                           /\ OfEntity(out'.events, e) = alone.events
                  /\ \A i, j \in DOMAIN out'.events : i < j => out'.events[i].id <= out'.events[j].id
<1>1. TypeInv /\ [Next]_vars => [A]_vars
  <2> SUFFICES ASSUME TypeInv, [Next]_vars PROVE A \/ UNCHANGED vars
    OBVIOUS
  <2>1. CASE UNCHANGED vars
    BY <2>1
  <2>2. CASE ~UNCHANGED vars
    <3> SUFFICES ASSUME out'.broken = <<>> PROVE A
      OBVIOUS
    <3>1. PICK N \in Nat \ {0} : \E batch \in [1 .. N -> Updates] : \E broken :
            Takes(batch, broken) /\ sent' = sent + N
      BY <2>2, StepIsBatch, Zenon
    <3>2. PICK batch \in [1 .. N -> Updates] : \E broken : Takes(batch, broken) /\ sent' = sent + N
      BY <3>1, Zenon
    <3>3. PICK broken :
              /\ engine' = ProcessBatch(engine, batch, broken).engine
              /\ out' = [batch |-> batch, broken |-> broken,
                         events |-> ProcessBatch(engine, batch, broken).events,
                         errors |-> ProcessBatch(engine, batch, broken).errors]
      BY <3>2, Zenon DEF Takes
    <3>4. /\ out'.batch = batch
          /\ engine' = ProcessBatch(engine, batch, <<>>).engine
          /\ out'.events = ProcessBatch(engine, batch, <<>>).events
      BY <3>3
    <3>5. engine \in EngineStates(AnyRules, AnySequences) /\ WellFormed(engine.entities) /\ N \in Nat
      BY DEF TypeInv
    <3>6. ASSUME NEW e \in Entities
          PROVE  LET alone == ProcessBatch(engine, OfEntity(out'.batch, e), <<>>)
                 IN  /\ engine'.entities[e] = alone.engine.entities[e]
                     /\ \A i \in DOMAIN engine.sequence_rules :
                          engine'.sequence_rules[i].progress[e] = alone.engine.sequence_rules[i].progress[e]
                     /\ OfEntity(out'.events, e) = alone.events
      <4>1. SameAlone(engine, batch, e)
        BY <3>5, Numbers, BatchAlone
      <4>2. QED
        BY <3>4, <4>1, Zenon DEF SameAlone
    <3>7. \A i, j \in DOMAIN out'.events : i < j => out'.events[i].id <= out'.events[j].id
      <4> DEFINE events == out'.events
      <4>1. events = ProcessBatch(engine, batch, <<>>).events
        BY <3>4
      <4> HIDE DEF events
      <4>2. \A i, j \in DOMAIN events : i < j => events[i].id <= events[j].id
        BY <3>5, <4>1, Numbers, BatchGroups
      <4>3. QED
        BY <4>2 DEF events
    <3>8. QED
      BY <3>6, <3>7
  <2>3. QED
    BY <2>1, <2>2
<1>2. QED
  BY <1>1, TypeInvInit, TypeInvNext, PTL DEF Spec, EntitiesAreIndependent

-----------------------------------------------------------------------------
\* The command line, from here on: ids are numbers there too.
LEMMA CliNumbers == NumberedIds
BY CliAssumption

\* A line is blank, garbage, a registration or an update.
LEMMA LineType ==
  ASSUME NEW line \in Lines
  PROVE  \/ line.type \in {"blank", "garbage"}
         \/ line.type = "register" /\ line.geometry \in Geometries /\ line.area \in Areas \union {None}
         \/ line.type = "update" /\ PointUpdate(line) \in Updates
<1>1. CASE line \in [type : {"blank", "garbage"}]
  BY <1>1
<1>2. CASE line \in [type : {"register"}, geometry : Geometries, area : Areas \union {None}]
  BY <1>2
<1>3. CASE line \in [type : {"update"}, id : Entities, location : Points, t : Times \union {None}]
  <2>1. line.type = "update" /\ line.id \in Entities /\ line.location \in Points /\ line.t \in Times \union {None}
    BY <1>3
  <2>2. (IF line.t = None THEN 0 ELSE line.t) \in Times
    BY <2>1, CliAssumption
  <2>3. QED
    BY <2>1, <2>2 DEF PointUpdate, Updates
<1>4. QED
  BY <1>1, <1>2, <1>3 DEF Lines

-----------------------------------------------------------------------------
\* Engines as the command line sets them up: no geometry has a threshold.
Plain ==
  {eng \in EngineStates(AnyRules, AnySequences) :
     WellFormed(eng.entities) /\ \A g \in Geometries : eng.dwell[g] = NoDwell}

\* A new engine, one that is restored, and one with another geometry are such engines.
LEMMA PlainBegins ==
  /\ NewEngine \in Plain
  /\ \A eng \in Plain : Restored(eng) \in Plain
  /\ \A eng \in Plain, g \in Geometries, area \in Areas \union {None} : Register(eng, g, area, NoDwell) \in Plain
<1>1. NewEngine \in EngineStates(AnyRules, AnySequences) /\ WellFormed(NewEngine.entities)
  BY NewEngineType
<1>2. NewEngine \in Plain
  BY <1>1 DEF Plain, NewEngine
<1>3. ASSUME NEW eng \in Plain
      PROVE  Restored(eng) \in Plain
  <2>1. eng \in EngineStates(AnyRules, AnySequences)
    BY DEF Plain
  <2>2. /\ Restored(eng) \in EngineStates(AnyRules, AnySequences)
        /\ Restored(eng).dwell = eng.dwell /\ Restored(eng).entities = eng.entities
    BY <2>1, RestoredOutcome
  <2>3. QED
    BY <2>2 DEF Plain
<1>4. ASSUME NEW eng \in Plain, NEW g \in Geometries, NEW area \in Areas \union {None}
      PROVE  Register(eng, g, area, NoDwell) \in Plain
  <2> DEFINE new == Register(eng, g, area, NoDwell)
  <2>1. eng \in EngineStates(AnyRules, AnySequences) /\ NoDwell \in Dwells
    BY DEF Plain, NoDwell, Dwells
  <2>2. /\ new \in EngineStates(AnyRules, AnySequences) /\ new.entities = eng.entities
        /\ IF eng.area[g] # None \/ area \notin Areas
             THEN new = eng
             ELSE /\ new.area = [eng.area EXCEPT ![g] = area]
                  /\ new.dwell = [eng.dwell EXCEPT ![g] = NoDwell]
    BY <2>1, RegisterOutcome
  <2> HIDE DEF new
  <2>3. eng.dwell \in [Geometries -> Dwells]
    BY <2>1 DEF EngineStates
  <2>4. \A h \in Geometries : new.dwell[h] = NoDwell
    BY <2>2, <2>3 DEF Plain
  <2>5. new \in Plain
    BY <2>2, <2>4 DEF Plain
  <2>6. QED
    BY <2>5 DEF new
<1>5. QED
  BY <1>2, <1>3, <1>4

\* A batch leaves geometries and thresholds alone.
LEMMA BatchKeepsSetup ==
  ASSUME NumberedIds, NEW eng \in EngineStates(AnyRules, AnySequences), WellFormed(eng.entities),
         NEW N \in Nat, NEW batch \in [1 .. N -> Updates]
  PROVE  SameSetup(eng, ProcessBatch(eng, batch, <<>>).engine)
<1>1. PICK order, updates, run : BehindBatch(eng, N, batch, <<>>, order, updates, run)
  BY BatchRun
<1>2. /\ updates \in [1 .. N -> Updates] /\ IsRun(run, N, eng, updates, <<>>)
      /\ ProcessBatch(eng, batch, <<>>).engine = run[N].engine
  BY <1>1 DEF BehindBatch
<1>3. N \in 0 .. N
  OBVIOUS
<1>4. SameSetup(eng, run[N].engine)
  BY <1>2, <1>3, RunKeepsSetup
<1>5. QED
  BY <1>2, <1>4

-----------------------------------------------------------------------------
\* Events a call may return.
AnyEvents ==
  {ev \in UNION {EventsFor(u) : u \in Updates} :
     ev.kind \in SpatialKinds => Subject(ev) \in Entities \X Geometries}

\* The error lines of refused updates.
Refusals == [update : Updates, error : {"monotonicity", "state_store"}]

\* The events and errors of a batch.
LEMMA BatchReturns ==
  ASSUME NumberedIds, NEW eng \in EngineStates(AnyRules, AnySequences), WellFormed(eng.entities),
         NEW N \in Nat, NEW batch \in [1 .. N -> Updates], NEW result, result = ProcessBatch(eng, batch, <<>>)
  PROVE  result.events \in Seq(AnyEvents) /\ result.errors \in Seq(Refusals)
<1>1. PICK order, updates, run : BehindBatch(eng, N, batch, <<>>, order, updates, run)
  BY BatchRun
<1>2. /\ updates \in [1 .. N -> Updates] /\ IsRun(run, N, eng, updates, <<>>)
      /\ result.events = SortEvents(run[N].calls) /\ result.errors = run[N].errors
  BY <1>1 DEF BehindBatch
<1> DEFINE calls == run[N].calls
           M == Cardinality(Emitted(calls))
<1>3. AreCalls(calls, N, updates)
  BY <1>2, RunCalls
<1>4. PICK sorted : IsOutput(sorted, calls, SortEvents(calls))
  BY <1>3, SortEventsIsSort
<1>5. /\ M \in Nat /\ result.events = [n \in 1 .. M |-> sorted[n].event]
      /\ \A n \in 1 .. M : sorted[n] \in Emitted(calls)
  <2>1. /\ M \in Nat /\ SortEvents(calls) = [n \in 1 .. M |-> sorted[n].event]
        /\ InOrder(sorted, Emitted(calls), EventOrder(Emitted(calls)))
    BY <1>4, Zenon DEF IsOutput
  <2>2. QED
    BY <1>2, <2>1 DEF InOrder
<1> HIDE DEF calls, M
<1>6. ASSUME NEW n \in 1 .. M
      PROVE  sorted[n].event \in AnyEvents
  <2>1. sorted[n].call \in 1 .. N /\ sorted[n].event \in calls[sorted[n].call]
    BY <1>3, <1>5, EmittedIs
  <2>2. updates[sorted[n].call] \in Updates /\ calls[sorted[n].call] \in CallEvents(updates[sorted[n].call])
    BY <1>3, <2>1 DEF AreCalls
  <2>3. QED
    BY <2>1, <2>2 DEF CallEvents, AnyEvents
<1>7. result.events \in Seq(AnyEvents)
  BY <1>5, <1>6
<1>8. N \in 0 .. N
  OBVIOUS
<1>9. run[N] \in Dones
  BY <1>2, <1>8, RunShape
<1>10. QED
  BY <1>2, <1>7, <1>9 DEF Dones, Refusals

-----------------------------------------------------------------------------
\* Lines on stdout.
Printed == {NdjsonEvent(ev) : ev \in AnyEvents}

\* What `run` keeps.
SessionStates ==
  [engine : Plain, restored : BOOLEAN, pending : Seq(Updates), line_no : Nat,
   errors : Seq([line : Nat] \union Refusals), printed : Seq(Printed)]

\* What is buffered when line n has been read, or the input has ended.
Buffered(s, n, lines) ==
  IF n <= Len(lines) /\ lines[n].type = "update" THEN Append(s.pending, PointUpdate(lines[n])) ELSE s.pending

\* A line that is not an update leaves the buffer alone; it may be a registration, or at fault.
Notes(s, n, lines, t) ==
  /\ n <= Len(lines) /\ lines[n].type # "update"
  /\ t.pending = s.pending /\ t.printed = <<>>
  /\ t.engine = IF lines[n].type = "register"
                  THEN Register(s.engine, lines[n].geometry, lines[n].area, NoDwell)
                  ELSE s.engine
  /\ t.errors = IF lines[n].type = "garbage" \/ (lines[n].type = "register" /\ t.engine = s.engine)
                  THEN Append(s.errors, [line |-> s.line_no + 1])
                  ELSE s.errors

\* An update is buffered, or the input ends and nothing is.
Waits(s, n, lines, t) ==
  /\ t.engine = s.engine /\ t.pending = Buffered(s, n, lines)
  /\ t.errors = s.errors /\ t.printed = <<>>
  /\ n > Len(lines) => t.pending = <<>>

\* The buffer is processed.
Flushes(s, n, lines, t) ==
  LET result == ProcessBatch(s.engine, Buffered(s, n, lines), <<>>)
  IN  /\ t.engine = result.engine /\ t.pending = <<>>
      /\ t.errors = s.errors \o result.errors
      /\ t.printed = [k \in DOMAIN result.events |-> NdjsonEvent(result.events[k])]

\* One turn of the loop, or what follows it.
Turn(s, n, lines, bs) == IF n <= Len(lines) THEN AfterLine(s, lines[n], bs) ELSE AfterEof(s)

\* What a turn may do.
TurnOutcome(s, n, lines, t) ==
  /\ t \in SessionStates /\ t.restored = s.restored
  /\ t.line_no = IF n <= Len(lines) THEN s.line_no + 1 ELSE s.line_no
  /\ \/ Notes(s, n, lines, t)
     \/ /\ n <= Len(lines) => lines[n].type = "update"
        /\ Waits(s, n, lines, t) \/ Flushes(s, n, lines, t)

\* The buffer as a batch.
LEMMA BufferedType ==
  ASSUME NEW s \in SessionStates, NEW lines \in Seq(Lines), NEW n \in Nat \ {0}
  PROVE  /\ Buffered(s, n, lines) \in Seq(Updates)
         /\ n <= Len(lines) => lines[n] \in Lines
<1>1. s.pending \in Seq(Updates)
  BY DEF SessionStates
<1>2. n <= Len(lines) => lines[n] \in Lines
  BY SeqElements
<1>3. n <= Len(lines) /\ lines[n].type = "update" => PointUpdate(lines[n]) \in Updates
  BY <1>2, LineType
<1>4. QED
  BY <1>1, <1>2, <1>3 DEF Buffered

\* A flush, field by field.
FlushedWith(s, t, result) ==
  /\ t \in SessionStates /\ t.restored = s.restored /\ t.line_no = s.line_no
  /\ t.engine = result.engine /\ t.pending = <<>>
  /\ t.errors = s.errors \o result.errors
  /\ t.printed = [k \in DOMAIN result.events |-> NdjsonEvent(result.events[k])]

LEMMA WrittenIs ==
  ASSUME NEW s \in SessionStates, s.pending \in Seq(Updates),
         NEW result, result = ProcessBatch(s.engine, s.pending, <<>>),
         NEW t, t = FlushBatch(s)
  PROVE  FlushedWith(s, t, result)
<1>1. /\ s.engine \in Plain /\ s.restored \in BOOLEAN /\ s.line_no \in Nat
      /\ s.errors \in Seq([line : Nat] \union Refusals)
  BY DEF SessionStates
<1> DEFINE printed == [k \in DOMAIN result.events |-> NdjsonEvent(result.events[k])]
           errors == s.errors \o result.errors
           N == Len(s.pending)
<1>2. t = [engine |-> result.engine, restored |-> s.restored, pending |-> <<>>, line_no |-> s.line_no,
           errors |-> errors, printed |-> printed]
  BY DEF FlushBatch, Written, SessionStates
<1>3. /\ s.engine \in EngineStates(AnyRules, AnySequences) /\ WellFormed(s.engine.entities)
      /\ \A g \in Geometries : s.engine.dwell[g] = NoDwell
      /\ N \in Nat /\ s.pending \in [1 .. N -> Updates]
  BY <1>1, SeqIsFunction DEF Plain
<1>4. result.events \in Seq(AnyEvents) /\ result.errors \in Seq(Refusals)
  BY <1>3, CliNumbers, BatchReturns
<1>5. result.engine \in Plain
  <2>1. result.engine \in EngineStates(AnyRules, AnySequences) /\ WellFormed(result.engine.entities)
    BY <1>3, CliNumbers, BatchKeepsType
  <2>2. SameSetup(s.engine, result.engine)
    BY <1>3, CliNumbers, BatchKeepsSetup
  <2>3. QED
    BY <1>3, <2>1, <2>2 DEF Plain, SameSetup
<1>6. printed \in Seq(Printed)
  <2>1. Len(result.events) \in Nat /\ DOMAIN result.events = 1 .. Len(result.events)
    BY <1>4
  <2>2. \A k \in 1 .. Len(result.events) : NdjsonEvent(result.events[k]) \in Printed
    BY <1>4, SeqElements DEF Printed
  <2>3. QED
    BY <2>1, <2>2
<1>7. errors \in Seq([line : Nat] \union Refusals)
  BY <1>1, <1>4
<1> HIDE DEF printed, errors
<1>8. t \in SessionStates
  BY <1>1, <1>2, <1>5, <1>6, <1>7 DEF SessionStates
<1>9. /\ t.restored = s.restored /\ t.line_no = s.line_no /\ t.engine = result.engine
      /\ t.pending = <<>> /\ t.errors = errors /\ t.printed = printed
  BY <1>2
<1>10. QED
  BY <1>8, <1>9, Zenon DEF printed, errors, FlushedWith

\* The same session, but for these fields.
Edited(s, t, eng, pending, line_no, errors) ==
  /\ t \in SessionStates /\ t.restored = s.restored
  /\ t.engine = eng /\ t.pending = pending /\ t.line_no = line_no /\ t.errors = errors
  /\ t.printed = <<>>

\* What the loop changes in its session between two flushes.
LEMMA EditedIs ==
  ASSUME NEW s \in SessionStates
  PROVE  /\ Edited(s, [s EXCEPT !.line_no = @ + 1, !.printed = <<>>], s.engine, s.pending, s.line_no + 1, s.errors)
         /\ Edited(s, [s EXCEPT !.printed = <<>>], s.engine, s.pending, s.line_no, s.errors)
         /\ s.printed = <<>> =>
              /\ Edited(s, Complain(s), s.engine, s.pending, s.line_no, Append(s.errors, [line |-> s.line_no]))
              /\ \A eng \in Plain : Edited(s, [s EXCEPT !.engine = eng], eng, s.pending, s.line_no, s.errors)
              /\ \A pending \in Seq(Updates) :
                   Edited(s, [s EXCEPT !.pending = pending], s.engine, pending, s.line_no, s.errors)
<1>1. /\ s.engine \in Plain /\ s.restored \in BOOLEAN /\ s.line_no \in Nat /\ s.pending \in Seq(Updates)
      /\ s.errors \in Seq([line : Nat] \union Refusals) /\ s.printed \in Seq(Printed)
  BY DEF SessionStates
<1>2. <<>> \in Seq(Printed) /\ s.line_no + 1 \in Nat
  BY <1>1
<1>3. Append(s.errors, [line |-> s.line_no]) \in Seq([line : Nat] \union Refusals)
  BY <1>1
<1>4. Edited(s, [s EXCEPT !.line_no = @ + 1, !.printed = <<>>], s.engine, s.pending, s.line_no + 1, s.errors)
  BY <1>2 DEF Edited, SessionStates
<1>5. Edited(s, [s EXCEPT !.printed = <<>>], s.engine, s.pending, s.line_no, s.errors)
  BY <1>2 DEF Edited, SessionStates
<1>6. s.printed = <<>> =>
        Edited(s, Complain(s), s.engine, s.pending, s.line_no, Append(s.errors, [line |-> s.line_no]))
  BY <1>3 DEF Edited, Complain, SessionStates
<1>7. ASSUME NEW eng \in Plain, s.printed = <<>>
      PROVE  Edited(s, [s EXCEPT !.engine = eng], eng, s.pending, s.line_no, s.errors)
  BY <1>7 DEF Edited, SessionStates
<1>8. ASSUME NEW pending \in Seq(Updates), s.printed = <<>>
      PROVE  Edited(s, [s EXCEPT !.pending = pending], s.engine, pending, s.line_no, s.errors)
  BY <1>8 DEF Edited, SessionStates
<1>9. QED
  BY <1>4, <1>5, <1>6, <1>7, <1>8

\* A turn does one of these.
LEMMA TurnIs ==
  ASSUME NEW s \in SessionStates, NEW lines \in Seq(Lines), NEW n \in Nat \ {0}, NEW bs \in Nat,
         NEW t, t = Turn(s, n, lines, bs)
  PROVE  TurnOutcome(s, n, lines, t)
<1>1. /\ s.engine \in Plain /\ s.restored \in BOOLEAN /\ s.line_no \in Nat /\ s.pending \in Seq(Updates)
      /\ s.errors \in Seq([line : Nat] \union Refusals) /\ s.printed \in Seq(Printed)
  BY DEF SessionStates
<1> DEFINE read == [s EXCEPT !.line_no = @ + 1, !.printed = <<>>]
<1>2. Edited(s, read, s.engine, s.pending, s.line_no + 1, s.errors)
  BY EditedIs
<1>3. CASE n <= Len(lines) /\ lines[n].type # "update"
  <2> DEFINE line == lines[n]
  <2>1. \/ line.type \in {"blank", "garbage"}
        \/ line.type = "register" /\ line.geometry \in Geometries /\ line.area \in Areas \union {None}
    BY <1>3, BufferedType, LineType
  <2>2. t = AfterLine(s, line, bs)
    BY <1>3 DEF Turn
  <2>3. AfterLine(s, line, bs) = CASE line.type = "blank"    -> read
                                   [] line.type = "garbage"  -> Complain(read)
                                   [] line.type = "register" -> RegisterLine(read, line)
                                   [] line.type = "update"   -> UpdateLine(read, line, bs)
    BY DEF AfterLine
  <2> HIDE DEF line, read
  <2>4. read \in SessionStates /\ read.printed = <<>> /\ read.engine = s.engine
    BY <1>2 DEF Edited
  <2>5. Edited(read, Complain(read), read.engine, read.pending, read.line_no, Append(read.errors, [line |-> read.line_no]))
    BY <2>4, EditedIs
  <2>6. Edited(s, Complain(read), s.engine, s.pending, s.line_no + 1, Append(s.errors, [line |-> s.line_no + 1]))
    BY <1>2, <2>5 DEF Edited
  <2>7. CASE line.type = "blank"
    <3>1. t = read
      BY <2>2, <2>3, <2>7
    <3>2. Notes(s, n, lines, t)
      BY <1>2, <1>3, <2>7, <3>1 DEF Notes, line, Edited
    <3>3. QED
      BY <1>2, <1>3, <3>1, <3>2 DEF TurnOutcome, Edited
  <2>8. CASE line.type = "garbage"
    <3>1. t = Complain(read)
      BY <2>2, <2>3, <2>8
    <3>2. Notes(s, n, lines, t)
      BY <1>3, <2>6, <2>8, <3>1 DEF Notes, line, Edited
    <3>3. QED
      BY <1>3, <2>6, <3>1, <3>2 DEF TurnOutcome, Edited
  <2>9. CASE line.type = "register"
    <3> DEFINE new == Register(s.engine, line.geometry, line.area, NoDwell)
    <3>1. new \in Plain
      BY <1>1, <2>1, <2>9, PlainBegins
    <3>2. t = IF new = s.engine THEN Complain(read) ELSE [read EXCEPT !.engine = new]
      BY <2>2, <2>3, <2>4, <2>9 DEF RegisterLine
    <3>3. new = Register(s.engine, lines[n].geometry, lines[n].area, NoDwell)
      BY DEF line
    <3> HIDE DEF new
    <3>4. lines[n].type = "register"
      BY <2>9 DEF line
    <3>5. CASE new = s.engine
      <4>1. t = Complain(read)
        BY <3>2, <3>5
      <4>2. Notes(s, n, lines, t)
        BY <1>3, <2>6, <3>3, <3>4, <3>5, <4>1 DEF Notes, Edited
      <4>3. QED
        BY <1>3, <2>6, <4>1, <4>2 DEF TurnOutcome, Edited
    <3>6. CASE new # s.engine
      <4>1. t = [read EXCEPT !.engine = new]
        BY <3>2, <3>6
      <4>2. Edited(read, t, new, read.pending, read.line_no, read.errors)
        BY <2>4, <3>1, <4>1, EditedIs
      <4>3. Edited(s, t, new, s.pending, s.line_no + 1, s.errors)
        BY <1>2, <4>2 DEF Edited
      <4>4. Notes(s, n, lines, t)
        BY <1>3, <3>3, <3>4, <3>6, <4>3 DEF Notes, Edited
      <4>5. QED
        BY <1>3, <4>3, <4>4 DEF TurnOutcome, Edited
    <3>7. QED
      BY <3>5, <3>6
  <2>10. QED
    BY <2>1, <2>7, <2>8, <2>9
<1>4. CASE n <= Len(lines) /\ lines[n].type = "update"
  <2> DEFINE u == PointUpdate(lines[n])
             buffered == [read EXCEPT !.pending = Append(@, u)]
  <2>1. t = AfterLine(s, lines[n], bs) /\ Buffered(s, n, lines) = Append(s.pending, u)
    BY <1>4 DEF Turn, Buffered
  <2>2. Append(s.pending, u) \in Seq(Updates)
    BY <2>1, BufferedType
  <2>3. AfterLine(s, lines[n], bs) = UpdateLine(read, lines[n], bs)
    BY <1>4 DEF AfterLine
  <2>4. UpdateLine(read, lines[n], bs) = buffered \/ UpdateLine(read, lines[n], bs) = FlushBatch(buffered)
    BY DEF UpdateLine
  <2> HIDE DEF u, read
  <2>5. read \in SessionStates /\ read.printed = <<>> /\ read.pending = s.pending
    BY <1>2 DEF Edited
  <2>6. buffered = [read EXCEPT !.pending = Append(s.pending, u)]
    BY <2>5
  <2> HIDE DEF buffered
  <2>7. Edited(read, buffered, read.engine, Append(s.pending, u), read.line_no, read.errors)
    BY <2>2, <2>5, <2>6, EditedIs
  <2>8. Edited(s, buffered, s.engine, Append(s.pending, u), s.line_no + 1, s.errors)
    BY <1>2, <2>7 DEF Edited
  <2>9. CASE t = buffered
    <3>1. Waits(s, n, lines, t)
      BY <1>4, <2>1, <2>8, <2>9 DEF Waits, Edited
    <3>2. QED
      BY <1>4, <2>8, <2>9, <3>1 DEF TurnOutcome, Edited
  <2>10. CASE t = FlushBatch(buffered)
    <3> DEFINE result == ProcessBatch(buffered.engine, buffered.pending, <<>>)
    <3>1. FlushedWith(buffered, t, result)
      <4>1. buffered \in SessionStates /\ buffered.pending \in Seq(Updates)
        BY <2>2, <2>8 DEF Edited
      <4>2. QED
        BY <2>10, <4>1, WrittenIs
    <3>2. /\ result = ProcessBatch(s.engine, Buffered(s, n, lines), <<>>)
          /\ buffered.errors = s.errors /\ buffered.restored = s.restored /\ buffered.line_no = s.line_no + 1
      BY <2>1, <2>8 DEF Edited
    <3> HIDE DEF result
    <3>3. Flushes(s, n, lines, t)
      BY <3>1, <3>2, Zenon DEF Flushes, FlushedWith
    <3>4. QED
      BY <1>4, <3>1, <3>2, <3>3 DEF TurnOutcome, FlushedWith
  <2>11. QED
    BY <2>1, <2>3, <2>4, <2>9, <2>10
<1>5. CASE ~(n <= Len(lines))
  <2> DEFINE done == [s EXCEPT !.printed = <<>>]
  <2>1. /\ t = IF s.pending # <<>> THEN FlushBatch(done) ELSE done
        /\ Buffered(s, n, lines) = s.pending
    BY <1>5 DEF Turn, AfterEof, Buffered
  <2>2. Edited(s, done, s.engine, s.pending, s.line_no, s.errors)
    BY EditedIs
  <2> HIDE DEF done
  <2>3. CASE s.pending = <<>>
    <3>1. t = done
      BY <2>1, <2>3
    <3>2. Waits(s, n, lines, t)
      BY <2>1, <2>2, <2>3, <3>1 DEF Waits, Edited
    <3>3. QED
      BY <1>5, <2>2, <3>1, <3>2 DEF TurnOutcome, Edited
  <2>4. CASE s.pending # <<>>
    <3> DEFINE result == ProcessBatch(done.engine, done.pending, <<>>)
    <3>1. FlushedWith(done, t, result)
      <4>1. done \in SessionStates /\ done.pending \in Seq(Updates) /\ t = FlushBatch(done)
        BY <1>1, <2>1, <2>2, <2>4 DEF Edited
      <4>2. QED
        BY <4>1, WrittenIs
    <3>2. /\ result = ProcessBatch(s.engine, Buffered(s, n, lines), <<>>)
          /\ done.errors = s.errors /\ done.restored = s.restored /\ done.line_no = s.line_no
      BY <2>1, <2>2 DEF Edited
    <3> HIDE DEF result
    <3>3. Flushes(s, n, lines, t)
      BY <3>1, <3>2, Zenon DEF Flushes, FlushedWith
    <3>4. QED
      BY <1>5, <3>1, <3>2, <3>3 DEF TurnOutcome, FlushedWith
  <2>5. QED
    BY <2>3, <2>4
<1>6. QED
  BY <1>3, <1>4, <1>5

-----------------------------------------------------------------------------
\* What `run` does with these lines, turn by turn, from this session.
IsTrace(f, start, lines, bs) ==
  /\ f[0] = start
  /\ \A n \in 1 .. Len(lines) + 1 : f[n] = Turn(f[n - 1], n, lines, bs)

\* It does something.
LEMMA TraceExists ==
  ASSUME NEW start \in SessionStates, NEW lines \in Seq(Lines), NEW bs \in Nat
  PROVE  \E f : IsTrace(f, start, lines, bs)
<1> DEFINE N == Len(lines) + 1
           F == [p \in SessionStates \X (1 .. N) |-> Turn(p[1], p[2], lines, bs)]
<1>1. N \in Nat
  OBVIOUS
<1>2. ASSUME NEW s \in SessionStates, NEW n \in 1 .. N
      PROVE  Turn(s, n, lines, bs) \in SessionStates
  <2>1. n \in Nat \ {0}
    OBVIOUS
  <2>2. TurnOutcome(s, n, lines, Turn(s, n, lines, bs))
    BY <2>1, TurnIs
  <2>3. QED
    BY <2>2 DEF TurnOutcome
<1>3. /\ F \in [SessionStates \X (1 .. N) -> SessionStates]
      /\ \A s \in SessionStates, n \in 1 .. N : F[<<s, n>>] = Turn(s, n, lines, bs)
  <2>1. \A p \in SessionStates \X (1 .. N) : Turn(p[1], p[2], lines, bs) \in SessionStates
    BY <1>2
  <2>2. QED
    BY <2>1
<1> HIDE DEF F
<1>4. PICK fold \in [SUBSET (1 .. N) -> SessionStates] : Folded(N, start, F, fold)
  BY <1>1, <1>3, FoldedExists
<1>5. Unfolds(fold, N, SessionStates, start, F)
  BY <1>4 DEF Unfolds, Folded
<1>6. PICK f : Ran(f, N, SessionStates, start, F, fold)
  BY <1>1, <1>3, <1>5, FoldRun
<1>7. ASSUME NEW n \in 1 .. N
      PROVE  f[n] = Turn(f[n - 1], n, lines, bs)
  <2>1. f[n] = F[<<f[n - 1], n>>] /\ f \in [0 .. N -> SessionStates] /\ n - 1 \in 0 .. N
    BY <1>6 DEF Ran
  <2>2. QED
    BY <1>3, <2>1
<1>8. f[0] = start
  BY <1>6 DEF Ran
<1>9. IsTrace(f, start, lines, bs)
  BY <1>7, <1>8 DEF IsTrace
<1>10. QED
  BY <1>9

\* Turn by turn a session of its type that counts the lines.
LEMMA TraceType ==
  ASSUME NEW start \in SessionStates, start.line_no = 0, NEW lines \in Seq(Lines), NEW bs \in Nat,
         NEW f, IsTrace(f, start, lines, bs)
  PROVE  /\ \A n \in 0 .. Len(lines) + 1 : f[n] \in SessionStates /\ f[n].restored = start.restored
         /\ \A n \in 0 .. Len(lines) : f[n].line_no = n
         /\ \A n \in 1 .. Len(lines) + 1 : TurnOutcome(f[n - 1], n, lines, f[n])
<1> DEFINE N == Len(lines) + 1
           S == {n \in 0 .. N : /\ f[n] \in SessionStates /\ f[n].restored = start.restored
                                /\ n <= Len(lines) => f[n].line_no = n
                                /\ n # 0 => TurnOutcome(f[n - 1], n, lines, f[n])}
<1>1. N \in Nat /\ Len(lines) \in Nat
  OBVIOUS
<1>2. 0 \in S
  BY <1>1 DEF IsTrace
<1>3. ASSUME NEW n \in 1 .. N, n - 1 \in S
      PROVE  n \in S
  <2>1. /\ f[n - 1] \in SessionStates /\ f[n - 1].restored = start.restored
        /\ n <= Len(lines) + 1 => f[n - 1].line_no = n - 1
    BY <1>1, <1>3
  <2>2. f[n] = Turn(f[n - 1], n, lines, bs) /\ n \in Nat \ {0}
    BY DEF IsTrace
  <2>3. TurnOutcome(f[n - 1], n, lines, f[n])
    BY <2>1, <2>2, TurnIs
  <2>4. /\ f[n] \in SessionStates /\ f[n].restored = start.restored
        /\ n <= Len(lines) => f[n].line_no = n
    BY <1>1, <2>1, <2>3 DEF TurnOutcome
  <2>5. QED
    BY <1>1, <2>3, <2>4
<1> HIDE DEF S
<1>4. \A n \in 0 .. N : n \in S
  BY <1>1, <1>2, <1>3, UpTo
<1>5. QED
  BY <1>1, <1>4 DEF S

-----------------------------------------------------------------------------
\* What a registration makes of an engine: the first valid one of a geometry counts.
Registered(eng, g, area, new) ==
  /\ new \in Plain /\ new.entities = eng.entities
  /\ new.area = [h \in Geometries |-> IF h = g /\ eng.area[h] = None THEN area ELSE eng.area[h]]
  /\ new = eng <=> eng.area[g] # None \/ area = None

\* That is what Register does.
LEMMA RegisteredIs ==
  ASSUME NEW eng \in Plain, NEW g \in Geometries, NEW area \in Areas \union {None}
  PROVE  Registered(eng, g, area, Register(eng, g, area, NoDwell))
<1> DEFINE new == Register(eng, g, area, NoDwell)
<1>1. eng \in EngineStates(AnyRules, AnySequences) /\ NoDwell \in Dwells
  BY DEF Plain, NoDwell, Dwells
<1>2. /\ new.entities = eng.entities
      /\ IF eng.area[g] # None \/ area \notin Areas
           THEN new = eng
           ELSE /\ new.area = [eng.area EXCEPT ![g] = area]
                /\ new.dwell = [eng.dwell EXCEPT ![g] = NoDwell]
  BY <1>1, RegisterOutcome
<1>3. new \in Plain
  BY PlainBegins
<1>4. eng.area \in [Geometries -> Areas \union {None}]
  BY <1>1 DEF EngineStates
<1>5. area \notin Areas <=> area = None
  BY EngineAssumption
<1> HIDE DEF new
<1>6. new = eng <=> eng.area[g] # None \/ area = None
  <2>1. CASE eng.area[g] # None \/ area = None
    BY <1>2, <1>5, <2>1
  <2>2. CASE ~(eng.area[g] # None \/ area = None)
    <3>1. new.area = [eng.area EXCEPT ![g] = area]
      BY <1>2, <1>5, <2>2
    <3>2. new.area[g] = area
      BY <1>4, <3>1
    <3>3. QED
      BY <2>2, <3>2
  <2>3. QED
    BY <2>1, <2>2
<1>7. new.area = [h \in Geometries |-> IF h = g /\ eng.area[h] = None THEN area ELSE eng.area[h]]
  <2>1. CASE eng.area[g] # None \/ area = None
    BY <1>4, <1>6, <2>1
  <2>2. CASE ~(eng.area[g] # None \/ area = None)
    BY <1>2, <1>4, <1>5, <2>2
  <2>3. QED
    BY <2>1, <2>2
<1>8. Registered(eng, g, area, new)
  BY <1>2, <1>3, <1>6, <1>7 DEF Registered
<1>9. QED
  BY <1>8 DEF new

\* What an update makes of an engine that takes it at once.
Updated(eng, u, new) ==
  /\ new \in Plain /\ new.area = eng.area
  /\ \A e \in Entities : e # u.id => new.entities[e] = eng.entities[e]
  /\ IF Late(eng, u) THEN new.entities[u.id] = eng.entities[u.id] ELSE PutBy(eng, new.entities[u.id], u.id, u)

\* That is what process_event does.
LEMMA UpdatedIs ==
  ASSUME NEW eng \in Plain, NEW u \in Updates
  PROVE  Updated(eng, u, ProcessEvent(eng, u, None).engine)
<1> DEFINE r == ProcessEvent(eng, u, None)
<1>1. /\ eng \in EngineStates(AnyRules, AnySequences) /\ WellFormed(eng.entities)
      /\ \A g \in Geometries : eng.dwell[g] = NoDwell
  BY DEF Plain
<1>2. Outcome(eng, u, None, r)
  BY <1>1, ProcessEventOutcome
<1>3. r.engine \in EngineStates(AnyRules, AnySequences) /\ WellFormed(r.engine.entities)
  BY <1>1, ProcessEventType
<1> HIDE DEF r
<1>4. /\ r.engine.area = eng.area /\ r.engine.dwell = eng.dwell
      /\ r.engine.entities = IF r.error = None THEN [eng.entities EXCEPT ![u.id] = After(eng, u)] ELSE eng.entities
      /\ r.error = None <=> Accepts(eng.entities[u.id], u)
  <2>1. None \notin StoreFaults
    BY EngineAssumption
  <2>2. Stores(eng, u, None) <=> Accepts(eng.entities[u.id], u)
    BY <2>1 DEF Stores, StoreFaults
  <2>3. r.error = None <=> Accepts(eng.entities[u.id], u)
    BY <1>2, <2>1 DEF Outcome
  <2>4. r.engine.entities =
          IF Stores(eng, u, None) THEN [eng.entities EXCEPT ![u.id] = After(eng, u)] ELSE eng.entities
    BY <1>2, Zenon DEF Outcome
  <2>5. r.engine.area = eng.area /\ r.engine.dwell = eng.dwell
    BY <1>2 DEF Outcome
  <2>6. QED
    BY <2>2, <2>3, <2>4, <2>5
<1>5. r.engine \in Plain
  BY <1>1, <1>3, <1>4 DEF Plain
<1>6. u.id \in Entities /\ u.t_ms \in Nat /\ eng.entities \in [Entities -> EntityStates]
  BY <1>1, CliNumbers, UpdateType DEF EngineStates
<1>7. eng.entities[u.id].last_t_ms \in Nat \union {None} /\ None \notin Nat
  BY <1>6, TimesAssumption DEF EntityStates
<1>8. Accepts(eng.entities[u.id], u) <=> ~Late(eng, u)
  BY <1>6, <1>7 DEF Accepts, Late
<1>9. CASE Late(eng, u)
  <2>1. r.engine.entities = eng.entities
    BY <1>4, <1>8, <1>9
  <2>2. Updated(eng, u, r.engine)
    BY <1>4, <1>5, <1>9, <2>1 DEF Updated
  <2>3. QED
    BY <2>2 DEF r
<1>10. CASE ~Late(eng, u)
  <2>1. r.engine.entities = [eng.entities EXCEPT ![u.id] = After(eng, u)]
    BY <1>4, <1>8, <1>10
  <2>2. SameSetup(eng, eng)
    BY DEF SameSetup
  <2>3. PutBy(eng, After(eng, u), u.id, u)
    BY <1>1, <1>10, <2>2, PutByUpdate
  <2>4. r.engine.entities[u.id] = After(eng, u) /\ \A e \in Entities : e # u.id => r.engine.entities[e] = eng.entities[e]
    BY <1>6, <2>1
  <2>5. Updated(eng, u, r.engine)
    BY <1>4, <1>5, <1>10, <2>3, <2>4 DEF Updated
  <2>6. QED
    BY <2>5 DEF r
<1>11. QED
  BY <1>9, <1>10

\* What one line makes of an engine that takes it at once.
Taken(eng, line, new) ==
  /\ new \in Plain
  /\ \/ line.type \in {"blank", "garbage"} /\ new = eng
     \/ /\ line.type = "register" /\ line.geometry \in Geometries /\ line.area \in Areas \union {None}
        /\ Registered(eng, line.geometry, line.area, new)
     \/ line.type = "update" /\ PointUpdate(line) \in Updates /\ Updated(eng, PointUpdate(line), new)

\* That is what Take does.
LEMMA TakenIs ==
  ASSUME NEW eng \in Plain, NEW line \in Lines
  PROVE  Taken(eng, line, Take(eng, line))
<1>1. CASE line.type \in {"blank", "garbage"}
  <2>1. Take(eng, line) = eng
    BY <1>1 DEF Take
  <2>2. QED
    BY <1>1, <2>1 DEF Taken
<1>2. CASE line.type = "register" /\ line.geometry \in Geometries /\ line.area \in Areas \union {None}
  <2>1. Take(eng, line) = Register(eng, line.geometry, line.area, NoDwell)
    BY <1>2 DEF Take
  <2>2. Registered(eng, line.geometry, line.area, Take(eng, line))
    BY <1>2, <2>1, RegisteredIs
  <2>3. QED
    BY <1>2, <2>2 DEF Taken, Registered
<1>3. CASE line.type = "update" /\ PointUpdate(line) \in Updates
  <2>1. Take(eng, line) = ProcessEvent(eng, PointUpdate(line), None).engine
    BY <1>3 DEF Take
  <2>2. Updated(eng, PointUpdate(line), Take(eng, line))
    BY <1>3, <2>1, UpdatedIs
  <2>3. QED
    BY <1>3, <2>2 DEF Taken, Updated
<1>4. QED
  BY <1>1, <1>2, <1>3, LineType

-----------------------------------------------------------------------------
\* One engine that takes line after line of a part.
Reads(g, eng, lines) ==
  /\ g[0] = eng /\ g[Len(lines)] = TakePart(eng, lines)
  /\ \A n \in 0 .. Len(lines) : g[n] \in Plain
  /\ \A n \in 1 .. Len(lines) : Taken(g[n - 1], lines[n], g[n])

\* TakePart is such a run.
LEMMA PartIsRead ==
  ASSUME NEW eng \in Plain, NEW lines \in Seq(Lines)
  PROVE  \E g : Reads(g, eng, lines)
<1> DEFINE N == Len(lines)
           Step(d, n) == Take(d, lines[n])
           F == [p \in Plain \X (1 .. N) |-> Step(p[1], p[2])]
           Eq(h) == h = [t \in SUBSET DOMAIN lines |->
                           IF t = {} THEN eng ELSE Step(h[t \ {Max(t)}], Max(t))]
           fold == CHOOSE h : Eq(h)
<1>1. TakePart(eng, lines) = fold[DOMAIN lines]
  BY Zenon DEF TakePart, FoldLeft, MapThenFoldSet
<1>2. N \in Nat /\ DOMAIN lines = 1 .. N /\ \A n \in 1 .. N : lines[n] \in Lines
  BY SeqElements
<1>3. \A d \in Plain, n \in 1 .. N : Taken(d, lines[n], Step(d, n))
  BY <1>2, TakenIs
<1>4. \A d \in Plain, n \in 1 .. N : Step(d, n) \in Plain
  BY <1>3 DEF Taken
<1> HIDE DEF Step, N
<1>5. F \in [Plain \X (1 .. N) -> Plain] /\ \A d \in Plain, n \in 1 .. N : F[<<d, n>>] = Step(d, n)
  <2>1. \A p \in Plain \X (1 .. N) : Step(p[1], p[2]) \in Plain
    BY <1>4
  <2>2. QED
    BY <2>1
<1> HIDE DEF F
<1>6. PICK h \in [SUBSET (1 .. N) -> Plain] : Folded(N, eng, F, h)
  BY <1>2, <1>5, FoldedExists
<1>7. Eq(h)
  <2>1. ASSUME NEW t \in SUBSET (1 .. N), t # {}
        PROVE  F[<<h[t \ {Max(t)}], Max(t)>>] = Step(h[t \ {Max(t)}], Max(t))
    <3>1. Max(t) \in 1 .. N /\ t \ {Max(t)} \in SUBSET (1 .. N)
      BY <1>2, <2>1, MaxInSet
    <3>2. h[t \ {Max(t)}] \in Plain
      BY <3>1
    <3>3. QED
      BY <1>5, <3>1, <3>2
  <2>2. QED
    BY <1>2, <1>6, <2>1 DEF Folded
<1>8. Eq(fold)
  BY <1>7
<1>9. \A t \in SUBSET (1 .. N) : fold[t] = IF t = {} THEN eng ELSE Step(fold[t \ {Max(t)}], Max(t))
  BY <1>2, <1>8
<1> HIDE DEF fold
<1>10. Unfolds(fold, N, Plain, eng, F)
  <2>1. fold[{}] = eng
    BY <1>9
  <2>2. ASSUME NEW t \in SUBSET (1 .. N), t # {}, fold[t \ {Max(t)}] \in Plain
        PROVE  fold[t] = F[<<fold[t \ {Max(t)}], Max(t)>>]
    <3>1. Max(t) \in 1 .. N
      BY <1>2, <2>2, MaxInSet
    <3>2. QED
      BY <1>5, <1>9, <2>2, <3>1
  <2>3. QED
    BY <2>1, <2>2 DEF Unfolds
<1>11. PICK g : Ran(g, N, Plain, eng, F, fold)
  BY <1>2, <1>5, <1>10, FoldRun
<1>12. /\ g[N] = fold[1 .. N] /\ g \in [0 .. N -> Plain] /\ g[0] = eng
       /\ \A n \in 1 .. N : g[n] = F[<<g[n - 1], n>>]
  BY <1>11 DEF Ran
<1>13. ASSUME NEW n \in 1 .. N
       PROVE  Taken(g[n - 1], lines[n], g[n])
  <2>1. n - 1 \in 0 .. N /\ g[n - 1] \in Plain
    BY <1>2, <1>12
  <2>2. g[n] = Step(g[n - 1], n)
    BY <1>5, <1>12, <2>1
  <2>3. QED
    BY <1>3, <2>1, <2>2
<1>14. Reads(g, eng, lines)
  BY <1>1, <1>2, <1>12, <1>13 DEF Reads, N
<1>15. QED
  BY <1>14

\* It stays such an engine.
LEMMA PartType ==
  ASSUME NEW eng \in Plain, NEW lines \in Seq(Lines)
  PROVE  TakePart(eng, lines) \in Plain
<1>1. PICK g : Reads(g, eng, lines)
  BY PartIsRead
<1>2. Len(lines) \in 0 .. Len(lines)
  BY SeqElements
<1>3. QED
  BY <1>1, <1>2 DEF Reads

\* Part after part.
ReadsParts(h, parts) ==
  /\ h[0] = NewEngine /\ h[Len(parts)] = OneByOne(parts)
  /\ \A n \in 0 .. Len(parts) : h[n] \in Plain
  /\ \A n \in 1 .. Len(parts) : h[n] = TakePart(h[n - 1], parts[n])

\* OneByOne is such a run.
LEMMA PartsAreRead ==
  ASSUME NEW parts \in Seq(Seq(Lines))
  PROVE  \E h : ReadsParts(h, parts)
<1> DEFINE N == Len(parts)
           Step(d, n) == TakePart(d, parts[n])
           F == [p \in Plain \X (1 .. N) |-> Step(p[1], p[2])]
           Eq(h) == h = [t \in SUBSET DOMAIN parts |->
                           IF t = {} THEN NewEngine ELSE Step(h[t \ {Max(t)}], Max(t))]
           fold == CHOOSE h : Eq(h)
<1>1. OneByOne(parts) = fold[DOMAIN parts]
  BY Zenon DEF OneByOne, FoldLeft, MapThenFoldSet
<1>2. N \in Nat /\ DOMAIN parts = 1 .. N /\ \A n \in 1 .. N : parts[n] \in Seq(Lines)
  BY SeqElements
<1>3. \A d \in Plain, n \in 1 .. N : Step(d, n) \in Plain
  BY <1>2, PartType
<1>4. NewEngine \in Plain
  BY PlainBegins
<1> HIDE DEF N
<1>5. F \in [Plain \X (1 .. N) -> Plain] /\ \A d \in Plain, n \in 1 .. N : F[<<d, n>>] = Step(d, n)
  <2> HIDE DEF Step
  <2>1. \A p \in Plain \X (1 .. N) : Step(p[1], p[2]) \in Plain
    BY <1>3
  <2>2. QED
    BY <2>1
<1> HIDE DEF F, Step
<1>6. PICK h \in [SUBSET (1 .. N) -> Plain] : Folded(N, NewEngine, F, h)
  BY <1>2, <1>4, <1>5, FoldedExists
<1>7. Eq(h)
  <2>1. ASSUME NEW t \in SUBSET (1 .. N), t # {}
        PROVE  F[<<h[t \ {Max(t)}], Max(t)>>] = Step(h[t \ {Max(t)}], Max(t))
    <3>1. Max(t) \in 1 .. N /\ t \ {Max(t)} \in SUBSET (1 .. N)
      BY <1>2, <2>1, MaxInSet
    <3>2. h[t \ {Max(t)}] \in Plain
      BY <3>1
    <3>3. QED
      BY <1>5, <3>1, <3>2
  <2>2. QED
    BY <1>2, <1>6, <2>1 DEF Folded
<1>8. Eq(fold)
  BY <1>7
<1>9. \A t \in SUBSET (1 .. N) : fold[t] = IF t = {} THEN NewEngine ELSE Step(fold[t \ {Max(t)}], Max(t))
  BY <1>2, <1>8
<1> HIDE DEF fold
<1>10. Unfolds(fold, N, Plain, NewEngine, F)
  <2>1. fold[{}] = NewEngine
    BY <1>9
  <2>2. ASSUME NEW t \in SUBSET (1 .. N), t # {}, fold[t \ {Max(t)}] \in Plain
        PROVE  fold[t] = F[<<fold[t \ {Max(t)}], Max(t)>>]
    <3>1. Max(t) \in 1 .. N
      BY <1>2, <2>2, MaxInSet
    <3>2. QED
      BY <1>5, <1>9, <2>2, <3>1
  <2>3. QED
    BY <2>1, <2>2 DEF Unfolds
<1>11. PICK g : Ran(g, N, Plain, NewEngine, F, fold)
  BY <1>2, <1>4, <1>5, <1>10, FoldRun
<1>12. /\ g[N] = fold[1 .. N] /\ g \in [0 .. N -> Plain] /\ g[0] = NewEngine
       /\ \A n \in 1 .. N : g[n] = F[<<g[n - 1], n>>]
  BY <1>11 DEF Ran
<1>13. ASSUME NEW n \in 1 .. N
       PROVE  g[n] = TakePart(g[n - 1], parts[n])
  <2>1. n - 1 \in 0 .. N /\ g[n - 1] \in Plain
    BY <1>2, <1>12
  <2>2. g[n] = Step(g[n - 1], n)
    BY <1>5, <1>12, <2>1
  <2>3. QED
    BY <2>2 DEF Step
<1>14. ReadsParts(g, parts)
  BY <1>1, <1>2, <1>12, <1>13 DEF ReadsParts, N
<1>15. QED
  BY <1>14

\* One part more.
LEMMA OnePartMore ==
  ASSUME NEW parts \in Seq(Seq(Lines)), NEW part \in Seq(Lines)
  PROVE  /\ OneByOne(<<>>) = NewEngine
         /\ OneByOne(parts) \in Plain
         /\ OneByOne(Append(parts, part)) = TakePart(OneByOne(parts), part)
<1> DEFINE N == Len(parts)
           more == Append(parts, part)
<1>1. N \in Nat /\ more \in Seq(Seq(Lines)) /\ Len(more) = N + 1 /\ <<>> \in Seq(Seq(Lines)) /\ Len(<<>>) = 0
  OBVIOUS
<1>2. more[N + 1] = part /\ \A n \in 1 .. N : more[n] = parts[n]
  OBVIOUS
<1> HIDE DEF more, N
<1>3. PICK h : ReadsParts(h, parts)
  BY PartsAreRead
<1>4. PICK k : ReadsParts(k, more)
  BY <1>1, PartsAreRead
<1>5. PICK z : ReadsParts(z, <<>>)
  BY <1>1, PartsAreRead
<1>6. /\ h[0] = NewEngine /\ h[N] = OneByOne(parts) /\ \A n \in 0 .. N : h[n] \in Plain
      /\ \A n \in 1 .. N : h[n] = TakePart(h[n - 1], parts[n])
  BY <1>3 DEF ReadsParts, N
<1>7. /\ k[0] = NewEngine /\ k[N + 1] = OneByOne(more)
      /\ \A n \in 1 .. N + 1 : k[n] = TakePart(k[n - 1], more[n])
  BY <1>1, <1>4 DEF ReadsParts
<1> DEFINE S == {n \in 0 .. N : h[n] = k[n]}
<1>8. 0 \in S
  BY <1>1, <1>6, <1>7
<1>9. ASSUME NEW n \in 1 .. N, n - 1 \in S
      PROVE  n \in S
  <2>1. h[n - 1] = k[n - 1]
    BY <1>9
  <2>2. n \in 1 .. N + 1 /\ n \in 0 .. N
    BY <1>1
  <2>3. h[n] = k[n]
    BY <1>2, <1>6, <1>7, <2>1, <2>2
  <2>4. QED
    BY <2>2, <2>3
<1> HIDE DEF S
<1>10. \A n \in 0 .. N : n \in S
  BY <1>1, <1>8, <1>9, UpTo
<1>11. N \in 0 .. N /\ N + 1 \in 1 .. N + 1 /\ (N + 1) - 1 = N
  BY <1>1
<1>12. k[N] = OneByOne(parts)
  BY <1>6, <1>10, <1>11 DEF S
<1>13. OneByOne(more) = TakePart(OneByOne(parts), part)
  BY <1>2, <1>7, <1>11, <1>12
<1>14. OneByOne(<<>>) = NewEngine
  BY <1>1, <1>5 DEF ReadsParts
<1>15. OneByOne(parts) \in Plain
  BY <1>6, <1>11
<1>16. QED
  BY <1>13, <1>14, <1>15 DEF more

-----------------------------------------------------------------------------
\* Engines with the same facts.
Like(a, b) ==
  /\ a.area = b.area
  /\ \A e \in Entities : /\ a.entities[e].position = b.entities[e].position
                         /\ a.entities[e].last_t_ms = b.entities[e].last_t_ms
                         /\ a.entities[e].presence = b.entities[e].presence

\* Facts compares just that.
LEMMA FactsAreLike ==
  ASSUME NEW a, NEW b
  PROVE  Facts(a) = Facts(b) <=> Like(a, b)
<1> DEFINE Of(eng, e) == <<eng.entities[e].position, eng.entities[e].last_t_ms, eng.entities[e].presence>>
<1>1. /\ Facts(a) = <<a.area, [e \in Entities |-> Of(a, e)]>>
      /\ Facts(b) = <<b.area, [e \in Entities |-> Of(b, e)]>>
  BY DEF Facts
<1>2. \A e \in Entities : Of(a, e) = Of(b, e) <=>
        /\ a.entities[e].position = b.entities[e].position
        /\ a.entities[e].last_t_ms = b.entities[e].last_t_ms
        /\ a.entities[e].presence = b.entities[e].presence
  OBVIOUS
<1> HIDE DEF Of
<1>3. [e \in Entities |-> Of(a, e)] = [e \in Entities |-> Of(b, e)] <=> \A e \in Entities : Of(a, e) = Of(b, e)
  <2>1. ASSUME [e \in Entities |-> Of(a, e)] = [e \in Entities |-> Of(b, e)], NEW e \in Entities
        PROVE  Of(a, e) = Of(b, e)
    <3>1. [d \in Entities |-> Of(a, d)][e] = Of(a, e) /\ [d \in Entities |-> Of(b, d)][e] = Of(b, e)
      OBVIOUS
    <3>2. QED
      BY <2>1, <3>1
  <2>2. QED
    BY <2>1
<1>4. QED
  BY <1>1, <1>2, <1>3 DEF Like

\* The types of what an engine of the command line has.
LEMMA PlainType ==
  ASSUME NEW eng \in Plain
  PROVE  /\ eng.area \in [Geometries -> Areas \union {None}]
         /\ eng.entities \in [Entities -> EntityStates]
         /\ \A g \in Geometries : eng.dwell[g] = NoDwell
         /\ \A e \in Entities : /\ eng.entities[e].last_t_ms \in Nat \union {None}
                                /\ eng.entities[e].presence \in [Geometries -> Presences]
         /\ None \notin Nat
<1>1. /\ eng.area \in [Geometries -> Areas \union {None}] /\ eng.entities \in [Entities -> EntityStates]
      /\ \A g \in Geometries : eng.dwell[g] = NoDwell
  BY DEF Plain, EngineStates
<1>2. Times \subseteq Nat /\ None \notin Nat
  BY TimesAssumption
<1>3. \A e \in Entities : /\ eng.entities[e].last_t_ms \in Times \union {None}
                          /\ eng.entities[e].presence \in [Geometries -> Presences]
  BY <1>1 DEF EntityStates
<1>4. QED
  BY <1>1, <1>2, <1>3

\* Two states of an entity with the same facts.
SameState(s, t) == s.position = t.position /\ s.last_t_ms = t.last_t_ms /\ s.presence = t.presence

\* An update puts its entity in one state, whatever it had before.
LEMMA PutIsOne ==
  ASSUME NEW a \in Plain, NEW b \in Plain, a.area = b.area, NEW e, NEW u,
         NEW s \in EntityStates, NEW t \in EntityStates, PutBy(a, s, e, u), PutBy(b, t, e, u)
  PROVE  SameState(s, t)
<1>1. /\ \A g \in Geometries : s.presence[g] = PresenceAt(a, g, u.x)
      /\ \A g \in Geometries : t.presence[g] = PresenceAt(b, g, u.x)
  BY PlainType DEF PutBy
<1>2. \A g \in Geometries : PresenceAt(a, g, u.x) = PresenceAt(b, g, u.x)
  BY DEF PresenceAt, Covers
<1>3. s.presence \in [Geometries -> Presences] /\ t.presence \in [Geometries -> Presences]
  BY DEF EntityStates
<1>4. s.presence = t.presence
  BY <1>1, <1>2, <1>3
<1>5. s.position = t.position /\ s.last_t_ms = t.last_t_ms
  BY DEF PutBy
<1>6. QED
  BY <1>4, <1>5 DEF SameState

\* Engines with the same facts have the same facts after a line.
LEMMA LikeTaken ==
  ASSUME NEW a \in Plain, NEW b \in Plain, Like(a, b), NEW line,
         NEW c, NEW d, Taken(a, line, c), Taken(b, line, d)
  PROVE  Like(c, d)
<1>1. a.area = b.area /\ \A e \in Entities : SameState(a.entities[e], b.entities[e])
  BY DEF Like, SameState
<1>2. CASE line.type \in {"blank", "garbage"}
  BY <1>2 DEF Taken
<1>3. CASE line.type = "register"
  <2>1. Registered(a, line.geometry, line.area, c) /\ Registered(b, line.geometry, line.area, d)
    BY <1>3 DEF Taken
  <2>2. c.entities = a.entities /\ d.entities = b.entities /\ c.area = d.area
    BY <1>1, <2>1 DEF Registered
  <2>3. QED
    BY <2>2 DEF Like
<1>4. CASE line.type = "update"
  <2> DEFINE u == PointUpdate(line)
  <2>1. u \in Updates /\ Updated(a, u, c) /\ Updated(b, u, d)
    BY <1>4 DEF Taken
  <2> HIDE DEF u
  <2>2. u.id \in Entities
    BY <2>1, CliNumbers, UpdateType
  <2>3. /\ c.area = d.area /\ c \in Plain /\ d \in Plain
        /\ \A e \in Entities : e # u.id => c.entities[e] = a.entities[e] /\ d.entities[e] = b.entities[e]
    BY <1>1, <2>1 DEF Updated
  <2>4. Late(a, u) <=> Late(b, u)
    BY <1>1, <2>2 DEF Late, SameState
  <2>5. SameState(c.entities[u.id], d.entities[u.id])
    <3>1. CASE Late(a, u)
      BY <1>1, <2>1, <2>2, <2>4, <3>1 DEF Updated
    <3>2. CASE ~Late(a, u)
      <4>1. PutBy(a, c.entities[u.id], u.id, u) /\ PutBy(b, d.entities[u.id], u.id, u)
        BY <2>1, <2>4, <3>2 DEF Updated
      <4>2. c.entities[u.id] \in EntityStates /\ d.entities[u.id] \in EntityStates
        BY <2>2, <2>3, PlainType
      <4>3. QED
        BY <1>1, <4>1, <4>2, PutIsOne
    <3>3. QED
      BY <3>1, <3>2
  <2>6. \A e \in Entities : SameState(c.entities[e], d.entities[e])
    BY <1>1, <2>3, <2>5
  <2>7. QED
    BY <2>3, <2>6 DEF Like, SameState
<1>5. QED
  BY <1>2, <1>3, <1>4 DEF Taken

\* And after a part.
LEMMA LikePart ==
  ASSUME NEW a \in Plain, NEW b \in Plain, Like(a, b), NEW lines \in Seq(Lines)
  PROVE  Like(TakePart(a, lines), TakePart(b, lines))
<1> DEFINE N == Len(lines)
<1>1. N \in Nat
  OBVIOUS
<1>2. PICK g : Reads(g, a, lines)
  BY PartIsRead
<1>3. PICK h : Reads(h, b, lines)
  BY PartIsRead
<1>4. /\ g[0] = a /\ g[N] = TakePart(a, lines)
      /\ \A n \in 0 .. N : g[n] \in Plain
      /\ \A n \in 1 .. N : Taken(g[n - 1], lines[n], g[n])
  BY <1>2 DEF Reads
<1>5. /\ h[0] = b /\ h[N] = TakePart(b, lines)
      /\ \A n \in 0 .. N : h[n] \in Plain
      /\ \A n \in 1 .. N : Taken(h[n - 1], lines[n], h[n])
  BY <1>3 DEF Reads
<1> HIDE DEF N
<1> DEFINE S == {n \in 0 .. N : Like(g[n], h[n])}
<1>6. 0 \in S
  BY <1>1, <1>4, <1>5
<1>7. ASSUME NEW n \in 1 .. N, n - 1 \in S
      PROVE  n \in S
  <2>1. Like(g[n - 1], h[n - 1]) /\ n - 1 \in 0 .. N /\ n \in 0 .. N
    BY <1>1, <1>7
  <2>2. Like(g[n], h[n])
    BY <1>4, <1>5, <2>1, LikeTaken
  <2>3. QED
    BY <2>1, <2>2
<1> HIDE DEF S
<1>8. \A n \in 0 .. N : n \in S
  BY <1>1, <1>6, <1>7, UpTo
<1>9. N \in 0 .. N
  BY <1>1
<1>10. QED
  BY <1>4, <1>5, <1>8, <1>9 DEF S

-----------------------------------------------------------------------------
\* The engine has nothing to gain from the line.
Absorbed(eng, line) ==
  /\ line.type = "register" => line.area = None \/ eng.area[line.geometry] # None
  /\ line.type = "update" =>
       LET u    == PointUpdate(line)
           st   == eng.entities[u.id]
       IN  /\ st.last_t_ms # None
           /\ \/ st.last_t_ms > u.t_ms
              \/ /\ st.last_t_ms = u.t_ms /\ st.position = u.x
                 /\ \A g \in Geometries : st.presence[g] = PresenceAt(eng, g, u.x)

\* Then it takes the line without changing its facts.
LEMMA AbsorbedIsLike ==
  ASSUME NEW eng \in Plain, NEW line, Absorbed(eng, line), NEW new, Taken(eng, line, new)
  PROVE  Like(new, eng)
<1>1. CASE line.type \in {"blank", "garbage"}
  BY <1>1 DEF Taken, Like
<1>2. CASE line.type = "register"
  BY <1>2 DEF Taken, Registered, Absorbed, Like
<1>3. CASE line.type = "update"
  <2> DEFINE u == PointUpdate(line)
             st == eng.entities[u.id]
  <2>1. /\ u \in Updates /\ Updated(eng, u, new)
        /\ st.last_t_ms # None
        /\ \/ st.last_t_ms > u.t_ms
           \/ /\ st.last_t_ms = u.t_ms /\ st.position = u.x
              /\ \A g \in Geometries : st.presence[g] = PresenceAt(eng, g, u.x)
    BY <1>3 DEF Taken, Absorbed
  <2> HIDE DEF u
  <2>2. u.id \in Entities
    BY <2>1, CliNumbers, UpdateType
  <2>3. /\ new \in Plain /\ new.area = eng.area
        /\ \A e \in Entities : e # u.id => new.entities[e] = eng.entities[e]
    BY <2>1 DEF Updated
  <2>4. SameState(new.entities[u.id], st)
    <3>1. CASE Late(eng, u)
      BY <2>1, <3>1 DEF Updated, SameState
    <3>2. CASE ~Late(eng, u)
      <4>1. PutBy(eng, new.entities[u.id], u.id, u)
        BY <2>1, <3>2 DEF Updated
      <4>2. /\ st.last_t_ms = u.t_ms /\ st.position = u.x
            /\ \A g \in Geometries : st.presence[g] = PresenceAt(eng, g, u.x)
        BY <2>1, <3>2 DEF Late
      <4>3. PutBy(eng, st, u.id, u)
        BY <3>2, <4>2 DEF PutBy
      <4>4. new.entities[u.id] \in EntityStates /\ st \in EntityStates
        BY <2>2, <2>3, PlainType
      <4>5. QED
        BY <4>1, <4>3, <4>4, PutIsOne
    <3>3. QED
      BY <3>1, <3>2
  <2>5. QED
    BY <2>3, <2>4 DEF Like, SameState
<1>4. QED
  BY <1>1, <1>2, <1>3 DEF Taken

\* An engine has nothing to gain from a line it has just taken.
LEMMA TakenIsAbsorbed ==
  ASSUME NEW eng \in Plain, NEW line, NEW new, Taken(eng, line, new)
  PROVE  Absorbed(new, line)
<1>1. CASE line.type \in {"blank", "garbage"}
  BY <1>1 DEF Absorbed
<1>2. CASE line.type = "register"
  <2>1. line.geometry \in Geometries /\ Registered(eng, line.geometry, line.area, new)
    BY <1>2 DEF Taken
  <2>2. new.area[line.geometry] = IF eng.area[line.geometry] = None THEN line.area ELSE eng.area[line.geometry]
    BY <2>1 DEF Registered
  <2>3. QED
    BY <1>2, <2>2 DEF Absorbed
<1>3. CASE line.type = "update"
  <2> DEFINE u == PointUpdate(line)
             st == new.entities[u.id]
  <2>1. u \in Updates /\ Updated(eng, u, new)
    BY <1>3 DEF Taken
  <2> HIDE DEF u
  <2>2. u.id \in Entities /\ u.t_ms \in Nat
    BY <2>1, CliNumbers, UpdateType
  <2>3. new \in Plain /\ new.area = eng.area
    BY <2>1 DEF Updated
  <2>4. CASE Late(eng, u)
    <3>1. st.last_t_ms # None /\ st.last_t_ms > u.t_ms
      BY <2>1, <2>4 DEF Updated, Late
    <3>2. QED
      BY <1>3, <3>1 DEF Absorbed, u
  <2>5. CASE ~Late(eng, u)
    <3>1. PutBy(eng, st, u.id, u)
      BY <2>1, <2>5 DEF Updated
    <3>2. st.position = u.x /\ st.last_t_ms = u.t_ms /\ \A g \in Geometries : st.presence[g] = PresenceAt(eng, g, u.x)
      BY <3>1, PlainType DEF PutBy
    <3>3. \A g \in Geometries : PresenceAt(eng, g, u.x) = PresenceAt(new, g, u.x)
      BY <2>3 DEF PresenceAt, Covers
    <3>4. st.last_t_ms # None
      BY <2>2, <3>2, TimesAssumption
    <3>5. QED
      BY <1>3, <3>2, <3>3, <3>4 DEF Absorbed, u
  <2>6. QED
    BY <2>4, <2>5
<1>4. QED
  BY <1>1, <1>2, <1>3 DEF Taken

\* It has nothing to gain from it after later lines of an orderly part.
LEMMA AbsorbedStays ==
  ASSUME NEW eng \in Plain, NEW lines \in Seq(Lines), Orderly(lines),
         NEW k \in 1 .. Len(lines), NEW n \in 1 .. Len(lines), k < n,
         Absorbed(eng, lines[k]), NEW new, Taken(eng, lines[n], new)
  PROVE  Absorbed(new, lines[k])
<1> DEFINE old == lines[k]
           line == lines[n]
           u == PointUpdate(old)
           v == PointUpdate(line)
<1>1. /\ line.type = "register" => old.type # "update"
      /\ old.type = "update" /\ line.type = "update" => u.id # v.id \/ u.t_ms # v.t_ms
      /\ old \in Lines /\ line \in Lines
  <2>1. k \in DOMAIN lines /\ n \in DOMAIN lines /\ k # n
    BY SeqElements
  <2>2. QED
    BY <2>1 DEF Orderly
<1>2. Absorbed(eng, old) /\ Taken(eng, line, new)
  OBVIOUS
<1> HIDE DEF old, line
<1>3. new \in Plain /\ eng.area \in [Geometries -> Areas \union {None}]
  BY <1>2, PlainType DEF Taken
<1>4. CASE line.type \in {"blank", "garbage"}
  BY <1>2, <1>4 DEF Taken, old
<1>5. CASE line.type = "register"
  <2>1. new.area = [h \in Geometries |-> IF h = line.geometry /\ eng.area[h] = None THEN line.area ELSE eng.area[h]]
    BY <1>2, <1>5 DEF Taken, Registered
  <2>2. old.type = "register" => old.geometry \in Geometries
    BY <1>1, LineType
  <2>3. old.type = "register" => (old.area = None \/ new.area[old.geometry] # None)
    BY <1>2, <1>3, <2>1, <2>2 DEF Absorbed
  <2>4. QED
    BY <1>1, <1>5, <2>3 DEF Absorbed, old
<1>6. CASE line.type = "update"
  <2>1. v \in Updates /\ Updated(eng, v, new)
    BY <1>2, <1>6 DEF Taken
  <2>2. new.area = eng.area /\ \A e \in Entities : e # v.id => new.entities[e] = eng.entities[e]
    BY <2>1 DEF Updated
  <2>3. CASE old.type # "update"
    BY <1>2, <2>2, <2>3 DEF Absorbed, old
  <2>4. CASE old.type = "update"
    <3> DEFINE st == eng.entities[u.id]
               now == new.entities[u.id]
    <3>1. /\ u \in Updates /\ st.last_t_ms # None
          /\ \/ st.last_t_ms > u.t_ms
             \/ /\ st.last_t_ms = u.t_ms /\ st.position = u.x
                /\ \A g \in Geometries : st.presence[g] = PresenceAt(eng, g, u.x)
      BY <1>1, <1>2, <2>4, LineType DEF Absorbed
    <3>2. u.id # v.id \/ u.t_ms # v.t_ms
      BY <1>1, <1>6, <2>4
    <3> HIDE DEF u, v
    <3>3. /\ u.id \in Entities /\ u.t_ms \in Nat /\ v.id \in Entities /\ v.t_ms \in Nat
          /\ st.last_t_ms \in Nat
      BY <2>1, <3>1, CliNumbers, UpdateType, PlainType
    <3>4. CASE now = st
      <4>1. \A g \in Geometries : PresenceAt(eng, g, u.x) = PresenceAt(new, g, u.x)
        BY <2>2 DEF PresenceAt, Covers
      <4>2. /\ now.last_t_ms # None
            /\ \/ now.last_t_ms > u.t_ms
               \/ /\ now.last_t_ms = u.t_ms /\ now.position = u.x
                  /\ \A g \in Geometries : now.presence[g] = PresenceAt(new, g, u.x)
        BY <3>1, <3>4, <4>1
      <4>3. Absorbed(new, old)
        BY <2>4, <4>2 DEF Absorbed, u
      <4>4. QED
        BY <4>3 DEF old
    <3>5. CASE now # st
      <4>1. v.id = u.id /\ ~Late(eng, v) /\ PutBy(eng, now, v.id, v)
        BY <2>1, <2>2, <3>3, <3>5 DEF Updated
      <4>2. st.last_t_ms <= v.t_ms /\ now.last_t_ms = v.t_ms
        BY <3>1, <3>3, <4>1 DEF Late, PutBy
      <4>3. now.last_t_ms > u.t_ms /\ now.last_t_ms # None
        BY <3>1, <3>2, <3>3, <4>1, <4>2, TimesAssumption
      <4>4. Absorbed(new, old)
        BY <2>4, <4>3 DEF Absorbed, u
      <4>5. QED
        BY <4>4 DEF old
    <3>6. QED
      BY <3>4, <3>5
  <2>5. QED
    BY <2>3, <2>4
<1>7. QED
  BY <1>1, <1>4, <1>5, <1>6, LineType

\* A part that is read twice counts once.
LEMMA TwiceIsOnce ==
  ASSUME NEW eng \in Plain, NEW lines \in Seq(Lines), Orderly(lines)
  PROVE  Like(TakePart(TakePart(eng, lines), lines), TakePart(eng, lines))
<1> DEFINE N == Len(lines)
           once == TakePart(eng, lines)
<1>1. N \in Nat /\ once \in Plain /\ \A n \in 1 .. N : lines[n] \in Lines
  BY PartType, SeqElements
<1>2. PICK g : Reads(g, eng, lines)
  BY PartIsRead
<1>3. PICK h : Reads(h, once, lines)
  BY <1>1, PartIsRead
<1>4. /\ g[0] = eng /\ g[N] = once
      /\ \A n \in 0 .. N : g[n] \in Plain
      /\ \A n \in 1 .. N : Taken(g[n - 1], lines[n], g[n])
  BY <1>2 DEF Reads
<1>5. /\ h[0] = once /\ h[N] = TakePart(once, lines)
      /\ \A n \in 0 .. N : h[n] \in Plain
      /\ \A n \in 1 .. N : Taken(h[n - 1], lines[n], h[n])
  BY <1>3 DEF Reads
<1> DEFINE S == {n \in 0 .. N : \A k \in 1 .. n : Absorbed(g[n], lines[k])}
<1>6. 0 \in S
  BY <1>1
<1>7. ASSUME NEW n \in 1 .. N, n - 1 \in S
      PROVE  n \in S
  <2>1. \A k \in 1 .. n - 1 : Absorbed(g[n - 1], lines[k])
    BY <1>7
  <2>2. g[n - 1] \in Plain /\ Taken(g[n - 1], lines[n], g[n])
    BY <1>1, <1>4
  <2>3. Absorbed(g[n], lines[n])
    BY <2>2, TakenIsAbsorbed
  <2>4. ASSUME NEW k \in 1 .. n - 1
        PROVE  Absorbed(g[n], lines[k])
    <3>1. Absorbed(g[n - 1], lines[k])
      BY <2>1
    <3>2. k \in 1 .. Len(lines) /\ n \in 1 .. Len(lines) /\ k < n
      BY <1>1
    <3>3. QED
      BY <2>2, <3>1, <3>2, AbsorbedStays
  <2>5. \A k \in 1 .. n : k = n \/ k \in 1 .. n - 1
    BY <1>1
  <2>6. n \in 0 .. N
    BY <1>1
  <2>7. QED
    BY <2>3, <2>4, <2>5, <2>6
<1> HIDE DEF S
<1>8. \A n \in 0 .. N : n \in S
  BY <1>1, <1>6, <1>7, UpTo
<1>9. N \in 0 .. N
  BY <1>1
<1>10. \A k \in 1 .. N : Absorbed(once, lines[k])
  BY <1>4, <1>8, <1>9 DEF S
<1> HIDE DEF N, once
<1> DEFINE R == {n \in 0 .. N : Like(h[n], once)}
<1>11. 0 \in R
  BY <1>1, <1>5 DEF Like
<1>12. ASSUME NEW n \in 1 .. N, n - 1 \in R
       PROVE  n \in R
  <2>1. Like(h[n - 1], once) /\ n - 1 \in 0 .. N /\ n \in 0 .. N
    BY <1>1, <1>12
  <2>2. Taken(once, lines[n], Take(once, lines[n]))
    BY <1>1, TakenIs
  <2>3. Like(Take(once, lines[n]), once)
    BY <1>1, <1>10, <2>2, AbsorbedIsLike
  <2>4. Like(h[n], Take(once, lines[n]))
    BY <1>1, <1>5, <2>1, <2>2, LikeTaken
  <2>5. Like(h[n], once)
    BY <2>3, <2>4 DEF Like
  <2>6. QED
    BY <2>1, <2>5
<1> HIDE DEF R
<1>13. \A n \in 0 .. N : n \in R
  BY <1>1, <1>11, <1>12, UpTo
<1>14. Like(h[N], once)
  BY <1>9, <1>13 DEF R
<1>15. QED
  BY <1>5, <1>14 DEF once

-----------------------------------------------------------------------------
\* The state is what the entity will have when these updates have been processed.
Owed(eng, st, e, pending) ==
  \/ /\ SameState(st, eng.entities[e])
     /\ \A k \in DOMAIN pending : pending[k].id = e => Late(eng, pending[k])
  \/ \E k \in DOMAIN pending :
       /\ PutBy(eng, st, e, pending[k])
       /\ \A j \in DOMAIN pending : pending[j].id = e => pending[j].t_ms <= pending[k].t_ms

\* These updates are those of some of the first n lines, each once.
Queued(pending, n, lines) ==
  \E place \in [DOMAIN pending -> 1 .. n] :
    /\ \A i, j \in DOMAIN pending : i # j => place[i] # place[j]
    /\ \A i \in DOMAIN pending : /\ lines[place[i]].type = "update"
                                 /\ pending[i] = PointUpdate(lines[place[i]])

\* Those of an orderly part have no ties, and no registration comes after them.
LEMMA QueuedInOrder ==
  ASSUME NEW lines \in Seq(Lines), Orderly(lines), NEW n \in 0 .. Len(lines),
         NEW pending \in Seq(Updates), Queued(pending, n, lines)
  PROVE  /\ NoTies(pending)
         /\ \A m \in 1 .. Len(lines) : n < m /\ lines[m].type = "register" => pending = <<>>
<1>1. PICK place \in [DOMAIN pending -> 1 .. n] :
        /\ \A i, j \in DOMAIN pending : i # j => place[i] # place[j]
        /\ \A i \in DOMAIN pending : /\ lines[place[i]].type = "update"
                                     /\ pending[i] = PointUpdate(lines[place[i]])
  BY Zenon DEF Queued
<1>2. DOMAIN lines = 1 .. Len(lines) /\ Len(lines) \in Nat
  BY SeqElements
<1>3. \A i \in DOMAIN pending : place[i] \in 1 .. n /\ place[i] \in DOMAIN lines
  BY <1>2
<1>4. ASSUME NEW i \in DOMAIN pending, NEW j \in DOMAIN pending, i # j
      PROVE  pending[i].id # pending[j].id \/ pending[i].t_ms # pending[j].t_ms
  <2>1. /\ lines[place[i]].type = "update" /\ pending[i] = PointUpdate(lines[place[i]])
        /\ lines[place[j]].type = "update" /\ pending[j] = PointUpdate(lines[place[j]])
        /\ place[i] # place[j]
    BY <1>1, <1>4
  <2>2. \/ PointUpdate(lines[place[i]]).id # PointUpdate(lines[place[j]]).id
        \/ PointUpdate(lines[place[i]]).t_ms # PointUpdate(lines[place[j]]).t_ms
    BY <1>3, <2>1, Zenon DEF Orderly
  <2>3. QED
    BY <2>1, <2>2
<1>5. NoTies(pending)
  BY <1>4 DEF NoTies
<1>6. ASSUME NEW m \in 1 .. Len(lines), n < m, lines[m].type = "register", pending # <<>>
      PROVE  FALSE
  <2>1. 1 \in DOMAIN pending
    BY <1>6
  <2>2. place[1] \in DOMAIN lines /\ m \in DOMAIN lines /\ place[1] < m /\ lines[place[1]].type = "update"
    BY <1>1, <1>2, <1>3, <1>6, <2>1
  <2>3. QED
    BY <1>6, <2>2 DEF Orderly
<1>7. QED
  BY <1>5, <1>6

\* An update line more.
LEMMA QueuedMore ==
  ASSUME NEW lines \in Seq(Lines), NEW n \in 1 .. Len(lines), NEW pending \in Seq(Updates),
         Queued(pending, n - 1, lines), lines[n].type = "update"
  PROVE  Queued(Append(pending, PointUpdate(lines[n])), n, lines)
<1> DEFINE L == Len(pending)
           more == Append(pending, PointUpdate(lines[n]))
<1>1. PICK place \in [DOMAIN pending -> 1 .. n - 1] :
        /\ \A i, j \in DOMAIN pending : i # j => place[i] # place[j]
        /\ \A i \in DOMAIN pending : /\ lines[place[i]].type = "update"
                                     /\ pending[i] = PointUpdate(lines[place[i]])
  BY Zenon DEF Queued
<1> DEFINE at == [i \in 1 .. L + 1 |-> IF i = L + 1 THEN n ELSE place[i]]
<1>2. /\ L \in Nat /\ DOMAIN pending = 1 .. L /\ DOMAIN more = 1 .. L + 1
      /\ more[L + 1] = PointUpdate(lines[n]) /\ \A i \in 1 .. L : more[i] = pending[i]
  OBVIOUS
<1> HIDE DEF L, more
<1>3. \A i \in 1 .. L + 1 : i = L + 1 \/ i \in 1 .. L
  BY <1>2
<1>4. \A i \in 1 .. L : place[i] \in 1 .. n - 1 /\ i # L + 1
  BY <1>2
<1>5. at[L + 1] = n /\ \A i \in 1 .. L : at[i] = place[i]
  BY <1>2, <1>4
<1>6. at \in [DOMAIN more -> 1 .. n]
  <2>1. \A i \in 1 .. L + 1 : (IF i = L + 1 THEN n ELSE place[i]) \in 1 .. n
    BY <1>3, <1>4
  <2>2. QED
    BY <1>2, <2>1
<1> HIDE DEF at
<1>7. ASSUME NEW i \in 1 .. L + 1, NEW j \in 1 .. L + 1, i # j
      PROVE  at[i] # at[j]
  <2>1. CASE i \in 1 .. L /\ j \in 1 .. L
    BY <1>1, <1>2, <1>5, <1>7, <2>1
  <2>2. CASE i = L + 1 /\ j \in 1 .. L
    BY <1>4, <1>5, <2>2
  <2>3. CASE j = L + 1 /\ i \in 1 .. L
    BY <1>4, <1>5, <2>3
  <2>4. QED
    BY <1>3, <1>7, <2>1, <2>2, <2>3
<1>8. ASSUME NEW i \in 1 .. L + 1
      PROVE  lines[at[i]].type = "update" /\ more[i] = PointUpdate(lines[at[i]])
  BY <1>1, <1>2, <1>3, <1>5
<1>9. Queued(more, n, lines)
  <2>1. \A i, j \in DOMAIN more : i # j => at[i] # at[j]
    BY <1>2, <1>7
  <2>2. \A i \in DOMAIN more : lines[at[i]].type = "update" /\ more[i] = PointUpdate(lines[at[i]])
    BY <1>2, <1>8
  <2>3. QED
    BY <1>6, <2>1, <2>2, Zenon DEF Queued
<1>10. QED
  BY <1>9 DEF more

\* Other lines leave the buffer as it is.
LEMMA QueuedStill ==
  ASSUME NEW lines, NEW n \in Nat, NEW pending, Queued(pending, n, lines)
  PROVE  Queued(pending, n + 1, lines)
<1>1. PICK place \in [DOMAIN pending -> 1 .. n] :
        /\ \A i, j \in DOMAIN pending : i # j => place[i] # place[j]
        /\ \A i \in DOMAIN pending : /\ lines[place[i]].type = "update"
                                     /\ pending[i] = PointUpdate(lines[place[i]])
  BY Zenon DEF Queued
<1>2. place \in [DOMAIN pending -> 1 .. n + 1]
  OBVIOUS
<1>3. QED
  BY <1>1, <1>2, Zenon DEF Queued

\* An empty buffer holds no update of any line.
LEMMA QueuedNone ==
  ASSUME NEW lines, NEW n
  PROVE  Queued(<<>>, n, lines)
<1>1. DOMAIN <<>> = {}
  OBVIOUS
<1> DEFINE place == [i \in {} |-> 1]
<1>2. place \in [DOMAIN <<>> -> 1 .. n]
  BY <1>1
<1> HIDE DEF place
<1>3. QED
  BY <1>1, <1>2 DEF Queued

\* An engine that takes an update at once, and a buffer that keeps it.
LEMMA OwedMore ==
  ASSUME NEW eng \in Plain, NEW a \in Plain, a.area = eng.area, NEW pending \in Seq(Updates),
         \A e \in Entities : Owed(eng, a.entities[e], e, pending),
         NEW u \in Updates, NEW b, Updated(a, u, b)
  PROVE  \A e \in Entities : Owed(eng, b.entities[e], e, Append(pending, u))
<1> DEFINE L == Len(pending)
           more == Append(pending, u)
<1>1. /\ L \in Nat /\ DOMAIN pending = 1 .. L /\ DOMAIN more = 1 .. L + 1
      /\ more[L + 1] = u /\ \A i \in 1 .. L : more[i] = pending[i] /\ i \in 1 .. L + 1
      /\ \A i \in 1 .. L : pending[i] \in Updates
  OBVIOUS
<1> HIDE DEF L, more
<1>2. \A i \in 1 .. L + 1 : i = L + 1 \/ i \in 1 .. L
  BY <1>1
<1>3. L + 1 \in 1 .. L + 1
  BY <1>1
<1>4. u.id \in Entities /\ u.t_ms \in Nat /\ \A i \in 1 .. L : pending[i].t_ms \in Nat
  BY <1>1, CliNumbers, UpdateType
<1>5. ASSUME NEW e \in Entities, e # u.id
      PROVE  Owed(eng, b.entities[e], e, more)
  <2>1. b.entities[e] = a.entities[e]
    BY <1>5 DEF Updated
  <2>2. Owed(eng, b.entities[e], e, pending)
    BY <2>1
  <2>3. CASE /\ SameState(b.entities[e], eng.entities[e])
             /\ \A k \in DOMAIN pending : pending[k].id = e => Late(eng, pending[k])
    BY <1>1, <1>2, <1>5, <2>3 DEF Owed
  <2>4. CASE \E k \in DOMAIN pending :
               /\ PutBy(eng, b.entities[e], e, pending[k])
               /\ \A j \in DOMAIN pending : pending[j].id = e => pending[j].t_ms <= pending[k].t_ms
    <3>1. PICK k \in 1 .. L :
               /\ PutBy(eng, b.entities[e], e, pending[k])
               /\ \A j \in DOMAIN pending : pending[j].id = e => pending[j].t_ms <= pending[k].t_ms
      BY <1>1, <2>4
    <3>2. k \in 1 .. L + 1 /\ more[k] = pending[k]
      BY <1>1
    <3>3. \A j \in 1 .. L + 1 : more[j].id = e => more[j].t_ms <= more[k].t_ms
      BY <1>1, <1>2, <1>5, <3>1, <3>2
    <3>4. QED
      BY <1>1, <3>1, <3>2, <3>3 DEF Owed
  <2>5. QED
    BY <2>2, <2>3, <2>4 DEF Owed
<1>6. ASSUME NEW e \in Entities, e = u.id
      PROVE  Owed(eng, b.entities[e], e, more)
  <2> DEFINE old == a.entities[e]
             first == eng.entities[e].last_t_ms
  <2>1. old.last_t_ms \in Nat \union {None} /\ first \in Nat \union {None} /\ None \notin Nat
    BY PlainType
  <2>2. Late(a, u) <=> old.last_t_ms # None /\ old.last_t_ms > u.t_ms
    BY <1>6 DEF Late
  <2>3. \A v : v.id = e => (Late(eng, v) <=> first # None /\ first > v.t_ms)
    BY DEF Late
  <2>4. Owed(eng, old, e, pending)
    OBVIOUS
  <2>5. IF Late(a, u) THEN b.entities[e] = old ELSE PutBy(a, b.entities[e], e, u)
    BY <1>6 DEF Updated
  <2>6. ASSUME ~Late(a, u), ~Late(eng, u), \A j \in 1 .. L : pending[j].id = e => pending[j].t_ms <= u.t_ms
        PROVE  Owed(eng, b.entities[e], e, more)
    <3>1. PutBy(a, b.entities[e], e, u)
      BY <2>5, <2>6
    <3>2. \A g \in Geometries : a.dwell[g] = NoDwell /\ PresenceAt(a, g, u.x) = PresenceAt(eng, g, u.x)
      BY PlainType DEF PresenceAt, Covers
    <3>3. PutBy(eng, b.entities[e], e, u)
      BY <2>6, <3>1, <3>2 DEF PutBy
    <3>4. \A j \in 1 .. L + 1 : more[j].id = e => more[j].t_ms <= u.t_ms
      BY <1>1, <1>2, <1>4, <2>6
    <3>5. QED
      BY <1>1, <1>3, <3>3, <3>4 DEF Owed
  <2>7. CASE /\ SameState(old, eng.entities[e])
             /\ \A k \in DOMAIN pending : pending[k].id = e => Late(eng, pending[k])
    <3>1. old.last_t_ms = first
      BY <2>7 DEF SameState
    <3>2. CASE Late(a, u)
      <4>1. Late(eng, u) /\ b.entities[e] = old
        BY <1>6, <2>2, <2>3, <2>5, <3>1, <3>2
      <4>2. \A k \in 1 .. L + 1 : more[k].id = e => Late(eng, more[k])
        BY <1>1, <1>2, <2>7, <4>1
      <4>3. QED
        BY <1>1, <2>7, <4>1, <4>2 DEF Owed
    <3>3. CASE ~Late(a, u)
      <4>1. ~Late(eng, u)
        BY <1>6, <2>2, <2>3, <3>1, <3>3
      <4>2. \A j \in 1 .. L : pending[j].id = e => pending[j].t_ms <= u.t_ms
        BY <1>1, <1>4, <1>6, <2>1, <2>3, <2>7, <4>1
      <4>3. QED
        BY <2>6, <3>3, <4>1, <4>2
    <3>4. QED
      BY <3>2, <3>3
  <2>8. CASE \E k \in DOMAIN pending :
               /\ PutBy(eng, old, e, pending[k])
               /\ \A j \in DOMAIN pending : pending[j].id = e => pending[j].t_ms <= pending[k].t_ms
    <3>1. PICK k \in 1 .. L :
               /\ PutBy(eng, old, e, pending[k])
               /\ \A j \in DOMAIN pending : pending[j].id = e => pending[j].t_ms <= pending[k].t_ms
      BY <1>1, <2>8
    <3>2. pending[k].id = e /\ ~Late(eng, pending[k]) /\ old.last_t_ms = pending[k].t_ms
      BY <3>1 DEF PutBy
    <3>3. CASE Late(a, u)
      <4>1. b.entities[e] = old /\ u.t_ms <= pending[k].t_ms
        BY <1>4, <2>2, <2>5, <3>2, <3>3
      <4>2. k \in 1 .. L + 1 /\ more[k] = pending[k]
        BY <1>1
      <4>3. \A j \in 1 .. L + 1 : more[j].id = e => more[j].t_ms <= more[k].t_ms
        BY <1>1, <1>2, <3>1, <4>1, <4>2
      <4>4. QED
        BY <1>1, <3>1, <4>1, <4>2, <4>3 DEF Owed
    <3>4. CASE ~Late(a, u)
      <4>1. pending[k].t_ms <= u.t_ms
        BY <1>4, <2>1, <2>2, <3>2, <3>4
      <4>2. ~Late(eng, u)
        BY <1>4, <1>6, <2>1, <2>3, <3>2, <4>1
      <4>3. \A j \in 1 .. L : pending[j].id = e => pending[j].t_ms <= u.t_ms
        BY <1>1, <1>4, <3>1, <4>1
      <4>4. QED
        BY <2>6, <3>4, <4>2, <4>3
    <3>5. QED
      BY <3>3, <3>4
  <2>9. QED
    BY <2>4, <2>7, <2>8 DEF Owed
<1>7. QED
  BY <1>5, <1>6 DEF more

\* A batch pays what the buffer owes.
LEMMA OwedPaid ==
  ASSUME NEW eng \in Plain, NEW a \in Plain, a.area = eng.area, NEW pending \in Seq(Updates), NoTies(pending),
         \A e \in Entities : Owed(eng, a.entities[e], e, pending),
         NEW new, new = ProcessBatch(eng, pending, <<>>).engine
  PROVE  Like(new, a)
<1> DEFINE N == Len(pending)
<1>1. /\ eng \in EngineStates(AnyRules, AnySequences) /\ WellFormed(eng.entities)
      /\ N \in Nat /\ pending \in [1 .. N -> Updates] /\ DOMAIN pending = 1 .. N
  BY SeqIsFunction DEF Plain
<1> HIDE DEF N
<1>2. new \in EngineStates(AnyRules, AnySequences)
  BY <1>1, CliNumbers, BatchKeepsType
<1>3. new.area = eng.area
  BY <1>1, CliNumbers, BatchKeepsSetup DEF SameSetup
<1>4. \A i \in 1 .. N : pending[i] \in Updates /\ pending[i].t_ms \in Nat
  BY <1>1, CliNumbers, UpdateType
<1>5. ASSUME NEW e \in Entities
      PROVE  SameState(new.entities[e], a.entities[e])
  <2>1. \/ Unmoved(eng, new.entities[e], e, N, pending)
        \/ BatchPut(eng, new.entities[e], e, N, pending)
    BY <1>1, CliNumbers, BatchSettles
  <2>2. new.entities[e] \in EntityStates /\ a.entities[e] \in EntityStates
    BY <1>2, PlainType DEF EngineStates
  <2>3. \/ /\ SameState(a.entities[e], eng.entities[e])
           /\ \A k \in 1 .. N : pending[k].id = e => Late(eng, pending[k])
        \/ \E k \in 1 .. N :
             /\ PutBy(eng, a.entities[e], e, pending[k])
             /\ \A j \in 1 .. N : pending[j].id = e => pending[j].t_ms <= pending[k].t_ms
    BY <1>1 DEF Owed
  <2>4. CASE Unmoved(eng, new.entities[e], e, N, pending)
    <3>1. \A k \in 1 .. N : pending[k].id = e => Late(eng, pending[k])
      BY <2>4 DEF Unmoved
    <3>2. \A k \in 1 .. N : ~PutBy(eng, a.entities[e], e, pending[k])
      BY <3>1 DEF PutBy
    <3>3. QED
      BY <2>3, <2>4, <3>2 DEF Unmoved, SameState
  <2>5. CASE BatchPut(eng, new.entities[e], e, N, pending)
    <3>1. PICK i \in 1 .. N : PutBy(eng, new.entities[e], e, pending[i]) /\ LastOf(pending, N, i)
      BY <2>5 DEF BatchPut
    <3>2. pending[i].id = e /\ ~Late(eng, pending[i])
      BY <3>1 DEF PutBy
    <3>3. PICK k \in 1 .. N :
             /\ PutBy(eng, a.entities[e], e, pending[k])
             /\ \A j \in 1 .. N : pending[j].id = e => pending[j].t_ms <= pending[k].t_ms
      BY <2>3, <3>2
    <3>4. pending[k].id = e
      BY <3>3 DEF PutBy
    <3>5. CASE k = i
      <4>1. PutBy(eng, a.entities[e], e, pending[i])
        BY <3>3, <3>5
      <4>2. QED
        BY <2>2, <3>1, <4>1, PutIsOne
    <3>6. CASE k # i
      <4>1. Precedes(pending, k, i)
        BY <3>1, <3>2, <3>4, <3>6 DEF LastOf
      <4>2. pending[k].t_ms # pending[i].t_ms
        BY <1>1, <3>2, <3>4, <3>6 DEF NoTies
      <4>3. e \in Int
        BY CliNumbers DEF NumberedIds
      <4>4. pending[k].t_ms < pending[i].t_ms
        BY <3>2, <3>4, <4>1, <4>2, <4>3 DEF Precedes
      <4>5. pending[i].t_ms <= pending[k].t_ms
        BY <3>2, <3>3
      <4>6. QED
        BY <1>4, <4>4, <4>5
    <3>7. QED
      BY <3>5, <3>6
  <2>6. QED
    BY <2>1, <2>4, <2>5
<1>6. QED
  BY <1>3, <1>5 DEF Like, SameState

\* Nothing is owed for an empty buffer, and only for it nothing has to be.
LEMMA OwedNothing ==
  ASSUME NEW eng, NEW a
  PROVE  a.area = eng.area /\ (\A e \in Entities : Owed(eng, a.entities[e], e, <<>>)) <=> Like(a, eng)
<1>1. DOMAIN <<>> = {}
  OBVIOUS
<1>2. \A e \in Entities : Owed(eng, a.entities[e], e, <<>>) <=> SameState(a.entities[e], eng.entities[e])
  BY <1>1 DEF Owed
<1>3. QED
  BY <1>2 DEF Like, SameState

\* The session and an engine that takes every line at once, after n lines.
AtOnce(s, a, n, lines) ==
  /\ a \in Plain /\ a.area = s.engine.area
  /\ Queued(s.pending, n, lines)
  /\ \A e \in Entities : Owed(s.engine, a.entities[e], e, s.pending)

\* They stay together, line by line.
LEMMA AtOnceTurn ==
  ASSUME NEW lines \in Seq(Lines), Orderly(lines), NEW n \in 1 .. Len(lines),
         NEW s \in SessionStates, NEW t, TurnOutcome(s, n, lines, t),
         NEW a, NEW b, AtOnce(s, a, n - 1, lines), Taken(a, lines[n], b)
  PROVE  /\ AtOnce(t, b, n, lines)
         /\ NoTies(Buffered(s, n, lines)) /\ Buffered(s, n, lines) \in Seq(Updates)
<1> DEFINE P == Buffered(s, n, lines)
           line == lines[n]
<1>1. /\ s.engine \in Plain /\ s.pending \in Seq(Updates) /\ t.engine \in Plain
      /\ a \in Plain /\ b \in Plain /\ a.area = s.engine.area
      /\ Queued(s.pending, n - 1, lines)
      /\ \A e \in Entities : Owed(s.engine, a.entities[e], e, s.pending)
  BY DEF SessionStates, AtOnce, TurnOutcome, Taken
<1>2. n \in Nat \ {0} /\ n <= Len(lines) /\ n - 1 \in Nat /\ (n - 1) + 1 = n /\ n \in 0 .. Len(lines)
      /\ n - 1 \in 0 .. Len(lines) /\ n - 1 < n
  OBVIOUS
<1>3. P \in Seq(Updates) /\ P = IF line.type = "update" THEN Append(s.pending, PointUpdate(line)) ELSE s.pending
  BY <1>2, BufferedType DEF Buffered
<1> HIDE DEF P
<1>4. Queued(P, n, lines)
  BY <1>1, <1>2, <1>3, QueuedMore, QueuedStill
<1>5. NoTies(P)
  BY <1>2, <1>3, <1>4, QueuedInOrder
<1>6. CASE line.type # "update"
  <2>1. Notes(s, n, lines, t)
    BY <1>2, <1>6 DEF TurnOutcome
  <2>2. /\ t.pending = s.pending
        /\ t.engine = IF line.type = "register"
                        THEN Register(s.engine, line.geometry, line.area, NoDwell)
                        ELSE s.engine
    BY <2>1 DEF Notes
  <2>3. CASE line.type = "register"
    <3>1. s.pending = <<>>
      BY <1>1, <1>2, <2>3, QueuedInOrder
    <3>2. /\ line.geometry \in Geometries /\ line.area \in Areas \union {None}
          /\ Registered(a, line.geometry, line.area, b)
      BY <2>3 DEF Taken
    <3>3. Registered(s.engine, line.geometry, line.area, t.engine)
      BY <1>1, <2>2, <2>3, <3>2, RegisteredIs
    <3>4. Like(a, s.engine)
      BY <1>1, <3>1, OwedNothing
    <3>5. Like(b, t.engine)
      BY <3>2, <3>3, <3>4 DEF Registered, Like
    <3>6. b.area = t.engine.area /\ \A e \in Entities : Owed(t.engine, b.entities[e], e, <<>>)
      BY <3>5, OwedNothing
    <3>7. QED
      BY <1>1, <1>3, <1>4, <1>5, <1>6, <2>2, <3>1, <3>6 DEF AtOnce, P
  <2>4. CASE line.type # "register"
    <3>1. t.engine = s.engine /\ b = a
      BY <1>6, <2>2, <2>4 DEF Taken
    <3>2. QED
      BY <1>1, <1>3, <1>4, <1>5, <1>6, <2>2, <3>1 DEF AtOnce, P
  <2>5. QED
    BY <2>3, <2>4
<1>7. CASE line.type = "update"
  <2>1. PointUpdate(line) \in Updates /\ Updated(a, PointUpdate(line), b)
    BY <1>7 DEF Taken
  <2>2. \A e \in Entities : Owed(s.engine, b.entities[e], e, P)
    BY <1>1, <1>3, <1>7, <2>1, OwedMore
  <2>3. b.area = s.engine.area
    BY <1>1, <2>1 DEF Updated
  <2>4. CASE Waits(s, n, lines, t)
    <3>1. t.engine = s.engine /\ t.pending = P
      BY <2>4 DEF Waits, P
    <3>2. QED
      BY <1>1, <1>3, <1>4, <1>5, <2>2, <2>3, <3>1 DEF AtOnce, P
  <2>5. CASE Flushes(s, n, lines, t)
    <3>1. t.engine = ProcessBatch(s.engine, P, <<>>).engine /\ t.pending = <<>>
      BY <2>5 DEF Flushes, P
    <3>2. Like(t.engine, b)
      BY <1>1, <1>3, <1>5, <2>2, <2>3, <3>1, OwedPaid
    <3>3. Like(b, t.engine)
      BY <3>2 DEF Like
    <3>4. b.area = t.engine.area /\ \A e \in Entities : Owed(t.engine, b.entities[e], e, <<>>)
      BY <3>3, OwedNothing
    <3>5. QED
      BY <1>1, <1>3, <1>5, <3>1, <3>4, QueuedNone DEF AtOnce, P
  <2>6. QED
    BY <1>7, <2>4, <2>5 DEF TurnOutcome, Notes
<1>8. QED
  BY <1>6, <1>7

\* Sessions as `run` starts with them.
Starts == {s \in SessionStates : s.line_no = 0 /\ s.pending = <<>> /\ s.errors = <<>>}

\* What is in the buffer is without ties whenever it is processed, and in the end the
\* session has what an engine has that took every line at once.
LEMMA TraceAtOnce ==
  ASSUME NEW start \in Starts, NEW lines \in Seq(Lines), Orderly(lines), NEW bs \in Nat,
         NEW f, IsTrace(f, start, lines, bs), NEW L, L = Len(lines)
  PROVE  /\ \A n \in 1 .. L + 1 : /\ Buffered(f[n - 1], n, lines) \in Seq(Updates)
                                  /\ NoTies(Buffered(f[n - 1], n, lines))
         /\ Like(f[L + 1].engine, TakePart(start.engine, lines))
<1>1. /\ start \in SessionStates /\ start.line_no = 0 /\ start.pending = <<>> /\ start.engine \in Plain
      /\ f[0] = start /\ L \in Nat
  BY DEF Starts, SessionStates, IsTrace
<1>2. /\ \A n \in 0 .. L + 1 : f[n] \in SessionStates
      /\ \A n \in 1 .. L + 1 : TurnOutcome(f[n - 1], n, lines, f[n])
  BY <1>1, TraceType
<1>3. PICK g : Reads(g, start.engine, lines)
  BY <1>1, PartIsRead
<1>4. /\ g[0] = start.engine /\ g[L] = TakePart(start.engine, lines)
      /\ \A n \in 1 .. L : Taken(g[n - 1], lines[n], g[n])
  BY <1>3 DEF Reads
<1> DEFINE S == {n \in 0 .. L : AtOnce(f[n], g[n], n, lines)}
<1>5. 0 \in S
  <2>1. Like(start.engine, start.engine)
    BY DEF Like
  <2>2. \A e \in Entities : Owed(start.engine, start.engine.entities[e], e, <<>>)
    BY <2>1, OwedNothing
  <2>3. AtOnce(f[0], g[0], 0, lines)
    BY <1>1, <1>4, <2>2, QueuedNone DEF AtOnce
  <2>4. QED
    BY <1>1, <2>3
<1>6. ASSUME NEW n \in 1 .. L, AtOnce(f[n - 1], g[n - 1], n - 1, lines)
      PROVE  /\ AtOnce(f[n], g[n], n, lines)
             /\ NoTies(Buffered(f[n - 1], n, lines)) /\ Buffered(f[n - 1], n, lines) \in Seq(Updates)
  <2>1. n \in 1 .. Len(lines) /\ n \in 1 .. L + 1 /\ n - 1 \in 0 .. L + 1
    BY <1>1
  <2>2. f[n - 1] \in SessionStates /\ TurnOutcome(f[n - 1], n, lines, f[n]) /\ Taken(g[n - 1], lines[n], g[n])
    BY <1>2, <1>4, <2>1
  <2>3. QED
    BY <1>6, <2>1, <2>2, AtOnceTurn
<1>7. ASSUME NEW n \in 1 .. L, n - 1 \in S
      PROVE  n \in S
  <2>1. AtOnce(f[n], g[n], n, lines)
    BY <1>6, <1>7
  <2>2. n \in 0 .. L
    BY <1>1
  <2>3. QED
    BY <2>1, <2>2
<1> HIDE DEF S
<1>8. \A n \in 0 .. L : n \in S
  BY <1>1, <1>5, <1>7, UpTo
<1>9. \A n \in 0 .. L : AtOnce(f[n], g[n], n, lines)
  BY <1>8 DEF S
<1> DEFINE s == f[L]
           a == g[L]
           t == f[L + 1]
<1>10. /\ AtOnce(s, a, L, lines) /\ s \in SessionStates /\ TurnOutcome(s, L + 1, lines, t)
       /\ Buffered(s, L + 1, lines) = s.pending
  <2>1. L \in 0 .. L /\ L \in 0 .. L + 1 /\ L + 1 \in 1 .. L + 1 /\ (L + 1) - 1 = L /\ ~(L + 1 <= Len(lines))
    BY <1>1
  <2>2. Buffered(s, L + 1, lines) = s.pending
    BY <2>1 DEF Buffered
  <2>3. AtOnce(s, a, L, lines)
    BY <1>9, <2>1
  <2>4. s \in SessionStates
    BY <1>2, <2>1
  <2>5. TurnOutcome(f[(L + 1) - 1], L + 1, lines, t)
    BY <1>2, <2>1
  <2>6. QED
    BY <2>1, <2>2, <2>3, <2>4, <2>5
<1> HIDE DEF s, a, t
<1>11. /\ s.engine \in Plain /\ s.pending \in Seq(Updates) /\ a \in Plain /\ a.area = s.engine.area
       /\ Queued(s.pending, L, lines) /\ \A e \in Entities : Owed(s.engine, a.entities[e], e, s.pending)
  BY <1>10 DEF AtOnce, SessionStates
<1>12. NoTies(s.pending)
  <2>1. L \in 0 .. Len(lines)
    BY <1>1
  <2>2. QED
    BY <1>11, <2>1, QueuedInOrder
<1>13. Like(t.engine, a)
  <2>1. ~(L + 1 <= Len(lines))
    BY <1>1
  <2>2. Waits(s, L + 1, lines, t) \/ Flushes(s, L + 1, lines, t)
    BY <1>10, <2>1 DEF TurnOutcome, Notes
  <2>3. CASE Waits(s, L + 1, lines, t)
    <3>1. t.engine = s.engine /\ s.pending = <<>>
      BY <1>1, <1>10, <2>3 DEF Waits
    <3>2. Like(a, s.engine)
      BY <1>11, <3>1, OwedNothing
    <3>3. QED
      BY <3>1, <3>2 DEF Like
  <2>4. CASE Flushes(s, L + 1, lines, t)
    <3>1. t.engine = ProcessBatch(s.engine, s.pending, <<>>).engine
      BY <1>10, <2>4 DEF Flushes
    <3>2. QED
      BY <1>11, <1>12, <3>1, OwedPaid
  <2>5. QED
    BY <2>2, <2>3, <2>4
<1>14. Like(f[L + 1].engine, TakePart(start.engine, lines))
  BY <1>4, <1>13 DEF t, a
<1>15. ASSUME NEW n \in 1 .. L + 1
       PROVE  Buffered(f[n - 1], n, lines) \in Seq(Updates) /\ NoTies(Buffered(f[n - 1], n, lines))
  <2>1. CASE n \in 1 .. L
    <3>1. n - 1 \in 0 .. L
      BY <1>1, <2>1
    <3>2. QED
      BY <1>6, <1>9, <2>1, <3>1
  <2>2. CASE n = L + 1
    <3>1. n - 1 = L
      BY <1>1, <2>2
    <3>2. Buffered(f[n - 1], n, lines) = s.pending
      BY <1>10, <2>2, <3>1 DEF s
    <3>3. QED
      BY <1>11, <1>12, <3>2
  <2>3. n \in 1 .. L \/ n = L + 1
    BY <1>1
  <2>4. QED
    BY <2>1, <2>2, <2>3
<1>16. QED
  BY <1>14, <1>15

-----------------------------------------------------------------------------
\* An event line is about this pair of entity and geometry.
Names(line, p) ==
  \/ line.event \in {"enter", "exit"} /\ p = <<line.id, <<"zone", line.zone>>>>
  \/ line.event \in {"approach", "recede"} /\ p = <<line.id, <<"circle", line.circle>>>>

\* What a consumer makes of a line, for one pair.
LEMMA SeeLineAt ==
  ASSUME NEW seen, NEW line, NEW p
  PROVE  p \in SeeLine(seen, line) <=> IF Names(line, p) THEN line.event \in {"enter", "approach"} ELSE p \in seen
<1>1. CASE line.event = "enter"
  BY <1>1 DEF SeeLine, Names
<1>2. CASE line.event = "exit"
  BY <1>2 DEF SeeLine, Names
<1>3. CASE line.event = "approach"
  BY <1>3 DEF SeeLine, Names
<1>4. CASE line.event = "recede"
  BY <1>4 DEF SeeLine, Names
<1>5. CASE line.event \notin {"enter", "exit", "approach", "recede"}
  BY <1>5 DEF SeeLine, Names
<1>6. QED
  BY <1>1, <1>2, <1>3, <1>4, <1>5

\* The fields of an event line.
LEMMA NdjsonFields ==
  ASSUME NEW ev
  PROVE  /\ NdjsonEvent(ev).event = ev.kind /\ NdjsonEvent(ev).id = ev.id
         /\ ev.kind \in {"enter", "exit"} => NdjsonEvent(ev).zone = ev.name
         /\ ev.kind \in {"approach", "recede"} => NdjsonEvent(ev).circle = ev.name
<1>1. /\ ev.kind \in {"enter", "exit"} => Field(ev.kind) = "zone"
      /\ ev.kind \in {"approach", "recede"} => Field(ev.kind) = "circle"
  BY DEF Field
<1>2. NdjsonEvent(ev)["event"] = ev.kind /\ NdjsonEvent(ev)["id"] = ev.id
  BY DEF NdjsonEvent
<1>3. ev.kind \in {"enter", "exit"} => NdjsonEvent(ev)["zone"] = ev.name
  BY <1>1 DEF NdjsonEvent
<1>4. ev.kind \in {"approach", "recede"} => NdjsonEvent(ev)["circle"] = ev.name
  BY <1>1 DEF NdjsonEvent
<1>5. QED
  BY <1>2, <1>3, <1>4

\* A consumer makes of an event line what it makes of the event.
LEMMA SeeLineIsSee ==
  ASSUME NEW seen, NEW ev
  PROVE  SeeLine(seen, NdjsonEvent(ev)) = See(seen, ev)
<1> DEFINE line == NdjsonEvent(ev)
<1>1. /\ line.event = ev.kind /\ line.id = ev.id
      /\ ev.kind \in {"enter", "exit"} => line.zone = ev.name
      /\ ev.kind \in {"approach", "recede"} => line.circle = ev.name
  BY NdjsonFields
<1> HIDE DEF line
<1>2. SeeLine(seen, line) = See(seen, ev)
  <2>1. CASE ev.kind = "enter"
    BY <1>1, <2>1 DEF SeeLine, See, Subject
  <2>2. CASE ev.kind = "exit"
    BY <1>1, <2>2 DEF SeeLine, See, Subject
  <2>3. CASE ev.kind = "approach"
    BY <1>1, <2>3 DEF SeeLine, See, Subject
  <2>4. CASE ev.kind = "recede"
    BY <1>1, <2>4 DEF SeeLine, See, Subject
  <2>5. CASE ev.kind \notin {"enter", "exit", "approach", "recede"}
    <3>1. SeeLine(seen, line) = seen
      BY <1>1, <2>5 DEF SeeLine
    <3>2. See(seen, ev) = seen
      BY <2>5 DEF See
    <3>3. QED
      BY <3>1, <3>2
  <2>6. QED
    BY <2>1, <2>2, <2>3, <2>4, <2>5
<1>3. QED
  BY <1>2 DEF line

\* So it makes the same of a list of them.
LEMMA LinesFoldAlike ==
  ASSUME NEW M \in Nat, NEW events, DOMAIN events = 1 .. M, NEW seen,
         NEW printed, printed = [n \in DOMAIN events |-> NdjsonEvent(events[n])]
  PROVE  FoldLeft(SeeLine, seen, printed) = FoldLeft(See, seen, events)
<1> DEFINE Eq1(h) == h = [t \in SUBSET DOMAIN printed |->
                            IF t = {} THEN seen ELSE SeeLine(h[t \ {Max(t)}], printed[Max(t)])]
           Eq2(h) == h = [t \in SUBSET DOMAIN events |->
                            IF t = {} THEN seen ELSE See(h[t \ {Max(t)}], events[Max(t)])]
           fold1 == CHOOSE h : Eq1(h)
           fold2 == CHOOSE h : Eq2(h)
<1>1. FoldLeft(SeeLine, seen, printed) = fold1[DOMAIN printed]
  BY Zenon DEF FoldLeft, MapThenFoldSet
<1>2. FoldLeft(See, seen, events) = fold2[DOMAIN events]
  BY Zenon DEF FoldLeft, MapThenFoldSet
<1>3. DOMAIN printed = 1 .. M
  OBVIOUS
<1>4. ASSUME NEW h
      PROVE  Eq1(h) <=> Eq2(h)
  <2>1. ASSUME NEW t \in SUBSET (1 .. M), t # {}
        PROVE  SeeLine(h[t \ {Max(t)}], printed[Max(t)]) = See(h[t \ {Max(t)}], events[Max(t)])
    <3>1. Max(t) \in 1 .. M
      BY <2>1, MaxInSet
    <3>2. printed[Max(t)] = NdjsonEvent(events[Max(t)])
      BY <3>1
    <3>3. QED
      BY <3>2, SeeLineIsSee
  <2>2. [t \in SUBSET (1 .. M) |-> IF t = {} THEN seen ELSE SeeLine(h[t \ {Max(t)}], printed[Max(t)])]
          = [t \in SUBSET (1 .. M) |-> IF t = {} THEN seen ELSE See(h[t \ {Max(t)}], events[Max(t)])]
    BY <2>1
  <2>3. QED
    BY <1>3, <2>2, Zenon
<1> HIDE DEF Eq1, Eq2
<1>5. fold1 = fold2
  BY <1>4
<1>6. QED
  BY <1>1, <1>2, <1>3, <1>5

\* Folding M lines, one after the other.
FoldsLines(run, M, seen, lines) ==
  /\ run[0] = seen
  /\ \A n \in 1 .. M : run[n] = SeeLine(run[n - 1], lines[n])
  /\ run[M] = FoldLeft(SeeLine, seen, lines)

\* FoldLeft does that.
LEMMA LinesRun ==
  ASSUME NEW M \in Nat, NEW lines, DOMAIN lines = 1 .. M, NEW seen
  PROVE  \E run : FoldsLines(run, M, seen, lines)
<1> DEFINE Step(known, n) == SeeLine(known, lines[n])
           P == seen \union {<<lines[n].id, <<"zone", lines[n].zone>>>> : n \in 1 .. M}
                     \union {<<lines[n].id, <<"circle", lines[n].circle>>>> : n \in 1 .. M}
           A == SUBSET P
           F == [p \in A \X (1 .. M) |-> Step(p[1], p[2])]
           Eq(h) == h = [t \in SUBSET DOMAIN lines |->
                           IF t = {} THEN seen ELSE Step(h[t \ {Max(t)}], Max(t))]
           fold == CHOOSE h : Eq(h)
<1>1. FoldLeft(SeeLine, seen, lines) = fold[DOMAIN lines]
  BY Zenon DEF FoldLeft, MapThenFoldSet
<1>2. \A known \in A, n \in 1 .. M : Step(known, n) \in A
  BY DEF SeeLine
<1>3. seen \in A
  OBVIOUS
<1> HIDE DEF A, P, Step
<1>4. F \in [A \X (1 .. M) -> A] /\ \A d \in A, n \in 1 .. M : F[<<d, n>>] = Step(d, n)
  <2>1. \A p \in A \X (1 .. M) : Step(p[1], p[2]) \in A
    BY <1>2
  <2>2. QED
    BY <2>1
<1> HIDE DEF F
<1>5. PICK h \in [SUBSET (1 .. M) -> A] : Folded(M, seen, F, h)
  BY <1>3, <1>4, FoldedExists
<1>6. Eq(h)
  <2>1. ASSUME NEW t \in SUBSET (1 .. M), t # {}
        PROVE  F[<<h[t \ {Max(t)}], Max(t)>>] = Step(h[t \ {Max(t)}], Max(t))
    <3>1. Max(t) \in 1 .. M /\ t \ {Max(t)} \in SUBSET (1 .. M)
      BY <2>1, MaxInSet
    <3>2. h[t \ {Max(t)}] \in A
      BY <3>1
    <3>3. QED
      BY <1>4, <3>1, <3>2
  <2>2. QED
    BY <1>5, <2>1 DEF Folded
<1>7. Eq(fold)
  BY <1>6
<1>8. \A t \in SUBSET (1 .. M) : fold[t] = IF t = {} THEN seen ELSE Step(fold[t \ {Max(t)}], Max(t))
  BY <1>7
<1> HIDE DEF fold
<1>9. Unfolds(fold, M, A, seen, F)
  <2>1. fold[{}] = seen
    BY <1>8
  <2>2. ASSUME NEW t \in SUBSET (1 .. M), t # {}, fold[t \ {Max(t)}] \in A
        PROVE  fold[t] = F[<<fold[t \ {Max(t)}], Max(t)>>]
    <3>1. Max(t) \in 1 .. M
      BY <2>2, MaxInSet
    <3>2. QED
      BY <1>4, <1>8, <2>2, <3>1
  <2>3. QED
    BY <2>1, <2>2 DEF Unfolds
<1>10. PICK run : Ran(run, M, A, seen, F, fold)
  BY <1>3, <1>4, <1>9, FoldRun
<1>11. /\ run[M] = fold[1 .. M] /\ run \in [0 .. M -> A] /\ run[0] = seen
       /\ \A n \in 1 .. M : run[n] = F[<<run[n - 1], n>>]
  BY <1>10 DEF Ran
<1>12. ASSUME NEW n \in 1 .. M
       PROVE  run[n] = SeeLine(run[n - 1], lines[n])
  <2>1. n - 1 \in 0 .. M /\ run[n - 1] \in A
    BY <1>11
  <2>2. run[n] = Step(run[n - 1], n)
    BY <1>4, <1>11, <2>1
  <2>3. QED
    BY <2>2 DEF Step
<1>13. FoldsLines(run, M, seen, lines)
  BY <1>1, <1>11, <1>12 DEF FoldsLines
<1>14. QED
  BY <1>13

\* Two consumers of the same lines agree on the pairs these name, and know of others
\* what they knew before.
LEMMA FoldOfPair ==
  ASSUME NEW M \in Nat, NEW lines, DOMAIN lines = 1 .. M, NEW known, NEW seen, NEW p
  PROVE  IF \E n \in 1 .. M : Names(lines[n], p)
           THEN p \in FoldLeft(SeeLine, known, lines) <=> p \in FoldLeft(SeeLine, seen, lines)
           ELSE p \in FoldLeft(SeeLine, known, lines) <=> p \in known
<1>1. PICK k : FoldsLines(k, M, known, lines)
  BY LinesRun
<1>2. PICK s : FoldsLines(s, M, seen, lines)
  BY LinesRun
<1> DEFINE Named(n) == \E j \in 1 .. n : Names(lines[j], p)
           S == {n \in 0 .. M : IF Named(n) THEN p \in k[n] <=> p \in s[n] ELSE p \in k[n] <=> p \in known}
<1>3. /\ k[0] = known /\ k[M] = FoldLeft(SeeLine, known, lines) /\ s[M] = FoldLeft(SeeLine, seen, lines)
      /\ \A n \in 1 .. M : k[n] = SeeLine(k[n - 1], lines[n]) /\ s[n] = SeeLine(s[n - 1], lines[n])
  BY <1>1, <1>2 DEF FoldsLines
<1>4. 0 \in S
  BY <1>3
<1>5. ASSUME NEW n \in 1 .. M, n - 1 \in S
      PROVE  n \in S
  <2>1. /\ p \in k[n] <=> IF Names(lines[n], p) THEN lines[n].event \in {"enter", "approach"} ELSE p \in k[n - 1]
        /\ p \in s[n] <=> IF Names(lines[n], p) THEN lines[n].event \in {"enter", "approach"} ELSE p \in s[n - 1]
    BY <1>3, SeeLineAt
  <2>2. Named(n) <=> Named(n - 1) \/ Names(lines[n], p)
    <3>1. \A j \in 1 .. n : j = n \/ j \in 1 .. n - 1
      OBVIOUS
    <3>2. n \in 1 .. n /\ \A j \in 1 .. n - 1 : j \in 1 .. n
      OBVIOUS
    <3>3. QED
      BY <3>1, <3>2
  <2>3. n \in 0 .. M
    OBVIOUS
  <2>4. IF Named(n - 1) THEN p \in k[n - 1] <=> p \in s[n - 1] ELSE p \in k[n - 1] <=> p \in known
    BY <1>5
  <2> HIDE DEF Named
  <2>5. QED
    BY <2>1, <2>2, <2>3, <2>4
<1> HIDE DEF S
<1>6. \A n \in 0 .. M : n \in S
  BY <1>4, <1>5, UpTo
<1>7. M \in 0 .. M
  OBVIOUS
<1>8. IF Named(M) THEN p \in k[M] <=> p \in s[M] ELSE p \in k[M] <=> p \in known
  BY <1>6, <1>7 DEF S
<1>9. QED
  BY <1>3, <1>8

\* What an event line may name.
LEMMA PrintedPairs ==
  ASSUME NEW line \in Printed, NEW p, Names(line, p)
  PROVE  p \in Entities \X Geometries
<1>1. PICK ev \in AnyEvents : line = NdjsonEvent(ev)
  BY DEF Printed
<1>2. ev.kind \in SpatialKinds => Subject(ev) \in Entities \X Geometries
  BY DEF AnyEvents
<1>3. /\ line.event = ev.kind /\ line.id = ev.id
      /\ ev.kind \in {"enter", "exit"} => line.zone = ev.name
      /\ ev.kind \in {"approach", "recede"} => line.circle = ev.name
  BY <1>1, NdjsonFields
<1>4. CASE ev.kind \in {"enter", "exit"}
  BY <1>2, <1>3, <1>4 DEF Names, Subject, SpatialKinds
<1>5. CASE ev.kind \in {"approach", "recede"}
  BY <1>2, <1>3, <1>5 DEF Names, Subject, SpatialKinds
<1>6. QED
  BY <1>3, <1>4, <1>5 DEF Names

\* Folding lines leaves only pairs of entity and geometry.
LEMMA FoldStaysPairs ==
  ASSUME NEW lines \in Seq(Printed), NEW known, known \subseteq Entities \X Geometries
  PROVE  FoldLeft(SeeLine, known, lines) \subseteq Entities \X Geometries
<1> DEFINE M == Len(lines)
           Pairs == Entities \X Geometries
           new == FoldLeft(SeeLine, known, lines)
<1>1. M \in Nat /\ DOMAIN lines = 1 .. M /\ \A n \in 1 .. M : lines[n] \in Printed
  BY SeqElements
<1> HIDE DEF M, new
<1>2. ASSUME NEW p, p \in new
      PROVE  p \in Pairs
  <2>1. CASE \E n \in 1 .. M : Names(lines[n], p)
    BY <1>1, <2>1, PrintedPairs
  <2>2. CASE ~\E n \in 1 .. M : Names(lines[n], p)
    <3>1. IF \E n \in 1 .. M : Names(lines[n], p)
            THEN p \in FoldLeft(SeeLine, known, lines) <=> p \in FoldLeft(SeeLine, known, lines)
            ELSE p \in FoldLeft(SeeLine, known, lines) <=> p \in known
      BY <1>1, FoldOfPair
    <3>2. p \in known
      BY <1>2, <2>2, <3>1 DEF new
    <3>3. QED
      BY <3>2
  <2>3. QED
    BY <2>1, <2>2
<1>3. new \subseteq Pairs
  BY <1>2
<1>4. QED
  BY <1>3 DEF new

\* Folding no lines.
LEMMA FoldOfNone ==
  ASSUME NEW known
  PROVE  FoldLeft(SeeLine, known, <<>>) = known
<1>1. 0 \in Nat /\ DOMAIN <<>> = 1 .. 0
  OBVIOUS
<1>2. PICK k : FoldsLines(k, 0, known, <<>>)
  BY <1>1, LinesRun
<1>3. QED
  BY <1>2 DEF FoldsLines

\* What a turn prints tells how it changes the membership.
LEMMA TurnTells ==
  ASSUME NEW s \in SessionStates, NEW lines \in Seq(Lines), NEW n \in Nat \ {0},
         NEW t, TurnOutcome(s, n, lines, t),
         Buffered(s, n, lines) \in Seq(Updates), NoTies(Buffered(s, n, lines))
  PROVE  FoldLeft(SeeLine, Inside(s.engine.entities), t.printed) = Inside(t.engine.entities)
<1>1. s.engine \in Plain
  BY DEF SessionStates
<1>2. ASSUME t.printed = <<>>, t.engine.entities = s.engine.entities
      PROVE  FoldLeft(SeeLine, Inside(s.engine.entities), t.printed) = Inside(t.engine.entities)
  BY <1>2, FoldOfNone
<1>3. CASE Notes(s, n, lines, t)
  <2>1. /\ n <= Len(lines) /\ t.printed = <<>>
        /\ t.engine = IF lines[n].type = "register"
                        THEN Register(s.engine, lines[n].geometry, lines[n].area, NoDwell)
                        ELSE s.engine
    BY <1>3 DEF Notes
  <2>2. CASE lines[n].type = "register"
    <3>1. lines[n].geometry \in Geometries /\ lines[n].area \in Areas \union {None}
      BY <2>1, <2>2, BufferedType, LineType
    <3>2. Registered(s.engine, lines[n].geometry, lines[n].area, t.engine)
      BY <1>1, <2>1, <2>2, <3>1, RegisteredIs
    <3>3. QED
      BY <1>2, <2>1, <3>2 DEF Registered
  <2>3. CASE lines[n].type # "register"
    BY <1>2, <2>1, <2>3
  <2>4. QED
    BY <2>2, <2>3
<1>4. CASE Waits(s, n, lines, t)
  BY <1>2, <1>4 DEF Waits
<1>5. CASE Flushes(s, n, lines, t)
  <2> DEFINE P == Buffered(s, n, lines)
             N == Len(P)
             result == ProcessBatch(s.engine, P, <<>>)
  <2>1. t.engine = result.engine /\ t.printed = [k \in DOMAIN result.events |-> NdjsonEvent(result.events[k])]
    BY <1>5, Zenon DEF Flushes
  <2>2. /\ N \in Nat /\ P \in [1 .. N -> Updates] /\ NoTies(P)
        /\ s.engine \in EngineStates(AnyRules, AnySequences) /\ WellFormed(s.engine.entities)
    BY <1>1, SeqIsFunction DEF Plain
  <2> HIDE DEF P, N
  <2>3. FoldLeft(See, Inside(s.engine.entities), result.events) = Inside(result.engine.entities)
    BY <2>2, CliNumbers, BatchFolds
  <2>4. PICK M \in Nat : DOMAIN result.events = 1 .. M
    BY <2>2, CliNumbers, BatchEvents
  <2> HIDE DEF result
  <2>5. FoldLeft(SeeLine, Inside(s.engine.entities), t.printed) = FoldLeft(See, Inside(s.engine.entities), result.events)
    BY <2>1, <2>4, LinesFoldAlike
  <2>6. QED
    BY <2>1, <2>3, <2>5
<1>6. QED
  BY <1>3, <1>4, <1>5 DEF TurnOutcome

-----------------------------------------------------------------------------
\* One of the first n turns prints a line about the pair.
Told(f, n, p) == \E k \in 1 .. n : \E j \in DOMAIN f[k].printed : Names(f[k].printed[j], p)

\* Where the input is never about a pair, these pairs are what the process started with.
Spared(f, L, known) ==
  \A p \in Entities \X Geometries :
    ~Told(f, L + 1, p) => (p \in known <=> p \in Inside(f[0].engine.entities))

\* After n turns, these pairs are right where a line has told of them.
Knows(f, n, L, known) ==
  /\ \A p \in Entities \X Geometries : Told(f, n, p) => (p \in known <=> p \in Inside(f[n].engine.entities))
  /\ Spared(f, L, known)

\* What each turn prints is lines, and tells how it changes the membership.
Tellings(f, L) ==
  /\ \A n \in 1 .. L + 1 :
       /\ f[n].printed \in Seq(Printed)
       /\ FoldLeft(SeeLine, Inside(f[n - 1].engine.entities), f[n].printed) = Inside(f[n].engine.entities)
  /\ L \in Nat

\* A trace of an orderly part has such tellings.
LEMMA TraceTells ==
  ASSUME NEW start \in Starts, NEW lines \in Seq(Lines), Orderly(lines), NEW bs \in Nat,
         NEW f, IsTrace(f, start, lines, bs), NEW L, L = Len(lines)
  PROVE  Tellings(f, L)
<1>1. start \in SessionStates /\ start.line_no = 0 /\ L \in Nat
  BY DEF Starts
<1>2. ASSUME NEW n \in 1 .. L + 1
      PROVE  /\ f[n].printed \in Seq(Printed)
             /\ FoldLeft(SeeLine, Inside(f[n - 1].engine.entities), f[n].printed) = Inside(f[n].engine.entities)
  <2>1. n \in Nat \ {0} /\ n \in 0 .. Len(lines) + 1 /\ n - 1 \in 0 .. Len(lines) + 1 /\ n \in 1 .. Len(lines) + 1
    BY <1>1
  <2>2. f[n - 1] \in SessionStates /\ f[n] \in SessionStates /\ TurnOutcome(f[n - 1], n, lines, f[n])
    BY <1>1, <2>1, TraceType
  <2>3. Buffered(f[n - 1], n, lines) \in Seq(Updates) /\ NoTies(Buffered(f[n - 1], n, lines))
    BY TraceAtOnce
  <2>4. f[n].printed \in Seq(Printed)
    BY <2>2 DEF SessionStates
  <2>5. QED
    BY <2>1, <2>2, <2>3, <2>4, TurnTells
<1>3. QED
  BY <1>1, <1>2 DEF Tellings

\* A consumer stays right, turn by turn.
LEMMA KnowsMore ==
  ASSUME NEW f, NEW L, Tellings(f, L), NEW n \in 1 .. L + 1, NEW known, Knows(f, n - 1, L, known)
  PROVE  Knows(f, n, L, FoldLeft(SeeLine, known, f[n].printed))
<1> DEFINE lines == f[n].printed
           M == Len(lines)
           new == FoldLeft(SeeLine, known, lines)
           before == Inside(f[n - 1].engine.entities)
           after == Inside(f[n].engine.entities)
<1>1. L \in Nat /\ lines \in Seq(Printed) /\ FoldLeft(SeeLine, before, lines) = after
  BY DEF Tellings
<1>2. M \in Nat /\ DOMAIN lines = 1 .. M
  BY <1>1, SeqElements
<1>3. ASSUME NEW p \in Entities \X Geometries
      PROVE  /\ Told(f, n, p) => (p \in new <=> p \in after)
             /\ ~Told(f, L + 1, p) => (p \in new <=> p \in Inside(f[0].engine.entities))
  <2> DEFINE named == \E j \in 1 .. M : Names(lines[j], p)
  <2>1. /\ Told(f, n - 1, p) => (p \in known <=> p \in before)
        /\ ~Told(f, L + 1, p) => (p \in known <=> p \in Inside(f[0].engine.entities))
    BY DEF Knows, Spared
  <2>2. Told(f, n, p) <=> Told(f, n - 1, p) \/ named
    <3>1. \A k \in 1 .. n : k = n \/ k \in 1 .. n - 1
      OBVIOUS
    <3>2. n \in 1 .. n /\ \A k \in 1 .. n - 1 : k \in 1 .. n
      OBVIOUS
    <3>3. QED
      BY <1>2, <3>1, <3>2 DEF Told
  <2>3. Told(f, n, p) => Told(f, L + 1, p)
    <3>1. \A k \in 1 .. n : k \in 1 .. L + 1
      BY <1>1
    <3>2. QED
      BY <3>1 DEF Told
  <2> HIDE DEF lines, M, new, before, after
  <2>4. IF named
          THEN p \in FoldLeft(SeeLine, known, lines) <=> p \in FoldLeft(SeeLine, before, lines)
          ELSE p \in FoldLeft(SeeLine, known, lines) <=> p \in known
    BY <1>2, FoldOfPair
  <2>5. IF named
          THEN p \in FoldLeft(SeeLine, before, lines) <=> p \in FoldLeft(SeeLine, known, lines)
          ELSE p \in FoldLeft(SeeLine, before, lines) <=> p \in before
    BY <1>2, FoldOfPair
  <2> HIDE DEF named
  <2>6. QED
    BY <1>1, <2>1, <2>2, <2>3, <2>4, <2>5 DEF new
<1>4. Knows(f, n, L, new)
  <2> HIDE DEF new
  <2>1. QED
    BY <1>3 DEF Knows, Spared
<1>5. QED
  BY <1>4

\* A part of what a turn prints leaves other pairs alone.
LEMMA SparedPart ==
  ASSUME NEW f, NEW L, Tellings(f, L), NEW n \in 1 .. L + 1, NEW known, Spared(f, L, known),
         NEW m \in 0 .. Len(f[n].printed)
  PROVE  Spared(f, L, FoldLeft(SeeLine, known, SubSeq(f[n].printed, 1, m)))
<1> DEFINE lines == f[n].printed
           part == SubSeq(lines, 1, m)
           new == FoldLeft(SeeLine, known, part)
<1>1. L \in Nat /\ lines \in Seq(Printed)
  BY DEF Tellings
<1>2. m \in Nat /\ DOMAIN part = 1 .. m /\ \A j \in 1 .. m : j \in DOMAIN lines /\ part[j] = lines[j]
  BY <1>1
<1> HIDE DEF part
<1>3. ASSUME NEW p \in Entities \X Geometries, ~Told(f, L + 1, p)
      PROVE  p \in new <=> p \in Inside(f[0].engine.entities)
  <2>1. \A j \in DOMAIN lines : ~Names(lines[j], p)
    BY <1>3 DEF Told
  <2>2. ~\E j \in 1 .. m : Names(part[j], p)
    BY <1>2, <2>1
  <2>3. IF \E j \in 1 .. m : Names(part[j], p)
          THEN p \in FoldLeft(SeeLine, known, part) <=> p \in FoldLeft(SeeLine, known, part)
          ELSE p \in FoldLeft(SeeLine, known, part) <=> p \in known
    BY <1>2, FoldOfPair
  <2>4. p \in new <=> p \in known
    BY <2>2, <2>3
  <2> HIDE DEF new
  <2>5. QED
    BY <1>3, <2>4 DEF Spared
<1> HIDE DEF new
<1>4. Spared(f, L, new)
  BY <1>3 DEF Spared
<1>5. QED
  BY <1>4 DEF new, part

\* So in the end a consumer who was spared knows the membership.
LEMMA KnowsAll ==
  ASSUME NEW f, NEW L, Tellings(f, L), NEW known, known \subseteq Entities \X Geometries
  PROVE  /\ Spared(f, L, Inside(f[L + 1].engine.entities))
         /\ Knows(f, L + 1, L, known) => known = Inside(f[L + 1].engine.entities)
<1> DEFINE S == {n \in 0 .. L + 1 : Knows(f, n, L, Inside(f[n].engine.entities))}
<1>1. L \in Nat /\ L + 1 \in Nat
  BY DEF Tellings
<1>2. 0 \in S
  <2>1. \A p : ~Told(f, 0, p)
    BY DEF Told
  <2>2. Knows(f, 0, L, Inside(f[0].engine.entities))
    BY <2>1 DEF Knows, Spared
  <2>3. QED
    BY <1>1, <2>2
<1>3. ASSUME NEW n \in 1 .. L + 1, n - 1 \in S
      PROVE  n \in S
  <2>1. Knows(f, n - 1, L, Inside(f[n - 1].engine.entities))
    BY <1>3
  <2>2. Knows(f, n, L, FoldLeft(SeeLine, Inside(f[n - 1].engine.entities), f[n].printed))
    BY <2>1, KnowsMore
  <2>3. FoldLeft(SeeLine, Inside(f[n - 1].engine.entities), f[n].printed) = Inside(f[n].engine.entities)
    BY DEF Tellings
  <2>4. n \in 0 .. L + 1
    BY <1>1
  <2>5. QED
    BY <2>2, <2>3, <2>4
<1> HIDE DEF S
<1>4. \A n \in 0 .. L + 1 : n \in S
  BY <1>1, <1>2, <1>3, UpTo
<1>5. Knows(f, L + 1, L, Inside(f[L + 1].engine.entities))
  BY <1>1, <1>4 DEF S
<1>6. Inside(f[L + 1].engine.entities) \subseteq Entities \X Geometries
  BY DEF Inside
<1> DEFINE all == Inside(f[L + 1].engine.entities)
<1>7. Spared(f, L, all)
  BY <1>5 DEF Knows
<1>8. ASSUME Knows(f, L + 1, L, known)
      PROVE  known = all
  <2> HIDE DEF all
  <2>1. \A p \in Entities \X Geometries : p \in known <=> p \in all
    BY <1>7, <1>8 DEF Knows, Spared, all
  <2>2. QED
    BY <1>6, <2>1 DEF all
<1>9. QED
  BY <1>7, <1>8

-----------------------------------------------------------------------------
\* A process begins with a new session.
LEMMA SessionBegins ==
  ASSUME NEW eng \in Plain, NEW restored \in BOOLEAN
  PROVE  /\ Session(eng, restored) \in Starts
         /\ Session(eng, restored).engine = eng /\ Session(eng, restored).restored = restored
<1>1. <<>> \in Seq(Updates) /\ <<>> \in Seq([line : Nat] \union Refusals) /\ <<>> \in Seq(Printed)
  OBVIOUS
<1>2. QED
  BY <1>1 DEF Session, Starts, SessionStates

\* What a process starts with, from the file there is.
Start ==
  IF file \in {None, Broken} THEN Session(NewEngine, FALSE) ELSE Session(Restored(file), TRUE)

\* The values of the variables, and what the phases tell of them.
CliType ==
  /\ batch_size \in Nat
  /\ file \in {None, Broken} \union Plain
  /\ fed \in Seq(Seq(Lines)) /\ input \in Seq(Lines)
  /\ phase \in {"done", "ready", "running", "captured", "saving", "saved"}
  /\ IF phase \in {"done", "ready"} THEN session = None ELSE session \in SessionStates
  /\ picture \subseteq Entities \X Geometries
  /\ phase = "running" => session.line_no <= Len(input) /\ session.restored = Start.restored
  /\ phase \in {"running", "captured"} /\ file \in {None, Broken} => fed = <<>>
  /\ phase = "saving" => file = Broken
  /\ phase = "saved" => file = session.engine
  /\ phase = "done" => IF fed = <<>> THEN file = None /\ picture = {} ELSE file \in Plain

\* A file that holds an engine is neither missing nor broken.
LEMMA PlainIsFile == Plain \intersect {None, Broken} = {}
BY CliAssumption DEF Plain

\* The start is that of a session.
LEMMA StartIs ==
  ASSUME CliType
  PROVE  /\ Start \in Starts /\ Start.engine \in Plain
         /\ file \in {None, Broken} => Start.engine = NewEngine /\ ~Start.restored
         /\ file \notin {None, Broken} =>
              /\ file \in Plain /\ Start.engine = Restored(file) /\ Start.restored
              /\ Start.engine.area = file.area /\ Start.engine.entities = file.entities
<1>1. file \in {None, Broken} \union Plain
  BY DEF CliType
<1>2. CASE file \in {None, Broken}
  <2>1. NewEngine \in Plain /\ Start = Session(NewEngine, FALSE)
    BY <1>2, PlainBegins DEF Start
  <2>2. QED
    BY <1>2, <2>1, SessionBegins
<1>3. CASE file \notin {None, Broken}
  <2>1. file \in Plain /\ Restored(file) \in Plain /\ Start = Session(Restored(file), TRUE)
    BY <1>1, <1>3, PlainBegins DEF Start
  <2>2. Restored(file).area = file.area /\ Restored(file).entities = file.entities
    BY <2>1, RestoredOutcome DEF Plain
  <2>3. QED
    BY <1>3, <2>1, <2>2, SessionBegins
<1>4. QED
  BY <1>2, <1>3

\* A step of Run is a turn.
LEMMA RunIsTurn ==
  ASSUME CliType, phase = "running", NEW n, n = session.line_no + 1
  PROVE  /\ n \in 1 .. Len(input) + 1 /\ n - 1 = session.line_no
         /\ session.line_no = Len(input) <=> n = Len(input) + 1
         /\ Ahead = Turn(session, n, input, batch_size)
         /\ TurnOutcome(session, n, input, Ahead)
<1>1. /\ session \in SessionStates /\ session.line_no \in Nat /\ session.line_no <= Len(input)
      /\ input \in Seq(Lines) /\ Len(input) \in Nat /\ batch_size \in Nat
  BY DEF CliType, SessionStates
<1>2. /\ n \in 1 .. Len(input) + 1 /\ n - 1 = session.line_no /\ n \in Nat \ {0}
      /\ session.line_no = Len(input) <=> n = Len(input) + 1
  BY <1>1
<1>3. Ahead = Turn(session, n, input, batch_size)
  BY <1>1 DEF Ahead, Turn
<1>4. TurnOutcome(session, n, input, Ahead)
  BY <1>1, <1>2, <1>3, TurnIs
<1>5. QED
  BY <1>2, <1>3, <1>4

\* The initial state is typed.
LEMMA CliTypeInit == CliInit => CliType
BY CliAssumption DEF CliInit, CliType

\* Every step keeps the types.
LEMMA CliTypeNext == CliType /\ [CliNext]_clivars => CliType'
<1> SUFFICES ASSUME CliType, [CliNext]_clivars PROVE CliType'
  OBVIOUS
<1>1. ASSUME NEW part \in Parts, Feed(part)
      PROVE  CliType'
  <2>1. part \in Seq(Lines)
    BY CliAssumption
  <2>2. QED
    BY <1>1, <2>1 DEF CliType, Feed
<1>2. CASE Launch
  <2>1. /\ phase = "ready" /\ phase' = "running" /\ session' = Start
        /\ file \in {None, Broken} => fed = <<>>
        /\ UNCHANGED <<batch_size, file, fed, input, picture>>
    BY <1>2 DEF Launch, Start
  <2>2. Start \in SessionStates /\ Start.line_no = 0
    BY StartIs DEF Starts
  <2>3. Start' = Start
    BY <2>1 DEF Start
  <2>4. 0 <= Len(input)
    BY DEF CliType
  <2>5. QED
    BY <2>1, <2>2, <2>3, <2>4 DEF CliType
<1>3. CASE Run
  <2> DEFINE n == session.line_no + 1
  <2>1. /\ phase = "running" /\ session' = Ahead
        /\ picture' = FoldLeft(SeeLine, picture, session'.printed)
        /\ phase' = IF session.line_no = Len(input) THEN "captured" ELSE "running"
        /\ UNCHANGED <<batch_size, file, fed, input>>
    BY <1>3 DEF Run
  <2>2. /\ n \in 1 .. Len(input) + 1
        /\ session.line_no = Len(input) <=> n = Len(input) + 1
        /\ TurnOutcome(session, n, input, session')
    BY <2>1, RunIsTurn
  <2> HIDE DEF n
  <2>3. /\ session' \in SessionStates /\ session'.restored = session.restored
        /\ n <= Len(input) => session'.line_no = n
    BY <2>2 DEF TurnOutcome, n
  <2>4. picture' \subseteq Entities \X Geometries
    <3>1. session'.printed \in Seq(Printed)
      BY <2>3 DEF SessionStates
    <3>2. QED
      BY <2>1, <3>1, FoldStaysPairs DEF CliType
  <2>5. Start' = Start
    BY <2>1 DEF Start
  <2>6. phase' = "running" => n <= Len(input)
    <3>1. Len(input) \in Nat
      BY DEF CliType
    <3>2. QED
      BY <2>1, <2>2, <3>1
  <2>7. QED
    BY <2>1, <2>3, <2>4, <2>5, <2>6 DEF CliType
<1>4. CASE Truncate
  BY <1>4 DEF CliType, Truncate
<1>5. CASE Save
  <2>1. session.engine \in Plain
    BY <1>5 DEF CliType, Save, SessionStates
  <2>2. QED
    BY <1>5, <2>1 DEF CliType, Save
<1>6. CASE Exit
  <2>1. session.engine \in Plain /\ file = session.engine
    BY <1>6 DEF CliType, Exit, SessionStates
  <2>2. Append(fed, input) \in Seq(Seq(Lines)) /\ Append(fed, input) # <<>>
    BY DEF CliType
  <2>3. QED
    BY <1>6, <2>1, <2>2 DEF CliType, Exit
<1>7. CASE DieRunning
  <2>1. PICK m \in 0 .. Len(Ahead.printed) :
          /\ phase = "running" /\ picture' = FoldLeft(SeeLine, picture, SubSeq(Ahead.printed, 1, m))
          /\ phase' = "ready" /\ session' = None /\ UNCHANGED <<batch_size, file, fed, input>>
    BY <1>7 DEF DieRunning
  <2>2. TurnOutcome(session, session.line_no + 1, input, Ahead)
    BY <2>1, RunIsTurn
  <2>3. Ahead.printed \in Seq(Printed)
    BY <2>2 DEF TurnOutcome, SessionStates
  <2>4. SubSeq(Ahead.printed, 1, m) \in Seq(Printed)
    BY <2>3
  <2>5. picture' \subseteq Entities \X Geometries
    BY <2>1, <2>4, FoldStaysPairs DEF CliType
  <2>6. QED
    BY <2>1, <2>5 DEF CliType
<1>8. CASE DieSaving
  BY <1>8 DEF CliType, DieSaving
<1>9. CASE UNCHANGED clivars
  <2>1. Start' = Start
    BY <1>9 DEF Start, clivars
  <2>2. QED
    BY <1>9, <2>1 DEF CliType, clivars
<1>10. QED
  BY <1>1, <1>2, <1>3, <1>4, <1>5, <1>6, <1>7, <1>8, <1>9 DEF CliNext

\* Every state is typed: a process that runs from a missing or a broken file is one of
\* the first part, a process that ends well leaves a file that holds an engine, and no
\* line of output is about anything but pairs of an entity and a geometry.
THEOREM CliTypeCorrect == CliSpec => []CliType
BY CliTypeInit, CliTypeNext, PTL DEF CliSpec

-----------------------------------------------------------------------------
\* A process that runs is on the one way that the file, the part and the batch size lay out.
OnTrace ==
  /\ phase = "running" => \A f : IsTrace(f, Start, input, batch_size) => session = f[session.line_no]
  /\ phase = "captured" => \A f : IsTrace(f, Start, input, batch_size) => session = f[Len(input) + 1]

\* It is so in the initial state, where nothing runs.
LEMMA OnTraceInit == CliInit => OnTrace
BY DEF CliInit, OnTrace

\* It stays on it.
LEMMA OnTraceNext == CliType /\ OnTrace /\ [CliNext]_clivars => OnTrace'
<1> SUFFICES ASSUME CliType, OnTrace, [CliNext]_clivars PROVE OnTrace'
  OBVIOUS
<1>1. CASE Launch
  <2>1. /\ phase' = "running" /\ session' = Start /\ UNCHANGED <<batch_size, file, input>>
    BY <1>1 DEF Launch, Start
  <2>2. Start.line_no = 0 /\ Start' = Start
    BY <2>1, StartIs DEF Starts, Start
  <2>3. ASSUME NEW f, IsTrace(f, Start, input, batch_size)
        PROVE  session' = f[session'.line_no]
    BY <2>1, <2>2, <2>3 DEF IsTrace
  <2>4. QED
    BY <2>1, <2>2, <2>3 DEF OnTrace
<1>2. CASE Run
  <2> DEFINE n == session.line_no + 1
  <2>1. /\ phase = "running" /\ session' = Ahead
        /\ phase' = IF session.line_no = Len(input) THEN "captured" ELSE "running"
        /\ UNCHANGED <<batch_size, file, input>>
    BY <1>2 DEF Run
  <2>2. /\ n \in 1 .. Len(input) + 1 /\ n - 1 = session.line_no
        /\ session.line_no = Len(input) <=> n = Len(input) + 1
        /\ session' = Turn(session, n, input, batch_size)
        /\ TurnOutcome(session, n, input, session')
    BY <2>1, RunIsTurn
  <2> HIDE DEF n
  <2>3. Start' = Start /\ Len(input) \in Nat
    BY <2>1 DEF Start, CliType
  <2>4. ASSUME NEW f, IsTrace(f, Start, input, batch_size)
        PROVE  session' = f[n]
    <3>1. session = f[n - 1]
      BY <2>1, <2>2, <2>4 DEF OnTrace
    <3>2. f[n] = Turn(f[n - 1], n, input, batch_size)
      BY <2>2, <2>4 DEF IsTrace
    <3>3. QED
      BY <2>2, <3>1, <3>2
  <2>5. phase' = "running" => session'.line_no = n
    BY <2>1, <2>2, <2>3 DEF TurnOutcome, n
  <2>6. phase' = "captured" => n = Len(input) + 1
    BY <2>1, <2>2
  <2>7. QED
    BY <2>1, <2>3, <2>4, <2>5, <2>6 DEF OnTrace
<1>3. CASE \/ \E part \in Parts : Feed(part)
           \/ Truncate \/ Save \/ Exit \/ DieRunning \/ DieSaving
  <2>1. phase' \notin {"running", "captured"}
    BY <1>3 DEF Feed, Truncate, Save, Exit, DieRunning, DieSaving
  <2>2. QED
    BY <2>1 DEF OnTrace
<1>4. CASE UNCHANGED clivars
  <2>1. Start' = Start
    BY <1>4 DEF Start, clivars
  <2>2. QED
    BY <1>4, <2>1 DEF OnTrace, clivars
<1>5. QED
  BY <1>1, <1>2, <1>3, <1>4 DEF CliNext

-----------------------------------------------------------------------------
\* All these parts are orderly.
OrderlyParts(parts) == \A k \in DOMAIN parts : Orderly(parts[k])

\* So they are with one more.
LEMMA OrderlyMore ==
  ASSUME NEW parts \in Seq(Seq(Lines)), NEW part \in Seq(Lines), OrderlyParts(Append(parts, part))
  PROVE  OrderlyParts(parts) /\ Orderly(part)
<1> DEFINE N == Len(parts)
           more == Append(parts, part)
<1>1. /\ N \in Nat /\ DOMAIN parts = 1 .. N /\ DOMAIN more = 1 .. N + 1 /\ more[N + 1] = part
      /\ \A k \in 1 .. N : more[k] = parts[k]
  OBVIOUS
<1>2. \A k \in DOMAIN more : Orderly(more[k])
  BY Zenon DEF OrderlyParts
<1> HIDE DEF N, more
<1>3. N + 1 \in 1 .. N + 1 /\ \A k \in 1 .. N : k \in 1 .. N + 1
  BY <1>1
<1>4. Orderly(part)
  BY <1>1, <1>2, <1>3
<1>5. \A k \in DOMAIN parts : Orderly(parts[k])
  BY <1>1, <1>2, <1>3
<1>6. QED
  BY <1>4, <1>5 DEF OrderlyParts

\* What one engine that was given the parts before and the one at hand once would be.
Goal == TakePart(OneByOne(fed), input)

\* The file holds what one engine would have before the part at hand, or after it.
FileRight ==
  /\ phase = "done" /\ fed # <<>> /\ OrderlyParts(fed) => Like(file, OneByOne(fed))
  /\ phase \in {"ready", "running", "captured"} /\ OrderlyParts(fed) /\ Orderly(input)
       /\ file \notin {None, Broken} => Like(file, OneByOne(fed)) \/ Like(file, Goal)
  /\ phase \in {"saving", "saved"} /\ OrderlyParts(fed) /\ Orderly(input) => Like(session.engine, Goal)

\* Likeness goes on.
LEMMA LikeGoes ==
  ASSUME NEW a, NEW b
  PROVE  Like(a, b) => Like(b, a) /\ \A c : Like(b, c) => Like(a, c)
BY DEF Like

\* A process that has read its part has what one engine would have, whether the file it
\* started from had taken the part before or not.
LEMMA CapturedIsGoal ==
  ASSUME CliType, FileRight, OrderlyParts(fed), Orderly(input),
         file \in {None, Broken} => fed = <<>>,
         file \notin {None, Broken} => phase \in {"ready", "running", "captured"},
         NEW f, IsTrace(f, Start, input, batch_size)
  PROVE  Like(f[Len(input) + 1].engine, Goal)
<1> DEFINE a == Start.engine
           one == OneByOne(fed)
           last == f[Len(input) + 1].engine
<1>1. /\ Start \in Starts /\ a \in Plain /\ input \in Seq(Lines) /\ batch_size \in Nat
      /\ fed \in Seq(Seq(Lines))
  BY StartIs DEF CliType
<1>2. one \in Plain /\ Goal = TakePart(one, input) /\ Goal \in Plain
  BY <1>1, OnePartMore, PartType DEF Goal
<1>3. Like(last, TakePart(a, input))
  BY <1>1, TraceAtOnce
<1>4. CASE file \in {None, Broken}
  <2>1. a = one
    BY <1>1, <1>4, StartIs, OnePartMore
  <2>2. QED
    BY <1>2, <1>3, <2>1
<1>5. CASE file \notin {None, Broken}
  <2>1. Like(a, file)
    BY <1>5, StartIs DEF Like
  <2>2. Like(file, one) \/ Like(file, Goal)
    BY <1>5 DEF FileRight
  <2> HIDE DEF a, one, last
  <2>3. CASE Like(file, one)
    <3>1. Like(a, one)
      BY <2>1, <2>3, LikeGoes
    <3>2. Like(TakePart(a, input), TakePart(one, input))
      BY <1>1, <1>2, <3>1, LikePart
    <3>3. Like(last, Goal)
      BY <1>2, <1>3, <3>2, LikeGoes
    <3>4. QED
      BY <3>3 DEF last
  <2>4. CASE Like(file, Goal)
    <3>1. Like(a, Goal)
      BY <2>1, <2>4, LikeGoes
    <3>2. Like(TakePart(a, input), TakePart(Goal, input))
      BY <1>1, <1>2, <3>1, LikePart
    <3>3. Like(TakePart(Goal, input), Goal)
      BY <1>1, <1>2, TwiceIsOnce
    <3>4. Like(last, Goal)
      BY <1>3, <3>2, <3>3, LikeGoes
    <3>5. QED
      BY <3>4 DEF last
  <2>5. QED
    BY <2>2, <2>3, <2>4
<1>6. QED
  BY <1>4, <1>5

\* The file is right in the initial state, where there is none.
LEMMA FileRightInit == CliInit => FileRight
BY DEF CliInit, FileRight

\* It stays right.
LEMMA FileRightNext == CliType /\ OnTrace /\ FileRight /\ [CliNext]_clivars => FileRight'
<1> SUFFICES ASSUME CliType, OnTrace, FileRight, [CliNext]_clivars PROVE FileRight'
  OBVIOUS
<1>1. ASSUME NEW part \in Parts, Feed(part)
      PROVE  FileRight'
  <2>1. /\ phase = "done" /\ phase' = "ready" /\ file' = file /\ fed' = fed
    BY <1>1 DEF Feed
  <2>2. file \notin {None, Broken} => fed # <<>>
    BY <2>1 DEF CliType
  <2>3. file \notin {None, Broken} /\ OrderlyParts(fed) => Like(file, OneByOne(fed))
    BY <2>1, <2>2 DEF FileRight
  <2>4. QED
    BY <2>1, <2>3 DEF FileRight
<1>2. CASE Launch \/ Run \/ DieRunning
  <2>1. /\ phase \in {"ready", "running"} /\ phase' \in {"ready", "running", "captured"}
        /\ file' = file /\ fed' = fed /\ input' = input
    BY <1>2 DEF Launch, Run, DieRunning
  <2>2. Goal' = Goal
    BY <2>1 DEF Goal
  <2>3. QED
    BY <2>1, <2>2 DEF FileRight
<1>3. CASE Truncate
  <2>1. /\ phase = "captured" /\ phase' = "saving" /\ fed' = fed /\ input' = input /\ session' = session
    BY <1>3 DEF Truncate
  <2>2. Goal' = Goal
    BY <2>1 DEF Goal
  <2>3. ASSUME OrderlyParts(fed), Orderly(input)
        PROVE  Like(session.engine, Goal)
    <3>1. Start \in SessionStates /\ input \in Seq(Lines) /\ batch_size \in Nat
      BY StartIs DEF Starts, CliType
    <3>2. PICK f : IsTrace(f, Start, input, batch_size)
      BY <3>1, TraceExists
    <3>3. session = f[Len(input) + 1]
      BY <2>1, <3>2 DEF OnTrace
    <3>4. file \in {None, Broken} => fed = <<>>
      BY <2>1 DEF CliType
    <3>5. Like(f[Len(input) + 1].engine, Goal)
      BY <2>1, <2>3, <3>2, <3>4, CapturedIsGoal
    <3>6. QED
      BY <3>3, <3>5
  <2>4. QED
    BY <2>1, <2>2, <2>3 DEF FileRight
<1>4. CASE Save
  <2>1. /\ phase = "saving" /\ phase' = "saved" /\ fed' = fed /\ input' = input /\ session' = session
    BY <1>4 DEF Save
  <2>2. Goal' = Goal
    BY <2>1 DEF Goal
  <2>3. QED
    BY <2>1, <2>2 DEF FileRight
<1>5. CASE Exit
  <2>1. /\ phase = "saved" /\ phase' = "done" /\ fed' = Append(fed, input) /\ file' = file
    BY <1>5 DEF Exit
  <2>2. fed \in Seq(Seq(Lines)) /\ input \in Seq(Lines) /\ file = session.engine
    BY <2>1 DEF CliType
  <2>3. OneByOne(Append(fed, input)) = Goal
    BY <2>2, OnePartMore DEF Goal
  <2>4. ASSUME OrderlyParts(Append(fed, input))
        PROVE  Like(file, Goal)
    <3>1. OrderlyParts(fed) /\ Orderly(input)
      BY <2>2, <2>4, OrderlyMore
    <3>2. QED
      BY <2>1, <2>2, <3>1 DEF FileRight
  <2>5. QED
    BY <2>1, <2>3, <2>4 DEF FileRight
<1>6. CASE DieSaving
  <2>1. /\ phase \in {"captured", "saving", "saved"} /\ phase' = "ready"
        /\ file' = file /\ fed' = fed /\ input' = input
    BY <1>6 DEF DieSaving
  <2>2. Goal' = Goal
    BY <2>1 DEF Goal
  <2>3. ASSUME OrderlyParts(fed), Orderly(input), file \notin {None, Broken}
        PROVE  Like(file, OneByOne(fed)) \/ Like(file, Goal)
    <3>1. CASE phase = "captured"
      BY <2>3, <3>1 DEF FileRight
    <3>2. CASE phase = "saving"
      BY <2>3, <3>2 DEF CliType
    <3>3. CASE phase = "saved"
      BY <2>3, <3>3 DEF FileRight, CliType
    <3>4. QED
      BY <2>1, <3>1, <3>2, <3>3
  <2>4. QED
    BY <2>1, <2>2, <2>3 DEF FileRight
<1>7. CASE UNCHANGED clivars
  <2>1. Goal' = Goal
    BY <1>7 DEF Goal, clivars
  <2>2. QED
    BY <1>7, <2>1 DEF FileRight, clivars
<1>8. QED
  BY <1>1, <1>2, <1>3, <1>4, <1>5, <1>6, <1>7 DEF CliNext

\* After any number of processes, batches, deaths in the middle of a part and parts fed
\* twice, the file holds what one engine that was given every line once would hold.
THEOREM CliSavedIsOneByOne == CliSpec => []SavedIsOneByOne
<1>1. FileRight => SavedIsOneByOne
  <2>1. Facts(file) = Facts(OneByOne(fed)) <=> Like(file, OneByOne(fed))
    BY FactsAreLike
  <2>2. QED
    BY <2>1 DEF FileRight, SavedIsOneByOne, OrderlyParts
<1>2. QED
  BY <1>1, CliTypeInit, CliTypeNext, OnTraceInit, OnTraceNext, FileRightInit, FileRightNext, PTL DEF CliSpec

-----------------------------------------------------------------------------
\* Engines with the same facts have the same membership.
LEMMA LikeInside ==
  ASSUME NEW a, NEW b, Like(a, b)
  PROVE  Inside(a.entities) = Inside(b.entities)
<1>1. \A e \in Entities : a.entities[e].presence = b.entities[e].presence
  BY DEF Like
<1>2. QED
  BY <1>1 DEF Inside

\* The way that a part in order lays out has tellings.
LEMMA WayTells ==
  ASSUME CliType, Orderly(input), NEW f, IsTrace(f, Start, input, batch_size)
  PROVE  Tellings(f, Len(input)) /\ f[0] = Start
<1>1. Start \in Starts /\ input \in Seq(Lines) /\ batch_size \in Nat
  BY StartIs DEF CliType
<1>2. Tellings(f, Len(input))
  BY <1>1, TraceTells
<1>3. QED
  BY <1>2 DEF IsTrace

\* What a consumer of stdout knows, phase by phase.
PictureRight ==
  /\ phase = "done" /\ fed # <<>> /\ OrderlyParts(fed) => picture = Inside(file.entities)
  /\ phase = "ready" /\ OrderlyParts(fed) /\ Orderly(input) /\ (file \in {None, Broken} => fed = <<>>) =>
       \A f : IsTrace(f, Start, input, batch_size) => Spared(f, Len(input), picture)
  /\ phase = "running" /\ OrderlyParts(fed) /\ Orderly(input) =>
       \A f : IsTrace(f, Start, input, batch_size) => Knows(f, session.line_no, Len(input), picture)
  /\ phase \in {"captured", "saving", "saved"} /\ OrderlyParts(fed) /\ Orderly(input) =>
       picture = Inside(session.engine.entities)

\* He knows nothing in the initial state, and there is nothing to know.
LEMMA PictureRightInit == CliInit => PictureRight
BY DEF CliInit, PictureRight

\* A part that is fed finds him with the membership that its process starts with.
LEMMA PictureFed ==
  ASSUME CliType, PictureRight, NEW part, Feed(part)
  PROVE  PictureRight'
<1>1. /\ phase = "done" /\ phase' = "ready" /\ UNCHANGED <<batch_size, file, fed, picture>>
  BY DEF Feed
<1>2. Start' = Start
  BY <1>1 DEF Start
<1>3. ASSUME OrderlyParts(fed)
      PROVE  picture = Inside(Start.engine.entities)
  <2>1. CASE fed = <<>>
    <3>1. file = None /\ picture = {}
      BY <1>1, <2>1 DEF CliType
    <3>2. Start.engine = NewEngine
      BY <3>1, StartIs
    <3>3. Inside(NewEngine.entities) = {}
      BY NewEngineType
    <3>4. QED
      BY <3>1, <3>2, <3>3
  <2>2. CASE fed # <<>>
    <3>1. file \notin {None, Broken}
      BY <1>1, <2>2, PlainIsFile DEF CliType
    <3>2. Start.engine.entities = file.entities
      BY <3>1, StartIs
    <3>3. picture = Inside(file.entities)
      BY <1>1, <1>3, <2>2 DEF PictureRight
    <3>4. QED
      BY <3>2, <3>3
  <2>3. QED
    BY <2>1, <2>2
<1>4. ASSUME OrderlyParts(fed), NEW f, f[0] = Start, NEW L
      PROVE  Spared(f, L, picture)
  BY <1>3, <1>4 DEF Spared
<1>5. ASSUME OrderlyParts(fed), NEW f, IsTrace(f, Start, input', batch_size)
      PROVE  Spared(f, Len(input'), picture)
  BY <1>4, <1>5 DEF IsTrace
<1>6. QED
  BY <1>1, <1>2, <1>5 DEF PictureRight

\* A turn tells him what it does.
LEMMA PictureTurn ==
  ASSUME CliType, OnTrace, PictureRight, phase = "running", OrderlyParts(fed), Orderly(input),
         NEW f, IsTrace(f, Start, input, batch_size), NEW n, n = session.line_no + 1
  PROVE  /\ n \in 1 .. Len(input) + 1 /\ Tellings(f, Len(input)) /\ Ahead = f[n]
         /\ Spared(f, Len(input), picture)
         /\ Knows(f, n, Len(input), FoldLeft(SeeLine, picture, Ahead.printed))
<1>1. /\ n \in 1 .. Len(input) + 1 /\ n - 1 = session.line_no
      /\ Ahead = Turn(session, n, input, batch_size)
  BY RunIsTurn
<1>2. session = f[n - 1] /\ f[n] = Turn(f[n - 1], n, input, batch_size)
  BY <1>1 DEF OnTrace, IsTrace
<1>3. Ahead = f[n] /\ Tellings(f, Len(input))
  BY <1>1, <1>2, WayTells
<1>4. Knows(f, n - 1, Len(input), picture)
  BY <1>1 DEF PictureRight
<1>5. Knows(f, n, Len(input), FoldLeft(SeeLine, picture, f[n].printed))
  BY <1>1, <1>3, <1>4, KnowsMore
<1>6. Spared(f, Len(input), picture)
  BY <1>4 DEF Knows
<1>7. QED
  BY <1>1, <1>3, <1>5, <1>6

\* In the end of the input he knows the membership that the snapshot will hold.
LEMMA PictureRun ==
  ASSUME CliType, OnTrace, PictureRight, Run
  PROVE  PictureRight'
<1> DEFINE n == session.line_no + 1
           L == Len(input)
<1>1. /\ phase = "running" /\ session' = Ahead
      /\ picture' = FoldLeft(SeeLine, picture, Ahead.printed)
      /\ phase' = IF session.line_no = Len(input) THEN "captured" ELSE "running"
      /\ UNCHANGED <<batch_size, file, fed, input>>
  BY DEF Run
<1>2. /\ n \in 1 .. L + 1 /\ (session.line_no = L <=> n = L + 1)
      /\ TurnOutcome(session, n, input, Ahead)
      /\ picture \subseteq Entities \X Geometries /\ L \in Nat
  BY <1>1, RunIsTurn DEF CliType
<1>3. Start' = Start
  BY <1>1 DEF Start
<1> HIDE DEF n
<1>4. Ahead.printed \in Seq(Printed) /\ (n <= L => Ahead.line_no = n)
  BY <1>2 DEF TurnOutcome, SessionStates, n
<1>5. picture' \subseteq Entities \X Geometries
  BY <1>1, <1>2, <1>4, FoldStaysPairs
<1>6. ASSUME OrderlyParts(fed), Orderly(input), NEW f, IsTrace(f, Start, input, batch_size)
      PROVE  Tellings(f, L) /\ session' = f[n] /\ Knows(f, n, L, picture')
  BY <1>1, <1>6, PictureTurn DEF n
<1>7. ASSUME phase' = "running"
      PROVE  session'.line_no = n
  BY <1>1, <1>2, <1>4, <1>7
<1>8. ASSUME phase' = "captured", OrderlyParts(fed), Orderly(input)
      PROVE  picture' = Inside(session'.engine.entities)
  <2>1. n = L + 1
    BY <1>1, <1>2, <1>8
  <2>2. Start \in SessionStates /\ input \in Seq(Lines) /\ batch_size \in Nat
    BY StartIs DEF Starts, CliType
  <2>3. PICK f : IsTrace(f, Start, input, batch_size)
    BY <2>2, TraceExists
  <2>4. Tellings(f, L) /\ session' = f[L + 1] /\ Knows(f, L + 1, L, picture')
    BY <1>6, <1>8, <2>1, <2>3
  <2>5. picture' = Inside(f[L + 1].engine.entities)
    BY <1>5, <2>4, KnowsAll
  <2>6. QED
    BY <2>4, <2>5
<1>9. phase' \in {"running", "captured"}
  BY <1>1
<1>10. QED
  BY <1>1, <1>3, <1>6, <1>7, <1>8, <1>9 DEF PictureRight

\* A process that dies in a part leaves him right about the pairs that the part is not about.
LEMMA PictureDieRunning ==
  ASSUME CliType, OnTrace, PictureRight, DieRunning
  PROVE  PictureRight'
<1>1. PICK m \in 0 .. Len(Ahead.printed) :
        /\ phase = "running" /\ picture' = FoldLeft(SeeLine, picture, SubSeq(Ahead.printed, 1, m))
        /\ phase' = "ready" /\ UNCHANGED <<batch_size, file, fed, input>>
  BY DEF DieRunning
<1>2. Start' = Start
  BY <1>1 DEF Start
<1>3. ASSUME OrderlyParts(fed), Orderly(input), NEW f, IsTrace(f, Start, input, batch_size)
      PROVE  Spared(f, Len(input), picture')
  <2> DEFINE n == session.line_no + 1
  <2>1. /\ n \in 1 .. Len(input) + 1 /\ Tellings(f, Len(input)) /\ Ahead = f[n]
        /\ Spared(f, Len(input), picture)
    BY <1>1, <1>3, PictureTurn
  <2> HIDE DEF n
  <2>2. m \in 0 .. Len(f[n].printed) /\ picture' = FoldLeft(SeeLine, picture, SubSeq(f[n].printed, 1, m))
    BY <1>1, <2>1
  <2>3. QED
    BY <2>1, <2>2, SparedPart
<1>4. QED
  BY <1>1, <1>2, <1>3 DEF PictureRight

\* One that dies in or after the save leaves him as right, since the part, done again, ends
\* with the same membership.
LEMMA PictureDieSaving ==
  ASSUME CliType, OnTrace, FileRight, PictureRight, DieSaving
  PROVE  PictureRight'
<1>1. /\ phase \in {"captured", "saving", "saved"} /\ phase' = "ready"
      /\ UNCHANGED <<batch_size, file, fed, input, picture>>
  BY DEF DieSaving
<1>2. Start' = Start
  BY <1>1 DEF Start
<1>3. ASSUME OrderlyParts(fed), Orderly(input), file \in {None, Broken} => fed = <<>>,
             NEW f, IsTrace(f, Start, input, batch_size)
      PROVE  Spared(f, Len(input), picture)
  <2>1. picture = Inside(session.engine.entities) /\ picture \subseteq Entities \X Geometries
    BY <1>1, <1>3 DEF PictureRight, CliType
  <2>2. Tellings(f, Len(input)) /\ f[0] = Start
    BY <1>3, WayTells
  <2>3. Spared(f, Len(input), Inside(f[Len(input) + 1].engine.entities))
    BY <2>1, <2>2, KnowsAll
  <2>4. CASE phase = "captured"
    <3>1. session = f[Len(input) + 1]
      BY <1>3, <2>4 DEF OnTrace
    <3>2. QED
      BY <2>1, <2>3, <3>1
  <2>5. CASE phase = "saving"
    <3>1. file = Broken
      BY <2>5 DEF CliType
    <3>2. Like(f[Len(input) + 1].engine, Goal)
      BY <1>3, <3>1, CapturedIsGoal
    <3>3. Like(session.engine, Goal)
      BY <1>3, <2>5 DEF FileRight
    <3>4. Inside(f[Len(input) + 1].engine.entities) = Inside(session.engine.entities)
      BY <3>2, <3>3, LikeInside
    <3>5. QED
      BY <2>1, <2>3, <3>4
  <2>6. CASE phase = "saved"
    <3>1. file = session.engine /\ file \in Plain
      BY <2>6 DEF CliType, SessionStates
    <3>2. Start.engine.entities = file.entities
      BY <3>1, StartIs, PlainIsFile
    <3>3. QED
      BY <2>1, <2>2, <3>1, <3>2 DEF Spared
  <2>7. QED
    BY <1>1, <2>4, <2>5, <2>6
<1>4. QED
  BY <1>1, <1>2, <1>3 DEF PictureRight

\* He stays right.
LEMMA PictureRightNext == CliType /\ OnTrace /\ FileRight /\ PictureRight /\ [CliNext]_clivars => PictureRight'
<1> SUFFICES ASSUME CliType, OnTrace, FileRight, PictureRight, [CliNext]_clivars PROVE PictureRight'
  OBVIOUS
<1>1. ASSUME NEW part \in Parts, Feed(part)
      PROVE  PictureRight'
  BY <1>1, PictureFed
<1>2. CASE Launch
  <2>1. /\ phase = "ready" /\ phase' = "running" /\ session' = Start
        /\ file \in {None, Broken} => fed = <<>>
        /\ UNCHANGED <<batch_size, file, fed, input, picture>>
    BY <1>2 DEF Launch, Start
  <2>2. Start' = Start /\ Start.line_no = 0
    BY <2>1, StartIs DEF Start, Starts
  <2>3. ASSUME OrderlyParts(fed), Orderly(input), NEW f, IsTrace(f, Start, input, batch_size)
        PROVE  Knows(f, 0, Len(input), picture)
    <3>1. Spared(f, Len(input), picture)
      BY <2>1, <2>3 DEF PictureRight
    <3>2. \A p : ~Told(f, 0, p)
      BY DEF Told
    <3>3. QED
      BY <3>1, <3>2 DEF Knows
  <2>4. QED
    BY <2>1, <2>2, <2>3 DEF PictureRight
<1>3. CASE Run
  BY <1>3, PictureRun
<1>4. CASE Truncate \/ Save
  <2>1. /\ phase \in {"captured", "saving"} /\ phase' \in {"saving", "saved"}
        /\ UNCHANGED <<fed, input, session, picture>>
    BY <1>4 DEF Truncate, Save
  <2>2. QED
    BY <2>1 DEF PictureRight
<1>5. CASE Exit
  <2>1. /\ phase = "saved" /\ phase' = "done" /\ fed' = Append(fed, input) /\ UNCHANGED <<file, picture>>
    BY <1>5 DEF Exit
  <2>2. fed \in Seq(Seq(Lines)) /\ input \in Seq(Lines) /\ file = session.engine
    BY <2>1 DEF CliType
  <2>3. ASSUME OrderlyParts(Append(fed, input))
        PROVE  picture = Inside(file.entities)
    <3>1. OrderlyParts(fed) /\ Orderly(input)
      BY <2>2, <2>3, OrderlyMore
    <3>2. QED
      BY <2>1, <2>2, <3>1 DEF PictureRight
  <2>4. QED
    BY <2>1, <2>3 DEF PictureRight
<1>6. CASE DieRunning
  BY <1>6, PictureDieRunning
<1>7. CASE DieSaving
  BY <1>7, PictureDieSaving
<1>8. CASE UNCHANGED clivars
  <2>1. Start' = Start
    BY <1>8 DEF Start, clivars
  <2>2. QED
    BY <1>8, <2>1 DEF PictureRight, clivars
<1>9. QED
  BY <1>1, <1>2, <1>3, <1>4, <1>5, <1>6, <1>7, <1>8 DEF CliNext

\* Whoever folds the lines on stdout knows the membership in the snapshot whenever a process
\* has ended well, although he has seen parts of outputs that were then done again.
THEOREM CliViewIsSaved == CliSpec => []ViewIsSaved
<1>1. PictureRight => ViewIsSaved
  BY DEF PictureRight, ViewIsSaved, OrderlyParts
<1>2. QED
  BY <1>1, CliTypeInit, CliTypeNext, OnTraceInit, OnTraceNext, FileRightInit, FileRightNext,
     PictureRightInit, PictureRightNext, PTL DEF CliSpec

-----------------------------------------------------------------------------
\* An error line that names a line; the others name an update.
NamesLine(error) == DOMAIN error = {"line"}

\* The error lines that name a line name these, up to line n, once each and in order.
NamesThese(errors, n, faults) ==
  /\ \A m : (\E k \in DOMAIN errors : NamesLine(errors[k]) /\ errors[k].line = m) <=> m \in 1 .. n /\ m \in faults
  /\ \A j, k \in DOMAIN errors :
       NamesLine(errors[j]) /\ NamesLine(errors[k]) /\ j < k => errors[j].line < errors[k].line

\* One error line more, for one line more.
LEMMA OneMoreNamed ==
  ASSUME NEW errors \in Seq([line : Nat] \union Refusals), NEW n \in Nat, NEW faults,
         NamesThese(errors, n, faults), n + 1 \in faults
  PROVE  NamesThese(Append(errors, [line |-> n + 1]), n + 1, faults)
<1> DEFINE N == Len(errors)
           new == Append(errors, [line |-> n + 1])
<1>1. /\ N \in Nat /\ DOMAIN errors = 1 .. N /\ DOMAIN new = 1 .. N + 1
      /\ new[N + 1] = [line |-> n + 1] /\ \A k \in 1 .. N : new[k] = errors[k]
  OBVIOUS
<1>2. NamesLine([line |-> n + 1]) /\ [line |-> n + 1].line = n + 1
  BY DEF NamesLine
<1> DEFINE last == [line |-> n + 1]
<1> HIDE DEF N, new, last
<1>3. /\ \A k \in 1 .. N + 1 : k = N + 1 \/ k \in 1 .. N
      /\ N + 1 \in 1 .. N + 1 /\ \A k \in 1 .. N : k \in 1 .. N + 1
      /\ \A m : m \in 1 .. n + 1 <=> m \in 1 .. n \/ m = n + 1
  BY <1>1
<1>4. NamesLine(new[N + 1]) /\ new[N + 1].line = n + 1
  BY <1>1, <1>2 DEF last
<1>5. ASSUME NEW m
      PROVE  (\E k \in 1 .. N + 1 : NamesLine(new[k]) /\ new[k].line = m) <=> m \in 1 .. n + 1 /\ m \in faults
  <2>1. (\E k \in 1 .. N : NamesLine(errors[k]) /\ errors[k].line = m) <=> m \in 1 .. n /\ m \in faults
    BY <1>1 DEF NamesThese
  <2>2. (\E k \in 1 .. N + 1 : NamesLine(new[k]) /\ new[k].line = m) <=>
          (\E k \in 1 .. N : NamesLine(errors[k]) /\ errors[k].line = m) \/ m = n + 1
    BY <1>1, <1>3, <1>4
  <2>3. QED
    BY <1>3, <2>1, <2>2
<1>6. ASSUME NEW j \in 1 .. N + 1, NEW k \in 1 .. N + 1, NamesLine(new[j]), NamesLine(new[k]), j < k
      PROVE  new[j].line < new[k].line
  <2>1. j \in 1 .. N /\ new[j] = errors[j]
    BY <1>1, <1>6
  <2>2. CASE k = N + 1
    <3>1. \E i \in DOMAIN errors : NamesLine(errors[i]) /\ errors[i].line = new[j].line
      BY <1>1, <1>6, <2>1
    <3>2. new[j].line \in 1 .. n
      BY <3>1 DEF NamesThese
    <3>3. QED
      BY <1>4, <2>2, <3>2
  <2>3. CASE k # N + 1
    <3>1. k \in 1 .. N /\ new[k] = errors[k]
      BY <1>1, <1>3, <2>3
    <3>2. QED
      BY <1>1, <1>6, <2>1, <3>1 DEF NamesThese
  <2>4. QED
    BY <2>2, <2>3
<1>7. NamesThese(new, n + 1, faults)
  BY <1>1, <1>5, <1>6 DEF NamesThese
<1>8. QED
  BY <1>7 DEF new

\* A line that is not at fault adds nothing.
LEMMA NoneMoreNamed ==
  ASSUME NEW errors, NEW n \in Nat, NEW faults, NamesThese(errors, n, faults), n + 1 \notin faults
  PROVE  NamesThese(errors, n + 1, faults)
<1>1. \A m : m \in 1 .. n + 1 /\ m \in faults <=> m \in 1 .. n /\ m \in faults
  OBVIOUS
<1>2. QED
  BY <1>1 DEF NamesThese

\* Nor do refused updates.
LEMMA RefusalsNameNone ==
  ASSUME NEW errors \in Seq([line : Nat] \union Refusals), NEW more \in Seq(Refusals), NEW n, NEW faults,
         NamesThese(errors, n, faults)
  PROVE  NamesThese(errors \o more, n, faults)
<1> DEFINE N == Len(errors)
           M == Len(more)
           new == errors \o more
<1>1. /\ N \in Nat /\ M \in Nat /\ DOMAIN errors = 1 .. N /\ DOMAIN new = 1 .. N + M
      /\ \A k \in 1 .. N : new[k] = errors[k]
      /\ \A k \in N + 1 .. N + M : new[k] = more[k - N] /\ k - N \in 1 .. M
  OBVIOUS
<1>2. \A k \in 1 .. M : more[k] \in Refusals
  BY SeqElements
<1>3. \A r \in Refusals : ~NamesLine(r)
  BY DEF Refusals, NamesLine
<1> HIDE DEF N, M, new
<1>4. \A k \in 1 .. N + M : k \in 1 .. N \/ k \in N + 1 .. N + M
  BY <1>1
<1>5. \A k \in 1 .. N : k \in 1 .. N + M
  BY <1>1
<1>6. ASSUME NEW k \in 1 .. N + M, NamesLine(new[k])
      PROVE  k \in 1 .. N /\ new[k] = errors[k]
  BY <1>1, <1>2, <1>3, <1>4, <1>6
<1>7. ASSUME NEW m
      PROVE  (\E k \in 1 .. N + M : NamesLine(new[k]) /\ new[k].line = m) <=>
               (\E k \in 1 .. N : NamesLine(errors[k]) /\ errors[k].line = m)
  BY <1>1, <1>5, <1>6
<1>8. NamesThese(new, n, faults)
  BY <1>1, <1>6, <1>7 DEF NamesThese
<1>9. QED
  BY <1>8 DEF new

\* Line k registers an area for this geometry.
Registers(k, g) == input[k].type = "register" /\ input[k].geometry = g /\ input[k].area # None

\* A geometry is registered in the restored engine, or by one of the first n lines.
RegisteredBy(n, g) ==
  \/ session.restored /\ file.area[g] # None
  \/ \E k \in 1 .. n : Registers(k, g)

\* The lines at fault.
Faults == {n \in 1 .. Len(input) : AtFault(n)}

\* A process has the geometries of the lines it has read, and has named those at fault.
ErrorsRight ==
  phase = "running" =>
    /\ \A g \in Geometries : session.engine.area[g] # None <=> RegisteredBy(session.line_no, g)
    /\ NamesThese(session.errors, session.line_no, Faults)

\* Nothing runs in the initial state.
LEMMA ErrorsRightInit == CliInit => ErrorsRight
BY DEF CliInit, ErrorsRight

\* A process begins with the geometries in the file and no errors.
LEMMA ErrorsLaunched ==
  ASSUME CliType, Launch
  PROVE  ErrorsRight'
<1>1. session' = Start /\ UNCHANGED <<file, input>>
  BY DEF Launch, Start
<1>2. /\ Start.line_no = 0 /\ Start.errors = <<>> /\ Start.engine \in Plain
      /\ file \in {None, Broken} => Start.engine = NewEngine /\ ~Start.restored
      /\ file \notin {None, Broken} => Start.restored /\ Start.engine.area = file.area
  BY StartIs DEF Starts
<1>3. \A g \in Geometries : NewEngine.area[g] = None
  BY DEF NewEngine
<1>4. ASSUME NEW g \in Geometries
      PROVE  session'.engine.area[g] # None <=> RegisteredBy(session.line_no, g)'
  <2>1. session'.engine.area[g] # None <=> session'.restored /\ file.area[g] # None
    BY <1>1, <1>2, <1>3
  <2>2. ~\E k \in 1 .. 0 : Registers(k, g)'
    OBVIOUS
  <2>3. QED
    BY <1>1, <1>2, <2>1, <2>2 DEF RegisteredBy
<1>5. \A faults : NamesThese(<<>>, 0, faults)
  BY DEF NamesThese
<1>6. NamesThese(session.errors, session.line_no, Faults)'
  BY <1>1, <1>2, <1>5
<1>7. QED
  BY <1>4, <1>6 DEF ErrorsRight

\* A line that is read adds its geometry, and is named if it is at fault.
LEMMA ErrorsRead ==
  ASSUME CliType, ErrorsRight, Run, session.line_no # Len(input)
  PROVE  ErrorsRight'
<1> DEFINE L == Len(input)
           n == session.line_no + 1
           line == input[n]
<1>1. /\ phase = "running" /\ session' = Ahead /\ UNCHANGED <<file, input>>
  BY DEF Run
<1>2. /\ n \in 1 .. L /\ session.line_no \in Nat /\ session.line_no = n - 1
      /\ TurnOutcome(session, n, input, Ahead)
  <2>1. n \in 1 .. L + 1 /\ n - 1 = session.line_no /\ (session.line_no = L <=> n = L + 1)
        /\ TurnOutcome(session, n, input, Ahead)
    BY <1>1, RunIsTurn
  <2>2. session.line_no \in Nat /\ L \in Nat
    BY <1>1 DEF CliType, SessionStates
  <2>3. QED
    BY <2>1, <2>2
<1>3. /\ session \in SessionStates /\ Ahead \in SessionStates
      /\ Ahead.restored = session.restored /\ Ahead.line_no = n
  BY <1>1, <1>2 DEF CliType, TurnOutcome
<1>4. line \in Lines /\ input \in Seq(Lines) /\ n \in Nat \ {0}
  BY <1>2, SeqElements DEF CliType
<1>5. session.engine \in Plain /\ session.errors \in Seq([line : Nat] \union Refusals)
  BY <1>3 DEF SessionStates
<1>6. /\ \A g \in Geometries : session.engine.area[g] # None <=> RegisteredBy(n - 1, g)
      /\ NamesThese(session.errors, n - 1, Faults)
  BY <1>1, <1>2 DEF ErrorsRight
<1>7. Faults' = Faults
  BY <1>1, <1>3 DEF Faults, AtFault
<1>8. \A k, g : RegisteredBy(k, g)' <=> RegisteredBy(k, g)
  BY <1>1, <1>3 DEF RegisteredBy, Registers
<1>9. \A g : RegisteredBy(n, g) <=> RegisteredBy(n - 1, g) \/ Registers(n, g)
  <2>1. \A k \in 1 .. n : k = n \/ k \in 1 .. n - 1
    BY <1>2
  <2>2. n \in 1 .. n /\ \A k \in 1 .. n - 1 : k \in 1 .. n
    BY <1>2
  <2>3. QED
    BY <2>1, <2>2 DEF RegisteredBy
<1>10. n \in Faults <=>
         \/ line.type = "garbage"
         \/ line.type = "register" /\ (line.area = None \/ RegisteredBy(n - 1, line.geometry))
  BY <1>2 DEF Faults, AtFault, RegisteredBy, Registers
<1> DEFINE Good(t) == /\ \A g \in Geometries : t.engine.area[g] # None <=> RegisteredBy(n, g)
                      /\ NamesThese(t.errors, n, Faults)
<1>11. ASSUME Notes(session, n, input, Ahead)
       PROVE  Good(Ahead)
  <2>1. /\ line.type # "update"
        /\ Ahead.engine = IF line.type = "register"
                            THEN Register(session.engine, line.geometry, line.area, NoDwell)
                            ELSE session.engine
        /\ Ahead.errors = IF line.type = "garbage" \/ (line.type = "register" /\ Ahead.engine = session.engine)
                            THEN Append(session.errors, [line |-> session.line_no + 1])
                            ELSE session.errors
    BY <1>11 DEF Notes
  <2> HIDE DEF line
  <2>2. CASE line.type = "register"
    <3>1. line.geometry \in Geometries /\ line.area \in Areas \union {None}
      BY <1>4, <2>2, LineType
    <3>2. Registered(session.engine, line.geometry, line.area, Ahead.engine)
      BY <1>5, <2>1, <2>2, <3>1, RegisteredIs
    <3>3. \A h \in Geometries : Ahead.engine.area[h] = IF h = line.geometry /\ session.engine.area[h] = None
                                                         THEN line.area ELSE session.engine.area[h]
      BY <3>2 DEF Registered
    <3>4. \A h \in Geometries : Registers(n, h) <=> h = line.geometry /\ line.area # None
      BY <2>2 DEF Registers, line
    <3>5. \A h \in Geometries : Ahead.engine.area[h] # None <=> RegisteredBy(n, h)
      BY <1>6, <1>9, <3>3, <3>4
    <3>6. Ahead.engine = session.engine <=> n \in Faults
      BY <1>6, <1>10, <2>2, <3>1, <3>2 DEF Registered
    <3>7. NamesThese(Ahead.errors, n, Faults)
      <4>1. CASE n \in Faults
        <5>1. Ahead.errors = Append(session.errors, [line |-> n - 1 + 1])
          BY <1>2, <2>1, <2>2, <3>6, <4>1
        <5>2. n - 1 \in Nat /\ n - 1 + 1 = n
          BY <1>2
        <5>3. NamesThese(Append(session.errors, [line |-> n - 1 + 1]), n - 1 + 1, Faults)
          BY <1>5, <1>6, <4>1, <5>2, OneMoreNamed
        <5>4. QED
          BY <5>1, <5>2, <5>3
      <4>2. CASE n \notin Faults
        <5>1. Ahead.errors = session.errors
          BY <2>1, <2>2, <3>6, <4>2
        <5>2. n - 1 \in Nat /\ n - 1 + 1 = n
          BY <1>2
        <5>3. NamesThese(session.errors, n - 1 + 1, Faults)
          BY <1>6, <4>2, <5>2, NoneMoreNamed
        <5>4. QED
          BY <5>1, <5>2, <5>3
      <4>3. QED
        BY <4>1, <4>2
    <3>8. QED
      BY <3>5, <3>7
  <2>3. CASE line.type # "register"
    <3>1. Ahead.engine = session.engine /\ \A g : ~Registers(n, g)
      BY <2>1, <2>3 DEF Registers, line
    <3>2. \A g \in Geometries : Ahead.engine.area[g] # None <=> RegisteredBy(n, g)
      BY <1>6, <1>9, <3>1
    <3>3. CASE line.type = "garbage"
      <4>1. n \in Faults /\ Ahead.errors = Append(session.errors, [line |-> n - 1 + 1])
        BY <1>2, <1>10, <2>1, <3>3
      <4>2. n - 1 \in Nat /\ n - 1 + 1 = n
        BY <1>2
      <4>3. NamesThese(Append(session.errors, [line |-> n - 1 + 1]), n - 1 + 1, Faults)
        BY <1>5, <1>6, <4>1, <4>2, OneMoreNamed
      <4>4. QED
        BY <3>2, <4>1, <4>2, <4>3
    <3>4. CASE line.type # "garbage"
      <4>1. n \notin Faults /\ Ahead.errors = session.errors
        BY <1>10, <2>1, <2>3, <3>4
      <4>2. n - 1 \in Nat /\ n - 1 + 1 = n
        BY <1>2
      <4>3. NamesThese(session.errors, n - 1 + 1, Faults)
        BY <1>6, <4>1, <4>2, NoneMoreNamed
      <4>4. QED
        BY <3>2, <4>1, <4>2, <4>3
    <3>5. QED
      BY <3>3, <3>4
  <2>4. QED
    BY <2>2, <2>3
<1>12. ASSUME line.type = "update"
      PROVE  /\ \A g \in Geometries : session.engine.area[g] # None <=> RegisteredBy(n, g)
             /\ NamesThese(session.errors, n, Faults)
  <2>1. n \notin Faults /\ \A g : ~Registers(n, g)
    BY <1>10, <1>12 DEF Registers
  <2>2. n - 1 \in Nat /\ n - 1 + 1 = n
    BY <1>2
  <2>3. NamesThese(session.errors, n - 1 + 1, Faults)
    BY <1>6, <2>1, <2>2, NoneMoreNamed
  <2>4. QED
    BY <1>6, <1>9, <2>1, <2>2, <2>3
<1>13. ASSUME line.type = "update", Waits(session, n, input, Ahead)
       PROVE  Good(Ahead)
  BY <1>12, <1>13 DEF Waits
<1>14. ASSUME line.type = "update", Flushes(session, n, input, Ahead)
       PROVE  Good(Ahead)
  <2> DEFINE P == Buffered(session, n, input)
             result == ProcessBatch(session.engine, P, <<>>)
  <2>1. Ahead.engine = result.engine /\ Ahead.errors = session.errors \o result.errors
    BY <1>14, Zenon DEF Flushes
  <2>2. P \in Seq(Updates)
    BY <1>3, <1>4, BufferedType
  <2>3. Len(P) \in Nat /\ P \in [1 .. Len(P) -> Updates]
    BY <2>2, SeqIsFunction
  <2>4. session.engine \in EngineStates(AnyRules, AnySequences) /\ WellFormed(session.engine.entities)
    BY <1>5 DEF Plain
  <2> HIDE DEF P
  <2>5. SameSetup(session.engine, result.engine)
    BY <2>3, <2>4, CliNumbers, BatchKeepsSetup
  <2>6. result.errors \in Seq(Refusals)
    BY <2>3, <2>4, CliNumbers, BatchReturns
  <2> HIDE DEF result
  <2>7. NamesThese(session.errors \o result.errors, n, Faults)
    BY <1>5, <1>12, <1>14, <2>6, RefusalsNameNone
  <2>8. QED
    BY <1>12, <1>14, <2>1, <2>5, <2>7 DEF SameSetup
<1>15. n <= Len(input)
  BY <1>2
<1> HIDE DEF Good
<1>16. Good(Ahead)
  BY <1>2, <1>11, <1>13, <1>14, <1>15 DEF TurnOutcome
<1>17. QED
  BY <1>1, <1>3, <1>7, <1>8, <1>16 DEF ErrorsRight, Good

\* It stays so.
LEMMA ErrorsRightNext == CliType /\ ErrorsRight /\ [CliNext]_clivars => ErrorsRight'
<1> SUFFICES ASSUME CliType, ErrorsRight, [CliNext]_clivars PROVE ErrorsRight'
  OBVIOUS
<1>1. CASE Launch
  BY <1>1, ErrorsLaunched
<1>2. CASE Run /\ session.line_no # Len(input)
  BY <1>2, ErrorsRead
<1>3. CASE \/ \E part \in Parts : Feed(part)
           \/ Truncate \/ Save \/ Exit \/ DieRunning \/ DieSaving
           \/ Run /\ session.line_no = Len(input)
  <2>1. phase' # "running"
    BY <1>3 DEF Feed, Run, Truncate, Save, Exit, DieRunning, DieSaving
  <2>2. QED
    BY <2>1 DEF ErrorsRight
<1>4. CASE UNCHANGED clivars
  <2>1. Faults' = Faults /\ \A n, g : RegisteredBy(n, g)' <=> RegisteredBy(n, g)
    BY <1>4 DEF clivars, Faults, AtFault, RegisteredBy, Registers
  <2>2. QED
    BY <1>4, <2>1 DEF ErrorsRight, clivars
<1>5. QED
  BY <1>1, <1>2, <1>3, <1>4 DEF CliNext

\* The error lines that name a line name exactly the lines at fault, once each and in order,
\* whatever the batches are and whatever the restored engine holds.
THEOREM CliErrorsNameLines == CliSpec => []ErrorsNameTheirLines
<1>1. CliType /\ ErrorsRight => ErrorsNameTheirLines
  <2> SUFFICES ASSUME CliType, ErrorsRight, phase = "running" PROVE ErrorsNameTheirLines
    BY DEF ErrorsNameTheirLines
  <2> DEFINE errors == session.errors
             n == session.line_no
             named == {k \in DOMAIN errors : DOMAIN errors[k] = {"line"}}
  <2>1. NamesThese(errors, n, Faults) /\ n <= Len(input) /\ n \in Nat /\ Len(input) \in Nat
    BY DEF ErrorsRight, CliType, SessionStates
  <2>2. \A k : k \in named <=> k \in DOMAIN errors /\ NamesLine(errors[k])
    BY DEF NamesLine
  <2>3. \A m \in 1 .. n : m \in Faults <=> AtFault(m)
    BY <2>1 DEF Faults
  <2> HIDE DEF errors, n, named
  <2>4. \A m : m \in {errors[k].line : k \in named} <=> m \in {i \in 1 .. n : AtFault(i)}
    BY <2>1, <2>2, <2>3 DEF NamesThese
  <2>5. {errors[k].line : k \in named} = {i \in 1 .. n : AtFault(i)}
    BY <2>4
  <2>6. \A j, k \in named : j < k => errors[j].line < errors[k].line
    BY <2>1, <2>2 DEF NamesThese
  <2>7. QED
    BY <2>5, <2>6 DEF ErrorsNameTheirLines, errors, n, named
<1>2. QED
  BY <1>1, CliTypeInit, CliTypeNext, ErrorsRightInit, ErrorsRightNext, PTL DEF CliSpec
=============================================================================
