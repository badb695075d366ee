# Verification of geo-stream

TLA+ models of geo-stream, an engine that turns location updates into spatial
events, with the TLC runs that check them on small instances and TLAPS proofs of
the parts that hold for every instance. Paths are relative to the repository.

## The system

| part | state | operations | talks to |
|---|---|---|---|
| membership and dwell, `crates/state` | per entity and geometry: the logical side and two pending times | `zone_membership_with_dwell`, `circle_membership_with_dwell` on every update | called by the engine's spatial rules |
| spatial index, `crates/spatial` | zones and circles in two R-trees | `try_push_zone`, `try_push_circle`, membership of a point | called by the engine |
| sequence rules, `crates/engine` | per rule and entity: current step, start of the window | `fire` on every accepted update | fed with the events of the update |
| configurable rules, `crates/engine` | none | `fire` | the same events, plus speed and heading |
| engine, `crates/engine` | index, dwell maps, rules, history size, a state store | registrations, `add_rule`, `add_sequence`, `process_event`, `process_batch`, `snapshot`, `restore_from_snapshot`, queries | store (calls that may fail), adapters |
| state stores, `crates/state`, `crates/adapters/state-redis` | entity states, in memory or in Redis | `get`, `set`, `remove`, `all_entities` | Redis, possibly shared by engines |
| snapshots, `crates/engine` | one JSON file | `save`, `load` | file system |
| stdin/stdout adapter, `crates/adapters/stdin-stdout` | buffered updates, a line counter | `run`, `flush_batch` | engine, reader, two writers |
| command line, `crates/cli` | none of its own | `main`: restore, `run`, save | the adapter, the snapshot file, whoever starts it again |
| Node.js binding and TypeScript wrapper | the native engine | `ingest`, registrations, `defineRule`, `defineSequence`, queries | engine |
| `GeoEventEmitter` | listeners | `ingest` emits each event | listeners (synchronous callbacks) |
| `GeoStreamKafka` | none of its own | `start`, `stop`, one callback per message | Kafka consumer and producer, engine |
| `GeoStreamRedis` | `lastId`, `running`, one loop per `start()` | `start`, `stop`, the poll loop | Redis Streams, engine |

`geo-stream-redis/src` is a copy of the TypeScript sources of `geo-stream/src`.

What is hard here: one engine is sequential, but its bookkeeping is long-lived and
must survive bounces, boundary times, late and equal timestamps, failing store
calls in the middle of an update, and restarts; a batch is sorted twice; a Redis
store may serve several engines without a lock; the stream adapters interleave
their loops with `stop()`, with new `start()` calls, and with failing or timed-out
requests. `PROJECT.json` lists these hazards at the lines where they bite, with
the properties that watch them. What makes each part correct is:

* dwell: a transition is reported neither early nor late with respect to the
  updates seen;
* sequences: a completion stands for real visits, in order, in the window;
* engine: the events are exactly the changes of the stored membership; a failed call
  can be made again; time does not go back;
* batches: order and company of the updates do not matter;
* stores: events of all engines together describe the store;
* Redis adapter: each entry once, in order, no event lost silently, `stop()` works;
* Kafka adapter: delivery at least once is as good as once to the engine, a consumer
  of the output is wrong only about what did not get through, no message is stuck;
* command line: batches, deaths and parts fed twice leave no trace in what is saved,
  and a reader of stdout knows what is saved;
* spatial index: the boxes of the R-trees hide nothing, and a rebuilt index answers
  as the first one did;
* binding: what an application reads after a call is what it sent, and the events
  it got explain the difference between two queries.

## Modules

Dependencies, from the bottom:

```
DwellOps ── Dwell ── MCDwell                        Debounce (abstract, refined by Dwell)
   │          └── RuleProofs (Dwell and SequenceRule)
   └ SequenceOps ── SequenceRule ── MCSequence
        └ EngineOps ── Engine ── EngineMembership ── EngineTrail
              │           └── EngineSequences        └── EngineProofs (all four)
              ├ BatchOps ── Batch ─────────┬── BatchProofs (Batch and Cli)
              │     ├ StdinStdout ── Cli ──┘
              │     └ Binding (an instance of SpatialIndex) ── BindingProofs
              ├ KafkaAdapter ── KafkaProofs
              ├ SharedStore ── SharedStoreProofs
              └ EngineOpsProofs (lemmas, used by the five modules of proofs above it)
RedisStreams ── RedisStreamsProofs
```

Every run has a module `MC...` with its instance, named in `PROJECT.json`.

* **DwellOps** is `membership_with_dwell_impl` for one geometry id: the code's loop
  treats ids independently, so `DwellStep` on the record of one id (`inside`,
  `enter_pending`, `exit_pending`) is all of it. A missing threshold is 0, as
  `unwrap_or(0)` makes it. **Dwell** lets a geometry be registered at any moment and
  updates come at any admissible time (`DwellInit`, `DwellNext`, `DwellSpec`), and keeps
  two history variables: the side of the last update (`phys`) and the first update of
  its run (`since`). **Debounce** states the promise without pending maps;
  `ImplementsDebounce` is the refinement.
* **SequenceOps** is `SequenceRule::fire`; **SequenceRule** runs it for one entity, with
  the visits since the last completion as history and the reset that a restart is.
* **EngineOps** is `struct Engine` as a record and its methods as operators on it:
  `Register`, `Accepts`, `Motion`, `Remember`, `Advance` (both spatial rules),
  `SpatialEvents` (with `enrich`), `Fires`, `FireSequences`, `ProcessEvent`,
  `Restored`. `ProcessEvent` takes the way the store fails the call, if it does
  (`StoreFaults`): a `get`, a `set` that is not applied, or a `set` that is applied
  with its reply lost (`lost`), as it can be in Redis. It returns the engine, the events
  and the error, in the code's order: sequence progress has already moved when `set`
  fails. `Stores` says whether the new state of the entity is in the store afterwards,
  `Untold` which transitions a lost reply keeps from the caller. Its sets `EntityStates`,
  `EngineStates`, `Legs` and `RuleFilters` are the types of that record;
  `About`, `Heard` and `Inside` are how a consumer folds events into pairs of entity
  and geometry, and the pairs the store holds.
* **Engine** makes an action of each call. **EngineMembership** adds a consumer that
  folds the events into a picture of who is where, and `doubt`, the pairs whose latest
  transition was in a call that failed with its write applied; **EngineTrail** adds
  the full list of the samples that were written, **EngineSequences** adds what the
  caller saw of each rule, and `RuleMachine(i, rule, e)` is the instance of
  SequenceRule that rule `i` is for entity `e`. These modules add the bound on the
  updates sent (`sent`, `tries`).
* **BatchOps** and **Batch** are `process_batch`: the stable sort of the updates, the
  calls with errors collected, the sort of the events by `event_sort_key`. `broken`
  says which calls of a batch the store fails, and how; the calls after them go on. A
  sort is `SortedBy`: the n-th of a set is the one with n - 1 others before it. `See` is
  what a consumer makes of one event, `NoTies` that no two updates of an entity have one
  time; `Untied` and `NoneLost` are about the calls of one entity.
* **SharedStore** splits `process_event` at its two store calls, for several engines
  over one Redis, and makes the delivery of the events a step of its own: a call is
  `idle`, has `read` the entity, or has `written` it and holds its events. A write can
  fail before or after Redis has applied it; a crash loses the registrations and
  the call under way, its events included.
* **RedisStreams** is `GeoStreamRedis`: every loop is at an XREAD (`reading`), holds its
  answer (`replied`), or awaits an XADD (`adding`); what runs between two awaits is
  one action, since JavaScript does not interleave it. A rejected XADD may have been
  applied. `StartIds` is the option `startId`; `since` remembers the id before the first entry that was received,
  and `taken` the ids taken from replies, of which the engine is handed those that
  can be parsed (`Ingested`).
* **KafkaAdapter** is `GeoStreamKafka` with the engine behind it, in memory or in
  Redis. `EachMessage` is the handler up to `producer.send`, or to its end if there
  is nothing to send; `Sent` and `SendRejected` are the two ways that promise
  settles; `sending` is empty between messages. Over Redis the store may fail `Ingest`,
  which drops the error: the message is passed without events, though the write may
  have been applied. `doubt` holds the pairs of entity and geometry whose last event
  may not have got through.
* **StdinStdout** is `run` and `flush_batch` as operators on a record: a line in, the
  lines printed and the errors out. **Cli** is `main` over it, started again and again
  on one snapshot file. `DieRunning` ends a process inside `run`, after any part of
  what it was about to print; `DieSaving` ends it before, inside or after
  `std::fs::write`, which is two actions, `Truncate` and `Save`.
* **SpatialIndex** is `NaiveSpatialIndex`: vectors, and for each a set of boxes with
  places in the vector, which is all the code uses of an R-tree. **Binding** is
  `GeoEngineNode` over it: `U64` and `I64` are the casts of `tMs` and of thresholds,
  `FilterFrom` and `KindFrom` the parsing of rule configurations, `EventDto` the event
  a JavaScript program sees; the queries are operators, since they change nothing.
  `newest` and `fresh` are history: the newest update sent of each entity, and who was
  updated since a geometry was registered.

Operators named in a comment as a mutant are plausible bugs: replacing the
definition after them must break the property `PROJECT.json` pairs them with.

### Abstractions

Points lie on a line. In the engine's modules an area is a set of points and a
circle is another such set, so headings are 0, 90 and 270 and a speed is a distance
over a time, compared without division. SpatialIndex keeps shapes: a polygon is its
cut with the line y = 0, with holes, a circle may have its center off the line, and
boxes are cut likewise; the ends of a cut tell a closed box, an open interior and a
closed disk apart, as `geo` (external) does in the plane. Floating-point rounding
is not modelled.

Ids and names are numbers in the order of their strings where order matters, in
BatchOps and what extends it. Rule payloads (`data`) and error texts are left out;
an error line is the number of the line it names or the update it is about. JSON is
data: what does not parse is a line or message of its own kind. Entries of a Redis
stream are reduced to the number of events the engine makes of them, or
unparsable. Custom pipelines (`Engine::with_rules`) are not modelled: the rules are
the default ones. Times are small naturals, except in Binding, where they wrap
as `i64` and `u64` do (`Half` is 2^63) and an area is any set of points.

Some behaviour is not in this repository and is modelled from how its code uses it:

* A Kafka consumer goes back to a message whose handler rejected, at most as far as
  to the offset committed last, commits now and then what is done, and begins at
  the committed offset in a new process, or behind the last message if there is
  none (`fromBeginning: false`).
* Redis resolves `$` when an XREAD reaches it.
* The supervisor in Cli feeds the next part of a stream after an exit with status
  0 and the same part after anything else. It gives `--restore-from` when there is
  a snapshot, and starts from nothing only as long as no part has ended well.

Types are checked by runs where other invariants rest on them (`dwell`, `sequence`,
`engine`), and proved, as part of an inductive invariant, in every module
of proofs about a state machine.

## Runs

| run | instance | what it shows |
|---|---|---|
| `dwell` | times 0..5, thresholds 0, 1, 3 inside and 0, 2 outside | pending maps are exact, nothing early, nothing overdue, and Debounce is implemented |
| `sequence` | steps a, b, a, window 2, times 0..4, five visits since a completion | completions and progress stand for real visits; an undisturbed visit always completes, from any point and again after a completion |
| `engine` | two entities (symmetric), a zone and a circle of one id, with and without dwell, three kinds of rule, history of two, times 0..2, three updates, store calls failing in every way | the folded events are the stored membership but for what is in doubt; a retry ends where the failed call would have; history and last sample are exact; filters judge the last leg; a rule fires once per transition; time moves forward; every entity and geometry is a Dwell machine |
| `engine_sequences` | two entities (symmetric), a zone and a circle, two sequence rules, a custom event named like a step | every rule and entity is a SequenceRule machine fed by exactly the events given to the caller |
| `sequence_store_failure` | one entity, `set` may fail | fails: see below |
| `batch` | three updates in up to three batches, two entities, with and without dwell, one failing call per batch, in every way | only late updates are refused; order and company do not matter; the sorted events fold to the membership |
| `shared_store` | two engines, each entity routed to one of them, four updates, failing writes, crashes | the events of all engines tell the store but for what is in doubt; no crash separates a position from its transitions |
| `redis` | two loops one after the other, four entries of 0 or 2 events or unparsable, XREAD COUNT 2, one rejected call, applied or not, from `$` or from 0 | each entry once and in order, every event accounted for, everything received or behind it added in the end |
| `redis_restart` | two loops, the second `start()` at any time, two entries | fails: see below |
| `kafka` | a zone and a circle with an exit threshold, three messages, two rejected sends, failed store calls or ended processes, with and without Redis | whoever folds the output is wrong only about what is in doubt; redelivery tells nothing; everything is passed |
| `cli` | two parts of up to two updates, registrations before, after or in the other part, batch sizes 0, 1, 2, deaths anywhere | what is saved is what one engine without batches or deaths would have; a reader of stdout knows it; error lines name the lines at fault |
| `binding` | two-bit times, two zones (one with a hole), circles off the line, rings too short, duplicate ids, three updates, of four there are, in any split into calls | the index is exact and can be rebuilt; state, membership and proximity queries are exact; events explain the queries; rules fire as configured |

Bounds. A dwell wait needs its first update, a bounce, and updates on each side of the
threshold: times up to 5 with thresholds up to 3 have them all. In the engine runs
three updates are a first one, a wait or a failed call, and the transition or retry
that comes of it, for one entity, or an interleaving of two; a fourth adds nothing TLC
can finish in minutes, and the theorems have no such bound. The run `engine` has no
sequence rules, which cost it most of its states; `engine_sequences` has them. Rules
are bounded by one of each kind, in `binding` by one of either (`MaxRules`), since
rules do not see each other. In `cli` two parts (`MaxParts`) are enough for a snapshot
to be written, restored and written again, and three updates for a full and an
incomplete batch of two. In `kafka` two troubles are any two of a rejected send, a
failed store call and an end, and three messages are one before, one at and one behind
it. In `binding` the times -1 and 1 are on both sides of the wrap, and three updates
are refused, equal and newer ones in one call or several. `MaxUpdates`, `MaxVisits`,
`MaxEntries`, `MaxFailures`, `MaxBroken`, `MaxMessages`, `MaxTrouble`, `MaxParts`,
`MaxFed` and `MaxRules` bound what would be unbounded. The symmetry sets are the
entities, which no operator orders there. Deadlock is not checked in runs that stop at
such a bound.

Fairness is used in two runs. In `redis` each loop's answer, resumption and
successful XADD are weakly fair: Redis answers a blocking XREAD within `blockMs`,
and the event loop runs a settled promise. In `kafka` the consumer goes on to the
next message, the broker acknowledges a send that is not rejected for ever, and
whoever runs the process starts it again; the first of these is stated with
`Deliverable`, which says when `EachMessage` is enabled, so that TLC need not find
out at every state. Failures, ends, commits, `start()` of Redis, `stop()` and writes
are not fair. Nothing makes the engine act by itself, so it has no liveness
property: an overdue dwell is noticed by the next update, which is what
`NothingOverdue` says.

Three constants stand for what the application must do, and each is needed. What goes
wrong without them is a hazard no passing run covers, and `PROJECT.json` lists it so:

* `Route` (SharedStore): each entity's updates go to one engine. With an entity sent
  to two engines, `ToldIsStored` fails.
* `WaitsForZones` (SharedStore): registering the zones after a restart before
  feeding updates. With `FALSE`, `StoredIsWhereItIs` fails: the entity leaves, with
  an `exit`, a zone it still stands in.
* `OneAtATime` (RedisStreams): awaiting the promise of the last `start()` before the
  next. With `FALSE` two loops can be live, and entries are taken twice or out of
  order; the run `redis_restart` is about that.

In Cli the premise `Orderly` is such a duty: a part registers before it updates, and
has no two updates of one entity and time. A registration takes effect at once, and
not with the batch (`protocol/ndjson.md:96`), so a batch size decides what updates read
before it find; and a part done again finds its own registrations. `SavedIsOneByOne` and
`ViewIsSaved` ask for it, `ErrorsNameTheirLines` does not.

### Where the code and its documentation disagree

Two runs show one each:

* `sequence_store_failure`: `process_event` advances the sequence rules before
  `entities.set` can fail (`crates/engine/src/lib.rs:844`, `852`). The call returns an
  error and no events, the entity may be as before, the progress is not; so a
  `SequenceComplete` may rest on a step nobody was told of.
* `redis_restart`: `stop()` is documented to "Stop the poll loop after the current XREAD
  call returns" (`geo-stream/src/redis.ts:135`). If `start()` is called before the loop
  that was stopped has looked at the flag `running` again, it finds it set (line 131)
  and polls on, next to the new loop; `start()` neither refuses nor waits.

Others were met while modelling. A premise or a constant of a property keeps these
out of its way, and the property fails without it:

* Two updates of an entity at one time are both accepted, and `event_sort_key`
  (`crates/engine/src/lib.rs:118`) puts the enter or approach first whichever
  happened first: a consumer can end with the opposite of what `entities_in_circle`
  answers (`docs-site/docs/querying.md:45`). `OutputFoldsToMembership`, `ViewIsSaved`
  and `EventsExplainQueries` ask for different times.
* A `set` that Redis applies although its reply is lost (`state-redis/src/lib.rs:95`)
  moves the entity while `process_event` returns an error and drops the events; a retry
  is accepted, finds nothing changed and tells nothing. `ingest` of the binding drops
  the error too (`crates/adapters/napi/src/lib.rs:483`), and `GeoStreamKafka` commits the
  message. `ViewIsMembership`, `ToldIsMembership` and `ToldIsStored` except the pairs
  `doubt` holds for this, `OutputFoldsToMembership` such calls, and `RetryEndsTheSame`
  says that no more than this is lost.
* Read, check and write of an entity are not atomic, so engines sharing a store can
  take its time back, although `with_store` names sharing as a use
  (`crates/engine/src/lib.rs:524`, `769`). Hence `Route`.
* `lastId` stays `$` until a first entry has come, and each XREAD resolves it anew
  (`geo-stream/src/redis.ts:149`). Entries written between two calls are skipped,
  against the comment at line 89. `IngestedOnceInOrder` and `EverythingIsAdded` speak
  of what comes after `since`.
* A Kafka message that is JSON but not a `PointUpdate` makes `ingest` throw
  (`geo-stream/src/kafka.ts:113`) and is delivered for ever, with everything behind
  it waiting, although `onParseError` (line 73) is there for messages that cannot be
  parsed as a PointUpdate. `EverythingIsPassed` excepts it.
* A process that ends before its first commit leaves the messages since its start
  to be skipped by the next (`geo-stream/src/kafka.ts:104`). `EverythingIsPassed` speaks
  of what comes after `since`.
* A crash inside `save` leaves a file that does not parse
  (`crates/engine/src/lib.rs:439`); every later `--restore-from` then ends at once. The
  part that was being processed cannot be done again, and a supervisor that
  starts from nothing has lost the engine: this is the mutant `LaunchAnyway`.

Read off the code, and left as it is in the models:

* With `--restore-from` the command line ignores `GEO_EVENTS_STATE_BACKEND`.
* A negative `tMs` becomes a huge `u64`; `getEntityState` turns it back, events do not
  (`docs-site/docs/events-reference.md:97` calls `t_ms` the input's).
* A `t` of `null` on stdin is refused as garbage, although the comment at
  `crates/adapters/stdin-stdout/src/lib.rs:40` reads "Omitted or null".
* The field of a circle's events on stdout is `circle`, not `zone` as in
  `protocol/ndjson.md:80`.
* A `Custom` event carries the rule's `emit` string, not its name
  (`docs-site/docs/events-reference.md:103`).
* `HeadingBetween` takes degrees up to 360 (`crates/engine/src/lib.rs:167`), but north
  is 0, so a range that ends at 360 leaves due north out, although the range
  includes its ends (`docs-site/docs/rules.md:54`). The models do as the code does, and
  `FiltersJudgeTheLastLeg` states it for 0 to 360.
* A sequence that is part-way does not restart its window when its first step is
  visited again, so `A, A, B` can miss a `B` within the window of the second `A`.

## Proofs

TLAPS checks these for all values of the constants that meet the assumptions the
modules state: any number of entities, geometries, engines, loops and messages,
all times, thresholds, rules, areas, shapes and history sizes. Bounds like
`MaxUpdates` are constants too, so a theorem holds for every bound.

**RuleProofs** is about the two machines that decide what an update means for one
rule. Dwell rests on `TimesAssumption` (times are naturals, `None` is not) and
`DwellConfigsAssumption`. `PendingIsCurrentRun` and `NothingOverdue` are not
inductive alone: a step needs to know that the run began in the past
(`RunStarted`), and that an unregistered geometry has no state and no thresholds,
so registering one with a threshold makes nothing overdue (`UnregisteredIsOutside`).
Their conjunction with the types is `DwellInv`; `DwellInvariance` proves it, with a
lemma for each action. The lemma `FlipIffRunLongEnough` says that `DwellStep` takes the
observed side exactly if the run is long enough; from it and `DwellInv` follow
`Earned`, the action property, and `Implementation`, that every step is a step of
Debounce. SequenceRule rests on `TimesAssumption` and `RuleAssumption`. Its invariant
`Inv` joins the type, `ProgressIsVisits` (a witness function from steps to
distinct visits, in order, whose first visit is at `started_at`),
`CompletesOnlyAfterVisits`, and that no visit is later than the last time. A
matched step extends the witness by the new visit (`InOrderExtended`), any other
keeps it (`InOrderKept`). `CleanCorrect` is the other direction, that a clean visit
does complete. It is inductive together with `CleanInv`: a clean visit under way,
its window still open, has neither lost its place nor the time it began at.

**EngineOpsProofs** holds lemmas about the operators of EngineOps and BatchOps, from
`EngineAssumption`. For one update: each operator preserves `EngineStates`; `Outcome`
says what `ProcessEvent` returns in each of its branches; `AboutSplit` and
`ReportsTell` say that the spatial events of an accepted update are about exactly
the pairs whose membership it changed, and `HeardSettles` that folding them settles
those pairs whatever the consumer believed before. For a batch: the modules below
share that a fold is a run of states, each made from the one before, which turns
what a loop computes into an induction over its steps (`UpTo`); that a sort is the one
ordering of its elements by their keys (`InOrder`), so that two lists are equal when
both are in order and have the same elements; and that of the events about one pair
the last one in the output is the last one the engine emitted (`BatchFolds`).

**EngineProofs** is about the four state machines over one engine. For
EngineMembership and EngineTrail, from `EngineAssumption` and `EngineInputs`, and with
store calls failing in all three ways, `Inv`
joins `TypeOK`, `ViewIsMembership` and `WellFormed`: an entity has a time exactly if
it has a position, and no longer history than `HistorySize`. Without it an update
could not be shown to keep the type, since `Motion` computes with the last position
and time. From `Inv` follow `ViewCorrect`, and the action properties `TimeCorrect`,
`RetryCorrect`, `RuleCorrect` and `Refinement`. For `RetryCorrect`, a call that was
not applied left all that the spatial and custom events depend on (`EventsFromState`);
one that was applied has the entity take the update once more, and a dwell step at the
same time and side changes nothing (`StepTwice`).
`RuleCorrect` is about rules without filters and pairs not in doubt; what filters do
is `FiltersCorrect`. `Refinement`: every step of the engine is, for each
pair of entity and geometry, a step of Dwell or none, so what RuleProofs shows of
Dwell holds in the engine. For the trail, `TrailIsMembership` shows that recording
changes nothing, and `TrailInv` adds to `StateIsLatestSamples` that the motion is that
of the last two samples and their times do not decrease; `TrailCorrect` and
`FiltersCorrect` follow. For EngineSequences, with `"set"` not among `Faults`,
`SequencesImplemented` shows that each rule and entity in the engine is a machine of
SequenceRule, created by `add_sequence`, fired by accepted updates and reset by
restarts. The assumption is what the run `sequence_store_failure` is about: with a
failing `set` the refinement is false. `SeqInv` relates what was seen of a rule to the
engine: as many records as rules, no visit later than the last time of its entity,
no more visits than updates.

**BatchProofs** is about Batch and about Cli, which is `process_batch` behind a buffer
and a file. For Batch, from `BatchAssumption`: ids are numbers, as the sort needs
them, and the engines to begin with are well formed. `BatchRefusals`: within a sorted
batch the times of an entity do not decrease, so whether an update is late is decided
by the time the entity had before the batch; a failing `get` leaves the time as it
was, and its own update unjudged. `BatchOrderOfArrival`: without ties the sort keys of
the updates differ, so every shuffling sorts to the same list. `BatchOutputFolds` is
`BatchFolds` on the batch, for each entity and geometry, if no two updates of the
entity have one time and none of its calls was applied and failed.
`BatchEntitiesIndependent` compares a batch with the batch of one entity's updates:
sorting takes these to the places the others leave them (`Woven`), and at each of
their rounds the two engines are `Twin`s, which nothing tells apart as far as the
entity is concerned; a round of another entity leaves them so. The calls then have the
same events, and the sort keys of these differ from what they are alone only in the
number of the call, which is in the same order.

For Cli, from `CliAssumption`: 0 is among the times, for a `t` left out, parts are
sequences of lines, and no engine is `None` or `Broken`. The properties relate a part
under way to one that has not been begun or has been done before, so none of them is
inductive, and the proof runs through these:

* `CliType` has the types, and what file a process can find in each phase.
* A part, the engine it starts with and a batch size determine the states of `run`
  (`IsTrace`), and a process is at one of them (`OnTrace`).
* `Owed` says what a buffered update still has to do to the engine. With it a state of
  `run` is compared with one engine that took every line at once (`AtOnce`), and
  since nothing is owed at the end of input, both end alike (`TraceAtOnce`). Alike, or
  `Like`, is to have the same areas, positions, times and presences; no step tells apart
  engines that are alike.
* `TwiceIsOnce`: an orderly part that is done again on an engine that has done it
  changes nothing, for its registrations are duplicates and its updates are late, or
  equal to what is stored.
* `FileRight`: between two parts the file is like the engine that took all parts fed;
  during a part it is that, or like the one that took this part also, or broken before
  a first part has ended well. `CliSavedIsOneByOne` follows.
* `PictureRight`: a consumer is right about the pairs the process has told of; of the
  pairs that no line of the part at hand tells of, he knows what the process
  started with. A process that dies leaves him wrong about pairs that the next one
  tells of again. Hence `CliViewIsSaved`, for any number of deaths at any line.
* `ErrorsRight` says of a process at line n which lines have been named and which
  geometries are registered, and hence which lines will be (`CliErrorsNameLines`).

**BindingProofs**, from `BindingAssumption`: times are the `u64`s, ids are numbers, and
calls have the fields the binding's types give them, with any value. The index:
`Sound` says that every vector entry has a box and every box an entry, so a query
finds what a look at every shape finds, and pushing the vectors into an empty index
builds the same one (`BindingIndexIsExact`). `StateIsNewestSent` is not inductive,
since an update the engine has refused must also not count as newest: `NewestInv`
says that the engine has of each entity the update `newest` has, with its time as
`u64`. An accepted batch settles on the last of the greatest time in the call's own
order (`Settles`, as the sort is stable), and that is what folding `Newer` gives
(`NewestSettles`), `Older` being the order of `u64`s (`U64Orders`). `MembershipInv`:
without thresholds a pair is inside exactly if it is fresh and the stored position is
in the area, which is the shape's (`AreaIsShape`). `ConfigInv` says that the rules of
the engine are those made from the accepted configurations and the reverse; a custom
event then comes from a rule, and a trigger's event in the output from the same call
as the rule's (`BindingRulesFire`). For `BindingProximity`, `PlacedInv` says that
finitely many entities have a position, and only positions are compared.

**SharedStoreProofs.** `StoredCorrect` assumes `WaitsForZones`; `ZonesInv` says that a
call which has read a state runs with every zone. `ToldCorrect` assumes
`OneEngineEach`, that no entity is routed to two engines; it needs no assumption on
when zones are registered. `RouteInv` is the heart of it: what a call has read is
what is still stored, and the events of a call that has written agree with the
store until they are handed out. Both assumptions are duties of the application,
and without them TLC finds the properties violated.

**KafkaProofs**, from `KafkaAssumption` alone. `SendingInv` says that the events of a
send are about one entity and agree with the engine; whatever part of them gets
through, the rest is in `doubt`, and so are the transitions of a failed call that was
applied (`ToldCorrect`). `IngestedInv` says that a message the
engine has taken is not ahead of its entity and, if it is the entity's last and
times grow, that running the dwell step again at that time changes nothing
(`StepTwice`): hence `RedeliveryCorrect`.

**RedisStreamsProofs** assumes `OneAtATime`, as the run does, and allows any number
of loops, entries, events, failures and any `BatchSize`. `PlaceInv`: at most one
loop is live, it is at `lastId`, and what is left of its reply are the entries that
follow; this is why no entry is skipped or taken twice (`IngestedCorrect`).
`DebtInv` accounts for each entry taken: its events in the output are all of them,
or all but those that one loop, adding or failed, still owes, of which a rejected XADD
may have added the first (`Owed`); with `OrderInv` it gives `AccountedCorrect`.
`TypeInv` needs `DebtInv`, which says that an event being added has a number.

### What is only model-checked

Every invariant and every action property of the passing runs is proved. What remains:

* Liveness under fairness, `EverythingIsAdded` and `EverythingIsPassed`: the prover
  cannot reason about the ENABLED in a fairness condition.
* `CompletesOnlyOnStepsReported` and `StopStopsTheLoop`, which are false of the code.

## Not modelled

* `GeoEventEmitter` is a loop over the events of one `ingest` without state of its
  own. A listener that throws ends the loop, and one that calls `ingest` emits later
  events before earlier ones; what that is worth is up to the listeners.
* The TypeScript engine and rule builder pass each call on to the binding, and
  `geo-stream-redis/src` is a copy of them around a Redis-backed engine.
* The binding's option `history_size` and its Redis backend: `EngineTrail` and
  SharedStore have them without the binding. The command line over Redis is
  SharedStore likewise.
* `all_entities` of RedisStateStore is one step, although it scans the keys and then
  fetches them; a first update during the scan can be missed by a query. `remove` has
  no caller. `containing_zones` and `containing_circles` read the same trees as the
  memberships and have no caller in the engine.
* The native loader is generated. Documentation, examples, packaging and CI hold no
  program logic.

## Plan

1. The scan of `all_entities` in steps, and Emitter, if listeners get a contract.
