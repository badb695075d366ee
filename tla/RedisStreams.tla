---------------------------- MODULE RedisStreams ----------------------------
(***************************************************************************)
(* GeoStreamRedis (geo-stream/src/redis.ts): loops that read the input     *)
(* stream with XREAD, hand each entry to the engine and XADD its events.   *)
(* JavaScript runs one loop at a time, from one await to the next.         *)
(*                                                                         *)
(* Entry ids are positions in the input stream.  What the engine makes of  *)
(* an entry is its number of events; the adapter looks at nothing else.    *)
(***************************************************************************)
EXTENDS Integers, Sequences, FiniteSetsExt

CONSTANTS Loops,        \* one for each call of start()
          StartIds,     \* opts.startId: Latest, or 0 for an id before every entry
          BatchSize,    \* XREAD COUNT
          Bad, Latest,  \* an entry that cannot be parsed; the id "$"
          Entries,      \* what may be written: a number of events, or Bad
          OneAtATime,   \* does the application await the last start() before the next
          MaxEntries,   \* bound: entries written
          MaxFailures   \* bound: rejected XADD and XREAD calls

ASSUME RedisStreamsAssumption ==
  /\ StartIds \subseteq {Latest, 0}
  /\ BatchSize \in Nat \ {0}
  /\ Entries \subseteq Nat \union {Bad} /\ Bad \notin Nat /\ Latest \notin Nat
  /\ OneAtATime \in BOOLEAN

VARIABLES input,      \* the input stream
          lastId,     \* this.lastId
          running,    \* this.running
          loops,      \* each loop: pc, the XREAD position, the reply left, the events left
          taken,      \* ids the loops have taken from replies; the engine gets those that parse
          output,     \* the output stream: pairs of an id and the number of its event
          since,      \* the last id before the first entry taken
          stopped,    \* loops that were live when stop() was called
          failures    \* calls rejected so far

vars == <<input, lastId, running, loops, taken, output, since, stopped, failures>>

NewLoop == [pc |-> "new", from |-> 0, reply |-> <<>>, at |-> 0, left |-> 0]

Live(l) == loops[l].pc \in {"reading", "replied", "adding"}

Init ==
  /\ input = <<>>
  /\ lastId \in StartIds
  /\ running = FALSE
  /\ loops = [l \in Loops |-> NewLoop]
  /\ taken = <<>>
  /\ output = <<>>
  /\ since = 0
  /\ stopped = {}
  /\ failures = 0

\* Redis resolves "$" to the latest entry when the call reaches it.
ReadFrom(id) == IF id = Latest THEN Len(input) ELSE id

\* `while (this.running)`, and the XREAD call if it is.
Poll(id) ==
  IF running
    THEN [NewLoop EXCEPT !.pc = "reading", !.from = ReadFrom(id)]
    ELSE [NewLoop EXCEPT !.pc = "ended"]

\* How much of a reply is processed before the loop has an event to add.
RunLength(reply) ==
  LET busy == {n \in DOMAIN reply : input[reply[n]] \notin {Bad, 0}}
  IN  IF busy = {} THEN Len(reply) ELSE Min(busy)

\* Mutant: the position moves to the end of the reply at once.
PositionAtEnd(reply, n) == IF n = 0 THEN lastId ELSE reply[Len(reply)]

\* `this.lastId = entryId`, for the first n entries of a reply.
Position(reply, n) == IF n = 0 THEN lastId ELSE reply[n]

\* The loop runs on through the entries of a reply up to the first with events,
\* where it awaits XADD, or else to the next XREAD.
RunOn(l, reply) ==
  LET n    == RunLength(reply)
      work == n > 0 /\ input[reply[n]] \notin {Bad, 0}
  IN  /\ lastId' = Position(reply, n)
      /\ since' = IF lastId = Latest /\ n > 0 THEN reply[1] - 1 ELSE since
      /\ taken' = taken \o SubSeq(reply, 1, n)
      /\ loops' = [loops EXCEPT ![l] =
           IF work
             THEN [pc |-> "adding", from |-> 0, at |-> reply[n], left |-> input[reply[n]],
                   reply |-> SubSeq(reply, n + 1, Len(reply))]
             ELSE Poll(lastId')]

\* The event a loop is adding, of the entry it is at.
Adding(l) == <<loops[l].at, input[loops[l].at] - loops[l].left + 1>>

-----------------------------------------------------------------------------
Write(entry) ==
  /\ Len(input) < MaxEntries
  /\ input' = Append(input, entry)
  /\ UNCHANGED <<lastId, running, loops, taken, output, since, stopped, failures>>

\* start(): runs to the first await, which is an XREAD.
Start(l) ==
  /\ loops[l].pc = "new"
  /\ OneAtATime => \A k \in Loops : ~Live(k)
  /\ running' = TRUE
  /\ loops' = [loops EXCEPT ![l] = [NewLoop EXCEPT !.pc = "reading", !.from = ReadFrom(lastId)]]
  /\ UNCHANGED <<input, lastId, taken, output, since, stopped, failures>>

Stop ==
  /\ running
  /\ running' = FALSE
  /\ stopped' = {l \in Loops : Live(l)}
  /\ UNCHANGED <<input, lastId, loops, taken, output, since, failures>>

\* Redis answers an XREAD: with entries, or with null when it has blocked long
\* enough without any.
Answer(l) ==
  /\ loops[l].pc = "reading"
  /\ LET from  == loops[l].from
         count == IF Len(input) - from < BatchSize THEN Len(input) - from ELSE BatchSize
     IN  loops' = [loops EXCEPT ![l].pc = "replied", ![l].reply = [n \in 1 .. count |-> from + n]]
  /\ UNCHANGED <<input, lastId, running, taken, output, since, stopped, failures>>

\* Mutant: a reply without entries ends the loop.
ResumeUnlessEmpty(l) ==
  /\ loops[l].pc = "replied"
  /\ IF loops[l].reply = <<>>
       THEN /\ loops' = [loops EXCEPT ![l].pc = "ended"]
            /\ UNCHANGED <<lastId, taken, since>>
       ELSE RunOn(l, loops[l].reply)
  /\ UNCHANGED <<input, running, output, stopped, failures>>

Resume(l) ==
  /\ loops[l].pc = "replied"
  /\ RunOn(l, loops[l].reply)
  /\ UNCHANGED <<input, running, output, stopped, failures>>

\* Mutant: the loop adds one event of each entry.
AddedOnce(l) ==
  /\ loops[l].pc = "adding"
  /\ output' = Append(output, Adding(l))
  /\ RunOn(l, loops[l].reply)
  /\ UNCHANGED <<input, running, stopped, failures>>

\* An XADD succeeds, and the loop goes on to the next event, entry or XREAD.
Added(l) ==
  /\ loops[l].pc = "adding"
  /\ output' = Append(output, Adding(l))
  /\ IF loops[l].left > 1
       THEN /\ loops' = [loops EXCEPT ![l].left = @ - 1]
            /\ UNCHANGED <<lastId, taken, since>>
       ELSE RunOn(l, loops[l].reply)
  /\ UNCHANGED <<input, running, stopped, failures>>

\* An XREAD or XADD rejects, and so does the promise start() returned.  Redis may
\* have added the event, if it is only the reply that was lost.
Rejected(l) ==
  /\ failures < MaxFailures
  /\ loops[l].pc \in {"reading", "adding"}
  /\ loops' = [loops EXCEPT ![l].pc = "failed"]
  /\ failures' = failures + 1
  /\ \/ UNCHANGED output
     \/ loops[l].pc = "adding" /\ output' = Append(output, Adding(l))
  /\ UNCHANGED <<input, lastId, running, taken, since, stopped>>

Next ==
  \/ \E entry \in Entries : Write(entry)
  \/ Stop
  \/ \E l \in Loops : Start(l) \/ Answer(l) \/ Resume(l) \/ Added(l) \/ Rejected(l)

Spec == Init /\ [][Next]_vars

\* Redis answers what it is asked, and the event loop runs what has an answer.
FairSpec ==
  /\ Spec
  /\ \A l \in Loops : WF_vars(Answer(l)) /\ WF_vars(Resume(l)) /\ WF_vars(Added(l))

-----------------------------------------------------------------------------
IsValid(id) == input[id] # Bad

\* What the engine was handed: parseUpdate throws on the other entries taken.
Ingested == {id \in Range(taken) : IsValid(id)}

\* From the first entry an adapter receives on, every entry up to lastId was taken,
\* and handed to the engine if it could be parsed, once, in the order of the stream,
\* through stops, failures and new starts; with "$" that first entry may be a
\* late one (geo-stream/src/redis.ts:89 promises all written after start()).
IngestedOnceInOrder ==
  taken = IF lastId = Latest THEN <<>> ELSE [n \in 1 .. lastId - since |-> since + n]

\* The events of an entry in the output stream, and its first n events.
AddedOf(out, id) == {p \in Range(out) : p[1] = id}

FirstOf(id, n) == {<<id, k>> : k \in 1 .. n}

\* The events come out in the order of their entries, none twice; and those of
\* an entry handed to the engine are all in the output or still to be added,
\* except for the ones the loop had left when a call of it failed, of which the
\* first may have been added by that very call.
EventsAreAccountedFor ==
  /\ \A i, j \in DOMAIN output : i < j =>
       \/ output[i][1] < output[j][1]
       \/ output[i][1] = output[j][1] /\ output[i][2] < output[j][2]
  /\ \A id \in Ingested :
       LET owing == {l \in Loops : loops[l].at = id /\ loops[l].pc \in {"adding", "failed"}}
       IN  IF owing = {} THEN AddedOf(output, id) = FirstOf(id, input[id])
                         ELSE \E l \in owing, more \in {0, 1} :
                                /\ more = 1 => loops[l].pc = "failed"
                                /\ AddedOf(output, id) = FirstOf(id, input[id] - loops[l].left + more)

\* Every entry from the first one taken on is ingested in the end, and all its
\* events are added, once a loop runs that nobody stops and nothing fails.
EverythingIsAdded ==
  \A id \in 1 .. MaxEntries :
    (lastId # Latest /\ since < id /\ id <= Len(input) /\ running) ~>
      \/ ~running \/ failures > 0
      \/ id <= Len(input) /\ ~IsValid(id)
      \/ id \in Ingested /\ (input[id] > 0 => <<id, input[id]>> \in Range(output))

\* geo-stream/src/redis.ts:135: "Stop the poll loop after the current XREAD call
\* returns."  A loop that was live when stop() was called does not poll again.
StopStopsTheLoop ==
  [][\A l \in stopped : loops[l].pc # "reading" => loops'[l].pc # "reading"]_vars
=============================================================================
