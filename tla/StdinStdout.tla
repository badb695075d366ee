---------------------------- MODULE StdinStdout ----------------------------
(***************************************************************************)
(* The loop `run` of crates/adapters/stdin-stdout: lines in, event and     *)
(* error lines out, updates kept back until a batch is full.  What a line  *)
(* says is data here: JSON that does not parse is a line of type "garbage",*)
(* and a geometry that does not parse or validate has the area None.       *)
(***************************************************************************)
EXTENDS BatchOps

\* `restored` and `errors` are only looked at by properties; `printed` is what
\* the last step wrote to stdout.
Session(engine, restored) ==
  [engine |-> engine, restored |-> restored, pending |-> <<>>, line_no |-> 0,
   errors |-> <<>>, printed |-> <<>>]

\* The field that names what an event of this kind is about.
Field(kind) ==
  CASE kind \in {"enter", "exit"}      -> "zone"
    [] kind \in {"approach", "recede"} -> "circle"
    [] kind = "custom"                 -> "name"
    [] kind = "sequence_complete"      -> "sequence"

NdjsonEvent(ev) ==
  [field \in {"event", "id", "t", Field(ev.kind)} |->
     CASE field = "event" -> ev.kind
       [] field = "id"    -> ev.id
       [] field = "t"     -> ev.t_ms
       [] OTHER           -> ev.name]

\* A `t` that is left out is 0.
PointUpdate(line) ==
  [id |-> line.id, x |-> line.location, t_ms |-> IF line.t = None THEN 0 ELSE line.t]

\* What flush_batch makes of the result of process_batch: the buffer is empty,
\* and errors are written before events.
Written(s, result) ==
  [s EXCEPT !.engine = result.engine, !.pending = <<>>, !.errors = @ \o result.errors,
            !.printed = [n \in DOMAIN result.events |-> NdjsonEvent(result.events[n])]]

FlushBatch(s) == Written(s, ProcessBatch(s.engine, s.pending, <<>>))

\* Mutant: lines counted from 0.
ComplainFromZero(s) == [s EXCEPT !.errors = Append(@, [line |-> s.line_no - 1])]

\* An error line that names the line at fault.
Complain(s) == [s EXCEPT !.errors = Append(@, [line |-> s.line_no])]

\* A registration takes effect at once, whatever is pending.
RegisterLine(s, line) ==
  LET registered == Register(s.engine, line.geometry, line.area, NoDwell)
  IN  IF registered = s.engine THEN Complain(s) ELSE [s EXCEPT !.engine = registered]

\* A batch size of 0 keeps every update back until the end of the input.
UpdateLine(s, line, batch_size) ==
  LET buffered == [s EXCEPT !.pending = Append(@, PointUpdate(line))]
  IN  IF batch_size > 0 /\ Len(buffered.pending) >= batch_size THEN FlushBatch(buffered) ELSE buffered

\* One turn of the loop.
AfterLine(s, line, batch_size) ==
  LET read == [s EXCEPT !.line_no = @ + 1, !.printed = <<>>]
  IN  CASE line.type = "blank"    -> read
        [] line.type = "garbage"  -> Complain(read)
        [] line.type = "register" -> RegisterLine(read, line)
        [] line.type = "update"   -> UpdateLine(read, line, batch_size)

\* Mutant: the end of the input leaves an incomplete batch alone.
AfterEofDropping(s) == [s EXCEPT !.printed = <<>>]

\* What is still pending is flushed at the end of the input.
AfterEof(s) ==
  LET done == [s EXCEPT !.printed = <<>>]
  IN  IF s.pending # <<>> THEN FlushBatch(done) ELSE done
=============================================================================
