-------------------------------- MODULE Cli --------------------------------
(***************************************************************************)
(* The command geo-stream (crates/cli) run again and again with            *)
(* --restore-from and --snapshot-file on one file, by a supervisor that    *)
(* feeds it the next part of a stream after an exit with status 0, and the *)
(* same part after anything else.  A process can die at any point, between *)
(* two lines of its output too; an I/O error ends it the same way.         *)
(***************************************************************************)
EXTENDS StdinStdout

CONSTANTS Parts,        \* the parts of a stream: sequences of lines
          BatchSizes,   \* values of --batch-size
          MaxParts,     \* bound: parts fed
          MaxFed,       \* bound: updates in all parts together
          Broken        \* a snapshot file that does not parse

\* Lines; a `t` may be left out, and an area of None is a geometry that is not valid.
Lines ==
  [type : {"blank", "garbage"}]
  \union [type : {"register"}, geometry : Geometries, area : Areas \union {None}]
  \union [type : {"update"}, id : Entities, location : Points, t : Times \union {None}]

ASSUME CliAssumption ==
  /\ NumberedIds
  /\ 0 \in Times
  /\ Parts \subseteq Seq(Lines)
  /\ BatchSizes \subseteq Nat
  /\ {None, Broken} \intersect EngineStates(AnyRules, AnySequences) = {}

VARIABLES batch_size,
          file,      \* the snapshot file: None, Broken, or the engine it holds
          fed,       \* the parts that ended with status 0
          input,     \* the part being fed
          phase,     \* how far the process is with it
          session,   \* the state of run
          picture    \* what a consumer of stdout knows of who is where

clivars == <<batch_size, file, fed, input, phase, session, picture>>

CliInit ==
  /\ batch_size \in BatchSizes
  /\ file = None
  /\ fed = <<>>
  /\ input = <<>>
  /\ phase = "done"
  /\ session = None
  /\ picture = {}

\* Where the updates are in these parts.
UpdatesIn(parts) ==
  UNION {{k} \X {n \in DOMAIN parts[k] : parts[k][n].type = "update"} : k \in DOMAIN parts}

Feed(part) ==
  /\ phase = "done"
  /\ Len(fed) < MaxParts
  /\ Cardinality(UpdatesIn(Append(fed, part))) <= MaxFed
  /\ input' = part
  /\ phase' = "ready"
  /\ UNCHANGED <<batch_size, file, fed, session, picture>>

\* Mutant: a file that does not parse counts as none.
LaunchAnyway ==
  /\ phase = "ready"
  /\ session' = IF file \notin {None, Broken} THEN Session(Restored(file), TRUE)
                                              ELSE Session(NewEngine, FALSE)
  /\ phase' = "running"
  /\ UNCHANGED <<batch_size, file, fed, input, picture>>

\* The start of main.  With --restore-from and no file, or one that does not
\* parse, the process ends at once, so the supervisor gives the flag when there
\* is a snapshot; it starts from nothing only as long as no part has ended well.
Launch ==
  /\ phase = "ready"
  /\ \/ /\ file \notin {None, Broken}
        /\ session' = Session(Restored(file), TRUE)
     \/ /\ file \in {None, Broken} /\ fed = <<>>
        /\ session' = Session(NewEngine, FALSE)
  /\ phase' = "running"
  /\ UNCHANGED <<batch_size, file, fed, input, picture>>

\* What the process does next in run.
Ahead ==
  IF session.line_no < Len(input)
    THEN AfterLine(session, input[session.line_no + 1], batch_size)
    ELSE AfterEof(session)

\* What a consumer makes of a line.
SeeLine(seen, line) ==
  CASE line.event = "enter"    -> seen \union {<<line.id, <<"zone", line.zone>>>>}
    [] line.event = "exit"     -> seen \ {<<line.id, <<"zone", line.zone>>>>}
    [] line.event = "approach" -> seen \union {<<line.id, <<"circle", line.circle>>>>}
    [] line.event = "recede"   -> seen \ {<<line.id, <<"circle", line.circle>>>>}
    [] OTHER                   -> seen

Run ==
  /\ phase = "running"
  /\ session' = Ahead
  /\ picture' = FoldLeft(SeeLine, picture, session'.printed)
  /\ phase' = IF session.line_no = Len(input) THEN "captured" ELSE "running"
  /\ UNCHANGED <<batch_size, file, fed, input>>

\* FileSnapshotStore::save: std::fs::write empties the file, then writes it.
Truncate ==
  /\ phase = "captured"
  /\ file' = Broken
  /\ phase' = "saving"
  /\ UNCHANGED <<batch_size, fed, input, session, picture>>

Save ==
  /\ phase = "saving"
  /\ file' = session.engine
  /\ phase' = "saved"
  /\ UNCHANGED <<batch_size, fed, input, session, picture>>

Exit ==
  /\ phase = "saved"
  /\ fed' = Append(fed, input)
  /\ phase' = "done"
  /\ session' = None
  /\ UNCHANGED <<batch_size, file, input, picture>>

\* The process ends before its time: in run after a part of what it was about to
\* write, or later.
DieRunning ==
  /\ phase = "running"
  /\ LET printed == Ahead.printed
     IN  \E n \in 0 .. Len(printed) : picture' = FoldLeft(SeeLine, picture, SubSeq(printed, 1, n))
  /\ phase' = "ready"
  /\ session' = None
  /\ UNCHANGED <<batch_size, file, fed, input>>

DieSaving ==
  /\ phase \in {"captured", "saving", "saved"}
  /\ phase' = "ready"
  /\ session' = None
  /\ UNCHANGED <<batch_size, file, fed, input, picture>>

CliNext ==
  \/ \E part \in Parts : Feed(part)
  \/ Launch
  \/ Run
  \/ Truncate
  \/ Save
  \/ Exit
  \/ DieRunning
  \/ DieSaving

CliSpec == CliInit /\ [][CliNext]_clivars

-----------------------------------------------------------------------------
\* The registrations of a part come before its updates, and no two of these are of
\* one entity and time.
Orderly(part) ==
  \A i, j \in DOMAIN part :
    /\ i < j /\ part[j].type = "register" => part[i].type # "update"
    /\ i # j /\ part[i].type = "update" /\ part[j].type = "update" =>
         \/ PointUpdate(part[i]).id # PointUpdate(part[j]).id
         \/ PointUpdate(part[i]).t_ms # PointUpdate(part[j]).t_ms

\* One engine, one process_event per update, no buffer, no file, no end.
Take(engine, line) ==
  CASE line.type = "register" -> Register(engine, line.geometry, line.area, NoDwell)
    [] line.type = "update"   -> ProcessEvent(engine, PointUpdate(line), None).engine
    [] OTHER                  -> engine

TakePart(engine, part) == FoldLeft(Take, engine, part)

OneByOne(parts) == FoldLeft(TakePart, NewEngine, parts)

Facts(engine) ==
  <<engine.area, [e \in Entities |-> LET st == engine.entities[e]
                                     IN  <<st.position, st.last_t_ms, st.presence>>]>>

\* After any number of processes, batches, deaths in the middle of a part and
\* parts fed twice, the saved engine is what one engine that was given every line
\* once would be, in whatever order the times come, if the parts are orderly.
SavedIsOneByOne ==
  phase = "done" /\ fed # <<>> /\ (\A k \in DOMAIN fed : Orderly(fed[k])) =>
    Facts(file) = Facts(OneByOne(fed))

\* Whoever folds stdout knows the membership in the snapshot whenever a process
\* has ended well, although he has seen parts of outputs that were then done
\* again; times may come in any order, but the parts are orderly.
ViewIsSaved ==
  phase = "done" /\ fed # <<>> /\ (\A k \in DOMAIN fed : Orderly(fed[k])) =>
    picture = Inside(file.entities)

\* A line is at fault if it does not parse, or registers a geometry that is not
\* valid or has been registered before, in this input or in the restored engine.
AtFault(n) ==
  \/ input[n].type = "garbage"
  \/ /\ input[n].type = "register"
     /\ \/ input[n].area = None
        \/ session.restored /\ file.area[input[n].geometry] # None
        \/ \E k \in 1 .. n - 1 : /\ input[k].type = "register"
                                 /\ input[k].geometry = input[n].geometry
                                 /\ input[k].area # None

\* The error lines that name a line name exactly the lines at fault, by their
\* place in the input, once each and in order, whatever the batches are.
ErrorsNameTheirLines ==
  phase = "running" =>
    LET named == {k \in DOMAIN session.errors : DOMAIN session.errors[k] = {"line"}}
    IN  /\ {session.errors[k].line : k \in named} = {n \in 1 .. session.line_no : AtFault(n)}
        /\ \A j, k \in named : j < k => session.errors[j].line < session.errors[k].line
=============================================================================
