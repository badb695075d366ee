--------------------------- MODULE EngineSequences ---------------------------
(***************************************************************************)
(* Engine next to what its caller saw of each sequence rule and entity: the*)
(* zones entered and circles approached in the events of every call that   *)
(* returned them, since the rule last completed, was added or was restored.*)
(***************************************************************************)
EXTENDS Engine

VARIABLES seen,   \* seen[i][e] for rule i and entity e
          tries   \* updates sent so far

seqvars == <<engine, out, seen, tries>>

Unseen == [completed |-> FALSE, last_t_ms |-> 0, visits |-> <<>>]

SInit ==
  /\ Init
  /\ seen = <<>>
  /\ tries = 0

\* What the caller learns about rule i from the events of one call.
Witness(s, i, u, events) ==
  [completed |-> \E ev \in events : ev.kind = "sequence_complete" /\ ev.rule = i,
   last_t_ms |-> u.t_ms,
   visits    |-> Append(IF s.completed THEN <<>> ELSE s.visits,
                        [t |-> u.t_ms, entered |-> Entered(events)])]

SProcess(u, fault) ==
  /\ tries < MaxUpdates
  /\ Process(u, fault)
  /\ tries' = tries + 1
  /\ seen' = IF out'.error # None
               THEN seen
               ELSE [i \in DOMAIN seen |->
                       [seen[i] EXCEPT ![u.id] = Witness(@, i, u, out'.events)]]

SDefineSequence(rule) ==
  /\ DefineSequence(rule)
  /\ seen' = Append(seen, [e \in Entities |-> Unseen])
  /\ UNCHANGED tries

SRestart ==
  /\ Restart
  /\ seen' = [i \in DOMAIN seen |->
                [e \in Entities |-> [Unseen EXCEPT !.last_t_ms = seen[i][e].last_t_ms]]]
  /\ UNCHANGED tries

SNext ==
  \/ Configure /\ UNCHANGED <<seen, tries>>
  \/ \E rule \in Sequences : SDefineSequence(rule)
  \/ SRestart
  \/ \E u \in Updates, fault \in Faults \union {None} : SProcess(u, fault)

SSpec == SInit /\ [][SNext]_seqvars

-----------------------------------------------------------------------------
\* The i-th rule, as module SequenceRule describes it for one entity.
RuleMachine(i, rule, e) == INSTANCE SequenceRule WITH
  Ids       <- Zones \union Circles,
  Rule      <- [steps |-> rule.steps, within_ms |-> rule.within_ms],
  MaxVisits <- MaxUpdates,
  progress  <- engine.sequence_rules[i].progress[e],
  completed <- seen[i][e].completed,
  now       <- seen[i][e].last_t_ms,
  visits    <- seen[i][e].visits

\* From the moment it is added, a sequence rule is the machine of module
\* SequenceRule for each entity: it advances on exactly the zones and circles the
\* events of the call name, and on nothing another entity, another rule, a
\* refused update or a registration does.
ImplementsSequenceRule ==
  [][\A i \in 1 .. MaxRules, rule \in Sequences, e \in Entities :
       i \in DOMAIN engine'.sequence_rules /\ engine'.sequence_rules[i].rule = rule =>
         IF i \in DOMAIN engine.sequence_rules
           THEN [RuleMachine(i, rule, e)!Next]_(RuleMachine(i, rule, e)!vars)
           ELSE RuleMachine(i, rule, e)!Init']_seqvars

\* crates/engine/src/lib.rs:249: a rule "fires `SequenceComplete` when an entity
\* triggers each step in order".  A step counts once its event has been given to
\* the caller.
CompletesOnlyOnStepsReported ==
  \A i \in 1 .. MaxRules, rule \in Sequences, e \in Entities :
    i \in DOMAIN engine.sequence_rules /\ engine.sequence_rules[i].rule = rule =>
      RuleMachine(i, rule, e)!CompletesOnlyAfterVisits
=============================================================================
