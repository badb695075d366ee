------------------------------- MODULE Engine -------------------------------
(***************************************************************************)
(* One engine and the calls an application may make on it, in any order:   *)
(* registrations, rules, and updates whose timestamps come as they please, *)
(* over a state store that may fail (Faults).                              *)
(***************************************************************************)
EXTENDS EngineOps

CONSTANTS DwellConfigs,   \* thresholds a registration may carry
          Rules,          \* configurable rules the application may add
          Sequences,      \* sequence rules the application may add
          Faults,         \* how store calls may fail; {} for the memory store
          MaxRules,       \* bound: rules of each kind
          MaxUpdates      \* bound: updates sent

ASSUME EngineInputs ==
  /\ DwellConfigs \subseteq Dwells
  /\ \A rule \in Rules : /\ rule.filters \subseteq RuleFilters
                        /\ \A trigger \in rule.triggers : trigger.event_kind \in SpatialKinds
  /\ Faults \subseteq StoreFaults
  /\ MaxRules \in Nat /\ MaxUpdates \in Nat

VARIABLES engine,
          out     \* the last update and what process_event returned for it

vars == <<engine, out>>

Nothing == [update |-> None, events |-> {}, error |-> None]

Init ==
  /\ engine = NewEngine
  /\ out = Nothing

RegisterGeometry(g, area, dwell) ==
  /\ engine' = Register(engine, g, area, dwell)
  /\ out' = Nothing

DefineRule(rule) ==
  /\ Len(engine.configurable_rules) < MaxRules
  /\ engine' = AddRule(engine, rule)
  /\ out' = Nothing

DefineSequence(rule) ==
  /\ Len(engine.sequence_rules) < MaxRules
  /\ engine' = AddSequence(engine, rule)
  /\ out' = Nothing

Process(u, fault) ==
  LET result == ProcessEvent(engine, u, fault)
  IN  /\ engine' = result.engine
      /\ out' = [update |-> u, events |-> result.events, error |-> result.error]

\* The process stops and a new one takes over from a snapshot taken at the end.
Restart ==
  /\ engine' = Restored(engine)
  /\ out' = Nothing

\* A geometry may also be one that fails validation.
Configure ==
  \/ \E g \in Geometries, area \in Areas \union {None}, dwell \in DwellConfigs :
       RegisterGeometry(g, area, dwell)
  \/ \E rule \in Rules : DefineRule(rule)

Next ==
  \/ Configure
  \/ \E rule \in Sequences : DefineSequence(rule)
  \/ \E u \in Updates, fault \in Faults \union {None} : Process(u, fault)
  \/ Restart

Spec == Init /\ [][Next]_vars
=============================================================================
