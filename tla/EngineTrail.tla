----------------------------- MODULE EngineTrail -----------------------------
(***************************************************************************)
(* EngineMembership next to the full record of the updates of each entity  *)
(* whose write was applied, of which the engine keeps a bounded history, a *)
(* last sample and a motion.                                               *)
(***************************************************************************)
EXTENDS EngineMembership

VARIABLE accepted   \* per entity, the samples of its accepted updates

trailvars == <<engine, out, view, doubt, phys, since, sent, accepted>>

TInit ==
  /\ MInit
  /\ accepted = [e \in Entities |-> <<>>]

TProcess(u, fault) ==
  /\ MProcess(u, fault)
  /\ accepted' = IF Stores(engine, u, fault)
                   THEN [accepted EXCEPT ![u.id] = Append(@, [x |-> u.x, t_ms |-> u.t_ms])]
                   ELSE accepted

TNext ==
  \/ /\ \/ Configure
        \/ \E rule \in Sequences : DefineSequence(rule)
        \/ Restart
     /\ UNCHANGED <<history, accepted>>
  \/ \E u \in Updates, fault \in Faults \union {None} : TProcess(u, fault)

TSpec == TInit /\ [][TNext]_trailvars

-----------------------------------------------------------------------------
\* The first r of at most n samples from the end, oldest first.
Latest(samples, n) ==
  IF Len(samples) <= n THEN samples ELSE SubSeq(samples, Len(samples) - n + 1, Len(samples))

\* What a query tells about an entity is what its accepted updates say, in the
\* order they were accepted, those that failed with the write applied included:
\* the latest HistorySize samples, and the latest position and time, whatever was
\* refused, failed or restarted in between.
StateIsLatestSamples ==
  \A e \in Entities :
    LET st == engine.entities[e]
    IN  /\ st.history = Latest(accepted[e], HistorySize)
        /\ IF accepted[e] = <<>>
             THEN st.position = None /\ st.last_t_ms = None
             ELSE /\ st.position = accepted[e][Len(accepted[e])].x
                  /\ st.last_t_ms = accepted[e][Len(accepted[e])].t_ms

\* Did the entity move the way the filter asks, over its last two samples?  A
\* range of headings from 350 to 10 runs through north; one from 260 to 360 ends
\* just short of it, where the closed arc of docs-site/docs/rules.md:54 would not.
Moved(samples, filter) ==
  /\ Len(samples) > 1
  /\ LET from  == samples[Len(samples) - 1]
         to    == samples[Len(samples)]
         far   == IF to.x < from.x THEN from.x - to.x ELSE to.x - from.x
         took  == to.t_ms - from.t_ms
         wraps == filter.from > filter.to
     IN  /\ took > 0
         /\ filter.type = "speed_above" => far > filter.value * took
         /\ filter.type = "speed_below" => far < filter.value * took
         /\ filter.type = "heading_between" =>
              \E heading \in filter.from .. (filter.to + IF wraps THEN 360 ELSE 0) :
                 (IF wraps THEN heading % 360 ELSE heading)
                   = IF to.x = from.x THEN 0 ELSE IF to.x > from.x THEN 90 ELSE 270

\* A rule's filters judge the motion between the two latest accepted samples,
\* also when a refused or failed update or a restart came in between: when the
\* transition a rule waits for happens, the rule fires exactly if they all accept
\* it, so never on a first update, or on one at the time of the update before it.
FiltersJudgeTheLastLeg ==
  \A ev \in out.events, i \in DOMAIN engine.configurable_rules :
    LET rule == engine.configurable_rules[i]
    IN  (\E trigger \in rule.triggers :
           ev.kind = trigger.event_kind /\ ev.name = trigger.target_id)
        => ( (\E custom \in out.events : custom.kind = "custom" /\ custom.rule = i)
             <=> (\A filter \in rule.filters : Moved(accepted[ev.id], filter)) )
=============================================================================
