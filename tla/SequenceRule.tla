---------------------------- MODULE SequenceRule ----------------------------
(***************************************************************************)
(* One sequence rule and one entity.  The engine calls fire on every       *)
(* accepted update; a restart rebuilds the rule without its progress.      *)
(***************************************************************************)
EXTENDS SequenceOps, FiniteSets

CONSTANTS Ids,        \* zone and circle ids
          Rule,       \* the rule: steps and within_ms
          MaxVisits   \* bound: updates remembered since the last completion

ASSUME RuleAssumption ==
  /\ Rule \in [steps : Seq(Ids), within_ms : Nat \union {None}]
  /\ Rule.steps # <<>>
  /\ MaxVisits \in Nat

VARIABLES progress,    \* entity_progress[e]
          completed,   \* did the last update emit SequenceComplete
          now,         \* the entity's last accepted time
          visits       \* history: the updates since the last completion or restart

vars == <<progress, completed, now, visits>>

Init ==
  /\ progress = Idle
  /\ completed = FALSE
  /\ now = 0
  /\ visits = <<>>

Visits == [t : Times, entered : SUBSET Ids]

Fire(t, entered) ==
  /\ t >= now
  /\ Len(visits) < MaxVisits
  /\ LET result == FireSequence(Rule, progress, entered, t)
     IN  progress' = result.progress /\ completed' = result.complete
  /\ now' = t
  /\ visits' = Append(IF completed THEN <<>> ELSE visits, [t |-> t, entered |-> entered])

\* restore_from_snapshot, or a new process: SequenceRule::from starts empty,
\* and nothing visited before counts any more.
Restart ==
  /\ progress' = Idle
  /\ completed' = FALSE
  /\ visits' = <<>>
  /\ UNCHANGED now

Next == (\E t \in Times, entered \in SUBSET Ids : Fire(t, entered)) \/ Restart

Spec == Init /\ [][Next]_vars

-----------------------------------------------------------------------------
\* Every variable has its type; progress never points past the last step.
TypeOK ==
  /\ progress \in [current_step : 0 .. Len(Rule.steps) - 1, started_at : Times \union {0}]
  /\ completed \in BOOLEAN
  /\ now \in Times \union {0}
  /\ visits \in Seq(Visits)

\* f picks, for the first n steps, distinct updates of v, in order, that entered them.
InOrder(v, f, n) ==
  /\ f \in [1 .. n -> 1 .. Len(v)]
  /\ \A i \in 1 .. n : Rule.steps[i] \in v[f[i]].entered
  /\ \A i, j \in 1 .. n : i < j => f[i] < f[j]

InWindow(first, last) == Rule.within_ms # None => last - first <= Rule.within_ms

\* All the steps were visited, in order and in distinct updates, the last of
\* them by the latest update, and within the window.
Visited ==
  \E f \in [1 .. Len(Rule.steps) -> 1 .. Len(visits)] :
     /\ InOrder(visits, f, Len(Rule.steps))
     /\ f[Len(Rule.steps)] = Len(visits)
     /\ InWindow(visits[f[1]].t, now)

\* SequenceComplete is only emitted for a visit of all the steps, in order and
\* within the window, and no visit is counted for two completions.
CompletesOnlyAfterVisits == completed => Visited

\* A rule that is part-way through has seen its steps so far, in order, the
\* first of them at the time it keeps as the start of its window.
ProgressIsVisits ==
  progress.current_step > 0 =>
    /\ ~completed
    /\ \E f \in [1 .. progress.current_step -> 1 .. Len(visits)] :
         /\ InOrder(visits, f, progress.current_step)
         /\ visits[f[1]].t = progress.started_at

\* No remembered update is later than the entity's last accepted time.
VisitsInThePast == \A i \in 1 .. Len(visits) : visits[i].t <= now

\* The inductive invariant.
Inv == TypeOK /\ ProgressIsVisits /\ VisitsInThePast /\ CompletesOnlyAfterVisits

\* f picks all the updates of v that entered anything: n of them, and each entered
\* its own step and nothing else.
Clean(v, f, n) ==
  /\ InOrder(v, f, n)
  /\ \A k \in 1 .. Len(v) :
       v[k].entered # {} => \E i \in 1 .. n : f[i] = k /\ v[k].entered = {Rule.steps[i]}

\* The updates since the last completion that entered anything entered exactly
\* the steps, one after the other, within the window.
CleanVisit ==
  LET n == Len(Rule.steps)
  IN  \E f \in [1 .. n -> 1 .. Len(visits)] :
        Clean(visits, f, n) /\ InWindow(visits[f[1]].t, visits[f[n]].t)

\* Such a visit completes the rule: updates in between never make it lose its
\* place, and a completion leaves it ready to complete again.
CleanVisitsComplete == CleanVisit => completed
=============================================================================
