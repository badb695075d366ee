----------------------------- MODULE SequenceOps -----------------------------
(***************************************************************************)
(* SequenceRule::fire (crates/engine/src/lib.rs): the progress of one      *)
(* entity through the steps of one rule.                                   *)
(***************************************************************************)
EXTENDS DwellOps, Sequences

\* SequenceProgress.
Progresses == [current_step : Nat, started_at : Times \union {0}]

\* SequenceProgress::default, also the entry that or_insert creates.
Idle == [current_step |-> 0, started_at |-> 0]

\* Mutant: the window is never enforced.
ExpiredNever(rule, p, t) == FALSE

\* Mutant: a completion at the end of the window comes too late.
ExpiredAtEnd(rule, p, t) ==
  /\ p.current_step > 0
  /\ rule.within_ms # None
  /\ SaturatingSub(t, p.started_at) >= rule.within_ms

\* The window is exceeded: progress is dropped before the update is matched.
Expired(rule, p, t) ==
  /\ p.current_step > 0
  /\ rule.within_ms # None
  /\ SaturatingSub(t, p.started_at) > rule.within_ms

\* Mutant: > for >=.
FinishesLate(rule, p) == p.current_step + 1 > Len(rule.steps)

\* The next step is the last one.
Finishes(rule, p) == p.current_step + 1 >= Len(rule.steps)

\* Mutant: every step restarts the window.
WindowStartNow(p, t) == t

\* The window starts with the first step.
WindowStart(p, t) == IF p.current_step = 0 THEN t ELSE p.started_at

\* One update.  `entered` holds the ids of the zones entered and the circles
\* approached in it: the rule does not tell a zone from a circle of the same
\* id, and takes at most one step however many of its ids are there.
FireSequence(rule, progress, entered, t) ==
  LET p        == IF Expired(rule, progress, t) THEN Idle ELSE progress
      matched  == rule.steps[p.current_step + 1] \in entered
      complete == matched /\ Finishes(rule, p)
      advanced == [current_step |-> p.current_step + 1,
                   started_at   |-> WindowStart(p, t)]
  IN IF rule.steps = <<>>
       THEN [progress |-> progress, complete |-> FALSE]
       ELSE [progress |-> IF complete THEN Idle ELSE IF matched THEN advanced ELSE p,
             complete |-> complete]
=============================================================================
