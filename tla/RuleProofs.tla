----------------------------- MODULE RuleProofs -----------------------------
(***************************************************************************)
(* The two machines that decide what an update means for one rule: first   *)
(* the sequence rule, of any length and window, whose completions stand    *)
(* for real visits of its steps; then the dwell thresholds of one geometry,*)
(* whose transitions stand for real stays.  Each is proved on its own; the *)
(* engine's proofs use them through the operators they share.              *)
(***************************************************************************)
EXTENDS SequenceRule, Dwell, TLAPS

USE TimesAssumption, RuleAssumption, DwellConfigsAssumption

Last == Len(Rule.steps)

LEMMA RuleFacts ==
  /\ Last \in Nat /\ Last > 0
  /\ Rule.within_ms \in Nat \union {None}
  /\ Rule.steps \in Seq(Ids)
BY DEF Last

LEMMA StartIsNat == \A x \in Times \union {0} : x \in Nat
OBVIOUS

\* The updates remembered when the next one is matched.
Remembered == IF completed THEN <<>> ELSE visits

\* A match found among some updates is still there after one more.
LEMMA InOrderKept ==
  ASSUME NEW v \in Seq(Visits), NEW r \in Visits, NEW n \in Nat, NEW f, InOrder(v, f, n)
  PROVE  /\ InOrder(Append(v, r), f, n)
         /\ n > 0 => Append(v, r)[f[1]] = v[f[1]]
<1>1. /\ f \in [1 .. n -> 1 .. Len(v)]
      /\ \A i \in 1 .. n : Rule.steps[i] \in v[f[i]].entered
      /\ \A i, j \in 1 .. n : i < j => f[i] < f[j]
  BY DEF InOrder
<1>2. Len(Append(v, r)) = Len(v) + 1 /\ Len(v) \in Nat
  OBVIOUS
<1>3. \A i \in 1 .. n : f[i] \in 1 .. Len(v) /\ Append(v, r)[f[i]] = v[f[i]]
  BY <1>1
<1>4. f \in [1 .. n -> 1 .. Len(Append(v, r))]
  BY <1>1, <1>2
<1>5. QED
  BY <1>1, <1>3, <1>4 DEF InOrder

\* The match f of n steps, and step n + 1 matched by update number last.
Extend(f, n, last) == [i \in 1 .. n + 1 |-> IF i <= n THEN f[i] ELSE last]

\* One more update that entered the next step extends the match by that update.
LEMMA InOrderExtended ==
  ASSUME NEW v \in Seq(Visits), NEW r \in Visits, NEW n \in Nat, NEW f,
         InOrder(v, f, n), Rule.steps[n + 1] \in r.entered,
         NEW w, w = Append(v, r),
         NEW g, g = Extend(f, n, Len(w))
  PROVE  InOrder(w, g, n + 1)
<1>1. /\ f \in [1 .. n -> 1 .. Len(v)]
      /\ \A i \in 1 .. n : Rule.steps[i] \in v[f[i]].entered
      /\ \A i, j \in 1 .. n : i < j => f[i] < f[j]
  BY DEF InOrder
<1>2. Len(w) = Len(v) + 1 /\ Len(v) \in Nat /\ w[Len(w)] = r
  OBVIOUS
<1>3. \A i \in 1 .. n : f[i] \in 1 .. Len(v) /\ w[f[i]] = v[f[i]]
  BY <1>1
<1>4. /\ g[n + 1] = Len(w)
      /\ \A i \in 1 .. n : g[i] = f[i]
  BY DEF Extend
<1>5. \A i \in 1 .. n + 1 : i \in 1 .. n \/ i = n + 1
  OBVIOUS
<1>6. g \in [1 .. n + 1 -> 1 .. Len(w)]
  <2>1. ASSUME NEW i \in 1 .. n + 1
        PROVE  (IF i <= n THEN f[i] ELSE Len(w)) \in 1 .. Len(w)
    BY <1>2, <1>3, <1>5
  <2>2. QED
    BY <2>1 DEF Extend
<1>7. \A i \in 1 .. n + 1 : Rule.steps[i] \in w[g[i]].entered
  BY <1>1, <1>2, <1>3, <1>4, <1>5
<1>8. \A i, j \in 1 .. n + 1 : i < j => g[i] < g[j]
  <2> SUFFICES ASSUME NEW i \in 1 .. n + 1, NEW j \in 1 .. n + 1, i < j
               PROVE  g[i] < g[j]
    OBVIOUS
  <2>1. i \in 1 .. n /\ g[i] = f[i] /\ f[i] \in 1 .. Len(v)
    BY <1>3, <1>4, <1>5
  <2>2. CASE j \in 1 .. n
    BY <1>1, <1>4, <2>1, <2>2
  <2>3. CASE j = n + 1
    BY <1>2, <1>4, <2>1, <2>3
  <2>4. QED
    BY <1>5, <2>2, <2>3
<1>9. QED
  BY <1>6, <1>7, <1>8 DEF InOrder

-----------------------------------------------------------------------------
LEMMA InitInv == Init => Inv
<1> SUFFICES ASSUME Init
             PROVE  Inv
  OBVIOUS
<1>1. progress.current_step = 0 /\ progress.started_at = 0
  BY DEF Init, Idle
<1>2. TypeOK
  <2>1. Idle \in [current_step : 0 .. Last - 1, started_at : Times \union {0}]
    BY RuleFacts DEF Idle
  <2>2. <<>> \in Seq(Visits)
    OBVIOUS
  <2>3. QED
    BY <2>1, <2>2 DEF Init, TypeOK, Last
<1>3. ProgressIsVisits /\ VisitsInThePast /\ CompletesOnlyAfterVisits
  BY <1>1 DEF Init, ProgressIsVisits, VisitsInThePast, CompletesOnlyAfterVisits
<1>4. QED
  BY <1>2, <1>3 DEF Inv

LEMMA RestartInv ==
  ASSUME Inv, Restart
  PROVE  Inv'
<1>1. progress'.current_step = 0 /\ progress'.started_at = 0
  BY DEF Restart, Idle
<1>2. TypeOK'
  <2>1. Idle \in [current_step : 0 .. Last - 1, started_at : Times \union {0}]
    BY RuleFacts DEF Idle
  <2>2. <<>> \in Seq(Visits)
    OBVIOUS
  <2>3. QED
    BY <2>1, <2>2 DEF Restart, TypeOK, Last, Inv
<1>3. ProgressIsVisits' /\ VisitsInThePast' /\ CompletesOnlyAfterVisits'
  BY <1>1 DEF Restart, ProgressIsVisits, VisitsInThePast, CompletesOnlyAfterVisits
<1>4. QED
  BY <1>2, <1>3 DEF Inv

LEMMA FireInv ==
  ASSUME Inv, NEW t \in Times, NEW entered \in SUBSET Ids, Fire(t, entered)
  PROVE  Inv'
<1> DEFINE r == [t |-> t, entered |-> entered]
           p == IF Expired(Rule, progress, t) THEN Idle ELSE progress
           k == p.current_step
           matched == Rule.steps[k + 1] \in entered
           complete == matched /\ k + 1 >= Last
           advanced == [current_step |-> k + 1,
                        started_at |-> IF k = 0 THEN t ELSE p.started_at]
           w == Append(Remembered, r)
<1>1. /\ t \in Nat /\ now \in Nat /\ now <= t
      /\ now' = t
      /\ visits' = w
  BY DEF Fire, Inv, TypeOK, Remembered
<1>2. /\ completed' = complete
      /\ progress' = IF complete THEN Idle ELSE IF matched THEN advanced ELSE p
  BY Zenon, RuleAssumption DEF Fire, FireSequence, Finishes, WindowStart, Last
<1>3. Remembered \in Seq(Visits) /\ r \in Visits
  BY DEF Remembered, Inv, TypeOK, Visits
<1>4. \A i \in 1 .. Len(Remembered) : Remembered[i].t <= now
  BY DEF Remembered, Inv, VisitsInThePast
<1>5. /\ p \in [current_step : 0 .. Last - 1, started_at : Times \union {0}]
      /\ k \in Nat /\ k < Last
      /\ p.started_at \in Nat
  <2>1. Idle \in [current_step : 0 .. Last - 1, started_at : Times \union {0}]
    BY RuleFacts DEF Idle
  <2>2. progress \in [current_step : 0 .. Last - 1, started_at : Times \union {0}]
    BY DEF Inv, TypeOK, Last
  <2>3. p \in [current_step : 0 .. Last - 1, started_at : Times \union {0}]
    BY <2>1, <2>2
  <2> HIDE DEF p
  <2>4. p.started_at \in Times \union {0} /\ p.current_step \in 0 .. Last - 1
    BY <2>3
  <2>5. p.started_at \in Nat
    BY Zenon, <2>4, StartIsNat
  <2>6. p.current_step \in Nat /\ p.current_step < Last
    BY <2>4, RuleFacts
  <2>7. QED
    BY <2>3, <2>5, <2>6
<1>6. \E f : /\ InOrder(Remembered, f, k)
             /\ k > 0 => Remembered[f[1]].t = p.started_at
  <2>1. CASE k = 0
    <3>1. InOrder(Remembered, [i \in 1 .. 0 |-> 1], 0)
      BY DEF InOrder
    <3>2. QED
      BY <2>1, <3>1
  <2>2. CASE k > 0
    <3>1. p = progress
      BY <2>2 DEF Idle
    <3>2. progress.current_step > 0 /\ ~completed
      BY <2>2, <3>1 DEF Inv, ProgressIsVisits
    <3>3. Remembered = visits
      BY <3>2 DEF Remembered
    <3>4. QED
      BY <3>1, <3>2, <3>3 DEF Inv, ProgressIsVisits
  <2>3. QED
    BY <1>5, <2>1, <2>2
<1>7. PICK f : /\ InOrder(Remembered, f, k)
               /\ k > 0 => Remembered[f[1]].t = p.started_at
  BY <1>6
<1>8. k > 0 => f[1] \in 1 .. Len(Remembered)
  BY <1>5, <1>7 DEF InOrder
<1>9. matched => \E g : /\ InOrder(w, g, k + 1)
                        /\ g[k + 1] = Len(w)
                        /\ w[g[1]].t = IF k = 0 THEN t ELSE p.started_at
  <2> SUFFICES ASSUME matched
               PROVE  \E g : /\ InOrder(w, g, k + 1)
                             /\ g[k + 1] = Len(w)
                             /\ w[g[1]].t = IF k = 0 THEN t ELSE p.started_at
    OBVIOUS
  <2>1. Rule.steps[k + 1] \in r.entered /\ r.t = t
    OBVIOUS
  <2> HIDE DEF k, p, r
  <2>2. k \in Nat /\ InOrder(Remembered, f, k) /\ Remembered \in Seq(Visits) /\ r \in Visits
    BY <1>3, <1>5, <1>7
  <2> DEFINE g == Extend(f, k, Len(w))
  <2>3. w = Append(Remembered, r) /\ g = Extend(f, k, Len(w))
    OBVIOUS
  <2> HIDE DEF w, g
  <2>4. InOrder(w, g, k + 1)
    BY Zenon, <2>1, <2>2, <2>3, InOrderExtended
  <2>5. /\ g[k + 1] = Len(w)
        /\ k = 0 => g[1] = Len(w)
        /\ k # 0 => g[1] = f[1] /\ f[1] \in 1 .. Len(Remembered)
    BY <1>8, <2>2, <2>3 DEF Extend
  <2>6. /\ w[Len(w)] = r
        /\ \A i \in 1 .. Len(Remembered) : w[i] = Remembered[i]
    BY <2>2, <2>3
  <2>7. w[g[1]].t = IF k = 0 THEN t ELSE p.started_at
    BY <1>7, <2>1, <2>2, <2>5, <2>6
  <2>8. QED
    BY Zenon, <2>4, <2>5, <2>7
<1>10. k > 0 => p.started_at <= t
  <2> HIDE DEF k, p
  <2> SUFFICES ASSUME k > 0
               PROVE  p.started_at <= t
    OBVIOUS
  <2>1. Remembered[f[1]].t <= now
    BY <1>4, <1>8
  <2>2. p.started_at \in Nat /\ p.started_at <= now
    BY <1>5, <1>7, <2>1
  <2>3. QED
    BY <1>1, <2>2
<1>11. TypeOK'
  <2>1. w \in Seq(Visits)
    BY <1>3
  <2>2. ~complete /\ matched => advanced \in [current_step : 0 .. Last - 1, started_at : Times \union {0}]
    BY <1>5, RuleFacts
  <2>3. Idle \in [current_step : 0 .. Last - 1, started_at : Times \union {0}]
    BY RuleFacts DEF Idle
  <2>4. completed' \in BOOLEAN
    BY <1>2
  <2>5. QED
    BY <1>1, <1>2, <1>5, <2>1, <2>2, <2>3, <2>4 DEF TypeOK, Last
<1>12. VisitsInThePast'
  <2>1. \A i \in 1 .. Len(w) : i \in 1 .. Len(Remembered) \/ i = Len(w)
    BY <1>3
  <2>2. \A i \in 1 .. Len(Remembered) : w[i] = Remembered[i] /\ w[i] \in Visits
    BY <1>3
  <2>3. w[Len(w)] = r
    BY <1>3
  <2>4. r.t = t
    OBVIOUS
  <2> HIDE DEF w, r
  <2>5. \A i \in 1 .. Len(w) : w[i].t <= t
    <3> SUFFICES ASSUME NEW i \in 1 .. Len(w)
                 PROVE  w[i].t <= t
      OBVIOUS
    <3>1. CASE i = Len(w)
      BY <1>1, <2>3, <2>4, <3>1
    <3>2. CASE i \in 1 .. Len(Remembered)
      <4>1. w[i].t \in Nat /\ w[i].t <= now
        BY <1>4, <2>2, <3>2 DEF Visits
      <4>2. QED
        BY <1>1, <4>1
    <3>3. QED
      BY <2>1, <3>1, <3>2
  <2>6. QED
    BY <1>1, <2>5 DEF VisitsInThePast
<1>13. ProgressIsVisits'
  <2> SUFFICES ASSUME progress'.current_step > 0
               PROVE  /\ ~completed'
                      /\ \E g \in [1 .. progress'.current_step -> 1 .. Len(w)] :
                           /\ InOrder(w, g, progress'.current_step)
                           /\ w[g[1]].t = progress'.started_at
    BY <1>1 DEF ProgressIsVisits, InOrder
  <2>1. ~complete
    BY <1>2 DEF Idle
  <2>2. CASE matched
    <3>1. progress'.current_step = k + 1 /\ progress'.started_at = IF k = 0 THEN t ELSE p.started_at
      BY <1>2, <2>1, <2>2
    <3> HIDE DEF k, p, w
    <3>2. PICK g : InOrder(w, g, k + 1) /\ w[g[1]].t = IF k = 0 THEN t ELSE p.started_at
      BY <1>9, <2>2
    <3>3. g \in [1 .. k + 1 -> 1 .. Len(w)]
      BY <3>2 DEF InOrder
    <3>4. QED
      BY Zenon, <1>2, <2>1, <3>1, <3>2, <3>3
  <2>3. CASE ~matched
    <3>1. progress' = p /\ k > 0
      BY <1>2, <2>1, <2>3
    <3> HIDE DEF k, p, r
    <3>2. InOrder(w, f, k) /\ w[f[1]] = Remembered[f[1]]
      <4>1. k \in Nat /\ InOrder(Remembered, f, k) /\ Remembered \in Seq(Visits) /\ r \in Visits
        BY <1>3, <1>5, <1>7
      <4>2. QED
        BY Zenon, <3>1, <4>1, InOrderKept
    <3>3. progress'.current_step = k
      BY <3>1 DEF k
    <3>4. QED
      BY <1>2, <1>7, <2>1, <3>1, <3>2, <3>3 DEF InOrder
  <2>4. QED
    BY <2>2, <2>3
<1>14. CompletesOnlyAfterVisits'
  <2> SUFFICES ASSUME complete
               PROVE  \E g \in [1 .. Last -> 1 .. Len(w)] :
                        /\ InOrder(w, g, Last)
                        /\ g[Last] = Len(w)
                        /\ InWindow(w[g[1]].t, t)
    BY <1>1, <1>2 DEF CompletesOnlyAfterVisits, Visited, InOrder, Last, InWindow
  <2>1. k + 1 = Last /\ matched
    BY <1>5, RuleFacts
  <2>2. InWindow(IF k = 0 THEN t ELSE p.started_at, t)
    <3>1. CASE k = 0
      BY <1>1, <3>1, RuleFacts DEF InWindow
    <3>2. CASE k > 0
      <4>1. p = progress /\ ~Expired(Rule, progress, t)
        BY <3>2 DEF Idle
      <4>2. Rule.within_ms # None => SaturatingSub(t, p.started_at) <= Rule.within_ms
        <5>1. SaturatingSub(t, p.started_at) \in Nat
          <6> HIDE DEF k, p
          <6>1. QED
            BY <1>1, <1>5 DEF SaturatingSub
        <5>2. QED
          BY <3>2, <4>1, <5>1, RuleFacts DEF Expired
      <4>3. SaturatingSub(t, p.started_at) = t - p.started_at
        BY <1>10, <3>2 DEF SaturatingSub
      <4>4. QED
        BY <3>2, <4>2, <4>3 DEF InWindow
    <3>3. QED
      BY <1>5, <3>1, <3>2
  <2> HIDE DEF k, p, w
  <2>3. PICK g : /\ InOrder(w, g, k + 1)
                 /\ g[k + 1] = Len(w)
                 /\ w[g[1]].t = IF k = 0 THEN t ELSE p.started_at
    BY <1>9, <2>1
  <2>4. g \in [1 .. k + 1 -> 1 .. Len(w)]
    BY <2>3 DEF InOrder
  <2>5. QED
    BY Zenon, <2>1, <2>2, <2>3, <2>4
<1>15. QED
  BY <1>11, <1>12, <1>13, <1>14 DEF Inv

LEMMA StutterInv == Inv /\ UNCHANGED vars => Inv'
<1> SUFFICES ASSUME Inv, UNCHANGED vars
             PROVE  Inv'
  OBVIOUS
<1>1. TypeOK'
  BY DEF vars, Inv, TypeOK
<1>2. ProgressIsVisits'
  BY DEF vars, Inv, ProgressIsVisits, InOrder
<1>3. VisitsInThePast'
  BY DEF vars, Inv, VisitsInThePast
<1>4. CompletesOnlyAfterVisits'
  BY DEF vars, Inv, CompletesOnlyAfterVisits, Visited, InOrder, InWindow
<1>5. QED
  BY <1>1, <1>2, <1>3, <1>4 DEF Inv

\* Every reachable state satisfies the inductive invariant.
THEOREM Invariance == Spec => []Inv
<1>1. Inv /\ [Next]_vars => Inv'
  BY FireInv, RestartInv, StutterInv DEF Next
<1>2. QED
  BY InitInv, <1>1, PTL DEF Spec

\* The progress of a rule is well-typed and never points past its last step.
THEOREM TypeCorrect == Spec => []TypeOK
BY Invariance, PTL DEF Inv

\* Whatever the steps, the window and the updates, sequence_complete is only
\* emitted for visits in order, in distinct updates, within the window.
THEOREM Sound == Spec => []CompletesOnlyAfterVisits
BY Invariance, PTL DEF Inv

\* The kept step number and start time always describe real visits.
THEOREM ProgressSound == Spec => []ProgressIsVisits
BY Invariance, PTL DEF Inv

-----------------------------------------------------------------------------
\* A clean visit under way: the first n steps, and nothing else, since the last
\* completion, and the window is still open.
UnderWay(f, n) ==
  /\ Clean(visits, f, n)
  /\ n > 0 => InWindow(visits[f[1]].t, now)

\* Such a visit has not lost its place, nor the time it began at.
CleanInv ==
  ~completed =>
    \A n \in 0 .. Last - 1 : \A f \in [1 .. n -> 1 .. Len(visits)] :
      UnderWay(f, n) =>
        /\ progress.current_step = n
        /\ n > 0 => progress.started_at = visits[f[1]].t

\* The last update of w entered nothing and the rest, v, is clean.
NothingLast(w, v, r, f, n) ==
  /\ r.entered = {}
  /\ Clean(v, f, n)
  /\ \A i \in 1 .. n : f[i] \in 1 .. Len(v) /\ w[f[i]] = v[f[i]]

\* Or it entered the last step and the rest is a clean visit of the steps before.
StepLast(w, v, r, f, n) ==
  /\ n > 0 /\ f[n] = Len(w) /\ r.entered = {Rule.steps[n]}
  /\ Clean(v, [i \in 1 .. n - 1 |-> f[i]], n - 1)
  /\ \A i \in 1 .. n - 1 : f[i] \in 1 .. Len(v) /\ w[f[i]] = v[f[i]]

LEMMA CleanBefore ==
  ASSUME NEW v \in Seq(Visits), NEW r \in Visits, NEW n \in Nat, NEW f,
         NEW w, w = Append(v, r), Clean(w, f, n)
  PROVE  NothingLast(w, v, r, f, n) \/ StepLast(w, v, r, f, n)
<1>1. /\ Len(w) = Len(v) + 1 /\ Len(v) \in Nat /\ w[Len(w)] = r
      /\ \A k \in 1 .. Len(v) : w[k] = v[k] /\ k \in 1 .. Len(w) /\ k # Len(w)
  OBVIOUS
<1>2. /\ f \in [1 .. n -> 1 .. Len(w)]
      /\ \A i \in 1 .. n : Rule.steps[i] \in w[f[i]].entered
      /\ \A i, j \in 1 .. n : i < j => f[i] < f[j]
      /\ \A k \in 1 .. Len(w) :
           w[k].entered # {} => \E i \in 1 .. n : f[i] = k /\ w[k].entered = {Rule.steps[i]}
  BY DEF Clean, InOrder
<1>3. CASE r.entered = {}
  <2>1. \A i \in 1 .. n : f[i] \in 1 .. Len(v) /\ w[f[i]] = v[f[i]]
    <3> SUFFICES ASSUME NEW i \in 1 .. n
                 PROVE  f[i] \in 1 .. Len(v) /\ w[f[i]] = v[f[i]]
      OBVIOUS
    <3>1. f[i] \in 1 .. Len(w) /\ Rule.steps[i] \in w[f[i]].entered
      BY Zenon, <1>2
    <3>2. f[i] # Len(w)
      BY Zenon, <1>1, <1>3, <3>1
    <3>3. QED
      BY <1>1, <3>1, <3>2
  <2>2. f \in [1 .. n -> 1 .. Len(v)]
    BY <1>2, <2>1
  <2>3. InOrder(v, f, n)
    BY <1>2, <2>1, <2>2 DEF InOrder
  <2>4. ASSUME NEW k \in 1 .. Len(v), v[k].entered # {}
        PROVE  \E i \in 1 .. n : f[i] = k /\ v[k].entered = {Rule.steps[i]}
    <3>1. w[k] = v[k] /\ k \in 1 .. Len(w)
      BY Zenon, <1>1
    <3>2. w[k].entered # {}
      BY Zenon, <2>4, <3>1
    <3>3. \E i \in 1 .. n : f[i] = k /\ w[k].entered = {Rule.steps[i]}
      BY Zenon, <1>2, <3>1, <3>2
    <3>4. QED
      BY Zenon, <3>1, <3>3
  <2>5. QED
    BY <1>3, <2>1, <2>3, <2>4 DEF Clean, NothingLast
<1>4. CASE r.entered # {}
  <2> DEFINE g == [i \in 1 .. n - 1 |-> f[i]]
  <2>1. PICK m \in 1 .. n : f[m] = Len(w) /\ r.entered = {Rule.steps[m]}
    <3>1. Len(w) \in 1 .. Len(w)
      BY <1>1
    <3>2. w[Len(w)] = r
      BY Zenon, <1>1
    <3>3. w[Len(w)].entered # {}
      BY Zenon, <1>4, <3>2
    <3>4. \E m \in 1 .. n : f[m] = Len(w) /\ w[Len(w)].entered = {Rule.steps[m]}
      BY Zenon, <1>2, <3>1, <3>3
    <3>5. QED
      BY Zenon, <3>2, <3>4
  <2>2. m = n /\ n > 0
    <3>1. m \in Nat /\ m <= n /\ n \in 1 .. n
      BY <2>1
    <3>2. f[n] \in 1 .. Len(w)
      BY <1>2, <3>1
    <3>3. ~(m < n)
      BY <1>1, <1>2, <2>1, <3>1, <3>2
    <3>4. QED
      BY <3>1, <3>3
  <2>3. \A i \in 1 .. n - 1 : i \in 1 .. n /\ f[i] \in 1 .. Len(v) /\ w[f[i]] = v[f[i]] /\ g[i] = f[i]
    <3> SUFFICES ASSUME NEW i \in 1 .. n - 1
                 PROVE  i \in 1 .. n /\ f[i] \in 1 .. Len(v) /\ w[f[i]] = v[f[i]]
      OBVIOUS
    <3>1. i \in 1 .. n /\ n \in 1 .. n /\ i < n
      BY <2>2
    <3>2. f[i] \in 1 .. Len(w) /\ f[i] < Len(w)
      BY <1>2, <2>1, <2>2, <3>1
    <3>3. f[i] \in 1 .. Len(v)
      BY <1>1, <3>2
    <3>4. QED
      BY <1>1, <3>1, <3>3
  <2>4. g \in [1 .. n - 1 -> 1 .. Len(v)]
    BY <2>3
  <2> HIDE DEF g
  <2>5. InOrder(v, g, n - 1)
    BY <1>2, <2>3, <2>4 DEF InOrder
  <2>6. ASSUME NEW k \in 1 .. Len(v), v[k].entered # {}
        PROVE  \E i \in 1 .. n - 1 : g[i] = k /\ v[k].entered = {Rule.steps[i]}
    <3>1. w[k] = v[k] /\ k \in 1 .. Len(w)
      BY Zenon, <1>1
    <3>2. w[k].entered # {}
      BY Zenon, <2>6, <3>1
    <3>3. PICK i \in 1 .. n : f[i] = k /\ w[k].entered = {Rule.steps[i]}
      BY Zenon, <1>2, <3>1, <3>2
    <3>4. f[i] = k /\ v[k].entered = {Rule.steps[i]}
      BY Zenon, <3>1, <3>3
    <3>5. i # n
      BY <1>1, <2>1, <2>2, <3>4
    <3>6. i \in 1 .. n - 1
      BY <3>4, <3>5
    <3>7. QED
      BY <2>3, <3>4, <3>6
  <2>7. Clean(v, g, n - 1)
    BY <2>5, <2>6 DEF Clean
  <2>8. QED
    BY <2>1, <2>2, <2>3, <2>7 DEF g, StepLast
<1>5. QED
  BY <1>3, <1>4

\* What an update does to progress whose window is open.
LEMMA FireStays ==
  ASSUME Inv, NEW t \in Times, NEW entered \in SUBSET Ids, Fire(t, entered),
         NEW k, k = progress.current_step,
         k > 0 => InWindow(progress.started_at, t)
  PROVE  LET matched == Rule.steps[k + 1] \in entered
         IN  /\ completed' <=> matched /\ k + 1 >= Last
             /\ matched /\ ~completed' => progress' = [current_step |-> k + 1,
                                          started_at |-> IF k = 0 THEN t ELSE progress.started_at]
             /\ ~matched => progress' = progress
<1>1. t \in Nat /\ progress.started_at \in Nat /\ k \in Nat
  <2>1. progress.started_at \in Times \union {0} /\ k \in 0 .. Last - 1
    BY DEF Inv, TypeOK, Last
  <2>2. progress.started_at \in Nat
    BY Zenon, <2>1, StartIsNat
  <2>3. QED
    BY <2>1, <2>2, RuleFacts
<1>2. ~Expired(Rule, progress, t)
  BY <1>1, RuleFacts DEF Expired, InWindow, SaturatingSub
<1>3. QED
  BY Zenon, <1>2, RuleAssumption DEF Fire, FireSequence, Finishes, WindowStart, Last

\* What CleanInv says of the updates the next one is added to, for a window that is
\* still open at the next one.
LEMMA RememberedClean ==
  ASSUME Inv, CleanInv, NEW t \in Times, t >= now,
         NEW n \in 0 .. Last - 1, NEW f, Clean(Remembered, f, n),
         n > 0 => InWindow(Remembered[f[1]].t, t)
  PROVE  /\ progress.current_step = n
         /\ n > 0 => progress.started_at = Remembered[f[1]].t
<1>1. /\ f \in [1 .. n -> 1 .. Len(Remembered)] /\ n \in Nat
      /\ n > 0 => 1 \in 1 .. n
  BY RuleFacts DEF Clean, InOrder
<1>2. CASE completed
  <2>1. Len(Remembered) = 0
    BY <1>2 DEF Remembered
  <2>2. n = 0
    BY <1>1, <2>1
  <2>3. progress.current_step \in 0 .. Last - 1 /\ ~(progress.current_step > 0)
    BY <1>2 DEF Inv, TypeOK, ProgressIsVisits, Last
  <2>4. progress.current_step = 0
    BY <2>3, RuleFacts
  <2>5. QED
    BY <2>2, <2>4
<1>3. CASE ~completed
  <2>1. Remembered = visits
    BY <1>3 DEF Remembered
  <2>2. t \in Nat /\ now \in Nat /\ visits \in Seq(Visits)
    BY StartIsNat DEF Inv, TypeOK
  <2>3. ASSUME n > 0 PROVE InWindow(visits[f[1]].t, now)
    <3>1. visits[f[1]].t \in Nat
      <4>1. f[1] \in 1 .. Len(visits)
        BY <1>1, <2>1, <2>3
      <4>2. visits[f[1]] \in Visits
        BY <2>2, <4>1
      <4>3. QED
        BY <4>2 DEF Visits
    <3>2. InWindow(visits[f[1]].t, t)
      BY <2>1, <2>3
    <3>3. QED
      BY <2>2, <3>1, <3>2, RuleFacts DEF InWindow
  <2>4. UnderWay(f, n)
    BY <2>1, <2>3 DEF UnderWay
  <2>5. QED
    BY <1>1, <1>3, <2>1, <2>4 DEF CleanInv
<1>4. QED
  BY <1>2, <1>3

\* After an update that does not complete the rule, a clean visit is under way or
\* its window has closed.
LEMMA FireKeeps ==
  ASSUME Inv, CleanInv, CleanVisitsComplete,
         NEW t \in Times, NEW entered \in SUBSET Ids, Fire(t, entered), ~completed',
         NEW n \in 0 .. Last, NEW f, Clean(visits', f, n),
         n > 0 /\ n < Last => InWindow(visits'[f[1]].t, t),
         n = Last => InWindow(visits'[f[1]].t, visits'[f[n]].t)
  PROVE  /\ n < Last
         /\ progress'.current_step = n
         /\ n > 0 => progress'.started_at = visits'[f[1]].t
<1> DEFINE r == [t |-> t, entered |-> entered]
           v == Remembered
           w == visits'
           k == progress.current_step
<1>1. /\ v \in Seq(Visits) /\ r \in Visits /\ w = Append(v, r)
      /\ t >= now /\ t \in Nat /\ n \in Nat /\ Last \in Nat /\ Last > 0
      /\ r.entered = entered /\ r.t = t
  <2>1. v \in Seq(Visits)
    BY DEF Remembered, Inv, TypeOK
  <2>2. r \in Visits /\ r.entered = entered /\ r.t = t
    BY DEF Visits
  <2>3. w = Append(v, r) /\ t >= now
    BY DEF Fire, Remembered
  <2>4. t \in Nat /\ n \in Nat /\ Last \in Nat /\ Last > 0
    BY RuleFacts
  <2>5. QED
    BY <2>1, <2>2, <2>3, <2>4
<1>2. w[Len(w)] = r
  BY <1>1
<1> HIDE DEF r, v, w, k
<1>3. NothingLast(w, v, r, f, n) \/ StepLast(w, v, r, f, n)
  <2>1. Clean(w, f, n)
    BY DEF w
  <2>2. v \in Seq(Visits) /\ r \in Visits /\ n \in Nat /\ w = Append(v, r)
    BY <1>1
  <2>3. QED
    BY Zenon, <2>1, <2>2, CleanBefore
<1>4. ASSUME NothingLast(w, v, r, f, n)
      PROVE  n < Last /\ progress'.current_step = n /\ (n > 0 => progress'.started_at = w[f[1]].t)
  <2>1. /\ r.entered = {} /\ Clean(v, f, n)
        /\ \A i \in 1 .. n : f[i] \in 1 .. Len(v) /\ w[f[i]] = v[f[i]]
    BY <1>4 DEF NothingLast
  <2>2. n > 0 => w[f[1]] = v[f[1]] /\ w[f[n]] = v[f[n]]
    BY <1>1, <2>1
  <2>3. n < Last
    <3> SUFFICES ASSUME n = Last PROVE FALSE
      BY <1>1
    <3>1. f \in [1 .. Last -> 1 .. Len(v)] /\ InWindow(v[f[1]].t, v[f[Last]].t)
      BY <1>1, <2>1, <2>2 DEF Clean, InOrder, w
    <3>2. v = visits /\ ~completed
      <4>1. f[1] \in 1 .. Len(v)
        BY <1>1, <3>1
      <4>2. v # <<>>
        BY <4>1
      <4>3. QED
        BY <4>2 DEF v, Remembered
    <3>3. CleanVisit
      BY <2>1, <3>1, <3>2 DEF CleanVisit, Last
    <3>4. QED
      BY <3>2, <3>3 DEF CleanVisitsComplete
  <2>4. n > 0 => InWindow(v[f[1]].t, t)
    BY <2>2, <2>3 DEF w
  <2>5. k = n /\ (n > 0 => progress.started_at = v[f[1]].t)
    <3>1. n \in 0 .. Last - 1
      BY <1>1, <2>3
    <3>2. QED
      BY <1>1, <2>1, <2>4, <3>1, RememberedClean DEF k, v
  <2>6. progress' = progress
    <3>1. k > 0 => InWindow(progress.started_at, t)
      BY <2>4, <2>5
    <3>2. Rule.steps[k + 1] \notin entered
      BY <1>1, <2>1
    <3>3. QED
      BY <3>1, <3>2, FireStays DEF k
  <2>7. QED
    BY <2>2, <2>3, <2>5, <2>6 DEF k, w
<1>5. ASSUME StepLast(w, v, r, f, n)
      PROVE  n < Last /\ progress'.current_step = n /\ (n > 0 => progress'.started_at = w[f[1]].t)
  <2> DEFINE g == [i \in 1 .. n - 1 |-> f[i]]
  <2>1. /\ n > 0 /\ f[n] = Len(w) /\ r.entered = {Rule.steps[n]}
        /\ Clean(v, [i \in 1 .. n - 1 |-> f[i]], n - 1)
        /\ \A i \in 1 .. n - 1 : f[i] \in 1 .. Len(v) /\ w[f[i]] = v[f[i]]
    BY <1>5 DEF StepLast
  <2>2. n - 1 \in 0 .. Last - 1 /\ n - 1 \in Nat /\ (n - 1) + 1 = n
    BY <1>1, <2>1
  <2>3. n - 1 > 0 => g[1] = f[1] /\ w[f[1]] = v[g[1]]
    BY <2>1, <2>2
  <2>4. Clean(v, g, n - 1)
    BY <2>1
  <2>5. w[f[n]].t = t
    BY <1>1, <1>2, <2>1
  <2>6. InWindow(w[f[1]].t, t)
    BY <1>1, <2>1, <2>5 DEF w
  <2> HIDE DEF g
  <2>7. k = n - 1 /\ (n - 1 > 0 => progress.started_at = v[g[1]].t)
    BY <1>1, <2>2, <2>3, <2>4, <2>6, RememberedClean DEF k, v
  <2>8. /\ k + 1 = n /\ Rule.steps[k + 1] \in entered
        /\ k > 0 => InWindow(progress.started_at, t)
    BY <1>1, <2>1, <2>2, <2>3, <2>6, <2>7
  <2>9. /\ n < Last
        /\ progress' = [current_step |-> n, started_at |-> IF k = 0 THEN t ELSE progress.started_at]
    <3>1. LET matched == Rule.steps[k + 1] \in entered
          IN  /\ completed' <=> matched /\ k + 1 >= Last
              /\ matched /\ ~completed' => progress' = [current_step |-> k + 1,
                                           started_at |-> IF k = 0 THEN t ELSE progress.started_at]
      BY <2>8, FireStays DEF k
    <3>2. ~(n >= Last)
      BY <2>8, <3>1
    <3>3. QED
      BY <1>1, <2>8, <3>1, <3>2
  <2>10. w[f[1]].t = IF k = 0 THEN t ELSE progress.started_at
    <3>1. CASE n = 1
      BY <2>5, <2>7, <3>1
    <3>2. CASE n - 1 > 0
      BY <2>3, <2>7, <3>2
    <3>3. QED
      BY <2>1, <2>2, <3>1, <3>2
  <2>11. QED
    BY <2>9, <2>10 DEF w
<1>6. QED
  BY <1>3, <1>4, <1>5 DEF w

LEMMA FireClean ==
  ASSUME Inv, CleanInv, CleanVisitsComplete,
         NEW t \in Times, NEW entered \in SUBSET Ids, Fire(t, entered)
  PROVE  CleanInv' /\ CleanVisitsComplete'
<1>1. now' = t
  BY DEF Fire
<1>2. ASSUME ~completed', NEW n \in 0 .. Last - 1, NEW f, Clean(visits', f, n),
             n > 0 => InWindow(visits'[f[1]].t, t)
      PROVE  /\ progress'.current_step = n
             /\ n > 0 => progress'.started_at = visits'[f[1]].t
  <2>1. n \in 0 .. Last /\ n # Last
    BY RuleFacts
  <2>2. QED
    BY <1>2, <2>1, FireKeeps
<1>3. CleanInv'
  BY <1>1, <1>2 DEF CleanInv, UnderWay, Clean, InOrder, InWindow, Last
<1>4. ASSUME ~completed', NEW f, Clean(visits', f, Last),
             InWindow(visits'[f[1]].t, visits'[f[Last]].t)
      PROVE  FALSE
  <2>1. Last \in 0 .. Last /\ ~(Last < Last)
    BY RuleFacts
  <2>2. QED
    BY <1>4, <2>1, FireKeeps
<1>5. CleanVisitsComplete'
  BY <1>4 DEF CleanVisitsComplete, CleanVisit, Clean, InOrder, InWindow, Last
<1>6. QED
  BY <1>3, <1>5

LEMMA FreshClean == progress = Idle /\ visits = <<>> => CleanInv /\ CleanVisitsComplete
<1> SUFFICES ASSUME progress = Idle, visits = <<>> PROVE CleanInv /\ CleanVisitsComplete
  OBVIOUS
<1>1. Len(visits) = 0 /\ progress.current_step = 0
  BY DEF Idle
<1>2. \A n \in Nat : \A f : n > 0 => f \notin [1 .. n -> 1 .. Len(visits)]
  <2> SUFFICES ASSUME NEW n \in Nat, NEW f \in [1 .. n -> 1 .. Len(visits)], n > 0
               PROVE  FALSE
    OBVIOUS
  <2>1. f[1] \in 1 .. Len(visits)
    OBVIOUS
  <2>2. QED
    BY <1>1, <2>1
<1>3. CleanInv
  BY <1>1, <1>2, RuleFacts DEF CleanInv
<1>4. CleanVisitsComplete
  BY <1>2, RuleFacts DEF CleanVisitsComplete, CleanVisit, Last
<1>5. QED
  BY <1>3, <1>4

LEMMA RestartClean ==
  ASSUME Restart
  PROVE  CleanInv' /\ CleanVisitsComplete'
<1>1. (progress = Idle /\ visits = <<>>)'
  BY DEF Restart, Idle
<1>2. (progress = Idle /\ visits = <<>>)' => (CleanInv /\ CleanVisitsComplete)'
  BY FreshClean, PTL
<1>3. QED
  BY <1>1, <1>2

\* A rule of any length and window completes whenever its steps were visited one
\* after the other within the window and nothing else was entered in between.
THEOREM CleanCorrect == Spec => []CleanVisitsComplete
<1>1. Init => CleanInv /\ CleanVisitsComplete
  BY FreshClean DEF Init
<1>2. CleanInv /\ CleanVisitsComplete /\ UNCHANGED vars => (CleanInv /\ CleanVisitsComplete)'
  <2> SUFFICES ASSUME CleanInv, CleanVisitsComplete, UNCHANGED vars
               PROVE  CleanInv' /\ CleanVisitsComplete'
    OBVIOUS
  <2>1. progress' = progress /\ completed' = completed /\ now' = now /\ visits' = visits
    BY DEF vars
  <2>2. CleanInv'
    BY <2>1 DEF CleanInv, UnderWay
  <2>3. CleanVisitsComplete'
    BY <2>1 DEF CleanVisitsComplete, CleanVisit
  <2>4. QED
    BY <2>2, <2>3
<1>3. Inv /\ CleanInv /\ CleanVisitsComplete /\ [Next]_vars => (CleanInv /\ CleanVisitsComplete)'
  BY <1>2, FireClean, RestartClean DEF Next
<1>4. QED
  BY <1>1, <1>3, Invariance, PTL DEF Spec

-----------------------------------------------------------------------------
\* Types are preserved by the step of one id (membership_with_dwell_impl).
LEMMA DwellStepType ==
  ASSUME NEW m \in Presences, NEW side \in BOOLEAN, NEW t \in Times, NEW d \in Dwells
  PROVE  DwellStep(m, side, t, d) \in Presences
BY DEF DwellStep, Waited, WaitingSince, MinDwell, Presences

\* With pending entries that hold the start of the observed run, a step flips
\* exactly when the run, this update included, is as long as the threshold.
LEMMA FlipIffRunLongEnough ==
  ASSUME DwellInv, NEW t \in Times, NEW side \in BOOLEAN, Observe(t, side)
  PROVE  /\ since' \in Times
         /\ since' <= t
         /\ presence'.inside =
              IF t - since' >= Threshold(side) THEN side ELSE presence.inside
         /\ presence'.enter_pending =
              IF side /\ ~presence'.inside THEN since' ELSE None
         /\ presence'.exit_pending =
              IF ~side /\ presence'.inside THEN since' ELSE None
<1> DEFINE min == Threshold(side)
<1>1. /\ presence \in Presences /\ dwell \in Dwells /\ phys \in BOOLEAN
      /\ last_t_ms \in Times \union {None} /\ since \in Times \union {None}
  BY DEF DwellInv, DwellTypeOK
<1>2. min \in Nat /\ min = IF side THEN dwell.min_inside_ms ELSE dwell.min_outside_ms
  BY <1>1 DEF Dwells, Threshold
<1>3. since' \in Times /\ since' <= t
  BY <1>1 DEF DwellInv, RunStarted, Observe
<1>4. CASE side = phys /\ last_t_ms # None
  <2>1. since' = since /\ since \in Nat /\ t \in Nat /\ since # None /\ since <= t
    BY <1>1, <1>3, <1>4 DEF Observe, DwellInv, RunStarted
  <2>2. presence' = DwellStep(presence, side, t, dwell)
    BY DEF Observe
  <2>3. CASE side = presence.inside
    BY <1>1, <1>2, <1>4, <2>1, <2>2, <2>3 DEF DwellStep, Waited, WaitingSince, MinDwell, Presences
  <2>4. CASE side # presence.inside
    <3>1. (IF side THEN presence.enter_pending ELSE presence.exit_pending) = since
      BY <1>1, <1>4, <2>4 DEF DwellInv, PendingIsCurrentRun, Presences
    <3>2. SaturatingSub(t, since) = t - since
      BY <2>1 DEF SaturatingSub
    <3>3. min = 0 => t - since >= min
      BY <2>1, <1>2
    <3>4. QED
      BY <1>1, <1>2, <2>1, <2>2, <2>4, <3>1, <3>2, <3>3 DEF DwellStep, Waited, WaitingSince, MinDwell, Presences
  <2>5. QED
    BY <2>3, <2>4
<1>5. CASE ~(side = phys /\ last_t_ms # None)
  <2>1. since' = t
    BY <1>5 DEF Observe
  <2>2. presence' = DwellStep(presence, side, t, dwell)
    BY DEF Observe
  <2>3. t - since' >= min <=> min = 0
    BY <1>2, <2>1
  <2>4. CASE side = presence.inside
    BY <1>1, <1>2, <2>1, <2>2, <2>3, <2>4 DEF DwellStep, Waited, WaitingSince, MinDwell, Presences
  <2>5. CASE side # presence.inside
    <3>1. (IF side THEN presence.enter_pending ELSE presence.exit_pending) = None
      BY <1>1, <1>5, <2>5 DEF DwellInv, PendingIsCurrentRun, RunStarted, Presences
    <3>2. QED
      BY <1>1, <1>2, <2>1, <2>2, <2>3, <2>5, <3>1 DEF DwellStep, Waited, WaitingSince, MinDwell, Presences
  <2>6. QED
    BY <2>4, <2>5
<1>6. QED
  BY <1>3, <1>4, <1>5

-----------------------------------------------------------------------------
LEMMA DwellInitInv == DwellInit => DwellInv
<1> SUFFICES ASSUME DwellInit
             PROVE  DwellInv
  OBVIOUS
<1>1. /\ presence.inside = FALSE
      /\ presence.enter_pending = None
      /\ presence.exit_pending = None
  BY DEF DwellInit, Outside
<1>2. DwellTypeOK
  BY DEF DwellInit, DwellTypeOK, Outside, NoDwell, Presences, Dwells
<1>3. PendingIsCurrentRun /\ NothingOverdue /\ UnregisteredIsOutside /\ RunStarted
  BY <1>1 DEF DwellInit, PendingIsCurrentRun, NothingOverdue, UnregisteredIsOutside, RunStarted
<1>4. QED
  BY <1>2, <1>3 DEF DwellInv

LEMMA DwellRegisterInv ==
  ASSUME DwellInv, NEW d \in Dwells, Register(d)
  PROVE  DwellInv'
<1>1. /\ ~registered /\ registered' /\ dwell' = d
      /\ UNCHANGED <<presence, last_t_ms, phys, since>>
  BY DEF Register
<1>2. presence = Outside /\ ~phys
  BY <1>1 DEF DwellInv, UnregisteredIsOutside
<1>3. phys' = presence'.inside
  BY <1>1, <1>2 DEF Outside, DwellInv, DwellTypeOK
<1>4. DwellTypeOK' /\ PendingIsCurrentRun' /\ RunStarted'
  BY <1>1 DEF DwellInv, DwellTypeOK, PendingIsCurrentRun, RunStarted
<1>5. NothingOverdue' /\ UnregisteredIsOutside'
  BY <1>1, <1>3 DEF NothingOverdue, UnregisteredIsOutside
<1>6. QED
  BY <1>4, <1>5 DEF DwellInv

LEMMA DwellObserveInv ==
  ASSUME DwellInv, NEW t \in Times, NEW side \in BOOLEAN, Observe(t, side)
  PROVE  DwellInv'
<1>1. DwellTypeOK'
  BY DwellStepType DEF Observe, DwellInv, DwellTypeOK
<1>2. PendingIsCurrentRun'
  BY FlipIffRunLongEnough DEF PendingIsCurrentRun, Observe
<1>3. NothingOverdue'
  <2>1. Threshold(phys)' = Threshold(side) /\ Threshold(side) \in Nat
    BY DEF Threshold, Observe, DwellInv, DwellTypeOK, Dwells
  <2>2. /\ t - since' >= Threshold(side) => presence'.inside = side
        /\ since' \in Times
    BY FlipIffRunLongEnough
  <2>3. last_t_ms' = t /\ phys' = side /\ t # None
    BY DEF Observe
  <2>4. QED
    BY <2>1, <2>2, <2>3 DEF NothingOverdue
<1>4. UnregisteredIsOutside'
  <2> SUFFICES ASSUME ~registered
               PROVE  presence' = Outside /\ ~phys' /\ dwell' = NoDwell
    BY DEF UnregisteredIsOutside, Observe
  <2>1. presence = Outside /\ ~side /\ dwell = NoDwell
    BY DEF DwellInv, UnregisteredIsOutside, Observe
  <2>2. DwellStep(Outside, FALSE, t, NoDwell) = Outside
    BY Zenon DEF DwellStep, Waited, WaitingSince, MinDwell, Outside
  <2>3. QED
    BY <2>1, <2>2 DEF Observe
<1>5. RunStarted'
  BY FlipIffRunLongEnough DEF RunStarted, Observe
<1>6. QED
  BY <1>1, <1>2, <1>3, <1>4, <1>5 DEF DwellInv

LEMMA DwellStutterInv == DwellInv /\ UNCHANGED dwellvars => DwellInv'
BY DEF dwellvars, DwellInv, DwellTypeOK, PendingIsCurrentRun, NothingOverdue, UnregisteredIsOutside,
       RunStarted, Threshold

\* Every reachable state satisfies the inductive invariant: the pending maps
\* describe the current run of observations and no transition is overdue.
THEOREM DwellInvariance == DwellSpec => []DwellInv
<1>1. DwellInv /\ [DwellNext]_dwellvars => DwellInv'
  BY DwellRegisterInv, DwellObserveInv, DwellStutterInv DEF DwellNext
<1>2. QED
  BY DwellInitInv, <1>1, PTL DEF DwellSpec

\* Type correctness of the membership of one entity in one geometry.
THEOREM DwellTypeCorrect == DwellSpec => []DwellTypeOK
BY DwellInvariance, PTL DEF DwellInv

\* A pending entry is the start of the current run of observations.
THEOREM PendingCorrect == DwellSpec => []PendingIsCurrentRun
BY DwellInvariance, PTL DEF DwellInv

\* A transition the thresholds call for is never held back.
THEOREM Prompt == DwellSpec => []NothingOverdue
BY DwellInvariance, PTL DEF DwellInv

\* Whatever the thresholds and the times, no enter and no exit is early.
THEOREM Earned == DwellSpec => TransitionIsEarned
<1>1. DwellInv /\ [DwellNext]_dwellvars =>
        [presence'.inside # presence.inside =>
           /\ presence'.inside = phys'
           /\ last_t_ms' - since' >= Threshold(phys')]_dwellvars
  <2> SUFFICES ASSUME DwellInv, DwellNext, presence'.inside # presence.inside
               PROVE  /\ presence'.inside = phys'
                      /\ last_t_ms' - since' >= Threshold(phys')
    BY DEF dwellvars
  <2>1. ASSUME NEW d \in DwellConfigs, Register(d) PROVE FALSE
    BY <2>1 DEF Register
  <2>2. ASSUME NEW t \in Times, NEW side \in BOOLEAN, Observe(t, side)
        PROVE  /\ presence'.inside = phys'
               /\ last_t_ms' - since' >= Threshold(phys')
    BY <2>2, FlipIffRunLongEnough DEF Observe
  <2>3. QED
    BY <2>1, <2>2 DEF DwellNext
<1>2. QED
  BY DwellInvariance, <1>1, PTL DEF DwellSpec, TransitionIsEarned

-----------------------------------------------------------------------------
LEMMA InitPromise == DwellInit => Promise!Init
BY DEF DwellInit, Promise!Init, Outside, NoDwell

LEMMA StepPromise == DwellInv /\ [DwellNext]_dwellvars => [Promise!Next]_(Promise!vars)
<1> SUFFICES ASSUME DwellInv, [DwellNext]_dwellvars
             PROVE  [Promise!Next]_(Promise!vars)
  OBVIOUS
<1>1. ASSUME NEW d \in DwellConfigs, Register(d)
      PROVE  Promise!Next
  BY <1>1 DEF Register, Promise!Next, Promise!Register, Dwells
<1>2. ASSUME NEW t \in Times, NEW side \in BOOLEAN, Observe(t, side)
      PROVE  Promise!Next
  <2>1. presence'.inside =
          IF t - since' >= Promise!Threshold(side) THEN side ELSE presence.inside
    BY <1>2, FlipIffRunLongEnough DEF Threshold, Promise!Threshold
  <2>2. Promise!Observe(t, side)
    BY <1>2, <2>1 DEF Observe, Promise!Observe
  <2>3. QED
    BY <2>2 DEF Promise!Next
<1>3. CASE UNCHANGED dwellvars
  BY <1>3 DEF dwellvars, Promise!vars
<1>4. QED
  BY <1>1, <1>2, <1>3 DEF DwellNext

\* The pending maps implement the debounce: for every set of times and every
\* thresholds the code's bookkeeping reports what Debounce reports.
THEOREM Implementation == DwellSpec => ImplementsDebounce
BY InitPromise, StepPromise, DwellInvariance, PTL DEF DwellSpec, ImplementsDebounce, Promise!Spec
=============================================================================
