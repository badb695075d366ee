------------------------- MODULE RedisStreamsProofs -------------------------
(***************************************************************************)
(* RedisStreams for every number of loops, entries and events, every batch *)
(* size and any number of failures, where an application awaits the last   *)
(* start() before it calls the next: what the loops take, and what they    *)
(* add.                                                                    *)
(***************************************************************************)
EXTENDS RedisStreams, WellFoundedInduction, SequenceTheorems, TLAPS

LoopStates ==
  [pc    : {"new", "reading", "replied", "adding", "failed", "ended"},
   from  : Nat,
   reply : Seq(Nat),
   at    : Nat,
   left  : Nat]

TypeInv ==
  /\ input \in Seq(Nat \union {Bad})
  /\ lastId \in Nat \union {Latest}
  /\ since \in Nat
  /\ running \in BOOLEAN
  /\ loops \in [Loops -> LoopStates]
  /\ taken \in Seq(Nat)
  /\ output \in Seq(Nat \X Nat)

\* A loop is at this id: it reads from there, or adds the events of that entry.
Base(c) == IF c.pc = "adding" THEN c.at ELSE c.from

\* A reply is the entries that follow.
Follows(reply, base) ==
  /\ base + Len(reply) <= Len(input)
  /\ \A n \in 1 .. Len(reply) : reply[n] = base + n

\* This loop is where lastId is, once that is an id, and what it has left of a
\* reply are the entries that follow.
Placed(l) ==
  /\ Base(loops[l]) <= Len(input)
  /\ lastId # Latest => Base(loops[l]) = lastId
  /\ loops[l].pc \in {"replied", "adding"} => Follows(loops[l].reply, Base(loops[l]))
  /\ loops[l].pc \in {"reading", "replied"} => loops[l].at = 0
  /\ loops[l].pc = "adding" => lastId # Latest /\ loops[l].at # 0

\* There is one live loop at most, and it is in its place.
PlaceInv ==
  /\ lastId # Latest => since <= lastId /\ lastId <= Len(input)
  /\ \A k, l \in Loops : Live(k) /\ Live(l) => k = l
  /\ \A l \in Loops : Live(l) => Placed(l)

\* The ids taken.
Taken == IF lastId = Latest THEN {} ELSE since + 1 .. lastId

\* A loop that is adding the events of an entry, or failed when it was.
Owes(c) == c.pc \in {"adding", "failed"} /\ c.at # 0

\* Of the entry that a loop owes events, with this many events, it is the others
\* that are in an output, and the first it owes if a failed call added that.
Owed(out, c, events) ==
  \/ AddedOf(out, c.at) = FirstOf(c.at, events - c.left)
  \/ c.pc = "failed" /\ AddedOf(out, c.at) = FirstOf(c.at, events - c.left + 1)

\* Every event in the output is of an entry taken.  Of an entry that one of these
\* loops owes events, all others are there; no two owe the same entry's; of an
\* entry without debtor all are there.
Accounted(out, debtors) ==
  /\ \A p \in Range(out) : p[1] \in Taken
  /\ \A l \in debtors : Owes(loops[l]) =>
       /\ loops[l].at \in Taken
       /\ input[loops[l].at] \in Nat
       /\ loops[l].left \in 1 .. input[loops[l].at]
       /\ Owed(out, loops[l], input[loops[l].at])
  /\ \A k, l \in debtors : Owes(loops[k]) /\ Owes(loops[l]) /\ loops[k].at = loops[l].at => k = l
  /\ \A id \in Taken :
       IsValid(id) /\ (\A l \in debtors : ~(Owes(loops[l]) /\ loops[l].at = id))
         => AddedOf(out, id) = FirstOf(id, input[id])

DebtInv == Accounted(output, Loops)

\* The events come out in the order of their entries.
OrderInv ==
  \A i, j \in DOMAIN output : i < j =>
    \/ output[i][1] < output[j][1]
    \/ output[i][1] = output[j][1] /\ output[i][2] < output[j][2]

-----------------------------------------------------------------------------
LEMMA MinProperty ==
  ASSUME NEW S, S \subseteq Nat, S # {}
  PROVE  Min(S) \in S /\ \A y \in S : Min(S) <= y
<1> DEFINE R == OpToRel(<, Nat)
<1>1. IsWellFoundedOn(R, Nat)
  BY NatLessThanWellFounded
<1>2. ASSUME NEW x \in S, NEW y \in S, y < x
      PROVE  <<y, x>> \in R
  <2>1. <<y, x>> \in Nat \X Nat /\ <<y, x>>[1] < <<y, x>>[2]
    BY <1>2
  <2>2. QED
    BY <2>1, Zenon DEF OpToRel
<1> HIDE DEF R
<1>3. PICK x \in S : \A y \in S : ~(<<y, x>> \in R)
  BY <1>1, WFMin
<1>4. \A y \in S : ~(y < x)
  BY <1>2, <1>3
<1>5. \A y \in S : x <= y
  BY <1>4
<1>6. QED
  BY <1>5 DEF Min

LEMMA SeqElements ==
  ASSUME NEW S, NEW s \in Seq(S)
  PROVE  Len(s) \in Nat /\ DOMAIN s = 1 .. Len(s) /\ \A i \in 1 .. Len(s) : s[i] \in S
OBVIOUS

\* The values of a sequence with one more element.
LEMMA AppendRange ==
  ASSUME NEW S, NEW s \in Seq(S), NEW x \in S
  PROVE  /\ Append(s, x) \in Seq(S)
         /\ Range(Append(s, x)) = Range(s) \union {x}
<1>1. /\ Len(Append(s, x)) = Len(s) + 1 /\ Len(s) \in Nat
      /\ DOMAIN s = 1 .. Len(s) /\ DOMAIN Append(s, x) = 1 .. Len(s) + 1
      /\ \A i \in 1 .. Len(s) : Append(s, x)[i] = s[i]
      /\ Append(s, x)[Len(s) + 1] = x
  OBVIOUS
<1>2. \A i : i \in 1 .. Len(s) + 1 <=> i \in 1 .. Len(s) \/ i = Len(s) + 1
  BY <1>1
<1>3. QED
  BY <1>1, <1>2 DEF Range

\* The loop stops here in a reply: at the first entry that has events, or at the end.
StopsAt(reply, base, n) ==
  /\ n \in 0 .. Len(reply)
  /\ n = 0 => Len(reply) = 0
  /\ \A i \in 1 .. n - 1 : input[base + i] \in {Bad, 0}
  /\ n > 0 /\ input[reply[n]] \in {Bad, 0} => n = Len(reply)

LEMMA RunLengthStops ==
  ASSUME TypeInv, NEW base \in Nat, NEW reply \in Seq(Nat), Follows(reply, base)
  PROVE  StopsAt(reply, base, RunLength(reply))
<1> DEFINE busy == {n \in DOMAIN reply : input[reply[n]] \notin {Bad, 0}}
           n == RunLength(reply)
<1>1. Len(reply) \in Nat /\ DOMAIN reply = 1 .. Len(reply) /\ busy \subseteq 1 .. Len(reply)
  OBVIOUS
<1>2. \A i \in 1 .. Len(reply) : reply[i] = base + i
  BY DEF Follows
<1>3. CASE busy = {}
  <2>1. n = Len(reply)
    BY <1>3 DEF RunLength
  <2>2. \A i \in 1 .. Len(reply) : input[base + i] \in {Bad, 0}
    BY <1>1, <1>2, <1>3
  <2> HIDE DEF n, busy
  <2>3. n \in 0 .. Len(reply) /\ \A i \in 1 .. n - 1 : i \in 1 .. Len(reply)
    BY <1>1, <2>1
  <2>4. StopsAt(reply, base, n)
    BY <2>1, <2>2, <2>3 DEF StopsAt
  <2>5. QED
    BY <2>4 DEF n
<1>4. CASE busy # {}
  <2>1. n = Min(busy)
    BY <1>4 DEF RunLength
  <2>2. n \in busy /\ \A i \in busy : n <= i
    <3>1. busy \subseteq Nat
      BY <1>1
    <3> HIDE DEF busy, n
    <3>2. QED
      BY <1>4, <2>1, <3>1, MinProperty
  <2>3. n \in 1 .. Len(reply) /\ input[reply[n]] \notin {Bad, 0}
    BY <2>2, <1>1
  <2>4. ASSUME NEW i \in 1 .. n - 1
        PROVE  input[base + i] \in {Bad, 0}
    <3>1. i \in 1 .. Len(reply) /\ ~(n <= i)
      BY <1>1, <2>3
    <3>2. i \notin busy
      BY <2>2, <3>1
    <3>3. QED
      BY <1>1, <1>2, <3>1, <3>2
  <2> HIDE DEF n, busy
  <2>5. n \in 0 .. Len(reply) /\ n # 0
    BY <1>1, <2>3
  <2>6. StopsAt(reply, base, n)
    BY <2>3, <2>4, <2>5 DEF StopsAt
  <2>7. QED
    BY <2>6 DEF n
<1>5. QED
  BY <1>3, <1>4

-----------------------------------------------------------------------------
\* What a loop does between two awaits: it takes the first n entries of its reply,
\* of which only the last can have events, and goes on to add them or to poll.
Ran(l, base, reply, n) ==
  /\ n \in 0 .. Len(reply)
  /\ n = 0 => Len(reply) = 0
  /\ \A i \in 1 .. n - 1 : input[base + i] \in {Bad, 0}
  /\ lastId' = IF n = 0 THEN lastId ELSE base + n
  /\ since' = IF lastId = Latest /\ n > 0 THEN base ELSE since
  /\ taken' = taken \o SubSeq(reply, 1, n)
  /\ loops' \in [Loops -> LoopStates]
  /\ \A k \in Loops \ {l} : loops'[k] = loops[k]
  /\ \/ /\ n > 0 /\ input[base + n] \in Nat \ {0}
        /\ loops'[l].pc = "adding"
        /\ loops'[l].at = base + n
        /\ loops'[l].left = input[base + n]
        /\ loops'[l].reply = SubSeq(reply, n + 1, Len(reply))
     \/ /\ n > 0 => input[base + n] \in {Bad, 0}
        /\ loops'[l].pc = IF running THEN "reading" ELSE "ended"
        /\ loops'[l].at = 0
        /\ loops'[l].pc = "reading" => loops'[l].from = ReadFrom(lastId')

LEMMA NewLoopType == NewLoop \in LoopStates
BY DEF NewLoop, LoopStates

LEMMA PollType ==
  ASSUME TypeInv, NEW id \in Nat \union {Latest}
  PROVE  /\ Poll(id) \in LoopStates
         /\ Poll(id).pc = IF running THEN "reading" ELSE "ended"
         /\ Poll(id).at = 0
         /\ Poll(id).pc = "reading" => Poll(id).from = ReadFrom(id)
<1>1. ReadFrom(id) \in Nat
  BY SeqElements DEF ReadFrom, TypeInv
<1>2. QED
  BY <1>1, NewLoopType DEF Poll, NewLoop, LoopStates

LEMMA RunOnRan ==
  ASSUME TypeInv, NEW l \in Loops, NEW base \in Nat, NEW reply \in Seq(Nat),
         Follows(reply, base), RunOn(l, reply)
  PROVE  \E n : Ran(l, base, reply, n)
<1> DEFINE n == RunLength(reply)
           work == n > 0 /\ input[reply[n]] \notin {Bad, 0}
           c == [pc |-> "adding", from |-> 0, at |-> reply[n], left |-> input[reply[n]],
                 reply |-> SubSeq(reply, n + 1, Len(reply))]
           next == IF work THEN c ELSE Poll(lastId')
<1>1. /\ n \in 0 .. Len(reply)
      /\ n = 0 => Len(reply) = 0
      /\ \A i \in 1 .. n - 1 : input[base + i] \in {Bad, 0}
      /\ n > 0 /\ input[reply[n]] \in {Bad, 0} => n = Len(reply)
  BY RunLengthStops DEF StopsAt
<1>2. /\ lastId' = Position(reply, n)
      /\ since' = IF lastId = Latest /\ n > 0 THEN reply[1] - 1 ELSE since
      /\ taken' = taken \o SubSeq(reply, 1, n)
      /\ loops' = [loops EXCEPT ![l] = next]
  BY DEF RunOn
<1> HIDE DEF n
<1>3. Len(reply) \in Nat /\ (\A i \in 1 .. Len(reply) : reply[i] = base + i) /\ base + Len(reply) <= Len(input)
  BY SeqElements DEF Follows
<1>4. n > 0 => reply[n] = base + n /\ reply[1] - 1 = base /\ input[base + n] \in Nat \union {Bad}
  <2>1. n > 0 => n \in 1 .. Len(reply) /\ 1 \in 1 .. Len(reply) /\ base + n \in 1 .. Len(input)
    BY <1>1, <1>3, SeqElements DEF TypeInv
  <2>2. \A i \in 1 .. Len(input) : input[i] \in Nat \union {Bad}
    BY SeqElements DEF TypeInv
  <2>3. n \in Int
    BY <1>1, <1>3
  <2>4. n > 0 => reply[n] = base + n
    BY <1>3, <2>1
  <2>5. n > 0 => reply[1] = base + 1
    BY <1>3, <2>1
  <2>6. n > 0 => input[base + n] \in Nat \union {Bad}
    BY <2>1, <2>2
  <2>7. QED
    BY <2>4, <2>5, <2>6
<1>5. /\ lastId' = IF n = 0 THEN lastId ELSE base + n
      /\ since' = IF lastId = Latest /\ n > 0 THEN base ELSE since
      /\ lastId' \in Nat \union {Latest}
  BY <1>1, <1>2, <1>3, <1>4 DEF Position, TypeInv
<1>6. work => c \in LoopStates /\ input[base + n] \in Nat \ {0} /\ reply[n] = base + n
  <2>1. SubSeq(reply, n + 1, Len(reply)) \in Seq(Nat)
    BY <1>1, <1>3, SubSeqProperties
  <2>2. QED
    BY <1>1, <1>3, <1>4, <2>1 DEF LoopStates
<1>7. /\ Poll(lastId') \in LoopStates
      /\ Poll(lastId').pc = IF running THEN "reading" ELSE "ended"
      /\ Poll(lastId').at = 0
      /\ Poll(lastId').pc = "reading" => Poll(lastId').from = ReadFrom(lastId')
  <2> DEFINE id == lastId'
  <2>1. id \in Nat \union {Latest}
    BY <1>5
  <2> HIDE DEF id
  <2>2. /\ Poll(id) \in LoopStates
        /\ Poll(id).pc = IF running THEN "reading" ELSE "ended"
        /\ Poll(id).at = 0
        /\ Poll(id).pc = "reading" => Poll(id).from = ReadFrom(id)
    BY <2>1, PollType
  <2>3. QED
    BY <2>2 DEF id
<1>8. loops \in [Loops -> LoopStates]
  BY DEF TypeInv
<1>9. CASE work
  <2>1. loops' = [loops EXCEPT ![l] = c]
    BY <1>2, <1>9
  <2>2. /\ c.pc = "adding" /\ c.at = reply[n] /\ c.left = input[reply[n]]
        /\ c.reply = SubSeq(reply, n + 1, Len(reply))
    OBVIOUS
  <2> HIDE DEF c
  <2>3. /\ loops' \in [Loops -> LoopStates] /\ loops'[l] = c
        /\ \A k \in Loops \ {l} : loops'[k] = loops[k]
    BY <1>6, <1>8, <1>9, <2>1
  <2>4. n > 0 /\ input[base + n] \in Nat \ {0} /\ reply[n] = base + n
    BY <1>6, <1>9
  <2> HIDE DEF work
  <2>5. QED
    BY <1>1, <1>2, <1>5, <2>2, <2>3, <2>4 DEF Ran
<1>10. CASE ~work
  <2>1. loops' = [loops EXCEPT ![l] = Poll(lastId')]
    BY <1>2, <1>10
  <2>2. /\ loops' \in [Loops -> LoopStates] /\ loops'[l] = Poll(lastId')
        /\ \A k \in Loops \ {l} : loops'[k] = loops[k]
    BY <1>7, <1>8, <2>1
  <2>3. n > 0 => input[base + n] \in {Bad, 0}
    BY <1>4, <1>10
  <2>4. QED
    BY <1>1, <1>2, <1>5, <1>7, <2>2, <2>3 DEF Ran
<1>11. QED
  BY <1>9, <1>10

-----------------------------------------------------------------------------
\* The n ids that follow an id.
Run(base, n) == [i \in 1 .. n |-> base + i]

LEMMA RunType ==
  ASSUME NEW base \in Nat, NEW n \in Nat
  PROVE  Run(base, n) \in Seq(Nat) /\ Len(Run(base, n)) = n /\ \A i \in 1 .. n : Run(base, n)[i] = base + i
BY DEF Run

LEMMA RunConcat ==
  ASSUME NEW base \in Nat, NEW m \in Nat, NEW s \in Seq(Nat),
         \A i \in 1 .. Len(s) : s[i] = base + m + i
  PROVE  Run(base, m) \o s = Run(base, m + Len(s))
<1> DEFINE n == Len(s)
           r == Run(base, m)
           mn == m + n
           t == Run(base, mn)
<1>1. n \in Nat /\ mn \in Nat /\ mn = m + n
  BY SeqElements
<1> HIDE DEF mn
<1>2. r \in Seq(Nat) /\ Len(r) = m /\ \A i \in 1 .. m : r[i] = base + i
  BY RunType
<1>3. t \in Seq(Nat) /\ Len(t) = mn /\ \A i \in 1 .. mn : t[i] = base + i
  BY <1>1, RunType
<1> HIDE DEF r, t
<1>4. /\ r \o s \in Seq(Nat) /\ Len(r \o s) = mn
      /\ \A i \in 1 .. mn : (r \o s)[i] = IF i <= m THEN r[i] ELSE s[i - m]
  <2>1. /\ r \o s \in Seq(Nat) /\ Len(r \o s) = Len(r) + Len(s)
        /\ \A i \in 1 .. Len(r) + Len(s) : (r \o s)[i] = IF i <= Len(r) THEN r[i] ELSE s[i - Len(r)]
    BY <1>2, ConcatProperties
  <2>2. QED
    BY <1>1, <1>2, <2>1
<1> HIDE DEF n
<1>5. ASSUME NEW i \in 1 .. mn
      PROVE  (r \o s)[i] = t[i]
  <2>1. CASE i <= m
    BY <1>1, <1>2, <1>3, <1>4, <2>1
  <2>2. CASE ~(i <= m)
    <3>1. i - m \in 1 .. Len(s)
      BY <1>1, <2>2 DEF n
    <3>2. s[i - m] = base + m + (i - m)
      BY <3>1
    <3>3. i \in Nat /\ base + m + (i - m) = base + i
      BY <1>1
    <3>4. (r \o s)[i] = s[i - m]
      BY <1>4, <2>2
    <3>5. QED
      BY <1>3, <3>2, <3>3, <3>4
  <2>3. QED
    BY <2>1, <2>2
<1>6. r \o s = t
  BY <1>3, <1>4, <1>5, SeqEqual
<1>7. QED
  BY <1>6 DEF r, t, n, mn

\* The two parts of a reply that follows an id.
LEMMA ReplyParts ==
  ASSUME NEW base \in Nat, NEW reply \in Seq(Nat), Follows(reply, base), NEW n \in 0 .. Len(reply)
  PROVE  /\ SubSeq(reply, 1, n) \in Seq(Nat)
         /\ Len(SubSeq(reply, 1, n)) = n
         /\ \A i \in 1 .. n : SubSeq(reply, 1, n)[i] = base + i
         /\ SubSeq(reply, n + 1, Len(reply)) \in Seq(Nat)
         /\ Follows(SubSeq(reply, n + 1, Len(reply)), base + n)
<1> DEFINE first == SubSeq(reply, 1, n)
           rest == SubSeq(reply, n + 1, Len(reply))
<1>1. Len(reply) \in Nat /\ n \in Nat /\ \A i \in 1 .. Len(reply) : reply[i] \in Nat /\ reply[i] = base + i
  BY SeqElements DEF Follows
<1>2. \A i \in 1 .. n : reply[i] \in Nat
  BY <1>1
<1>3. /\ first \in Seq(Nat) /\ Len(first) = IF 1 <= n THEN n - 1 + 1 ELSE 0
      /\ \A i \in 1 .. n - 1 + 1 : first[i] = reply[1 + i - 1]
  BY <1>1, <1>2, SubSeqProperties
<1>4. \A i \in n + 1 .. Len(reply) : reply[i] \in Nat
  BY <1>1
<1>5. /\ rest \in Seq(Nat)
      /\ Len(rest) = IF n + 1 <= Len(reply) THEN Len(reply) - (n + 1) + 1 ELSE 0
      /\ \A i \in 1 .. Len(reply) - (n + 1) + 1 : rest[i] = reply[n + 1 + i - 1]
  BY <1>1, <1>4, SubSeqProperties
<1> HIDE DEF first, rest
<1>6. Len(first) = n /\ \A i \in 1 .. n : first[i] = base + i
  BY <1>1, <1>3
<1>7. Len(rest) = Len(reply) - n
  BY <1>1, <1>5
<1>8. ASSUME NEW i \in 1 .. Len(rest)
      PROVE  rest[i] = base + n + i
  <2>1. n + i \in 1 .. Len(reply) /\ i \in 1 .. Len(reply) - (n + 1) + 1 /\ n + 1 + i - 1 = n + i
    BY <1>1, <1>7
  <2>2. rest[i] = reply[n + i]
    BY <1>5, <2>1
  <2>3. reply[n + i] = base + (n + i)
    BY <1>1, <2>1
  <2>4. QED
    BY <1>1, <2>1, <2>2, <2>3
<1>9. base + n + Len(rest) <= Len(input)
  BY <1>1, <1>7 DEF Follows
<1>10. QED
  BY <1>3, <1>5, <1>6, <1>8, <1>9 DEF Follows, first, rest

-----------------------------------------------------------------------------
\* A live loop with a reply.
Runs(l, base, reply) ==
  /\ Live(l) /\ base = Base(loops[l]) /\ Follows(reply, base)
  /\ input' = input /\ running' = running

LEMMA RanType ==
  ASSUME TypeInv, NEW l \in Loops, NEW base \in Nat, NEW reply \in Seq(Nat), NEW n,
         Runs(l, base, reply), Ran(l, base, reply, n), output' \in Seq(Nat \X Nat)
  PROVE  TypeInv'
<1>1. n \in 0 .. Len(reply) /\ Len(reply) \in Nat
  BY SeqElements DEF Ran
<1>2. SubSeq(reply, 1, n) \in Seq(Nat)
  BY <1>1, ReplyParts DEF Runs
<1>3. taken' \in Seq(Nat)
  BY <1>2, ConcatProperties DEF Ran, TypeInv
<1>4. lastId' \in Nat \union {Latest} /\ since' \in Nat
  BY <1>1 DEF Ran, TypeInv
<1>5. QED
  BY <1>3, <1>4 DEF Ran, Runs, TypeInv

LEMMA RanPlace ==
  ASSUME TypeInv, PlaceInv, NEW l \in Loops, NEW base \in Nat, NEW reply \in Seq(Nat), NEW n,
         Runs(l, base, reply), Ran(l, base, reply, n)
  PROVE  PlaceInv'
<1>1. /\ n \in Nat /\ Len(reply) \in Nat /\ n <= Len(reply) /\ Len(input) \in Nat
      /\ base + Len(reply) <= Len(input)
      /\ lastId \in Nat \union {Latest} /\ since \in Nat /\ Latest \notin Nat
      /\ lastId # Latest => since <= lastId /\ base = lastId
  BY SeqElements, RedisStreamsAssumption DEF Ran, Runs, Follows, PlaceInv, Placed, TypeInv
<1>2. /\ lastId' = IF n = 0 THEN lastId ELSE base + n
      /\ since' = IF lastId = Latest /\ n > 0 THEN base ELSE since
      /\ input' = input
  BY DEF Ran, Runs
<1>3. lastId' # Latest => since' <= lastId' /\ lastId' <= Len(input)
  BY <1>1, <1>2
<1>4. \A k \in Loops \ {l} : ~Live(k) /\ loops'[k] = loops[k]
  BY DEF Ran, Runs, PlaceInv
<1>5. \A k \in Loops : Live(k)' => k = l
  BY <1>4 DEF Live
<1>6. CASE n > 0 /\ loops'[l].pc = "adding" /\ loops'[l].at = base + n
           /\ loops'[l].reply = SubSeq(reply, n + 1, Len(reply))
  <2>1. lastId' = base + n /\ base + n # Latest /\ base + n # 0 /\ base + n <= Len(input)
    BY <1>1, <1>2, <1>6
  <2>2. Follows(SubSeq(reply, n + 1, Len(reply)), base + n)
    BY <1>1, ReplyParts DEF Runs
  <2>3. Base(loops[l])' = base + n
    BY <1>6 DEF Base
  <2>4. Follows(loops[l].reply, Base(loops[l]))'
    BY <1>2, <1>6, <2>2, <2>3 DEF Follows
  <2>5. Placed(l)'
    BY <1>2, <1>6, <2>1, <2>3, <2>4 DEF Placed
  <2>6. QED
    BY <1>2, <1>3, <1>5, <2>5 DEF PlaceInv
<1>7. CASE /\ loops'[l].pc = IF running THEN "reading" ELSE "ended"
           /\ loops'[l].at = 0
           /\ loops'[l].pc = "reading" => loops'[l].from = ReadFrom(lastId')
  <2>1. loops'[l].pc \in {"reading", "ended"} /\ loops'[l].at = 0
    BY <1>7
  <2>2. Live(l)' => /\ loops'[l].pc = "reading"
                    /\ Base(loops[l])' <= Len(input')
                    /\ lastId' # Latest => Base(loops[l])' = lastId'
    BY <1>1, <1>2, <1>3, <1>7 DEF Live, Base, ReadFrom
  <2>3. Live(l)' => Placed(l)'
    BY <2>1, <2>2 DEF Placed
  <2>4. QED
    BY <1>2, <1>3, <1>5, <2>3 DEF PlaceInv
<1>8. QED
  BY <1>6, <1>7 DEF Ran

LEMMA RanTaken ==
  ASSUME TypeInv, PlaceInv, IngestedOnceInOrder,
         NEW l \in Loops, NEW base \in Nat, NEW reply \in Seq(Nat), NEW n,
         Runs(l, base, reply), Ran(l, base, reply, n)
  PROVE  IngestedOnceInOrder'
<1> DEFINE s == SubSeq(reply, 1, n)
<1>1. /\ n \in Nat /\ n \in 0 .. Len(reply) /\ n <= Len(reply) /\ Len(reply) \in Nat
      /\ lastId \in Nat \union {Latest} /\ since \in Nat /\ Latest \notin Nat
      /\ lastId # Latest => since <= lastId /\ base = lastId
  BY SeqElements, RedisStreamsAssumption DEF Ran, Runs, PlaceInv, Placed, TypeInv
<1>2. /\ lastId' = IF n = 0 THEN lastId ELSE base + n
      /\ since' = IF lastId = Latest /\ n > 0 THEN base ELSE since
      /\ taken' = taken \o s
  BY DEF Ran
<1>3. s \in Seq(Nat) /\ Len(s) = n /\ \A i \in 1 .. n : s[i] = base + i
  BY <1>1, ReplyParts DEF Runs
<1> HIDE DEF s
<1>4. taken = IF lastId = Latest THEN <<>> ELSE Run(since, lastId - since)
  BY DEF IngestedOnceInOrder, Run
<1>5. CASE lastId = Latest
  <2>1. taken' = s
    BY <1>2, <1>3, <1>4, <1>5, ConcatEmptySeq
  <2>2. CASE n = 0
    <3>1. s = <<>>
      BY <1>3, <2>2, EmptySeq
    <3>2. QED
      BY <1>2, <1>5, <2>1, <2>2, <3>1 DEF IngestedOnceInOrder
  <2>3. CASE n > 0
    <3>1. Run(base, n) \in Seq(Nat) /\ Len(Run(base, n)) = n /\ \A i \in 1 .. n : Run(base, n)[i] = base + i
      BY <1>1, RunType
    <3>2. s = Run(base, n)
      BY <1>3, <3>1, SeqEqual
    <3>3. lastId' = base + n /\ since' = base /\ lastId' # Latest /\ lastId' - since' = n
      BY <1>1, <1>2, <1>5, <2>3
    <3>4. QED
      BY <2>1, <3>2, <3>3 DEF IngestedOnceInOrder, Run
  <2>4. QED
    BY <1>1, <2>2, <2>3
<1>6. CASE lastId # Latest
  <2> DEFINE m == lastId - since
  <2>1. m \in Nat /\ base = since + m
    BY <1>1, <1>6
  <2> HIDE DEF m
  <2>2. \A i \in 1 .. Len(s) : s[i] = since + m + i
    BY <1>3, <2>1
  <2>3. Run(since, m) \o s = Run(since, m + Len(s))
    BY <1>1, <1>3, <2>1, <2>2, RunConcat
  <2>4. taken' = Run(since, m + n)
    BY <1>2, <1>3, <1>4, <1>6, <2>3 DEF m
  <2>5. since' = since /\ lastId' # Latest /\ lastId' - since' = m + n
    BY <1>1, <1>2, <1>6, <2>1
  <2>6. QED
    BY <2>4, <2>5 DEF IngestedOnceInOrder, Run
<1>7. QED
  BY <1>5, <1>6

-----------------------------------------------------------------------------
\* A loop that has taken a reply up, or added the last event of an entry, runs on.
RunsOn(l) ==
  /\ Base(loops[l]) \in Nat /\ loops[l].reply \in Seq(Nat)
  /\ Runs(l, Base(loops[l]), loops[l].reply)
  /\ \E n : Ran(l, Base(loops[l]), loops[l].reply, n)

LEMMA ResumeRuns ==
  ASSUME TypeInv, PlaceInv, NEW l \in Loops,
         Resume(l) \/ (Added(l) /\ ~(loops[l].left > 1))
  PROVE  RunsOn(l)
<1> DEFINE base == Base(loops[l])
           reply == loops[l].reply
<1>1. base \in Nat /\ reply \in Seq(Nat)
  BY DEF TypeInv, LoopStates, Base
<1>2. Live(l) /\ loops[l].pc \in {"replied", "adding"} /\ input' = input /\ running' = running
  BY DEF Resume, Added, Live
<1>3. RunOn(l, reply)
  BY DEF Resume, Added
<1>4. Follows(reply, base)
  BY <1>2 DEF PlaceInv, Placed
<1> HIDE DEF base, reply
<1>5. \E n : Ran(l, base, reply, n)
  BY <1>1, <1>3, <1>4, RunOnRan
<1>6. Runs(l, base, reply)
  BY <1>2, <1>4 DEF Runs, base
<1>7. QED
  BY <1>1, <1>5, <1>6 DEF RunsOn, base, reply

\* Adding an event that is not the last only moves the loop to the next event.
LEMMA AddedMore ==
  ASSUME TypeInv, NEW l \in Loops, Added(l), loops[l].left > 1
  PROVE  /\ loops' \in [Loops -> LoopStates]
         /\ \A k \in Loops \ {l} : loops'[k] = loops[k]
         /\ loops'[l] = [loops[l] EXCEPT !.left = @ - 1]
         /\ UNCHANGED <<input, running, lastId, taken, since>>
<1> DEFINE c == [loops[l] EXCEPT !.left = @ - 1]
<1>1. c \in LoopStates
  <2>1. loops[l] \in LoopStates
    BY DEF TypeInv
  <2>2. loops[l].left - 1 \in Nat
    BY <2>1 DEF LoopStates
  <2>3. QED
    BY <2>1, <2>2 DEF LoopStates
<1>2. loops' = [loops EXCEPT ![l] = c] /\ UNCHANGED <<input, running, lastId, taken, since>>
  BY DEF Added
<1> HIDE DEF c
<1>3. loops' \in [Loops -> LoopStates] /\ loops'[l] = c /\ \A k \in Loops \ {l} : loops'[k] = loops[k]
  BY <1>1, <1>2 DEF TypeInv
<1>4. QED
  BY <1>2, <1>3 DEF c

\* What Redis answers follows the id it was asked with.
LEMMA AnswerOutcome ==
  ASSUME TypeInv, PlaceInv, NEW l \in Loops, Answer(l)
  PROVE  /\ UNCHANGED <<input, lastId, running, taken, output, since>>
         /\ loops' \in [Loops -> LoopStates]
         /\ \A k \in Loops \ {l} : loops'[k] = loops[k]
         /\ loops'[l].pc = "replied" /\ loops'[l].from = loops[l].from /\ loops'[l].at = loops[l].at
         /\ Follows(loops'[l].reply, loops[l].from)
<1> DEFINE from == loops[l].from
           count == IF Len(input) - from < BatchSize THEN Len(input) - from ELSE BatchSize
           reply == Run(from, count)
           c == [loops[l] EXCEPT !.pc = "replied", !.reply = reply]
<1>1. from \in Nat /\ loops[l] \in LoopStates /\ Len(input) \in Nat
  BY SeqElements DEF TypeInv, LoopStates
<1>2. from <= Len(input)
  BY DEF Answer, PlaceInv, Placed, Live, Base
<1>3. count \in Nat /\ from + count <= Len(input)
  BY <1>1, <1>2, RedisStreamsAssumption
<1> HIDE DEF from, count
<1>4. reply \in Seq(Nat) /\ Len(reply) = count /\ \A i \in 1 .. count : reply[i] = from + i
  BY <1>1, <1>3, RunType
<1>5. /\ UNCHANGED <<input, lastId, running, taken, output, since>>
      /\ loops' = [loops EXCEPT ![l].pc = "replied", ![l].reply = reply]
  BY DEF Answer, from, count, Run
<1> HIDE DEF reply
<1>6. loops' = [loops EXCEPT ![l] = c]
  BY <1>5 DEF TypeInv
<1>7. c \in LoopStates /\ c.pc = "replied" /\ c.from = from /\ c.at = loops[l].at /\ c.reply = reply
  BY <1>1, <1>4 DEF LoopStates, from
<1> HIDE DEF c
<1>8. loops' \in [Loops -> LoopStates] /\ loops'[l] = c /\ \A k \in Loops \ {l} : loops'[k] = loops[k]
  BY <1>6, <1>7 DEF TypeInv
<1>9. Follows(reply, from)
  BY <1>3, <1>4 DEF Follows
<1>10. QED
  BY <1>5, <1>7, <1>8, <1>9 DEF from

LEMMA StartOutcome ==
  ASSUME TypeInv, NEW l \in Loops, Start(l)
  PROVE  /\ UNCHANGED <<input, lastId, taken, output, since>> /\ running' = TRUE
         /\ loops' \in [Loops -> LoopStates]
         /\ \A k \in Loops \ {l} : loops'[k] = loops[k]
         /\ loops'[l].pc = "reading" /\ loops'[l].from = ReadFrom(lastId) /\ loops'[l].at = 0
<1> DEFINE c == [NewLoop EXCEPT !.pc = "reading", !.from = ReadFrom(lastId)]
<1>1. ReadFrom(lastId) \in Nat
  BY SeqElements DEF ReadFrom, TypeInv
<1>2. c \in LoopStates /\ c.pc = "reading" /\ c.from = ReadFrom(lastId) /\ c.at = 0
  BY <1>1, NewLoopType DEF NewLoop, LoopStates
<1>3. loops' = [loops EXCEPT ![l] = c] /\ running' = TRUE /\ UNCHANGED <<input, lastId, taken, output, since>>
  BY DEF Start
<1> HIDE DEF c
<1>4. loops' \in [Loops -> LoopStates] /\ loops'[l] = c /\ \A k \in Loops \ {l} : loops'[k] = loops[k]
  BY <1>2, <1>3 DEF TypeInv
<1>5. QED
  BY <1>2, <1>3, <1>4

\* A loop adds an event, whether its call of XADD is answered or not.
Adds(l) == loops[l].pc = "adding" /\ output' = Append(output, Adding(l))

LEMMA RejectedOutcome ==
  ASSUME TypeInv, NEW l \in Loops, Rejected(l)
  PROVE  /\ UNCHANGED <<input, lastId, running, taken, since>>
         /\ output' = output \/ Adds(l)
         /\ loops' \in [Loops -> LoopStates]
         /\ \A k \in Loops \ {l} : loops'[k] = loops[k]
         /\ loops'[l].pc = "failed" /\ loops'[l].at = loops[l].at /\ loops'[l].left = loops[l].left
<1> DEFINE c == [loops[l] EXCEPT !.pc = "failed"]
<1>1. c \in LoopStates /\ c.pc = "failed" /\ c.at = loops[l].at /\ c.left = loops[l].left
  BY DEF TypeInv, LoopStates
<1>2. /\ loops' = [loops EXCEPT ![l] = c] /\ UNCHANGED <<input, lastId, running, taken, since>>
      /\ output' = output \/ Adds(l)
  BY DEF Rejected, Adds
<1> HIDE DEF c
<1>3. loops' \in [Loops -> LoopStates] /\ loops'[l] = c /\ \A k \in Loops \ {l} : loops'[k] = loops[k]
  BY <1>1, <1>2 DEF TypeInv
<1>4. QED
  BY <1>1, <1>2, <1>3

LEMMA WriteOutcome ==
  ASSUME TypeInv, NEW entry \in Entries, Write(entry)
  PROVE  /\ UNCHANGED <<lastId, running, loops, taken, output, since>>
         /\ input' \in Seq(Nat \union {Bad})
         /\ Len(input') = Len(input) + 1
         /\ \A id \in 1 .. Len(input) : input'[id] = input[id]
<1>1. entry \in Nat \union {Bad}
  BY RedisStreamsAssumption
<1>2. input' = Append(input, entry) /\ input \in Seq(Nat \union {Bad})
  BY DEF Write, TypeInv
<1>3. UNCHANGED <<lastId, running, loops, taken, output, since>>
  BY DEF Write
<1>4. QED
  BY <1>1, <1>2, <1>3

\* What one step does, loop by loop.
LEMMA NextCases ==
  ASSUME [Next]_vars
  PROVE  \/ \E entry \in Entries : Write(entry)
         \/ Stop
         \/ \E l \in Loops : Start(l) \/ Answer(l) \/ Rejected(l) \/ Added(l) \/ Resume(l)
         \/ UNCHANGED vars
BY DEF Next

LEMMA InitType == Init => TypeInv
<1> SUFFICES ASSUME Init PROVE TypeInv
  OBVIOUS
<1>1. loops \in [Loops -> LoopStates]
  BY NewLoopType DEF Init
<1>2. <<>> \in Seq(Nat \union {Bad}) /\ <<>> \in Seq(Nat) /\ <<>> \in Seq(Nat \X Nat)
  BY EmptySeq
<1>3. lastId \in Nat \union {Latest} /\ since \in Nat
  BY RedisStreamsAssumption DEF Init
<1>4. running \in BOOLEAN
  BY DEF Init
<1>5. input = <<>> /\ taken = <<>> /\ output = <<>>
  BY DEF Init
<1>6. QED
  BY <1>1, <1>2, <1>3, <1>4, <1>5 DEF TypeInv

LEMMA AddedType ==
  ASSUME TypeInv, PlaceInv, DebtInv, NEW l \in Loops, Adds(l)
  PROVE  /\ input[loops[l].at] \in Nat /\ loops[l].at \in Taken /\ loops[l].at \in Nat
         /\ loops[l].left \in 1 .. input[loops[l].at]
         /\ Owes(loops[l]) /\ Live(l) /\ lastId # Latest /\ loops[l].at = lastId
         /\ AddedOf(output, loops[l].at) = FirstOf(loops[l].at, input[loops[l].at] - loops[l].left)
         /\ output' \in Seq(Nat \X Nat)
         /\ Range(output') = Range(output) \union {<<loops[l].at, input[loops[l].at] - loops[l].left + 1>>}
<1> DEFINE at == loops[l].at
           left == loops[l].left
           e == <<at, input[at] - left + 1>>
<1>1. loops[l].pc = "adding" /\ Live(l)
  BY DEF Adds, Live
<1>2. Owes(loops[l]) /\ lastId # Latest /\ at = lastId
  BY <1>1 DEF PlaceInv, Placed, Owes, Base
<1>3. /\ at \in Taken /\ input[at] \in Nat /\ left \in 1 .. input[at]
      /\ AddedOf(output, at) = FirstOf(at, input[at] - left)
  BY <1>1, <1>2 DEF DebtInv, Accounted, Owed
<1>4. at \in Nat
  BY DEF TypeInv, LoopStates
<1>5. input[at] - left + 1 \in Nat
  BY <1>3
<1>6. e \in Nat \X Nat
  BY <1>4, <1>5
<1>7. output' = Append(output, e)
  BY DEF Adds, Adding
<1> HIDE DEF e
<1>8. output' \in Seq(Nat \X Nat) /\ Range(output') = Range(output) \union {e}
  <2> DEFINE S == Nat \X Nat
             out == output
  <2>1. out \in Seq(S) /\ e \in S
    BY <1>6 DEF TypeInv
  <2> HIDE DEF S, out
  <2>2. Append(out, e) \in Seq(S) /\ Range(Append(out, e)) = Range(out) \union {e}
    BY <2>1, AppendRange
  <2>3. QED
    BY <1>7, <2>2 DEF S, out
<1>9. QED
  BY <1>1, <1>2, <1>3, <1>4, <1>8 DEF e

LEMMA TypeStep == TypeInv /\ PlaceInv /\ DebtInv /\ [Next]_vars => TypeInv'
<1> SUFFICES ASSUME TypeInv, PlaceInv, DebtInv, [Next]_vars PROVE TypeInv'
  OBVIOUS
<1>1. ASSUME NEW entry \in Entries, Write(entry) PROVE TypeInv'
  BY <1>1, WriteOutcome DEF TypeInv
<1>2. Stop => TypeInv'
  BY DEF Stop, TypeInv
<1>3. ASSUME NEW l \in Loops, Start(l) PROVE TypeInv'
  BY <1>3, StartOutcome DEF TypeInv
<1>4. ASSUME NEW l \in Loops, Answer(l) PROVE TypeInv'
  BY <1>4, AnswerOutcome DEF TypeInv
<1>5. ASSUME NEW l \in Loops, Rejected(l) PROVE TypeInv'
  <2>1. output' = output \/ Adds(l)
    BY <1>5, RejectedOutcome
  <2>2. output' \in Seq(Nat \X Nat)
    BY <2>1, AddedType DEF TypeInv
  <2>3. QED
    BY <1>5, <2>2, RejectedOutcome DEF TypeInv
<1>6. ASSUME NEW l \in Loops, Resume(l) \/ Added(l) PROVE TypeInv'
  <2>1. output' = output \/ Adds(l)
    BY <1>6 DEF Resume, Added, Adds
  <2>2. output' \in Seq(Nat \X Nat)
    BY <2>1, AddedType DEF TypeInv
  <2>3. CASE Added(l) /\ loops[l].left > 1
    BY <2>2, <2>3, AddedMore DEF TypeInv
  <2>4. CASE Resume(l) \/ (Added(l) /\ ~(loops[l].left > 1))
    BY <2>2, <2>4, ResumeRuns, RanType DEF RunsOn
  <2>5. QED
    BY <1>6, <2>3, <2>4
<1>7. UNCHANGED vars => TypeInv'
  BY DEF vars, TypeInv
<1>8. QED
  BY <1>1, <1>2, <1>3, <1>4, <1>5, <1>6, <1>7, NextCases

-----------------------------------------------------------------------------
LEMMA InitPlace == Init => PlaceInv
BY RedisStreamsAssumption DEF Init, PlaceInv, Live, NewLoop

\* A step of one loop that takes nothing.
LEMMA StillPlaced ==
  ASSUME TypeInv, PlaceInv, NEW l \in Loops, UNCHANGED <<input, lastId, since>>,
         \A k \in Loops \ {l} : loops'[k] = loops[k],
         Live(l)' => Placed(l)' /\ \A k \in Loops \ {l} : ~Live(k)
  PROVE  PlaceInv'
<1>1. \A k \in Loops \ {l} : Live(k)' <=> Live(k)
  BY DEF Live
<1>2. \A k \in Loops \ {l} : Live(k) => Placed(k)'
  BY DEF PlaceInv, Placed, Follows
<1>3. QED
  BY <1>1, <1>2 DEF PlaceInv

LEMMA OthersRest ==
  ASSUME PlaceInv, NEW l \in Loops, Live(l)
  PROVE  \A k \in Loops \ {l} : ~Live(k)
BY DEF PlaceInv

LEMMA PlaceStep ==
  ASSUME OneAtATime
  PROVE  TypeInv /\ PlaceInv /\ [Next]_vars => PlaceInv'
<1> SUFFICES ASSUME TypeInv, PlaceInv, [Next]_vars PROVE PlaceInv'
  OBVIOUS
<1>1. ASSUME NEW entry \in Entries, Write(entry) PROVE PlaceInv'
  <2>1. /\ UNCHANGED <<lastId, loops, since>> /\ Len(input) \in Nat
        /\ Len(input') = Len(input) + 1 /\ lastId \in Nat \union {Latest}
    BY <1>1, WriteOutcome, SeqElements DEF TypeInv
  <2>2. \A l \in Loops : Live(l)' <=> Live(l)
    BY <2>1 DEF Live
  <2>3. ASSUME NEW l \in Loops, Placed(l) PROVE Placed(l)'
    <3>1. loops[l].from \in Nat /\ loops[l].at \in Nat /\ loops[l].reply \in Seq(Nat) /\ Base(loops[l]) \in Nat
      BY DEF TypeInv, LoopStates, Base
    <3>2. Len(loops[l].reply) \in Nat
      BY <3>1, SeqElements
    <3>3. Base(loops[l])' = Base(loops[l])
      BY <2>1 DEF Base
    <3>4. Follows(loops[l].reply, Base(loops[l])) => Follows(loops[l].reply, Base(loops[l]))'
      BY <2>1, <3>1, <3>2, <3>3 DEF Follows
    <3>5. QED
      BY <2>1, <2>3, <3>1, <3>3, <3>4 DEF Placed
  <2>4. lastId' # Latest => since' <= lastId' /\ lastId' <= Len(input')
    BY <2>1, RedisStreamsAssumption DEF PlaceInv
  <2>5. QED
    BY <2>1, <2>2, <2>3, <2>4 DEF PlaceInv
<1>2. UNCHANGED <<input, lastId, loops, since>> => PlaceInv'
  BY DEF PlaceInv, Placed, Live, Follows, Base
<1>3. ASSUME NEW l \in Loops, Start(l) PROVE PlaceInv'
  <2>1. /\ UNCHANGED <<input, lastId, since>>
        /\ \A k \in Loops \ {l} : loops'[k] = loops[k]
        /\ loops'[l].pc = "reading" /\ loops'[l].from = ReadFrom(lastId) /\ loops'[l].at = 0
    BY <1>3, StartOutcome
  <2>2. \A k \in Loops : ~Live(k)
    BY <1>3 DEF Start
  <2>3. Base(loops[l])' = ReadFrom(lastId) /\ ReadFrom(lastId) <= Len(input)
        /\ (lastId # Latest => ReadFrom(lastId) = lastId)
    BY <2>1, SeqElements DEF Base, ReadFrom, PlaceInv, TypeInv
  <2>4. Placed(l)'
    BY <2>1, <2>3 DEF Placed
  <2>5. QED
    BY <2>1, <2>2, <2>4, StillPlaced
<1>4. ASSUME NEW l \in Loops, Answer(l) PROVE PlaceInv'
  <2>1. /\ UNCHANGED <<input, lastId, since>>
        /\ \A k \in Loops \ {l} : loops'[k] = loops[k]
        /\ loops'[l].pc = "replied" /\ loops'[l].from = loops[l].from /\ loops'[l].at = loops[l].at
        /\ Follows(loops'[l].reply, loops[l].from)
    BY <1>4, AnswerOutcome
  <2>2. loops[l].pc = "reading" /\ Live(l)
    BY <1>4 DEF Answer, Live
  <2>3. Base(loops[l])' = Base(loops[l]) /\ Base(loops[l]) = loops[l].from
    BY <2>1, <2>2 DEF Base
  <2>4. Follows(loops[l].reply, Base(loops[l]))'
    BY <2>1, <2>3 DEF Follows
  <2>5. Placed(l)'
    BY <2>1, <2>2, <2>3, <2>4 DEF Placed, PlaceInv
  <2>6. QED
    BY <2>1, <2>2, <2>5, OthersRest, StillPlaced
<1>5. ASSUME NEW l \in Loops, Rejected(l) PROVE PlaceInv'
  <2>1. /\ UNCHANGED <<input, lastId, since>>
        /\ \A k \in Loops \ {l} : loops'[k] = loops[k]
        /\ ~Live(l)'
    BY <1>5, RejectedOutcome DEF Live
  <2>2. QED
    BY <2>1, StillPlaced
<1>6. ASSUME NEW l \in Loops, Added(l), loops[l].left > 1 PROVE PlaceInv'
  <2>1. /\ UNCHANGED <<input, lastId, since>>
        /\ \A k \in Loops \ {l} : loops'[k] = loops[k]
        /\ loops'[l] = [loops[l] EXCEPT !.left = @ - 1]
        /\ loops[l] \in LoopStates
    BY <1>6, AddedMore DEF TypeInv
  <2>2. /\ loops'[l].pc = loops[l].pc /\ loops'[l].at = loops[l].at /\ loops'[l].from = loops[l].from
        /\ loops'[l].reply = loops[l].reply
    BY <2>1 DEF LoopStates
  <2>3. Live(l) /\ Placed(l)
    BY <1>6 DEF Added, Live, PlaceInv
  <2>4. Placed(l)'
    BY <2>1, <2>2, <2>3 DEF Placed, Base, Follows
  <2>5. QED
    BY <2>1, <2>3, <2>4, OthersRest, StillPlaced
<1>7. ASSUME NEW l \in Loops, Resume(l) \/ (Added(l) /\ ~(loops[l].left > 1)) PROVE PlaceInv'
  BY <1>7, ResumeRuns, RanPlace DEF RunsOn
<1>8. QED
  BY <1>1, <1>2, <1>3, <1>4, <1>5, <1>6, <1>7, NextCases DEF Stop, vars

-----------------------------------------------------------------------------
LEMMA TakenStep == TypeInv /\ PlaceInv /\ IngestedOnceInOrder /\ [Next]_vars => IngestedOnceInOrder'
<1> SUFFICES ASSUME TypeInv, PlaceInv, IngestedOnceInOrder, [Next]_vars PROVE IngestedOnceInOrder'
  OBVIOUS
<1>1. UNCHANGED <<taken, lastId, since>> => IngestedOnceInOrder'
  BY DEF IngestedOnceInOrder
<1>2. ASSUME NEW l \in Loops, Resume(l) \/ (Added(l) /\ ~(loops[l].left > 1)) PROVE IngestedOnceInOrder'
  BY <1>2, ResumeRuns, RanTaken DEF RunsOn
<1>3. ASSUME NEW l \in Loops, Added(l), loops[l].left > 1 PROVE IngestedOnceInOrder'
  BY <1>1, <1>3, AddedMore
<1>4. QED
  BY <1>1, <1>2, <1>3, NextCases DEF Write, Stop, Start, Answer, Rejected, vars

-----------------------------------------------------------------------------
LEMMA OwedStill ==
  ASSUME NEW out, NEW events, NEW c, NEW d, Owed(out, c, events),
         d.at = c.at, d.left = c.left, c.pc = "failed" => d.pc = "failed"
  PROVE  Owed(out, d, events)
BY DEF Owed

LEMMA OwedElsewhere ==
  ASSUME NEW out, NEW more, NEW events, NEW c, Owed(out, c, events),
         AddedOf(more, c.at) = AddedOf(out, c.at)
  PROVE  Owed(more, c, events)
BY DEF Owed

\* A step that takes nothing, adds nothing and leaves every debt as it is.
LEMMA DebtKept ==
  ASSUME TypeInv, DebtInv, PlaceInv, UNCHANGED <<lastId, since, output>>,
         \A id \in 1 .. Len(input) : input'[id] = input[id],
         \A k \in Loops : /\ Owes(loops'[k]) <=> Owes(loops[k])
                          /\ Owes(loops[k]) => /\ loops'[k].at = loops[k].at
                                               /\ loops'[k].left = loops[k].left
                                               /\ loops[k].pc = "failed" => loops'[k].pc = "failed"
  PROVE  DebtInv'
<1>1. Taken' = Taken /\ \A id \in Taken : input'[id] = input[id]
  <2>1. Taken' = Taken
    BY DEF Taken
  <2>2. /\ Len(input) \in Nat /\ since \in Nat /\ lastId \in Nat \union {Latest}
        /\ lastId # Latest => lastId <= Len(input)
    BY SeqElements DEF TypeInv, PlaceInv
  <2>3. Taken \subseteq 1 .. Len(input)
    BY <2>2 DEF Taken
  <2>4. QED
    BY <2>1, <2>3
<1>2. ASSUME NEW k \in Loops, Owes(loops'[k])
      PROVE  /\ loops'[k].at \in Taken
             /\ input'[loops'[k].at] \in Nat
             /\ loops'[k].left \in 1 .. input'[loops'[k].at]
             /\ Owed(output, loops'[k], input'[loops'[k].at])
  <2>1. /\ Owes(loops[k]) /\ loops'[k].at = loops[k].at /\ loops'[k].left = loops[k].left
        /\ loops[k].pc = "failed" => loops'[k].pc = "failed"
    BY <1>2
  <2>2. /\ loops[k].at \in Taken /\ input[loops[k].at] \in Nat
        /\ loops[k].left \in 1 .. input[loops[k].at]
        /\ Owed(output, loops[k], input[loops[k].at])
    BY <2>1 DEF DebtInv, Accounted
  <2>3. Owed(output, loops'[k], input[loops[k].at])
    BY <2>1, <2>2, OwedStill
  <2>4. QED
    BY <1>1, <2>1, <2>2, <2>3
<1>3. ASSUME NEW id \in Taken, input'[id] # Bad, \A k \in Loops : ~(Owes(loops'[k]) /\ loops'[k].at = id)
      PROVE  AddedOf(output, id) = FirstOf(id, input'[id])
  <2>1. IsValid(id) /\ \A k \in Loops : ~(Owes(loops[k]) /\ loops[k].at = id)
    BY <1>1, <1>3 DEF IsValid
  <2>2. QED
    BY <1>1, <2>1 DEF DebtInv, Accounted
<1>4. \A k, l \in Loops : Owes(loops'[k]) /\ Owes(loops'[l]) /\ loops'[k].at = loops'[l].at => k = l
  BY DEF DebtInv, Accounted
<1>5. \A p \in Range(output) : p[1] \in Taken
  BY DEF DebtInv, Accounted
<1>6. QED
  BY <1>1, <1>2, <1>3, <1>4, <1>5 DEF DebtInv, Accounted, IsValid

LEMMA NothingFirst == \A id : FirstOf(id, 0) = {}
BY DEF FirstOf

\* A loop that runs on, with every event of the entry behind it added, owes at most
\* all the events of the last entry it takes.
LEMMA RanDebt ==
  ASSUME TypeInv, PlaceInv, NEW l \in Loops, NEW base \in Nat, NEW reply \in Seq(Nat), NEW n,
         Runs(l, base, reply), Ran(l, base, reply, n), Accounted(output', Loops \ {l})
  PROVE  DebtInv'
<1> DEFINE out == output'
           old == Taken
           new == base + 1 .. base + n
<1>1. /\ n \in Nat /\ lastId \in Nat \union {Latest} /\ since \in Nat /\ Latest \notin Nat
      /\ lastId # Latest => since <= lastId /\ base = lastId
  BY SeqElements, RedisStreamsAssumption DEF Ran, Runs, PlaceInv, Placed, TypeInv
<1>2. /\ lastId' = IF n = 0 THEN lastId ELSE base + n
      /\ since' = IF lastId = Latest /\ n > 0 THEN base ELSE since
      /\ input' = input
      /\ \A k \in Loops \ {l} : loops'[k] = loops[k]
  BY DEF Ran, Runs
<1>3. Taken' = old \union new
  <2>1. CASE n = 0
    <3>1. new = {} /\ lastId' = lastId /\ since' = since
      BY <1>1, <1>2, <2>1
    <3>2. QED
      BY <3>1 DEF Taken
  <2>2. CASE n # 0 /\ lastId = Latest
    BY <1>1, <1>2, <2>2 DEF Taken
  <2>3. CASE n # 0 /\ lastId # Latest
    BY <1>1, <1>2, <2>3 DEF Taken
  <2>4. QED
    BY <2>1, <2>2, <2>3
<1>4. \A id \in old : id \in Nat /\ id <= base
  BY <1>1 DEF Taken
<1>5. \A id \in new : id \in Nat /\ id > base
  BY <1>1
<1>6. \A p \in Range(out) : p[1] \in old
  BY DEF Accounted
<1>7. ASSUME NEW id \in new PROVE AddedOf(out, id) = {}
  BY <1>4, <1>5, <1>6 DEF AddedOf
<1>8. ASSUME NEW k \in Loops \ {l}, Owes(loops[k])
      PROVE  /\ loops[k].at \in old
             /\ input[loops[k].at] \in Nat
             /\ loops[k].left \in 1 .. input[loops[k].at]
             /\ Owed(out, loops[k], input[loops[k].at])
  BY <1>8 DEF Accounted
<1>9. \A k, m \in Loops \ {l} :
        Owes(loops[k]) /\ Owes(loops[m]) /\ loops[k].at = loops[m].at => k = m
  BY DEF Accounted
<1>10. ASSUME NEW id \in old, input[id] # Bad,
              \A k \in Loops \ {l} : ~(Owes(loops[k]) /\ loops[k].at = id)
       PROVE  AddedOf(out, id) = FirstOf(id, input[id])
  BY <1>10 DEF Accounted, IsValid
<1>11. \/ /\ n > 0 /\ input[base + n] \in Nat \ {0}
          /\ Owes(loops'[l]) /\ loops'[l].at = base + n /\ loops'[l].left = input[base + n]
       \/ ~Owes(loops'[l]) /\ (n > 0 => input[base + n] \in {Bad, 0})
  BY <1>1 DEF Ran, Owes
<1>12. \A i \in 1 .. n - 1 : input[base + i] \in {Bad, 0}
  BY DEF Ran
<1> HIDE DEF out, old, new
<1>13. ASSUME NEW k \in Loops, Owes(loops'[k])
       PROVE  /\ loops'[k].at \in old \union new
              /\ input[loops'[k].at] \in Nat
              /\ loops'[k].left \in 1 .. input[loops'[k].at]
              /\ Owed(out, loops'[k], input[loops'[k].at])
  <2>1. CASE k # l
    BY <1>2, <1>8, <1>13, <2>1
  <2>2. CASE k = l
    <3>1. n > 0 /\ input[base + n] \in Nat \ {0} /\ loops'[k].at = base + n /\ loops'[k].left = input[base + n]
      BY <1>11, <1>13, <2>2
    <3>2. base + n \in new
      BY <1>1, <3>1 DEF new
    <3>3. AddedOf(out, base + n) = {} /\ input[base + n] - input[base + n] = 0
      BY <1>7, <3>1, <3>2
    <3>4. AddedOf(out, base + n) = FirstOf(base + n, input[base + n] - input[base + n])
      BY <3>3, NothingFirst
    <3>5. input[base + n] \in Nat /\ input[base + n] \in 1 .. input[base + n]
      BY <3>1
    <3>6. Owed(out, loops'[k], input[loops'[k].at])
      BY <3>1, <3>4 DEF Owed
    <3>7. QED
      BY <3>1, <3>2, <3>5, <3>6
  <2>3. QED
    BY <2>1, <2>2
<1>14. ASSUME NEW k \in Loops \ {l}, Owes(loops'[k]), Owes(loops'[l])
       PROVE  loops'[k].at # loops'[l].at
  <2>1. loops'[k].at \in old
    BY <1>2, <1>8, <1>14
  <2>2. loops'[l].at = base + n /\ n > 0
    BY <1>11, <1>14
  <2>3. QED
    BY <1>1, <1>4, <2>1, <2>2
<1>15. \A k, m \in Loops :
         Owes(loops'[k]) /\ Owes(loops'[m]) /\ loops'[k].at = loops'[m].at => k = m
  BY <1>2, <1>9, <1>14
<1>16. ASSUME NEW id \in old \union new, input[id] # Bad,
              \A k \in Loops : ~(Owes(loops'[k]) /\ loops'[k].at = id)
       PROVE  AddedOf(out, id) = FirstOf(id, input[id])
  <2>1. CASE id \in old
    BY <1>2, <1>10, <1>16, <2>1
  <2>2. CASE id \in new
    <3>1. PICK i \in 1 .. n : id = base + i
      <4>1. id - base \in 1 .. n /\ id = base + (id - base)
        BY <1>1, <2>2 DEF new
      <4>2. QED
        BY <4>1
    <3>2. input[id] = 0
      <4>1. CASE i = n
        BY <1>1, <1>11, <1>16, <3>1, <4>1
      <4>2. CASE i # n
        <5>1. i \in 1 .. n - 1
          BY <1>1, <4>2
        <5>2. QED
          BY <1>12, <1>16, <3>1, <5>1
      <4>3. QED
        BY <4>1, <4>2
    <3>3. QED
      BY <1>7, <2>2, <3>2, NothingFirst
  <2>3. QED
    BY <1>16, <2>1, <2>2
<1>17. \A p \in Range(out) : p[1] \in old \union new
  BY <1>6
<1>18. QED
  BY <1>2, <1>3, <1>13, <1>15, <1>16, <1>17 DEF DebtInv, Accounted, IsValid, out

\* What one more event makes of what was added.
LEMMA AddedAccounts ==
  ASSUME TypeInv, PlaceInv, DebtInv, NEW l \in Loops, Adds(l)
  PROVE  /\ AddedOf(output', loops[l].at) = FirstOf(loops[l].at, input[loops[l].at] - loops[l].left + 1)
         /\ \A id : id # loops[l].at => AddedOf(output', id) = AddedOf(output, id)
         /\ \A p \in Range(output') : p[1] \in Taken
<1> DEFINE at == loops[l].at
           m == input[at] - loops[l].left
           e == <<at, m + 1>>
           out == output'
<1>1. /\ at \in Taken /\ m \in Nat
      /\ AddedOf(output, at) = FirstOf(at, m)
      /\ Range(out) = Range(output) \union {e}
  BY AddedType
<1>2. \A p \in Range(output) : p[1] \in Taken
  BY DEF DebtInv, Accounted
<1> HIDE DEF at, m, out
<1>3. AddedOf(out, at) = AddedOf(output, at) \union {e}
  BY <1>1 DEF AddedOf
<1>4. FirstOf(at, m + 1) = FirstOf(at, m) \union {e}
  <2>1. 1 .. m + 1 = (1 .. m) \union {m + 1}
    BY <1>1
  <2>2. QED
    BY <2>1 DEF FirstOf
<1>5. \A id : id # at => AddedOf(out, id) = AddedOf(output, id)
  BY <1>1 DEF AddedOf
<1>6. \A p \in Range(out) : p[1] \in Taken
  BY <1>1, <1>2
<1>7. QED
  BY <1>1, <1>3, <1>4, <1>5, <1>6 DEF at, m, out

LEMMA LastAdded ==
  ASSUME TypeInv, PlaceInv, DebtInv, NEW l \in Loops, Adds(l), ~(loops[l].left > 1)
  PROVE  Accounted(output', Loops \ {l})
<1> DEFINE out == output'
           at == loops[l].at
<1>1. /\ AddedOf(out, at) = FirstOf(at, input[at] - loops[l].left + 1)
      /\ \A id : id # at => AddedOf(out, id) = AddedOf(output, id)
      /\ \A p \in Range(out) : p[1] \in Taken
  BY AddedAccounts
<1>2. /\ Owes(loops[l]) /\ input[at] \in Nat /\ loops[l].left \in 1 .. input[at]
  BY AddedType
<1> HIDE DEF out
<1>3. AddedOf(out, at) = FirstOf(at, input[at])
  <2>1. input[at] - loops[l].left + 1 = input[at]
    BY <1>2
  <2>2. QED
    BY <1>1, <2>1
<1>4. \A k \in Loops \ {l} : Owes(loops[k]) => loops[k].at # at
  BY <1>2 DEF DebtInv, Accounted
<1>5. ASSUME NEW k \in Loops \ {l}, Owes(loops[k])
      PROVE  /\ loops[k].at \in Taken
             /\ input[loops[k].at] \in Nat
             /\ loops[k].left \in 1 .. input[loops[k].at]
             /\ Owed(out, loops[k], input[loops[k].at])
  <2>1. AddedOf(out, loops[k].at) = AddedOf(output, loops[k].at)
    BY <1>1, <1>4, <1>5
  <2>2. /\ loops[k].at \in Taken /\ input[loops[k].at] \in Nat
        /\ loops[k].left \in 1 .. input[loops[k].at]
        /\ Owed(output, loops[k], input[loops[k].at])
    BY <1>5 DEF DebtInv, Accounted
  <2>3. QED
    BY <2>1, <2>2, OwedElsewhere
<1>6. ASSUME NEW id \in Taken, IsValid(id), \A k \in Loops \ {l} : ~(Owes(loops[k]) /\ loops[k].at = id)
      PROVE  AddedOf(out, id) = FirstOf(id, input[id])
  <2>1. CASE id = at
    BY <1>3, <2>1
  <2>2. CASE id # at
    <3>1. \A k \in Loops : ~(Owes(loops[k]) /\ loops[k].at = id)
      BY <1>6, <2>2
    <3>2. AddedOf(output, id) = FirstOf(id, input[id])
      BY <1>6, <3>1 DEF DebtInv, Accounted
    <3>3. QED
      BY <1>1, <2>2, <3>2
  <2>3. QED
    BY <2>1, <2>2
<1>7. \A k, m \in Loops \ {l} :
        Owes(loops[k]) /\ Owes(loops[m]) /\ loops[k].at = loops[m].at => k = m
  BY DEF DebtInv, Accounted
<1>8. Accounted(out, Loops \ {l})
  BY <1>1, <1>5, <1>6, <1>7 DEF Accounted
<1>9. QED
  BY <1>8 DEF out

\* An event is added of an entry that the loop still owes events in the end.
LEMMA StillOwing ==
  ASSUME TypeInv, PlaceInv, DebtInv, NEW l \in Loops, Adds(l),
         UNCHANGED <<input, lastId, since>>, \A k \in Loops \ {l} : loops'[k] = loops[k],
         Owes(loops'[l]), loops'[l].at = loops[l].at,
         loops'[l].left \in 1 .. input[loops[l].at],
         Owed(output', loops'[l], input[loops[l].at])
  PROVE  DebtInv'
<1> DEFINE out == output'
           at == loops[l].at
<1>1. /\ \A id : id # at => AddedOf(out, id) = AddedOf(output, id)
      /\ \A p \in Range(out) : p[1] \in Taken
  BY AddedAccounts
<1>2. Owes(loops[l]) /\ at \in Taken /\ input[at] \in Nat
  BY AddedType
<1>3. Taken' = Taken
  BY DEF Taken
<1>4. \A k \in Loops : (Owes(loops'[k]) <=> Owes(loops[k])) /\ loops'[k].at = loops[k].at
  BY <1>2
<1> HIDE DEF out
<1>5. ASSUME NEW k \in Loops, Owes(loops[k])
      PROVE  /\ loops[k].at \in Taken
             /\ input[loops[k].at] \in Nat
             /\ loops'[k].left \in 1 .. input[loops[k].at]
             /\ Owed(out, loops'[k], input[loops[k].at])
  <2>1. CASE k = l
    BY <1>2, <2>1 DEF out
  <2>2. CASE k # l
    <3>1. loops[k].at # at
      BY <1>2, <1>5, <2>2 DEF DebtInv, Accounted
    <3>2. AddedOf(out, loops[k].at) = AddedOf(output, loops[k].at) /\ loops'[k] = loops[k]
      BY <1>1, <2>2, <3>1
    <3>3. /\ loops[k].at \in Taken /\ input[loops[k].at] \in Nat
          /\ loops[k].left \in 1 .. input[loops[k].at]
          /\ Owed(output, loops[k], input[loops[k].at])
      BY <1>5 DEF DebtInv, Accounted
    <3>4. Owed(out, loops[k], input[loops[k].at])
      BY <3>2, <3>3, OwedElsewhere
    <3>5. QED
      BY <3>2, <3>3, <3>4
  <2>3. QED
    BY <2>1, <2>2
<1>6. ASSUME NEW id \in Taken, IsValid(id), \A k \in Loops : ~(Owes(loops[k]) /\ loops[k].at = id)
      PROVE  AddedOf(out, id) = FirstOf(id, input[id])
  <2>1. id # at
    BY <1>2, <1>6
  <2>2. QED
    BY <1>1, <1>6, <2>1 DEF DebtInv, Accounted
<1>7. \A k, m \in Loops : Owes(loops[k]) /\ Owes(loops[m]) /\ loops[k].at = loops[m].at => k = m
  BY DEF DebtInv, Accounted
<1>8. \A p \in Range(out) : p[1] \in Taken
  BY <1>1
<1>9. QED
  BY <1>3, <1>4, <1>5, <1>6, <1>7, <1>8 DEF DebtInv, Accounted, IsValid, out

LEMMA MoreAdded ==
  ASSUME TypeInv, PlaceInv, DebtInv, NEW l \in Loops, Added(l), loops[l].left > 1
  PROVE  DebtInv'
<1> DEFINE at == loops[l].at
           left == loops[l].left
<1>1. Adds(l)
  BY DEF Added, Adds
<1>2. /\ Owes(loops[l]) /\ input[at] \in Nat /\ left \in 1 .. input[at]
      /\ AddedOf(output', at) = FirstOf(at, input[at] - left + 1)
  BY <1>1, AddedType, AddedAccounts
<1>3. /\ \A k \in Loops \ {l} : loops'[k] = loops[k]
      /\ loops'[l] = [loops[l] EXCEPT !.left = @ - 1]
      /\ UNCHANGED <<input, lastId, since>>
      /\ loops[l] \in LoopStates
  BY AddedMore DEF TypeInv
<1>4. loops'[l].pc = loops[l].pc /\ loops'[l].at = at /\ loops'[l].left = left - 1
  BY <1>3 DEF LoopStates
<1>5. left - 1 \in 1 .. input[at] /\ input[at] - (left - 1) = input[at] - left + 1
  BY <1>2
<1>6. Owes(loops'[l]) /\ loops'[l].left \in 1 .. input[at] /\ Owed(output', loops'[l], input[at])
  BY <1>2, <1>4, <1>5 DEF Owes, Owed
<1>7. QED
  BY <1>1, <1>3, <1>4, <1>6, StillOwing

\* A call of XADD that fails once the event was added.
LEMMA LostReply ==
  ASSUME TypeInv, PlaceInv, DebtInv, NEW l \in Loops, Rejected(l), Adds(l)
  PROVE  DebtInv'
<1> DEFINE at == loops[l].at
           left == loops[l].left
<1>1. /\ Owes(loops[l]) /\ left \in 1 .. input[at]
      /\ AddedOf(output', at) = FirstOf(at, input[at] - left + 1)
  BY AddedType, AddedAccounts
<1>2. /\ UNCHANGED <<input, lastId, since>>
      /\ \A k \in Loops \ {l} : loops'[k] = loops[k]
      /\ loops'[l].pc = "failed" /\ loops'[l].at = at /\ loops'[l].left = left
  BY RejectedOutcome
<1>3. Owes(loops'[l]) /\ Owed(output', loops'[l], input[at])
  BY <1>1, <1>2 DEF Owes, Owed
<1>4. QED
  BY <1>1, <1>2, <1>3, StillOwing

\* A loop that does not owe is not missed among the debtors.
LEMMA WithoutDebt ==
  ASSUME DebtInv, NEW l \in Loops, ~Owes(loops[l])
  PROVE  Accounted(output, Loops \ {l})
BY DEF DebtInv, Accounted

LEMMA InitDebt == Init => DebtInv
BY EmptySeq, RedisStreamsAssumption DEF Init, DebtInv, Accounted, Taken, Owes, NewLoop, Range

LEMMA DebtStep == TypeInv /\ PlaceInv /\ DebtInv /\ [Next]_vars => DebtInv'
<1> SUFFICES ASSUME TypeInv, PlaceInv, DebtInv, [Next]_vars PROVE DebtInv'
  OBVIOUS
<1>1. ASSUME NEW entry \in Entries, Write(entry) PROVE DebtInv'
  BY <1>1, WriteOutcome, DebtKept
<1>2. UNCHANGED <<lastId, since, output, input, loops>> => DebtInv'
  BY DebtKept
<1>3. ASSUME NEW l \in Loops, Start(l) PROVE DebtInv'
  <2>1. /\ UNCHANGED <<lastId, since, output, input>>
        /\ \A k \in Loops \ {l} : loops'[k] = loops[k]
        /\ ~Owes(loops'[l])
    BY <1>3, StartOutcome DEF Owes
  <2>2. ~Owes(loops[l])
    BY <1>3 DEF Start, Owes
  <2>3. QED
    BY <2>1, <2>2, DebtKept
<1>4. ASSUME NEW l \in Loops, Answer(l) PROVE DebtInv'
  <2>1. /\ UNCHANGED <<lastId, since, output, input>>
        /\ \A k \in Loops \ {l} : loops'[k] = loops[k]
        /\ ~Owes(loops'[l])
    BY <1>4, AnswerOutcome DEF Owes
  <2>2. ~Owes(loops[l])
    BY <1>4 DEF Answer, Owes
  <2>3. QED
    BY <2>1, <2>2, DebtKept
<1>5. ASSUME NEW l \in Loops, Rejected(l) PROVE DebtInv'
  <2>1. /\ UNCHANGED <<lastId, since, input>> /\ (output' = output \/ Adds(l))
        /\ \A k \in Loops \ {l} : loops'[k] = loops[k]
        /\ loops'[l].pc = "failed" /\ loops'[l].at = loops[l].at /\ loops'[l].left = loops[l].left
    BY <1>5, RejectedOutcome
  <2>2. loops[l].pc = "adding" \/ (loops[l].pc = "reading" /\ loops[l].at = 0)
    BY <1>5 DEF Rejected, PlaceInv, Placed, Live
  <2>3. Owes(loops'[l]) <=> Owes(loops[l])
    BY <2>1, <2>2 DEF Owes
  <2>4. QED
    BY <1>5, <2>1, <2>3, DebtKept, LostReply
<1>6. ASSUME NEW l \in Loops, Added(l), loops[l].left > 1 PROVE DebtInv'
  BY <1>6, MoreAdded
<1>7. ASSUME NEW l \in Loops, Resume(l) \/ (Added(l) /\ ~(loops[l].left > 1)) PROVE DebtInv'
  <2>1. Accounted(output', Loops \ {l})
    <3>1. CASE Resume(l)
      <4>1. ~Owes(loops[l]) /\ output' = output
        BY <3>1 DEF Resume, Owes
      <4>2. QED
        BY <4>1, WithoutDebt
    <3>2. CASE Added(l) /\ ~(loops[l].left > 1)
      BY <3>2, LastAdded DEF Added, Adds
    <3>3. QED
      BY <1>7, <3>1, <3>2
  <2>2. QED
    BY <1>7, <2>1, ResumeRuns, RanDebt DEF RunsOn
<1>8. QED
  BY <1>1, <1>2, <1>3, <1>4, <1>5, <1>6, <1>7, NextCases DEF Stop, vars

-----------------------------------------------------------------------------
LEMMA AppendAt ==
  ASSUME NEW S, NEW s \in Seq(S), NEW x \in S
  PROVE  /\ DOMAIN Append(s, x) = 1 .. Len(s) + 1 /\ Len(s) \in Nat /\ DOMAIN s = 1 .. Len(s)
         /\ \A i \in 1 .. Len(s) : Append(s, x)[i] = s[i] /\ s[i] \in Range(s)
         /\ Append(s, x)[Len(s) + 1] = x
BY DEF Range

LEMMA AddedInOrder ==
  ASSUME TypeInv, PlaceInv, DebtInv, OrderInv, NEW l \in Loops, Adds(l)
  PROVE  OrderInv'
<1> DEFINE at == loops[l].at
           m == input[at] - loops[l].left
           e == <<at, m + 1>>
           S == Nat \X Nat
           out == output
           Before(p, q) == p[1] < q[1] \/ (p[1] = q[1] /\ p[2] < q[2])
<1>1. /\ lastId # Latest /\ at = lastId /\ at \in Nat /\ m \in Nat
      /\ AddedOf(output, at) = FirstOf(at, m)
  BY AddedType
<1>2. out \in Seq(S) /\ e \in S /\ output' = Append(out, e)
  BY <1>1 DEF TypeInv, Adds, Adding
<1>3. ASSUME NEW p \in Range(output), p \in S
      PROVE  Before(p, e)
  <2>1. p[1] \in since + 1 .. lastId
    BY <1>1 DEF DebtInv, Accounted, Taken
  <2>2. p[1] \in Nat /\ since \in Nat /\ lastId \in Nat
    BY <1>1, <1>3 DEF TypeInv
  <2>3. p[1] < at \/ p[1] = at
    BY <1>1, <2>1, <2>2
  <2>4. CASE p[1] = at
    <3>1. p \in FirstOf(at, m)
      BY <1>1, <2>4 DEF AddedOf
    <3>2. p[2] \in 1 .. m
      BY <3>1 DEF FirstOf
    <3>3. QED
      BY <1>1, <2>4, <3>2
  <2>5. QED
    BY <2>3, <2>4
<1>4. \A i, j \in DOMAIN out : i < j => Before(out[i], out[j])
  BY DEF OrderInv
<1> HIDE DEF S, e
<1>5. /\ DOMAIN Append(out, e) = 1 .. Len(out) + 1 /\ Len(out) \in Nat /\ DOMAIN out = 1 .. Len(out)
      /\ \A i \in 1 .. Len(out) : Append(out, e)[i] = out[i] /\ out[i] \in Range(out) /\ out[i] \in S
      /\ Append(out, e)[Len(out) + 1] = e
  BY <1>2, AppendAt, SeqElements
<1>6. \A i \in 1 .. Len(out) : Before(out[i], e)
  BY <1>3, <1>5
<1> HIDE DEF out, Before
<1>7. ASSUME NEW i \in 1 .. Len(out) + 1, NEW j \in 1 .. Len(out) + 1, i < j
      PROVE  Before(Append(out, e)[i], Append(out, e)[j])
  <2>1. i \in 1 .. Len(out) /\ (j \in 1 .. Len(out) \/ j = Len(out) + 1)
    BY <1>5, <1>7
  <2>2. QED
    BY <1>4, <1>5, <1>6, <1>7, <2>1
<1>8. \A i, j \in DOMAIN output' : i < j => Before(output'[i], output'[j])
  BY <1>2, <1>5, <1>7
<1>9. QED
  BY <1>8 DEF OrderInv, Before

LEMMA OrderStep == TypeInv /\ PlaceInv /\ DebtInv /\ OrderInv /\ [Next]_vars => OrderInv'
<1> SUFFICES ASSUME TypeInv, PlaceInv, DebtInv, OrderInv, [Next]_vars PROVE OrderInv'
  OBVIOUS
<1>1. output' = output => OrderInv'
  BY DEF OrderInv
<1>2. ASSUME NEW l \in Loops, Adds(l) PROVE OrderInv'
  BY <1>2, AddedInOrder
<1>3. ASSUME NEW l \in Loops, Rejected(l) \/ Added(l) PROVE output' = output \/ Adds(l)
  BY <1>3 DEF Rejected, Added, Adds
<1>4. QED
  BY <1>1, <1>2, <1>3, NextCases DEF Write, Stop, Start, Answer, Resume, vars

-----------------------------------------------------------------------------
\* At most one loop is live, it is where lastId is, and what the loops took and
\* still owe agrees with the output stream.
THEOREM Invariance ==
  ASSUME OneAtATime
  PROVE  Spec => [](TypeInv /\ PlaceInv /\ DebtInv)
<1>1. Init => TypeInv /\ PlaceInv /\ DebtInv
  BY InitType, InitPlace, InitDebt
<1>2. TypeInv /\ PlaceInv /\ DebtInv /\ [Next]_vars => (TypeInv /\ PlaceInv /\ DebtInv)'
  BY TypeStep, PlaceStep, DebtStep
<1>3. QED
  BY <1>1, <1>2, PTL DEF Spec

\* From the first entry a loop receives on, every entry up to lastId is taken once,
\* in the order of the stream, through stops, failed calls and new starts
\* (geo-stream/src/redis.ts, the loop of start()).
THEOREM IngestedCorrect ==
  ASSUME OneAtATime
  PROVE  Spec => []IngestedOnceInOrder
<1>1. Init => IngestedOnceInOrder
  <2> SUFFICES ASSUME Init PROVE IngestedOnceInOrder
    OBVIOUS
  <2>1. taken = <<>> /\ since = 0 /\ (lastId = Latest \/ lastId = 0)
    BY RedisStreamsAssumption DEF Init
  <2>2. CASE lastId = Latest
    BY <2>1, <2>2 DEF IngestedOnceInOrder
  <2>3. CASE lastId # Latest
    <3>1. 1 .. lastId - since = {}
      BY <2>1, <2>3
    <3>2. [n \in 1 .. lastId - since |-> since + n] = <<>>
      BY <3>1
    <3>3. QED
      BY <2>1, <2>3, <3>2 DEF IngestedOnceInOrder
  <2>4. QED
    BY <2>2, <2>3
<1>2. TypeInv /\ PlaceInv /\ DebtInv /\ IngestedOnceInOrder /\ [Next]_vars => IngestedOnceInOrder'
  BY TakenStep
<1>3. Spec => [](TypeInv /\ PlaceInv /\ DebtInv)
  BY Invariance
<1>4. QED
  BY <1>1, <1>2, <1>3, PTL DEF Spec

\* The ids in the sequence of ids taken.
LEMMA TakenIds == TypeInv /\ IngestedOnceInOrder => Range(taken) = Taken
<1> SUFFICES ASSUME TypeInv, IngestedOnceInOrder PROVE Range(taken) = Taken
  OBVIOUS
<1>1. CASE lastId = Latest
  BY <1>1, EmptySeq DEF IngestedOnceInOrder, Taken, Range
<1>2. CASE lastId # Latest
  <2>1. lastId \in Nat /\ since \in Nat
    BY <1>2 DEF TypeInv
  <2>2. DOMAIN taken = 1 .. lastId - since /\ \A n \in 1 .. lastId - since : taken[n] = since + n
    BY <1>2 DEF IngestedOnceInOrder
  <2>3. ASSUME NEW id \in since + 1 .. lastId PROVE id \in Range(taken)
    <3>1. id - since \in 1 .. lastId - since /\ since + (id - since) = id
      BY <2>1
    <3>2. QED
      BY <2>2, <3>1 DEF Range
  <2>4. ASSUME NEW id \in Range(taken) PROVE id \in since + 1 .. lastId
    BY <2>1, <2>2 DEF Range
  <2>5. QED
    BY <1>2, <2>3, <2>4 DEF Taken
<1>3. QED
  BY <1>1, <1>2

LEMMA AccountsAgree ==
  ASSUME TypeInv, DebtInv, OrderInv, IngestedOnceInOrder
  PROVE  EventsAreAccountedFor
<1>1. ASSUME NEW id \in Ingested
      PROVE  LET owing == {l \in Loops : loops[l].at = id /\ loops[l].pc \in {"adding", "failed"}}
             IN  IF owing = {} THEN AddedOf(output, id) = FirstOf(id, input[id])
                               ELSE \E l \in owing, more \in {0, 1} :
                                      /\ more = 1 => loops[l].pc = "failed"
                                      /\ AddedOf(output, id) = FirstOf(id, input[id] - loops[l].left + more)
  <2> DEFINE owing == {l \in Loops : loops[l].at = id /\ loops[l].pc \in {"adding", "failed"}}
  <2>1. id \in Taken /\ IsValid(id)
    BY TakenIds DEF Ingested
  <2>2. id # 0
    BY <2>1 DEF Taken, TypeInv
  <2>3. \A l \in Loops : l \in owing <=> Owes(loops[l]) /\ loops[l].at = id
    BY <2>2 DEF Owes
  <2>4. CASE owing = {}
    <3>1. \A l \in Loops : ~(Owes(loops[l]) /\ loops[l].at = id)
      BY <2>3, <2>4
    <3>2. AddedOf(output, id) = FirstOf(id, input[id])
      BY <2>1, <3>1 DEF DebtInv, Accounted
    <3>3. QED
      BY <2>4, <3>2
  <2>5. CASE owing # {}
    <3>1. PICK l \in owing : TRUE
      BY <2>5
    <3>2. loops[l].at = id /\ input[id] \in Nat /\ loops[l].left \in Nat /\ Owed(output, loops[l], input[id])
      BY <2>3, <3>1 DEF DebtInv, Accounted
    <3>3. input[id] - loops[l].left + 0 = input[id] - loops[l].left
      BY <3>2
    <3>4. PICK more \in {0, 1} :
            /\ more = 1 => loops[l].pc = "failed"
            /\ AddedOf(output, id) = FirstOf(id, input[id] - loops[l].left + more)
      BY <3>2, <3>3 DEF Owed
    <3>5. QED
      BY <2>5, <3>1, <3>4
  <2>6. QED
    BY <2>4, <2>5
<1>2. QED
  BY <1>1 DEF EventsAreAccountedFor, OrderInv

\* The events reach the output stream in the order of their entries, none twice,
\* and all those of an entry that was ingested do, or are still to be added, but
\* for those a loop had left when a call of it failed, of which that call may have
\* added the first (the XADD loop of geo-stream/src/redis.ts).
THEOREM AccountedCorrect ==
  ASSUME OneAtATime
  PROVE  Spec => []EventsAreAccountedFor
<1>1. Init => OrderInv
  BY EmptySeq DEF Init, OrderInv
<1>2. TypeInv /\ PlaceInv /\ DebtInv /\ OrderInv /\ [Next]_vars => OrderInv'
  BY OrderStep
<1>3. Spec => [](TypeInv /\ PlaceInv /\ DebtInv)
  BY Invariance
<1>4. Spec => []OrderInv
  BY <1>1, <1>2, <1>3, PTL DEF Spec
<1>5. TypeInv /\ DebtInv /\ OrderInv /\ IngestedOnceInOrder => EventsAreAccountedFor
  BY AccountsAgree
<1>6. QED
  BY <1>3, <1>4, <1>5, IngestedCorrect, PTL
=============================================================================
