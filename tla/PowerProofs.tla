---------------------------- MODULE PowerProofs ----------------------------
(***************************************************************************)
(* Proofs about the way of a power reading, for every set of powers,       *)
(* capacity, window, schedule, length of a day, start and jump of the      *)
(* clock: what the ring buffer gives back, the energy that update adds up, *)
(* and the average that a call answers while update writes the window.     *)
(***************************************************************************)
EXTENDS PowerPipeline, FiniteSetTheorems, SequenceTheorems, TLAPS

Sample == [watts : Watts \cup {0}, ts : Nat \ {0}, n : Nat]

TypeInv ==
  /\ now \in Nat \ {0} /\ ticks \in Nat /\ jumped \in BOOLEAN
  /\ pc \in {"asleep", "collect", "update", "writing", "flush"}
  /\ buffer \in [0..(Capacity - 1) -> Sample \cup {NoSample}] /\ written \in Nat
  /\ latest \in Sample \cup {NoSample} /\ latest.n <= ticks /\ pushed \in Seq(Sample)
  /\ lastTs \in Nat /\ energy \in Nat /\ owed \in Nat

\* write_pos_ and last_sample say what was pushed.
Registered ==
  /\ written = Len(pushed)
  /\ latest = IF pushed = <<>> THEN NoSample ELSE pushed[Len(pushed)]

\* The newest items are in the buffer, each where its number says.
RingHolds ==
  \A k \in 1..Len(pushed) : Len(pushed) - k < Capacity => buffer[(k - 1) % Capacity] = pushed[k]

-----------------------------------------------------------------------------
(* Numbers, samples and steps.                                             *)

LEMMA Division ==
  ASSUME NEW m \in Nat, m >= 1, NEW t \in Int
  PROVE  /\ t \div m \in Int /\ (t % m) \in Int /\ 0 <= (t % m) /\ (t % m) < m
         /\ t = (t \div m) * m + (t % m)
OBVIOUS

\* Two numbers less than m apart have different slots.
LEMMA SlotsDiffer ==
  ASSUME NEW m \in Nat, m >= 1, NEW a \in Int, NEW b \in Int, a < b, b < a + m
  PROVE  (a % m) # (b % m)
<1> SUFFICES ASSUME (a % m) = (b % m) PROVE FALSE
  OBVIOUS
<1> DEFINE p == a \div m
           q == b \div m
           r == a % m
<1>1. p \in Int /\ q \in Int /\ r \in Int /\ a = p * m + r /\ b = q * m + r
  BY Division
<1> HIDE DEF p, q, r
<1>2. p * m \in Int /\ q * m \in Int /\ (p < q => p * m + m <= q * m) /\ (q <= p => q * m <= p * m)
  BY <1>1
<1> DEFINE x == p * m
           y == q * m
<1>3. /\ x \in Int /\ y \in Int /\ a = x + r /\ b = y + r
      /\ (p < q => x + m <= y) /\ (q <= p => y <= x)
  BY <1>1, <1>2
<1> HIDE DEF x, y
<1> QED BY <1>1, <1>3

LEMMA SampleFields ==
  ASSUME NEW s \in Sample \cup {NoSample}
  PROVE  s.watts \in Nat /\ s.watts \in Watts \cup {0} /\ s.ts \in Nat /\ s.n \in Nat
<1>1. CASE s \in Sample
  <2>1. s.watts \in Watts \cup {0} /\ s.ts \in Nat \ {0} /\ s.n \in Nat
    BY <1>1 DEF Sample
  <2>2. Watts \cup {0} \subseteq Nat /\ Nat \ {0} \subseteq Nat
    BY PipelineAssumption
  <2> QED BY <2>1, <2>2
<1>2. CASE s = NoSample
  BY <1>2 DEF NoSample
<1> QED BY <1>1, <1>2

\* push_sample, as collect_battery calls it or, when the system gives no status, does not.
LEMMA Collected ==
  ASSUME TypeInv, Collect
  PROVE  /\ pc = "collect" /\ pc' = "update"
         /\ UNCHANGED <<clock, elapsed, lastDay, plain, energy, pending, reader, updates>>
         /\ \/ UNCHANGED <<buffer, written, latest, pushed, owed>>
            \/ \E s \in Sample :
                 /\ s.ts = now /\ s.n = ticks /\ latest' = s /\ pushed' = Append(pushed, s)
                 /\ buffer' = [buffer EXCEPT ![written % Capacity] = s]
                 /\ written' = written + 1
                 /\ owed' = IF pushed = <<>> THEN 0 ELSE owed + s.watts * (ticks - latest.n)
<1>1. CASE UNCHANGED <<registry, owed>>
  BY <1>1 DEF Collect, registry
<1>2. ASSUME NEW watts \in Watts \cup {0}, PushSample(watts)
      PROVE  \E s \in Sample :
               /\ s.ts = now /\ s.n = ticks /\ latest' = s /\ pushed' = Append(pushed, s)
               /\ buffer' = [buffer EXCEPT ![written % Capacity] = s]
               /\ written' = written + 1
               /\ owed' = IF pushed = <<>> THEN 0 ELSE owed + s.watts * (ticks - latest.n)
  <2> DEFINE s == [watts |-> watts, ts |-> now, n |-> ticks]
  <2>1. s \in Sample /\ s.ts = now /\ s.n = ticks /\ s.watts = watts
    BY DEF TypeInv, Sample
  <2>2. /\ latest' = s /\ pushed' = Append(pushed, s)
        /\ buffer' = [buffer EXCEPT ![written % Capacity] = s] /\ written' = written + 1
        /\ owed' = IF pushed = <<>> THEN 0 ELSE owed + watts * (ticks - latest.n)
    BY <1>2 DEF PushSample, Push
  <2> HIDE DEF s
  <2> QED BY <2>1, <2>2
<1> QED BY <1>1, <1>2 DEF Collect

-----------------------------------------------------------------------------
(* The registry.                                                           *)

LEMMA RegistryStep ==
  TypeInv /\ Registered /\ RingHolds /\ [Next]_vars => Registered' /\ RingHolds'
<1> SUFFICES ASSUME TypeInv, Registered, RingHolds, [Next]_vars
             PROVE  Registered' /\ RingHolds'
  OBVIOUS
<1>1. CASE UNCHANGED registry
  BY <1>1 DEF registry, Registered, RingHolds
<1>2. CASE Collect
  <2>1. CASE UNCHANGED <<buffer, written, latest, pushed, owed>>
    BY <2>1 DEF Registered, RingHolds
  <2>2. ASSUME NEW s \in Sample, latest' = s, pushed' = Append(pushed, s),
               buffer' = [buffer EXCEPT ![written % Capacity] = s], written' = written + 1
        PROVE  Registered' /\ RingHolds'
    <3>1. /\ Capacity \in Nat /\ Capacity >= 1 /\ written \in Nat /\ Len(pushed) = written
          /\ pushed \in Seq(Sample)
      BY PipelineAssumption DEF TypeInv, Registered
    <3>2. /\ Len(pushed') = written + 1 /\ pushed'[written + 1] = s /\ pushed' # <<>>
          /\ \A k \in 1..written : pushed'[k] = pushed[k]
      BY <2>2, <3>1, AppendProperties
    <3>3. Registered'
      BY <2>2, <3>2 DEF Registered
    <3>4. ASSUME NEW k \in 1..(written + 1), written + 1 - k < Capacity
          PROVE  buffer'[(k - 1) % Capacity] = pushed'[k]
      <4>1. (k - 1) % Capacity \in 0..(Capacity - 1) /\ written % Capacity \in 0..(Capacity - 1)
        BY <3>1, Division
      <4>2. CASE k = written + 1
        <5>1. k - 1 = written
          BY <3>1, <4>2
        <5> QED BY <2>2, <3>2, <4>1, <4>2, <5>1 DEF TypeInv
      <4>3. CASE k # written + 1
        <5> DEFINE j == k - 1
        <5>1. k \in 1..written /\ j \in Int /\ j < written /\ written < j + Capacity
          BY <3>1, <3>4, <4>3
        <5> HIDE DEF j
        <5>2. (j % Capacity) # (written % Capacity)
          <6>1. j \in Int /\ written \in Int /\ j < written /\ written < j + Capacity
            BY <3>1, <5>1
          <6> QED BY <3>1, <6>1, SlotsDiffer, Zenon
        <5> USE DEF j
        <5>3. buffer[(k - 1) % Capacity] = pushed[k]
          BY <3>1, <3>4, <5>1 DEF RingHolds
        <5> QED BY <2>2, <3>2, <4>1, <5>1, <5>2, <5>3 DEF TypeInv
      <4> QED BY <4>2, <4>3
    <3>5. RingHolds'
      <4> DEFINE n == Len(pushed')
      <4>1. n = written + 1
        BY <3>2
      <4> HIDE DEF n
      <4>2. \A k \in 1..n : n - k < Capacity => buffer'[(k - 1) % Capacity] = pushed'[k]
        BY <3>1, <3>4, <4>1
      <4> QED BY <4>2, Zenon DEF RingHolds, n
    <3> QED BY <3>3, <3>5
  <2>3. \/ UNCHANGED <<buffer, written, latest, pushed, owed>>
        \/ \E s \in Sample :
             /\ latest' = s /\ pushed' = Append(pushed, s) /\ written' = written + 1
             /\ buffer' = [buffer EXCEPT ![written % Capacity] = s]
    BY <1>2, Collected
  <2> QED BY <2>1, <2>2, <2>3
<1>3. CASE Tick \/ Update \/ NoUpdate \/ Flush \/ AvgWatts \/ UNCHANGED vars
  BY <1>1, <1>3 DEF Tick, Update, NoUpdate, Flush, AvgWatts, vars
<1>4. CASE \E field \in Fields : Write(field)
  BY <1>1, <1>4 DEF Write
<1>5. CASE (\E seconds \in Windows : Ask(seconds)) \/ (\E field \in Loads : Load(field))
  BY <1>1, <1>5 DEF Ask, Load
<1> QED BY <1>2, <1>3, <1>4, <1>5 DEF Next

LEMMA TypeInit == Init => TypeInv /\ Registered /\ RingHolds
<1> SUFFICES ASSUME Init PROVE TypeInv /\ Registered /\ RingHolds
  OBVIOUS
<1>1. pushed = <<>> /\ Len(pushed) = 0 /\ pushed \in Seq(Sample)
  BY DEF Init
<1>2. now \in Nat \ {0}
  BY PipelineAssumption DEF Init
<1>3. TypeInv
  <2>1. /\ ticks = 0 /\ jumped = FALSE /\ pc = "asleep" /\ written = 0 /\ latest = NoSample
        /\ lastTs = 0 /\ energy = 0 /\ owed = 0
        /\ buffer = [i \in 0..(Capacity - 1) |-> NoSample]
    BY DEF Init
  <2>2. NoSample.n = 0
    BY DEF NoSample
  <2>3. buffer \in [0..(Capacity - 1) -> Sample \cup {NoSample}]
    BY <2>1
  <2>4. latest \in Sample \cup {NoSample} /\ latest.n <= ticks
    BY <2>1, <2>2
  <2>5. ticks \in Nat /\ written \in Nat /\ lastTs \in Nat /\ energy \in Nat /\ owed \in Nat
    BY <2>1
  <2> QED BY <1>1, <1>2, <2>1, <2>3, <2>4, <2>5, Zenon DEF TypeInv
<1> QED BY <1>1, <1>3 DEF Init, Registered, RingHolds

LEMMA TypeStep == TypeInv /\ Registered /\ [Next]_vars => TypeInv'
<1> SUFFICES ASSUME TypeInv, Registered, [Next]_vars PROVE TypeInv'
  OBVIOUS
<1> USE DEF TypeInv, clock, registry, plain
<1>1. CASE Tick
  <2>1. PICK jump \in Jumps \cup {0} :
          /\ jump # 0 => now + 1 + jump > 0
          /\ now' = now + 1 + jump /\ jumped' = (jumped \/ jump # 0)
    BY <1>1 DEF Tick
  <2>2. jump \in Int
    BY PipelineAssumption
  <2>3. now' \in Nat \ {0} /\ jumped' \in BOOLEAN
    BY <2>1, <2>2
  <2>4. latest.n \in Nat
    BY SampleFields
  <2> QED BY <1>1, <2>3, <2>4 DEF Tick
<1>2. CASE Collect
  <2>1. CASE UNCHANGED <<buffer, written, latest, pushed, owed>>
    BY <1>2, <2>1, Collected
  <2>2. ASSUME NEW s \in Sample, s.n = ticks, latest' = s, pushed' = Append(pushed, s),
               buffer' = [buffer EXCEPT ![written % Capacity] = s], written' = written + 1,
               owed' = IF pushed = <<>> THEN 0 ELSE owed + s.watts * (ticks - latest.n)
        PROVE  TypeInv'
    <3>1. owed' \in Nat
      <4>1. s.watts \in Nat /\ latest.n \in Nat
        BY SampleFields
      <4>2. ticks - latest.n \in Nat
        BY <4>1
      <4>3. s.watts * (ticks - latest.n) \in Nat
        BY <4>1, <4>2
      <4> QED BY <2>2, <4>3
    <3>2. pushed' \in Seq(Sample)
      BY <2>2, AppendProperties
    <3>3. UNCHANGED <<now, ticks, jumped, lastTs, energy>> /\ pc' = "update"
      BY <1>2, Collected
    <3>4. buffer' \in [0..(Capacity - 1) -> Sample \cup {NoSample}]
      BY <2>2
    <3>5. latest' \in Sample \cup {NoSample} /\ latest'.n <= ticks' /\ written' \in Nat
      BY <2>2, <3>3
    <3> QED BY <3>1, <3>2, <3>3, <3>4, <3>5
  <2>3. \/ UNCHANGED <<buffer, written, latest, pushed, owed>>
        \/ \E s \in Sample :
             /\ s.n = ticks /\ latest' = s /\ pushed' = Append(pushed, s)
             /\ buffer' = [buffer EXCEPT ![written % Capacity] = s] /\ written' = written + 1
             /\ owed' = IF pushed = <<>> THEN 0 ELSE owed + s.watts * (ticks - latest.n)
    BY <1>2, Collected
  <2> QED BY <2>1, <2>2, <2>3
<1>3. CASE Update
  <2>1. latest.watts \in Nat /\ latest.ts \in Nat
    BY SampleFields
  <2>2. latest.ts > lastTs => latest.ts - lastTs \in Nat
    BY <2>1
  <2> DEFINE gap == latest.ts - lastTs
             more == latest.watts * gap
  <2>3. (energy' = energy + more /\ latest.ts > lastTs) \/ energy' = energy
    BY <1>3 DEF Update
  <2>4. latest.ts > lastTs => gap \in Nat
    BY <2>2
  <2>5. gap \in Nat => more \in Nat
    BY <2>1
  <2> HIDE DEF more
  <2>6. energy' \in Nat
    BY <2>3, <2>4, <2>5
  <2> QED BY <1>3, <2>6 DEF Update
<1>4. ASSUME NEW field \in Fields, Write(field) PROVE TypeInv'
  <2>1. lastTs' \in Nat /\ pc' \in {"writing", "flush"}
    BY <1>4, SampleFields DEF Write
  <2> QED BY <1>4, <2>1 DEF Write
<1>5. CASE Flush
  BY <1>5 DEF Flush
<1>6. CASE NoUpdate \/ AvgWatts \/ UNCHANGED vars
  BY <1>6 DEF NoUpdate, AvgWatts, vars
<1>7. CASE (\E seconds \in Windows : Ask(seconds)) \/ (\E field \in Loads : Load(field))
  BY <1>7 DEF Ask, Load
<1> QED BY <1>1, <1>2, <1>3, <1>4, <1>5, <1>6, <1>7 DEF Next

\* The ring holds the last items of what was pushed.
LEMMA NewestFound ==
  ASSUME TypeInv, Registered, RingHolds, NEW n \in 0..(Capacity + 1)
  PROVE  LET size == CHOOSE k \in 0..n : /\ k <= Len(pushed) /\ k <= Capacity
                                         /\ k = n \/ k = Len(pushed) \/ k = Capacity
         IN  PeekLast(n) = SubSeq(pushed, Len(pushed) - size + 1, Len(pushed))
<1> DEFINE all == Len(pushed)
           Fits(k) == /\ k <= all /\ k <= Capacity
                      /\ k = n \/ k = all \/ k = Capacity
           size == CHOOSE k \in 0..n : Fits(k)
           short == IF n > written THEN written ELSE n
           taken == IF short > Capacity THEN Capacity ELSE short
           start == written - taken
<1>1. /\ Capacity \in Nat /\ Capacity >= 1 /\ written \in Nat /\ all = written /\ n \in Nat
      /\ pushed \in Seq(Sample)
  BY PipelineAssumption DEF TypeInv, Registered
<1> HIDE DEF all
<1>2. /\ taken \in 0..n /\ taken <= all /\ taken <= Capacity
      /\ taken = n \/ taken = all \/ taken = Capacity
  BY <1>1
<1>3. \A k \in 0..n : Fits(k) => k = taken
  BY <1>1
<1> HIDE DEF taken
<1>4. size = taken
  <2>1. taken \in 0..n /\ Fits(taken)
    BY <1>2
  <2>2. size \in 0..n /\ Fits(size)
    BY <2>1
  <2> QED BY <1>3, <2>2
<1>5. start \in Nat /\ start + taken = written /\ written - start <= Capacity
  BY <1>1, <1>2
<1> HIDE DEF size, start
<1> DEFINE found == [i \in 1..taken |-> buffer[(start + i - 1) % Capacity]]
           wanted == SubSeq(pushed, start + 1, written)
<1>6. PeekLast(n) = found
  BY DEF PeekLast, taken, start
<1>7. ASSUME NEW i \in 1..taken
      PROVE  buffer[(start + i - 1) % Capacity] = pushed[start + i] /\ pushed[start + i] \in Sample
  <2> DEFINE k == start + i
  <2>1. k \in 1..written /\ written - k < Capacity /\ k - 1 = start + i - 1
    BY <1>1, <1>2, <1>5
  <2> HIDE DEF k
  <2>2. buffer[(k - 1) % Capacity] = pushed[k]
    BY <1>1, <2>1 DEF RingHolds, all
  <2>3. pushed[k] \in Sample
    BY <1>1, <2>1, ElementOfSeq DEF all
  <2> QED BY <2>1, <2>2, <2>3 DEF k
<1>8. found \in Seq(Sample) /\ Len(found) = taken /\ \A i \in 1..taken : found[i] = pushed[start + i]
  <2>1. taken \in Nat /\ found \in [1..taken -> Sample]
    BY <1>2, <1>7
  <2>2. found \in Seq(Sample)
    BY <2>1, SeqDef
  <2>3. DOMAIN found = 1..taken
    OBVIOUS
  <2>4. Len(found) = taken
    BY <2>1, <2>2, <2>3, LenProperties
  <2> QED BY <1>7, <2>2, <2>4
<1>9. /\ wanted \in Seq(Sample) /\ Len(wanted) = taken
      /\ \A i \in 1..taken : wanted[i] = pushed[start + i]
  <2>1. \A j \in (start + 1)..written : pushed[j] \in Sample
    BY <1>1, <1>5, ElementOfSeq DEF all
  <2>2. start + 1 \in Int /\ written \in Int
    BY <1>1, <1>5
  <2>3. /\ wanted \in Seq(Sample)
        /\ Len(wanted) = IF start + 1 <= written THEN written - (start + 1) + 1 ELSE 0
        /\ \A i \in 1..(written - (start + 1) + 1) : wanted[i] = pushed[start + 1 + i - 1]
    BY <2>1, <2>2, SubSeqProperties
  <2> HIDE DEF wanted
  <2>4. written - (start + 1) + 1 = taken /\ (start + 1 <= written \/ taken = 0)
    BY <1>1, <1>2, <1>5
  <2>5. \A i \in 1..taken : start + 1 + i - 1 = start + i
    BY <1>1, <1>2, <1>5
  <2> QED BY <1>2, <2>3, <2>4, <2>5
<1> HIDE DEF found, wanted
<1>10. found = wanted
  BY <1>8, <1>9, SeqEqual
<1>11. written - size + 1 = start + 1
  <2>1. taken \in Int /\ start \in Int /\ written = start + taken
    BY <1>2, <1>5
  <2> QED BY <1>4, <2>1
<1> QED BY <1>1, <1>6, <1>10, <1>11 DEF wanted, all, size

-----------------------------------------------------------------------------
(* The energy.                                                             *)

\* A sample's second and its tick are apart as the clocks are now; after the jump, an
\* earlier sample's are not.
OnClock(s) == s.ts - s.n = now - ticks

\* What the one reading that follows the jump may have added too much.
Slack(s, most) == IF jumped /\ OnClock(s) THEN most * MaxGap ELSE 0

Previous == pushed[Len(pushed) - 1]

\* Gapless, but for the last sample.
GaplessBefore ==
  /\ ~ jumped
  /\ \A i \in 2..(Len(pushed) - 1) : pushed[i].n - pushed[i - 1].n <= MaxGap

Rested(most) ==
  /\ energy <= owed + Slack(latest, most)
  /\ Gapless => energy = owed

\* A sample was pushed in this turn, and update has yet to count it.
Owing(most) ==
  /\ pushed # <<>> /\ latest.n = ticks /\ latest.ts = now
  /\ Len(pushed) = 1 => lastTs = 0 /\ energy = 0 /\ owed = 0
  /\ Len(pushed) # 1 =>
       /\ Len(pushed) > 1 /\ lastTs = Previous.ts /\ Previous.n < ticks
       /\ ~ jumped => OnClock(Previous)
       /\ \E due \in Nat :
            /\ owed = due + latest.watts * (ticks - Previous.n)
            /\ energy <= due + Slack(Previous, most)
            /\ GaplessBefore => energy = due

Balanced(most) ==
  /\ pushed = <<>> => energy = 0 /\ owed = 0
  /\ pushed # <<>> =>
       /\ pc = "collect" => latest.n < ticks
       /\ ~ jumped => OnClock(latest)
  /\ pc \in {"asleep", "collect", "flush"} => lastTs = latest.ts
  /\ pc = "writing" => "lastTs" \in pending \/ lastTs = latest.ts
  /\ IF pc = "update" THEN Owing(most) \/ (lastTs = latest.ts /\ Rested(most)) ELSE Rested(most)

LEMMA Products ==
  ASSUME NEW a \in Nat, NEW b \in Nat, NEW c \in Nat, NEW d \in Nat
  PROVE  /\ a * c \in Nat /\ b * d \in Nat
         /\ a <= b /\ c <= d => a * c <= b * d
OBVIOUS

LEMMA LatestPushed ==
  ASSUME TypeInv, Registered
  PROVE  /\ Len(pushed) \in Nat /\ (pushed = <<>> <=> Len(pushed) = 0)
         /\ pushed = <<>> => latest.ts = 0 /\ latest.n = 0
         /\ pushed # <<>> => latest = pushed[Len(pushed)] /\ latest \in Sample /\ latest.ts # 0
<1>1. Len(pushed) \in Nat /\ (pushed = <<>> <=> Len(pushed) = 0)
  BY LenProperties, EmptySeq DEF TypeInv
<1>2. pushed = <<>> => latest.ts = 0 /\ latest.n = 0
  BY DEF Registered, NoSample
<1>3. ASSUME pushed # <<>> PROVE latest = pushed[Len(pushed)] /\ latest \in Sample
  <2>1. Len(pushed) \in 1..Len(pushed) /\ latest = pushed[Len(pushed)]
    BY <1>1, <1>3 DEF Registered
  <2> QED BY <2>1, ElementOfSeq DEF TypeInv
<1>4. \A s \in Sample : s.ts # 0
  BY DEF Sample
<1> QED BY <1>1, <1>2, <1>3, <1>4

LEMMA BalancedTick ==
  ASSUME TypeInv, Registered, NEW most \in Nat, Balanced(most), Tick PROVE Balanced(most)'
<1>1. /\ pc = "asleep" /\ pc' = "collect" /\ ticks' = ticks + 1
      /\ UNCHANGED <<latest, pushed, lastTs, energy, owed, pending>>
  BY DEF Tick, registry, plain
<1>2. PICK jump \in Jumps \cup {0} :
        /\ jump # 0 => ~ jumped
        /\ now' = now + 1 + jump /\ jumped' = (jumped \/ jump # 0)
  BY DEF Tick
<1>3. jump \in Int /\ now \in Nat /\ ticks \in Nat /\ latest.ts \in Nat /\ latest.n \in Nat
      /\ latest.n <= ticks /\ energy \in Nat /\ owed \in Nat /\ jumped \in BOOLEAN
  BY PipelineAssumption, SampleFields DEF TypeInv
<1>4. most * MaxGap \in Nat
  BY Products, PipelineAssumption
<1>5. Rested(most) /\ lastTs = latest.ts /\ (pushed # <<>> /\ ~ jumped => OnClock(latest))
  BY <1>1 DEF Balanced
<1>6. jump = 0 => OnClock(latest)' = OnClock(latest)
  BY <1>1, <1>2, <1>3 DEF OnClock
<1>7. ~ jumped' => ~ jumped /\ jump = 0
  BY <1>2
<1>8. jump = 0 => jumped' = jumped
  BY <1>2, <1>3
<1>9. Rested(most)'
  <2>1. CASE jump = 0
    <3>1. Slack(latest, most)' = Slack(latest, most)
      BY <1>1, <1>6, <1>8, <2>1 DEF Slack
    <3>2. Gapless' <=> Gapless
      BY <1>1, <1>8, <2>1 DEF Gapless
    <3> QED BY <1>1, <1>5, <3>1, <3>2 DEF Rested
  <2>2. CASE jump # 0 /\ pushed = <<>>
    <3>1. energy = 0 /\ owed = 0 /\ Slack(latest, most)' \in Nat
      BY <1>4, <2>2 DEF Balanced, Slack
    <3> QED BY <1>1, <3>1 DEF Rested
  <2>3. CASE jump # 0 /\ pushed # <<>>
    <3>1. ~ jumped /\ jumped' /\ OnClock(latest)
      BY <1>2, <1>5, <2>3
    <3>2. ~ OnClock(latest)'
      BY <1>1, <1>2, <1>3, <2>3, <3>1 DEF OnClock
    <3>3. Slack(latest, most) = 0 /\ Slack(latest, most)' = 0 /\ ~ Gapless'
      BY <3>1, <3>2 DEF Slack, Gapless
    <3> QED BY <1>1, <1>5, <3>3 DEF Rested
  <2> QED BY <2>1, <2>2, <2>3
<1>10. pushed' # <<>> => latest'.n < ticks' /\ (~ jumped' => OnClock(latest)')
  BY <1>1, <1>3, <1>5, <1>6, <1>7
<1> QED BY <1>1, <1>5, <1>9, <1>10 DEF Balanced

LEMMA BalancedCollect ==
  ASSUME TypeInv, Registered, NEW most \in Nat, Balanced(most), Collect PROVE Balanced(most)'
<1>1. /\ pc = "collect" /\ pc' = "update" /\ UNCHANGED <<now, ticks, jumped, lastTs, energy>>
      /\ Rested(most) /\ lastTs = latest.ts
  BY Collected DEF Balanced, clock, plain
<1>2. CASE UNCHANGED <<latest, pushed, owed>>
  <2>1. Rested(most)'
    BY <1>1, <1>2 DEF Rested, Slack, OnClock, Gapless
  <2> QED BY <1>1, <1>2, <2>1 DEF Balanced, OnClock
<1>3. ASSUME NEW s \in Sample, s.ts = now, s.n = ticks, latest' = s, pushed' = Append(pushed, s),
             owed' = IF pushed = <<>> THEN 0 ELSE owed + s.watts * (ticks - latest.n)
      PROVE  Balanced(most)'
  <2> DEFINE n == Len(pushed)
  <2>1. /\ n \in Nat /\ Len(pushed') = n + 1 /\ pushed' # <<>> /\ pushed'[n + 1] = s
        /\ \A i \in 1..n : pushed'[i] = pushed[i]
    BY <1>3, LatestPushed, AppendProperties DEF TypeInv
  <2>2. OnClock(latest)'
    BY <1>1, <1>3 DEF OnClock
  <2>3. CASE pushed = <<>>
    <3>1. n = 0 /\ lastTs = 0 /\ energy = 0
      BY <1>1, <2>3, LatestPushed DEF Balanced
    <3>2. Owing(most)'
      BY <1>1, <1>3, <2>1, <2>3, <3>1 DEF Owing
    <3> QED BY <1>1, <2>1, <2>2, <3>2 DEF Balanced
  <2>4. CASE pushed # <<>>
    <3>1. n >= 1 /\ latest = pushed[n] /\ latest.n < ticks /\ (~ jumped => OnClock(latest))
      BY <1>1, <2>4, LatestPushed DEF Balanced
    <3>2. Previous' = latest
      <4>1. Len(pushed') - 1 = n /\ n \in 1..n
        BY <2>1, <3>1
      <4> QED BY <2>1, <3>1, <4>1 DEF Previous
    <3>3. Slack(Previous, most)' = Slack(latest, most) /\ OnClock(Previous)' = OnClock(latest)
      BY <1>1, <3>2 DEF Slack, OnClock
    <3>4. GaplessBefore' => Gapless
      <4>1. Len(pushed') - 1 = n
        BY <2>1
      <4>2. \A i \in 2..n : i \in 1..n /\ i - 1 \in 1..n
        BY <2>1
      <4> QED BY <1>1, <2>1, <4>1, <4>2 DEF GaplessBefore, Gapless
    <3>5. owed \in Nat /\ owed' = owed + latest'.watts * (ticks' - Previous'.n)
      BY <1>1, <1>3, <2>4, <3>2 DEF TypeInv
    <3>6. Owing(most)'
      <4>1. Len(pushed') # 1 /\ Len(pushed') > 1
        BY <2>1, <3>1
      <4>2. lastTs' = Previous'.ts /\ Previous'.n < ticks' /\ (~ jumped' => OnClock(Previous)')
        BY <1>1, <3>1, <3>2, <3>3
      <4>3. energy' <= owed + Slack(Previous, most)' /\ (GaplessBefore' => energy' = owed)
        BY <1>1, <3>3, <3>4 DEF Rested
      <4>4. latest'.n = ticks' /\ latest'.ts = now'
        BY <1>1, <1>3
      <4> QED BY <2>1, <3>5, <4>1, <4>2, <4>3, <4>4 DEF Owing
    <3> QED BY <1>1, <2>1, <2>2, <3>6 DEF Balanced
  <2> QED BY <2>3, <2>4
<1>4. \/ UNCHANGED <<latest, pushed, owed>>
      \/ \E s \in Sample :
           /\ s.ts = now /\ s.n = ticks /\ latest' = s /\ pushed' = Append(pushed, s)
           /\ owed' = IF pushed = <<>> THEN 0 ELSE owed + s.watts * (ticks - latest.n)
  BY Collected
<1> QED BY <1>2, <1>3, <1>4

\* Equal distances of seconds and of ticks count for the same; over the jump, update counts
\* MaxGap seconds at most.
LEMMA BalancedUpdate ==
  ASSUME TypeInv, Registered, NEW most \in Nat, \A w \in Watts : w <= most,
         Balanced(most), Update
  PROVE  Balanced(most)'
<1>1. /\ pc = "update" /\ pc' = "writing" /\ "lastTs" \in pending'
      /\ UNCHANGED <<now, ticks, jumped, latest, pushed, lastTs, owed>>
      /\ energy' = IF lastTs > 0 /\ latest.ts > lastTs /\ latest.ts - lastTs <= MaxGap
                     THEN energy + latest.watts * (latest.ts - lastTs) ELSE energy
  BY DEF Update, clock, registry, plain, Fields
<1>2. pushed # <<>> /\ latest \in Sample
  BY LatestPushed DEF Update
<1>3. (~ jumped => OnClock(latest)) /\ (Owing(most) \/ (lastTs = latest.ts /\ Rested(most)))
  BY <1>1, <1>2 DEF Balanced
<1>4. /\ latest.watts \in Nat /\ latest.watts <= most /\ latest.ts \in Nat /\ lastTs \in Nat
      /\ energy \in Nat /\ owed \in Nat /\ ticks \in Nat /\ now \in Nat
      /\ MaxGap \in Nat /\ most * MaxGap \in Nat
  BY <1>2, SampleFields, PipelineAssumption, Products DEF TypeInv
<1> DEFINE slack == Slack(latest, most)
<1>5. slack \in Nat /\ Slack(latest, most)' = slack /\ Gapless' = Gapless
  BY <1>1, <1>4 DEF Slack, OnClock, Gapless
<1>6. SUFFICES energy' <= owed + slack /\ (Gapless => energy' = owed)
  BY <1>1, <1>2, <1>3, <1>5 DEF Balanced, Rested, OnClock
<1>7. CASE lastTs = latest.ts /\ Rested(most)
  <2>1. energy' = energy
    BY <1>1, <1>4, <1>7
  <2> QED BY <1>7, <2>1 DEF Rested
<1>8. CASE Owing(most) /\ Len(pushed) = 1
  <2>1. energy' = 0 /\ owed = 0
    BY <1>1, <1>8 DEF Owing
  <2> QED BY <1>5, <2>1
<1>9. CASE Owing(most) /\ Len(pushed) # 1
  <2>1. /\ latest.n = ticks /\ latest.ts = now /\ Len(pushed) > 1 /\ lastTs = Previous.ts
        /\ Previous.n < ticks /\ (~ jumped => OnClock(Previous))
    BY <1>9 DEF Owing
  <2>2. Previous \in Sample /\ latest = pushed[Len(pushed)] /\ Len(pushed) \in 2..Len(pushed)
    <3>1. Len(pushed) - 1 \in 1..Len(pushed) /\ Len(pushed) \in 2..Len(pushed)
      BY <2>1, LatestPushed
    <3> QED BY <1>2, <3>1, ElementOfSeq, LatestPushed DEF TypeInv, Previous
  <2>3. Previous.ts \in Nat /\ Previous.ts > 0 /\ Previous.n \in Nat
    BY <2>2 DEF Sample
  <2> DEFINE span == ticks - Previous.n
             gap == latest.ts - lastTs
             due0 == latest.watts * span
             more == latest.watts * gap
  <2>4. PICK due \in Nat : /\ owed = due + due0 /\ energy <= due + Slack(Previous, most)
                           /\ GaplessBefore => energy = due
    BY <1>9 DEF Owing
  <2>5. span \in Nat /\ span >= 1 /\ gap \in Int
    BY <1>4, <2>1, <2>3
  <2>6. due0 \in Nat /\ more \in Int
    BY <1>4, <2>5
  <2>7. energy' = IF lastTs > 0 /\ gap > 0 /\ gap <= MaxGap THEN energy + more ELSE energy
    <3>1. latest.ts > lastTs <=> gap > 0
      BY <1>4
    <3> QED BY <1>1, <3>1
  <2>8. OnClock(latest)
    BY <1>4, <2>1 DEF OnClock
  <2>9. slack = IF jumped THEN most * MaxGap ELSE 0
    BY <2>8 DEF Slack
  <2>10. CASE OnClock(Previous)
    <3>1. gap = span
      <4>1. now \in Nat /\ ticks \in Nat
        BY <1>4
      <4>2. Previous.ts - Previous.n = now - ticks
        BY <2>10 DEF OnClock
      <4>3. now - Previous.ts = ticks - Previous.n
        BY <2>3, <4>1, <4>2
      <4> QED BY <2>1, <4>3
    <3>2. more = due0 /\ Slack(Previous, most) = slack
      BY <2>9, <2>10, <3>1 DEF Slack
    <3>3. Gapless => GaplessBefore /\ span <= MaxGap
      <4>1. Gapless => latest.n - Previous.n <= MaxGap
        BY <2>2 DEF Gapless, Previous
      <4>2. 2..(Len(pushed) - 1) \subseteq 2..Len(pushed)
        BY LatestPushed
      <4> QED BY <2>1, <4>1, <4>2 DEF Gapless, GaplessBefore
    <3>4. lastTs > 0
      BY <2>1, <2>3
    <3> HIDE DEF slack, span, gap, due0, more
    <3>5. energy' <= energy + due0 /\ (gap <= MaxGap => energy' = energy + due0)
      BY <1>4, <2>5, <2>6, <2>7, <3>1, <3>2, <3>4
    <3>6. energy' <= owed + slack
      <4>1. energy' = energy \/ energy' = energy + due0
        BY <2>7, <3>2
      <4> QED BY <1>4, <1>5, <2>4, <2>6, <3>2, <3>5, <4>1
    <3>7. Gapless => energy' = owed
      BY <2>4, <3>1, <3>3, <3>5
    <3> QED BY <3>6, <3>7
  <2>11. CASE ~ OnClock(Previous)
    <3>1. jumped /\ Slack(Previous, most) = 0 /\ slack = most * MaxGap /\ ~ Gapless
      BY <2>1, <2>9, <2>11 DEF Slack, Gapless
    <3>2. gap > 0 /\ gap <= MaxGap => more \in Nat /\ more <= slack
      BY <1>4, <2>5, <3>1, Products
    <3> HIDE DEF slack, span, gap, due0, more
    <3>3. energy' <= owed + slack
      BY <1>4, <1>5, <2>4, <2>6, <2>7, <3>1, <3>2
    <3> QED BY <3>1, <3>3
  <2> QED BY <2>10, <2>11
<1> QED BY <1>3, <1>7, <1>8, <1>9

LEMMA BalancedStep ==
  ASSUME NEW most \in Nat, \A w \in Watts : w <= most
  PROVE  TypeInv /\ Registered /\ Balanced(most) /\ [Next]_vars => Balanced(most)'
<1> SUFFICES ASSUME TypeInv, Registered, Balanced(most), [Next]_vars PROVE Balanced(most)'
  OBVIOUS
<1> USE DEF clock, registry, plain
<1>0. ASSUME UNCHANGED <<now, ticks, jumped, latest, pushed, energy, owed>>
      PROVE  /\ Rested(most)' <=> Rested(most)
             /\ lastTs' = lastTs => (Owing(most)' <=> Owing(most))
             /\ OnClock(latest)' <=> OnClock(latest)
  BY <1>0 DEF Rested, Owing, Slack, OnClock, Gapless, GaplessBefore, Previous
<1>1. CASE Tick \/ Collect \/ Update
  BY <1>1, BalancedTick, BalancedCollect, BalancedUpdate
<1>2. CASE NoUpdate
  <2>1. pushed = <<>>
    BY <1>2, LatestPushed DEF NoUpdate
  <2>2. lastTs = latest.ts /\ Rested(most)
    BY <1>2, <2>1 DEF NoUpdate, Balanced, Owing
  <2> QED BY <1>0, <1>2, <2>2 DEF NoUpdate, Balanced
<1>3. ASSUME NEW field \in Fields, Write(field) PROVE Balanced(most)'
  <2>1. /\ pc = "writing" /\ pc' \in {"writing", "flush"} /\ pending' = pending \ {field}
        /\ (pc' = "flush" => pending = {field})
        /\ lastTs' = IF field = "lastTs" THEN latest.ts ELSE lastTs
        /\ UNCHANGED <<now, ticks, jumped, latest, pushed, energy, owed>>
    BY <1>3 DEF Write
  <2>2. Rested(most)
    BY <2>1 DEF Balanced
  <2>3. Rested(most)' /\ (OnClock(latest)' <=> OnClock(latest))
    BY <1>0, <2>1, <2>2
  <2> QED BY <2>1, <2>3 DEF Balanced
<1>4. CASE Flush
  <2>1. /\ pc = "flush" /\ pc' = "asleep"
        /\ UNCHANGED <<now, ticks, jumped, latest, pushed, lastTs>>
        /\ UNCHANGED <<energy, owed>> \/ (energy' = 0 /\ owed' = 0)
    BY <1>4 DEF Flush
  <2>2. CASE UNCHANGED <<energy, owed>>
    BY <1>0, <2>1, <2>2 DEF Balanced
  <2>3. CASE energy' = 0 /\ owed' = 0
    <3>1. Slack(latest, most)' \in Nat
      BY Products, PipelineAssumption DEF Slack
    <3>2. Rested(most)'
      BY <2>3, <3>1 DEF Rested
    <3> QED BY <2>1, <2>3, <3>2 DEF Balanced, OnClock
  <2> QED BY <2>1, <2>2, <2>3
<1>5. CASE AvgWatts \/ UNCHANGED vars
          \/ (\E seconds \in Windows : Ask(seconds)) \/ (\E field \in Loads : Load(field))
  <2>1. UNCHANGED <<now, ticks, jumped, latest, pushed, energy, owed, lastTs, pc, pending>>
    BY <1>5 DEF AvgWatts, vars, Ask, Load
  <2> QED BY <1>0, <2>1 DEF Balanced
<1> QED BY <1>1, <1>2, <1>3, <1>4, <1>5 DEF Next

-----------------------------------------------------------------------------
(* The theorems.                                                           *)

LEMMA RegistryInductive == Spec => [](TypeInv /\ Registered /\ RingHolds)
BY TypeInit, TypeStep, RegistryStep, PTL DEF Spec

\* RingBuffer::peek_last: the newest items and no other, each once and in one direction,
\* whatever was pushed and however often the buffer has gone round.
THEOREM PeekGivesNewest == Spec => []RecentAreNewest
<1>1. TypeInv /\ Registered /\ RingHolds => RecentAreNewest
  <2> SUFFICES ASSUME TypeInv, Registered, RingHolds PROVE RecentAreNewest
    OBVIOUS
  <2> QED BY NewestFound, Zenon DEF RecentAreNewest
<1> QED BY <1>1, RegistryInductive, PTL

\* PowerPipeline::update with the snapshots it is given, when the power has a greatest
\* value: the energy of the day is the power over the seconds that passed. A reading
\* given twice, a gap and a clock set back add nothing, and a jump MaxGap seconds at most.
THEOREM EnergyIsOfRealSeconds ==
  ASSUME NEW most \in Watts, \A w \in Watts : w <= most PROVE Spec => []EnergyOfRealSeconds
<1>1. most \in Nat
  BY PipelineAssumption
<1>2. Init => Balanced(most)
  <2> SUFFICES ASSUME Init PROVE Balanced(most)
    OBVIOUS
  <2>1. pushed = <<>> /\ energy = 0 /\ owed = 0 /\ lastTs = 0 /\ latest.ts = 0 /\ pc = "asleep"
    BY DEF Init, NoSample
  <2>2. Slack(latest, most) \in Nat
    BY <1>1, Products, PipelineAssumption DEF Slack
  <2> QED BY <2>1, <2>2 DEF Balanced, Rested
<1>3. TypeInv /\ Registered /\ Balanced(most) /\ [Next]_vars => Balanced(most)'
  BY <1>1, BalancedStep
<1>4. TypeInv /\ Balanced(most) => EnergyOfRealSeconds
  <2> SUFFICES ASSUME TypeInv, Balanced(most), pc # "update"
               PROVE  /\ energy <= owed + (IF jumped THEN most * MaxGap ELSE 0)
                      /\ Gapless => energy = owed
    BY DEF EnergyOfRealSeconds
  <2>1. Rested(most) /\ most * MaxGap \in Nat /\ energy \in Nat /\ owed \in Nat
    BY <1>1, Products, PipelineAssumption DEF Balanced, TypeInv
  <2>2. CASE jumped
    BY <2>1, <2>2 DEF Rested, Slack
  <2>3. CASE ~ jumped
    BY <2>1, <2>3 DEF Rested, Slack
  <2> QED BY <2>2, <2>3
<1> QED BY <1>2, <1>3, <1>4, RegistryInductive, PTL DEF Spec

-----------------------------------------------------------------------------
(* The averages: which update each word of the window is of, and which     *)
(* updates each member is of that a call has loaded.                       *)

\* How many updates a member shows: the one in progress may have yet to write it.
Of(field) == Len(updates) - (IF field \in pending THEN 1 ELSE 0)

AtMost(n) == IF n < MaxWindow THEN n ELSE MaxWindow

\* A slot that was never written holds 0.
Numbered(k) == IF k > 0 THEN k ELSE 0

WindowInv ==
  /\ pending \subseteq Fields /\ (pc = "writing" <=> pending # {})
  /\ updates \in Seq(Sample)
  /\ pending # {} => Len(updates) > 0 /\ latest = updates[Len(updates)]
  /\ window \in [0..(MaxWindow - 1) -> [watts : Nat, ts : Nat]]
  /\ head = Of("head") % MaxWindow /\ count = AtMost(Of("count")) /\ lastTs = TsOf(Of("lastTs"))
  /\ \A k \in (Of("watts") - MaxWindow + 1)..Of("watts") :
       window[(k - 1) % MaxWindow].watts = Numbered(k)
  /\ \A k \in (Of("ts") - MaxWindow + 1)..Of("ts") :
       window[(k - 1) % MaxWindow].ts = Numbered(k)

\* Until the clock is set, readings come in the order of their time.
InOrder ==
  ~ jumped =>
    /\ latest.ts <= now
    /\ \A i \in 1..Len(updates) : updates[i].ts <= latest.ts
    /\ \A i, j \in 1..Len(updates) : i <= j => updates[i].ts <= updates[j].ts

\* The head is the one after p updates.
HeadAfter(h, p) == h = p % MaxWindow

\* What is loaded is of before or after the update that overlaps the call; the head has
\* not moved back since.
Loaded ==
  /\ "head" \in reader.todo \/ \E p \in reader.from..Of("head") : HeadAfter(reader.head, p)
  /\ "count" \in reader.todo \/ \E p \in reader.from..Len(updates) : reader.count = AtMost(p)
  /\ "lastTs" \in reader.todo \/ \E p \in reader.from..Len(updates) : reader.lastTs = TsOf(p)

\* One update at most overlaps a call: none comes before the next tick.
Overlaps ==
  IF reader.overlapped
  THEN Len(updates) = reader.from + 1 /\ pc \in {"writing", "flush", "asleep"}
  ELSE /\ reader.from <= Len(updates)
       /\ ~ reader.answered => reader.from = Len(updates) /\ pending = {}

Calls == [seconds : Nat, todo : SUBSET Loads, head : Nat, count : Nat, lastTs : Nat,
          from : Nat, overlapped : BOOLEAN, counted : Seq(Nat), answered : BOOLEAN]

CallInv ==
  /\ reader \in Calls
  /\ reader # Idle => Overlaps /\ (~ reader.answered => Loaded)

\* Numbers that are a multiple of m apart have the same slot.
LEMMA SameSlot ==
  ASSUME NEW m \in Nat, m >= 1, NEW a \in Int, NEW q \in Int, NEW b \in Int, a = b + q * m
  PROVE  a % m = b % m
<1> DEFINE i == a \div m
           j == b \div m
           r == a % m
           s == b % m
<1>1. /\ i \in Int /\ r \in Int /\ 0 <= r /\ r < m /\ a = i * m + r
      /\ j \in Int /\ s \in Int /\ 0 <= s /\ s < m /\ b = j * m + s
  BY Division
<1> HIDE DEF i, j, r, s
<1> DEFINE k == j + q
<1>2. k \in Int /\ k * m = j * m + q * m
  BY <1>1
<1> HIDE DEF k
<1> DEFINE x == i * m
           y == k * m
<1>3. x \in Int /\ y \in Int /\ (i < k => x + m <= y) /\ (k < i => y + m <= x) /\ (i = k => x = y)
  BY <1>1, <1>2
<1>4. j * m \in Int /\ q * m \in Int
  BY <1>1
<1>5. a = x + r /\ a = y + s
  <2>1. a = j * m + s + q * m
    BY <1>1
  <2> DEFINE v == j * m
             w == q * m
  <2>2. v \in Int /\ w \in Int /\ a = v + s + w /\ y = v + w
    BY <1>2, <1>4, <2>1
  <2> HIDE DEF v, w, y
  <2> QED BY <1>1, <2>2
<1> HIDE DEF x, y
<1>6. r = s
  BY <1>1, <1>2, <1>3, <1>5
<1> QED BY <1>6 DEF r, s

\* The slot that is i before the newest of p updates.
LEMMA SlotBefore ==
  ASSUME NEW p \in Int, NEW i \in Int
  PROVE  /\ p % MaxWindow \in 0..(MaxWindow - 1)
         /\ ((p % MaxWindow) - 1 - i) % MaxWindow = (p - 1 - i) % MaxWindow
         /\ ((p % MaxWindow) + 1) % MaxWindow = (p + 1) % MaxWindow
         /\ (p - MaxWindow) % MaxWindow = p % MaxWindow
<1> DEFINE k == p \div MaxWindow
           r == p % MaxWindow
<1>1. MaxWindow \in Nat /\ MaxWindow >= 1
  BY PipelineAssumption
<1>2. k \in Int /\ r \in Int /\ 0 <= r /\ r < MaxWindow /\ p = k * MaxWindow + r
  BY <1>1, Division
<1> HIDE DEF k, r
<1> DEFINE x == k * MaxWindow
           y == (-k) * MaxWindow
<1>3. x \in Int /\ y \in Int /\ y = -x /\ -k \in Int
  BY <1>1, <1>2
<1>4. (r - 1 - i) % MaxWindow = (p - 1 - i) % MaxWindow
  <2> DEFINE a == p - 1 - i
             b == r - 1 - i
  <2>1. a \in Int /\ b \in Int /\ a = b + k * MaxWindow
    <3>1. p = x + r
      BY <1>2
    <3> HIDE DEF x
    <3>2. a = b + x
      BY <1>2, <1>3, <3>1
    <3> QED BY <1>2, <3>2 DEF x
  <2> HIDE DEF a, b
  <2>2. a % MaxWindow = b % MaxWindow
    BY <1>1, <1>2, <2>1, SameSlot, Zenon
  <2> QED BY <2>2 DEF a, b
<1>5. (r + 1) % MaxWindow = (p + 1) % MaxWindow
  <2>1. p + 1 = (r + 1) + k * MaxWindow
    <3>1. p = x + r
      BY <1>2
    <3> HIDE DEF x
    <3>2. p + 1 = (r + 1) + x
      BY <1>2, <1>3, <3>1
    <3> QED BY <3>2 DEF x
  <2>2. r + 1 \in Int /\ p + 1 \in Int /\ k \in Int
    BY <1>2
  <2>3. (p + 1) % MaxWindow = (r + 1) % MaxWindow
    BY <1>1, <2>1, <2>2, SameSlot, Zenon
  <2> QED BY <2>3
<1>6. (p - MaxWindow) % MaxWindow = r
  <2>1. p = (p - MaxWindow) + 1 * MaxWindow /\ p - MaxWindow \in Int /\ 1 \in Int
    BY <1>1
  <2>2. p % MaxWindow = (p - MaxWindow) % MaxWindow
    BY <1>1, <2>1, SameSlot, Zenon
  <2> QED BY <2>2 DEF r
<1> QED BY <1>1, <1>2, <1>4, <1>5, <1>6 DEF r

LEMMA LeastNumber ==
  ASSUME NEW S, S \subseteq Nat, S # {}
  PROVE  \E n \in S : \A m \in S : n <= m
<1> DEFINE R == {p \in Nat \X Nat : p[1] < p[2]}
<1>1. IsWellFoundedOn(R, Nat)
  <2>1. OpToRel(<, Nat) = R
    BY DEF OpToRel
  <2> QED BY <2>1, NatLessThanWellFounded
<1>2. PICK n \in S : \A m \in S : <<m, n>> \notin R
  <2> HIDE DEF R
  <2> QED BY <1>1, WFMin, Zenon
<1>3. \A m \in S : m < n => <<m, n>> \in R
  OBVIOUS
<1> HIDE DEF R
<1>4. \A m \in S : ~ (m < n)
  BY <1>2, <1>3, Zenon
<1> QED BY <1>4

\* The slot of the window that is i before the one at the head.
Back(h, i) == window[(h - 1 - i) % MaxWindow]

\* A scan of n slots from head h counts the first size of them.
Scans(h, n, cutoff, size) ==
  /\ size \in 0..n
  /\ \A i \in 0..(size - 1) : ~ TsOf(Back(h, i).ts) < cutoff
  /\ size # n => TsOf(Back(h, size).ts) < cutoff

\* The slot of turn i when the head is g from turn seen on.
Turn(h, g, seen, i) == Back(IF i < seen THEN h ELSE g, i)

\* Such a scan, when the count ends it after c turns.
TurnScans(h, g, seen, c, cutoff, size) ==
  /\ size \in 0..c
  /\ \A i \in 0..(size - 1) : ~ TsOf(Turn(h, g, seen, i).ts) < cutoff
  /\ size # c => TsOf(Turn(h, g, seen, size).ts) < cutoff

\* What such a scan finds.
ScanFinds(found, seen, c, cutoff, size) ==
  /\ TurnScans(reader.head, head, seen, c, cutoff, size) /\ size \in Nat
  /\ found \in Seq(Nat) /\ DOMAIN found = 1..size /\ Len(found) = size
  /\ \A i \in 1..size : found[i] = Turn(reader.head, head, seen, i - 1).watts

Members(a) ==
  /\ reader.head \in Nat /\ head \in Nat
  /\ reader.count \in {a, a + 1} /\ reader.count \in 0..MaxWindow
  /\ count \in {a, a + 1} /\ count \in 0..MaxWindow
  /\ window \in [0..(MaxWindow - 1) -> [watts : Nat, ts : Nat]]

\* The count is seen before or after it has grown by one: it ends the scan as one of them.
LEMMA ScanFound ==
  ASSUME NEW seen \in 1..MaxWindow, NEW grown \in 1..MaxWindow, NEW cutoff,
         NEW a \in 0..MaxWindow, Members(a)
  PROVE  \E c, size : /\ c \in {reader.count, count}
                      /\ ScanFinds(Scan(seen, grown, cutoff), seen, c, cutoff, size)
<1> USE DEF Members
<1> DEFINE limit(i) == IF i < grown THEN reader.count ELSE count
           slot(i) == Turn(reader.head, head, seen, i)
           stops == {i \in 0..MaxWindow : i >= limit(i) \/ TsOf(slot(i).ts) < cutoff}
           size == CHOOSE i \in stops : \A j \in stops : i <= j
           found == [i \in 1..size |-> slot(i - 1).watts]
           c == limit(a)
<1>0. MaxWindow \in Nat /\ MaxWindow >= 1
  BY PipelineAssumption
<1>1. /\ c \in {reader.count, count} /\ c \in 0..MaxWindow /\ c >= limit(c)
      /\ \A i \in 0..(c - 1) : i < limit(i)
  <2>1. /\ a \in Nat /\ a <= MaxWindow
        /\ \A i : limit(i) \in {a, a + 1} /\ limit(i) \in {reader.count, count}
                 /\ limit(i) \in 0..MaxWindow
    BY <1>0
  <2>2. c \in {a, a + 1} /\ (c = a => c = limit(a)) /\ (c = a + 1 => limit(a) = a + 1)
    BY <2>1
  <2> HIDE DEF limit
  <2>3. c >= limit(c)
    BY <2>1, <2>2
  <2>4. ASSUME NEW i \in 0..(c - 1) PROVE i < limit(i)
    <3>1. CASE i < a
      BY <2>1, <3>1
    <3>2. CASE ~ (i < a)
      <4>1. i = a /\ c = a + 1
        BY <2>1, <2>2, <3>2
      <4> QED BY <2>2, <4>1
    <3> QED BY <3>1, <3>2
  <2>5. c \in {reader.count, count} /\ c \in 0..MaxWindow
    BY <2>1
  <2> QED BY <2>3, <2>4, <2>5
<1> HIDE DEF c, limit
<1>2. size \in stops /\ (\A j \in stops : size <= j) /\ size \in 0..MaxWindow /\ c \in stops
  <2>1. c \in stops /\ stops \subseteq Nat
    BY <1>1, <1>0
  <2>2. \E i \in stops : \A j \in stops : i <= j
    <3> HIDE DEF stops
    <3> QED BY <2>1, LeastNumber
  <2>3. size \in stops /\ \A j \in stops : size <= j
    <3> HIDE DEF stops
    <3> QED BY <2>2
  <2>4. size \in 0..MaxWindow
    <3> HIDE DEF size
    <3> QED BY <2>3
  <2> HIDE DEF size
  <2> QED BY <2>1, <2>3, <2>4
<1> HIDE DEF size
<1>3. TurnScans(reader.head, head, seen, c, cutoff, size)
  <2>1. size \in 0..c
    BY <1>1, <1>2
  <2>2. ASSUME NEW i \in 0..(size - 1) PROVE ~ TsOf(slot(i).ts) < cutoff
    <3>1. i \notin stops /\ i \in 0..MaxWindow
      BY <1>0, <1>2
    <3> QED BY <3>1
  <2>3. ASSUME size # c PROVE TsOf(slot(size).ts) < cutoff
    <3>1. size < limit(size) /\ limit(size) \in Nat
      BY <1>1, <2>1, <2>3, <1>0 DEF limit
    <3> QED BY <1>2, <3>1
  <2> QED BY <2>1, <2>2, <2>3 DEF TurnScans
<1>4. Scan(seen, grown, cutoff) = found
  BY DEF Scan, Turn, Back, limit, size
<1>5. size \in Nat
  BY <1>2
<1>6. \A i \in 1..size : slot(i - 1).watts \in Nat
  <2> SUFFICES ASSUME NEW i \in 1..size PROVE slot(i - 1).watts \in Nat
    OBVIOUS
  <2>1. \A g \in Nat : (g - 1 - (i - 1)) % MaxWindow \in 0..(MaxWindow - 1)
    <3> SUFFICES ASSUME NEW g \in Nat PROVE (g - 1 - (i - 1)) % MaxWindow \in 0..(MaxWindow - 1)
      OBVIOUS
    <3>1. g - 1 - (i - 1) \in Int
      BY <1>5
    <3> QED BY <1>0, <3>1, Division
  <2>2. PICK g \in Nat : slot(i - 1) = Back(g, i - 1)
    BY DEF Turn
  <2> QED BY <2>1, <2>2 DEF Back
<1> HIDE DEF slot
<1>7. found \in Seq(Nat) /\ DOMAIN found = 1..size
  <2>1. found \in [1..size -> Nat]
    BY <1>6
  <2> QED BY <1>5, <2>1, SeqDef
<1>8. Len(found) = size
  BY <1>5, <1>7, LenProperties
<1>9. ScanFinds(found, seen, c, cutoff, size)
  BY <1>3, <1>5, <1>7, <1>8 DEF ScanFinds, slot
<1> HIDE DEF found
<1>10. ScanFinds(Scan(seen, grown, cutoff), seen, c, cutoff, size)
  BY <1>4, <1>9, Zenon
<1>11. c \in {reader.count, count}
  BY <1>1
<1> HIDE DEF c, size
<1> QED BY <1>10, <1>11

LEMMA WindowInit == Init => WindowInv
<1> SUFFICES ASSUME Init PROVE WindowInv
  OBVIOUS
<1>1. /\ updates = <<>> /\ Len(updates) = 0 /\ pending = {} /\ pc = "asleep"
      /\ window = [i \in 0..(MaxWindow - 1) |-> NoSlot] /\ head = 0 /\ count = 0 /\ lastTs = 0
  BY DEF Init
<1>2. \A field \in Fields : Of(field) = 0
  BY <1>1 DEF Of
<1>3. MaxWindow \in Nat /\ MaxWindow >= 1
  BY PipelineAssumption
<1>4. 0 % MaxWindow = 0
  BY <1>3
<1>5. AtMost(0) = 0 /\ TsOf(0) = 0
  BY <1>3 DEF AtMost, TsOf
<1>6. ASSUME NEW k \in (0 - MaxWindow + 1)..0
      PROVE  /\ window[(k - 1) % MaxWindow].watts = Numbered(k)
             /\ window[(k - 1) % MaxWindow].ts = Numbered(k)
  <2>1. (k - 1) % MaxWindow \in 0..(MaxWindow - 1)
    BY <1>3, Division
  <2> QED BY <1>1, <1>3, <2>1 DEF NoSlot, Numbered
<1>7. window \in [0..(MaxWindow - 1) -> [watts : Nat, ts : Nat]]
  BY <1>1 DEF NoSlot
<1>8. updates \in Seq(Sample)
  BY <1>1
<1> QED BY <1>1, <1>2, <1>4, <1>5, <1>6, <1>7, <1>8 DEF WindowInv, Fields

LEMMA WindowKept ==
  ASSUME WindowInv, UNCHANGED <<plain, pending, updates>>,
         pc' = "writing" <=> pc = "writing", pending # {} => latest' = latest
  PROVE  WindowInv'
<1>1. \A field \in Fields : Of(field)' = Of(field)
  BY DEF Of
<1>2. \A n : TsOf(n)' = TsOf(n)
  BY DEF TsOf
<1>3. UNCHANGED <<window, head, count, lastTs, pending, updates>>
  BY DEF plain
<1> QED BY <1>1, <1>2, <1>3 DEF WindowInv, Fields

LEMMA WindowUpdate ==
  ASSUME TypeInv, WindowInv, Update PROVE WindowInv'
<1>1. /\ pc = "update" /\ latest.ts # 0 /\ pc' = "writing" /\ pending' = Fields
      /\ updates' = Append(updates, latest) /\ UNCHANGED <<latest, window, head, count, lastTs>>
  BY DEF Update, registry, plain
<1>2. pending = {} /\ updates \in Seq(Sample)
  BY <1>1 DEF WindowInv
<1>7. PICK n \in Nat : n = Len(updates)
  BY <1>2, LenProperties
<1>3. latest \in Sample
  BY <1>1 DEF TypeInv, NoSample
<1>4. /\ updates' \in Seq(Sample) /\ Len(updates') = n + 1 /\ updates'[n + 1] = latest
      /\ \A i \in 1..n : updates'[i] = updates[i]
  BY <1>1, <1>2, <1>3, <1>7, AppendProperties
<1>5. \A field \in Fields : Of(field) = n /\ Of(field)' = n
  BY <1>1, <1>2, <1>4, <1>7 DEF Of
<1>6. TsOf(n)' = TsOf(n)
  BY <1>2, <1>4 DEF TsOf
<1> QED BY <1>1, <1>2, <1>4, <1>5, <1>6 DEF WindowInv, Fields

LEMMA WindowWrite ==
  ASSUME WindowInv, NEW field \in Fields, Write(field) PROVE WindowInv'
<1> DEFINE n == Len(updates)
<1>1. /\ pc = "writing" /\ field \in pending /\ pending' = pending \ {field}
      /\ pc' = IF pending = {field} THEN "flush" ELSE "writing"
      /\ updates' = updates /\ latest' = latest
  BY DEF Write, registry
<1>2. /\ lastTs' = IF field = "lastTs" THEN latest.ts ELSE lastTs
      /\ head'   = IF field = "head" THEN (head + 1) % MaxWindow ELSE head
      /\ count'  = IF field = "count" /\ count < MaxWindow THEN count + 1 ELSE count
      /\ window' = IF field \in {"watts", "ts"} THEN [window EXCEPT ![Slot][field] = n] ELSE window
  BY DEF Write
<1>3. n \in Nat /\ n > 0 /\ latest = updates[n] /\ updates \in Seq(Sample) /\ pending \subseteq Fields
  BY <1>1 DEF WindowInv
<1>4. MaxWindow \in Nat /\ MaxWindow >= 1
  BY PipelineAssumption
<1> HIDE DEF n
<1>5. /\ Of(field) = n - 1 /\ Of(field)' = n
      /\ \A f \in Fields : f # field => Of(f)' = Of(f) /\ Of(f) \in {n - 1, n}
  BY <1>1, <1>3 DEF Of, n
<1>6. \A k : TsOf(k)' = TsOf(k)
  BY <1>1 DEF TsOf
<1>7. head = Of("head") % MaxWindow /\ count = AtMost(Of("count")) /\ lastTs = TsOf(Of("lastTs"))
  BY DEF WindowInv
<1>8. head' = Of("head")' % MaxWindow
  <2>1. CASE field = "head"
    <3>1. (((n - 1) % MaxWindow) + 1) % MaxWindow = (n - 1 + 1) % MaxWindow
      BY <1>3, SlotBefore
    <3>2. n - 1 + 1 = n
      BY <1>3
    <3> QED BY <1>2, <1>5, <1>7, <2>1, <3>1, <3>2
  <2>2. CASE field # "head"
    BY <1>2, <1>5, <1>7, <2>2 DEF Fields
  <2> QED BY <2>1, <2>2
<1>9. count' = AtMost(Of("count"))'
  <2>1. CASE field = "count"
    BY <1>2, <1>3, <1>4, <1>5, <1>7, <2>1 DEF AtMost
  <2>2. CASE field # "count"
    BY <1>2, <1>5, <1>7, <2>2 DEF Fields, AtMost
  <2> QED BY <2>1, <2>2
<1>10. lastTs' = TsOf(Of("lastTs"))'
  <2>1. CASE field = "lastTs"
    BY <1>1, <1>2, <1>3, <1>5, <2>1 DEF TsOf
  <2>2. CASE field # "lastTs"
    BY <1>2, <1>5, <1>6, <1>7, <2>2 DEF Fields
  <2> QED BY <2>1, <2>2
<1>11. Slot = (n - 1) % MaxWindow /\ Slot \in 0..(MaxWindow - 1)
  <2>1. Of("head") = IF "head" \in pending THEN n - 1 ELSE n
    BY <1>3 DEF Of, n
  <2>2. ((n % MaxWindow) - 1 - 0) % MaxWindow = (n - 1 - 0) % MaxWindow
    BY <1>3, SlotBefore
  <2>3. n % MaxWindow \in Int /\ n - 1 - 0 = n - 1
    BY <1>3, <1>4
  <2>4. (n % MaxWindow) - 1 - 0 = (n % MaxWindow) - 1
    BY <2>3
  <2>5. Slot = (n - 1) % MaxWindow
    BY <1>7, <2>1, <2>2, <2>3, <2>4 DEF Slot
  <2>6. (n - 1) % MaxWindow \in 0..(MaxWindow - 1)
    <3>1. n - 1 \in Int
      BY <1>3
    <3> QED BY <1>4, <3>1, Division
  <2> QED BY <2>5, <2>6
<1> DEFINE Positions == 0..(MaxWindow - 1)
<1>12. /\ window' \in [Positions -> [watts : Nat, ts : Nat]]
       /\ \A x \in Positions :
            /\ window'[x].watts = IF field = "watts" /\ x = Slot THEN n ELSE window[x].watts
            /\ window'[x].ts = IF field = "ts" /\ x = Slot THEN n ELSE window[x].ts
  <2>1. window \in [Positions -> [watts : Nat, ts : Nat]]
    BY DEF WindowInv
  <2> HIDE DEF Positions
  <2>2. CASE field = "watts"
    <3>1. window' = [window EXCEPT ![Slot].watts = n]
      BY <1>2, <2>2
    <3> QED BY <1>3, <2>1, <2>2, <3>1
  <2>3. CASE field = "ts"
    <3>1. window' = [window EXCEPT ![Slot].ts = n]
      BY <1>2, <2>3
    <3> QED BY <1>3, <2>1, <2>3, <3>1
  <2>4. CASE field \notin {"watts", "ts"}
    BY <1>2, <2>1, <2>4
  <2> QED BY <2>2, <2>3, <2>4
<1>13. ASSUME NEW k \in (n - MaxWindow + 1)..n
       PROVE  /\ (k - 1) % MaxWindow \in Positions
              /\ (k - 1) % MaxWindow = Slot <=> k = n
  <2> DEFINE a == k - 1
             b == n - 1
  <2>1. a \in Int /\ b \in Int /\ (k # n => a < b /\ b < a + MaxWindow) /\ (k = n => a = b)
    BY <1>3, <1>4
  <2> HIDE DEF a, b
  <2>2. a % MaxWindow \in Positions
    BY <1>4, <2>1, Division
  <2>3. k # n => (a % MaxWindow) # (b % MaxWindow)
    BY <1>4, <2>1, SlotsDiffer, Zenon
  <2>4. Slot = b % MaxWindow
    BY <1>11 DEF b
  <2>5. k = n => a % MaxWindow = b % MaxWindow
    BY <2>1
  <2> HIDE DEF Positions
  <2> QED BY <2>2, <2>3, <2>4, <2>5 DEF a
<1>14. ASSUME NEW k \in (Of("watts")' - MaxWindow + 1)..Of("watts")'
       PROVE  window'[(k - 1) % MaxWindow].watts = Numbered(k)
  <2>1. \A j \in (Of("watts") - MaxWindow + 1)..Of("watts") :
          window[(j - 1) % MaxWindow].watts = Numbered(j)
    BY DEF WindowInv
  <2>2. (k - 1) % MaxWindow \in Positions
    <3>1. k - 1 \in Int
      BY <1>3, <1>5 DEF Fields
    <3> QED BY <1>4, <3>1, Division
  <2>3. CASE field = "watts"
    <3>1. k \in (n - MaxWindow + 1)..n
      BY <1>5, <2>3
    <3>2. CASE k = n
      BY <1>3, <1>12, <1>13, <2>2, <2>3, <3>1, <3>2 DEF Numbered
    <3>3. CASE k # n
      <4>1. k \in (n - 1 - MaxWindow + 1)..(n - 1)
        BY <1>3, <1>4, <3>1, <3>3
      <4>2. window[(k - 1) % MaxWindow].watts = Numbered(k)
        BY <1>5, <2>1, <2>3, <4>1
      <4>3. (k - 1) % MaxWindow # Slot
        BY <1>13, <3>1, <3>3
      <4> QED BY <1>12, <2>2, <4>2, <4>3
    <3> QED BY <3>2, <3>3
  <2>4. CASE field # "watts"
    <3>1. Of("watts")' = Of("watts")
      BY <1>5, <2>4 DEF Fields
    <3>2. window[(k - 1) % MaxWindow].watts = Numbered(k)
      BY <2>1, <3>1
    <3> QED BY <1>12, <2>2, <2>4, <3>2
  <2> QED BY <2>3, <2>4
<1>15. ASSUME NEW k \in (Of("ts")' - MaxWindow + 1)..Of("ts")'
       PROVE  window'[(k - 1) % MaxWindow].ts = Numbered(k)
  <2>1. \A j \in (Of("ts") - MaxWindow + 1)..Of("ts") :
          window[(j - 1) % MaxWindow].ts = Numbered(j)
    BY DEF WindowInv
  <2>2. (k - 1) % MaxWindow \in Positions
    <3>1. k - 1 \in Int
      BY <1>3, <1>5 DEF Fields
    <3> QED BY <1>4, <3>1, Division
  <2>3. CASE field = "ts"
    <3>1. k \in (n - MaxWindow + 1)..n
      BY <1>5, <2>3
    <3>2. CASE k = n
      BY <1>3, <1>12, <1>13, <2>2, <2>3, <3>1, <3>2 DEF Numbered
    <3>3. CASE k # n
      <4>1. k \in (n - 1 - MaxWindow + 1)..(n - 1)
        BY <1>3, <1>4, <3>1, <3>3
      <4>2. window[(k - 1) % MaxWindow].ts = Numbered(k)
        BY <1>5, <2>1, <2>3, <4>1
      <4>3. (k - 1) % MaxWindow # Slot
        BY <1>13, <3>1, <3>3
      <4> QED BY <1>12, <2>2, <4>2, <4>3
    <3> QED BY <3>2, <3>3
  <2>4. CASE field # "ts"
    <3>1. Of("ts")' = Of("ts")
      BY <1>5, <2>4 DEF Fields
    <3>2. window[(k - 1) % MaxWindow].ts = Numbered(k)
      BY <2>1, <3>1
    <3> QED BY <1>12, <2>2, <2>4, <3>2
  <2> QED BY <2>3, <2>4
<1>16. /\ pending' \subseteq Fields /\ (pc' = "writing" <=> pending' # {})
       /\ updates' \in Seq(Sample)
       /\ pending' # {} => Len(updates') > 0 /\ latest' = updates'[Len(updates')]
  BY <1>1, <1>3 DEF n
<1> QED BY <1>8, <1>9, <1>10, <1>12, <1>14, <1>15, <1>16 DEF WindowInv

LEMMA WindowStep == TypeInv /\ WindowInv /\ [Next]_vars => WindowInv'
<1> SUFFICES ASSUME TypeInv, WindowInv, [Next]_vars PROVE WindowInv'
  OBVIOUS
<1>1. pc # "writing" => pending = {}
  BY DEF WindowInv
<1>2. CASE Tick
  BY <1>1, <1>2, WindowKept DEF Tick
<1>3. CASE Collect
  BY <1>1, <1>3, WindowKept DEF Collect
<1>4. CASE NoUpdate \/ Flush
  BY <1>1, <1>4, WindowKept DEF NoUpdate, Flush, registry
<1>5. CASE Update
  BY <1>5, WindowUpdate
<1>6. CASE \E field \in Fields : Write(field)
  BY <1>6, WindowWrite
<1>7. CASE AvgWatts \/ UNCHANGED vars \/ (\E seconds \in Windows : Ask(seconds))
             \/ (\E field \in Loads : Load(field))
  BY <1>7, WindowKept DEF AvgWatts, vars, Ask, Load, registry
<1> QED BY <1>2, <1>3, <1>4, <1>5, <1>6, <1>7 DEF Next

LEMMA UpdateFields ==
  ASSUME updates \in Seq(Sample), NEW u \in 1..Len(updates)
  PROVE  TsOf(u) = updates[u].ts /\ updates[u].ts \in Nat
<1>1. updates[u] \in Sample
  BY ElementOfSeq
<1>2. Len(updates) \in Nat /\ u # 0
  BY LenProperties
<1> QED BY <1>1, <1>2 DEF TsOf, Sample

\* The slots from lo to hi before head h hold the updates before m one after the other.
Regular(m, lo, hi, h) ==
  \A i \in lo..hi : m - i \in 1..Len(updates) /\ Back(h, i).ts = m - i

\* A scan of c slots, regular from the first or the second on, with the cutoff of update q.
RegularScan(m, lo, hi, h, c, q, s, size) ==
  /\ m \in Nat /\ lo \in {0, 1} /\ hi \in Int /\ Regular(m, lo, hi, h)
  /\ q \in 1..Len(updates) /\ m - lo <= q /\ q <= m - lo + 1 /\ s \in Nat
  /\ c \in Nat /\ Scans(h, c, TsOf(q) - s, size) /\ lo <= size

\* It counts the regular slots of the window of update q.
LEMMA ScanRegular ==
  ASSUME updates \in Seq(Sample), NEW m, NEW lo, NEW hi, NEW h, NEW c, NEW q, NEW s, NEW size,
         RegularScan(m, lo, hi, h, c, q, s, size)
  PROVE  /\ \A i \in lo..hi : i < size /\ q - (m - i) < MaxWindow => m - i \in Reference(q, s)
         /\ \A i \in lo..hi : i < c /\ m - i \in Reference(q, s) => i < size
<1> USE DEF RegularScan
<1>1. Len(updates) \in Nat /\ size \in 0..c
  BY LenProperties DEF Scans
<1>2. \A v \in 1..Len(updates) : TsOf(v) = updates[v].ts /\ updates[v].ts \in Nat
  BY UpdateFields
<1>3. ASSUME NEW i \in lo..hi, i < size, q - (m - i) < MaxWindow
      PROVE  m - i \in Reference(q, s)
  <2>1. m - i \in 1..q
    BY <1>1, <1>3 DEF Regular
  <2>2. ASSUME NEW v \in (m - i)..q PROVE updates[v].ts >= updates[q].ts - s
    <3>1. v \in 1..Len(updates)
      BY <1>1, <2>1, <2>2
    <3>2. CASE v <= m - lo
      <4>1. m - v \in lo..hi /\ m - v \in 0..(size - 1) /\ m - (m - v) = v
        BY <1>1, <1>3, <3>1, <3>2
      <4>2. Back(h, m - v).ts = v
        BY <4>1 DEF Regular
      <4>3. ~ TsOf(v) < TsOf(q) - s
        BY <4>1, <4>2 DEF Scans
      <4> QED BY <1>2, <3>1, <4>3
    <3>3. CASE v > m - lo
      <4>1. v = q
        BY <1>1, <3>1, <3>3
      <4> QED BY <1>2, <4>1
    <3> QED BY <3>1, <3>2, <3>3
  <2> QED BY <1>3, <2>1, <2>2 DEF Reference
<1>4. ASSUME NEW i \in lo..hi, i < c, m - i \in Reference(q, s)
      PROVE  i < size
  <2>1. SUFFICES ASSUME size <= i PROVE FALSE
    BY <1>1
  <2>2. size # c /\ size \in lo..hi
    BY <1>1, <1>4, <2>1
  <2>3. PICK v \in 1..Len(updates) : v = m - size /\ v \in (m - i)..q /\ Back(h, size).ts = v
    BY <1>1, <1>4, <2>1, <2>2 DEF Regular
  <2>4. TsOf(v) < TsOf(q) - s
    BY <2>2, <2>3 DEF Scans
  <2>5. updates[v].ts >= updates[q].ts - s
    BY <1>4, <2>3 DEF Reference
  <2>6. /\ TsOf(v) = updates[v].ts /\ updates[v].ts \in Nat
        /\ TsOf(q) = updates[q].ts /\ updates[q].ts \in Nat
    BY <1>2, <2>3
  <2> QED BY <2>4, <2>5, <2>6
<1> QED BY <1>3, <1>4

\* Update k is one of the window's, no write of it is pending, and its slot is i before h.
SlotOf(k, p, i, h) ==
  /\ k \in 1..Len(updates) /\ Len(updates) - k < MaxWindow
  /\ k < Len(updates) \/ pending = {}
  /\ p \in Int /\ i \in Int /\ k = p - i /\ HeadAfter(h, p)

LEMMA SlotHolds ==
  ASSUME WindowInv, NEW k, NEW p, NEW i, NEW h, SlotOf(k, p, i, h)
  PROVE  Back(h, i).watts = k /\ Back(h, i).ts = k
<1> USE DEF SlotOf
<1>1. Len(updates) \in Nat /\ MaxWindow \in Nat /\ MaxWindow >= 1
  BY PipelineAssumption, LenProperties DEF WindowInv
<1>2. \A field \in Fields : k \in (Of(field) - MaxWindow + 1)..Of(field)
  BY <1>1 DEF Of
<1>3. ((p % MaxWindow) - 1 - i) % MaxWindow = (k - 1) % MaxWindow
  <2>1. p - 1 - i = k - 1
    OBVIOUS
  <2> QED BY <2>1, SlotBefore
<1>4. Numbered(k) = k
  BY DEF Numbered
<1> QED BY <1>2, <1>3, <1>4 DEF WindowInv, Fields, Back, HeadAfter

\* The updates counted by a scan.
CountedIn(h, size) == {Back(h, i).watts : i \in 0..(size - 1)}

\* No update overlaps.
LEMMA QuietScan ==
  ASSUME WindowInv, pending = {}, NEW n, n = Len(updates), NEW s \in Nat, NEW size,
         NEW h, HeadAfter(h, n), Scans(h, AtMost(n), TsOf(n) - s, size)
  PROVE  /\ CountedIn(h, size) = Reference(n, s)
         /\ Cardinality(Reference(n, s)) = size
<1>1. n \in Nat /\ MaxWindow \in Nat /\ MaxWindow >= 1 /\ updates \in Seq(Sample)
  BY PipelineAssumption, LenProperties DEF WindowInv
<1> DEFINE c == AtMost(n)
<1>2. c \in Nat /\ c <= n /\ c <= MaxWindow /\ (c = n \/ c = MaxWindow)
  BY <1>1 DEF AtMost
<1>3. size \in 0..c
  BY <1>2 DEF Scans
<1>4. \A i \in 0..(c - 1) : /\ n - i \in 1..Len(updates)
                            /\ Back(h, i).ts = n - i /\ Back(h, i).watts = n - i
  <2> SUFFICES ASSUME NEW i \in 0..(c - 1)
               PROVE  /\ n - i \in 1..Len(updates)
                      /\ Back(h, i).ts = n - i /\ Back(h, i).watts = n - i
    OBVIOUS
  <2>1. n - i \in 1..Len(updates) /\ Len(updates) - (n - i) < MaxWindow
    BY <1>1, <1>2
  <2>2. PICK k \in 1..Len(updates) : k = n - i
    BY <2>1
  <2>3. Len(updates) - k < MaxWindow /\ i \in Int /\ n \in Int
    BY <1>1, <1>2, <2>1, <2>2
  <2>4. SlotOf(k, n, i, h)
    BY <2>2, <2>3 DEF SlotOf
  <2>5. Back(h, i).watts = k /\ Back(h, i).ts = k
    BY <2>4, SlotHolds, Zenon
  <2> QED BY <2>1, <2>2, <2>5
<1>5. \A u \in Reference(n, s) : u \in 1..n /\ n - u < MaxWindow
  BY DEF Reference
<1> HIDE DEF c
<1>6. /\ \A i \in 0..(c - 1) : i < size => n - i \in Reference(n, s)
      /\ \A i \in 0..(c - 1) : n - i \in Reference(n, s) => i < size
  <2>1. CASE n = 0
    BY <1>2, <2>1
  <2>2. CASE n # 0
    <3>1. Regular(n, 0, c - 1, h)
      BY <1>4 DEF Regular
    <3>2. Scans(h, c, TsOf(n) - s, size)
      BY DEF c
    <3>3. RegularScan(n, 0, c - 1, h, c, n, s, size)
      BY <1>1, <1>2, <1>3, <2>2, <3>1, <3>2 DEF RegularScan
    <3>4. /\ \A i \in 0..(c - 1) :
               i < size /\ n - (n - i) < MaxWindow => n - i \in Reference(n, s)
          /\ \A i \in 0..(c - 1) : i < c /\ n - i \in Reference(n, s) => i < size
      BY <1>1, <3>3, ScanRegular, Zenon
    <3>5. \A i \in 0..(c - 1) : n - (n - i) < MaxWindow /\ i < c
      BY <1>1, <1>2
    <3> QED BY <3>4, <3>5
  <2> QED BY <2>1, <2>2
<1>7. Reference(n, s) = (n - size + 1)..n
  <2>1. ASSUME NEW u \in Reference(n, s) PROVE u \in (n - size + 1)..n
    <3>1. u \in 1..n /\ n - u < MaxWindow
      BY <1>5
    <3>2. n - u \in 0..(c - 1) /\ n - (n - u) = u
      BY <1>1, <1>2, <3>1
    <3>3. n - u < size
      BY <1>6, <3>2
    <3> QED BY <1>1, <1>3, <3>1, <3>3
  <2>2. ASSUME NEW u \in (n - size + 1)..n PROVE u \in Reference(n, s)
    <3>1. n - u \in 0..(c - 1) /\ n - (n - u) = u /\ n - u < size
      BY <1>1, <1>2, <1>3
    <3> QED BY <1>6, <3>1
  <2> QED BY <2>1, <2>2
<1>8. CountedIn(h, size) = (n - size + 1)..n
  <2>1. \A i \in 0..(size - 1) : Back(h, i).watts = n - i
    BY <1>2, <1>3, <1>4
  <2>2. CountedIn(h, size) = {n - i : i \in 0..(size - 1)}
    BY <2>1 DEF CountedIn
  <2>3. ASSUME NEW u \in (n - size + 1)..n PROVE \E i \in 0..(size - 1) : u = n - i
    <3>1. n - u \in 0..(size - 1) /\ u = n - (n - u)
      BY <1>1, <1>2, <1>3
    <3> QED BY <3>1
  <2>4. \A i \in 0..(size - 1) : n - i \in (n - size + 1)..n
    BY <1>1, <1>2, <1>3
  <2> QED BY <2>2, <2>3, <2>4
<1>9. Cardinality((n - size + 1)..n) = size
  <2>1. n - size + 1 \in Int /\ n \in Int
    BY <1>1, <1>2, <1>3
  <2>2. n - (n - size + 1) + 1 = size
    BY <1>1, <1>2, <1>3
  <2> QED BY <1>2, <1>3, <2>1, <2>2, FS_Interval
<1> QED BY <1>7, <1>8, <1>9

LEMMA AtMostFacts ==
  ASSUME NEW n \in Nat, n >= 1
  PROVE  /\ AtMost(n) \in Nat /\ AtMost(n - 1) \in Nat /\ AtMost(n) >= 1
         /\ AtMost(n) <= n /\ AtMost(n) <= MaxWindow /\ (AtMost(n) = n \/ AtMost(n) = MaxWindow)
         /\ AtMost(n - 1) <= n - 1
         /\ AtMost(n - 1) = AtMost(n) \/ (AtMost(n - 1) = n - 1 /\ AtMost(n) = n /\ n <= MaxWindow)
  BY PipelineAssumption DEF AtMost

\* A scan from head h, the count and the newest time each of before or after update n.
MixedScan(n, h, c, q, s, size) ==
  /\ n \in Nat /\ n = Len(updates) /\ n >= 1
  /\ c = AtMost(n - 1) \/ c = AtMost(n)
  /\ q = n - 1 \/ q = n
  /\ s \in Nat /\ Scans(h, c, TsOf(q) - s, size)

\* With the head before it, all slots but the written one are regular.
LEMMA RegularBefore ==
  ASSUME WindowInv, NEW n, n = Len(updates), n >= 1, NEW h, HeadAfter(h, n - 1)
  PROVE  \A i \in 0..(AtMost(n) - 2) : /\ n - 1 - i \in 1..Len(updates)
                                       /\ Back(h, i).ts = n - 1 - i
                                       /\ Back(h, i).watts = n - 1 - i
<1>1. MaxWindow \in Nat /\ MaxWindow >= 1 /\ n \in Nat
  BY PipelineAssumption, LenProperties DEF WindowInv
<1>2. AtMost(n) \in Nat /\ AtMost(n) <= n /\ AtMost(n) <= MaxWindow
  BY <1>1, AtMostFacts
<1> SUFFICES ASSUME NEW i \in 0..(AtMost(n) - 2)
             PROVE  /\ n - 1 - i \in 1..Len(updates)
                    /\ Back(h, i).ts = n - 1 - i /\ Back(h, i).watts = n - 1 - i
  OBVIOUS
<1>3. i \in Nat /\ i + 1 <= n - 1 /\ i + 1 <= MaxWindow - 1
  BY <1>1, <1>2
<1>4. PICK k \in 1..Len(updates) : k = n - 1 - i
  <2>1. n - 1 - i \in 1..Len(updates)
    BY <1>1, <1>3
  <2> QED BY <2>1, Zenon
<1>5. k < Len(updates) /\ Len(updates) - k < MaxWindow /\ i \in Int /\ n - 1 \in Int
  BY <1>1, <1>3, <1>4
<1>6. SlotOf(k, n - 1, i, h)
  BY <1>4, <1>5 DEF SlotOf
<1>7. Back(h, i).watts = k /\ Back(h, i).ts = k
  BY <1>6, SlotHolds, Zenon
<1> QED BY <1>4, <1>7

\* A scan from a head of before update n that count or count - 1 of after it ends.
EarlyScan(n, h, c, q, s, size) ==
  /\ n \in Nat /\ n = Len(updates) /\ n >= 1 /\ HeadAfter(h, n - 1)
  /\ c = AtMost(n) - 1 \/ c = AtMost(n)
  /\ q = n - 1 \/ q = n
  /\ s \in Nat /\ Scans(h, c, TsOf(q) - s, size)

\* The scan starts below the update in progress.
LEMMA ScanBefore ==
  ASSUME WindowInv, NEW n, NEW h, NEW c, NEW q, NEW s, NEW size,
         EarlyScan(n, h, c, q, s, size)
  PROVE  /\ \E x, y : /\ CountedIn(h, size) \ Reference(q, s) \subseteq {x}
                      /\ Reference(q, s) \ CountedIn(h, size) \subseteq {y}
         /\ \A i \in 0..(AtMost(n) - 2) : i < size => n - 1 - i \in CountedIn(h, size)
<1> USE DEF EarlyScan
<1> DEFINE C == CountedIn(h, size)
           R == Reference(q, s)
<1>1. /\ MaxWindow \in Nat /\ MaxWindow >= 1 /\ updates \in Seq(Sample)
  BY PipelineAssumption DEF WindowInv
<1>2. PICK o \in Nat : /\ o = AtMost(n) - 1 /\ o <= n - 1 /\ o <= MaxWindow - 1
                       /\ o = n - 1 \/ o = MaxWindow - 1
  <2>1. /\ AtMost(n) \in Nat /\ AtMost(n) >= 1 /\ AtMost(n) <= n /\ AtMost(n) <= MaxWindow
        /\ AtMost(n) = n \/ AtMost(n) = MaxWindow
    BY AtMostFacts
  <2>2. AtMost(n) - 1 \in Nat
    BY <2>1
  <2> QED BY <1>1, <2>1, <2>2
<1>3. c \in Nat /\ o <= c /\ c <= o + 1 /\ c <= n
  BY <1>2, AtMostFacts
<1>4. size \in Nat /\ size <= c
  BY <1>3 DEF Scans
<1> DEFINE x == Back(h, o).watts
           y == IF q = n THEN n ELSE n - 1 - o
<1>5. \A e \in C : \E i \in 0..(size - 1) : e = Back(h, i).watts
  BY DEF CountedIn
<1>6. \A i \in 0..(size - 1) : Back(h, i).watts \in C
  BY DEF CountedIn
<1>7. \A u \in R : u \in 1..q /\ q - u < MaxWindow
  BY DEF Reference
<1> HIDE DEF C, R, x, y
<1>8. \A i \in 0..(o - 1) : /\ n - 1 - i \in 1..Len(updates)
                            /\ Back(h, i).ts = n - 1 - i /\ Back(h, i).watts = n - 1 - i
  <2>1. AtMost(n) - 2 = o - 1
    BY <1>2, AtMostFacts
  <2>2. /\ n = Len(updates) /\ n >= 1 /\ HeadAfter(h, n - 1)
    OBVIOUS
  <2>3. \A i \in 0..(AtMost(n) - 2) : /\ n - 1 - i \in 1..Len(updates)
                                       /\ Back(h, i).ts = n - 1 - i /\ Back(h, i).watts = n - 1 - i
    BY <2>2, RegularBefore, Zenon
  <2> QED BY <2>1, <2>3
<1>11. \A i \in 0..(AtMost(n) - 2) : i < size => n - 1 - i \in C
  <2>1. AtMost(n) - 2 = o - 1
    BY <1>2, AtMostFacts
  <2>2. \A i \in 0..(o - 1) : i < size => i \in 0..(size - 1)
    BY <1>2, <1>4
  <2> QED BY <1>6, <1>8, <2>1, <2>2
<1>9. CASE q = 0
  <2>0. n = 1
    BY <1>9
  <2>1. o = 0 /\ size <= 1
    <3>1. o <= 0
      BY <1>2, <2>0
    <3> QED BY <1>3, <1>4, <3>1
  <2>2. \A e \in C : e = x
    BY <1>4, <1>5, <2>1 DEF x
  <2>3. R = {}
    BY <1>7, <1>9
  <2>4. C \ R \subseteq {x} /\ R \ C \subseteq {x}
    BY <2>2, <2>3
  <2> QED BY <1>11, <2>4 DEF C, R
<1>10. CASE q # 0
  <2>1. RegularScan(n - 1, 0, o - 1, h, c, q, s, size)
    <3>1. Regular(n - 1, 0, o - 1, h)
      BY <1>8 DEF Regular
    <3>2. q \in 1..Len(updates) /\ n - 1 \in Nat
      BY <1>10
    <3> QED BY <1>2, <1>3, <1>4, <3>1, <3>2 DEF RegularScan
  <2>2. /\ \A i \in 0..(o - 1) : i < size /\ q - (n - 1 - i) < MaxWindow => n - 1 - i \in Reference(q, s)
        /\ \A i \in 0..(o - 1) : i < c /\ n - 1 - i \in Reference(q, s) => i < size
    BY <1>1, <2>1, ScanRegular, Zenon
  <2>3. ASSUME NEW e \in C, e # x PROVE e \in R
    <3>1. PICK i \in 0..(size - 1) : e = Back(h, i).watts
      BY <1>5
    <3>2. i # o
      BY <2>3, <3>1 DEF x
    <3>3. i \in 0..(o - 1) /\ i < size /\ q - (n - 1 - i) < MaxWindow
      BY <1>1, <1>2, <1>3, <1>4, <3>2
    <3> QED BY <1>8, <2>2, <3>1, <3>3 DEF R
  <2>4. ASSUME NEW u \in R, u # y PROVE u \in C
    <3>1. u \in 1..q /\ q - u < MaxWindow
      BY <1>7
    <3>2. u # n
      BY <1>10, <2>4, <3>1 DEF y
    <3>3. PICK i \in 0..(o - 1) : u = n - 1 - i
      <4>1. n - 1 - u \in Nat /\ u = n - 1 - (n - 1 - u) /\ n - 1 - u <= n - 2
        BY <3>1, <3>2
      <4>2. n - 1 - u < o
        BY <1>1, <1>2, <2>4, <3>1, <4>1 DEF y
      <4> QED BY <1>2, <4>1, <4>2
    <3>4. i < c /\ n - 1 - i \in Reference(q, s)
      BY <1>2, <1>3, <3>3 DEF R
    <3>5. i \in 0..(size - 1)
      BY <1>4, <2>2, <3>4
    <3> QED BY <1>6, <1>8, <3>3, <3>5
  <2>5. C \ R \subseteq {x} /\ R \ C \subseteq {y}
    BY <2>3, <2>4
  <2> QED BY <1>11, <2>5 DEF C, R
<1> QED BY <1>9, <1>10

\* Until the window is full, an early scan may miss its first reading as well.
ShortScan(n, h, q, s, size) ==
  /\ n \in Nat /\ n = Len(updates) /\ n >= 2 /\ n <= MaxWindow /\ HeadAfter(h, n - 1)
  /\ q = n - 1 \/ q = n
  /\ s \in Nat /\ Scans(h, n - 2, TsOf(q) - s, size)

LEMMA ScanShort ==
  ASSUME WindowInv, NEW n, NEW h, NEW q, NEW s, NEW size, ShortScan(n, h, q, s, size)
  PROVE  /\ CountedIn(h, size) \subseteq Reference(q, s)
         /\ \A i \in 0..(AtMost(n) - 2) : i < size => n - 1 - i \in CountedIn(h, size)
         /\ q = n - 1 => Reference(q, s) \ CountedIn(h, size) \subseteq {1}
         /\ q = n => Reference(q, s) \ CountedIn(h, size) \subseteq {n, 1}
         /\ q = n /\ 1 \in Reference(n, s) /\ TsOf(n - 1) <= TsOf(n) =>
              /\ CountedIn(h, size) \subseteq Reference(n - 1, s)
              /\ Reference(n - 1, s) \ CountedIn(h, size) \subseteq {1}
<1> USE DEF ShortScan
<1> DEFINE C == CountedIn(h, size)
           R == Reference(q, s)
<1>1. /\ MaxWindow \in Nat /\ MaxWindow >= 1 /\ updates \in Seq(Sample)
      /\ AtMost(n) = n /\ q \in 1..Len(updates)
  <2>1. MaxWindow \in Nat /\ MaxWindow >= 1
    BY PipelineAssumption
  <2>2. updates \in Seq(Sample)
    BY DEF WindowInv
  <2>3. AtMost(n) = n
    BY <2>1 DEF AtMost
  <2>4. q \in 1..Len(updates)
    OBVIOUS
  <2> QED BY <2>1, <2>2, <2>3, <2>4
<1>2. size \in Nat /\ size <= n - 2
  BY DEF Scans
<1>3. \A e \in C : \E i \in 0..(size - 1) : e = Back(h, i).watts
  BY DEF CountedIn
<1>4. \A i \in 0..(size - 1) : Back(h, i).watts \in C
  BY DEF CountedIn
<1>5. \A u \in R : u \in 1..q /\ q - u < MaxWindow
  BY DEF Reference
<1>6. \A i \in 0..(n - 2) : /\ n - 1 - i \in 1..Len(updates)
                            /\ Back(h, i).ts = n - 1 - i /\ Back(h, i).watts = n - 1 - i
  <2>1. n = Len(updates) /\ n >= 1 /\ HeadAfter(h, n - 1)
    OBVIOUS
  <2>2. \A i \in 0..(AtMost(n) - 2) : /\ n - 1 - i \in 1..Len(updates)
                                       /\ Back(h, i).ts = n - 1 - i /\ Back(h, i).watts = n - 1 - i
    BY <2>1, RegularBefore, Zenon
  <2> QED BY <1>1, <2>2
<1>7. RegularScan(n - 1, 0, n - 2, h, n - 2, q, s, size)
  <2>1. Regular(n - 1, 0, n - 2, h)
    BY <1>6 DEF Regular
  <2> QED BY <1>1, <1>2, <2>1 DEF RegularScan
<1>8. /\ \A i \in 0..(n - 2) :
           i < size /\ q - (n - 1 - i) < MaxWindow => n - 1 - i \in Reference(q, s)
      /\ \A i \in 0..(n - 2) : i < n - 2 /\ n - 1 - i \in Reference(q, s) => i < size
  <2>1. updates \in Seq(Sample)
    BY <1>1
  <2>2. PICK m, e : m = n - 1 /\ e = n - 2
    OBVIOUS
  <2>3. RegularScan(m, 0, e, h, e, q, s, size)
    BY <1>7, <2>2
  <2>4. /\ \A i \in 0..e : i < size /\ q - (m - i) < MaxWindow => m - i \in Reference(q, s)
        /\ \A i \in 0..e : i < e /\ m - i \in Reference(q, s) => i < size
    BY <2>1, <2>3, ScanRegular, Zenon
  <2> QED BY <2>2, <2>4
<1> HIDE DEF C, R
<1>9. ASSUME NEW e \in C PROVE \E i \in 0..(n - 2) : i < size /\ e = n - 1 - i
  <2>1. PICK i \in 0..(size - 1) : e = Back(h, i).watts
    BY <1>3
  <2>2. i \in 0..(n - 2) /\ i < size
    BY <1>2
  <2> QED BY <1>6, <2>1, <2>2
<1>10. ASSUME NEW e \in C PROVE e \in R
  <2>1. PICK i \in 0..(n - 2) : i < size /\ e = n - 1 - i
    BY <1>9
  <2>2. q - (n - 1 - i) < MaxWindow
    BY <1>1, <1>2, <2>1
  <2> QED BY <1>8, <2>1, <2>2 DEF R
<1>11. ASSUME NEW u \in R, u # n, u # 1 PROVE u \in C
  <2>1. u \in 1..n /\ n - 1 - u \in 0..(n - 2) /\ n - 1 - u < n - 2
    BY <1>5, <1>11
  <2>2. PICK i \in 0..(n - 2) : i = n - 1 - u /\ u = n - 1 - i
    <3>1. n - 1 - (n - 1 - u) = u
      BY <2>1
    <3> QED BY <2>1, <3>1
  <2>3. i < size
    BY <1>8, <2>1, <2>2 DEF R
  <2>4. i \in 0..(size - 1)
    BY <1>2, <2>3
  <2> QED BY <1>4, <1>6, <2>2, <2>4
<1>12. \A i \in 0..(AtMost(n) - 2) : i < size => n - 1 - i \in C
  <2>1. \A i \in 0..(n - 2) : i < size => i \in 0..(size - 1)
    BY <1>2
  <2> QED BY <1>1, <1>4, <1>6, <2>1
<1>13. q = n - 1 => R \ C \subseteq {1}
  <2>1. q = n - 1 => n \notin R
    BY <1>5
  <2> QED BY <1>11, <2>1
<1>14. q = n => R \ C \subseteq {n, 1}
  BY <1>11
<1>15. ASSUME q = n, 1 \in Reference(n, s), TsOf(n - 1) <= TsOf(n)
       PROVE  C \subseteq Reference(n - 1, s) /\ Reference(n - 1, s) \ C \subseteq {1}
  <2>1. \A v \in 1..Len(updates) : TsOf(v) = updates[v].ts /\ updates[v].ts \in Nat
    BY <1>1, UpdateFields
  <2>2. PICK p \in 1..Len(updates) : p = n - 1
    OBVIOUS
  <2>3. \A v \in 1..n : updates[v].ts >= updates[n].ts - s
    BY <1>15 DEF Reference
  <2>4. updates[p].ts <= updates[n].ts /\ updates[p].ts \in Nat /\ updates[n].ts \in Nat
    <3>1. n \in 1..Len(updates)
      OBVIOUS
    <3> QED BY <1>15, <2>1, <2>2, <3>1
  <2>5. \A v \in 1..p : updates[v].ts >= updates[p].ts - s
    <3> SUFFICES ASSUME NEW v \in 1..p PROVE updates[v].ts >= updates[p].ts - s
      OBVIOUS
    <3>1. v \in 1..n /\ v \in 1..Len(updates)
      BY <2>2
    <3>2. updates[v].ts >= updates[n].ts - s /\ updates[v].ts \in Nat
      BY <2>1, <2>3, <3>1
    <3> QED BY <2>4, <3>2
  <2>6. \A u \in 1..p : u \in Reference(p, s)
    <3> SUFFICES ASSUME NEW u \in 1..p PROVE u \in Reference(p, s)
      OBVIOUS
    <3>1. p - u < MaxWindow
      BY <1>1, <2>2
    <3>2. \A v \in u..p : v \in 1..p
      OBVIOUS
    <3> QED BY <2>5, <3>1, <3>2 DEF Reference
  <2>7. ASSUME NEW e \in C PROVE e \in Reference(p, s)
    <3>1. e \in 1..p
      BY <1>9, <2>2
    <3> QED BY <2>6, <3>1
  <2>8. ASSUME NEW u \in Reference(p, s), u # 1 PROVE u \in C
    <3>1. u \in 1..p
      BY DEF Reference
    <3>2. u \in R
      <4>1. n - u < MaxWindow /\ u \in 1..n
        BY <1>1, <2>2, <2>8, <3>1
      <4>2. \A v \in u..n : v \in 1..n
        BY <4>1
      <4> QED BY <1>15, <2>3, <4>1, <4>2 DEF Reference, R
    <3>3. u # n
      BY <2>2, <3>1
    <3> QED BY <1>11, <2>8, <3>2, <3>3
  <2> QED BY <2>2, <2>7, <2>8
<1>16. C \subseteq R
  BY <1>10
<1> QED BY <1>12, <1>13, <1>14, <1>15, <1>16, Zenon DEF C, R

\* What a scan counts that starts at the slot of the update in progress.
CountsAfter(C, n, c, q, s, size) ==
  /\ \A i \in 1..(AtMost(n) - 1) : i < size => n - i \in C
  /\ \E x : C \ Reference(q, s) \subseteq {x}
  /\ q = n - 1 => \E y : Reference(q, s) \ C \subseteq {y}
  /\ q = n /\ c = AtMost(n) => Reference(q, s) \ C \subseteq {n}
  /\ q = n => Reference(q, s) \ C \subseteq {n, 1}
  /\ q = n /\ c # AtMost(n) /\ 1 \in Reference(n, s) /\ (n > 1 => TsOf(n - 1) <= TsOf(n)) =>
       \E x : /\ C \ Reference(n - 1, s) \subseteq {x}
              /\ Reference(n - 1, s) \ C \subseteq {1}

LEMMA ScanAfter ==
  ASSUME WindowInv, NEW n, NEW h, NEW c, NEW q, NEW s, NEW size,
         HeadAfter(h, n), MixedScan(n, h, c, q, s, size), size # 0
  PROVE  CountsAfter(CountedIn(h, size), n, c, q, s, size)
<1> USE DEF MixedScan, CountsAfter
<1> DEFINE C == CountedIn(h, size)
           R == Reference(q, s)
<1>1. /\ MaxWindow \in Nat /\ MaxWindow >= 1 /\ updates \in Seq(Sample)
  BY PipelineAssumption DEF WindowInv
<1>2. PICK o \in Nat : /\ o = AtMost(n) - 1 /\ o <= n - 1 /\ o <= MaxWindow - 1
                       /\ o = n - 1 \/ o = MaxWindow - 1
  <2>1. /\ AtMost(n) \in Nat /\ AtMost(n) >= 1 /\ AtMost(n) <= n /\ AtMost(n) <= MaxWindow
        /\ AtMost(n) = n \/ AtMost(n) = MaxWindow
    BY AtMostFacts
  <2>2. AtMost(n) - 1 \in Nat
    BY <2>1
  <2> QED BY <1>1, <2>1, <2>2
<1>3. /\ c \in Nat /\ o <= c /\ c <= o + 1 /\ c <= n
      /\ (c = o + 1) <=> (c = AtMost(n))
      /\ (c = o) => (o = n - 1)
  <2>1. AtMost(n) = o + 1 /\ AtMost(n) <= n
    <3>1. AtMost(n) \in Nat /\ AtMost(n) <= n
      BY AtMostFacts
    <3> QED BY <1>2, <3>1
  <2>2. AtMost(n - 1) = o + 1 \/ (AtMost(n - 1) = o /\ o = n - 1)
    <3>1. \/ AtMost(n - 1) = AtMost(n)
          \/ AtMost(n - 1) = n - 1 /\ AtMost(n) = n
      BY AtMostFacts
    <3> QED BY <2>1, <3>1
  <2> QED BY <2>1, <2>2
<1>4. size \in Nat /\ size <= c /\ size >= 1
  BY <1>3 DEF Scans
<1> DEFINE x == Back(h, 0).watts
<1>5. \A e \in C : \E i \in 0..(size - 1) : e = Back(h, i).watts
  BY DEF CountedIn
<1>6. \A i \in 0..(size - 1) : Back(h, i).watts \in C
  BY DEF CountedIn
<1>7. \A u \in R : u \in 1..q /\ q - u < MaxWindow
  BY DEF Reference
<1> HIDE DEF C, R, x
<1>8. \A i \in 1..o : /\ n - i \in 1..Len(updates)
                      /\ Back(h, i).ts = n - i /\ Back(h, i).watts = n - i
  <2> SUFFICES ASSUME NEW i \in 1..o
               PROVE  /\ n - i \in 1..Len(updates)
                      /\ Back(h, i).ts = n - i /\ Back(h, i).watts = n - i
    OBVIOUS
  <2>1. i \in Nat /\ i >= 1 /\ i <= n - 1 /\ i <= MaxWindow - 1
    BY <1>1, <1>2
  <2>2. PICK k \in 1..Len(updates) : k = n - i
    BY <2>1
  <2>3. k < Len(updates) /\ Len(updates) - k < MaxWindow /\ i \in Int /\ n \in Int
    BY <1>1, <2>1, <2>2
  <2>4. SlotOf(k, n, i, h)
    BY <2>2, <2>3 DEF SlotOf
  <2>5. Back(h, i).watts = k /\ Back(h, i).ts = k
    BY <2>4, SlotHolds, Zenon
  <2> QED BY <2>2, <2>5
<1>11. \A i \in 1..(AtMost(n) - 1) : i < size => n - i \in C
  <2>1. AtMost(n) - 1 = o
    BY <1>2
  <2>2. \A i \in 1..o : i < size => i \in 0..(size - 1)
    BY <1>2, <1>4
  <2> QED BY <1>6, <1>8, <2>1, <2>2
<1>9. CASE q = 0
  <2>1. n = 1 /\ q # n /\ size <= 1
    BY <1>3, <1>4, <1>9
  <2>2. \A e \in C : e = x
    BY <1>4, <1>5, <2>1 DEF x
  <2>3. R = {}
    BY <1>7, <1>9
  <2> QED BY <1>11, <2>1, <2>2, <2>3 DEF C, R
<1>10. CASE q # 0
  <2>1. RegularScan(n, 1, o, h, c, q, s, size)
    <3>1. Regular(n, 1, o, h)
      BY <1>8 DEF Regular
    <3>2. q \in 1..Len(updates)
      BY <1>10
    <3> QED BY <1>2, <1>3, <1>4, <3>1, <3>2 DEF RegularScan
  <2>2. /\ \A i \in 1..o : i < size /\ q - (n - i) < MaxWindow => n - i \in Reference(q, s)
        /\ \A i \in 1..o : i < c /\ n - i \in Reference(q, s) => i < size
    BY <1>1, <2>1, ScanRegular, Zenon
  <2>3. ASSUME NEW e \in C, e # x
        PROVE  \E i \in 1..o : i < size /\ e = n - i
    <3>1. PICK i \in 0..(size - 1) : e = Back(h, i).watts
      BY <1>5
    <3>2. i # 0
      BY <2>3, <3>1 DEF x
    <3>3. i \in 1..o /\ i < size
      BY <1>2, <1>3, <1>4, <3>2
    <3> QED BY <1>8, <3>1, <3>3
  <2>4. ASSUME NEW e \in C, e # x PROVE e \in R
    <3>1. PICK i \in 1..o : i < size /\ e = n - i
      BY <2>3, <2>4
    <3>2. q - (n - i) < MaxWindow
      BY <1>1, <1>2
    <3> QED BY <2>2, <3>1, <3>2 DEF R
  <2>5. ASSUME NEW u \in R, n - u >= 1, n - u <= o, n - u < c PROVE u \in C
    <3>1. u \in 1..q
      BY <1>7
    <3>2. PICK i \in 1..o : u = n - i /\ i < c
      <4>1. n - u \in 1..o /\ u = n - (n - u)
        BY <1>2, <2>5, <3>1
      <4> QED BY <2>5, <4>1
    <3>3. i \in 0..(size - 1)
      BY <1>4, <2>2, <3>2 DEF R
    <3> QED BY <1>6, <1>8, <3>2, <3>3
  <2>6. ASSUME q = n - 1
        PROVE  \E y : R \ C \subseteq {y}
    <3> DEFINE y == n - c
    <3>1. ASSUME NEW u \in R, u # y PROVE u \in C
      <4>1. u \in 1..q /\ q - u < MaxWindow
        BY <1>7
      <4>2. n - u >= 1 /\ n - u < c
        <5>1. n - u >= 1 /\ n - u <= n - 1 /\ n - u <= MaxWindow
          BY <1>1, <2>6, <4>1
        <5>2. n - u # c
          BY <1>3, <3>1, <4>1
        <5>3. n - u <= o + 1
          BY <1>1, <1>2, <4>1, <5>1
        <5>4. c = o => n - u <= o
          BY <1>3, <5>1
        <5> QED BY <1>2, <1>3, <4>1, <5>1, <5>2, <5>3, <5>4
      <4> QED BY <1>2, <1>3, <2>5, <4>1, <4>2
    <3> QED BY <3>1
  <2>7. ASSUME q = n, NEW u \in R, u # n, u # 1 \/ c = AtMost(n)
        PROVE  u \in C
    <3>1. u \in 1..q /\ q - u < MaxWindow
      BY <1>7
    <3>2. n - u >= 1 /\ n - u <= o
      BY <1>1, <1>2, <2>7, <3>1
    <3>3. n - u < c
      BY <1>2, <1>3, <2>7, <3>1, <3>2
    <3> QED BY <2>5, <3>2, <3>3
  <2>8. ASSUME q = n, c # AtMost(n), 1 \in Reference(n, s), n > 1 => TsOf(n - 1) <= TsOf(n)
        PROVE  /\ C \ Reference(n - 1, s) \subseteq {x}
               /\ Reference(n - 1, s) \ C \subseteq {1}
    <3>1. c = o /\ o = n - 1 /\ n > 1
      BY <1>2, <1>3, <1>4, <2>8
    <3>2. \A v \in 1..Len(updates) : TsOf(v) = updates[v].ts /\ updates[v].ts \in Nat
      BY <1>1, UpdateFields
    <3>3. PICK p \in 1..Len(updates) : p = n - 1
      BY <3>1
    <3>4. \A v \in 1..n : updates[v].ts >= updates[n].ts - s
      BY <2>8 DEF Reference
    <3>5. updates[p].ts <= updates[n].ts /\ updates[p].ts \in Nat /\ updates[n].ts \in Nat
      <4>1. n \in 1..Len(updates)
        BY <3>1
      <4> QED BY <2>8, <3>1, <3>2, <3>3, <4>1
    <3>6. \A v \in 1..p : updates[v].ts >= updates[p].ts - s
      <4> SUFFICES ASSUME NEW v \in 1..p PROVE updates[v].ts >= updates[p].ts - s
        OBVIOUS
      <4>1. v \in 1..n /\ v \in 1..Len(updates)
        BY <3>3
      <4>2. updates[v].ts >= updates[n].ts - s /\ updates[v].ts \in Nat
        BY <3>2, <3>4, <4>1
      <4> QED BY <3>5, <4>2
    <3>7. \A u \in 1..p : u \in Reference(p, s)
      <4> SUFFICES ASSUME NEW u \in 1..p PROVE u \in Reference(p, s)
        OBVIOUS
      <4>1. p - u < MaxWindow
        BY <1>1, <1>2, <3>1, <3>3
      <4>2. \A v \in u..p : v \in 1..p
        OBVIOUS
      <4> QED BY <3>6, <4>1, <4>2 DEF Reference
    <3>8. ASSUME NEW e \in C, e # x PROVE e \in Reference(p, s)
      <4>1. PICK i \in 1..o : e = n - i
        BY <2>3, <3>8
      <4>2. e \in 1..p
        BY <3>1, <3>3, <4>1
      <4> QED BY <3>7, <4>2
    <3>9. ASSUME NEW u \in Reference(p, s), u # 1 PROVE u \in C
      <4>1. u \in 1..p
        BY DEF Reference
      <4>2. u \in R
        <5>1. n - u < MaxWindow
          BY <1>1, <1>2, <3>1, <3>3, <3>9, <4>1
        <5>2. u \in 1..n /\ \A v \in u..n : v \in 1..n
          BY <3>3, <4>1
        <5> QED BY <2>8, <3>4, <5>1, <5>2 DEF Reference, R
      <4>3. u # n
        BY <3>3, <4>1
      <4> QED BY <2>7, <2>8, <3>9, <4>2, <4>3
    <3> QED BY <3>3, <3>8, <3>9
  <2>9. C \ R \subseteq {x}
    BY <2>4
  <2>10. q = n => R \ C \subseteq {n, 1} /\ (c = AtMost(n) => R \ C \subseteq {n})
    BY <2>7
  <2> QED BY <1>11, <2>6, <2>8, <2>9, <2>10 DEF C, R
<1> QED BY <1>9, <1>10

LEMMA InOrderKept ==
  ASSUME InOrder, UNCHANGED <<now, jumped, latest, updates>>
  PROVE  InOrder'
  BY DEF InOrder

LEMMA InOrderStep == TypeInv /\ WindowInv /\ InOrder /\ [Next]_vars => InOrder'
<1> SUFFICES ASSUME TypeInv, WindowInv, InOrder, [Next]_vars PROVE InOrder'
  OBVIOUS
<1>1. /\ updates \in Seq(Sample) /\ Len(updates) \in Nat /\ now \in Nat
      /\ \A i \in 1..Len(updates) : updates[i].ts \in Nat
  <2>1. updates \in Seq(Sample)
    BY DEF WindowInv
  <2>2. \A i \in 1..Len(updates) : updates[i].ts \in Nat
    BY <2>1, UpdateFields
  <2> QED BY <2>1, <2>2, LenProperties DEF TypeInv
<1>2. CASE Tick
  <2> SUFFICES ASSUME ~ jumped' PROVE InOrder'
    BY DEF InOrder
  <2>1. PICK jump \in Jumps \cup {0} : now' = now + 1 + jump /\ jumped' = (jumped \/ jump # 0)
    BY <1>2 DEF Tick
  <2>2. ~ jumped /\ now' = now + 1
    <3>1. ~ jumped /\ jump = 0
      BY <2>1, Zenon
    <3> QED BY <1>1, <2>1, <3>1
  <2>3. latest' = latest /\ updates' = updates
    BY <1>2 DEF Tick, registry
  <2>4. latest.ts <= now /\ latest.ts \in Nat
    BY <2>2, SampleFields DEF InOrder, TypeInv
  <2>5. latest.ts <= now + 1
    BY <1>1, <2>4
  <2> QED BY <2>2, <2>3, <2>5 DEF InOrder
<1>3. CASE Collect
  <2>1. UNCHANGED <<now, jumped, updates>>
    BY <1>3 DEF Collect, clock
  <2>2. CASE latest' = latest
    BY <2>1, <2>2, InOrderKept
  <2>3. CASE \E watts \in Watts \cup {0} : PushSample(watts)
    <3> SUFFICES ASSUME ~ jumped PROVE InOrder'
      BY <2>1 DEF InOrder
    <3>1. latest'.ts = now
      BY <2>3 DEF PushSample
    <3>2. latest.ts <= now /\ latest.ts \in Nat
      BY SampleFields DEF InOrder, TypeInv
    <3>3. \A i \in 1..Len(updates) : updates[i].ts <= now
      BY <1>1, <3>2 DEF InOrder
    <3> QED BY <1>1, <2>1, <3>1, <3>3 DEF InOrder
  <2> QED BY <1>3, <2>2, <2>3 DEF Collect, registry
<1>4. CASE Update
  <2>1. updates' = Append(updates, latest) /\ UNCHANGED <<now, jumped, latest>>
    BY <1>4 DEF Update, clock, registry
  <2> SUFFICES ASSUME ~ jumped PROVE InOrder'
    BY <2>1 DEF InOrder
  <2>2. latest \in Sample /\ latest.ts \in Nat
    BY <1>4, SampleFields DEF Update, TypeInv, NoSample
  <2>3. /\ Len(updates') = Len(updates) + 1 /\ updates'[Len(updates) + 1] = latest
        /\ \A i \in 1..Len(updates) : updates'[i] = updates[i]
    BY <1>1, <2>1, <2>2, AppendProperties
  <2>4. \A i \in 1..Len(updates') :
          updates'[i].ts <= latest.ts /\ updates'[i].ts \in Nat
    BY <1>1, <2>2, <2>3 DEF InOrder
  <2>5. ASSUME NEW i \in 1..Len(updates'), NEW j \in 1..Len(updates'), i <= j
        PROVE  updates'[i].ts <= updates'[j].ts
    <3>1. CASE j = Len(updates) + 1
      BY <2>3, <2>4, <3>1
    <3>2. CASE j # Len(updates) + 1
      <4>1. i \in 1..Len(updates) /\ j \in 1..Len(updates)
        BY <1>1, <2>3, <2>5, <3>2
      <4> QED BY <2>3, <2>5, <4>1 DEF InOrder
    <3> QED BY <3>1, <3>2
  <2>6. latest'.ts <= now'
    BY <2>1 DEF InOrder
  <2> QED BY <2>1, <2>4, <2>5, <2>6 DEF InOrder
<1>5. CASE NoUpdate \/ Flush \/ (\E field \in Fields : Write(field))
  BY <1>5, InOrderKept DEF NoUpdate, Flush, Write, clock, registry
<1>6. CASE AvgWatts \/ UNCHANGED vars \/ (\E seconds \in Windows : Ask(seconds))
             \/ (\E field \in Loads : Load(field))
  BY <1>6, InOrderKept DEF AvgWatts, vars, Ask, Load, clock, registry
<1> QED BY <1>2, <1>3, <1>4, <1>5, <1>6 DEF Next

LEMMA IdleCall ==
  /\ Idle \in Calls /\ Idle.answered = FALSE /\ Idle.overlapped = FALSE
  /\ \A r \in Calls : [r EXCEPT !.overlapped = @ \/ FALSE] = r
<1>1. <<>> \in Seq(Nat)
  BY EmptySeq
<1>2. Idle \in Calls
  BY <1>1 DEF Idle, Calls, Loads
<1>3. ASSUME NEW r \in Calls PROVE [r EXCEPT !.overlapped = @ \/ FALSE] = r
  <2>1. r.overlapped \in BOOLEAN
    BY DEF Calls
  <2>2. (r.overlapped \/ FALSE) = r.overlapped
    BY <2>1, Zenon
  <2> QED BY <2>2 DEF Calls
<1> QED BY <1>2, <1>3 DEF Idle

\* A call that goes on while no update begins.
LEMMA CallKept ==
  ASSUME WindowInv, CallInv, UNCHANGED <<reader, updates>>, pending' \subseteq pending,
         reader # Idle /\ reader.overlapped => pc' \in {"writing", "flush", "asleep"},
         reader # Idle /\ ~ reader.overlapped /\ ~ reader.answered => pending' = pending
  PROVE  CallInv'
<1>1. Loaded => Loaded'
  <2>1. Of("head") \in Int /\ Of("head")' \in Int /\ Of("head") <= Of("head")'
    <3>1. Len(updates) \in Nat
      BY LenProperties DEF WindowInv
    <3> QED BY <3>1 DEF Of
  <2>2. \A p, from : p \in from..Of("head") => p \in from..Of("head")'
    <3> SUFFICES ASSUME NEW p, NEW from, p \in from..Of("head") PROVE p \in from..Of("head")'
      OBVIOUS
    <3> DEFINE one == Of("head")
               two == Of("head")'
    <3>1. one \in Int /\ two \in Int /\ one <= two /\ p \in from..one
      BY <2>1
    <3> HIDE DEF one, two
    <3>2. p \in from..two
      BY <3>1
    <3> QED BY <3>2 DEF two
  <2>3. \A p : (TsOf(p)' = TsOf(p)) /\ (HeadAfter(reader.head, p)' <=> HeadAfter(reader.head, p))
              /\ AtMost(p)' = AtMost(p)
    BY DEF TsOf, HeadAfter, AtMost
  <2> QED BY <2>2, <2>3 DEF Loaded
<1>2. reader # Idle /\ Overlaps => Overlaps'
  BY DEF Overlaps
<1> QED BY <1>1, <1>2, Zenon DEF CallInv

LEMMA CallUpdate ==
  ASSUME TypeInv, WindowInv, CallInv, Update
  PROVE  CallInv'
<1>1. /\ updates' = Append(updates, latest) /\ pc = "update" /\ pc' = "writing"
      /\ reader' = [reader EXCEPT !.overlapped = @ \/ (reader # Idle /\ ~ reader.answered)]
  BY DEF Update
<1>2. updates \in Seq(Sample) /\ latest \in Sample /\ Len(updates) \in Nat
  BY LenProperties DEF WindowInv, Update, TypeInv, NoSample
<1>3. /\ Len(updates') = Len(updates) + 1
      /\ \A i \in 1..Len(updates) : updates'[i] = updates[i]
  BY <1>1, <1>2, AppendProperties
<1>4. reader \in Calls
  BY DEF CallInv
<1>5. CASE reader = Idle \/ reader.answered
  <2>1. reader' = reader
    <3>1. (reader # Idle /\ ~ reader.answered) = FALSE
      BY <1>5, Zenon
    <3> QED BY <1>1, <1>4, <3>1, IdleCall, Zenon
  <2>2. reader # Idle => ~ reader.overlapped /\ reader.answered
    BY <1>1, <1>5 DEF CallInv, Overlaps
  <2>3. reader # Idle => reader.from <= Len(updates) /\ reader.from \in Nat
    BY <1>4, <2>2 DEF CallInv, Overlaps, Calls
  <2>4. reader # Idle => reader.from <= Len(updates')
    BY <1>2, <1>3, <2>3
  <2>5. reader # Idle => Overlaps'
    BY <2>1, <2>2, <2>4 DEF Overlaps
  <2> QED BY <1>4, <2>1, <2>2, <2>5 DEF CallInv
<1>6. CASE reader # Idle /\ ~ reader.answered
  <2>1. ~ reader.overlapped /\ reader.from = Len(updates) /\ Loaded
    BY <1>1, <1>6 DEF CallInv, Overlaps
  <2>2. (reader.overlapped \/ (reader # Idle /\ ~ reader.answered)) = TRUE
    BY <1>6, Zenon
  <2>3. reader' = [reader EXCEPT !.overlapped = TRUE]
    BY <1>1, <2>2
  <2>4. /\ reader' \in Calls /\ reader'.overlapped = TRUE /\ reader'.from = reader.from
        /\ reader'.todo = reader.todo /\ reader'.head = reader.head
        /\ reader'.count = reader.count /\ reader'.lastTs = reader.lastTs
    BY <1>4, <2>3 DEF Calls
  <2>5. Overlaps'
    BY <1>1, <1>3, <2>1, <2>4 DEF Overlaps
  <2>6. \A p \in reader.from..Len(updates) :
          p \in reader'.from..Len(updates') /\ TsOf(p)' = TsOf(p)
    BY <1>2, <1>3, <2>1, <2>4 DEF TsOf
  <2>8. Of("head") = Len(updates) /\ Of("head")' = Len(updates)
    <3>1. pending = {} /\ "head" \in pending'
      BY <1>6, <2>1 DEF CallInv, Overlaps, Update, Fields
    <3> QED BY <1>2, <1>3, <3>1 DEF Of
  <2>7. Loaded'
    BY <2>1, <2>4, <2>6, <2>8, Zenon DEF Loaded, HeadAfter
  <2> QED BY <2>4, <2>5, <2>7, Zenon DEF CallInv
<1> QED BY <1>5, <1>6

LEMMA CallAsked ==
  ASSUME TypeInv, WindowInv, CallInv, NEW seconds \in Windows, Ask(seconds)
  PROVE  CallInv'
<1>1. /\ reader' = [Idle EXCEPT !.seconds = seconds, !.todo = Loads,
                                !.from = Len(updates) - (IF pending = {} THEN 0 ELSE 1),
                                !.overlapped = (pending # {})]
      /\ updates' = updates /\ pending' = pending /\ pc' = pc
  BY DEF Ask
<1> DEFINE from == Len(updates) - (IF pending = {} THEN 0 ELSE 1)
<1>2. seconds \in Nat /\ Len(updates) \in Nat /\ from \in Nat
  BY PipelineAssumption, LenProperties DEF WindowInv
<1> HIDE DEF from
<1>3. reader' = [Idle EXCEPT !.seconds = seconds, !.todo = Loads, !.from = from,
                             !.overlapped = (pending # {})]
  BY <1>1 DEF from
<1>4. (pending # {}) \in BOOLEAN
  OBVIOUS
<1>5. /\ reader' \in Calls /\ reader'.todo = Loads /\ reader'.from = from
      /\ reader'.overlapped = (pending # {}) /\ reader'.answered = FALSE
  <2>1. <<>> \in Seq(Nat)
    BY EmptySeq
  <2> QED BY <1>2, <1>3, <1>4, <2>1 DEF Idle, Calls
<1>6. Overlaps'
  <2>1. CASE pending = {}
    <3>0. (pending # {}) = FALSE
      BY <2>1, Zenon
    <3>1. reader'.overlapped = FALSE
      BY <1>5, <3>0, Zenon
    <3>2. from = Len(updates)
      BY <1>2, <2>1 DEF from
    <3> QED BY <1>1, <1>2, <1>5, <2>1, <3>1, <3>2 DEF Overlaps
  <2>2. CASE pending # {}
    <3>1. from = Len(updates) - 1 /\ reader'.overlapped = TRUE /\ pc = "writing"
      BY <1>5, <2>2 DEF from, WindowInv
    <3> QED BY <1>1, <1>2, <1>5, <3>1 DEF Overlaps
  <2> QED BY <2>1, <2>2
<1>7. Loaded'
  BY <1>5 DEF Loaded, Loads
<1> QED BY <1>5, <1>6, <1>7, Zenon DEF CallInv

LEMMA CallLoads ==
  ASSUME TypeInv, WindowInv, CallInv, NEW field \in Loads, Load(field)
  PROVE  CallInv'
<1>1. /\ field \in reader.todo /\ updates' = updates /\ pending' = pending /\ pc' = pc
      /\ reader' = [reader EXCEPT !.todo = @ \ {field},
                      !.head = IF field = "head" THEN head ELSE @,
                      !.count = IF field = "count" THEN count ELSE @,
                      !.lastTs = IF field = "lastTs" THEN lastTs ELSE @]
  BY DEF Load
<1>2. reader \in Calls /\ reader # Idle /\ Overlaps /\ (~ reader.answered => Loaded)
  BY <1>1 DEF CallInv, Idle
<1>3. updates \in Seq(Sample) /\ Len(updates) \in Nat /\ (pending # {} => Len(updates) > 0)
  BY LenProperties DEF WindowInv
<1>4. /\ Of("head") \in Nat /\ Of("count") \in Nat /\ Of("lastTs") \in Nat
      /\ Of("head") <= Len(updates) /\ Of("count") <= Len(updates) /\ Of("lastTs") <= Len(updates)
      /\ Of("head") >= Len(updates) - 1 /\ Of("count") >= Len(updates) - 1
      /\ Of("lastTs") >= Len(updates) - 1
      /\ pending = {} => /\ Of("head") = Len(updates) /\ Of("count") = Len(updates)
                         /\ Of("lastTs") = Len(updates)
  BY <1>3 DEF Of
<1>5. /\ HeadAfter(head, Of("head")) /\ count = AtMost(Of("count")) /\ lastTs = TsOf(Of("lastTs"))
      /\ head \in Nat /\ count \in Nat /\ lastTs \in Nat
  <2>1. /\ head = Of("head") % MaxWindow /\ count = AtMost(Of("count"))
        /\ lastTs = TsOf(Of("lastTs"))
    BY DEF WindowInv
  <2>2. head \in Nat
    <3>1. Of("head") % MaxWindow \in 0..(MaxWindow - 1)
      BY <1>4, SlotBefore
    <3> QED BY <2>1, <3>1
  <2>3. count \in Nat
    BY <1>4, <2>1, PipelineAssumption DEF AtMost
  <2> QED BY <2>1, <2>2, <2>3 DEF HeadAfter, TypeInv
<1>6. /\ reader' \in Calls /\ reader'.todo = reader.todo \ {field} /\ reader'.from = reader.from
      /\ reader'.overlapped = reader.overlapped /\ reader'.answered = reader.answered
      /\ reader'.head = IF field = "head" THEN head ELSE reader.head
      /\ reader'.count = IF field = "count" THEN count ELSE reader.count
      /\ reader'.lastTs = IF field = "lastTs" THEN lastTs ELSE reader.lastTs
  BY <1>1, <1>2, <1>5 DEF Calls
<1>7. Overlaps'
  BY <1>1, <1>2, <1>6 DEF Overlaps
<1>8. ASSUME ~ reader.answered PROVE Loaded'
  <2>1. Loaded
    BY <1>2, <1>8
  <2>2. /\ Of("head") \in reader.from..Len(updates) /\ Of("count") \in reader.from..Len(updates)
        /\ Of("lastTs") \in reader.from..Len(updates)
    <3>1. reader.from \in Nat /\ reader.overlapped \in BOOLEAN
      BY <1>2 DEF Calls
    <3>2. CASE reader.overlapped
      BY <1>2, <1>3, <1>4, <3>1, <3>2 DEF Overlaps
    <3>3. CASE ~ reader.overlapped
      BY <1>2, <1>3, <1>4, <1>8, <3>1, <3>3 DEF Overlaps
    <3> QED BY <3>2, <3>3
  <2>3. \A p : TsOf(p)' = TsOf(p)
    BY <1>1 DEF TsOf
  <2>4. /\ "head" \in reader'.todo \/
             \E p \in reader'.from..Of("head")' : HeadAfter(reader'.head, p)
    <3>0. Of("head")' = Of("head") /\ Of("head") \in reader.from..Of("head")
      BY <1>1, <1>2, <1>4, <2>2 DEF Of, Calls
    <3>1. CASE field = "head"
      BY <1>1, <1>5, <1>6, <3>0, <3>1, Zenon
    <3>2. CASE field # "head"
      <4>1. reader'.head = reader.head /\ ("head" \in reader.todo => "head" \in reader'.todo)
        BY <1>6, <3>2
      <4> QED BY <1>1, <1>6, <2>1, <3>0, <4>1, Zenon DEF Loaded
    <3> QED BY <3>1, <3>2
  <2>5. /\ "count" \in reader'.todo \/
             \E p \in reader'.from..Len(updates') : reader'.count = AtMost(p)
    <3>1. CASE field = "count"
      <4>1. reader'.count = count
        BY <1>6, <3>1
      <4> QED BY <1>1, <1>5, <1>6, <2>2, <4>1, Zenon
    <3>2. CASE field # "count"
      <4>1. reader'.count = reader.count /\ ("count" \in reader.todo => "count" \in reader'.todo)
        BY <1>6, <3>2
      <4> QED BY <1>1, <1>6, <2>1, <4>1, Zenon DEF Loaded
    <3> QED BY <3>1, <3>2
  <2>6. /\ "lastTs" \in reader'.todo \/
             \E p \in reader'.from..Len(updates') : reader'.lastTs = TsOf(p)'
    <3>1. CASE field = "lastTs"
      <4>1. reader'.lastTs = lastTs
        BY <1>6, <3>1
      <4> QED BY <1>1, <1>5, <1>6, <2>2, <2>3, <4>1, Zenon
    <3>2. CASE field # "lastTs"
      <4>1. reader'.lastTs = reader.lastTs /\ ("lastTs" \in reader.todo => "lastTs" \in reader'.todo)
        BY <1>6, <3>2
      <4> QED BY <1>1, <1>6, <2>1, <2>3, <4>1, Zenon DEF Loaded
    <3> QED BY <3>1, <3>2
  <2> QED BY <2>4, <2>5, <2>6, Zenon DEF Loaded
<1> QED BY <1>6, <1>7, <1>8, Zenon DEF CallInv

\* The call is at its loop.
Scanning == reader # Idle /\ reader.todo = {} /\ ~ reader.answered

\* The head and the count that the loop may load again, and those it had loaded.
LEMMA MembersLoaded ==
  ASSUME WindowInv, CallInv, Scanning
  PROVE  \E n \in Nat :
           /\ n = Len(updates) /\ reader.head \in Nat /\ head \in Nat
           /\ IF reader.overlapped
              THEN /\ n >= 1 /\ reader.from = n - 1
                   /\ \/ HeadAfter(reader.head, n - 1) /\ HeadAfter(head, n - 1)
                      \/ HeadAfter(reader.head, n - 1) /\ HeadAfter(head, n)
                      \/ HeadAfter(reader.head, n) /\ HeadAfter(head, n)
                   /\ reader.count \in {AtMost(n - 1), AtMost(n)}
                   /\ count \in {AtMost(n - 1), AtMost(n)}
                   /\ \E q \in {n - 1, n} : reader.lastTs = TsOf(q)
              ELSE /\ reader.from = n /\ pending = {}
                   /\ HeadAfter(reader.head, n) /\ HeadAfter(head, n)
                   /\ reader.count = AtMost(n) /\ count = AtMost(n) /\ reader.lastTs = TsOf(n)
<1>1. reader \in Calls /\ Overlaps /\ Loaded
  BY DEF CallInv, Scanning
<1>2. /\ reader.head \in Nat /\ reader.from \in Nat /\ reader.overlapped \in BOOLEAN
  BY <1>1 DEF Calls
<1>3. PICK n \in Nat : n = Len(updates)
  BY LenProperties DEF WindowInv
<1>4. PICK g, k : /\ g = Of("head") /\ k = Of("count") /\ HeadAfter(head, g) /\ count = AtMost(k)
                  /\ pending = {} => g = n /\ k = n
                  /\ g \in {n - 1, n} /\ k \in {n - 1, n} /\ (pending # {} => n > 0)
  BY <1>3 DEF WindowInv, HeadAfter, Of
<1>5. PICK p, c, q : /\ p \in reader.from..g /\ HeadAfter(reader.head, p)
                     /\ c \in reader.from..n /\ reader.count = AtMost(c)
                     /\ q \in reader.from..n /\ reader.lastTs = TsOf(q)
  <2>1. "head" \notin reader.todo /\ "count" \notin reader.todo /\ "lastTs" \notin reader.todo
    BY DEF Scanning
  <2> QED BY <1>1, <1>3, <1>4, <2>1, Zenon DEF Loaded
<1>6. head \in Nat
  <2>1. head = g % MaxWindow
    BY <1>4 DEF HeadAfter
  <2>2. g \in Int
    BY <1>3, <1>4
  <2>3. g % MaxWindow \in 0..(MaxWindow - 1)
    BY <2>2, Division, PipelineAssumption
  <2> QED BY <2>1, <2>3
<1>7. CASE reader.overlapped
  <2>1. n >= 1 /\ reader.from = n - 1
    BY <1>1, <1>2, <1>3, <1>7 DEF Overlaps
  <2>2. /\ (p = n - 1 /\ g = n - 1) \/ (p = n - 1 /\ g = n) \/ (p = n /\ g = n)
        /\ c \in {n - 1, n} /\ q \in {n - 1, n}
    BY <1>4, <1>5, <2>1
  <2>3. \/ HeadAfter(reader.head, n - 1) /\ HeadAfter(head, n - 1)
        \/ HeadAfter(reader.head, n - 1) /\ HeadAfter(head, n)
        \/ HeadAfter(reader.head, n) /\ HeadAfter(head, n)
    BY <1>4, <1>5, <2>2
  <2>4. /\ reader.count \in {AtMost(n - 1), AtMost(n)} /\ count \in {AtMost(n - 1), AtMost(n)}
    BY <1>4, <1>5, <2>2
  <2>5. \E u \in {n - 1, n} : reader.lastTs = TsOf(u)
    BY <1>5, <2>2
  <2> QED BY <1>2, <1>3, <1>6, <1>7, <2>1, <2>3, <2>4, <2>5
<1>8. CASE ~ reader.overlapped
  <2>1. reader.from = n /\ pending = {}
    BY <1>1, <1>3, <1>8 DEF Overlaps, Scanning
  <2>2. g = n /\ k = n
    BY <1>4, <2>1
  <2>3. p = n /\ c = n /\ q = n
    BY <1>3, <1>5, <2>1, <2>2
  <2> QED BY <1>2, <1>3, <1>4, <1>5, <1>6, <1>8, <2>1, <2>2, <2>3
<1> QED BY <1>7, <1>8

\* What the loop finds, whenever it loads the head and the count again.
LEMMA LoopFinds ==
  ASSUME WindowInv, CallInv, Scanning, NEW seen \in 1..MaxWindow, NEW grown \in 1..MaxWindow,
         NEW cutoff
  PROVE  \E c, size : /\ c \in {reader.count, count}
                      /\ ScanFinds(Scan(seen, grown, cutoff), seen, c, cutoff, size)
<1>1. PICK n \in Nat :
        /\ n = Len(updates) /\ reader.head \in Nat /\ head \in Nat
        /\ \/ reader.count = AtMost(n) /\ count = AtMost(n)
           \/ /\ n >= 1 /\ reader.count \in {AtMost(n - 1), AtMost(n)}
              /\ count \in {AtMost(n - 1), AtMost(n)}
  BY MembersLoaded
<1>2. MaxWindow \in Nat /\ MaxWindow >= 1
  BY PipelineAssumption
<1>3. PICK a \in 0..MaxWindow : /\ reader.count \in {a, a + 1} /\ count \in {a, a + 1}
                                /\ reader.count \in 0..MaxWindow /\ count \in 0..MaxWindow
  <2>1. CASE reader.count = AtMost(n) /\ count = AtMost(n)
    <3>1. AtMost(n) \in 0..MaxWindow
      BY <1>2 DEF AtMost
    <3> QED BY <2>1, <3>1
  <2>2. CASE /\ n >= 1 /\ reader.count \in {AtMost(n - 1), AtMost(n)}
             /\ count \in {AtMost(n - 1), AtMost(n)}
    <3>1. /\ AtMost(n - 1) \in 0..MaxWindow /\ AtMost(n) \in 0..MaxWindow
          /\ AtMost(n) \in {AtMost(n - 1), AtMost(n - 1) + 1}
      BY <1>2, <2>2 DEF AtMost
    <3> QED BY <2>2, <3>1
  <2> QED BY <1>1, <2>1, <2>2
<1>4. window \in [0..(MaxWindow - 1) -> [watts : Nat, ts : Nat]]
  BY DEF WindowInv
<1>5. Members(a)
  BY <1>1, <1>3, <1>4 DEF Members
<1>6. a \in 0..MaxWindow /\ seen \in 1..MaxWindow /\ grown \in 1..MaxWindow
  BY <1>3
<1> QED BY <1>5, <1>6, ScanFound

LEMMA CallAnswered ==
  ASSUME WindowInv, CallInv, AvgWatts
  PROVE  CallInv'
<1>1. PICK seen \in 1..MaxWindow, grown \in 1..MaxWindow :
        reader' = [reader EXCEPT !.answered = TRUE,
                     !.counted = Scan(seen, grown, reader.lastTs - reader.seconds)]
  BY DEF AvgWatts
<1>2. Scanning /\ updates' = updates /\ pending' = pending /\ pc' = pc
  BY DEF AvgWatts, Scanning
<1>3. reader \in Calls /\ Overlaps
  BY <1>2 DEF CallInv, Scanning
<1>4. PICK found : found = Scan(seen, grown, reader.lastTs - reader.seconds)
  OBVIOUS
<1>5. found \in Seq(Nat)
  <2>1. PICK cutoff : cutoff = reader.lastTs - reader.seconds
    OBVIOUS
  <2>2. \E c, size : ScanFinds(found, seen, c, cutoff, size)
    BY <1>2, <1>4, <2>1, LoopFinds
  <2> QED BY <2>2, Zenon DEF ScanFinds
<1>6. reader' = [reader EXCEPT !.answered = TRUE, !.counted = found]
  BY <1>1, <1>4
<1>7. /\ reader' \in Calls /\ reader'.answered = TRUE /\ reader'.from = reader.from
      /\ reader'.overlapped = reader.overlapped
  BY <1>3, <1>5, <1>6 DEF Calls
<1>8. reader.from \in Nat /\ Len(updates) \in Nat
  BY <1>3, LenProperties DEF Calls, WindowInv
<1>9. Overlaps'
  BY <1>2, <1>3, <1>7, <1>8 DEF Overlaps
<1> QED BY <1>7, <1>9, Zenon DEF CallInv

LEMMA CallInit == Init => CallInv
  BY IdleCall DEF Init, CallInv

LEMMA CallStep == TypeInv /\ WindowInv /\ CallInv /\ [Next]_vars => CallInv'
<1> SUFFICES ASSUME TypeInv, WindowInv, CallInv, [Next]_vars PROVE CallInv'
  OBVIOUS
<1>1. reader # Idle /\ reader.overlapped => pc \in {"writing", "flush", "asleep"}
  BY DEF CallInv, Overlaps
<1>2. CASE Tick
  BY <1>2, IdleCall DEF Tick, CallInv
<1>3. CASE Collect
  <2>1. reader' = reader /\ updates' = updates /\ pending' = pending /\ pc = "collect"
    BY <1>3 DEF Collect
  <2> QED BY <1>1, <2>1, CallKept
<1>4. CASE Update
  BY <1>4, CallUpdate
<1>5. CASE NoUpdate
  <2>1. reader' = reader /\ updates' = updates /\ pending' = pending /\ pc = "update"
    BY <1>5 DEF NoUpdate
  <2> QED BY <1>1, <2>1, CallKept
<1>6. CASE Flush
  <2>1. reader' = reader /\ updates' = updates /\ pending' = pending /\ pc' = "asleep"
    BY <1>6 DEF Flush
  <2> QED BY <2>1, CallKept
<1>7. ASSUME NEW field \in Fields, Write(field) PROVE CallInv'
  <2>1. /\ reader' = reader /\ updates' = updates /\ pending # {}
        /\ pc' \in {"writing", "flush"} /\ pending' \subseteq pending
    BY <1>7 DEF Write
  <2>2. ~ (reader # Idle /\ ~ reader.overlapped /\ ~ reader.answered)
    BY <2>1 DEF CallInv, Overlaps
  <2> QED BY <2>1, <2>2, CallKept
<1>8. ASSUME NEW seconds \in Windows, Ask(seconds) PROVE CallInv'
  BY <1>8, CallAsked
<1>9. ASSUME NEW field \in Loads, Load(field) PROVE CallInv'
  BY <1>9, CallLoads
<1>10. CASE AvgWatts
  BY <1>10, CallAnswered
<1>11. CASE UNCHANGED vars
  <2>1. reader' = reader /\ updates' = updates /\ pending' = pending /\ pc' = pc
    BY <1>11 DEF vars
  <2> QED BY <1>1, <2>1, CallKept
<1> QED BY <1>2, <1>3, <1>4, <1>5, <1>6, <1>7, <1>8, <1>9, <1>10, <1>11 DEF Next

-----------------------------------------------------------------------------
(* The averages: what a call answers.                                      *)

LEMMA FewOfThem ==
  /\ \A S, x : S \subseteq {x} => Cardinality(S) <= 1
  /\ \A S, x, y : S \subseteq {x, y} => Cardinality(S) <= 2
<1>1. ASSUME NEW S, NEW x, S \subseteq {x} PROVE Cardinality(S) <= 1
  <2>1. CASE S = {}
    BY <2>1, FS_EmptySet
  <2>2. CASE S # {}
    <3>1. S = {x}
      BY <1>1, <2>2
    <3> QED BY <3>1, FS_Singleton
  <2> QED BY <2>1, <2>2
<1>2. ASSUME NEW S, NEW x, NEW y, S \subseteq {x, y} PROVE Cardinality(S) <= 2
  <2>1. S \ {x} \subseteq {y} /\ IsFiniteSet({y})
    BY <1>2, FS_Singleton
  <2>2. IsFiniteSet(S \ {x}) /\ Cardinality(S \ {x}) <= 1 /\ Cardinality(S \ {x}) \in Nat
    <3>1. IsFiniteSet(S \ {x})
      BY <2>1, FS_Subset
    <3>2. Cardinality(S \ {x}) <= 1
      BY <2>1, <1>1, Zenon
    <3> QED BY <3>1, <3>2, FS_CardinalityType
  <2>3. CASE x \in S
    <3>1. (S \ {x}) \cup {x} = S /\ x \notin S \ {x}
      BY <2>3
    <3>2. Cardinality((S \ {x}) \cup {x}) = Cardinality(S \ {x}) + 1
      BY <2>2, <3>1, FS_AddElement
    <3>3. Cardinality(S) = Cardinality(S \ {x}) + 1
      BY <3>1, <3>2, Zenon
    <3> QED BY <2>2, <3>3
  <2>4. CASE x \notin S
    <3>1. S \subseteq {y}
      BY <1>2, <2>4
    <3>2. Cardinality(S) <= 1 /\ Cardinality(S) \in Nat
      <4>1. IsFiniteSet(S)
        BY <2>1, <3>1, FS_Subset
      <4> QED BY <1>1, <3>1, <4>1, FS_CardinalityType
    <3> QED BY <3>2
  <2> QED BY <2>3, <2>4
<1> QED BY <1>1, <1>2

\* A set of numbers of updates that is the one of window n but for one more and few less.
NearWindow(C, n, s) ==
  /\ Cardinality(C \ Reference(n, s)) <= 1
  /\ Cardinality(Reference(n, s) \ C) <= IF jumped THEN 2 ELSE 1

LEMMA NearByOne ==
  ASSUME NEW C, NEW n, NEW s, NEW x, NEW y,
         C \ Reference(n, s) \subseteq {x}, Reference(n, s) \ C \subseteq {y}
  PROVE  NearWindow(C, n, s)
<1>1. Cardinality(C \ Reference(n, s)) <= 1 /\ Cardinality(Reference(n, s) \ C) <= 1
  BY FewOfThem, Zenon
<1>2. CASE jumped
  <2>1. Reference(n, s) \ C \subseteq {y, y}
    OBVIOUS
  <2>2. Cardinality(Reference(n, s) \ C) <= 2
    BY <2>1, FewOfThem, Zenon
  <2> QED BY <1>1, <1>2, <2>2 DEF NearWindow
<1>3. CASE ~ jumped
  BY <1>1, <1>3 DEF NearWindow
<1> QED BY <1>2, <1>3

\* C has one element at least for each of k numbers in a row.
LEMMA Plenty ==
  ASSUME NEW C, IsFiniteSet(C), NEW m \in Int, NEW k \in Nat, \A i \in 0..(k - 1) : m - i \in C
  PROVE  k <= Cardinality(C) /\ Cardinality(C) \in Nat
<1>1. (m - k + 1)..m \subseteq C
  <2> SUFFICES ASSUME NEW u \in (m - k + 1)..m PROVE u \in C
    OBVIOUS
  <2>1. m - u \in 0..(k - 1) /\ m - (m - u) = u
    OBVIOUS
  <2>2. m - (m - u) \in C
    BY <2>1
  <2> QED BY <2>1, <2>2
<1>2. Cardinality((m - k + 1)..m) = k
  <2>1. m - k + 1 \in Int /\ m - (m - k + 1) + 1 = k /\ (m - k + 1 > m <=> k = 0)
    OBVIOUS
  <2> QED BY <2>1, FS_Interval
<1>3. Cardinality((m - k + 1)..m) <= Cardinality(C)
  BY <1>1, FS_Subset
<1> QED BY <1>2, <1>3, FS_CardinalityType

LEMMA CountedFinite ==
  ASSUME NEW C, NEW n \in Int, NEW s, NEW x, C \ Reference(n, s) \subseteq {x}
  PROVE  IsFiniteSet(C)
<1>1. IsFiniteSet((1..n) \cup {x})
  <2>1. IsFiniteSet(1..n)
    BY FS_Interval
  <2>2. \A S : IsFiniteSet(S) => IsFiniteSet(S \cup {x})
    BY FS_AddElement
  <2> QED BY <2>1, <2>2, Zenon
<1>2. C \in SUBSET ((1..n) \cup {x})
  <2>1. Reference(n, s) \subseteq 1..n
    BY DEF Reference
  <2> QED BY <2>1
<1> QED BY <1>1, <1>2, FS_Subset

\* What an overlapped call may answer when it counts k readings, those of the set C.
Near(C, k, n, s) ==
  \/ k = 0
  \/ k <= Cardinality(C) + 1 /\ \E m \in {n - 1, n} : NearWindow(C, m, s)

LEMMA NearBefore ==
  ASSUME WindowInv, NEW n, NEW h, NEW c, NEW q, NEW s, NEW size, NEW k,
         EarlyScan(n, h, c, q, s, size),
         k = size \/ (k = size + 1 /\ c = AtMost(n) - 1)
  PROVE  Near(CountedIn(h, size), k, n, s)
<1> DEFINE C == CountedIn(h, size)
<1>1. n \in Nat /\ n >= 1 /\ q \in {n - 1, n}
  BY DEF EarlyScan
<1>2. PICK x, y : C \ Reference(q, s) \subseteq {x} /\ Reference(q, s) \ C \subseteq {y}
  BY ScanBefore
<1>3. \A i \in 0..(AtMost(n) - 2) : i < size => n - 1 - i \in C
  BY ScanBefore
<1> HIDE DEF C
<1>4. IsFiniteSet(C)
  <2>1. q \in Int
    BY <1>1
  <2> QED BY <1>2, <2>1, CountedFinite
<1>5. NearWindow(C, q, s)
  BY <1>2, NearByOne, Zenon
<1>6. k <= Cardinality(C) + 1
  <2>1. AtMost(n) \in Nat /\ AtMost(n) >= 1
    BY <1>1, AtMostFacts
  <2>2. c = AtMost(n) - 1 \/ c = AtMost(n)
    BY DEF EarlyScan
  <2>3. size \in Nat /\ size <= c
    BY <2>1, <2>2 DEF EarlyScan, Scans
  <2>4. n - 1 \in Int
    BY <1>1
  <2>5. CASE size <= AtMost(n) - 1
    <3>1. \A i \in 0..(size - 1) : (n - 1) - i \in C
      BY <1>3, <2>1, <2>3, <2>5
    <3>2. size <= Cardinality(C) /\ Cardinality(C) \in Nat
      BY <1>4, <2>3, <2>4, <3>1, Plenty
    <3> QED BY <2>3, <3>2
  <2>6. CASE ~ (size <= AtMost(n) - 1)
    <3>1. k = size /\ size = AtMost(n) /\ size - 1 \in Nat
      BY <2>1, <2>2, <2>3, <2>6
    <3>2. \A i \in 0..((size - 1) - 1) : (n - 1) - i \in C
      BY <1>3, <2>1, <3>1
    <3>3. size - 1 <= Cardinality(C) /\ Cardinality(C) \in Nat
      BY <1>4, <2>4, <3>1, <3>2, Plenty
    <3> QED BY <2>3, <3>1, <3>3
  <2> QED BY <2>5, <2>6
<1> QED BY <1>1, <1>5, <1>6, Zenon DEF Near, C

LEMMA OrderedLast ==
  ASSUME WindowInv, InOrder, ~ jumped, NEW n, n = Len(updates), n > 1
  PROVE  TsOf(n - 1) <= TsOf(n)
<1>1. n \in Nat
  BY LenProperties DEF WindowInv
<1>2. PICK p \in 1..Len(updates) : p = n - 1
  <2>1. n - 1 \in 1..Len(updates)
    BY <1>1
  <2> QED BY <2>1, Zenon
<1>3. updates[p].ts <= updates[n].ts /\ n \in 1..Len(updates)
  BY <1>1, <1>2 DEF InOrder
<1>4. TsOf(p) = updates[p].ts /\ TsOf(n) = updates[n].ts
  BY <1>3, UpdateFields DEF WindowInv
<1> QED BY <1>2, <1>3, <1>4

LEMMA NearShort ==
  ASSUME WindowInv, InOrder, NEW n, NEW h, NEW q, NEW s, NEW size, ShortScan(n, h, q, s, size)
  PROVE  Near(CountedIn(h, size), size + 1, n, s)
<1> DEFINE C == CountedIn(h, size)
<1>1. n \in Nat /\ n = Len(updates) /\ n >= 2 /\ n <= MaxWindow /\ q \in {n - 1, n}
  BY DEF ShortScan
<1>2. /\ C \subseteq Reference(q, s)
      /\ \A i \in 0..(AtMost(n) - 2) : i < size => n - 1 - i \in C
      /\ q = n - 1 => Reference(q, s) \ C \subseteq {1}
      /\ q = n => Reference(q, s) \ C \subseteq {n, 1}
      /\ q = n /\ 1 \in Reference(n, s) /\ TsOf(n - 1) <= TsOf(n) =>
           C \subseteq Reference(n - 1, s) /\ Reference(n - 1, s) \ C \subseteq {1}
  BY ScanShort
<1> HIDE DEF C
<1>3. C \ Reference(q, s) \subseteq {n}
  BY <1>2
<1>4. size + 1 <= Cardinality(C) + 1
  <2>1. IsFiniteSet(C)
    <3>1. q \in Int
      BY <1>1
    <3> QED BY <1>3, <3>1, CountedFinite
  <2>2. size \in Nat /\ size <= n - 2 /\ AtMost(n) = n /\ n - 1 \in Int
    <3>1. MaxWindow \in Nat
      BY PipelineAssumption
    <3>2. AtMost(n) = n
      BY <1>1, <3>1 DEF AtMost
    <3> QED BY <1>1, <3>2 DEF ShortScan, Scans
  <2>3. \A i \in 0..(size - 1) : (n - 1) - i \in C
    BY <1>1, <1>2, <2>2
  <2>4. size <= Cardinality(C) /\ Cardinality(C) \in Nat
    BY <2>1, <2>2, <2>3, Plenty
  <2> QED BY <2>2, <2>4
<1>5. \E m \in {n - 1, n} : NearWindow(C, m, s)
  <2>1. CASE q = n - 1
    <3>1. Reference(q, s) \ C \subseteq {1}
      BY <1>2, <2>1
    <3>2. NearWindow(C, q, s)
      BY <1>3, <3>1, NearByOne, Zenon
    <3> QED BY <1>1, <3>2
  <2>2. CASE q = n /\ jumped
    <3>1. Reference(q, s) \ C \subseteq {n, 1}
      BY <1>2, <2>2
    <3>2. Cardinality(C \ Reference(q, s)) <= 1 /\ Cardinality(Reference(q, s) \ C) <= 2
      BY <1>3, <3>1, FewOfThem, Zenon
    <3>3. NearWindow(C, q, s)
      BY <2>2, <3>2 DEF NearWindow
    <3> QED BY <1>1, <3>3
  <2>3. CASE q = n /\ ~ jumped /\ 1 \in Reference(n, s)
    <3>1. n > 1
      BY <1>1
    <3>2. TsOf(n - 1) <= TsOf(n)
      BY <1>1, <2>3, <3>1, OrderedLast
    <3>3. C \ Reference(n - 1, s) \subseteq {1} /\ Reference(n - 1, s) \ C \subseteq {1}
      BY <1>2, <2>3, <3>2
    <3>4. NearWindow(C, n - 1, s)
      BY <3>3, NearByOne, Zenon
    <3> QED BY <3>4
  <2>4. CASE q = n /\ ~ jumped /\ 1 \notin Reference(n, s)
    <3>1. Reference(q, s) \ C \subseteq {n}
      BY <1>2, <2>4
    <3>2. NearWindow(C, q, s)
      BY <1>3, <3>1, NearByOne, Zenon
    <3> QED BY <1>1, <3>2
  <2> QED BY <1>1, <2>1, <2>2, <2>3, <2>4
<1> QED BY <1>4, <1>5, Zenon DEF Near, C

LEMMA NearAfter ==
  ASSUME WindowInv, InOrder, NEW n, NEW h, NEW c, NEW q, NEW s, NEW size,
         HeadAfter(h, n), MixedScan(n, h, c, q, s, size)
  PROVE  Near(CountedIn(h, size), size, n, s)
<1> DEFINE C == CountedIn(h, size)
<1>1. n \in Nat /\ n = Len(updates) /\ n >= 1 /\ q \in {n - 1, n}
  BY DEF MixedScan
<1> SUFFICES ASSUME size # 0 PROVE Near(C, size, n, s)
  BY DEF Near
<1>0. CountsAfter(C, n, c, q, s, size)
  BY ScanAfter
<1> HIDE DEF C
<1>2. /\ \A i \in 1..(AtMost(n) - 1) : i < size => n - i \in C
      /\ \E x : C \ Reference(q, s) \subseteq {x}
      /\ q = n - 1 => \E y : Reference(q, s) \ C \subseteq {y}
      /\ q = n /\ c = AtMost(n) => Reference(q, s) \ C \subseteq {n}
      /\ q = n => Reference(q, s) \ C \subseteq {n, 1}
      /\ q = n /\ c # AtMost(n) /\ 1 \in Reference(n, s)
            /\ (n > 1 => TsOf(n - 1) <= TsOf(n)) =>
           \E x : /\ C \ Reference(n - 1, s) \subseteq {x}
                  /\ Reference(n - 1, s) \ C \subseteq {1}
  BY <1>0 DEF CountsAfter
<1>3. PICK x : C \ Reference(q, s) \subseteq {x}
  BY <1>2, Zenon
<1>4. size <= Cardinality(C) + 1
  <2>1. IsFiniteSet(C)
    <3>1. q \in Int
      BY <1>1
    <3> QED BY <1>3, <3>1, CountedFinite
  <2>2. /\ AtMost(n) \in Nat /\ AtMost(n - 1) \in Nat
        /\ AtMost(n - 1) <= AtMost(n)
    BY <1>1, PipelineAssumption DEF AtMost
  <2>3. size \in Nat /\ size <= AtMost(n) /\ size - 1 \in Nat /\ n - 1 \in Int
    BY <1>1, <2>2 DEF MixedScan, Scans
  <2>4. \A i \in 0..((size - 1) - 1) : (n - 1) - i \in C
    <3> SUFFICES ASSUME NEW i \in 0..((size - 1) - 1) PROVE (n - 1) - i \in C
      OBVIOUS
    <3>1. i + 1 \in 1..(AtMost(n) - 1) /\ i + 1 < size /\ n - (i + 1) = (n - 1) - i
      BY <1>1, <2>2, <2>3
    <3>2. n - (i + 1) \in C
      BY <1>2, <3>1
    <3> QED BY <3>1, <3>2
  <2>5. size - 1 <= Cardinality(C) /\ Cardinality(C) \in Nat
    BY <2>1, <2>3, <2>4, Plenty
  <2> QED BY <2>3, <2>5
<1>5. \E m \in {n - 1, n} : NearWindow(C, m, s)
  <2>1. ~ jumped => (n > 1 => TsOf(n - 1) <= TsOf(n))
    BY <1>1, OrderedLast
  <2>2. CASE q = n - 1
    <3>1. NearWindow(C, q, s)
      BY <1>2, <1>3, <2>2, NearByOne, Zenon
    <3> QED BY <1>1, <3>1
  <2>3. CASE q = n /\ c = AtMost(n)
    <3>1. NearWindow(C, q, s)
      BY <1>2, <1>3, <2>3, NearByOne, Zenon
    <3> QED BY <1>1, <3>1
  <2>4. CASE q = n /\ c # AtMost(n) /\ ~ jumped /\ 1 \in Reference(n, s)
    <3>1. PICK z : C \ Reference(n - 1, s) \subseteq {z} /\ Reference(n - 1, s) \ C \subseteq {1}
      BY <1>2, <2>1, <2>4, Zenon
    <3>2. NearWindow(C, n - 1, s)
      BY <3>1, NearByOne, Zenon
    <3> QED BY <3>2
  <2>5. CASE q = n /\ ~ jumped /\ 1 \notin Reference(n, s)
    <3>1. Reference(q, s) \ C \subseteq {n}
      BY <1>2, <2>5
    <3>2. NearWindow(C, q, s)
      BY <1>3, <3>1, NearByOne, Zenon
    <3> QED BY <1>1, <3>2
  <2>6. CASE q = n /\ jumped
    <3>1. Reference(q, s) \ C \subseteq {n, 1}
      BY <1>2, <2>6
    <3>2. Cardinality(C \ Reference(q, s)) <= 1 /\ Cardinality(Reference(q, s) \ C) <= 2
      BY <1>3, <3>1, FewOfThem, Zenon
    <3>3. NearWindow(C, q, s)
      BY <2>6, <3>2 DEF NearWindow
    <3> QED BY <1>1, <3>3
  <2> QED BY <1>1, <2>2, <2>3, <2>4, <2>5, <2>6
<1> QED BY <1>4, <1>5, Zenon DEF Near, C

\* The updates counted by the turns of a scan.
CountedTurns(h, g, seen, size) == {Turn(h, g, seen, i).watts : i \in 0..(size - 1)}

\* The head is the same in all turns.
LEMMA HeadStays ==
  ASSUME NEW h, NEW g, g = h, NEW seen, NEW c, NEW cutoff, NEW size,
         TurnScans(h, g, seen, c, cutoff, size)
  PROVE  Scans(h, c, cutoff, size) /\ CountedTurns(h, g, seen, size) = CountedIn(h, size)
<1>1. \A i : Turn(h, g, seen, i) = Back(h, i)
  BY DEF Turn
<1> QED BY <1>1 DEF TurnScans, Scans, CountedTurns, CountedIn

\* The head moves on by one: the slot of the turn before is read again, and counted twice
\* when the scan gets there.
LEMMA HeadMoves ==
  ASSUME NEW n \in Nat, n >= 1, NEW h, HeadAfter(h, n - 1), NEW g, HeadAfter(g, n),
         NEW seen \in Nat, seen >= 1, NEW c \in Nat, NEW cutoff, NEW size,
         TurnScans(h, g, seen, c, cutoff, size)
  PROVE  \/ /\ Scans(h, c, cutoff, size)
            /\ CountedTurns(h, g, seen, size) = CountedIn(h, size)
         \/ /\ size >= 2 /\ size <= c /\ Scans(h, c - 1, cutoff, size - 1)
            /\ CountedTurns(h, g, seen, size) = CountedIn(h, size - 1)
<1>1. ASSUME NEW i \in Nat PROVE Back(g, i) = Back(h, i - 1)
  <2>1. ((n % MaxWindow) - 1 - i) % MaxWindow = (n - 1 - i) % MaxWindow
    BY SlotBefore
  <2>2. (((n - 1) % MaxWindow) - 1 - (i - 1)) % MaxWindow = ((n - 1) - 1 - (i - 1)) % MaxWindow
    BY SlotBefore
  <2>3. (n - 1) - 1 - (i - 1) = n - 1 - i
    OBVIOUS
  <2> QED BY <2>1, <2>2, <2>3 DEF Back, HeadAfter
<1>2. \A i \in Nat : Turn(h, g, seen, i) = IF i < seen THEN Back(h, i) ELSE Back(h, i - 1)
  BY <1>1 DEF Turn
<1>3. /\ size \in Nat /\ size <= c
      /\ \A i \in 0..(size - 1) : ~ TsOf(Turn(h, g, seen, i).ts) < cutoff
      /\ size # c => TsOf(Turn(h, g, seen, size).ts) < cutoff
  BY DEF TurnScans
<1>4. CASE size <= seen
  <2>1. \A i \in 0..(size - 1) : Turn(h, g, seen, i) = Back(h, i)
    BY <1>2, <1>3, <1>4
  <2>2. size # c => TsOf(Back(h, size).ts) < cutoff
    <3>1. CASE size < seen
      BY <1>2, <1>3, <3>1
    <3>2. CASE size = seen
      <4>1. size - 1 \in 0..(size - 1) /\ Turn(h, g, seen, size) = Back(h, size - 1)
        BY <1>2, <1>3, <3>2
      <4> QED BY <1>3, <2>1, <4>1
    <3> QED BY <1>3, <1>4, <3>1, <3>2
  <2>3. Scans(h, c, cutoff, size)
    BY <1>3, <2>1, <2>2 DEF Scans
  <2>4. CountedTurns(h, g, seen, size) = CountedIn(h, size)
    BY <2>1 DEF CountedTurns, CountedIn
  <2> QED BY <2>3, <2>4
<1>5. CASE size > seen
  <2>1. size >= 2 /\ size - 1 \in 0..(c - 1)
    BY <1>3, <1>5
  <2>2. ASSUME NEW j \in 0..((size - 1) - 1)
        PROVE  \E i \in 0..(size - 1) : Turn(h, g, seen, i) = Back(h, j)
    <3>1. CASE j < seen
      <4>1. j \in 0..(size - 1) /\ Turn(h, g, seen, j) = Back(h, j)
        BY <1>2, <1>3, <3>1
      <4> QED BY <4>1
    <3>2. CASE ~ (j < seen)
      <4>1. j + 1 \in 0..(size - 1) /\ (j + 1) - 1 = j /\ ~ (j + 1 < seen) /\ j + 1 \in Nat
        BY <1>3, <3>2
      <4>2. Turn(h, g, seen, j + 1) = Back(h, j)
        BY <1>2, <4>1
      <4> QED BY <4>1, <4>2
    <3> QED BY <3>1, <3>2
  <2>3. ASSUME NEW i \in 0..(size - 1)
        PROVE  \E j \in 0..((size - 1) - 1) : Turn(h, g, seen, i) = Back(h, j)
    <3>1. CASE i < seen
      <4>1. i \in 0..((size - 1) - 1) /\ Turn(h, g, seen, i) = Back(h, i)
        BY <1>2, <1>3, <1>5, <3>1
      <4> QED BY <4>1
    <3>2. CASE ~ (i < seen)
      <4>1. i - 1 \in 0..((size - 1) - 1) /\ Turn(h, g, seen, i) = Back(h, i - 1)
        BY <1>2, <1>3, <3>2
      <4> QED BY <4>1
    <3> QED BY <3>1, <3>2
  <2>4. size - 1 # c - 1 => TsOf(Back(h, size - 1).ts) < cutoff
    BY <1>2, <1>3, <1>5
  <2>5. Scans(h, c - 1, cutoff, size - 1)
    <3>1. \A j \in 0..((size - 1) - 1) : ~ TsOf(Back(h, j).ts) < cutoff
      BY <1>3, <2>2
    <3> QED BY <2>1, <2>4, <3>1 DEF Scans
  <2>6. CountedTurns(h, g, seen, size) = CountedIn(h, size - 1)
    BY <2>2, <2>3 DEF CountedTurns, CountedIn
  <2> QED BY <1>3, <2>1, <2>5, <2>6
<1> QED BY <1>3, <1>4, <1>5

\* A call that the update in progress overlaps.
LEMMA OverlappedScan ==
  ASSUME WindowInv, InOrder, NEW n \in Nat, n = Len(updates), n >= 1, NEW h, NEW g,
         \/ HeadAfter(h, n - 1) /\ HeadAfter(g, n - 1)
         \/ HeadAfter(h, n - 1) /\ HeadAfter(g, n)
         \/ HeadAfter(h, n) /\ HeadAfter(g, n),
         NEW c \in {AtMost(n - 1), AtMost(n)}, NEW q \in {n - 1, n}, NEW s \in Nat,
         NEW seen \in Nat, seen >= 1, NEW size, TurnScans(h, g, seen, c, TsOf(q) - s, size)
  PROVE  Near(CountedTurns(h, g, seen, size), size, n, s)
<1>1. /\ AtMost(n) \in Nat /\ AtMost(n) <= n /\ c \in Nat
      /\ c = AtMost(n) \/ (c = AtMost(n) - 1 /\ AtMost(n) = n /\ n <= MaxWindow)
  BY AtMostFacts
<1>2. CASE HeadAfter(h, n - 1) /\ HeadAfter(g, n - 1)
  <2>1. /\ Scans(h, c, TsOf(q) - s, size)
        /\ CountedTurns(h, g, seen, size) = CountedIn(h, size)
    BY <1>2, HeadStays DEF HeadAfter
  <2>2. EarlyScan(n, h, c, q, s, size)
    BY <1>1, <1>2, <2>1 DEF EarlyScan
  <2> QED BY <2>1, <2>2, NearBefore
<1>3. CASE HeadAfter(h, n) /\ HeadAfter(g, n)
  <2>1. /\ Scans(h, c, TsOf(q) - s, size)
        /\ CountedTurns(h, g, seen, size) = CountedIn(h, size)
    BY <1>3, HeadStays DEF HeadAfter
  <2>2. MixedScan(n, h, c, q, s, size)
    BY <2>1 DEF MixedScan
  <2> QED BY <1>3, <2>1, <2>2, NearAfter
<1>4. CASE HeadAfter(h, n - 1) /\ HeadAfter(g, n)
  <2>1. \/ /\ Scans(h, c, TsOf(q) - s, size)
           /\ CountedTurns(h, g, seen, size) = CountedIn(h, size)
        \/ /\ size >= 2 /\ size <= c /\ Scans(h, c - 1, TsOf(q) - s, size - 1)
           /\ CountedTurns(h, g, seen, size) = CountedIn(h, size - 1)
    BY <1>1, <1>4, HeadMoves
  <2>2. CASE /\ Scans(h, c, TsOf(q) - s, size)
             /\ CountedTurns(h, g, seen, size) = CountedIn(h, size)
    <3>1. EarlyScan(n, h, c, q, s, size)
      BY <1>1, <1>4, <2>2 DEF EarlyScan
    <3> QED BY <2>2, <3>1, NearBefore
  <2>3. CASE /\ size >= 2 /\ size <= c /\ Scans(h, c - 1, TsOf(q) - s, size - 1)
             /\ CountedTurns(h, g, seen, size) = CountedIn(h, size - 1)
    <3>0. size \in Nat /\ (size - 1) + 1 = size
      BY <1>1 DEF TurnScans
    <3>1. CASE c = AtMost(n)
      <4>1. EarlyScan(n, h, AtMost(n) - 1, q, s, size - 1)
        BY <1>4, <2>3, <3>1 DEF EarlyScan
      <4>2. Near(CountedIn(h, size - 1), size, n, s)
        BY <3>0, <4>1, NearBefore
      <4> QED BY <2>3, <4>2
    <3>2. CASE c = AtMost(n) - 1 /\ AtMost(n) = n /\ n <= MaxWindow
      <4>1. n >= 2 /\ c - 1 = n - 2
        BY <2>3, <3>0, <3>2
      <4>2. ShortScan(n, h, q, s, size - 1)
        BY <1>4, <2>3, <3>2, <4>1 DEF ShortScan
      <4>3. Near(CountedIn(h, size - 1), (size - 1) + 1, n, s)
        BY <4>2, NearShort
      <4> QED BY <2>3, <3>0, <4>3
    <3> QED BY <1>1, <3>1, <3>2
  <2> QED BY <2>1, <2>2, <2>3
<1> QED BY <1>2, <1>3, <1>4

\* What AverageOfWindow says of an answer that counts k readings, those of the set C.
Answer(C, k, overlapped, from, s) ==
  IF ~ overlapped
  THEN C = Reference(from, s) /\ k = Cardinality(C)
  ELSE \/ k = 0
       \/ /\ k <= Cardinality(C) + 1
          /\ \E n \in {from, Len(updates)} : NearWindow(C, n, s)

\* AvgWatts answers it from the members that are loaded.
LEMMA CallCounts ==
  ASSUME TypeInv, WindowInv, InOrder, CallInv, Scanning,
         NEW seen \in 1..MaxWindow, NEW grown \in 1..MaxWindow,
         NEW found, found = Scan(seen, grown, reader.lastTs - reader.seconds),
         NEW C, C = {found[i] : i \in DOMAIN found}
  PROVE  Answer(C, Len(found), reader.overlapped, reader.from, reader.seconds)
<1>1. reader.seconds \in Nat /\ reader.overlapped \in BOOLEAN
  BY DEF CallInv, Calls
<1> DEFINE h == reader.head
           s == reader.seconds
<1>2. PICK n \in Nat :
           /\ n = Len(updates) /\ h \in Nat /\ head \in Nat
           /\ IF reader.overlapped
              THEN /\ n >= 1 /\ reader.from = n - 1
                   /\ \/ HeadAfter(h, n - 1) /\ HeadAfter(head, n - 1)
                      \/ HeadAfter(h, n - 1) /\ HeadAfter(head, n)
                      \/ HeadAfter(h, n) /\ HeadAfter(head, n)
                   /\ reader.count \in {AtMost(n - 1), AtMost(n)}
                   /\ count \in {AtMost(n - 1), AtMost(n)}
                   /\ \E q \in {n - 1, n} : reader.lastTs = TsOf(q)
              ELSE /\ reader.from = n /\ pending = {}
                   /\ HeadAfter(h, n) /\ HeadAfter(head, n)
                   /\ reader.count = AtMost(n) /\ count = AtMost(n) /\ reader.lastTs = TsOf(n)
  BY MembersLoaded
<1>8. PICK c, size : c \in {reader.count, count} /\ ScanFinds(found, seen, c, reader.lastTs - s, size)
  <2>1. PICK cutoff : cutoff = reader.lastTs - reader.seconds
    OBVIOUS
  <2>2. \E c, size : c \in {reader.count, count} /\ ScanFinds(found, seen, c, cutoff, size)
    BY <2>1, LoopFinds
  <2>3. cutoff = reader.lastTs - s
    BY <2>1
  <2> QED BY <2>2, <2>3
<1>3. /\ c \in {reader.count, count}
      /\ TurnScans(h, head, seen, c, reader.lastTs - s, size) /\ size \in Nat
      /\ found \in Seq(Nat) /\ DOMAIN found = 1..size /\ Len(found) = size
      /\ \A i \in 1..size : found[i] = Turn(h, head, seen, i - 1).watts
  BY <1>8 DEF ScanFinds
<1>4. C = CountedTurns(h, head, seen, size)
  <2>1. ASSUME NEW e \in C PROVE e \in CountedTurns(h, head, seen, size)
    <3>1. PICK i \in 1..size : e = Turn(h, head, seen, i - 1).watts
      BY <1>3
    <3>2. i - 1 \in 0..(size - 1)
      BY <1>3, <3>1
    <3> QED BY <3>1, <3>2 DEF CountedTurns
  <2>2. ASSUME NEW e \in CountedTurns(h, head, seen, size) PROVE e \in C
    <3>1. PICK i \in 0..(size - 1) : e = Turn(h, head, seen, i).watts
      BY DEF CountedTurns
    <3>2. i + 1 \in 1..size /\ (i + 1) - 1 = i
      BY <1>3, <3>1
    <3>3. found[i + 1] = Turn(h, head, seen, (i + 1) - 1).watts
      BY <1>3, <3>2
    <3>4. found[i + 1] = e /\ i + 1 \in DOMAIN found
      BY <1>3, <3>1, <3>2, <3>3
    <3> QED BY <3>4
  <2> QED BY <2>1, <2>2
<1>5. s \in Nat /\ seen \in Nat /\ seen >= 1
  BY <1>1, PipelineAssumption
<1> HIDE DEF h, s
<1>6. CASE ~ reader.overlapped
  <2>1. /\ reader.from = n /\ pending = {} /\ HeadAfter(h, n) /\ HeadAfter(head, n)
        /\ c = AtMost(n) /\ reader.lastTs = TsOf(n)
    BY <1>2, <1>3, <1>6
  <2>2. Scans(h, AtMost(n), TsOf(n) - s, size) /\ CountedTurns(h, head, seen, size) = CountedIn(h, size)
    BY <1>3, <2>1, HeadStays DEF HeadAfter
  <2>3. n = Len(updates)
    BY <1>2
  <2>4. CountedIn(h, size) = Reference(n, s) /\ Cardinality(Reference(n, s)) = size
    BY <1>5, <2>1, <2>2, <2>3, QuietScan, Zenon
  <2> QED BY <1>3, <1>4, <1>6, <2>1, <2>2, <2>4 DEF s, Answer
<1>7. CASE reader.overlapped
  <2>1. PICK q \in {n - 1, n} : reader.lastTs = TsOf(q)
    BY <1>2, <1>7
  <2>2. /\ n >= 1 /\ reader.from = n - 1 /\ n = Len(updates)
        /\ c \in {AtMost(n - 1), AtMost(n)}
    BY <1>2, <1>3, <1>7
  <2>3. TurnScans(h, head, seen, c, TsOf(q) - s, size)
    BY <1>3, <2>1
  <2>4. \/ HeadAfter(h, n - 1) /\ HeadAfter(head, n - 1)
        \/ HeadAfter(h, n - 1) /\ HeadAfter(head, n)
        \/ HeadAfter(h, n) /\ HeadAfter(head, n)
    BY <1>2, <1>7
  <2>5. Near(CountedTurns(h, head, seen, size), size, n, s)
    BY <1>5, <2>2, <2>3, <2>4, OverlappedScan
  <2> QED BY <1>3, <1>4, <1>7, <2>2, <2>5 DEF s, Answer, Near
<1> QED BY <1>6, <1>7

LEMMA AnswerKept ==
  ASSUME UNCHANGED <<updates, jumped>>, NEW C, NEW k, NEW overlapped, NEW from, NEW s,
         Answer(C, k, overlapped, from, s)
  PROVE  Answer(C, k, overlapped, from, s)'
<1>1. \A n : Reference(n, s)' = Reference(n, s)
  BY DEF Reference
<1>2. \A n : NearWindow(C, n, s) => NearWindow(C, n, s)'
  BY <1>1 DEF NearWindow
<1> QED BY <1>1, <1>2 DEF Answer

\* One that has been answered stays as it is.
LEMMA AverageKept ==
  ASSUME AverageOfWindow, UNCHANGED <<updates, jumped>>,
         reader'.answered = reader.answered, reader'.overlapped = reader.overlapped,
         reader'.from = reader.from, reader'.seconds = reader.seconds,
         reader'.counted = reader.counted
  PROVE  AverageOfWindow'
<1> SUFFICES ASSUME reader.answered PROVE AverageOfWindow'
  BY DEF AverageOfWindow
<1>1. PICK C, k, overlapped, from, s :
        /\ C = Counted /\ k = Len(reader.counted) /\ overlapped = reader.overlapped
        /\ from = reader.from /\ s = reader.seconds
  OBVIOUS
<1>2. Answer(C, k, overlapped, from, s)
  BY <1>1 DEF AverageOfWindow, Answer, NearWindow
<1>3. Answer(C, k, overlapped, from, s)'
  BY <1>2, AnswerKept
<1>4. /\ C = Counted' /\ k = Len(reader'.counted) /\ overlapped = reader'.overlapped
      /\ from = reader'.from /\ s = reader'.seconds
  BY <1>1 DEF Counted
<1> QED BY <1>3, <1>4 DEF AverageOfWindow, Answer, NearWindow

LEMMA AverageStep ==
  TypeInv /\ WindowInv /\ InOrder /\ CallInv /\ AverageOfWindow /\ [Next]_vars => AverageOfWindow'
<1> SUFFICES ASSUME TypeInv, WindowInv, InOrder, CallInv, AverageOfWindow, [Next]_vars
             PROVE  AverageOfWindow'
  OBVIOUS
<1>1. CASE UNCHANGED <<reader, updates, jumped>>
  BY <1>1, AverageKept
<1>2. CASE Tick
  <2>1. reader'.answered = FALSE
    BY <1>2 DEF Tick, Idle
  <2> QED BY <2>1 DEF AverageOfWindow
<1>3. ASSUME NEW seconds \in Windows, Ask(seconds) PROVE AverageOfWindow'
  <2>1. reader'.answered = FALSE
    BY <1>3 DEF Ask, Idle
  <2> QED BY <2>1 DEF AverageOfWindow
<1>4. ASSUME NEW field \in Loads, Load(field) PROVE AverageOfWindow'
  <2>1. reader \in Calls
    BY DEF CallInv
  <2>2. /\ reader'.answered = reader.answered /\ reader'.overlapped = reader.overlapped
        /\ reader'.from = reader.from /\ reader'.seconds = reader.seconds
        /\ reader'.counted = reader.counted /\ updates' = updates /\ jumped' = jumped
    BY <1>4, <2>1 DEF Load, Calls, clock
  <2> QED BY <2>2, AverageKept
<1>5. CASE Update
  <2> SUFFICES ASSUME reader'.answered PROVE AverageOfWindow'
    BY DEF AverageOfWindow
  <2>1. /\ reader' = [reader EXCEPT !.overlapped = @ \/ (reader # Idle /\ ~ reader.answered)]
        /\ updates' = Append(updates, latest) /\ pc = "update" /\ jumped' = jumped
    BY <1>5 DEF Update, clock
  <2>2. reader \in Calls
    BY DEF CallInv
  <2>3. reader.answered /\ reader # Idle
    BY <2>1, <2>2, IdleCall DEF Calls
  <2>4. reader' = reader
    <3>1. (reader # Idle /\ ~ reader.answered) = FALSE
      BY <2>3, Zenon
    <3> QED BY <2>1, <2>2, <3>1, IdleCall, Zenon
  <2>5. ~ reader.overlapped /\ reader.from <= Len(updates) /\ reader.from \in Nat
    BY <2>1, <2>2, <2>3 DEF CallInv, Overlaps, Calls
  <2>6. \A i \in 1..Len(updates) : updates'[i] = updates[i]
    <3>1. updates \in Seq(Sample) /\ latest \in Sample
      BY <1>5 DEF WindowInv, Update, TypeInv, NoSample
    <3> QED BY <2>1, <3>1, AppendProperties
  <2>7. PICK n \in Nat, s \in Nat : n = reader.from /\ s = reader.seconds /\ n <= Len(updates)
    BY <2>2, <2>5 DEF Calls
  <2>8. Reference(n, s)' = Reference(n, s)
    <3>1. Len(updates) \in Nat
      BY LenProperties DEF WindowInv
    <3>2. \A v \in 1..n : updates'[v] = updates[v]
      BY <2>6, <2>7, <3>1
    <3>3. \A u \in 1..n : (\A v \in u..n : updates'[v].ts >= updates'[n].ts - s)
                     <=> (\A v \in u..n : updates[v].ts >= updates[n].ts - s)
      BY <3>2
    <3> QED BY <3>3 DEF Reference
  <2>9. reader'.from = n /\ reader'.seconds = s /\ Counted' = Counted
    BY <2>4, <2>7 DEF Counted
  <2> QED BY <2>3, <2>4, <2>5, <2>7, <2>8, <2>9 DEF AverageOfWindow
<1>6. CASE AvgWatts
  <2>0. PICK seen \in 1..MaxWindow, grown \in 1..MaxWindow :
          reader' = [reader EXCEPT !.answered = TRUE,
                       !.counted = Scan(seen, grown, reader.lastTs - reader.seconds)]
    BY <1>6 DEF AvgWatts
  <2>1. PICK found : found = Scan(seen, grown, reader.lastTs - reader.seconds)
    OBVIOUS
  <2>2. PICK C : C = {found[i] : i \in DOMAIN found}
    OBVIOUS
  <2>3. /\ Scanning /\ reader \in Calls
        /\ reader' = [reader EXCEPT !.answered = TRUE, !.counted = found]
        /\ updates' = updates /\ jumped' = jumped
    BY <1>6, <2>0, <2>1 DEF AvgWatts, CallInv, clock, Scanning
  <2>4. /\ reader'.overlapped = reader.overlapped /\ reader'.counted = found
        /\ reader'.from = reader.from /\ reader'.seconds = reader.seconds
    BY <2>3 DEF Calls
  <2>5. Counted' = C
    BY <2>2, <2>4 DEF Counted
  <2>6. PICK overlapped, from, s : /\ overlapped = reader.overlapped
                                  /\ from = reader.from /\ s = reader.seconds
    OBVIOUS
  <2>7. Answer(C, Len(found), overlapped, from, s)
    <3>1. Answer(C, Len(found), reader.overlapped, reader.from, reader.seconds)
      BY <2>1, <2>2, <2>3, CallCounts
    <3> QED BY <2>6, <3>1, Zenon
  <2>8. Answer(C, Len(found), overlapped, from, s)'
    BY <2>3, <2>7, AnswerKept
  <2> QED BY <2>4, <2>5, <2>6, <2>8 DEF AverageOfWindow, Answer, NearWindow
<1>7. CASE Collect \/ NoUpdate \/ Flush \/ UNCHANGED vars \/ (\E field \in Fields : Write(field))
  <2>1. UNCHANGED <<reader, updates, jumped>>
    BY <1>7 DEF Collect, NoUpdate, Flush, Write, vars, clock
  <2> QED BY <1>1, <2>1
<1> QED BY <1>2, <1>3, <1>4, <1>5, <1>6, <1>7 DEF Next

\* An average that no update overlaps counts every update of its window once and no other;
\* one that an update overlaps is near the window before or after it, or counts nothing:
\* however the reads of avg_watts fall between the unsynchronised writes of update.
THEOREM AveragesAreOfTheWindow == Spec => []AverageOfWindow
<1>1. Init => TypeInv /\ WindowInv /\ InOrder /\ CallInv /\ AverageOfWindow
  <2> SUFFICES ASSUME Init PROVE TypeInv /\ WindowInv /\ InOrder /\ CallInv /\ AverageOfWindow
    OBVIOUS
  <2>1. InOrder
    <3>1. now \in Nat \ {0} /\ latest.ts = 0 /\ updates = <<>> /\ Len(updates) = 0
      BY PipelineAssumption DEF Init, NoSample
    <3> QED BY <3>1 DEF InOrder
  <2>2. AverageOfWindow
    BY IdleCall DEF Init, AverageOfWindow
  <2> QED BY <2>1, <2>2, TypeInit, WindowInit, CallInit
<1> DEFINE Inv == TypeInv /\ WindowInv /\ InOrder /\ CallInv
<1>2. Inv /\ AverageOfWindow /\ TypeInv' /\ [Next]_vars => (Inv /\ AverageOfWindow)'
  BY WindowStep, InOrderStep, CallStep, AverageStep
<1>3. Spec => []TypeInv
  BY RegistryInductive, PTL
<1> HIDE DEF Inv
<1>4. Init => Inv /\ AverageOfWindow
  BY <1>1 DEF Inv
<1> QED BY <1>2, <1>3, <1>4, PTL DEF Spec

=============================================================================
