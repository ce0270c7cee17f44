-------------------------- MODULE CollectorsProofs --------------------------
(***************************************************************************)
(* Theorems of Collectors, for every set of counters and processes, every  *)
(* tick and every assignment of intervals.                                 *)
(***************************************************************************)
EXTENDS Collectors, FiniteSetTheorems, SequenceTheorems, TLAPS

-----------------------------------------------------------------------------
(* Induction over the natural numbers, with a set for the property.        *)

LEMMA LeastNumber ==
  ASSUME NEW S, S \subseteq Nat, S # {}
  PROVE  \E n \in S : \A m \in S : n <= m
<1> DEFINE R == {p \in Nat \X Nat : p[1] < p[2]}
<1>1. IsWellFoundedOn(R, Nat)
  <2>1. OpToRel(<, Nat) = R
    BY DEF OpToRel
  <2> QED BY <2>1, NatLessThanWellFounded
<1>2. PICK n \in S : \A m \in S : <<m, n>> \notin R
  <2> HIDE DEF R
  <2> QED BY <1>1, WFMin, Zenon
<1>3. \A m \in S : m < n => <<m, n>> \in R
  OBVIOUS
<1> HIDE DEF R
<1>4. \A m \in S : ~ (m < n)
  BY <1>2, <1>3, Zenon
<1> QED BY <1>4

LEMMA SetInduction ==
  ASSUME NEW S, 0 \in S, \A n \in Nat : n \in S => n + 1 \in S
  PROVE  Nat \subseteq S
<1>1. SUFFICES ASSUME Nat \ S # {} PROVE FALSE
  OBVIOUS
<1>2. PICK n \in Nat \ S : \A m \in Nat \ S : n <= m
  BY <1>1, LeastNumber
<1>3. n # 0 /\ n - 1 \in S
  BY <1>2
<1> QED BY <1>2, <1>3

-----------------------------------------------------------------------------
(* FlattenSeq is the last of its partial concatenations.                   *)

PartsOf(A, n, s, g) ==
  /\ g \in [0..n -> Seq(A)]
  /\ g[0] = <<>> /\ g[n] = FlattenSeq(s)
  /\ \A i \in 1..n : g[i] = g[i - 1] \o s[i]

LEMMA FlattenParts ==
  ASSUME NEW A, NEW n \in Nat, NEW s \in [1..n -> Seq(A)]
  PROVE  \E g : PartsOf(A, n, s, g)
<1> DEFINE Parts(m, h) == \A i \in 1..m : h[i] = (IF i = 1 THEN s[i] ELSE h[i - 1] \o s[i])
           Good == {m \in Nat : m <= n => \E h \in [1..m -> Seq(A)] : Parts(m, h)}
<1>1. 0 \in Good
  <2>1. [i \in 1..0 |-> <<>>] \in [1..0 -> Seq(A)] /\ Parts(0, [i \in 1..0 |-> <<>>])
    OBVIOUS
  <2> HIDE DEF Parts
  <2> QED BY <2>1
<1>2. ASSUME NEW m \in Nat, m \in Good, m + 1 <= n
      PROVE  \E h \in [1..(m + 1) -> Seq(A)] : Parts(m + 1, h)
  <2>1. PICK h \in [1..m -> Seq(A)] : Parts(m, h)
    BY <1>2
  <2> DEFINE next == IF m = 0 THEN s[1] ELSE h[m] \o s[m + 1]
             longer == [i \in 1..(m + 1) |-> IF i <= m THEN h[i] ELSE next]
  <2>2. next \in Seq(A)
    <3>1. s[1] \in Seq(A) /\ s[m + 1] \in Seq(A)
      BY <1>2
    <3>2. m # 0 => h[m] \in Seq(A)
      BY <1>2
    <3> QED BY <3>1, <3>2, ConcatProperties
  <2>3. longer \in [1..(m + 1) -> Seq(A)]
    <3> HIDE DEF next
    <3> QED BY <2>2
  <2>4. Parts(m + 1, longer)
    <3> SUFFICES ASSUME NEW i \in 1..(m + 1)
                 PROVE  longer[i] = (IF i = 1 THEN s[i] ELSE longer[i - 1] \o s[i])
      OBVIOUS
    <3>1. CASE i <= m
      <4>1. longer[i] = h[i] /\ (i # 1 => longer[i - 1] = h[i - 1])
        <5> HIDE DEF next
        <5> QED BY <3>1
      <4>2. h[i] = (IF i = 1 THEN s[i] ELSE h[i - 1] \o s[i])
        <5>1. i \in 1..m
          BY <3>1
        <5> QED BY <5>1, <2>1, Zenon
      <4> HIDE DEF longer
      <4> QED BY <4>1, <4>2
    <3>2. CASE i = m + 1
      <4>1. longer[i] = next /\ (m # 0 => longer[i - 1] = h[m])
        <5> HIDE DEF next
        <5> QED BY <3>2
      <4> QED BY <4>1, <3>2
    <3> QED BY <3>1, <3>2
  <2> HIDE DEF Parts, longer
  <2> QED BY <2>3, <2>4
<1>3. \A m \in Nat : m \in Good => m + 1 \in Good
  <2> HIDE DEF Parts
  <2> QED BY <1>2
<1>4. PICK h \in [1..n -> Seq(A)] : Parts(n, h)
  <2>1. n \in Good
    <3> HIDE DEF Good
    <3> QED BY <1>1, <1>3, SetInduction
  <2> HIDE DEF Parts
  <2> QED BY <2>1
<1> DEFINE Is(f) == f = [i \in 1..n |-> IF i = 1 THEN s[i] ELSE f[i - 1] \o s[i]]
           flatten == CHOOSE f : Is(f)
<1>5. Is(flatten)
  <2>1. Is(h)
    BY <1>4
  <2> HIDE DEF Is
  <2> QED BY <2>1
<1>6. \A i \in 1..n : flatten[i] = (IF i = 1 THEN s[i] ELSE flatten[i - 1] \o s[i])
  <2> HIDE DEF flatten
  <2> QED BY <1>5
<1>7. n # 0 => FlattenSeq(s) = flatten[n]
  <2>1. Len(s) = n
    OBVIOUS
  <2> QED BY <2>1 DEF FlattenSeq
<1>8. n = 0 => FlattenSeq(s) = <<>>
  BY DEF FlattenSeq
<1> HIDE DEF flatten
<1>9. \A i \in 1..n : flatten[i] \in Seq(A)
  <2> DEFINE Typed == {i \in Nat : i \in 1..n => flatten[i] \in Seq(A)}
  <2>1. 0 \in Typed
    OBVIOUS
  <2>2. ASSUME NEW i \in Nat, i \in Typed, i + 1 \in 1..n
        PROVE  flatten[i + 1] \in Seq(A)
    <3>1. s[i + 1] \in Seq(A)
      BY <2>2
    <3>2. CASE i = 0
      BY <3>1, <3>2, <1>6, <2>2
    <3>3. CASE i # 0
      <4>1. flatten[i] \in Seq(A)
        BY <2>2, <3>3
      <4>2. flatten[i + 1] = flatten[i] \o s[i + 1]
        <5>1. (i + 1) - 1 = i /\ i + 1 # 1
          BY <3>3
        <5>2. flatten[i + 1] = flatten[(i + 1) - 1] \o s[i + 1]
          BY <5>1, <1>6, <2>2
        <5> QED BY <5>1, <5>2
      <4> QED BY <3>1, <4>1, <4>2, ConcatProperties
    <3> QED BY <3>2, <3>3
  <2>3. \A i \in Nat : i \in Typed => i + 1 \in Typed
    <3> SUFFICES ASSUME NEW i \in Nat, i \in Typed PROVE i + 1 \in Typed
      OBVIOUS
    <3>1. i + 1 \in 1..n => flatten[i + 1] \in Seq(A)
      BY <2>2
    <3> QED BY <3>1
  <2> HIDE DEF Typed
  <2>4. Nat \subseteq Typed
    BY <2>1, <2>3, SetInduction
  <2> QED BY <2>4 DEF Typed
<1> DEFINE g == [i \in 0..n |-> IF i = 0 THEN <<>> ELSE flatten[i]]
<1>10. g \in [0..n -> Seq(A)]
  BY <1>9
<1>11. g[0] = <<>> /\ g[n] = FlattenSeq(s)
  BY <1>7, <1>8
<1>12. ASSUME NEW i \in 1..n
       PROVE  g[i] = g[i - 1] \o s[i]
  <2>1. s[i] \in Seq(A)
    OBVIOUS
  <2>2. CASE i = 1
    <3>1. g[i] = s[i] /\ g[i - 1] = <<>>
      BY <2>2, <1>6
    <3> QED BY <2>1, <3>1, ConcatEmptySeq
  <2>3. CASE i # 1
    <3>1. g[i] = flatten[i] /\ g[i - 1] = flatten[i - 1]
      BY <2>3
    <3> QED BY <3>1, <2>3, <1>6
  <2> QED BY <2>2, <2>3
<1> HIDE DEF g
<1> QED BY <1>10, <1>11, <1>12 DEF PartsOf

-----------------------------------------------------------------------------
(* Types.                                                                  *)

USE CollectorsAssumption

LEMMA Positions ==
  /\ Len(Order) = 3
  /\ Order[1] = "pdh" /\ Order[2] = "thermal" /\ Order[3] = "processes"
  /\ Collector = {"pdh", "thermal", "processes"}
<1>1. DOMAIN Order = 1..3
  BY DEF Order
<1>2. Collector = {Order[i] : i \in 1..3}
  BY <1>1 DEF Collector, ToSet
<1> QED BY <1>2 DEF Order

Value == Loads \cup Names \cup {0}
Sample == [key : Keys, value : Value, known : BOOLEAN, turn : Nat]

\* What an enumeration may find.
Listing == UNION {[running -> Loads] : running \in SUBSET Processes}

TypeInv ==
  /\ ready \subseteq Collector /\ opened \subseteq Counters
  /\ pc \in {"asleep", "turn", "collecting", "pushing"} /\ at \in 1..4
  /\ pc = "asleep" => at = 1
  /\ pc \in {"collecting", "pushing"} => at <= 3
  /\ ticks \in Nat /\ throws \in Nat /\ (pc # "asleep" => ticks > 0)
  /\ elapsed \in [Collector -> Nat] /\ lastRun \in [Collector -> Nat]
  /\ plan \in Seq(Sample) /\ (plan # <<>> => pc = "pushing")
  /\ last \in [Keys -> Sample]
  /\ enumerated \in [turn : Nat, load : Listing \cup {<<>>}, whole : BOOLEAN]
  /\ enumerated.turn > 0 => enumerated.load \in Listing

LEMMA KeyTypes ==
  /\ \A c \in Counters : Metric(c) \in Keys
  /\ Metric("mem.used_pct") \in Keys /\ Metric("temp.zone_c") \in Keys
  /\ \A i \in 1..TopN : Cpu(i) \in Keys /\ Name(i) \in Keys
  BY DEF Keys

\* The keys of the slots are told apart from each other and from the metrics.
LEMMA KeysDiffer ==
  /\ \A i, j \in 1..TopN : /\ Cpu(i) # Name(j)
                           /\ Cpu(i) = Cpu(j) => i = j
                           /\ Name(i) = Name(j) => i = j
  /\ \A i \in 1..TopN : Cpu(i).slot # 0 /\ Name(i).slot # 0
  /\ \A name : Metric(name).slot = 0
  BY DEF Cpu, Name, Metric

\* The order of an enumeration: each process once, by its load.
LEMMA Ranked ==
  ASSUME NEW running \in SUBSET Processes, NEW load \in [running -> Loads],
         NEW ranking \in Rankings(load)
  PROVE  /\ Cardinality(running) \in Nat
         /\ ranking \in [1..Cardinality(running) -> running]
         /\ Len(ranking) = Cardinality(running)
         /\ \A i, j \in 1..Cardinality(running) : i # j => ranking[i] # ranking[j]
         /\ \A i, j \in 1..Cardinality(running) : i < j => load[ranking[i]] >= load[ranking[j]]
         /\ \A p \in running : \E i \in 1..Cardinality(running) : ranking[i] = p
<1>1. IsFiniteSet(running)
  BY FS_Subset
<1>2. Cardinality(running) \in Nat
  BY <1>1, FS_CardinalityType
<1> DEFINE n == Cardinality(running)
<1>3. /\ ranking \in [1..n -> running]
      /\ \A i, j \in 1..n : i # j => ranking[i] # ranking[j]
      /\ \A i, j \in 1..n : i < j => load[ranking[i]] >= load[ranking[j]]
  BY DEF Rankings, SetToSeqs
<1>4. ranking \in Surjection(1..n, running)
  <2>1. ranking \in Injection(1..n, running)
    BY <1>3 DEF Injection, IsInjective
  <2>2. Cardinality(1..n) = n
    BY <1>2, FS_Interval
  <2> QED BY <2>1, <2>2, <1>1, FS_Injection
<1>5. Len(ranking) = n
  BY <1>2, <1>3
<1> QED BY <1>2, <1>3, <1>4, <1>5 DEF Surjection

-----------------------------------------------------------------------------
(* What collect_processes will push.                                       *)

Entry(key, value, known, turn) == [key |-> key, value |-> value, known |-> known, turn |-> turn]

\* The samples of slot i in a turn.
Entries(i, ranking, load, turn) ==
  IF i <= Len(ranking)
    THEN {Entry(Cpu(i), load[ranking[i]], TRUE, turn), Entry(Name(i), NameOf[ranking[i]], TRUE, turn)}
    ELSE {Entry(Cpu(i), 0, FALSE, turn)}

\* A load that is known is pushed just before its name, and a name just after its load.
FollowedByName(q) ==
  \A j \in 1..Len(q), i \in 1..TopN :
    q[j].key = Cpu(i) /\ q[j].known => j < Len(q) /\ q[j + 1].key = Name(i)
AfterLoad(q) ==
  \A j \in 2..Len(q), i \in 1..TopN :
    q[j].key = Name(i) => q[j - 1].key = Cpu(i) /\ q[j - 1].known
StartsWithLoad(q) == \A i \in 1..TopN : q # <<>> => q[1].key # Name(i)

LEMMA SlotPushesUnfolded ==
  ASSUME NEW running \in SUBSET Processes, NEW load \in [running -> Loads],
         NEW ranking \in Rankings(load), NEW i \in 1..TopN, ticks \in Nat
  PROVE  LET s == SlotPushes(i, ranking, load)
         IN  /\ s \in Seq(Sample)
             /\ i <= Len(ranking) =>
                  /\ Len(s) = 2
                  /\ s[1] = Entry(Cpu(i), load[ranking[i]], TRUE, ticks)
                  /\ s[2] = Entry(Name(i), NameOf[ranking[i]], TRUE, ticks)
             /\ ~ i <= Len(ranking) =>
                  Len(s) = 1 /\ s[1] = Entry(Cpu(i), 0, FALSE, ticks)
<1>1. Cpu(i) \in Keys /\ Name(i) \in Keys
  BY KeyTypes
<1>2. ranking \in [1..Len(ranking) -> running] /\ Len(ranking) \in Nat
  BY Ranked
<1>3. CASE i <= Len(ranking)
  <2>1. ranking[i] \in running /\ load[ranking[i]] \in Loads /\ NameOf[ranking[i]] \in Names
    BY <1>2, <1>3 DEF CollectorsAssumption
  <2> QED BY <2>1, <1>1, <1>3 DEF SlotPushes, Reading, Entry, Sample, Value
<1>4. CASE ~ i <= Len(ranking)
  BY <1>1, <1>4 DEF SlotPushes, Reading, Entry, Sample, Value
<1> QED BY <1>3, <1>4

Paired(q) == FollowedByName(q) /\ AfterLoad(q) /\ StartsWithLoad(q)

LEMMA ConcatIndex ==
  ASSUME NEW S, NEW q \in Seq(S), NEW t \in Seq(S), NEW j \in 1..Len(q \o t)
  PROVE  \/ j \in 1..Len(q) /\ (q \o t)[j] = q[j]
         \/ \E n \in 1..Len(t) : j = Len(q) + n /\ (q \o t)[j] = t[n]
<1>1. /\ Len(q) \in Nat /\ Len(t) \in Nat /\ Len(q \o t) = Len(q) + Len(t)
      /\ (q \o t)[j] = IF j <= Len(q) THEN q[j] ELSE t[j - Len(q)]
  BY ConcatProperties
<1>2. CASE j <= Len(q)
  BY <1>1, <1>2
<1>3. CASE j > Len(q)
  <2>1. j - Len(q) \in 1..Len(t) /\ j = Len(q) + (j - Len(q))
    BY <1>1, <1>3
  <2> QED BY <1>1, <1>3, <2>1
<1> QED BY <1>1, <1>2, <1>3

LEMMA ConcatParts ==
  ASSUME NEW S, NEW q \in Seq(S), NEW t \in Seq(S)
  PROVE  /\ Len(q) \in Nat /\ Len(t) \in Nat /\ Len(q \o t) = Len(q) + Len(t)
         /\ \A j \in 1..Len(q) : j \in 1..Len(q \o t) /\ (q \o t)[j] = q[j]
         /\ \A n \in 1..Len(t) : Len(q) + n \in 1..Len(q \o t) /\ (q \o t)[Len(q) + n] = t[n]
<1>1. Len(q) \in Nat /\ Len(t) \in Nat /\ Len(q \o t) = Len(q) + Len(t)
  BY ConcatProperties
<1>2. \A i \in 1..(Len(q) + Len(t)) :
        (q \o t)[i] = IF i <= Len(q) THEN q[i] ELSE t[i - Len(q)]
  BY ConcatProperties
<1>3. ASSUME NEW n \in 1..Len(t)
      PROVE  Len(q) + n \in 1..Len(q \o t) /\ (q \o t)[Len(q) + n] = t[n]
  <2>1. Len(q) + n \in 1..(Len(q) + Len(t)) /\ ~ (Len(q) + n <= Len(q))
    BY <1>1
  <2>2. (Len(q) + n) - Len(q) = n
    BY <1>1
  <2> QED BY <1>1, <1>2, <2>1, <2>2
<1> QED BY <1>1, <1>2, <1>3

LEMMA PairedConcat ==
  ASSUME NEW q \in Seq(Sample), NEW t \in Seq(Sample), t # <<>>, Paired(q), Paired(t)
  PROVE  Paired(q \o t)
<1> DEFINE r == q \o t
<1>1. /\ Len(q) \in Nat /\ Len(t) \in Nat /\ Len(r) = Len(q) + Len(t)
      /\ \A j \in 1..Len(q) : j \in 1..Len(r) /\ r[j] = q[j]
      /\ \A n \in 1..Len(t) : Len(q) + n \in 1..Len(r) /\ r[Len(q) + n] = t[n]
  BY ConcatParts
<1>2. \A j \in 1..Len(r) : \/ j \in 1..Len(q) /\ r[j] = q[j]
                           \/ \E n \in 1..Len(t) : j = Len(q) + n /\ r[j] = t[n]
  BY ConcatIndex
<1>3. t # <<>> /\ 1 \in 1..Len(t)
  BY EmptySeq
<1> HIDE DEF r
<1>4. ASSUME NEW j \in 1..Len(r), NEW i \in 1..TopN, r[j].key = Cpu(i), r[j].known
      PROVE  j < Len(r) /\ r[j + 1].key = Name(i)
  <2>1. CASE j \in 1..Len(q) /\ r[j] = q[j]
    <3>1. j < Len(q) /\ q[j + 1].key = Name(i)
      BY <1>4, <2>1 DEF Paired, FollowedByName
    <3>2. j + 1 \in 1..Len(q)
      BY <3>1, <1>1
    <3> QED BY <3>1, <3>2, <1>1
  <2>2. ASSUME NEW n \in 1..Len(t), j = Len(q) + n, r[j] = t[n]
        PROVE  j < Len(r) /\ r[j + 1].key = Name(i)
    <3>1. n < Len(t) /\ t[n + 1].key = Name(i)
      BY <1>4, <2>2 DEF Paired, FollowedByName
    <3>2. n + 1 \in 1..Len(t) /\ j + 1 = Len(q) + (n + 1) /\ j < Len(r)
      BY <3>1, <2>2, <1>1
    <3> QED BY <3>1, <3>2, <1>1
  <2> QED BY <2>1, <2>2, <1>2
<1>5. ASSUME NEW j \in 2..Len(r), NEW i \in 1..TopN, r[j].key = Name(i)
      PROVE  r[j - 1].key = Cpu(i) /\ r[j - 1].known
  <2>1. CASE j \in 1..Len(q) /\ r[j] = q[j]
    <3>1. j \in 2..Len(q) /\ j - 1 \in 1..Len(q)
      BY <2>1, <1>1
    <3>2. q[j - 1].key = Cpu(i) /\ q[j - 1].known
      BY <1>5, <2>1, <3>1 DEF Paired, AfterLoad
    <3> QED BY <3>1, <3>2, <1>1
  <2>2. ASSUME NEW n \in 1..Len(t), j = Len(q) + n, r[j] = t[n]
        PROVE  r[j - 1].key = Cpu(i) /\ r[j - 1].known
    <3>1. n # 1
      BY <1>5, <2>2, <1>3 DEF Paired, StartsWithLoad
    <3>2. n \in 2..Len(t) /\ n - 1 \in 1..Len(t) /\ j - 1 = Len(q) + (n - 1)
      BY <3>1, <2>2, <1>1
    <3>3. t[n - 1].key = Cpu(i) /\ t[n - 1].known
      BY <1>5, <2>2, <3>2 DEF Paired, AfterLoad
    <3> QED BY <3>2, <3>3, <1>1
  <2>3. j \in 1..Len(r)
    OBVIOUS
  <2> QED BY <2>1, <2>2, <2>3, <1>2
<1>6. ASSUME NEW i \in 1..TopN
      PROVE  r[1].key # Name(i)
  <2>1. CASE Len(q) = 0
    <3>1. r[1] = t[1]
      BY <2>1, <1>1, <1>3
    <3> QED BY <3>1, <1>3 DEF Paired, StartsWithLoad
  <2>2. CASE Len(q) # 0
    <3>1. r[1] = q[1] /\ q # <<>>
      BY <2>2, <1>1, EmptySeq
    <3> QED BY <3>1 DEF Paired, StartsWithLoad
  <2> QED BY <2>1, <2>2
<1>7. Paired(r)
  BY <1>4, <1>5, <1>6 DEF Paired, FollowedByName, AfterLoad, StartsWithLoad
<1> QED BY <1>7 DEF r

\* A property of the empty sequence that concatenation keeps is one of the flat sequence.
LEMMA FlattenMembers ==
  ASSUME NEW A, NEW n \in Nat, NEW s \in [1..n -> Seq(A)]
  PROVE  /\ FlattenSeq(s) \in Seq(A)
         /\ \A e : e \in ToSet(FlattenSeq(s)) <=> \E i \in 1..n : e \in ToSet(s[i])
<1>1. PICK g : PartsOf(A, n, s, g)
  BY FlattenParts
<1> USE DEF PartsOf
<1> DEFINE Good(k) == \A e : e \in ToSet(g[k]) <=> \E i \in 1..k : e \in ToSet(s[i])
           S == {k \in Nat : k <= n => Good(k)}
<1>2. Good(0)
  BY <1>1 DEF ToSet
<1>3. ASSUME NEW k \in Nat, k + 1 <= n, Good(k)
      PROVE  Good(k + 1)
  <2>1. k + 1 \in 1..n /\ (k + 1) - 1 = k /\ k \in 0..n
    BY <1>3
  <2>2. g[k] \in Seq(A) /\ s[k + 1] \in Seq(A)
    <3> HIDE DEF S, Good
    <3> QED BY <1>1, <2>1
  <2>3. g[k + 1] = g[k] \o s[k + 1]
    <3>1. g[k + 1] = g[(k + 1) - 1] \o s[k + 1]
      BY <1>1, <2>1
    <3> QED BY <2>1, <3>1
  <2>4. \A e : e \in ToSet(g[k] \o s[k + 1]) <=> e \in ToSet(g[k]) \/ e \in ToSet(s[k + 1])
    <3> SUFFICES ASSUME NEW q \in Seq(A), NEW t \in Seq(A), NEW e
                 PROVE  e \in ToSet(q \o t) <=> e \in ToSet(q) \/ e \in ToSet(t)
      BY <2>2
    <3>1. /\ DOMAIN q = 1..Len(q) /\ DOMAIN t = 1..Len(t)
          /\ q \o t \in Seq(A) /\ DOMAIN (q \o t) = 1..Len(q \o t)
      BY ConcatProperties, LenProperties
    <3>2. ASSUME NEW j \in 1..Len(q \o t), (q \o t)[j] = e
          PROVE  e \in ToSet(q) \/ e \in ToSet(t)
      <4>1. \/ j \in 1..Len(q) /\ (q \o t)[j] = q[j]
            \/ \E m \in 1..Len(t) : j = Len(q) + m /\ (q \o t)[j] = t[m]
        BY ConcatIndex
      <4> QED BY <4>1, <3>1, <3>2 DEF ToSet
    <3>3. ASSUME NEW j \in 1..Len(q), q[j] = e
          PROVE  e \in ToSet(q \o t)
      <4>1. j \in 1..Len(q \o t) /\ (q \o t)[j] = e
        BY <3>3, ConcatParts
      <4> QED BY <4>1, <3>1 DEF ToSet
    <3>4. ASSUME NEW j \in 1..Len(t), t[j] = e
          PROVE  e \in ToSet(q \o t)
      <4>1. Len(q) + j \in 1..Len(q \o t) /\ (q \o t)[Len(q) + j] = e
        BY <3>4, ConcatParts
      <4> QED BY <4>1, <3>1 DEF ToSet
    <3> QED BY <3>1, <3>2, <3>3, <3>4 DEF ToSet
  <2>5. \A i : i \in 1..(k + 1) <=> i \in 1..k \/ i = k + 1
    BY <1>3
  <2> QED BY <1>3, <2>3, <2>4, <2>5
<1>4. \A k \in Nat : k \in S => k + 1 \in S
  <2> HIDE DEF Good
  <2> SUFFICES ASSUME NEW k \in Nat, k \in S, k + 1 <= n PROVE Good(k + 1)
    OBVIOUS
  <2>1. Good(k)
    OBVIOUS
  <2> QED BY <2>1, <1>3
<1>5. 0 \in S
  BY <1>2
<1>6. n \in S
  <2> HIDE DEF S
  <2> QED BY <1>4, <1>5, SetInduction
<1> QED BY <1>1, <1>6

LEMMA FlattenPaired ==
  ASSUME NEW n \in Nat, NEW s \in [1..n -> Seq(Sample)],
         \A i \in 1..n : s[i] # <<>> /\ Paired(s[i])
  PROVE  Paired(FlattenSeq(s))
<1>1. PICK g : PartsOf(Sample, n, s, g)
  BY FlattenParts
<1>2. Paired(g[0])
  BY <1>1 DEF PartsOf, Paired, FollowedByName, AfterLoad, StartsWithLoad
<1>3. ASSUME NEW k \in Nat, k + 1 <= n, Paired(g[k])
      PROVE  Paired(g[k + 1])
  <2>1. k + 1 \in 1..n /\ (k + 1) - 1 = k /\ k \in 0..n
    BY <1>3
  <2>2. g[k] \in Seq(Sample) /\ s[k + 1] \in Seq(Sample)
    BY <1>1, <2>1 DEF PartsOf
  <2>3. g[k + 1] = g[(k + 1) - 1] \o s[k + 1]
    BY <1>1, <2>1 DEF PartsOf
  <2> QED BY <1>3, <2>1, <2>2, <2>3, PairedConcat
<1> DEFINE S == {k \in Nat : k <= n => Paired(g[k])}
<1>4. \A k \in Nat : k \in S => k + 1 \in S
  <2> SUFFICES ASSUME NEW k \in Nat, k \in S, k + 1 <= n PROVE Paired(g[k + 1])
    OBVIOUS
  <2>1. Paired(g[k])
    OBVIOUS
  <2> QED BY <2>1, <1>3
<1>5. 0 \in S
  BY <1>2
<1>6. n \in S
  <2> HIDE DEF S
  <2> QED BY <1>4, <1>5, SetInduction
<1> QED BY <1>1, <1>6 DEF PartsOf

LEMMA LoadAndName ==
  ASSUME NEW s \in Seq(Sample), Len(s) = 2, NEW i \in 1..TopN,
         s[1].key = Cpu(i), s[1].known, s[2].key = Name(i)
  PROVE  s # <<>> /\ Paired(s) /\ ToSet(s) = {s[1], s[2]}
<1>1. DOMAIN s = 1..2 /\ s # <<>>
  <2>1. DOMAIN s = 1..Len(s)
    BY LenProperties
  <2>2. Len(<<>>) = 0
    OBVIOUS
  <2> QED BY <2>1, <2>2
<1>2. ToSet(s) = {s[1], s[2]}
  BY <1>1 DEF ToSet
<1> QED BY <1>1, <1>2, KeysDiffer DEF Paired, FollowedByName, AfterLoad, StartsWithLoad

LEMMA LoadAlone ==
  ASSUME NEW s \in Seq(Sample), Len(s) = 1, NEW i \in 1..TopN,
         s[1].key = Cpu(i), ~ s[1].known
  PROVE  s # <<>> /\ Paired(s) /\ ToSet(s) = {s[1]}
<1>1. DOMAIN s = 1..1 /\ s # <<>>
  <2>1. DOMAIN s = 1..Len(s)
    BY LenProperties
  <2>2. Len(<<>>) = 0
    OBVIOUS
  <2> QED BY <2>1, <2>2
<1>2. ToSet(s) = {s[1]}
  BY <1>1 DEF ToSet
<1> QED BY <1>1, <1>2, KeysDiffer DEF Paired, FollowedByName, AfterLoad, StartsWithLoad

LEMMA SlotPushesPaired ==
  ASSUME NEW running \in SUBSET Processes, NEW load \in [running -> Loads],
         NEW ranking \in Rankings(load), NEW i \in 1..TopN, ticks \in Nat
  PROVE  LET s == SlotPushes(i, ranking, load)
         IN  /\ s # <<>> /\ Paired(s)
             /\ ToSet(s) = Entries(i, ranking, load, ticks)
<1> DEFINE s == SlotPushes(i, ranking, load)
<1>1. CASE i <= Len(ranking)
  <2>1. /\ s \in Seq(Sample) /\ Len(s) = 2
        /\ s[1] = Entry(Cpu(i), load[ranking[i]], TRUE, ticks)
        /\ s[2] = Entry(Name(i), NameOf[ranking[i]], TRUE, ticks)
    BY <1>1, SlotPushesUnfolded
  <2> HIDE DEF s
  <2>2. s[1].key = Cpu(i) /\ s[2].key = Name(i) /\ s[1].known
    BY <2>1 DEF Entry
  <2>3. s # <<>> /\ Paired(s) /\ ToSet(s) = {s[1], s[2]}
    BY <2>1, <2>2, LoadAndName
  <2> QED BY <1>1, <2>1, <2>3 DEF Entries, s
<1>2. CASE ~ i <= Len(ranking)
  <2>1. s \in Seq(Sample) /\ Len(s) = 1 /\ s[1] = Entry(Cpu(i), 0, FALSE, ticks)
    BY <1>2, SlotPushesUnfolded
  <2> HIDE DEF s
  <2>2. s[1].key = Cpu(i) /\ ~ s[1].known
    BY <2>1 DEF Entry
  <2>3. s # <<>> /\ Paired(s) /\ ToSet(s) = {s[1]}
    BY <2>1, <2>2, LoadAlone
  <2> QED BY <1>2, <2>1, <2>3 DEF Entries, s
<1> QED BY <1>1, <1>2

LEMMA ProcessPlan ==
  ASSUME NEW running \in SUBSET Processes, NEW load \in [running -> Loads],
         NEW ranking \in Rankings(load), ticks \in Nat,
         NEW p, p = FlattenSeq([i \in 1..TopN |-> SlotPushes(i, ranking, load)])
  PROVE  /\ p \in Seq(Sample) /\ Paired(p)
         /\ \A e : e \in ToSet(p) <=> \E i \in 1..TopN : e \in Entries(i, ranking, load, ticks)
<1> DEFINE s == [i \in 1..TopN |-> SlotPushes(i, ranking, load)]
<1>1. /\ s \in [1..TopN -> Seq(Sample)] /\ TopN \in Nat /\ p = FlattenSeq(s)
      /\ \A i \in 1..TopN : s[i] = SlotPushes(i, ranking, load)
  BY SlotPushesUnfolded
<1> HIDE DEF s
<1>2. \A i \in 1..TopN : /\ s[i] # <<>> /\ Paired(s[i])
                         /\ ToSet(s[i]) = Entries(i, ranking, load, ticks)
  BY <1>1, SlotPushesPaired
<1>3. Paired(p)
  BY <1>1, <1>2, FlattenPaired
<1>4. /\ p \in Seq(Sample)
      /\ \A e : e \in ToSet(p) <=> \E i \in 1..TopN : e \in ToSet(s[i])
  <2>1. /\ FlattenSeq(s) \in Seq(Sample)
        /\ \A e : e \in ToSet(FlattenSeq(s)) <=> \E i \in 1..TopN : e \in ToSet(s[i])
    BY <1>1, FlattenMembers, Zenon
  <2> QED BY <1>1, <2>1, Zenon
<1> QED BY <1>2, <1>3, <1>4

-----------------------------------------------------------------------------
(* What the other collectors will push concerns no slot.                   *)

NoSlots(p) == \A j \in 1..Len(p) : p[j].key.slot = 0
OfTurn(p, turn) == \A j \in 1..Len(p) : p[j].turn = turn

LEMMA SequenceOf ==
  ASSUME NEW S, IsFiniteSet(S)
  PROVE  /\ Cardinality(S) \in Nat
         /\ SetToSeq(S) \in [1..Cardinality(S) -> S] /\ Len(SetToSeq(S)) = Cardinality(S)
<1>1. Cardinality(S) \in Nat /\ ExistsBijection(1..Cardinality(S), S)
  BY FS_CardinalityType
<1>2. \E f \in [1..Cardinality(S) -> S] : IsInjective(f)
  BY <1>1 DEF ExistsBijection, Bijection, Injection
<1>3. SetToSeq(S) \in [1..Cardinality(S) -> S]
  BY <1>2 DEF SetToSeq
<1> QED BY <1>1, <1>3

LEMMA ReadingType ==
  ASSUME ticks \in Nat, NEW key \in Keys, NEW value \in Value, NEW known \in BOOLEAN
  PROVE  /\ Reading(key, value, known) \in Sample
         /\ Reading(key, value, known).key = key /\ Reading(key, value, known).turn = ticks
  BY DEF Reading, Sample

LEMMA FunctionIsSeq ==
  ASSUME NEW S, NEW n \in Nat, NEW f \in [1..n -> S]
  PROVE  f \in Seq(S) /\ Len(f) = n
  OBVIOUS

LEMMA MetricPlan ==
  ASSUME ticks \in Nat, NEW n \in Nat, NEW names \in [1..n -> Counters \cup {"mem.used_pct"}],
         NEW p, p = [i \in 1..n |-> Reading(Metric(names[i]), 0, TRUE)]
  PROVE  p \in Seq(Sample) /\ NoSlots(p) /\ OfTurn(p, ticks)
<1>1. ASSUME NEW i \in 1..n
      PROVE  p[i] \in Sample /\ p[i].key.slot = 0 /\ p[i].turn = ticks
  <2>1. p[i] = Reading(Metric(names[i]), 0, TRUE)
    OBVIOUS
  <2>2. names[i] \in Counters \cup {"mem.used_pct"}
    OBVIOUS
  <2>3. Metric(names[i]) \in Keys /\ Metric(names[i]).slot = 0
    BY <2>2, KeyTypes, KeysDiffer
  <2>4. 0 \in Value /\ TRUE \in BOOLEAN
    BY DEF Value
  <2>5. p[i] \in Sample /\ p[i].key = Metric(names[i]) /\ p[i].turn = ticks
    BY <2>1, <2>3, <2>4, ReadingType, Zenon
  <2> QED BY <2>3, <2>5
<1>2. p \in [1..n -> Sample]
  BY <1>1
<1>3. p \in Seq(Sample) /\ Len(p) = n
  BY <1>2, FunctionIsSeq
<1> QED BY <1>1, <1>3 DEF NoSlots, OfTurn

LEMMA PdhPlan ==
  ASSUME opened \subseteq Counters, ticks \in Nat,
         NEW good \in SUBSET (opened \cup {"mem.used_pct"}),
         NEW p, p = [i \in 1..Len(SetToSeq(good)) |-> Reading(Metric(SetToSeq(good)[i]), 0, TRUE)]
  PROVE  p \in Seq(Sample) /\ NoSlots(p) /\ OfTurn(p, ticks)
<1>1. IsFiniteSet(good)
  <2>1. IsFiniteSet(opened)
    BY FS_Subset
  <2>2. IsFiniteSet(opened \cup {"mem.used_pct"})
    BY <2>1, FS_AddElement
  <2> QED BY <2>2, FS_Subset
<1> DEFINE n == Cardinality(good)
           names == SetToSeq(good)
<1>2. n \in Nat /\ names \in [1..n -> good] /\ Len(names) = n
  BY <1>1, SequenceOf
<1>3. good \subseteq Counters \cup {"mem.used_pct"}
  OBVIOUS
<1>4. p = [i \in 1..n |-> Reading(Metric(names[i]), 0, TRUE)]
  BY <1>2
<1> HIDE DEF n, names
<1>5. names \in [1..n -> Counters \cup {"mem.used_pct"}]
  BY <1>2, <1>3
<1> QED BY <1>2, <1>4, <1>5, MetricPlan

LEMMA ThermalPlan ==
  ASSUME ticks \in Nat, NEW p, p \in {<<>>, <<Reading(Metric("temp.zone_c"), 0, TRUE)>>}
  PROVE  p \in Seq(Sample) /\ NoSlots(p) /\ OfTurn(p, ticks)
<1> DEFINE r == Reading(Metric("temp.zone_c"), 0, TRUE)
<1>1. r \in Sample /\ r.key.slot = 0 /\ r.turn = ticks
  BY KeyTypes, KeysDiffer DEF Reading, Sample, Value
<1> HIDE DEF r
<1>2. CASE p = <<>>
  BY <1>2 DEF NoSlots, OfTurn
<1>3. CASE p = <<r>>
  <2>1. <<r>> \in Seq(Sample)
    BY <1>1
  <2>2. NoSlots(<<r>>) /\ OfTurn(<<r>>, ticks)
    BY <1>1 DEF NoSlots, OfTurn
  <2> QED BY <1>3, <2>1, <2>2
<1> QED BY <1>2, <1>3 DEF r

LEMMA TypeInit == Init => TypeInv
<1> SUFFICES ASSUME Init PROVE TypeInv
  OBVIOUS
<1> USE DEF Init, TypeInv
<1>1. ready \subseteq Collector /\ opened \subseteq Counters
  BY DEF Opened
<1>2. last \in [Keys -> Sample]
  BY DEF NoReading, Sample, Value
<1>3. elapsed \in [Collector -> Nat] /\ lastRun \in [Collector -> Nat] /\ plan \in Seq(Sample)
  OBVIOUS
<1>4. /\ enumerated \in [turn : Nat, load : Listing \cup {<<>>}, whole : BOOLEAN]
      /\ enumerated.turn > 0 => enumerated.load \in Listing
  OBVIOUS
<1> QED BY <1>1, <1>2, <1>3, <1>4

LEMMA TypeStep == TypeInv /\ [Next]_vars => TypeInv'
<1> SUFFICES ASSUME TypeInv, [Next]_vars PROVE TypeInv'
  OBVIOUS
<1> USE DEF TypeInv
<1>1. CASE Tick
  BY <1>1 DEF Tick
<1>2. ASSUME pc = "turn", at <= Len(Order)
      PROVE  at \in 1..3 /\ Order[at] \in Collector
  BY <1>2, Positions
<1>3. CASE Skip
  <2>1. /\ elapsed' = [elapsed EXCEPT ![Order[at]] = @ + TickMs] /\ at' = at + 1
        /\ at \in 1..3 /\ Order[at] \in Collector /\ pc = "turn"
        /\ UNCHANGED <<ready, opened, pc, ticks, plan, last, throws, lastRun, enumerated>>
    BY <1>2, <1>3 DEF Skip
  <2>2. elapsed' \in [Collector -> Nat]
    BY <2>1
  <2> QED BY <2>1, <2>2
<1>4. CASE Run
  <2>1. /\ elapsed' = [elapsed EXCEPT ![Order[at]] = 0]
        /\ lastRun' = [lastRun EXCEPT ![Order[at]] = ticks]
        /\ pc' \in {"collecting", "pushing"} /\ at \in 1..3
        /\ UNCHANGED <<ready, opened, at, ticks, plan, last, throws, enumerated>>
    BY <1>2, <1>4 DEF Run
  <2>2. plan = <<>> /\ Order[at] \in Collector /\ pc = "turn"
    BY <1>2, <1>4 DEF Run
  <2>3. elapsed' \in [Collector -> Nat] /\ lastRun' \in [Collector -> Nat]
    BY <2>1, <2>2
  <2> QED BY <2>1, <2>2, <2>3
<1>5. CASE EndTurn
  BY <1>5 DEF EndTurn, loop
<1>6. CASE Push
  <2>1. /\ Head(plan) \in Sample /\ Tail(plan) \in Seq(Sample)
        /\ Head(plan).key \in Keys
    <3>1. plan # <<>>
      BY <1>6 DEF Push
    <3>2. Head(plan) \in Sample /\ Tail(plan) \in Seq(Sample)
      BY <3>1, HeadTailProperties
    <3> QED BY <3>2 DEF Sample
  <2>2. last' \in [Keys -> Sample]
    BY <1>6, <2>1 DEF Push
  <2>3. /\ enumerated' \in [turn : Nat, load : Listing \cup {<<>>}, whole : BOOLEAN]
        /\ enumerated'.turn = enumerated.turn /\ enumerated'.load = enumerated.load
    <3> DEFINE w == enumerated.whole \/ (Order[at] = "processes" /\ Len(plan) = 1)
    <3>1. enumerated' = [enumerated EXCEPT !.whole = w] /\ w \in BOOLEAN
      BY <1>6 DEF Push
    <3> HIDE DEF w
    <3> QED BY <3>1
  <2> QED BY <1>6, <2>1, <2>2, <2>3 DEF Push, loop
<1>7. CASE Return
  BY <1>7 DEF Return, loop
<1>8. CASE Throw
  BY <1>8 DEF Throw, loop
<1>9. CASE CollectPdh
  <2>1. plan' \in Seq(Sample)
    <3>1. <<>> \in Seq(Sample)
      OBVIOUS
    <3>2. ASSUME NEW good \in SUBSET (opened \cup {"mem.used_pct"}),
                 plan' = [i \in 1..Len(SetToSeq(good)) |->
                            Reading(Metric(SetToSeq(good)[i]), 0, TRUE)]
          PROVE  plan' \in Seq(Sample)
      BY <3>2, PdhPlan
    <3> QED BY <1>9, <3>1, <3>2, Zenon DEF CollectPdh
  <2> QED BY <1>9, <2>1 DEF CollectPdh, InCollector, loop
<1>10. CASE CollectThermal
  <2>1. plan' \in Seq(Sample)
    BY <1>10, ThermalPlan DEF CollectThermal
  <2> QED BY <1>10, <2>1 DEF CollectThermal, InCollector, loop
<1>11. CASE CollectProcesses
  <2>1. CASE plan' = <<>> /\ UNCHANGED enumerated
    BY <1>11, <2>1 DEF CollectProcesses, InCollector, loop
  <2>2. ASSUME NEW running \in SUBSET Processes, NEW load \in [running -> Loads],
               NEW ranking \in Rankings(load),
               plan' = FlattenSeq([i \in 1..TopN |-> SlotPushes(i, ranking, load)]),
               enumerated' = [turn |-> ticks, load |-> load, whole |-> FALSE]
        PROVE  TypeInv'
    <3>1. plan' \in Seq(Sample)
      BY <2>2, ProcessPlan
    <3>2. enumerated'.load \in Listing
      BY <2>2 DEF Listing
    <3> QED BY <1>11, <2>2, <3>1, <3>2 DEF CollectProcesses, InCollector, loop
  <2> QED BY <1>11, <2>1, <2>2 DEF CollectProcesses
<1>12. CASE UNCHANGED vars
  BY <1>12 DEF vars
<1> QED BY <1>1, <1>3, <1>4, <1>5, <1>6, <1>7, <1>8, <1>9, <1>10, <1>11, <1>12 DEF Next

LEMMA Typing == Spec => []TypeInv
  BY TypeInit, TypeStep, PTL DEF Spec

-----------------------------------------------------------------------------
(* The schedule: elapsed_ms is the time since the collector's last run.    *)

\* The loop has dealt with the collector in this turn.
Handled(c) ==
  pc = "asleep" \/ \E k \in 1..3 : Order[k] = c /\ (k < at \/ (k = at /\ pc # "turn"))
Turns(c) == IF Handled(c) THEN ticks ELSE ticks - 1

OnTime ==
  \A c \in Collector :
    /\ elapsed[c] = TickMs * (Turns(c) - lastRun[c])
    /\ 0 <= Turns(c) - lastRun[c] /\ Turns(c) - lastRun[c] < Period(c)
    /\ \E q \in Nat : lastRun[c] = Period(c) * q

LEMMA Multiples ==
  ASSUME NEW m \in Nat, m >= 1, NEW a \in Int, NEW b \in Int
  PROVE  /\ m * a \in Int /\ m * b \in Int /\ m * (a + 1) = m * a + m
         /\ a < b => m * a + m <= m * b
         /\ a <= b => m * a <= m * b
OBVIOUS

LEMMA Division ==
  ASSUME NEW m \in Nat, m >= 1, NEW t \in Int
  PROVE  /\ t \div m \in Int /\ (t % m) \in Int /\ 0 <= (t % m) /\ (t % m) < m
         /\ t = m * (t \div m) + (t % m)
OBVIOUS

LEMMA Quotient ==
  ASSUME NEW m \in Nat, m >= 1, NEW t \in Int, NEW q \in Int, m * q <= t, t < m * q + m
  PROVE  t \div m = q
<1> DEFINE k == t \div m
           left == t % m
<1>1. k \in Int /\ left \in Int /\ 0 <= left /\ left < m /\ t = m * k + left
  BY Division
<1> HIDE DEF k, left
<1>2. m * k \in Int /\ m * q \in Int /\ (k < q => m * k + m <= m * q) /\ (q < k => m * q + m <= m * k)
  BY <1>1, Multiples
<1>3. k = q
  BY <1>1, <1>2
<1> QED BY <1>3 DEF k

LEMMA PeriodType == \A c \in Collector : Period(c) \in Nat /\ Period(c) >= 1
<1> SUFFICES ASSUME NEW c \in Collector PROVE Period(c) \in Nat /\ Period(c) >= 1
  OBVIOUS
<1>1. TickMs \in Nat /\ TickMs >= 1 /\ Interval[c] \in Nat
  BY DEF CollectorsAssumption
<1>2. CASE Interval[c] <= TickMs
  BY <1>2 DEF Period
<1>3. CASE Interval[c] > TickMs
  <2> DEFINE s == Interval[c] + TickMs - 1
  <2>1. s \in Int /\ s >= TickMs
    BY <1>1, <1>3
  <2>2. Period(c) = s \div TickMs
    BY <1>1, <1>3 DEF Period
  <2> HIDE DEF s
  <2>3. /\ s \div TickMs \in Int /\ (s % TickMs) \in Int /\ (s % TickMs) < TickMs
        /\ s = TickMs * (s \div TickMs) + (s % TickMs)
    BY <1>1, <2>1, Division
  <2> DEFINE k == s \div TickMs
  <2> HIDE DEF k
  <2>4. k \in Int /\ TickMs * k \in Int /\ TickMs * k > 0
    BY <1>1, <2>1, <2>3 DEF k
  <2>5. k <= 0 => TickMs * k <= TickMs * 0
    BY <1>1, <2>4, Multiples
  <2>6. TickMs * 0 = 0
    BY <1>1
  <2>7. k >= 1
    BY <2>4, <2>5, <2>6
  <2> QED BY <2>2, <2>4, <2>7 DEF k
<1> QED BY <1>1, <1>2, <1>3

\* A collector that ran d turns ago is due in the next one if that is its period.
LEMMA DueIn ==
  ASSUME NEW c \in Collector, NEW d \in Nat, d < Period(c)
  PROVE  (TickMs * d + TickMs >= Interval[c]) <=> (d + 1 = Period(c))
<1>1. TickMs \in Nat /\ TickMs >= 1 /\ Interval[c] \in Nat
  BY DEF CollectorsAssumption
<1>2. Period(c) \in Nat /\ Period(c) >= 1
  BY PeriodType
<1>3. TickMs * d \in Nat /\ TickMs * (d + 1) = TickMs * d + TickMs
  BY <1>1
<1>4. CASE Interval[c] <= TickMs
  <2>1. Period(c) = 1
    BY <1>4 DEF Period
  <2> QED BY <2>1, <1>1, <1>3, <1>4
<1>5. CASE Interval[c] > TickMs
  <2> DEFINE s == Interval[c] + TickMs - 1
             left == s % TickMs
  <2>1. s \in Int /\ s + 1 = Interval[c] + TickMs
    BY <1>1
  <2>2. Period(c) = s \div TickMs
    BY <1>1, <1>5 DEF Period
  <2> HIDE DEF s
  <2>3. left \in Int /\ 0 <= left /\ left < TickMs /\ s = TickMs * Period(c) + left
    BY <1>1, <2>1, <2>2, Division
  <2> HIDE DEF left
  <2>4. TickMs * Period(c) \in Int
    BY <1>1, <1>2
  <2>5. d + 1 < Period(c) => TickMs * (d + 1) + TickMs <= TickMs * Period(c)
    <3>1. d + 1 \in Int
      OBVIOUS
    <3> QED BY <1>1, <1>2, <3>1, Multiples
  <2>6. CASE d + 1 = Period(c)
    <3>1. TickMs * d + TickMs = TickMs * Period(c)
      BY <1>3, <2>6
    <3> QED BY <3>1, <2>6, <1>1, <1>3, <2>1, <2>3, <2>4
  <2>7. CASE d + 1 < Period(c)
    <3>1. TickMs * d + TickMs + TickMs <= TickMs * Period(c)
      BY <1>3, <2>5, <2>7
    <3> QED BY <3>1, <2>7, <1>1, <1>2, <1>3, <2>1, <2>3, <2>4
  <2>8. d + 1 = Period(c) \/ d + 1 < Period(c)
    BY <1>2
  <2> QED BY <2>6, <2>7, <2>8
<1> QED BY <1>1, <1>4, <1>5

LEMMA OnTimeInit == Init => OnTime
<1> SUFFICES ASSUME Init, NEW c \in Collector
             PROVE  /\ elapsed[c] = TickMs * (Turns(c) - lastRun[c])
                    /\ 0 <= Turns(c) - lastRun[c] /\ Turns(c) - lastRun[c] < Period(c)
                    /\ \E q \in Nat : lastRun[c] = Period(c) * q
  BY DEF OnTime
<1>1. Turns(c) = 0 /\ elapsed[c] = 0 /\ lastRun[c] = 0
  BY DEF Init, Turns, Handled
<1>2. Period(c) \in Nat /\ Period(c) >= 1 /\ Period(c) * 0 = 0
  BY PeriodType
<1>3. TickMs * 0 = 0
  BY DEF CollectorsAssumption
<1> QED BY <1>1, <1>2, <1>3

\* Where the loop is the same and no collector is handled anew, nothing changes.
LEMMA OnTimeKept ==
  ASSUME OnTime, elapsed' = elapsed, lastRun' = lastRun,
         \A c \in Collector : Turns(c)' = Turns(c)
  PROVE  OnTime'
<1>1. \A c \in Collector : Period(c)' = Period(c)
  BY DEF Period
<1> QED BY <1>1, Zenon DEF OnTime

\* Where the loop deals with collector c, the others stay as they are.
LEMMA OnTimeHandled ==
  ASSUME TypeInv, OnTime, NEW c \in Collector, ticks' = ticks,
         elapsed' = [elapsed EXCEPT ![c] = elapsed'[c]],
         lastRun' = [lastRun EXCEPT ![c] = lastRun'[c]],
         Handled(c)',
         \A b \in Collector : b # c => (Handled(b)' <=> Handled(b)),
         elapsed'[c] = TickMs * (ticks - lastRun'[c]),
         0 <= ticks - lastRun'[c], ticks - lastRun'[c] < Period(c),
         \E q \in Nat : lastRun'[c] = Period(c) * q
  PROVE  OnTime'
<1> SUFFICES ASSUME NEW b \in Collector
             PROVE  /\ elapsed'[b] = TickMs * (Turns(b)' - lastRun'[b])
                    /\ 0 <= Turns(b)' - lastRun'[b] /\ Turns(b)' - lastRun'[b] < Period(b)
                    /\ \E q \in Nat : lastRun'[b] = Period(b) * q
  BY DEF OnTime, Period
<1>1. CASE b = c
  <2>1. Turns(b)' = ticks
    BY <1>1 DEF Turns
  <2> QED BY <1>1, <2>1
<1>2. CASE b # c
  <2>1. Turns(b)' = Turns(b) /\ elapsed'[b] = elapsed[b] /\ lastRun'[b] = lastRun[b]
    BY <1>2 DEF Turns, TypeInv
  <2> QED BY <2>1 DEF OnTime
<1> QED BY <1>1, <1>2

LEMMA OnTimeStep == TypeInv /\ OnTime /\ [Next]_vars => OnTime'
<1> SUFFICES ASSUME TypeInv, OnTime, [Next]_vars PROVE OnTime'
  OBVIOUS
<1> USE DEF TypeInv
<1>1. CASE Tick
  <2>1. \A c \in Collector : Turns(c)' = Turns(c)
    BY <1>1, Positions DEF Tick, Turns, Handled
  <2> QED BY <1>1, <2>1, OnTimeKept DEF Tick
<1>2. ASSUME pc = "turn", at <= Len(Order)
      PROVE  /\ at \in 1..3
             /\ \E c \in Collector : \E d \in Nat :
                  /\ c = Order[at] /\ d = ticks - 1 - lastRun[c]
                  /\ d < Period(c) /\ elapsed[c] = TickMs * d
                  /\ Due(c) <=> d + 1 = Period(c)
                  /\ \E q \in Nat : lastRun[c] = Period(c) * q
  <2>1. at \in 1..3 /\ Order[at] \in Collector
    BY <1>2, Positions
  <2>2. ~ Handled(Order[at])
    BY <1>2, <2>1, Positions DEF Handled
  <2>3. PICK c \in Collector : c = Order[at]
    BY <2>1
  <2> DEFINE d == ticks - 1 - lastRun[c]
  <2>4. Turns(c) = ticks - 1
    BY <2>2, <2>3 DEF Turns
  <2>5. d \in Nat /\ d < Period(c) /\ elapsed[c] = TickMs * d /\ \E q \in Nat : lastRun[c] = Period(c) * q
    BY <2>4 DEF OnTime
  <2> HIDE DEF d
  <2>6. Due(c) <=> d + 1 = Period(c)
    BY <2>5, DueIn DEF Due
  <2> QED BY <2>1, <2>3, <2>5, <2>6 DEF d
<1>3. ASSUME pc = "turn", at \in 1..3, pc' # "asleep",
             \/ at' = at + 1 /\ pc' = "turn"
             \/ at' = at /\ pc' # "turn",
             NEW c \in Collector, c = Order[at]
      PROVE  Handled(c)' /\ \A b \in Collector : b # c => (Handled(b)' <=> Handled(b))
  <2>1. \A k \in 1..3 : Order[k] = c <=> k = at
    BY <1>3, Positions
  <2>2. Handled(c)'
    BY <1>3, <2>1 DEF Handled
  <2>3. ASSUME NEW b \in Collector, b # c
        PROVE  Handled(b)' <=> Handled(b)
    BY <1>3, <2>1, <2>3 DEF Handled
  <2> QED BY <2>2, <2>3
<1>4. CASE Skip
  <2>1. /\ pc = "turn" /\ at <= Len(Order) /\ ~ Due(Order[at])
        /\ elapsed' = [elapsed EXCEPT ![Order[at]] = @ + TickMs] /\ lastRun' = lastRun
        /\ at' = at + 1 /\ pc' = pc /\ ticks' = ticks
    BY <1>4 DEF Skip
  <2>2. PICK c \in Collector, d \in Nat :
          /\ c = Order[at] /\ d = ticks - 1 - lastRun[c]
          /\ d < Period(c) /\ elapsed[c] = TickMs * d
          /\ Due(c) <=> d + 1 = Period(c)
          /\ \E q \in Nat : lastRun[c] = Period(c) * q
    BY <1>2, <2>1
  <2>3. Handled(c)' /\ \A b \in Collector : b # c => (Handled(b)' <=> Handled(b))
    BY <1>2, <1>3, <2>1, <2>2
  <2>4. ticks - lastRun'[c] = d + 1 /\ d + 1 < Period(c)
    <3>1. ticks \in Nat /\ lastRun[c] \in Nat /\ Period(c) \in Nat
      BY PeriodType
    <3>2. d = ticks - 1 - lastRun[c] /\ d < Period(c) /\ d + 1 # Period(c) /\ lastRun' = lastRun
      BY <2>1, <2>2
    <3> QED BY <3>1, <3>2
  <2>5. elapsed'[c] = TickMs * (d + 1) /\ elapsed' = [elapsed EXCEPT ![c] = elapsed'[c]]
    <3>1. TickMs * (d + 1) = TickMs * d + TickMs
      BY DEF CollectorsAssumption
    <3> QED BY <2>1, <2>2, <3>1
  <2>6. lastRun' = [lastRun EXCEPT ![c] = lastRun'[c]]
    BY <2>1
  <2>7. \E q \in Nat : lastRun'[c] = Period(c) * q
    BY <2>1, <2>2
  <2>8. 0 <= d + 1
    OBVIOUS
  <2> HIDE DEF TypeInv
  <2> QED BY <2>1, <2>3, <2>4, <2>5, <2>6, <2>7, <2>8, OnTimeHandled
<1>5. CASE Run
  <2>1. /\ pc = "turn" /\ at <= Len(Order) /\ Due(Order[at])
        /\ elapsed' = [elapsed EXCEPT ![Order[at]] = 0]
        /\ lastRun' = [lastRun EXCEPT ![Order[at]] = ticks]
        /\ at' = at /\ pc' \in {"collecting", "pushing"} /\ ticks' = ticks
    BY <1>5 DEF Run
  <2>2. PICK c \in Collector, d \in Nat :
          /\ c = Order[at] /\ d = ticks - 1 - lastRun[c]
          /\ d < Period(c) /\ elapsed[c] = TickMs * d
          /\ Due(c) <=> d + 1 = Period(c)
          /\ \E q \in Nat : lastRun[c] = Period(c) * q
    BY <1>2, <2>1
  <2>3. Handled(c)' /\ \A b \in Collector : b # c => (Handled(b)' <=> Handled(b))
    BY <1>2, <1>3, <2>1, <2>2
  <2>4. lastRun'[c] = ticks /\ elapsed'[c] = 0
    BY <2>1, <2>2
  <2>5. \E q \in Nat : lastRun'[c] = Period(c) * q
    <3>1. PICK q \in Nat : lastRun[c] = Period(c) * q
      BY <2>2
    <3>2. Period(c) \in Nat /\ Period(c) >= 1
      BY PeriodType
    <3>3. Period(c) * (q + 1) = Period(c) * q + Period(c)
      BY <3>2
    <3>4. ticks \in Nat /\ lastRun[c] \in Nat
      OBVIOUS
    <3>5. d = ticks - 1 - lastRun[c] /\ d + 1 = Period(c)
      BY <2>1, <2>2
    <3>6. ticks = lastRun[c] + Period(c)
      BY <3>2, <3>4, <3>5
    <3>7. ticks = Period(c) * (q + 1) /\ q + 1 \in Nat
      BY <3>1, <3>3, <3>6
    <3> QED BY <2>4, <3>7
  <2>6. elapsed'[c] = TickMs * (ticks - lastRun'[c]) /\ ticks - lastRun'[c] = 0
    BY <2>4 DEF CollectorsAssumption
  <2>7. /\ elapsed' = [elapsed EXCEPT ![c] = elapsed'[c]]
        /\ lastRun' = [lastRun EXCEPT ![c] = lastRun'[c]]
    BY <2>1, <2>2
  <2>8. 0 < Period(c)
    BY PeriodType
  <2>9. 0 <= ticks - lastRun'[c] /\ ticks - lastRun'[c] < Period(c)
    BY <2>6, <2>8
  <2> HIDE DEF TypeInv
  <2> QED BY <2>1, <2>3, <2>5, <2>6, <2>7, <2>9, OnTimeHandled
<1>6. ASSUME pc # "asleep", pc' # "asleep", ticks' = ticks, elapsed' = elapsed, lastRun' = lastRun,
             \/ at' = at /\ (pc = "turn" <=> pc' = "turn")
             \/ at \in 1..3 /\ at' = at + 1 /\ pc # "turn" /\ pc' = "turn"
      PROVE  OnTime'
  <2>1. \A c \in Collector : Turns(c)' = Turns(c)
    BY <1>6 DEF Turns, Handled
  <2> QED BY <1>6, <2>1, OnTimeKept
<1>7. CASE EndTurn
  <2>1. \A c \in Collector : Turns(c)' = Turns(c)
    BY <1>7, Positions DEF EndTurn, loop, Turns, Handled
  <2> QED BY <1>7, <2>1, OnTimeKept DEF EndTurn, loop
<1>8. CASE Push
  BY <1>6, <1>8 DEF Push, loop
<1>9. CASE Return
  BY <1>6, <1>9 DEF Return, loop
<1>10. CASE Throw
  BY <1>6, <1>10 DEF Throw, loop
<1>11. CASE CollectPdh
  BY <1>6, <1>11 DEF CollectPdh, InCollector, loop
<1>12. CASE CollectThermal
  BY <1>6, <1>12 DEF CollectThermal, InCollector, loop
<1>13. CASE CollectProcesses
  BY <1>6, <1>13 DEF CollectProcesses, InCollector, loop
<1>14. CASE UNCHANGED vars
  BY <1>14, OnTimeKept DEF vars, Turns, Handled
<1> QED BY <1>1, <1>4, <1>5, <1>7, <1>8, <1>9, <1>10, <1>11, <1>12, <1>13, <1>14 DEF Next

\* Every collector runs in each turn that is a multiple of its period and in no other, whatever
\* those before it did.
THEOREM CollectorsKeepTime == Spec => []OnSchedule
<1>1. TypeInv /\ OnTime => OnSchedule
  <2> SUFFICES ASSUME TypeInv, OnTime, pc = "asleep", NEW c \in Collector
               PROVE  lastRun[c] = Period(c) * (ticks \div Period(c))
    BY DEF OnSchedule
  <2>1. Turns(c) = ticks
    BY DEF Turns, Handled
  <2>2. PICK q \in Nat : lastRun[c] = Period(c) * q
    BY DEF OnTime
  <2>3. /\ Period(c) \in Nat /\ Period(c) >= 1 /\ ticks \in Int /\ Period(c) * q \in Int
        /\ 0 <= ticks - lastRun[c] /\ ticks - lastRun[c] < Period(c)
    BY <2>1, PeriodType DEF OnTime, TypeInv
  <2>4. Period(c) * q <= ticks /\ ticks < Period(c) * q + Period(c)
    BY <2>2, <2>3
  <2>5. ticks \div Period(c) = q
    BY <2>3, <2>4, Quotient
  <2> QED BY <2>2, <2>5
<1> QED BY <1>1, OnTimeInit, OnTimeStep, Typing, PTL DEF Spec

-----------------------------------------------------------------------------
(* Names: while one follows its load, the slot is the one that is mixed.   *)

Mixed == {i \in 1..TopN : last[Cpu(i)].known /\ last[Name(i)].turn < last[Cpu(i)].turn}

\* The slot whose name is pushed next.
Naming == {i \in 1..TopN : plan # <<>> /\ plan[1].key = Name(i)}

NamesInv ==
  /\ OfTurn(plan, ticks) /\ FollowedByName(plan) /\ AfterLoad(plan)
  /\ at # 3 => NoSlots(plan)
  /\ \A key \in Keys : last[key].turn <= ticks
  /\ \A i \in 1..TopN : last[Name(i)].turn <= last[Cpu(i)].turn
  /\ \A i \in Naming : last[Cpu(i)].turn = ticks
  /\ Cardinality(Mixed \ Naming) <= throws

LEMMA PushFacts ==
  ASSUME TypeInv, Push
  PROVE  /\ pc = "pushing" /\ at \in 1..3 /\ at' = at /\ ticks' = ticks /\ throws' = throws
         /\ plan # <<>> /\ Len(plan) \in Nat /\ 1 <= Len(plan)
         /\ plan[1] \in Sample /\ plan[1].key \in Keys
         /\ plan' \in Seq(Sample) /\ Len(plan') = Len(plan) - 1
         /\ \A j \in 1..Len(plan') : plan'[j] = plan[j + 1]
         /\ \A key \in Keys : last'[key] = IF key = plan[1].key THEN plan[1] ELSE last[key]
<1>1. /\ pc = "pushing" /\ at \in 1..3 /\ at' = at /\ ticks' = ticks /\ throws' = throws
      /\ plan \in Seq(Sample) /\ plan # <<>> /\ plan' = Tail(plan)
      /\ last' = [last EXCEPT ![Head(plan).key] = Head(plan)]
  BY DEF TypeInv, Push, loop
<1>2. Len(plan) \in Nat /\ 1 <= Len(plan)
  BY <1>1, EmptySeq
<1>3. plan[1] \in Sample /\ plan[1].key \in Keys
  <2>1. plan[1] \in Sample
    BY <1>1, <1>2, ElementOfSeq
  <2> QED BY <2>1 DEF Sample
<1>4. /\ plan' \in Seq(Sample) /\ Len(plan') = Len(plan) - 1
      /\ \A j \in 1..Len(plan') : plan'[j] = plan[j + 1]
  BY <1>1, HeadTailProperties
<1>5. \A key \in Keys : last'[key] = IF key = plan[1].key THEN plan[1] ELSE last[key]
  <2>1. Head(plan) = plan[1] /\ DOMAIN last = Keys
    BY DEF TypeInv
  <2> QED BY <1>1, <2>1
<1> QED BY <1>1, <1>2, <1>3, <1>4, <1>5

LEMMA NoSlotsPaired ==
  ASSUME NEW p \in Seq(Sample), NoSlots(p)
  PROVE  Paired(p)
<1>1. \A j \in 1..Len(p), i \in 1..TopN : p[j].key # Cpu(i) /\ p[j].key # Name(i)
  BY KeysDiffer DEF NoSlots
<1>2. p # <<>> => 1 \in 1..Len(p)
  BY EmptySeq
<1>3. \A j \in 2..Len(p) : j \in 1..Len(p)
  BY EmptySeq
<1> QED BY <1>1, <1>2, <1>3 DEF Paired, FollowedByName, AfterLoad, StartsWithLoad

LEMMA MixedFinite ==
  ASSUME NEW M, M \subseteq 1..TopN
  PROVE  IsFiniteSet(M) /\ Cardinality(M) \in Nat
<1>1. IsFiniteSet(1..TopN)
  BY FS_Interval DEF CollectorsAssumption
<1>2. IsFiniteSet(M)
  BY <1>1, FS_Subset
<1> QED BY <1>2, FS_CardinalityType

LEMMA NamesInit == Init => NamesInv
<1> SUFFICES ASSUME Init PROVE NamesInv
  OBVIOUS
<1>1. plan = <<>> /\ Len(plan) = 0 /\ ticks = 0 /\ throws = 0
  BY DEF Init
<1>2. \A key \in Keys : last[key].turn = 0 /\ ~ last[key].known
  BY DEF Init, NoReading
<1>3. Mixed = {}
  BY <1>2, KeyTypes DEF Mixed
<1>4. Naming = {} /\ Cardinality(Mixed \ Naming) = 0
  BY <1>1, <1>3, FS_EmptySet DEF Naming
<1> QED BY <1>1, <1>2, <1>4, KeyTypes
        DEF NamesInv, OfTurn, FollowedByName, AfterLoad, NoSlots

\* A plan is made, or dropped, where there is none.
LEMMA NamesPlanned ==
  ASSUME NamesInv, plan = <<>>, last' = last, ticks \in Nat,
         ticks' = ticks \/ (ticks' = ticks + 1 /\ plan' = <<>>),
         throws' = throws, OfTurn(plan', ticks'), Paired(plan'), at' # 3 => NoSlots(plan'),
         TypeInv
  PROVE  NamesInv'
<1>1. Naming = {}
  BY DEF Naming
<1>2. Naming' = {}
  BY DEF Naming, Paired, StartsWithLoad
<1>3. Mixed' = Mixed
  BY DEF Mixed
<1>4. \A key \in Keys : last'[key].turn <= ticks'
  <2>1. \A key \in Keys : last[key].turn <= ticks /\ last[key].turn \in Nat
    BY DEF NamesInv, TypeInv, Sample
  <2> QED BY <2>1
<1> QED BY <1>1, <1>2, <1>3, <1>4 DEF NamesInv, Paired

LEMMA NamesPush ==
  ASSUME TypeInv, NamesInv, Push
  PROVE  NamesInv'
<1> DEFINE h == plan[1]
<1>1. /\ at' = at /\ ticks' = ticks /\ throws' = throws
      /\ plan # <<>> /\ Len(plan) \in Nat /\ 1 <= Len(plan)
      /\ h \in Sample /\ h.key \in Keys
      /\ plan' \in Seq(Sample) /\ Len(plan') = Len(plan) - 1
      /\ \A j \in 1..Len(plan') : plan'[j] = plan[j + 1]
      /\ \A key \in Keys : last'[key] = IF key = h.key THEN h ELSE last[key]
  BY PushFacts
<1>2. \A j \in 1..Len(plan') : j + 1 \in 2..Len(plan) /\ j + 1 \in 1..Len(plan)
  BY <1>1
<1>3. h.turn = ticks
  BY <1>1 DEF NamesInv, OfTurn
<1>4. OfTurn(plan', ticks') /\ (at' # 3 => NoSlots(plan'))
  <2>1. OfTurn(plan, ticks) /\ (at # 3 => NoSlots(plan))
    BY DEF NamesInv
  <2>2. \A j \in 1..Len(plan') : plan'[j].turn = ticks
    BY <1>1, <1>2, <2>1 DEF OfTurn
  <2>3. at # 3 => \A j \in 1..Len(plan') : plan'[j].key.slot = 0
    BY <1>1, <1>2, <2>1 DEF NoSlots
  <2> QED BY <1>1, <2>2, <2>3 DEF OfTurn, NoSlots
<1>5. FollowedByName(plan')
  <2> SUFFICES ASSUME NEW j \in 1..Len(plan'), NEW i \in 1..TopN,
                      plan'[j].key = Cpu(i), plan'[j].known
               PROVE  j < Len(plan') /\ plan'[j + 1].key = Name(i)
    BY DEF FollowedByName
  <2>1. j + 1 < Len(plan) /\ plan[(j + 1) + 1].key = Name(i)
    BY <1>1, <1>2 DEF NamesInv, FollowedByName
  <2>2. j + 1 \in 1..Len(plan') /\ j < Len(plan')
    BY <1>1, <2>1
  <2> QED BY <1>1, <2>1, <2>2
<1>6. AfterLoad(plan')
  <2> SUFFICES ASSUME NEW j \in 2..Len(plan'), NEW i \in 1..TopN, plan'[j].key = Name(i)
               PROVE  plan'[j - 1].key = Cpu(i) /\ plan'[j - 1].known
    BY DEF AfterLoad
  <2>1. j \in 1..Len(plan') /\ j - 1 \in 1..Len(plan') /\ (j - 1) + 1 = j /\ (j + 1) - 1 = j
    BY <1>1
  <2>2. plan[j + 1].key = Name(i) /\ j + 1 \in 2..Len(plan)
    BY <1>1, <1>2, <2>1
  <2>3. plan[(j + 1) - 1].key = Cpu(i) /\ plan[(j + 1) - 1].known
    BY <2>2 DEF NamesInv, AfterLoad
  <2>4. plan'[j - 1] = plan[(j - 1) + 1]
    BY <1>1, <2>1
  <2> QED BY <2>1, <2>3, <2>4
<1>7. \A key \in Keys : last'[key].turn <= ticks'
  <2> SUFFICES ASSUME NEW key \in Keys PROVE last'[key].turn <= ticks'
    OBVIOUS
  <2>1. last[key].turn <= ticks /\ ticks \in Nat /\ ticks' = ticks
    BY <1>1 DEF NamesInv, TypeInv
  <2>2. last'[key].turn = ticks \/ last'[key] = last[key]
    BY <1>1, <1>3, Zenon
  <2> QED BY <2>1, <2>2
<1>8. \A i \in 1..TopN : i \in Naming' => h.key = Cpu(i) /\ h.known
  <2> SUFFICES ASSUME NEW i \in 1..TopN, plan' # <<>>, plan'[1].key = Name(i)
               PROVE  h.key = Cpu(i) /\ h.known
    BY DEF Naming
  <2>1. 1 \in 1..Len(plan')
    BY <1>1, EmptySeq
  <2>2. plan[2].key = Name(i) /\ 2 \in 2..Len(plan)
    BY <1>1, <1>2, <2>1
  <2>3. plan[2 - 1].key = Cpu(i) /\ plan[2 - 1].known
    BY <2>2 DEF NamesInv, AfterLoad
  <2> QED BY <2>3
<1>9. \A i \in 1..TopN : h.key = Cpu(i) /\ h.known => i \in Naming'
  <2> SUFFICES ASSUME NEW i \in 1..TopN, h.key = Cpu(i), h.known PROVE i \in Naming'
    OBVIOUS
  <2>1. 1 < Len(plan) /\ plan[1 + 1].key = Name(i)
    BY <1>1 DEF NamesInv, FollowedByName
  <2>2. 1 \in 1..Len(plan') /\ plan' # <<>>
    BY <1>1, <2>1
  <2> QED BY <1>1, <2>1, <2>2 DEF Naming
<1> HIDE DEF h
<1>10. \A i \in Naming' : last'[Cpu(i)].turn = ticks'
  BY <1>1, <1>3, <1>8, KeyTypes DEF Naming
<1>11. \A i \in 1..TopN : last'[Name(i)].turn <= last'[Cpu(i)].turn
  <2> SUFFICES ASSUME NEW i \in 1..TopN PROVE last'[Name(i)].turn <= last'[Cpu(i)].turn
    OBVIOUS
  <2>1. Cpu(i) \in Keys /\ Name(i) \in Keys /\ Cpu(i) # Name(i)
    BY KeyTypes, KeysDiffer
  <2>2. last[Name(i)].turn <= last[Cpu(i)].turn /\ last[Name(i)].turn <= ticks
    BY <2>1 DEF NamesInv
  <2>3. ticks \in Nat
    BY DEF TypeInv
  <2>4. CASE h.key = Name(i)
    <3>1. last[Cpu(i)].turn = ticks
      BY <1>1, <2>4 DEF NamesInv, Naming, h
    <3> QED BY <1>1, <1>3, <2>1, <2>3, <2>4, <3>1
  <2>5. CASE h.key = Cpu(i)
    BY <1>1, <1>3, <2>1, <2>2, <2>5
  <2>6. CASE h.key # Name(i) /\ h.key # Cpu(i)
    BY <1>1, <2>1, <2>2, <2>6
  <2> QED BY <2>4, <2>5, <2>6
<1>12. Mixed' \ Naming' \subseteq Mixed \ Naming
  <2> SUFFICES ASSUME NEW i \in 1..TopN, i \in Mixed', i \notin Naming'
               PROVE  i \in Mixed /\ i \notin Naming
    BY DEF Mixed
  <2>1. Cpu(i) \in Keys /\ Name(i) \in Keys /\ Cpu(i) # Name(i)
    BY KeyTypes, KeysDiffer
  <2>2. last'[Cpu(i)].known /\ last'[Name(i)].turn < last'[Cpu(i)].turn
    BY DEF Mixed
  <2>3. h.key # Cpu(i)
    <3>1. SUFFICES ASSUME h.key = Cpu(i) PROVE FALSE
      OBVIOUS
    <3>2. h.known
      BY <1>1, <2>1, <2>2, <3>1
    <3> QED BY <1>9, <3>1, <3>2
  <2>4. h.key # Name(i)
    <3>1. SUFFICES ASSUME h.key = Name(i) PROVE FALSE
      OBVIOUS
    <3>2. last'[Name(i)].turn = ticks /\ last'[Cpu(i)].turn <= ticks
      BY <1>1, <1>3, <1>7, <2>1, <3>1
    <3>3. ticks \in Nat
      BY DEF TypeInv
    <3>4. last'[Cpu(i)] = last[Cpu(i)] /\ last[Cpu(i)].turn \in Nat
      BY <1>1, <2>1, <2>3 DEF TypeInv, Sample
    <3> QED BY <2>2, <3>2, <3>3, <3>4
  <2>5. i \in Mixed
    BY <1>1, <2>1, <2>2, <2>3, <2>4 DEF Mixed
  <2>6. i \notin Naming
    BY <2>4 DEF Naming, h
  <2> QED BY <2>5, <2>6
<1>13. Cardinality(Mixed' \ Naming') <= throws'
  <2>1. Mixed \ Naming \subseteq 1..TopN
    BY DEF Mixed
  <2>2. IsFiniteSet(Mixed \ Naming) /\ Cardinality(Mixed \ Naming) \in Nat
    BY <2>1, MixedFinite
  <2>3. /\ Cardinality(Mixed' \ Naming') <= Cardinality(Mixed \ Naming)
    BY <1>12, <2>2, FS_Subset
  <2>4. Mixed' \ Naming' \subseteq 1..TopN
    BY <1>12, <2>1
  <2>5. Cardinality(Mixed' \ Naming') \in Nat
    BY <2>4, MixedFinite
  <2>6. Cardinality(Mixed \ Naming) <= throws /\ throws \in Nat /\ throws' = throws
    BY <1>1 DEF NamesInv, TypeInv
  <2> QED BY <2>2, <2>3, <2>5, <2>6
<1> QED BY <1>4, <1>5, <1>6, <1>7, <1>10, <1>11, <1>13 DEF NamesInv

\* One slot at most is being named.
LEMMA OneNaming ==
  /\ Cardinality(Mixed) \in Nat /\ Cardinality(Mixed \ Naming) \in Nat
  /\ Cardinality(Mixed) <= Cardinality(Mixed \ Naming) + 1
<1>1. Mixed \subseteq 1..TopN /\ Mixed \ Naming \subseteq 1..TopN
  BY DEF Mixed
<1>2. /\ Cardinality(Mixed) \in Nat
      /\ IsFiniteSet(Mixed \ Naming) /\ Cardinality(Mixed \ Naming) \in Nat
  BY <1>1, MixedFinite
<1>3. CASE Naming = {}
  <2>1. Mixed \ Naming = Mixed
    BY <1>3
  <2> QED BY <1>2, <2>1
<1>4. ASSUME NEW i \in Naming
      PROVE  Cardinality(Mixed) <= Cardinality(Mixed \ Naming) + 1
  <2>1. \A j \in Naming : j = i
    BY <1>4, KeysDiffer DEF Naming
  <2>2. Mixed \subseteq (Mixed \ Naming) \cup {i}
    BY <2>1
  <2> DEFINE M == (Mixed \ Naming) \cup {i}
  <2>3. /\ IsFiniteSet(M)
        /\ Cardinality(M) = Cardinality(Mixed \ Naming) \/ Cardinality(M) = Cardinality(Mixed \ Naming) + 1
    BY <1>2, FS_AddElement
  <2>4. Cardinality(Mixed) <= Cardinality(M)
    BY <2>2, <2>3, FS_Subset
  <2> HIDE DEF M
  <2> QED BY <1>2, <2>3, <2>4
<1> QED BY <1>2, <1>3, <1>4

LEMMA NamesThrow ==
  ASSUME TypeInv, NamesInv, Throw
  PROVE  NamesInv'
<1>1. plan' = <<>> /\ Len(plan') = 0 /\ last' = last /\ ticks' = ticks /\ throws' = throws + 1
  BY DEF Throw, loop
<1>2. Naming' = {} /\ Mixed' = Mixed
  BY <1>1 DEF Naming, Mixed
<1>3. Cardinality(Mixed' \ Naming') <= throws'
  <2>1. Mixed' \ Naming' = Mixed
    BY <1>2
  <2>2. throws \in Nat /\ Cardinality(Mixed \ Naming) <= throws
    BY DEF TypeInv, NamesInv
  <2>3. Cardinality(Mixed) <= throws + 1
    BY <2>2, OneNaming
  <2> QED BY <1>1, <2>1, <2>3, Zenon
<1>4. OfTurn(plan', ticks') /\ FollowedByName(plan') /\ AfterLoad(plan') /\ NoSlots(plan')
  BY <1>1 DEF OfTurn, FollowedByName, AfterLoad, NoSlots
<1> QED BY <1>1, <1>2, <1>3, <1>4 DEF NamesInv

LEMMA EntriesOfTurn ==
  ASSUME NEW p \in Seq(Sample), NEW turn, NEW ranking, NEW load,
         \A e \in ToSet(p) : \E i \in 1..TopN : e \in Entries(i, ranking, load, turn)
  PROVE  OfTurn(p, turn)
<1> SUFFICES ASSUME NEW j \in 1..Len(p) PROVE p[j].turn = turn
  BY DEF OfTurn
<1>1. p[j] \in ToSet(p)
  BY DEF ToSet
<1>2. PICK i \in 1..TopN : p[j] \in Entries(i, ranking, load, turn)
  BY <1>1
<1> QED BY <1>2 DEF Entries, Entry

LEMMA EmptyPlan ==
  OfTurn(<<>>, ticks') /\ Paired(<<>>) /\ NoSlots(<<>>)
  BY DEF OfTurn, Paired, FollowedByName, AfterLoad, StartsWithLoad, NoSlots

LEMMA NamesStep == TypeInv /\ NamesInv /\ [Next]_vars => NamesInv'
<1> SUFFICES ASSUME TypeInv, NamesInv, [Next]_vars PROVE NamesInv'
  OBVIOUS
<1>1. ticks \in Nat /\ (plan # <<>> => pc = "pushing") /\ opened \subseteq Counters
  BY DEF TypeInv
<1>2. ASSUME plan = <<>>, plan' = <<>>, last' = last, throws' = throws,
             ticks' = ticks \/ ticks' = ticks + 1
      PROVE  NamesInv'
  BY <1>1, <1>2, EmptyPlan, NamesPlanned
<1>3. CASE Tick
  BY <1>1, <1>2, <1>3 DEF Tick
<1>4. CASE Skip
  BY <1>1, <1>2, <1>4 DEF Skip
<1>5. CASE Run
  BY <1>1, <1>2, <1>5 DEF Run
<1>6. CASE EndTurn
  BY <1>1, <1>2, <1>6 DEF EndTurn, loop
<1>7. CASE Push
  BY <1>7, NamesPush
<1>8. CASE Return
  BY <1>1, <1>2, <1>8 DEF Return, loop
<1>9. CASE Throw
  BY <1>9, NamesThrow
<1>10. ASSUME pc = "collecting", last' = last, throws' = throws, ticks' = ticks,
              plan' \in Seq(Sample), OfTurn(plan', ticks), NoSlots(plan')
       PROVE  NamesInv'
  <2>1. plan = <<>>
    BY <1>1, <1>10
  <2> QED BY <1>1, <1>10, <2>1, NoSlotsPaired, NamesPlanned
<1>11. CASE CollectPdh
  <2>1. /\ pc = "collecting" /\ last' = last /\ throws' = throws /\ ticks' = ticks
    BY <1>11 DEF CollectPdh, InCollector, loop
  <2>2. CASE plan' = <<>>
    BY <1>1, <1>2, <2>1, <2>2
  <2>3. ASSUME NEW good \in SUBSET (opened \cup {"mem.used_pct"}),
               plan' = [i \in 1..Len(SetToSeq(good)) |-> Reading(Metric(SetToSeq(good)[i]), 0, TRUE)]
        PROVE  NamesInv'
    <3>1. plan' \in Seq(Sample) /\ NoSlots(plan') /\ OfTurn(plan', ticks)
      BY <1>1, <2>3, PdhPlan
    <3> QED BY <1>10, <2>1, <3>1
  <2> QED BY <1>11, <2>2, <2>3, Zenon DEF CollectPdh
<1>12. CASE CollectThermal
  <2>1. /\ pc = "collecting" /\ last' = last /\ throws' = throws /\ ticks' = ticks
        /\ plan' \in {<<>>, <<Reading(Metric("temp.zone_c"), 0, TRUE)>>}
    BY <1>12 DEF CollectThermal, InCollector, loop
  <2>2. plan' \in Seq(Sample) /\ NoSlots(plan') /\ OfTurn(plan', ticks)
    BY <1>1, <2>1, ThermalPlan
  <2> QED BY <1>10, <2>1, <2>2
<1>13. CASE CollectProcesses
  <2>1. /\ pc = "collecting" /\ last' = last /\ throws' = throws /\ ticks' = ticks
        /\ at' = at /\ Order[at] = "processes" /\ at \in 1..3
    BY <1>13 DEF CollectProcesses, InCollector, loop, TypeInv
  <2>2. CASE plan' = <<>>
    BY <1>1, <1>2, <2>1, <2>2
  <2>3. ASSUME NEW running \in SUBSET Processes, NEW load \in [running -> Loads],
               NEW ranking \in Rankings(load),
               plan' = FlattenSeq([i \in 1..TopN |-> SlotPushes(i, ranking, load)])
        PROVE  NamesInv'
    <3>1. /\ plan' \in Seq(Sample) /\ Paired(plan')
          /\ \A e \in ToSet(plan') : \E i \in 1..TopN : e \in Entries(i, ranking, load, ticks)
      BY <1>1, <2>3, ProcessPlan
    <3>2. OfTurn(plan', ticks)
      BY <3>1, EntriesOfTurn
    <3>3. at' = 3
      BY <2>1, Positions
    <3>4. plan = <<>>
      BY <1>1, <2>1
    <3> QED BY <1>1, <2>1, <3>1, <3>2, <3>3, <3>4, NamesPlanned
  <2> QED BY <1>13, <2>2, <2>3, Zenon DEF CollectProcesses
<1>14. CASE UNCHANGED vars
  <2>1. NamesInv' <=> NamesInv
    BY <1>14 DEF vars, NamesInv, OfTurn, FollowedByName, AfterLoad, NoSlots, Mixed, Naming
  <2> QED BY <2>1
<1> QED BY <1>3, <1>4, <1>5, <1>6, <1>7, <1>8, <1>9, <1>11, <1>12, <1>13, <1>14 DEF Next

\* Between any two pushes, the slots whose load has an older name are the one being named and
\* one for each exception at most, and no name is newer than its load.
THEOREM NamesComeAfterLoads == Spec => []NamesFollow
<1>1. TypeInv /\ NamesInv => NamesFollow
  <2> SUFFICES ASSUME TypeInv, NamesInv PROVE NamesFollow
    OBVIOUS
  <2>1. throws \in Nat /\ Cardinality(Mixed \ Naming) <= throws
    BY DEF TypeInv, NamesInv
  <2>2. Cardinality(Mixed) <= 1 + throws
    BY <2>1, OneNaming
  <2> QED BY <2>2 DEF NamesFollow, Mixed, NamesInv
<1> QED BY <1>1, NamesInit, NamesStep, Typing, PTL DEF Spec

-----------------------------------------------------------------------------
(* The list: what an enumeration found is pushed or will be.               *)

Filling == at = 3 /\ plan # <<>>

\* The samples of the last enumeration's slots are the metrics', or still in the plan.
Shown(ranking) ==
  \A i \in 1..TopN : \A e \in Entries(i, ranking, enumerated.load, enumerated.turn) :
    last[e.key] = e \/ e \in ToSet(plan)

OfSlots(p, ranking) ==
  \A j \in 1..Len(p) : \E i \in 1..TopN :
    p[j] \in Entries(i, ranking, enumerated.load, enumerated.turn)

\* They all are the metrics'.
Complete(ranking) ==
  \A i \in 1..TopN : \A e \in Entries(i, ranking, enumerated.load, enumerated.turn) :
    last[e.key] = e

ListInv ==
  /\ Filling => /\ enumerated.turn > 0 /\ ~ enumerated.whole
                /\ \E ranking \in Rankings(enumerated.load) : Shown(ranking) /\ OfSlots(plan, ranking)
  /\ enumerated.turn > 0 /\ enumerated.whole =>
       \E ranking \in Rankings(enumerated.load) : Complete(ranking)

\* An enumeration gives each key one sample, and those are the keys of slots.
LEMMA EntryKeys ==
  ASSUME NEW ranking, NEW load, NEW turn, NEW i \in 1..TopN, NEW j \in 1..TopN,
         NEW e \in Entries(i, ranking, load, turn), NEW f \in Entries(j, ranking, load, turn)
  PROVE  /\ e.key \in Keys /\ e.key.slot # 0
         /\ e.key = f.key => e = f
<1>1. \A k \in 1..TopN : \A g \in Entries(k, ranking, load, turn) :
        \/ g.key = Cpu(k) /\ g = (IF k <= Len(ranking) THEN Entry(Cpu(k), load[ranking[k]], TRUE, turn)
                                                       ELSE Entry(Cpu(k), 0, FALSE, turn))
        \/ g.key = Name(k) /\ g = Entry(Name(k), NameOf[ranking[k]], TRUE, turn)
  BY DEF Entries, Entry
<1>2. (e.key = Cpu(i) \/ e.key = Name(i)) /\ (f.key = Cpu(j) \/ f.key = Name(j))
  BY <1>1, Zenon
<1>4. e.key \in Keys /\ e.key.slot # 0
  <2>1. /\ Cpu(i) \in Keys /\ Name(i) \in Keys
        /\ Cpu(i).slot # 0 /\ Name(i).slot # 0
    BY KeyTypes, KeysDiffer
  <2> QED BY <1>2, <2>1, Zenon
<1>3. ASSUME e.key = f.key PROVE e = f
  <2>1. /\ Cpu(i) # Name(j) /\ Cpu(j) # Name(i) /\ Cpu(i) # Name(i)
        /\ (Cpu(i) = Cpu(j) => i = j) /\ (Name(i) = Name(j) => i = j)
    BY KeysDiffer
  <2>2. i = j
    BY <1>2, <1>3, <2>1, Zenon
  <2> QED BY <1>1, <1>3, <2>1, <2>2, Zenon
<1> QED BY <1>3, <1>4

\* Where no slot's metric changes and there is no new plan for slots, nothing does.
LEMMA ListKept ==
  ASSUME ListInv, enumerated' = enumerated, ~ Filling',
         \A key \in Keys : key.slot # 0 => last'[key] = last[key]
  PROVE  ListInv'
<1> SUFFICES ASSUME enumerated.turn > 0, enumerated.whole
             PROVE  \E ranking \in Rankings(enumerated.load) : Complete(ranking)'
  BY DEF ListInv, Rankings
<1>1. PICK ranking \in Rankings(enumerated.load) : Complete(ranking)
  BY DEF ListInv
<1>2. Complete(ranking)'
  BY <1>1, EntryKeys DEF Complete
<1> QED BY <1>2

LEMMA ListPush ==
  ASSUME TypeInv, NamesInv, ListInv, Push
  PROVE  ListInv'
<1> DEFINE h == plan[1]
<1>1. /\ pc = "pushing" /\ at \in 1..3 /\ at' = at
      /\ plan # <<>> /\ Len(plan) \in Nat /\ 1 <= Len(plan)
      /\ h \in Sample /\ h.key \in Keys
      /\ plan' \in Seq(Sample) /\ Len(plan') = Len(plan) - 1
      /\ \A j \in 1..Len(plan') : plan'[j] = plan[j + 1]
      /\ \A key \in Keys : last'[key] = IF key = h.key THEN h ELSE last[key]
  BY PushFacts
<1>2. /\ enumerated'.turn = enumerated.turn /\ enumerated'.load = enumerated.load
      /\ enumerated'.whole = (enumerated.whole \/ (Order[at] = "processes" /\ Len(plan) = 1))
  <2> DEFINE w == enumerated.whole \/ (Order[at] = "processes" /\ Len(plan) = 1)
  <2>1. /\ enumerated' = [enumerated EXCEPT !.whole = w]
        /\ enumerated \in [turn : Nat, load : Listing \cup {<<>>}, whole : BOOLEAN]
    BY DEF Push, TypeInv
  <2> HIDE DEF w
  <2>2. enumerated'.turn = enumerated.turn /\ enumerated'.load = enumerated.load /\ enumerated'.whole = w
    BY <2>1
  <2> QED BY <2>2 DEF w
<1>3. Order[at] = "processes" <=> at = 3
  BY <1>1, Positions
<1>4. 1 \in 1..Len(plan)
  BY <1>1
<1>5. CASE at # 3
  <2>1. h.key.slot = 0
    BY <1>4, <1>5 DEF NamesInv, NoSlots
  <2>2. enumerated' = enumerated
    <3>1. enumerated \in [turn : Nat, load : Listing \cup {<<>>}, whole : BOOLEAN]
      BY DEF TypeInv
    <3>2. enumerated'.whole = enumerated.whole
      BY <1>2, <1>3, <1>5, <3>1
    <3>3. enumerated' \in [turn : Nat, load : Listing \cup {<<>>}, whole : BOOLEAN]
      BY <3>1 DEF Push
    <3> QED BY <1>2, <3>1, <3>2, <3>3
  <2>3. ~ Filling'
    BY <1>1, <1>5 DEF Filling
  <2>4. \A key \in Keys : key.slot # 0 => last'[key] = last[key]
    BY <1>1, <2>1
  <2> QED BY <2>2, <2>3, <2>4, ListKept
<1>6. CASE at = 3
  <2>1. Filling
    BY <1>1, <1>6 DEF Filling
  <2>2. enumerated.turn > 0 /\ ~ enumerated.whole
    BY <2>1 DEF ListInv
  <2>3. PICK ranking \in Rankings(enumerated.load) : Shown(ranking) /\ OfSlots(plan, ranking)
    BY <2>1 DEF ListInv
  <2> DEFINE Of(i) == Entries(i, ranking, enumerated.load, enumerated.turn)
  <2>4. PICK k \in 1..TopN : h \in Of(k)
    BY <1>4, <2>3 DEF OfSlots
  <2>5. \A i \in 1..TopN : \A e \in Of(i) : e.key \in Keys /\ (e.key = h.key => e = h)
    <3> SUFFICES ASSUME NEW i \in 1..TopN, NEW e \in Of(i)
                 PROVE  e.key \in Keys /\ (e.key = h.key => e = h)
      OBVIOUS
    <3> HIDE DEF h
    <3> QED BY <2>4, EntryKeys
  <2>6. \A i \in 1..TopN : \A e \in Of(i) : last'[e.key] = e \/ e \in ToSet(plan')
    <3> SUFFICES ASSUME NEW i \in 1..TopN, NEW e \in Of(i), e.key # h.key, last[e.key] # e
                 PROVE  e \in ToSet(plan')
      BY <1>1, <2>5
    <3>1. e \in ToSet(plan)
      BY <2>3 DEF Shown
    <3>2. PICK j \in 1..Len(plan) : plan[j] = e
      BY <3>1 DEF ToSet, TypeInv
    <3>3. j # 1
      BY <3>2
    <3>4. j - 1 \in 1..Len(plan') /\ (j - 1) + 1 = j
      BY <1>1, <3>3
    <3>5. plan'[j - 1] = e
      BY <1>1, <3>2, <3>4
    <3>6. DOMAIN plan' = 1..Len(plan')
      BY <1>1
    <3> QED BY <3>4, <3>5, <3>6 DEF ToSet
  <2>7. \A j \in 1..Len(plan') : \E i \in 1..TopN : plan'[j] \in Of(i)
    <3> SUFFICES ASSUME NEW j \in 1..Len(plan') PROVE \E i \in 1..TopN : plan'[j] \in Of(i)
      OBVIOUS
    <3>1. j + 1 \in 1..Len(plan) /\ plan'[j] = plan[j + 1]
      BY <1>1
    <3> QED BY <2>3, <3>1 DEF OfSlots
  <2>8. Shown(ranking)' /\ OfSlots(plan, ranking)' /\ ranking \in Rankings(enumerated.load)'
    <3>1. Shown(ranking)'
      BY <1>2, <2>6 DEF Shown
    <3>2. OfSlots(plan, ranking)'
      BY <1>2, <2>7 DEF OfSlots
    <3>3. ranking \in Rankings(enumerated.load)'
      BY <1>2, <2>3 DEF Rankings
    <3> QED BY <3>1, <3>2, <3>3
  <2>9. CASE Len(plan) = 1
    <3>1. plan' = <<>>
      BY <1>1, <2>9
    <3>2. Complete(ranking)'
      BY <2>8, <3>1 DEF Shown, Complete, ToSet
    <3> QED BY <2>8, <3>1, <3>2 DEF ListInv, Filling
  <2>10. CASE Len(plan) # 1
    <3>1. ~ enumerated'.whole /\ enumerated'.turn > 0
      BY <1>2, <2>2, <2>10
    <3> QED BY <2>8, <3>1 DEF ListInv
  <2> QED BY <2>9, <2>10
<1> QED BY <1>5, <1>6

LEMMA ListInit == Init => ListInv
  BY DEF Init, ListInv, Filling

LEMMA ListStep == TypeInv /\ NamesInv /\ ListInv /\ [Next]_vars => ListInv'
<1> SUFFICES ASSUME TypeInv, NamesInv, ListInv, [Next]_vars PROVE ListInv'
  OBVIOUS
<1>1. plan # <<>> => pc = "pushing"
  BY DEF TypeInv
<1>2. ASSUME enumerated' = enumerated, last' = last, plan' = <<>> \/ at' # 3
      PROVE  ListInv'
  <2>1. ~ Filling'
    BY <1>2 DEF Filling
  <2> QED BY <1>2, <2>1, ListKept
<1>3. CASE Tick
  BY <1>1, <1>2, <1>3 DEF Tick
<1>4. CASE Skip
  BY <1>1, <1>2, <1>4 DEF Skip
<1>5. CASE Run
  BY <1>1, <1>2, <1>5 DEF Run
<1>6. CASE EndTurn
  BY <1>1, <1>2, <1>6 DEF EndTurn
<1>7. CASE Push
  BY <1>7, ListPush
<1>8. CASE Return
  BY <1>2, <1>8 DEF Return
<1>9. CASE Throw
  BY <1>2, <1>9 DEF Throw
<1>10. CASE CollectPdh
  BY <1>2, <1>10, Positions DEF CollectPdh, InCollector
<1>11. CASE CollectThermal
  BY <1>2, <1>11, Positions DEF CollectThermal, InCollector
<1>12. CASE CollectProcesses
  <2>1. last' = last /\ ticks > 0 /\ ticks \in Nat
    BY <1>12 DEF CollectProcesses, InCollector, TypeInv
  <2>2. CASE plan' = <<>> /\ enumerated' = enumerated
    BY <1>2, <2>1, <2>2
  <2>3. ASSUME NEW running \in SUBSET Processes, NEW load \in [running -> Loads],
               NEW ranking \in Rankings(load),
               plan' = FlattenSeq([i \in 1..TopN |-> SlotPushes(i, ranking, load)]),
               enumerated' = [turn |-> ticks, load |-> load, whole |-> FALSE]
        PROVE  ListInv'
    <3>1. /\ plan' \in Seq(Sample)
          /\ \A e : e \in ToSet(plan') <=> \E i \in 1..TopN : e \in Entries(i, ranking, load, ticks)
      BY <2>1, <2>3, ProcessPlan
    <3>2. enumerated'.turn = ticks /\ enumerated'.load = load /\ enumerated'.whole = FALSE
      BY <2>3
    <3>3. Shown(ranking)'
      BY <3>1, <3>2 DEF Shown
    <3>4. OfSlots(plan, ranking)'
      <4>1. \A j \in 1..Len(plan') : plan'[j] \in ToSet(plan')
        BY <3>1 DEF ToSet
      <4> QED BY <3>1, <3>2, <4>1 DEF OfSlots
    <3>5. ranking \in Rankings(enumerated.load)'
      BY <2>3, <3>2 DEF Rankings
    <3> QED BY <2>1, <3>2, <3>3, <3>4, <3>5 DEF ListInv
  <2> QED BY <1>12, <2>2, <2>3, Zenon DEF CollectProcesses
<1>13. CASE UNCHANGED vars
  <2>1. ListInv' <=> ListInv
    BY <1>13 DEF vars, ListInv, Filling, Shown, OfSlots, Complete, Rankings
  <2> QED BY <2>1
<1> QED BY <1>3, <1>4, <1>5, <1>6, <1>7, <1>8, <1>9, <1>10, <1>11, <1>12, <1>13 DEF Next

\* TopListWhole, of the processes running and their load.
ListOf(running, load) ==
  LET taken == {i \in 1..TopN : i <= Cardinality(running)}
  IN  /\ \A i \in 1..TopN :
           /\ last[Cpu(i)].turn = enumerated.turn /\ last[Cpu(i)].known = (i \in taken)
           /\ i \notin taken => last[Cpu(i)].value = 0
      /\ \A i, j \in taken : i < j => last[Cpu(i)].value >= last[Cpu(j)].value
      /\ \E shown \in [taken -> running] :
           /\ \A i, j \in taken : i # j => shown[i] # shown[j]
           /\ \A i \in taken : /\ last[Cpu(i)].value = load[shown[i]]
                               /\ last[Name(i)].value = NameOf[shown[i]]
           /\ \A p \in running :
                (\A i \in taken : shown[i] # p) =>
                  \A i \in taken : load[p] <= last[Cpu(i)].value

\* A complete list shows the processes of an order, first to last, and nothing below them.
LEMMA CompleteList ==
  ASSUME NEW running \in SUBSET Processes, NEW load \in [running -> Loads],
         NEW ranking \in Rankings(load), load = enumerated.load, Complete(ranking)
  PROVE  ListOf(running, load)
<1> DEFINE n == Cardinality(running)
           taken == {i \in 1..TopN : i <= n}
           shown == [i \in taken |-> ranking[i]]
<1>0. /\ Cardinality(running) \in Nat /\ Len(ranking) = Cardinality(running)
      /\ ranking \in [1..Cardinality(running) -> running]
      /\ \A i, j \in 1..Cardinality(running) : i # j => ranking[i] # ranking[j]
      /\ \A i, j \in 1..Cardinality(running) : i < j => load[ranking[i]] >= load[ranking[j]]
      /\ \A p \in running : \E i \in 1..Cardinality(running) : ranking[i] = p
  <2>1. /\ Cardinality(running) \in Nat /\ Len(ranking) = Cardinality(running)
        /\ ranking \in [1..Cardinality(running) -> running]
    BY Ranked
  <2>2. \A i, j \in 1..Cardinality(running) : i # j => ranking[i] # ranking[j]
    BY Ranked
  <2>3. \A i, j \in 1..Cardinality(running) : i < j => load[ranking[i]] >= load[ranking[j]]
    BY Ranked
  <2>4. \A p \in running : \E i \in 1..Cardinality(running) : ranking[i] = p
    BY Ranked
  <2> QED BY <2>1, <2>2, <2>3, <2>4
<1>1. /\ n \in Nat /\ ranking \in [1..n -> running] /\ Len(ranking) = n
      /\ \A i, j \in 1..n : i # j => ranking[i] # ranking[j]
      /\ \A i, j \in 1..n : i < j => load[ranking[i]] >= load[ranking[j]]
      /\ \A p \in running : \E i \in 1..n : ranking[i] = p
  BY <1>0
<1> HIDE DEF n
<1>2. TopN \in Nat
  BY DEF CollectorsAssumption
<1>3. \A i \in taken : /\ i \in 1..n /\ i \in 1..TopN
                       /\ last[Cpu(i)] = Entry(Cpu(i), load[ranking[i]], TRUE, enumerated.turn)
                       /\ last[Name(i)] = Entry(Name(i), NameOf[ranking[i]], TRUE, enumerated.turn)
  <2> SUFFICES ASSUME NEW i \in 1..TopN, i <= n
               PROVE  /\ i \in 1..n
                      /\ last[Cpu(i)] = Entry(Cpu(i), load[ranking[i]], TRUE, enumerated.turn)
                      /\ last[Name(i)] = Entry(Name(i), NameOf[ranking[i]], TRUE, enumerated.turn)
    OBVIOUS
  <2>1. Entries(i, ranking, load, enumerated.turn) =
          {Entry(Cpu(i), load[ranking[i]], TRUE, enumerated.turn),
           Entry(Name(i), NameOf[ranking[i]], TRUE, enumerated.turn)}
    BY <1>1 DEF Entries
  <2>2. \A e \in Entries(i, ranking, load, enumerated.turn) : last[e.key] = e
    BY DEF Complete
  <2> QED BY <1>1, <1>2, <2>1, <2>2 DEF Entry
<1>4. \A i \in 1..TopN : i \notin taken =>
        last[Cpu(i)] = Entry(Cpu(i), 0, FALSE, enumerated.turn)
  <2> SUFFICES ASSUME NEW i \in 1..TopN, ~ i <= n
               PROVE  last[Cpu(i)] = Entry(Cpu(i), 0, FALSE, enumerated.turn)
    OBVIOUS
  <2>1. Entries(i, ranking, load, enumerated.turn) = {Entry(Cpu(i), 0, FALSE, enumerated.turn)}
    BY <1>1 DEF Entries
  <2>2. \A e \in Entries(i, ranking, load, enumerated.turn) : last[e.key] = e
    BY DEF Complete
  <2> QED BY <2>1, <2>2 DEF Entry
<1>5. \A i \in taken : /\ ranking[i] \in running
                       /\ last[Cpu(i)].value = load[ranking[i]] /\ last[Name(i)].value = NameOf[ranking[i]]
                       /\ last[Cpu(i)].turn = enumerated.turn /\ last[Cpu(i)].known = TRUE
  <2> SUFFICES ASSUME NEW i \in taken
               PROVE  /\ ranking[i] \in running
                      /\ last[Cpu(i)].value = load[ranking[i]] /\ last[Name(i)].value = NameOf[ranking[i]]
                      /\ last[Cpu(i)].turn = enumerated.turn /\ last[Cpu(i)].known = TRUE
    OBVIOUS
  <2> HIDE DEF taken
  <2>1. /\ i \in 1..n
        /\ last[Cpu(i)] = Entry(Cpu(i), load[ranking[i]], TRUE, enumerated.turn)
        /\ last[Name(i)] = Entry(Name(i), NameOf[ranking[i]], TRUE, enumerated.turn)
    BY <1>3
  <2>2. ranking[i] \in running
    BY <1>1, <2>1
  <2> QED BY <2>1, <2>2 DEF Entry
<1>6. \A i \in 1..TopN : i \notin taken =>
        last[Cpu(i)].value = 0 /\ last[Cpu(i)].turn = enumerated.turn /\ last[Cpu(i)].known = FALSE
  <2> SUFFICES ASSUME NEW i \in 1..TopN, i \notin taken
               PROVE  /\ last[Cpu(i)].value = 0 /\ last[Cpu(i)].turn = enumerated.turn
                      /\ last[Cpu(i)].known = FALSE
    OBVIOUS
  <2> HIDE DEF taken
  <2>1. last[Cpu(i)] = Entry(Cpu(i), 0, FALSE, enumerated.turn)
    BY <1>4
  <2> QED BY <2>1 DEF Entry
<1>7. IsFiniteSet(taken) /\ taken \subseteq 1..n
  <2>1. taken \subseteq 1..TopN
    OBVIOUS
  <2>2. taken \subseteq 1..n
    BY <1>3
  <2> HIDE DEF taken
  <2> QED BY <2>1, <2>2, MixedFinite
<1> HIDE DEF taken
<1>8. /\ shown \in [taken -> running]
      /\ \A i, j \in taken : i # j => shown[i] # shown[j]
      /\ \A i \in taken : /\ last[Cpu(i)].value = load[shown[i]]
                          /\ last[Name(i)].value = NameOf[shown[i]]
  <2>1. \A i \in taken : shown[i] = ranking[i] /\ ranking[i] \in running
    BY <1>5
  <2>2. \A i, j \in taken : i # j => shown[i] # shown[j]
    BY <1>1, <1>7, <2>1
  <2>3. shown \in [taken -> running]
    BY <2>1
  <2> QED BY <1>5, <2>1, <2>2, <2>3
<1>9. \A i, j \in taken : i < j => last[Cpu(i)].value >= last[Cpu(j)].value
  <2> SUFFICES ASSUME NEW i \in taken, NEW j \in taken, i < j
               PROVE  last[Cpu(i)].value >= last[Cpu(j)].value
    OBVIOUS
  <2>1. i \in 1..n /\ j \in 1..n
    BY <1>7
  <2>2. load[ranking[i]] >= load[ranking[j]]
    BY <1>1, <2>1
  <2>3. last[Cpu(i)].value = load[ranking[i]] /\ last[Cpu(j)].value = load[ranking[j]]
    BY <1>5
  <2> QED BY <2>2, <2>3
<1>10. ASSUME NEW p \in running, \A j \in taken : shown[j] # p, NEW i \in taken
       PROVE  load[p] <= last[Cpu(i)].value
  <2>1. PICK k \in 1..n : ranking[k] = p
    BY <1>1
  <2>2. k \notin taken
    BY <1>5, <1>10, <2>1
  <2>3. i < k
    BY <1>1, <1>2, <1>3, <2>2 DEF taken
  <2>4. i \in 1..n
    BY <1>7
  <2>5. load[ranking[i]] >= load[ranking[k]]
    BY <1>1, <2>3, <2>4
  <2>6. load[p] \in Nat /\ load[ranking[i]] \in Nat
    BY <1>5 DEF CollectorsAssumption
  <2> QED BY <1>5, <2>1, <2>5, <2>6
<1>11. \A i \in 1..TopN :
         /\ last[Cpu(i)].turn = enumerated.turn /\ last[Cpu(i)].known = (i \in taken)
         /\ i \notin taken => last[Cpu(i)].value = 0
  <2> SUFFICES ASSUME NEW i \in 1..TopN
               PROVE  /\ last[Cpu(i)].turn = enumerated.turn /\ last[Cpu(i)].known = (i \in taken)
                      /\ i \notin taken => last[Cpu(i)].value = 0
    OBVIOUS
  <2>1. CASE i \in taken
    BY <1>5, <2>1
  <2>2. CASE i \notin taken
    <3>1. last[Cpu(i)].value = 0 /\ last[Cpu(i)].turn = enumerated.turn /\ last[Cpu(i)].known = FALSE
      BY <1>6, <2>2
    <3>2. last[Cpu(i)].known = (i \in taken)
      <4>1. (i \in taken) = FALSE
        BY <2>2
      <4> QED BY <3>1, <4>1, Zenon
    <3> QED BY <2>2, <3>1, <3>2
  <2> QED BY <2>1, <2>2
<1>12. \E f \in [taken -> running] :
         /\ \A i, j \in taken : i # j => f[i] # f[j]
         /\ \A i \in taken : /\ last[Cpu(i)].value = load[f[i]]
                             /\ last[Name(i)].value = NameOf[f[i]]
         /\ \A p \in running :
              (\A i \in taken : f[i] # p) => \A i \in taken : load[p] <= last[Cpu(i)].value
  <2> HIDE DEF shown
  <2>1. \A p \in running :
          (\A i \in taken : shown[i] # p) => \A i \in taken : load[p] <= last[Cpu(i)].value
    BY <1>10
  <2> QED BY <1>8, <2>1
<1> QED BY <1>9, <1>11, <1>12 DEF n, taken, ListOf

\* Between two turns the slots are one enumeration's: its processes of the highest load in
\* descending order, each with its own name, and no load in the others.
THEOREM ListsAreWhole == Spec => []TopListWhole
<1>1. TypeInv /\ ListInv => TopListWhole
  <2> SUFFICES ASSUME TypeInv, ListInv, enumerated.turn > 0, enumerated.whole PROVE TopListWhole
    BY DEF TopListWhole
  <2>1. PICK ranking \in Rankings(enumerated.load) : Complete(ranking)
    BY DEF ListInv
  <2>2. enumerated.load \in Listing
    BY DEF TypeInv
  <2> DEFINE load == enumerated.load
             running == DOMAIN load
  <2>3. running \in SUBSET Processes /\ load \in [running -> Loads]
    BY <2>2 DEF Listing
  <2> HIDE DEF running
  <2>4. ListOf(running, load)
    BY <2>1, <2>3, CompleteList
  <2> QED BY <2>4, Zenon DEF ListOf, TopListWhole, running
<1>2. TypeInv /\ NamesInv /\ ListInv /\ [Next]_vars => ListInv'
  BY ListStep
<1> QED BY <1>1, <1>2, ListInit, NamesInit, NamesStep, Typing, PTL DEF Spec

=============================================================================
