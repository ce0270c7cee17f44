-------------------------- MODULE AggregatorProofs --------------------------
(***************************************************************************)
(* Proofs about the rollups, for every set of metrics, length of the       *)
(* buckets, schedule, start and jump of the clock: the types, and what     *)
(* flush_1m and accumulate do with every sample that was ever taken. Then, *)
(* for days that fit the limit of query_history, what flush_15m and        *)
(* finalize_daily make of the 1-minute rows.                               *)
(***************************************************************************)
EXTENDS Aggregator, FiniteSetTheorems, FunctionTheorems, TLAPS

\* What flush_1m makes of metric_1m.
Flushed == Upsert(minutes, Aggregates)

\* The working bucket that flush_1m writes for a metric.
RowOf(k) == [ts |-> current, key |-> k, samples |-> buckets[k], at |-> ticks]

\* accumulate meets another minute.
Turn(key) == current \notin {0, Floor(reading[key], Minute)}

-----------------------------------------------------------------------------
(* The inductive invariant.                                                *)

\* current_bucket_ts_ = 0 means that nothing is held, at the start and when the
\* process ends; no sample is of the minute of that number.
Numbered ==
  /\ now >= Minute
  /\ current = 0 => buckets = NoSamples
  /\ pc = "closing" => buckets = NoSamples
  /\ \A k \in Keys : reading[k] = 0 \/ reading[k] >= Minute
  /\ \A k \in calls : reading[k] # 0

\* What the buckets hold is of their metric and of current_bucket_ts_.
BucketsHoldTheirMinute ==
  \A k \in Keys : \A s \in buckets[k] : s.key = k /\ Floor(s.ts, Minute) = current

\* Samples come in the order of the ticks: those of the buckets after those written.
SamplesInOrder ==
  /\ \A s \in taken : s.n <= ticks /\ (s.key \in calls => s.n < ticks)
  /\ \A k \in Keys : buckets[k] \subseteq taken
  /\ \A r \in minutes :
       /\ r.samples \subseteq taken
       /\ \A s \in r.samples : \A b \in buckets[r.key] : s.n < b.n

\* TypeOK, the strengthenings and the two properties.
Inv ==
  /\ TypeOK /\ Numbered /\ BucketsHoldTheirMinute /\ RowsHoldTheirMinute
  /\ SamplesInOrder /\ LossesExplained

-----------------------------------------------------------------------------
(* Numbers and rows.                                                       *)

LEMMA FloorType ==
  ASSUME NEW t \in Int PROVE Floor(t, Minute) \in Int /\ DayOf(t) \in Int
BY AggregatorAssumption DEF Floor, DayOf

LEMMA FloorPositive ==
  ASSUME NEW t \in Int, t >= Minute PROVE Floor(t, Minute) # 0
<1>1. t % Minute < Minute
  BY AggregatorAssumption
<1>2. t % Minute \in Int
  BY AggregatorAssumption
<1> QED BY <1>1, <1>2, AggregatorAssumption DEF Floor

LEMMA LastSampleType ==
  ASSUME TypeOK, NEW key \in Keys
  PROVE  /\ LastSample(key) \in Sample /\ LastSample(key).key = key
         /\ LastSample(key).ts = reading[key] /\ LastSample(key).n = ticks
BY DEF TypeOK, LastSample, Sample

LEMMA RowType ==
  ASSUME TypeOK, NEW k \in Keys, buckets[k] # {} PROVE RowOf(k) \in Row
BY DEF TypeOK, Row, RowOf

\* Every row after a flush was there before, or is a bucket.
LEMMA FlushedFrom ==
  ASSUME TypeOK, NEW r \in Flushed
  PROVE  \/ r \in minutes
         \/ \E k \in Keys : buckets[k] # {} /\ r = RowOf(k)
BY DEF Flushed, Upsert, Aggregates, RowOf

\* A row survives a flush, or a bucket of its metric and minute replaces it.
LEMMA RowKept ==
  ASSUME TypeOK, NEW r \in minutes
  PROVE  \/ r \in Flushed
         \/ buckets[r.key] # {} /\ r.ts = current
<1>1. CASE \A s \in Aggregates : r.ts # s.ts \/ r.key # s.key
  BY <1>1 DEF Flushed, Upsert
<1>2. CASE \E s \in Aggregates : r.ts = s.ts /\ r.key = s.key
  BY <1>2 DEF Aggregates
<1> QED BY <1>1, <1>2

LEMMA BucketWritten ==
  ASSUME NEW k \in Keys, buckets[k] # {}
  PROVE  RowOf(k) \in Flushed
BY DEF Flushed, Upsert, Aggregates, RowOf

LEMMA FlushedType == ASSUME TypeOK PROVE Flushed \subseteq Row
BY FlushedFrom, RowType DEF TypeOK

-----------------------------------------------------------------------------
(* What a flush preserves.                                                 *)

LEMMA FlushedMinutes ==
  ASSUME TypeOK, BucketsHoldTheirMinute, RowsHoldTheirMinute
  PROVE  \A r \in Flushed : \A s \in r.samples : s.key = r.key /\ Floor(s.ts, Minute) = r.ts
<1> SUFFICES ASSUME NEW r \in Flushed, NEW s \in r.samples
    PROVE  s.key = r.key /\ Floor(s.ts, Minute) = r.ts
  OBVIOUS
<1>1. CASE r \in minutes
  BY <1>1 DEF RowsHoldTheirMinute
<1>2. ASSUME NEW k \in Keys, r = RowOf(k) PROVE s.key = r.key /\ Floor(s.ts, Minute) = r.ts
  BY <1>2 DEF RowOf, BucketsHoldTheirMinute
<1> QED BY <1>1, <1>2, FlushedFrom

LEMMA FlushedSamples ==
  ASSUME TypeOK, SamplesInOrder PROVE \A r \in Flushed : r.samples \subseteq taken
<1> SUFFICES ASSUME NEW r \in Flushed PROVE r.samples \subseteq taken
  OBVIOUS
<1>1. CASE r \in minutes
  BY <1>1 DEF SamplesInOrder
<1>2. ASSUME NEW k \in Keys, r = RowOf(k) PROVE r.samples \subseteq taken
  BY <1>2 DEF RowOf, SamplesInOrder
<1> QED BY <1>1, <1>2, FlushedFrom

\* After a flush a sample of the buckets is in its row; one of a row still is, or a later
\* sample is there in its place; one replaced stays so.
LEMMA FlushedLosses ==
  ASSUME TypeOK, BucketsHoldTheirMinute, RowsHoldTheirMinute, SamplesInOrder, LossesExplained,
         NEW s \in taken \ crashed
  PROVE  \/ \E r \in Flushed : s \in r.samples
         \/ \E r \in Flushed :
              /\ r.key = s.key /\ r.ts = Floor(s.ts, Minute)
              /\ \E later \in r.samples : later.n > s.n
<1> DEFINE Gone == \E r \in Flushed :
                     /\ r.key = s.key /\ r.ts = Floor(s.ts, Minute)
                     /\ \E later \in r.samples : later.n > s.n
<1>0. s \in Sample /\ s.n \in Nat
  BY DEF TypeOK, Sample
<1>1. CASE s \in buckets[s.key]
  <2>1. s.key \in Keys
    BY <1>0 DEF Sample
  <2>2. RowOf(s.key) \in Flushed /\ s \in RowOf(s.key).samples
    BY <1>1, <2>1, BucketWritten DEF RowOf
  <2> QED BY <2>2
\* A row r, of s's metric and minute, with a sample no older than s in it.
<1>2. ASSUME NEW r \in minutes, r.key = s.key, r.ts = Floor(s.ts, Minute), r \notin Flushed,
             NEW t \in r.samples, t.n >= s.n
      PROVE  Gone
  <2>1. r.key \in Keys /\ buckets[r.key] # {} /\ r.ts = current
    BY <1>2, RowKept DEF TypeOK, Row
  <2>2. PICK b \in buckets[r.key] : TRUE
    BY <2>1
  <2>3. t.n < b.n /\ t.n \in Nat /\ b.n \in Nat
    BY <1>2, <2>1, <2>2 DEF SamplesInOrder, TypeOK, Sample, Row
  <2>4. RowOf(r.key) \in Flushed
    BY <2>1, BucketWritten
  <2>5. /\ RowOf(r.key).key = s.key /\ RowOf(r.key).ts = Floor(s.ts, Minute)
        /\ b \in RowOf(r.key).samples
    BY <1>2, <2>1, <2>2 DEF RowOf
  <2> QED BY <1>0, <1>2, <2>3, <2>4, <2>5
<1>3. ASSUME NEW r \in minutes, s \in r.samples
      PROVE  (\E q \in Flushed : s \in q.samples) \/ Gone
  <2>1. r.key = s.key /\ r.ts = Floor(s.ts, Minute)
    BY <1>3 DEF RowsHoldTheirMinute
  <2> QED BY <1>0, <1>2, <1>3, <2>1
<1>4. CASE Replaced(s)
  <2>1. PICK r \in minutes :
          /\ r.key = s.key /\ r.ts = Floor(s.ts, Minute)
          /\ \E later \in r.samples : later.n > s.n
    BY <1>4 DEF Replaced
  <2>2. PICK later \in r.samples : later.n > s.n
    BY <2>1
  <2>3. later.n \in Nat
    BY <2>2 DEF TypeOK, Row, Sample
  <2>4. CASE r \in Flushed
    BY <2>1, <2>4
  <2>5. CASE r \notin Flushed
    BY <1>0, <1>2, <2>1, <2>2, <2>3, <2>5
  <2> QED BY <2>4, <2>5
<1> QED BY <1>1, <1>3, <1>4 DEF LossesExplained

-----------------------------------------------------------------------------
(* The invariant, action by action.                                        *)

LEMMA AccumulateUnfolded ==
  ASSUME TypeOK, NEW key \in Keys, Accumulate(key)
  PROVE  /\ pc = "collecting" /\ pc' = pc /\ key \in calls /\ calls' = calls \ {key}
         /\ minutes' = IF Turn(key) THEN Flushed ELSE minutes
         /\ DOMAIN buckets' = Keys
         /\ \A k \in Keys : buckets'[k] = (IF Turn(key) THEN {} ELSE buckets[k]) \cup
                                         (IF k = key THEN {LastSample(key)} ELSE {})
         /\ taken' = taken \cup {LastSample(key)}
         /\ current' = Floor(reading[key], Minute)
         /\ UNCHANGED <<clock, elapsed, reading, lastDay, quarters, energy, crashed, firstDay>>
<1>1. CASE Turn(key)
  <2>1. buckets' = [NoSamples EXCEPT ![key] = {LastSample(key)}] /\ minutes' = Flushed
    BY <1>1 DEF Accumulate, Turn, Flushed
  <2> QED BY <1>1, <2>1 DEF Accumulate, NoSamples
<1>2. CASE ~ Turn(key)
  <2>1. buckets' = [buckets EXCEPT ![key] = @ \cup {LastSample(key)}] /\ minutes' = minutes
    BY <1>2 DEF Accumulate, Turn
  <2> QED BY <1>2, <2>1 DEF Accumulate, TypeOK
<1> QED BY <1>1, <1>2

LEMMA TypeInit == Init => TypeOK
<1> SUFFICES ASSUME Init PROVE TypeOK
  OBVIOUS
<1>1. now \in Int
  BY AggregatorAssumption DEF Init
<1>2. DayOf(now) \in Int
  BY <1>1, FloorType
<1>3. NoSamples \in [Keys -> SUBSET Sample]
  BY DEF NoSamples
<1>4. /\ pc = "down" /\ jumped = FALSE /\ ticks = 0 /\ elapsed = 0 /\ current = 0
      /\ buckets = NoSamples /\ lastDay = DayOf(now) /\ firstDay = DayOf(now)
      /\ minutes = {} /\ quarters = {} /\ energy = {} /\ taken = {} /\ crashed = {}
      /\ reading \in [Keys -> Int] /\ calls \subseteq Keys
  BY DEF Init, NoReading
<1>5. ticks \in Nat /\ elapsed \in Nat /\ current \in Int
  BY <1>4
<1>6. buckets \in [Keys -> SUBSET Sample] /\ lastDay \in Int /\ firstDay \in Int
  BY <1>2, <1>3, <1>4
<1> QED BY <1>1, <1>4, <1>5, <1>6, Zenon DEF TypeOK

LEMMA FinalizeType ==
  ASSUME TypeOK, NEW day \in Int, FinalizeDaily(day) PROVE energy' \subseteq DayRow
<1> DEFINE data == QueryHistory(minutes, Power, day * Day, day * Day + Day)
<1>1. \A r \in data : r.ts \in Int
  BY DEF QueryHistory, TypeOK, Row
<1>2. [day |-> day, minutes |-> {r.ts : r \in data}] \in DayRow
  BY <1>1 DEF DayRow
<1> HIDE DEF data
<1>3. energy' = {e \in energy : e.day # day} \cup {[day |-> day, minutes |-> {r.ts : r \in data}]}
  BY DEF FinalizeDaily, data
<1> QED BY <1>2, <1>3 DEF TypeOK

LEMMA RollupType == ASSUME TypeOK, Flush15m PROVE quarters' \subseteq Row
<1> DEFINE start == Floor(now, Quarter) - Quarter
           data(key) == QueryHistory(minutes, key, start, start + Quarter)
           new == {[ts |-> start, key |-> k, at |-> ticks,
                    samples |-> UNION {r.samples : r \in data(k)}] :
                     k \in {key \in Keys : data(key) # {}}}
<1>1. start \in Int
  BY AggregatorAssumption DEF TypeOK, Floor
<1>2. ASSUME NEW k \in Keys, data(k) # {}
      PROVE  UNION {r.samples : r \in data(k)} \in (SUBSET Sample) \ {{}}
  <2>1. data(k) \subseteq Row
    BY DEF QueryHistory, TypeOK
  <2>2. \A r \in data(k) : r.samples \subseteq Sample /\ r.samples # {}
    BY <2>1 DEF Row
  <2> HIDE DEF data
  <2> QED BY <1>2, <2>2
<1>3. new \subseteq Row
  <2> SUFFICES ASSUME NEW k \in Keys, data(k) # {}
      PROVE  [ts |-> start, key |-> k, at |-> ticks,
              samples |-> UNION {r.samples : r \in data(k)}] \in Row
    OBVIOUS
  <2>1. UNION {r.samples : r \in data(k)} \in (SUBSET Sample) \ {{}} /\ ticks \in Nat
    BY <1>2 DEF TypeOK
  <2> HIDE DEF data, start
  <2> QED BY <1>1, <2>1 DEF Row
<1>4. quarters' \subseteq quarters \cup new
  BY DEF Flush15m, Upsert
<1> QED BY <1>3, <1>4 DEF TypeOK

LEMMA TypeStep == TypeOK /\ [Next]_vars => TypeOK'
<1> SUFFICES ASSUME TypeOK, [Next]_vars PROVE TypeOK'
  OBVIOUS
<1> USE DEF clock, bucket, history, registry
<1>0. DayOf(now) \in Int /\ Floor(now, Minute) \in Int /\ NoSamples \in [Keys -> SUBSET Sample]
      /\ NoReading \in [Keys -> Int]
  BY FloorType DEF TypeOK, NoSamples, NoReading
<1>1. ASSUME Flush1m PROVE minutes' \subseteq Row /\ buckets' = NoSamples /\ current' = current
  BY <1>1, FlushedType DEF Flush1m, Flushed
<1>2. CASE Tick
  <2>1. now' \in Int /\ jumped' \in BOOLEAN /\ ticks' \in Nat /\ elapsed' \in Nat /\ pc' = "collecting"
    BY <1>2, AggregatorAssumption DEF TypeOK, Tick
  <2>2. reading' \in [Keys -> Int] /\ calls' \subseteq Keys
    BY <1>2, <2>1 DEF TypeOK, Tick
  <2>3. UNCHANGED <<bucket, lastDay, minutes, quarters, energy, history>>
    BY <1>2 DEF Tick
  <2> QED BY <2>1, <2>2, <2>3 DEF TypeOK
<1>3. CASE CollectorFlush
  BY <1>0, <1>1, <1>3 DEF TypeOK, CollectorFlush
<1>4. CASE DayBoundary
  <2>1. energy' \subseteq DayRow
    BY <1>4, FinalizeType DEF DayBoundary, TypeOK
  <2> QED BY <1>0, <1>4, <2>1 DEF TypeOK, DayBoundary
<1>5. ASSUME NEW key \in Keys, Accumulate(key) PROVE TypeOK'
  <2>1. /\ pc' = pc /\ calls' = calls \ {key} /\ DOMAIN buckets' = Keys
        /\ minutes' = IF Turn(key) THEN Flushed ELSE minutes
        /\ \A k \in Keys : buckets'[k] = (IF Turn(key) THEN {} ELSE buckets[k]) \cup
                                        (IF k = key THEN {LastSample(key)} ELSE {})
        /\ taken' = taken \cup {LastSample(key)} /\ current' = Floor(reading[key], Minute)
        /\ UNCHANGED <<clock, elapsed, reading, lastDay, quarters, energy, crashed, firstDay>>
    BY <1>5, AccumulateUnfolded
  <2>2. LastSample(key) \in Sample
    BY LastSampleType
  <2>3. buckets' \in [Keys -> SUBSET Sample]
    <3>1. \A k \in Keys : buckets[k] \subseteq Sample
      BY DEF TypeOK
    <3>2. \A k \in Keys : buckets'[k] \subseteq Sample
      BY <2>1, <2>2, <3>1
    <3>3. buckets' = [k \in Keys |-> buckets'[k]]
      BY <1>5 DEF Accumulate, NoSamples, TypeOK
    <3> QED BY <3>2, <3>3
  <2>4. taken' \subseteq Sample
    BY <2>1, <2>2 DEF TypeOK
  <2>5. minutes' \subseteq Row
    BY <2>1, FlushedType DEF TypeOK
  <2>6. current' \in Int
    BY <2>1, FloorType DEF TypeOK
  <2> QED BY <2>1, <2>3, <2>4, <2>5, <2>6 DEF TypeOK
<1>6. CASE Flush15m
  <2>1. quarters' \subseteq Row
    BY <1>6, RollupType
  <2>2. pc' = "asleep"
        /\ UNCHANGED <<clock, elapsed, registry, bucket, lastDay, minutes, energy, history>>
    BY <1>6 DEF Flush15m
  <2> QED BY <2>1, <2>2 DEF TypeOK
<1>7. CASE NoRollup \/ Collected
  BY <1>7 DEF TypeOK, NoRollup, Collected
<1>8. CASE Start
  BY <1>0, <1>8 DEF TypeOK, Start
<1>9. CASE Wait
  BY <1>9 DEF TypeOK, Wait
<1>10. CASE Stop
  BY <1>10 DEF TypeOK, Stop
<1>11. CASE FinalFlush
  BY <1>0, <1>1, <1>11 DEF TypeOK, FinalFlush
<1>12. CASE FinalDaily
  <2>1. energy' \subseteq DayRow
    BY <1>0, <1>12, FinalizeType DEF FinalDaily
  <2> QED BY <1>0, <1>12, <2>1 DEF TypeOK, FinalDaily
<1>13. CASE Crash
  <2>1. crashed' \subseteq Sample
    BY <1>13 DEF Crash, TypeOK
  <2> QED BY <1>0, <1>13, <2>1 DEF TypeOK, Crash
<1>14. CASE UNCHANGED vars
  BY <1>14 DEF TypeOK, vars
<1> QED
  BY <1>2, <1>3, <1>4, <1>5, <1>6, <1>7, <1>8, <1>9, <1>10, <1>11, <1>12, <1>13, <1>14
  DEF Next

\* The types of what the aggregator computes: in particular a rollup row is never made
\* of no samples, so average, minimum and maximum have something to be computed from.
THEOREM TypeCorrect == Spec => []TypeOK
BY TypeInit, TypeStep, PTL DEF Spec

-----------------------------------------------------------------------------
(* Every sample's fate, action by action.                                  *)

\* The invariant but for its types and numbers.
Fate == BucketsHoldTheirMinute /\ RowsHoldTheirMinute /\ SamplesInOrder /\ LossesExplained

LEMMA FateInit == Init => Numbered /\ Fate
<1> SUFFICES ASSUME Init PROVE Numbered /\ Fate
  OBVIOUS
<1>1. Numbered
  BY AggregatorAssumption DEF Init, Numbered, NoReading
<1>2. \A k \in Keys : buckets[k] = {}
  BY DEF Init, NoSamples
<1>3. minutes = {} /\ taken = {}
  BY DEF Init
<1> QED BY <1>1, <1>2, <1>3
    DEF Fate, BucketsHoldTheirMinute, RowsHoldTheirMinute, SamplesInOrder, LossesExplained

LEMMA NumberedStep == TypeOK /\ Numbered /\ [Next]_vars => Numbered'
<1> SUFFICES ASSUME TypeOK, Numbered, [Next]_vars PROVE Numbered'
  OBVIOUS
<1> USE DEF Numbered, clock, bucket, registry
<1>1. CASE Tick
  <2>1. now' >= Minute /\ now' \in Int /\ pc' # "closing" /\ UNCHANGED <<current, buckets>>
    BY <1>1, AggregatorAssumption DEF TypeOK, Tick
  <2>2. PICK fresh \in Batches :
          reading' = [key \in Keys |-> IF key \in fresh THEN now' ELSE reading[key]]
    BY <1>1 DEF Tick
  <2>3. \A k \in Keys : reading'[k] = 0 \/ reading'[k] >= Minute
    BY <2>1, <2>2
  <2>4. \A k \in calls' : reading'[k] # 0
    BY <1>1 DEF Tick
  <2> QED BY <2>1, <2>3, <2>4
<1>2. CASE CollectorFlush
  BY <1>2 DEF CollectorFlush, Flush1m
<1>3. CASE FinalFlush
  BY <1>3 DEF FinalFlush, Flush1m
<1>4. ASSUME NEW key \in Keys, Accumulate(key) PROVE Numbered'
  <2>1. /\ now' = now /\ pc' = "collecting" /\ reading' = reading
        /\ key \in calls /\ calls' \subseteq calls /\ current' = Floor(reading[key], Minute)
    BY <1>4, AccumulateUnfolded
  <2>2. reading[key] \in Int /\ reading[key] >= Minute
    BY <2>1 DEF TypeOK
  <2>3. current' # 0
    BY <2>1, <2>2, FloorPositive
  <2> QED BY <2>1, <2>3
<1>5. CASE Wait
  BY <1>5, AggregatorAssumption DEF TypeOK, Wait
<1>6. CASE FinalDaily
  BY <1>6 DEF FinalDaily, NoReading
<1>7. CASE Crash
  BY <1>7 DEF Crash, NoReading
<1>8. CASE Collected \/ DayBoundary \/ Flush15m \/ NoRollup \/ Start \/ Stop \/ UNCHANGED vars
  BY <1>8 DEF Collected, DayBoundary, Flush15m, NoRollup, Start, Stop, vars
<1> QED BY <1>1, <1>2, <1>3, <1>4, <1>5, <1>6, <1>7, <1>8 DEF Next

\* flush_1m, in a tick or at shutdown.
LEMMA FateFlush ==
  ASSUME TypeOK, Fate, Flush1m, UNCHANGED <<ticks, taken, crashed, calls>>
  PROVE  Fate'
<1>1. minutes' = Flushed /\ current' = current /\ \A k \in Keys : buckets'[k] = {}
  BY DEF Flush1m, Flushed, NoSamples
<1>2. BucketsHoldTheirMinute'
  BY <1>1 DEF BucketsHoldTheirMinute
<1>3. RowsHoldTheirMinute'
  BY <1>1, FlushedMinutes DEF Fate, RowsHoldTheirMinute
<1>4. SamplesInOrder'
  <2>1. \A r \in minutes' : r.samples \subseteq taken' /\ r.key \in Keys
    BY <1>1, FlushedSamples, FlushedType DEF Fate, Row
  <2> QED BY <1>1, <2>1 DEF Fate, SamplesInOrder
<1>5. LossesExplained'
  BY <1>1, FlushedLosses DEF Fate, LossesExplained, Replaced
<1> QED BY <1>2, <1>3, <1>4, <1>5 DEF Fate

\* A sample goes to the bucket of its metric; of another minute, after the others have
\* gone to metric_1m.
LEMMA FateAccumulate ==
  ASSUME TypeOK, Numbered, Fate, NEW key \in Keys, Accumulate(key)
  PROVE  Fate'
<1> DEFINE new == LastSample(key)
<1>1. /\ key \in calls /\ calls' = calls \ {key}
      /\ minutes' = IF Turn(key) THEN Flushed ELSE minutes
      /\ \A k \in Keys : buckets'[k] = (IF Turn(key) THEN {} ELSE buckets[k]) \cup
                                      (IF k = key THEN {new} ELSE {})
      /\ taken' = taken \cup {new} /\ current' = Floor(reading[key], Minute)
      /\ ticks' = ticks /\ crashed' = crashed
  BY AccumulateUnfolded DEF clock
<1>2. new \in Sample /\ new.key = key /\ new.ts = reading[key] /\ new.n = ticks /\ ticks \in Nat
  BY LastSampleType DEF TypeOK
<1> HIDE DEF new
<1>3. \A s \in taken : s \in Sample /\ s.n \in Nat /\ s.n <= ticks /\ (s.key = key => s.n < ticks)
  BY <1>1 DEF Fate, SamplesInOrder, TypeOK, Sample
<1>4. \A k \in Keys : \A s \in buckets'[k] :
        (s = new /\ k = key) \/ (s \in buckets[k] /\ ~ Turn(key))
  BY <1>1
<1>5. BucketsHoldTheirMinute'
  <2> SUFFICES ASSUME NEW k \in Keys, NEW s \in buckets'[k]
      PROVE  s.key = k /\ Floor(s.ts, Minute) = current'
    BY DEF BucketsHoldTheirMinute
  <2>1. CASE s = new /\ k = key
    BY <1>1, <1>2, <2>1
  <2>2. CASE s \in buckets[k] /\ ~ Turn(key)
    <3>1. current # 0
      BY <2>2 DEF Numbered, NoSamples
    <3>2. current' = current
      BY <1>1, <2>2, <3>1 DEF Turn
    <3> QED BY <2>2, <3>2 DEF Fate, BucketsHoldTheirMinute
  <2> QED BY <1>4, <2>1, <2>2
<1>6. RowsHoldTheirMinute'
  BY <1>1, FlushedMinutes DEF Fate, RowsHoldTheirMinute
<1>7. \A r \in minutes' : /\ r.samples \subseteq taken /\ r.key \in Keys
                         /\ \A s \in r.samples : s.key = r.key
  <2>1. \A q \in minutes : q.samples \subseteq taken /\ q.key \in Keys
    BY DEF Fate, SamplesInOrder, TypeOK, Row
  <2>2. \A q \in Flushed : q.samples \subseteq taken /\ q.key \in Keys
    BY FlushedSamples, FlushedType DEF Fate, Row
  <2> QED BY <1>1, <1>6, <2>1, <2>2 DEF RowsHoldTheirMinute
<1>8. SamplesInOrder'
  <2>1. \A s \in taken' : s.n <= ticks' /\ (s.key \in calls' => s.n < ticks')
    BY <1>1, <1>2, <1>3 DEF Fate, SamplesInOrder
  <2>2. \A k \in Keys : buckets'[k] \subseteq taken'
    BY <1>1, <1>4 DEF Fate, SamplesInOrder
  <2>3. ASSUME NEW r \in minutes', NEW s \in r.samples, NEW b \in buckets'[r.key]
        PROVE  s.n < b.n
    <3>1. r.key \in Keys /\ s \in taken /\ s.key = r.key
      BY <1>7, <2>3
    <3>2. CASE b = new /\ r.key = key
      BY <1>2, <1>3, <3>1, <3>2
    <3>3. CASE b \in buckets[r.key] /\ ~ Turn(key)
      BY <1>1, <2>3, <3>3 DEF Fate, SamplesInOrder
    <3> QED BY <1>4, <2>3, <3>1, <3>2, <3>3
  <2> QED BY <1>1, <1>7, <2>1, <2>2, <2>3 DEF SamplesInOrder
<1>9. LossesExplained'
  <2> SUFFICES ASSUME NEW s \in taken' \ crashed'
      PROVE  \/ s \in buckets'[s.key]
             \/ \E r \in minutes' : s \in r.samples
             \/ \E r \in minutes' :
                  /\ r.key = s.key /\ r.ts = Floor(s.ts, Minute)
                  /\ \E later \in r.samples : later.n > s.n
    BY DEF LossesExplained, Replaced
  <2>1. CASE s = new
    BY <1>1, <1>2, <2>1
  <2>2. CASE s \in taken /\ Turn(key)
    BY <1>1, <2>2, FlushedLosses DEF Fate
  <2>3. CASE s \in taken /\ ~ Turn(key)
    <3>1. s.key \in Keys
      BY <1>3, <2>3 DEF Sample
    <3> QED BY <1>1, <2>3, <3>1 DEF Fate, LossesExplained, Replaced
  <2> QED BY <1>1, <2>1, <2>2, <2>3
<1> QED BY <1>5, <1>6, <1>8, <1>9 DEF Fate

\* A crash takes what the buckets hold, and nothing else.
LEMMA FateCrash == ASSUME TypeOK, Fate, Crash PROVE Fate'
<1>1. /\ \A k \in Keys : buckets'[k] = {}
      /\ crashed' = crashed \cup UNION {buckets[k] : k \in Keys}
      /\ minutes' = minutes /\ taken' = taken /\ ticks' = ticks /\ calls' = {}
  BY DEF Crash, NoSamples, clock
<1>2. \A r \in minutes : r.key \in Keys
  BY DEF TypeOK, Row
<1>3. SamplesInOrder'
  BY <1>1, <1>2 DEF Fate, SamplesInOrder
<1>4. LossesExplained'
  <2> SUFFICES ASSUME NEW s \in taken \ crashed'
      PROVE  (\E r \in minutes : s \in r.samples) \/ Replaced(s)
    BY <1>1 DEF LossesExplained, Replaced
  <2>1. s.key \in Keys
    BY DEF TypeOK, Sample
  <2>2. s \notin crashed /\ s \notin buckets[s.key]
    BY <1>1, <2>1
  <2> QED BY <2>2 DEF Fate, LossesExplained
<1> QED BY <1>1, <1>3, <1>4 DEF Fate, BucketsHoldTheirMinute, RowsHoldTheirMinute

LEMMA FateElsewhere ==
  ASSUME TypeOK, Fate, UNCHANGED <<buckets, minutes, taken, crashed>>,
         ticks' \in Nat, ticks' > ticks \/ (ticks' = ticks /\ calls' \subseteq calls),
         (\A k \in Keys : buckets[k] = {}) \/ current' = current
  PROVE  Fate'
<1>1. BucketsHoldTheirMinute' /\ RowsHoldTheirMinute'
  BY DEF Fate, BucketsHoldTheirMinute, RowsHoldTheirMinute
<1>2. \A s \in taken : s.n \in Nat
  BY DEF TypeOK, Sample
<1>3. \A s \in taken' : s.n <= ticks' /\ (s.key \in calls' => s.n < ticks')
  BY <1>2 DEF Fate, SamplesInOrder, TypeOK
<1>4. SamplesInOrder'
  BY <1>3 DEF Fate, SamplesInOrder
<1>5. LossesExplained'
  BY DEF Fate, LossesExplained, Replaced
<1> QED BY <1>1, <1>4, <1>5 DEF Fate

LEMMA FateStep == TypeOK /\ Numbered /\ Fate /\ [Next]_vars => Fate'
<1> SUFFICES ASSUME TypeOK, Numbered, Fate, [Next]_vars PROVE Fate'
  OBVIOUS
<1> USE DEF clock, bucket, history, registry
<1>0. ticks \in Nat
  BY DEF TypeOK
<1>1. CASE Tick
  BY <1>0, <1>1, FateElsewhere DEF Tick
<1>2. CASE Wait
  BY <1>0, <1>2, FateElsewhere DEF Wait
<1>3. CASE CollectorFlush
  BY <1>3, FateFlush DEF CollectorFlush
<1>4. CASE FinalFlush
  BY <1>4, FateFlush DEF FinalFlush
<1>5. ASSUME NEW key \in Keys, Accumulate(key) PROVE Fate'
  BY <1>5, FateAccumulate
<1>6. CASE FinalDaily
  <2>1. \A k \in Keys : buckets[k] = {}
    BY <1>6 DEF FinalDaily, Numbered, NoSamples
  <2> QED BY <1>0, <1>6, <2>1, FateElsewhere DEF FinalDaily
<1>7. CASE Crash
  BY <1>7, FateCrash
<1>8. CASE Collected \/ DayBoundary \/ Flush15m \/ NoRollup \/ Start \/ Stop
  <2>1. UNCHANGED <<buckets, minutes, taken, crashed, ticks, current, calls>>
    BY <1>8 DEF Collected, DayBoundary, Flush15m, NoRollup, Start, Stop
  <2> QED BY <1>0, <2>1, FateElsewhere
<1>9. CASE UNCHANGED vars
  BY <1>0, <1>9, FateElsewhere DEF vars
<1> QED BY <1>1, <1>2, <1>3, <1>4, <1>5, <1>6, <1>7, <1>8, <1>9 DEF Next

-----------------------------------------------------------------------------
(* The theorems.                                                           *)

LEMMA Inductive == Spec => []Inv
<1>1. Init => Inv
  BY TypeInit, FateInit DEF Inv, Fate
<1>2. Inv /\ [Next]_vars => Inv'
  BY TypeStep, NumberedStep, FateStep DEF Inv, Fate
<1> QED BY <1>1, <1>2, PTL DEF Spec

\* Whatever the second in which aggregator_flush runs, the service is stopped or the clock
\* is set, a 1-minute row holds the samples of its metric and minute only.
THEOREM RowsCorrect == Spec => []RowsHoldTheirMinute
<1>1. Inv => RowsHoldTheirMinute
  BY DEF Inv
<1> QED BY <1>1, Inductive, PTL

\* A sample is lost with the buckets of a crashed process, or replaced in its row by a
\* later part of its minute: in no other way.
THEOREM LossesAccounted == Spec => []LossesExplained
<1>1. Inv => LossesExplained
  BY DEF Inv
<1> QED BY <1>1, Inductive, PTL

-----------------------------------------------------------------------------
(* The rows of a quarter and of a day.                                     *)

\* A day is a number of minutes below the limit of query_history (1440, and the default
\* is 10000), and the flush that looks at the date comes at least once a day (it comes
\* every half minute). Only the theorems of this section need it.
DaysFit ==
  /\ Quarter \in 1..Day /\ FlushEvery <= Day
  /\ \E n \in Nat : Day = n * Minute /\ n < Limit

LEMMA Multiples ==
  ASSUME NEW m \in Nat, m >= 1, NEW a \in Int, NEW b \in Int
  PROVE  /\ a * m \in Int /\ b * m \in Int /\ (a + 1) * m = a * m + m
         /\ a < b => a * m + m <= b * m
         /\ a <= b => a * m <= b * m
OBVIOUS

LEMMA Division ==
  ASSUME NEW m \in Nat, m >= 1, NEW t \in Int
  PROVE  /\ t \div m \in Int /\ (t % m) \in Int /\ 0 <= (t % m) /\ (t % m) < m
         /\ t = (t \div m) * m + (t % m)
OBVIOUS

\* A bucket's number is the multiple of its length next below the second.
LEMMA Floors ==
  ASSUME NEW m \in Nat, m >= 1, NEW t \in Int
  PROVE  /\ Floor(t, m) \in Int /\ Floor(t, m) <= t /\ t < Floor(t, m) + m
         /\ \E k \in Int : Floor(t, m) = k * m
<1> DEFINE k == t \div m
           left == t % m
<1>1. k \in Int /\ left \in Int /\ 0 <= left /\ left < m /\ t = k * m + left /\ k * m \in Int
  BY Division, Multiples
<1> HIDE DEF k
<1>2. Floor(t, m) = t - left
  BY DEF Floor
<1> HIDE DEF left
<1>3. Floor(t, m) = k * m
  BY <1>1, <1>2
<1> QED BY <1>1, <1>2, <1>3

LEMMA DayBounds ==
  ASSUME NEW t \in Int, NEW d \in Int
  PROVE  /\ DayOf(t) \in Int /\ d * Day \in Int /\ (d + 1) * Day = d * Day + Day
         /\ DayOf(t) = d <=> d * Day <= t /\ t < d * Day + Day
         /\ d <= DayOf(t) <=> d * Day <= t
         /\ DayOf(t) < d <=> t < d * Day
<1> DEFINE e == DayOf(t)
           left == t % Day
<1>1. Day \in Nat /\ Day >= 1
  BY AggregatorAssumption
<1>2. e \in Int /\ left \in Int /\ 0 <= left /\ left < Day /\ t = e * Day + left
  BY <1>1, Division DEF DayOf
<1> HIDE DEF e, left
<1>3. /\ e * Day \in Int /\ d * Day \in Int /\ (d + 1) * Day = d * Day + Day
      /\ d < e => d * Day + Day <= e * Day
      /\ e < d => e * Day + Day <= d * Day
  BY <1>1, <1>2, Multiples
<1> DEFINE D == d * Day
           E == e * Day
<1> HIDE DEF D, E
<1>4. /\ D \in Int /\ E \in Int /\ t = E + left /\ (d = e => D = E)
      /\ (d < e => D + Day <= E) /\ (e < d => E + Day <= D)
  BY <1>2, <1>3 DEF D, E
<1>5. /\ e = d <=> D <= t /\ t < D + Day
      /\ d <= e <=> D <= t
      /\ e < d <=> t < D
  BY <1>1, <1>2, <1>4
<1> QED BY <1>2, <1>3, <1>5 DEF D, e

\* Midnight is the start of a minute.
LEMMA FloorKeepsDay ==
  ASSUME DaysFit, NEW t \in Int, NEW d \in Int, d * Day <= t
  PROVE  d * Day <= Floor(t, Minute)
<1>1. Minute \in Nat /\ Minute >= 1
  BY AggregatorAssumption
<1>2. PICK n \in Nat : Day = n * Minute
  BY DEF DaysFit
<1>3. PICK k \in Int : Floor(t, Minute) = k * Minute
  BY <1>1, Floors
<1>4. d * n \in Int /\ d * Day = (d * n) * Minute
  BY <1>1, <1>2
<1>5. k < d * n => k * Minute + Minute <= (d * n) * Minute
  BY <1>1, <1>4, Multiples
<1>6. d * n <= k => (d * n) * Minute <= k * Minute
  BY <1>1, <1>4, Multiples
<1>7. t < k * Minute + Minute /\ k * Minute \in Int
  BY <1>1, <1>3, Floors
<1>8. ~ (k < d * n)
  BY <1>1, <1>4, <1>5, <1>7
<1> QED BY <1>3, <1>4, <1>6, <1>8

\* metric_1m has one row for a metric and a minute: its primary key.
OneRowEach == \A r, s \in minutes : r.key = s.key /\ r.ts = s.ts => r = s

LEMMA RowsStartMinutes ==
  ASSUME TypeOK, RowsHoldTheirMinute, NEW r \in minutes
  PROVE  /\ r.ts \in Int /\ r.key \in Keys
         /\ \A s \in r.samples : s.ts \in Int /\ r.ts <= s.ts /\ s.ts < r.ts + Minute
         /\ \E k \in Int : r.ts = k * Minute
<1>1. r \in Row
  BY DEF TypeOK
<1>2. PICK s \in r.samples : TRUE
  BY <1>1 DEF Row
<1>3. \A q \in r.samples : q.ts \in Int /\ r.ts = Floor(q.ts, Minute)
  BY <1>1 DEF Row, Sample, RowsHoldTheirMinute
<1>4. Minute \in Nat /\ Minute >= 1
  BY AggregatorAssumption
<1>5. \A t \in Int : /\ Floor(t, Minute) <= t /\ t < Floor(t, Minute) + Minute
                     /\ \E k \in Int : Floor(t, Minute) = k * Minute
  BY <1>4, Floors
<1> QED BY <1>1, <1>2, <1>3, <1>5 DEF Row

\* query_history leaves out no row of a day, or of less.
LEMMA AllRowsFound ==
  ASSUME DaysFit, TypeOK, RowsHoldTheirMinute, OneRowEach, NEW key,
         NEW lo \in Int, NEW hi \in Int, hi <= lo + Day,
         NEW r \in minutes, r.key = key, lo <= r.ts, r.ts <= hi
  PROVE  r \in QueryHistory(minutes, key, lo, hi)
<1> DEFINE hits == {q \in minutes : q.key = key /\ lo <= q.ts /\ q.ts <= hi}
           before == {q \in hits : q.ts < r.ts}
<1>1. PICK n \in Nat : Day = n * Minute /\ n < Limit
  BY DEF DaysFit
<1>2. Minute \in Nat /\ Minute >= 1 /\ Limit \in Nat /\ Day \in Nat
  BY AggregatorAssumption
<1>3. PICK last \in Int : r.ts = last * Minute
  BY RowsStartMinutes
<1> DEFINE number == [q \in before |-> CHOOSE k \in Int : q.ts = k * Minute]
<1>4. \A q \in before : number[q] \in Int /\ q.ts = number[q] * Minute
  BY RowsStartMinutes
<1>5. ASSUME NEW q \in before PROVE number[q] \in (last - n)..(last - 1)
  <2> DEFINE k == number[q]
  <2>1. k \in Int /\ q.ts = k * Minute
    BY <1>4
  <2>2. /\ q.ts < r.ts /\ q.ts \in Int /\ r.ts \in Int /\ lo <= q.ts /\ r.ts <= lo + Day
        /\ q \in minutes
    <3>1. q \in minutes /\ lo <= q.ts /\ q.ts < r.ts
      OBVIOUS
    <3>2. q.ts \in Int /\ r.ts \in Int
      BY <3>1, RowsStartMinutes
    <3> HIDE DEF before
    <3>3. r.ts <= lo + Day
      BY <1>2, <3>2
    <3> QED BY <3>1, <3>2, <3>3
  <2> HIDE DEF k, before
  <2>3. last <= k => last * Minute <= k * Minute
    BY <1>2, <2>1, Multiples
  <2>4. k + n < last => (k + n) * Minute + Minute <= last * Minute
    BY <1>1, <1>2, <2>1, Multiples
  <2>5. (k + n) * Minute = k * Minute + n * Minute
    BY <1>1, <1>2, <2>1
  <2>6. ~ (last <= k)
    BY <1>3, <2>1, <2>2, <2>3
  <2>7. ~ (k + n < last)
    BY <1>1, <1>2, <1>3, <2>1, <2>2, <2>4, <2>5
  <2>8. k \in (last - n)..(last - 1)
    BY <1>1, <2>1, <2>6, <2>7
  <2> QED BY <2>8 DEF k
<1>6. ASSUME NEW p \in before, NEW q \in before, number[p] = number[q] PROVE p = q
  <2>1. p \in minutes /\ q \in minutes /\ p.key = q.key
    OBVIOUS
  <2>2. p.ts = number[p] * Minute /\ q.ts = number[q] * Minute
    BY <1>4
  <2> HIDE DEF before, number
  <2>3. p.ts = q.ts
    BY <1>6, <2>2
  <2> QED BY <2>1, <2>3 DEF OneRowEach
<1>7. number \in [before -> (last - n)..(last - 1)]
  BY <1>5
<1> HIDE DEF before, number
<1>8. number \in Injection(before, (last - n)..(last - 1))
  BY <1>6, <1>7, Fun_IsInj
<1>9. /\ IsFiniteSet((last - n)..(last - 1))
      /\ Cardinality((last - n)..(last - 1)) = IF last - n > last - 1 THEN 0 ELSE n
  <2>1. last - n \in Int /\ last - 1 \in Int /\ (last - 1) - (last - n) + 1 = n
    BY <1>1
  <2> QED BY <2>1, FS_Interval
<1>10. IsFiniteSet(before) /\ Cardinality(before) <= Cardinality((last - n)..(last - 1))
  BY <1>8, <1>9, FS_Injection
<1>11. Cardinality(before) \in Nat
  BY <1>10, FS_CardinalityType
<1>12. Cardinality(before) < Limit
  BY <1>1, <1>2, <1>9, <1>10, <1>11
<1> QED BY <1>12 DEF QueryHistory, before

-----------------------------------------------------------------------------
(* The 15-minute rows.                                                     *)

Rolled ==
  /\ OneRowEach
  /\ \A q \in quarters : q.at <= ticks
  /\ RollupsOfTheirQuarter

LEMMA FlushedOneEach == ASSUME TypeOK, OneRowEach, minutes' = Flushed PROVE OneRowEach'
<1> SUFFICES ASSUME NEW r \in Flushed, NEW s \in Flushed, r.key = s.key, r.ts = s.ts
             PROVE  r = s
  BY DEF OneRowEach
<1>1. \A q \in Flushed : q \in Aggregates \/ (q \in minutes /\
        \A a \in Aggregates : q.ts # a.ts \/ q.key # a.key)
  BY DEF Flushed, Upsert
<1>2. CASE r \in Aggregates /\ s \in Aggregates
  BY <1>2 DEF Aggregates
<1>3. CASE ~ (r \in Aggregates /\ s \in Aggregates)
  <2>1. r \notin Aggregates /\ s \notin Aggregates
    BY <1>1, <1>3
  <2> QED BY <1>1, <2>1 DEF OneRowEach
<1> QED BY <1>2, <1>3

\* A row written after the rollup is stamped so; flush_1m changes no older one.
LEMMA RolledKept ==
  ASSUME TypeOK, Rolled, minutes' = minutes \/ minutes' = Flushed, quarters' = quarters,
         ticks' \in Nat, ticks' >= ticks
  PROVE  Rolled'
<1>1. OneRowEach'
  <2>1. minutes' = minutes => OneRowEach'
    BY DEF Rolled, OneRowEach
  <2> QED BY <2>1, FlushedOneEach DEF Rolled
<1>2. \A q \in quarters : q.at \in Nat /\ q.at <= ticks
  BY DEF TypeOK, Row, Rolled
<1>3. \A q \in quarters' : q.at <= ticks'
  BY <1>2 DEF TypeOK
<1>4. \A m \in minutes' : m \in minutes \/ m.at = ticks
  BY FlushedFrom DEF RowOf
<1>5. \A q \in quarters : \A m \in minutes' : m.at < q.at => m \in minutes
  BY <1>2, <1>4 DEF TypeOK
<1>6. RollupsOfTheirQuarter'
  BY <1>5 DEF Rolled, RollupsOfTheirQuarter
<1> QED BY <1>1, <1>3, <1>6 DEF Rolled

\* flush_15m finds all rows of the quarter: the limit leaves none of them out.
LEMMA RolledUp ==
  ASSUME DaysFit, TypeOK, RowsHoldTheirMinute, Rolled, Flush15m PROVE Rolled'
<1> DEFINE start == Floor(now, Quarter) - Quarter
           data(key) == QueryHistory(minutes, key, start, start + Quarter)
           rollup(k) == [ts |-> start, key |-> k, at |-> ticks,
                         samples |-> UNION {r.samples : r \in data(k)}]
<1>1. minutes' = minutes /\ ticks' = ticks
  BY DEF Flush15m, clock
<1>2. \A q \in quarters' : q \in quarters \/ \E k \in Keys : q = rollup(k)
  BY DEF Flush15m, Upsert
<1>3. OneRowEach'
  BY <1>1 DEF Rolled, OneRowEach
<1>4. \A q \in quarters' : q.at <= ticks'
  BY <1>1, <1>2 DEF Rolled, TypeOK
<1>5. start \in Int /\ Quarter \in Nat /\ Quarter <= Day /\ Day \in Nat /\ Minute \in Nat
  BY AggregatorAssumption DEF TypeOK, Floor, DaysFit
<1> HIDE DEF start
<1>6. ASSUME NEW k \in Keys
      PROVE  /\ \A s \in rollup(k).samples :
                  rollup(k).ts <= s.ts /\ s.ts < rollup(k).ts + Quarter + Minute
             /\ \A m \in minutes :
                  (m.key = rollup(k).key /\ rollup(k).ts <= m.ts /\ m.ts < rollup(k).ts + Quarter)
                    => m.samples \subseteq rollup(k).samples
  <2>1. rollup(k).ts = start /\ rollup(k).key = k
        /\ rollup(k).samples = UNION {r.samples : r \in data(k)}
    OBVIOUS
  <2>2. ASSUME NEW r \in data(k), NEW s \in r.samples
        PROVE  start <= s.ts /\ s.ts < start + Quarter + Minute
    <3>1. r \in minutes /\ start <= r.ts /\ r.ts <= start + Quarter
      BY DEF QueryHistory
    <3>2. r.ts \in Int /\ s.ts \in Int /\ r.ts <= s.ts /\ s.ts < r.ts + Minute
      BY <3>1, RowsStartMinutes
    <3> HIDE DEF data
    <3> QED BY <1>5, <3>1, <3>2
  <2>3. ASSUME NEW m \in minutes, m.key = k, start <= m.ts, m.ts < start + Quarter
        PROVE  m \in data(k)
    <3>1. m.ts \in Int
      BY RowsStartMinutes
    <3>2. start + Quarter \in Int /\ start + Quarter <= start + Day /\ m.ts <= start + Quarter
      BY <1>5, <2>3, <3>1
    <3> QED BY <1>5, <2>3, <3>2, AllRowsFound DEF Rolled
  <2> HIDE DEF data, rollup
  <2> QED BY <2>1, <2>2, <2>3
<1> HIDE DEF rollup
<1>7. RollupsOfTheirQuarter'
  <2> SUFFICES ASSUME NEW q \in quarters'
      PROVE  /\ \A s \in q.samples : q.ts <= s.ts /\ s.ts < q.ts + Quarter + Minute
             /\ \A m \in minutes :
                  (m.key = q.key /\ q.ts <= m.ts /\ m.ts < q.ts + Quarter /\ m.at < q.at)
                    => m.samples \subseteq q.samples
    BY <1>1 DEF RollupsOfTheirQuarter
  <2>1. CASE q \in quarters
    BY <2>1 DEF Rolled, RollupsOfTheirQuarter
  <2>2. CASE \E k \in Keys : q = rollup(k)
    BY <1>6, <2>2
  <2> QED BY <1>2, <2>1, <2>2
<1> QED BY <1>3, <1>4, <1>7 DEF Rolled

LEMMA RolledStep ==
  ASSUME DaysFit PROVE Inv /\ Rolled /\ [Next]_vars => Rolled'
<1> SUFFICES ASSUME Inv, Rolled, [Next]_vars PROVE Rolled'
  OBVIOUS
<1> USE DEF clock, bucket
<1>0. TypeOK /\ RowsHoldTheirMinute /\ ticks \in Nat
  BY DEF Inv, TypeOK
<1>1. CASE Flush15m
  BY <1>0, <1>1, RolledUp
<1>2. CASE Tick \/ Wait
  BY <1>0, <1>2, RolledKept DEF Tick, Wait
<1>3. CASE CollectorFlush \/ FinalFlush
  BY <1>0, <1>3, RolledKept DEF CollectorFlush, FinalFlush, Flush1m, Flushed
<1>4. ASSUME NEW key \in Keys, Accumulate(key) PROVE Rolled'
  <2>1. /\ minutes' = minutes \/ minutes' = Flushed
        /\ quarters' = quarters /\ ticks' = ticks
    BY <1>0, <1>4, AccumulateUnfolded
  <2> QED BY <1>0, <2>1, RolledKept
<1>5. CASE Collected \/ DayBoundary \/ NoRollup \/ Start \/ Stop \/ FinalDaily \/ Crash
           \/ UNCHANGED vars
  <2>1. UNCHANGED <<minutes, quarters, ticks>>
    BY <1>5 DEF Collected, DayBoundary, NoRollup, Start, Stop, FinalDaily, Crash, vars
  <2> QED BY <1>0, <2>1, RolledKept
<1> QED BY <1>1, <1>2, <1>3, <1>4, <1>5 DEF Next

\* flush_15m: a 15-minute row is computed from all the 1-minute rows of its quarter that
\* there are, each in full, and from no sample outside it but those of the one minute
\* that follows.
THEOREM RollupsComplete == ASSUME DaysFit PROVE Spec => []RollupsOfTheirQuarter
<1>1. Init => Rolled
  BY DEF Init, Rolled, OneRowEach, RollupsOfTheirQuarter
<1>2. Rolled => RollupsOfTheirQuarter
  BY DEF Rolled
<1>3. Inv /\ Rolled /\ [Next]_vars => Rolled'
  BY RolledStep
<1> QED BY <1>1, <1>2, <1>3, Inductive, PTL DEF Spec

-----------------------------------------------------------------------------
(* The day that a midnight ends.                                           *)

\* A row of the metric and of the minute of a second has been written.
WrittenAt(k, t) == \E m \in minutes : m.key = k /\ m.ts = Floor(t, Minute)

\* elapsed_ms of the collector; what was flushed leaves nothing behind, and the samples of
\* a tick are all accumulated before it goes on.
Scheduled ==
  /\ elapsed <= FlushEvery
  /\ pc \notin {"collecting", "flush"} => elapsed < FlushEvery
  /\ pc \in {"down", "boundary"} => buckets = NoSamples
  /\ pc = "down" => elapsed = 0 /\ reading = NoReading
  /\ calls # {} => pc = "collecting"

\* The registry's last sample is in its row or bucket, or its accumulate is yet to come:
\* an old reading is only ever accumulated again into a minute that has its row.
ReadingsKept ==
  \A k \in Keys : reading[k] # 0 =>
    \/ WrittenAt(k, reading[k])
    \/ buckets[k] # {} /\ current = Floor(reading[k], Minute)
    \/ k \in calls /\ reading[k] = now

\* last_day is the day of the last flush: what the buckets hold and the registry may still
\* bring is of that day or the next, or of a minute that has its row.
NearMidnight ==
  (pc # "down" /\ ~ jumped) =>
    /\ lastDay * Day <= now
    /\ pc \in {"asleep", "collecting", "flush", "rollup"} => now - elapsed < lastDay * Day + Day
    /\ pc = "boundary" => now - FlushEvery < lastDay * Day + Day
    /\ \A k \in Keys : \A s \in buckets[k] : lastDay * Day <= s.ts \/ WrittenAt(k, s.ts)
    /\ \A k \in Keys :
         reading[k] # 0 => lastDay * Day <= reading[k] \/ WrittenAt(k, reading[k])

Seen == Scheduled /\ ReadingsKept /\ NearMidnight /\ SeenDaysComplete

\* A row once written is only ever replaced by one of the same metric and minute.
LEMMA WrittenKept ==
  ASSUME TypeOK, minutes' = minutes \/ minutes' = Flushed, NEW k, NEW t, WrittenAt(k, t)
  PROVE  WrittenAt(k, t)'
<1>1. PICK m \in minutes : m.key = k /\ m.ts = Floor(t, Minute)
  BY DEF WrittenAt
<1>2. CASE m \in minutes'
  BY <1>1, <1>2 DEF WrittenAt
<1>3. CASE m \notin minutes'
  <2>1. minutes' = Flushed /\ buckets[k] # {} /\ m.ts = current /\ k \in Keys
    BY <1>1, <1>3, RowKept DEF TypeOK, Row
  <2>2. RowOf(k) \in minutes' /\ RowOf(k).key = k /\ RowOf(k).ts = Floor(t, Minute)
    BY <1>1, <2>1, BucketWritten DEF RowOf
  <2> QED BY <2>2 DEF WrittenAt
<1> QED BY <1>2, <1>3

LEMMA ScheduledStep == TypeOK /\ Numbered /\ Scheduled /\ [Next]_vars => Scheduled'
<1> SUFFICES ASSUME TypeOK, Numbered, Scheduled, [Next]_vars PROVE Scheduled'
  OBVIOUS
<1> USE DEF Scheduled, clock, bucket, registry
<1>0. elapsed \in Nat /\ FlushEvery \in Nat /\ FlushEvery >= 1
  BY AggregatorAssumption DEF TypeOK
<1>1. CASE Tick
  BY <1>0, <1>1 DEF Tick
<1>2. ASSUME NEW key \in Keys, Accumulate(key) PROVE Scheduled'
  BY <1>0, <1>2 DEF Accumulate
<1>3. CASE CollectorFlush \/ FinalFlush
  BY <1>0, <1>3 DEF CollectorFlush, FinalFlush, Flush1m
<1>4. CASE Collected
  BY <1>0, <1>4 DEF Collected
<1>5. CASE DayBoundary \/ Flush15m \/ NoRollup \/ Start \/ Wait \/ Stop \/ UNCHANGED vars
  BY <1>5 DEF DayBoundary, Flush15m, NoRollup, Start, Wait, Stop, vars
<1>6. CASE FinalDaily \/ Crash
  BY <1>0, <1>6 DEF FinalDaily, Crash, Numbered
<1> QED BY <1>1, <1>2, <1>3, <1>4, <1>5, <1>6 DEF Next

LEMMA ReadingsStep ==
  TypeOK /\ Numbered /\ Scheduled /\ ReadingsKept /\ [Next]_vars => ReadingsKept'
<1> SUFFICES ASSUME TypeOK, Numbered, Scheduled, ReadingsKept, [Next]_vars,
                    NEW k \in Keys, reading'[k] # 0
             PROVE  \/ WrittenAt(k, reading[k])'
                    \/ buckets'[k] # {} /\ current' = Floor(reading'[k], Minute)
                    \/ k \in calls' /\ reading'[k] = now'
  BY DEF ReadingsKept
<1> USE DEF clock, bucket, registry
<1>1. CASE Tick
  <2>1. calls = {} /\ UNCHANGED <<minutes, buckets, current>> /\ k \in calls'
    BY <1>1 DEF Tick, Scheduled
  <2>2. reading'[k] = now' \/ reading'[k] = reading[k]
    BY <1>1 DEF Tick
  <2>3. CASE reading'[k] = reading[k]
    BY <2>1, <2>3 DEF ReadingsKept, WrittenAt
  <2> QED BY <2>1, <2>2, <2>3
<1>2. ASSUME NEW key \in Keys, Accumulate(key)
      PROVE  \/ WrittenAt(k, reading[k])'
             \/ buckets'[k] # {} /\ current' = Floor(reading'[k], Minute)
             \/ k \in calls' /\ reading'[k] = now'
  <2>1. /\ calls' = calls \ {key} /\ reading' = reading /\ now' = now
        /\ minutes' = IF Turn(key) THEN Flushed ELSE minutes
        /\ \A j \in Keys : buckets'[j] = (IF Turn(key) THEN {} ELSE buckets[j]) \cup
                                        (IF j = key THEN {LastSample(key)} ELSE {})
        /\ current' = Floor(reading[key], Minute)
    BY <1>2, AccumulateUnfolded
  <2>2. CASE k = key
    BY <2>1, <2>2
  <2>3. CASE WrittenAt(k, reading[k])
    <3>1. WrittenAt(k, reading[k])' <=> \E m \in minutes' : m.key = k /\ m.ts = Floor(reading[k], Minute)
      BY <2>1 DEF WrittenAt
    <3>2. minutes' = minutes \/ minutes' = Flushed
      BY <2>1
    <3>3. PICK t : t = reading[k]
      OBVIOUS
    <3>4. WrittenAt(k, t)'
      BY <2>3, <3>2, <3>3, WrittenKept
    <3> QED BY <3>1, <3>3, <3>4 DEF WrittenAt
  <2>4. CASE k # key /\ buckets[k] # {} /\ current = Floor(reading[k], Minute)
    <3>1. CASE Turn(key)
      <4>1. RowOf(k) \in minutes' /\ RowOf(k).key = k /\ RowOf(k).ts = Floor(reading'[k], Minute)
        BY <2>1, <2>4, <3>1, BucketWritten DEF RowOf
      <4> QED BY <4>1 DEF WrittenAt
    <3>2. CASE ~ Turn(key)
      <4>1. current # 0
        BY <2>4 DEF Numbered, NoSamples
      <4>2. current' = current
        BY <2>1, <3>2, <4>1 DEF Turn
      <4> QED BY <2>1, <2>4, <3>2, <4>2
    <3> QED BY <3>1, <3>2
  <2>5. CASE k # key /\ k \in calls /\ reading[k] = now
    BY <2>1, <2>5
  <2> QED BY <2>1, <2>2, <2>3, <2>4, <2>5 DEF ReadingsKept
<1>3. CASE CollectorFlush \/ FinalFlush
  <2>1. minutes' = Flushed /\ reading' = reading /\ calls = {}
    BY <1>3 DEF CollectorFlush, FinalFlush, Flush1m, Flushed, Scheduled
  <2>2. CASE WrittenAt(k, reading[k])
    <3>1. PICK t : t = reading[k]
      OBVIOUS
    <3>2. WrittenAt(k, t)'
      BY <2>1, <2>2, <3>1, WrittenKept
    <3> QED BY <2>1, <3>1, <3>2 DEF WrittenAt
  <2>3. CASE buckets[k] # {} /\ current = Floor(reading[k], Minute)
    <3>1. RowOf(k) \in minutes' /\ RowOf(k).key = k /\ RowOf(k).ts = Floor(reading'[k], Minute)
      BY <2>1, <2>3, BucketWritten DEF RowOf
    <3> QED BY <3>1 DEF WrittenAt
  <2> QED BY <2>1, <2>2, <2>3 DEF ReadingsKept
<1>4. CASE Wait
  <2>1. calls = {} /\ UNCHANGED <<minutes, buckets, current, reading, calls>>
    BY <1>4 DEF Wait, Scheduled
  <2> QED BY <2>1 DEF ReadingsKept, WrittenAt
<1>5. CASE FinalDaily \/ Crash
  BY <1>5 DEF FinalDaily, Crash, NoReading
<1>6. CASE Collected \/ DayBoundary \/ Flush15m \/ NoRollup \/ Start \/ Stop \/ UNCHANGED vars
  <2>1. UNCHANGED <<minutes, buckets, current, reading, calls, now>>
    BY <1>6 DEF Collected, DayBoundary, Flush15m, NoRollup, Start, Stop, vars
  <2> QED BY <2>1 DEF ReadingsKept, WrittenAt
<1> QED BY <1>1, <1>2, <1>3, <1>4, <1>5, <1>6 DEF Next

\* The two parts of NearMidnight about samples, under a flush or none.
Recent ==
  /\ \A k \in Keys : \A s \in buckets[k] : lastDay * Day <= s.ts \/ WrittenAt(k, s.ts)
  /\ \A k \in Keys :
       reading[k] # 0 => lastDay * Day <= reading[k] \/ WrittenAt(k, reading[k])

LEMMA RecentKept ==
  ASSUME TypeOK, Recent, minutes' = minutes \/ minutes' = Flushed,
         UNCHANGED <<reading, lastDay>>,
         \A k \in Keys : \A s \in buckets'[k] :
           s \in buckets[k] \/ (s.ts = reading[k] /\ reading[k] # 0)
  PROVE  Recent'
<1>1. ASSUME NEW k \in Keys, NEW t, WrittenAt(k, t)
      PROVE  \E m \in minutes' : m.key = k /\ m.ts = Floor(t, Minute)
  <2>1. WrittenAt(k, t)'
    BY <1>1, WrittenKept
  <2> QED BY <2>1 DEF WrittenAt
<1>2. ASSUME NEW k \in Keys, reading'[k] # 0
      PROVE  (lastDay * Day <= reading[k] \/ WrittenAt(k, reading[k]))'
  <2>1. reading[k] # 0 /\ reading' = reading /\ lastDay' = lastDay
    BY <1>2
  <2>2. CASE lastDay * Day <= reading[k]
    BY <2>1, <2>2
  <2>3. CASE WrittenAt(k, reading[k])
    <3>1. \E m \in minutes' : m.key = k /\ m.ts = Floor(reading[k], Minute)
      BY <1>1, <2>3
    <3> QED BY <2>1, <3>1 DEF WrittenAt
  <2> QED BY <2>1, <2>2, <2>3 DEF Recent
<1>3. ASSUME NEW k \in Keys, NEW s \in buckets'[k]
      PROVE  (lastDay * Day <= s.ts \/ WrittenAt(k, s.ts))'
  <2>1. lastDay * Day <= s.ts \/ WrittenAt(k, s.ts)
    BY <1>3 DEF Recent
  <2>2. CASE lastDay * Day <= s.ts
    BY <2>2
  <2>3. CASE WrittenAt(k, s.ts)
    <3>1. \E m \in minutes' : m.key = k /\ m.ts = Floor(s.ts, Minute)
      BY <1>1, <2>3
    <3> QED BY <3>1 DEF WrittenAt
  <2> QED BY <2>1, <2>2, <2>3
<1> QED BY <1>2, <1>3 DEF Recent

LEMMA NearMidnightStep ==
  TypeOK /\ Numbered /\ Scheduled /\ ReadingsKept /\ NearMidnight /\ [Next]_vars => NearMidnight'
<1> SUFFICES ASSUME TypeOK, Numbered, Scheduled, ReadingsKept, NearMidnight, [Next]_vars,
                    pc' # "down", ~ jumped'
             PROVE  NearMidnight'
  BY DEF NearMidnight
<1> DEFINE midnight == lastDay * Day
           Times == /\ lastDay * Day <= now
                    /\ pc \in {"asleep", "collecting", "flush", "rollup"} =>
                         now - elapsed < lastDay * Day + Day
                    /\ pc = "boundary" => now - FlushEvery < lastDay * Day + Day
<1>a. Times' /\ Recent' => NearMidnight'
  BY DEF NearMidnight, Recent
<1>b. pc # "down" /\ ~ jumped => Times /\ Recent
  BY DEF NearMidnight, Recent
<1>0. /\ elapsed \in Nat /\ FlushEvery \in Nat /\ now \in Int /\ Day \in Nat /\ lastDay \in Int
      /\ midnight \in Int /\ elapsed <= FlushEvery
  BY AggregatorAssumption, DayBounds DEF TypeOK, Scheduled
<1> USE DEF clock, bucket, registry
<1>1. CASE Tick
  <2>1. /\ pc = "asleep" /\ pc' = "collecting" /\ ~ jumped /\ now' = now + 1
        /\ elapsed' = elapsed + 1 /\ lastDay' = lastDay
    <3>1. PICK jump \in Jumps \cup {0} : now' = now + 1 + jump /\ jumped' = (jumped \/ jump # 0)
      BY <1>1 DEF Tick
    <3>2. ~ jumped /\ jump = 0
      BY <3>1
    <3>3. now' = now + 1
      BY <1>0, <3>1, <3>2
    <3> QED BY <1>1, <3>2, <3>3 DEF Tick
  <2>2. midnight <= now /\ now - elapsed < midnight + Day /\ Recent
    BY <1>b, <2>1
  <2>3. midnight <= now + 1 /\ (now + 1) - (elapsed + 1) < midnight + Day
    <3> HIDE DEF midnight
    <3> QED BY <1>0, <2>2
  <2>4. Times'
    BY <2>1, <2>3
  <2>5. Recent'
    <3>1. UNCHANGED <<minutes, buckets, lastDay>>
      BY <1>1 DEF Tick
    <3>2. \A k \in Keys : reading'[k] = reading[k] \/ reading'[k] = now + 1
      BY <1>1, <2>1 DEF Tick
    <3> HIDE DEF Times, midnight
    <3>3. lastDay * Day <= now + 1
      BY <2>3 DEF midnight
    <3>4. ASSUME NEW k \in Keys, reading'[k] # 0
          PROVE  (lastDay * Day <= reading[k] \/ WrittenAt(k, reading[k]))'
      <4>1. CASE reading'[k] = now + 1
        BY <3>1, <3>3, <4>1
      <4>2. CASE reading'[k] = reading[k]
        BY <2>2, <3>1, <3>4, <4>2 DEF Recent, WrittenAt
      <4> QED BY <3>2, <4>1, <4>2
    <3>5. ASSUME NEW k \in Keys, NEW s \in buckets'[k]
          PROVE  (lastDay * Day <= s.ts \/ WrittenAt(k, s.ts))'
      BY <2>2, <3>1, <3>5 DEF Recent, WrittenAt
    <3> QED BY <3>4, <3>5 DEF Recent
  <2> QED BY <1>a, <2>4, <2>5
<1>2. ASSUME NEW key \in Keys, Accumulate(key) PROVE NearMidnight'
  <2>1. /\ pc = "collecting" /\ pc' = "collecting" /\ key \in calls
        /\ UNCHANGED <<now, jumped, elapsed, lastDay, reading>>
        /\ minutes' = minutes \/ minutes' = Flushed
        /\ \A k \in Keys : buckets'[k] = (IF Turn(key) THEN {} ELSE buckets[k]) \cup
                                        (IF k = key THEN {LastSample(key)} ELSE {})
    BY <1>2, AccumulateUnfolded
  <2>2. Times /\ Recent
    BY <1>b, <2>1
  <2>3. LastSample(key).ts = reading[key] /\ reading[key] # 0
    BY <2>1, LastSampleType DEF Numbered
  <2>4. Times'
    BY <2>1, <2>2
  <2> HIDE DEF Times
  <2>5. \A k \in Keys : \A s \in buckets'[k] :
          s \in buckets[k] \/ (s.ts = reading[k] /\ reading[k] # 0)
    BY <2>1, <2>3
  <2>6. Recent'
    BY <2>1, <2>2, <2>5, RecentKept
  <2> QED BY <1>a, <2>4, <2>6
<1>3. CASE CollectorFlush
  <2>1. /\ pc = "flush" /\ pc' = "boundary" /\ UNCHANGED <<now, jumped, lastDay, reading>>
        /\ minutes' = Flushed /\ \A k \in Keys : buckets'[k] = {}
    BY <1>3 DEF CollectorFlush, Flush1m, NoSamples, Flushed
  <2>2. midnight <= now /\ now - elapsed < midnight + Day /\ Recent
    BY <1>b, <2>1
  <2>3. now - FlushEvery < midnight + Day
    <3> HIDE DEF midnight
    <3> QED BY <1>0, <2>2
  <2>4. Times'
    BY <2>1, <2>2, <2>3
  <2>5. Recent'
    BY <2>1, <2>2, RecentKept
  <2> QED BY <1>a, <2>4, <2>5
<1>4. CASE DayBoundary
  <2>1. /\ pc = "boundary" /\ pc' = "rollup" /\ lastDay' = DayOf(now)
        /\ UNCHANGED <<now, elapsed, buckets, reading, minutes>>
        /\ buckets = NoSamples /\ calls = {}
    BY <1>4 DEF DayBoundary, Scheduled
  <2>2. DayOf(now) * Day <= now /\ now < DayOf(now) * Day + Day /\ DayOf(now) * Day \in Int
    BY <1>0, DayBounds
  <2> DEFINE today == DayOf(now) * Day
  <2>3. today \in Int /\ today <= now /\ now < today + Day
    BY <2>2
  <2> HIDE DEF today
  <2>4. now - elapsed < today + Day
    BY <1>0, <2>3
  <2>5. Times'
    BY <2>1, <2>3, <2>4 DEF today
  <2> HIDE DEF Times
  <2>6. \A k \in Keys : reading'[k] # 0 => WrittenAt(k, reading[k])'
    BY <2>1 DEF ReadingsKept, NoSamples, WrittenAt
  <2>7. \A k \in Keys : buckets'[k] = {}
    BY <2>1 DEF NoSamples
  <2>8. Recent'
    BY <2>6, <2>7 DEF Recent
  <2> QED BY <1>a, <2>5, <2>8
<1>5. CASE Start
  <2>1. /\ pc' = "asleep" /\ UNCHANGED <<now, elapsed>> /\ lastDay' = DayOf(now)
        /\ elapsed = 0 /\ \A k \in Keys : buckets'[k] = {} /\ reading'[k] = 0
    BY <1>5 DEF Start, Scheduled, NoSamples, NoReading
  <2>2. DayOf(now) * Day <= now /\ now < DayOf(now) * Day + Day /\ now - 0 = now
    BY <1>0, DayBounds
  <2>3. Times'
    BY <2>1, <2>2
  <2>4. Recent'
    BY <2>1 DEF Recent
  <2> QED BY <1>a, <2>3, <2>4
<1>6. CASE Wait
  <2>1. /\ pc \in {"stopping", "closing"} /\ pc' = pc /\ now' = now + 1
        /\ UNCHANGED <<jumped, lastDay, buckets, reading, minutes>>
    BY <1>6 DEF Wait
  <2>2. midnight <= now /\ Recent
    BY <1>b, <2>1
  <2>3. midnight <= now + 1
    <3> HIDE DEF midnight
    <3> QED BY <1>0, <2>2
  <2>4. Times'
    BY <2>1, <2>3
  <2>5. Recent'
    BY <2>1, <2>2, RecentKept
  <2> QED BY <1>a, <2>4, <2>5
<1>7. CASE FinalFlush
  <2>1. /\ pc = "stopping" /\ pc' = "closing" /\ UNCHANGED <<now, jumped, lastDay, reading>>
        /\ minutes' = Flushed /\ \A k \in Keys : buckets'[k] = {}
    BY <1>7 DEF FinalFlush, Flush1m, NoSamples, Flushed
  <2>2. midnight <= now /\ Recent
    BY <1>b, <2>1
  <2>3. Times'
    BY <2>1, <2>2
  <2>4. Recent'
    BY <2>1, <2>2, RecentKept
  <2> QED BY <1>a, <2>3, <2>4
<1>8. CASE FinalDaily \/ Crash
  BY <1>8 DEF FinalDaily, Crash
<1>9. CASE Collected \/ Flush15m \/ NoRollup \/ Stop \/ UNCHANGED vars
  <2>1. UNCHANGED <<now, jumped, elapsed, lastDay, buckets, reading, minutes>>
    BY <1>9 DEF Collected, Flush15m, NoRollup, Stop, vars
  <2>2. /\ pc # "down" /\ (pc' = "boundary" => pc = "boundary")
        /\ pc' \in {"asleep", "collecting", "flush", "rollup"} =>
             pc \in {"asleep", "collecting", "flush", "rollup"}
    BY <1>9 DEF Collected, Flush15m, NoRollup, Stop, vars
  <2>3. Times /\ Recent
    BY <1>b, <2>1, <2>2
  <2>4. Times'
    BY <2>1, <2>2, <2>3
  <2>5. Recent'
    BY <2>1, <2>3, RecentKept
  <2> QED BY <1>a, <2>4, <2>5
<1> QED BY <1>1, <1>2, <1>3, <1>4, <1>5, <1>6, <1>7, <1>8, <1>9 DEF Next

\* A new 1-minute row is of last_day or later, or replaces one.
LEMMA FlushedLater ==
  ASSUME DaysFit, TypeOK, BucketsHoldTheirMinute, NearMidnight, pc # "down", ~ jumped,
         NEW m \in Flushed, m \notin minutes
  PROVE  lastDay <= DayOf(m.ts) \/ \E r \in minutes : r.key = m.key /\ r.ts = m.ts
<1>1. PICK k \in Keys : buckets[k] # {} /\ m = RowOf(k)
  BY FlushedFrom
<1>2. PICK s \in buckets[k] : TRUE
  BY <1>1
<1>3. s.ts \in Int /\ lastDay \in Int /\ m.ts = current /\ current \in Int /\ m.key = k
  BY <1>1, <1>2 DEF TypeOK, Sample, RowOf
<1>4. /\ lastDay * Day <= s.ts \/ WrittenAt(k, s.ts)
      /\ Floor(s.ts, Minute) = current
  BY <1>2 DEF NearMidnight, BucketsHoldTheirMinute
<1>5. CASE lastDay * Day <= s.ts
  <2>1. lastDay * Day <= current
    BY <1>3, <1>4, <1>5, FloorKeepsDay
  <2> QED BY <1>3, <2>1, DayBounds
<1>6. CASE WrittenAt(k, s.ts)
  BY <1>3, <1>4, <1>6 DEF WrittenAt
<1> QED BY <1>4, <1>5, <1>6

LEMMA SeenKept ==
  ASSUME DaysFit, TypeOK, BucketsHoldTheirMinute, NearMidnight, SeenDaysComplete,
         pc # "down", minutes' = minutes \/ minutes' = Flushed, jumped' = FALSE => ~ jumped,
         UNCHANGED <<energy, lastDay, firstDay>>
  PROVE  SeenDaysComplete'
<1> SUFFICES ASSUME ~ jumped', NEW day \in firstDay..(lastDay - 1)
             PROVE  \E e \in energy :
                      /\ e.day = day
                      /\ \A m \in minutes' :
                           (m.key = Power /\ DayOf(m.ts) = day) => m.ts \in e.minutes
  BY DEF SeenDaysComplete
<1>1. ~ jumped /\ jumped \in BOOLEAN
  BY DEF TypeOK
<1>2. PICK e \in energy :
        /\ e.day = day
        /\ \A m \in minutes : (m.key = Power /\ DayOf(m.ts) = day) => m.ts \in e.minutes
  BY <1>1 DEF SeenDaysComplete
<1>3. ASSUME NEW m \in minutes', m \notin minutes, m.key = Power, DayOf(m.ts) = day
      PROVE  m.ts \in e.minutes
  <2>1. m \in Flushed
    BY <1>3
  <2>2. lastDay <= DayOf(m.ts) \/ \E r \in minutes : r.key = m.key /\ r.ts = m.ts
    BY <1>1, <1>3, <2>1, FlushedLater
  <2>3. m.ts \in Int
    BY <2>1, FlushedType DEF Row
  <2>4. DayOf(m.ts) \in Int /\ lastDay \in Int /\ day < lastDay /\ firstDay \in Int
    BY <2>3, FloorType DEF TypeOK
  <2>5. ~ (lastDay <= DayOf(m.ts))
    BY <1>3, <2>4
  <2> QED BY <1>2, <1>3, <2>2, <2>5
<1> QED BY <1>2, <1>3

\* finalize_daily of the day that was finds its rows, and it was but one day.
LEMMA SeenBoundary ==
  ASSUME DaysFit, TypeOK, RowsHoldTheirMinute, OneRowEach, NearMidnight, SeenDaysComplete,
         DayBoundary
  PROVE  SeenDaysComplete'
<1> SUFFICES ASSUME ~ jumped', NEW day \in firstDay'..(lastDay' - 1)
             PROVE  \E e \in energy' :
                      /\ e.day = day
                      /\ \A m \in minutes :
                           (m.key = Power /\ DayOf(m.ts) = day) => m.ts \in e.minutes
  BY DEF SeenDaysComplete, DayBoundary
<1>1. /\ pc = "boundary" /\ ~ jumped /\ lastDay' = DayOf(now) /\ firstDay' = firstDay
      /\ lastDay \in Int /\ firstDay \in Int /\ now \in Int /\ Day \in Nat /\ day \in Int
      /\ FlushEvery \in Nat /\ FlushEvery <= Day /\ DayOf(now) \in Int
      /\ day < DayOf(now) /\ firstDay <= day
  BY AggregatorAssumption, FloorType DEF DayBoundary, TypeOK, clock, history, DaysFit
<1>2. lastDay * Day <= now /\ now - FlushEvery < lastDay * Day + Day
  BY <1>1 DEF NearMidnight
<1>3. lastDay <= DayOf(now) /\ DayOf(now) < lastDay + 2
  <2>1. lastDay <= DayOf(now)
    BY <1>1, <1>2, DayBounds
  <2>2. /\ lastDay * Day \in Int /\ lastDay + 1 \in Int /\ lastDay + 1 + 1 = lastDay + 2
        /\ (lastDay + 1) * Day = lastDay * Day + Day
        /\ (lastDay + 1 + 1) * Day = (lastDay + 1) * Day + Day
    BY <1>1, DayBounds
  <2> DEFINE midnight == lastDay * Day
             after == (lastDay + 1 + 1) * Day
  <2>3. midnight \in Int /\ after = midnight + Day + Day /\ now - FlushEvery < midnight + Day
    BY <1>2, <2>2
  <2> HIDE DEF midnight, after
  <2>4. now < after
    BY <1>1, <2>3
  <2>5. lastDay + 1 + 1 \in Int /\ now < (lastDay + 1 + 1) * Day
    BY <1>1, <2>4 DEF after
  <2>6. DayOf(now) < lastDay + 1 + 1
    BY <1>1, <2>5, DayBounds
  <2> QED BY <2>1, <2>2, <2>6
<1>4. ASSUME NEW old \in firstDay..(lastDay - 1)
      PROVE  \E e \in energy :
               /\ e.day = old
               /\ \A m \in minutes : (m.key = Power /\ DayOf(m.ts) = old) => m.ts \in e.minutes
  BY <1>1 DEF SeenDaysComplete
<1>5. CASE DayOf(now) = lastDay
  <2>1. energy' = energy /\ day \in firstDay..(lastDay - 1)
    BY <1>1, <1>5 DEF DayBoundary
  <2> QED BY <1>4, <2>1
<1>6. CASE DayOf(now) # lastDay
  <2> DEFINE data == QueryHistory(minutes, Power, lastDay * Day, lastDay * Day + Day)
             row == [day |-> lastDay, minutes |-> {r.ts : r \in data}]
  <2>1. energy' = {e \in energy : e.day # lastDay} \cup {row}
    BY <1>6 DEF DayBoundary, FinalizeDaily
  <2>2. CASE day = lastDay
    <3>1. ASSUME NEW m \in minutes, m.key = Power, DayOf(m.ts) = day PROVE m \in data
      <4>1. m.ts \in Int
        BY RowsStartMinutes
      <4>2. /\ lastDay * Day \in Int /\ lastDay * Day + Day \in Int
            /\ lastDay * Day <= m.ts /\ m.ts < lastDay * Day + Day
        BY <1>1, <2>2, <3>1, <4>1, DayBounds
      <4> DEFINE lo == lastDay * Day
                 hi == lastDay * Day + Day
      <4>3. lo \in Int /\ hi \in Int /\ hi = lo + Day /\ lo <= m.ts /\ m.ts < hi
        BY <4>2
      <4> HIDE DEF lo, hi
      <4>4. hi <= lo + Day /\ m.ts <= hi
        BY <4>1, <4>3
      <4>5. m \in QueryHistory(minutes, Power, lo, hi)
        BY <3>1, <4>3, <4>4, AllRowsFound
      <4> QED BY <4>5 DEF lo, hi
    <3> HIDE DEF data
    <3>2. row \in energy' /\ row.day = day /\ row.minutes = {r.ts : r \in data}
      BY <2>1, <2>2
    <3> QED BY <3>1, <3>2
  <2>3. CASE day # lastDay
    <3>1. day \in firstDay..(lastDay - 1)
      BY <1>1, <1>3, <2>3
    <3> HIDE DEF row
    <3> QED BY <1>4, <2>1, <2>3, <3>1
  <2> QED BY <2>2, <2>3
<1> QED BY <1>5, <1>6

LEMMA SeenStep == ASSUME DaysFit PROVE Inv /\ Rolled /\ Seen /\ [Next]_vars => Seen'
<1> SUFFICES ASSUME Inv, Rolled, Seen, [Next]_vars PROVE Seen'
  OBVIOUS
<1> USE DEF clock, bucket, history, registry
<1>0. /\ TypeOK /\ BucketsHoldTheirMinute /\ RowsHoldTheirMinute /\ OneRowEach
      /\ Scheduled /\ ReadingsKept /\ NearMidnight /\ SeenDaysComplete
  BY DEF Inv, Rolled, Seen
<1>1. Scheduled' /\ ReadingsKept' /\ NearMidnight'
  BY <1>0, ScheduledStep, ReadingsStep, NearMidnightStep DEF Inv
<1> SUFFICES SeenDaysComplete'
  BY <1>1 DEF Seen
<1>2. CASE CollectorFlush \/ FinalFlush
  <2>1. /\ pc # "down" /\ minutes' = Flushed
        /\ UNCHANGED <<jumped, energy, lastDay, firstDay>>
    BY <1>2 DEF CollectorFlush, FinalFlush, Flush1m, Flushed
  <2> QED BY <1>0, <2>1, SeenKept
<1>3. ASSUME NEW key \in Keys, Accumulate(key) PROVE SeenDaysComplete'
  <2>1. /\ pc = "collecting"
        /\ minutes' = minutes \/ minutes' = Flushed
        /\ UNCHANGED <<jumped, energy, lastDay, firstDay>>
    BY <1>0, <1>3, AccumulateUnfolded
  <2> QED BY <1>0, <2>1, SeenKept
<1>4. CASE DayBoundary
  BY <1>0, <1>4, SeenBoundary
<1>5. CASE Start
  <2>1. firstDay' = DayOf(now) /\ lastDay' = DayOf(now) /\ DayOf(now) \in Int
    BY <1>0, <1>5, FloorType DEF Start, TypeOK
  <2>2. firstDay'..(lastDay' - 1) = {}
    BY <2>1
  <2> QED BY <2>2 DEF SeenDaysComplete
<1>6. CASE FinalDaily \/ Crash
  BY <1>6 DEF FinalDaily, Crash, SeenDaysComplete
<1>7. CASE Tick \/ Collected \/ Flush15m \/ NoRollup \/ Wait \/ Stop \/ UNCHANGED vars
  <2>1. /\ UNCHANGED <<minutes, energy, lastDay, firstDay>>
        /\ jumped' = FALSE => jumped = FALSE
        /\ pc' # "down" => pc # "down"
    BY <1>0, <1>7 DEF Tick, Collected, Flush15m, NoRollup, Wait, Stop, vars, TypeOK
  <2>2. jumped' \in BOOLEAN
    BY <1>0, <1>7 DEF Tick, Collected, Flush15m, NoRollup, Wait, Stop, vars, TypeOK
  <2> QED BY <1>0, <2>1, <2>2 DEF SeenDaysComplete
<1> QED BY <1>2, <1>3, <1>4, <1>5, <1>6, <1>7 DEF Next

\* finalize_daily at a midnight that the service runs through: the row of the day that
\* was covers all its power rows, the last one of the evening included.
THEOREM MidnightsComplete == ASSUME DaysFit PROVE Spec => []SeenDaysComplete
<1>1. Init => Rolled /\ Seen
  BY AggregatorAssumption
     DEF Init, Rolled, OneRowEach, RollupsOfTheirQuarter, Seen, Scheduled, ReadingsKept,
         NoReading, NearMidnight, SeenDaysComplete
<1>2. Seen => SeenDaysComplete
  BY DEF Seen
<1>3. Inv /\ Rolled /\ Seen /\ [Next]_vars => Rolled' /\ Seen'
  BY RolledStep, SeenStep
<1> QED BY <1>1, <1>2, <1>3, Inductive, PTL DEF Spec

=============================================================================
