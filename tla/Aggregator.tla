----------------------------- MODULE Aggregator -----------------------------
(***************************************************************************)
(* The rollups: Aggregator (src/src/metrics/aggregator.cpp) under the      *)
(* wiring of run_application (src/apps/pulseport-service/main.cpp): the    *)
(* aggregator_flush collector on the sampler's thread and, at the end,     *)
(* the main thread.                                                        *)
(*                                                                         *)
(* A row holds the samples it was computed from: count, average, extremes  *)
(* and worst quality are functions of them. accumulate and flush_15m have  *)
(* no caller in the program; they are called here as aggregator.h:20-27    *)
(* says, on the sampler's thread: each second for every metric that has a  *)
(* sample in the registry, which is an old one when the collector failed,  *)
(* and in a turn of the flush.                                             *)
(***************************************************************************)
EXTENDS Integers, FiniteSets

CONSTANTS
  Keys,       \* the metrics
  Batches,    \* which of them may get a new sample in a tick
  Power,      \* "power.current_w", the one finalize_daily reads
  Minute, Quarter, Day,   \* seconds in a bucket of each level
  FlushEvery, \* ticks between two runs of aggregator_flush
  Limit,      \* most rows that query_history returns
  Starts,     \* times at which the service is first started
  Jumps,      \* by how much the wall clock may be set, once
  MaxTicks    \* bound: seconds in a behaviour

ASSUME AggregatorAssumption ==
  /\ Power \in Keys /\ Batches \subseteq SUBSET Keys
  /\ Minute \in Nat \ {0} /\ Quarter \in Nat \ {0} /\ Day \in Nat \ {0} /\ Minute <= Day
  /\ FlushEvery \in Nat \ {0} /\ Limit \in Nat \ {0} /\ MaxTicks \in Nat
  /\ Starts \subseteq Nat \ (0..Day) /\ Jumps \subseteq Int

VARIABLES
  pc,         \* what the sampler's thread, or at the end the main thread, does next
  now,        \* the wall clock
  ticks,      \* bound and history: seconds that have really passed
  jumped,     \* history: the wall clock has been set
  elapsed,    \* elapsed_ms of aggregator_flush, in ticks
  reading,    \* registry: the time of each metric's last sample, 0 without one
  calls,      \* metrics whose sample is yet to be accumulated in this tick
  current,    \* current_bucket_ts_
  buckets,    \* buckets_: the samples in each working bucket
  lastDay,    \* last_day in run_application
  minutes, quarters, energy,  \* metric_1m, metric_15m, energy_daily
  taken,      \* history: every sample accumulated
  crashed,    \* history: samples that a crash took
  firstDay    \* history: the day of the latest start

clock  == <<now, ticks, jumped>>
bucket == <<current, buckets>>
history == <<taken, crashed, firstDay>>
registry == <<reading, calls>>
vars == <<pc, clock, elapsed, registry, bucket, lastDay, minutes, quarters, energy, history>>

\* Aggregator::bucket_1m and bucket_15m, and the local date.
Floor(t, size) == t - (t % size)
DayOf(t) == t \div Day

Sample == [key : Keys, ts : Int, n : Nat]
Row == [ts : Int, key : Keys, samples : (SUBSET Sample) \ {{}}, at : Nat]
DayRow == [day : Int, minutes : SUBSET Int]

NoSamples == [key \in Keys |-> {}]
NoReading == [key \in Keys |-> 0]

Init ==
  /\ pc = "down" /\ now \in Starts /\ ticks = 0 /\ jumped = FALSE
  /\ elapsed = 0 /\ current = 0 /\ buckets = NoSamples
  /\ reading = NoReading /\ calls = {}
  /\ lastDay = DayOf(now) /\ firstDay = DayOf(now)
  /\ minutes = {} /\ quarters = {} /\ energy = {}
  /\ taken = {} /\ crashed = {}

-----------------------------------------------------------------------------
(* Storage: INSERT OR REPLACE and StorageReader::query_history.            *)

Upsert(rows, new) ==
  {r \in rows : \A s \in new : r.ts # s.ts \/ r.key # s.key} \cup new

\* Mutant: the range is exclusive at its start.
QueryHistoryExclusive(rows, key, lo, hi) ==
  {r \in rows : r.key = key /\ lo < r.ts /\ r.ts <= hi}

\* ORDER BY bucket_ts ASC LIMIT: the oldest rows, both ends of the range included.
QueryHistory(rows, key, lo, hi) ==
  LET hits == {r \in rows : r.key = key /\ lo <= r.ts /\ r.ts <= hi}
  IN  {r \in hits : Cardinality({q \in hits : q.ts < r.ts}) < Limit}

-----------------------------------------------------------------------------
(* Aggregator.                                                             *)

\* Mutant: rows are written for empty buckets too.
AggregatesOfAll ==
  {[ts |-> current, key |-> k, samples |-> buckets[k], at |-> ticks] : k \in Keys}

\* The rows that flush_1m makes of the working buckets; ticks stamps them for the
\* properties.
Aggregates ==
  {[ts |-> current, key |-> k, samples |-> buckets[k], at |-> ticks] :
     k \in {key \in Keys : buckets[key] # {}}}

\* flush_1m: called by aggregator_flush and at shutdown, at any second of a minute.
Flush1m ==
  /\ minutes' = Upsert(minutes, Aggregates)
  /\ buckets' = NoSamples
  /\ UNCHANGED current

LastSample(key) == [key |-> key, ts |-> reading[key], n |-> ticks]

\* Mutant: the buckets are relabelled without a flush.
AccumulateNoFlush(key) ==
  /\ pc = "collecting" /\ key \in calls /\ calls' = calls \ {key}
  /\ buckets' = [buckets EXCEPT ![key] = @ \cup {LastSample(key)}]
  /\ taken' = taken \cup {LastSample(key)}
  /\ current' = Floor(reading[key], Minute)
  /\ UNCHANGED <<pc, clock, elapsed, reading, lastDay, minutes, quarters, energy, crashed, firstDay>>

\* Mutant: the new minute resets the buckets without writing them.
AccumulateResetOnly(key) ==
  /\ pc = "collecting" /\ key \in calls /\ calls' = calls \ {key}
  /\ buckets' = IF current \in {0, Floor(reading[key], Minute)}
                  THEN [buckets EXCEPT ![key] = @ \cup {LastSample(key)}]
                  ELSE [NoSamples EXCEPT ![key] = {LastSample(key)}]
  /\ taken' = taken \cup {LastSample(key)}
  /\ current' = Floor(reading[key], Minute)
  /\ UNCHANGED <<pc, clock, elapsed, reading, lastDay, minutes, quarters, energy, crashed, firstDay>>

\* accumulate: a sample of another minute than the last one's, be it a later or an earlier
\* one, flushes all buckets.
Accumulate(key) ==
  /\ pc = "collecting" /\ key \in calls /\ calls' = calls \ {key}
  /\ IF current \in {0, Floor(reading[key], Minute)}
     THEN /\ buckets' = [buckets EXCEPT ![key] = @ \cup {LastSample(key)}]
          /\ UNCHANGED minutes
     ELSE /\ buckets' = [NoSamples EXCEPT ![key] = {LastSample(key)}]
          /\ minutes' = Upsert(minutes, Aggregates)
  /\ taken' = taken \cup {LastSample(key)}
  /\ current' = Floor(reading[key], Minute)
  /\ UNCHANGED <<pc, clock, elapsed, reading, lastDay, quarters, energy, crashed, firstDay>>

\* flush_15m: the quarter before this one, from the 1-minute rows.
Flush15m ==
  /\ pc = "rollup" /\ pc' = "asleep"
  /\ LET start == Floor(now, Quarter) - Quarter
         data(key) == QueryHistory(minutes, key, start, start + Quarter)
     IN  quarters' = Upsert(quarters,
           {[ts |-> start, key |-> k, at |-> ticks,
             samples |-> UNION {r.samples : r \in data(k)}] :
              k \in {key \in Keys : data(key) # {}}})
  /\ UNCHANGED <<clock, elapsed, registry, bucket, lastDay, minutes, energy, history>>

\* finalize_daily: whatever 1-minute rows of the day there are, marked finalized.
FinalizeDaily(day) ==
  LET data == QueryHistory(minutes, Power, day * Day, day * Day + Day)
  IN  energy' = {e \in energy : e.day # day}
                  \cup {[day |-> day, minutes |-> {r.ts : r \in data}]}

-----------------------------------------------------------------------------
(* The sampler's thread.                                                   *)

\* The next second, in which some metrics get a new sample. The wall clock may be set in
\* it, not to the first minute of 1970, whose number 0 would read as no bucket.
Tick ==
  /\ pc = "asleep" /\ ticks < MaxTicks
  /\ \E jump \in Jumps \cup {0} :
       /\ jump # 0 => ~ jumped /\ now + 1 + jump >= Minute
       /\ now' = now + 1 + jump
       /\ jumped' = (jumped \/ jump # 0)
  /\ \E fresh \in Batches :
       reading' = [key \in Keys |-> IF key \in fresh THEN now' ELSE reading[key]]
  /\ calls' = {key \in Keys : reading'[key] # 0}
  /\ ticks' = ticks + 1 /\ elapsed' = elapsed + 1
  /\ pc' = "collecting"
  /\ UNCHANGED <<bucket, lastDay, minutes, quarters, energy, history>>

\* The last sample of the tick is accumulated.
Collected ==
  /\ pc = "collecting" /\ calls = {}
  /\ pc' = IF elapsed >= FlushEvery THEN "flush" ELSE "asleep"
  /\ UNCHANGED <<clock, elapsed, registry, bucket, lastDay, minutes, quarters, energy, history>>

\* A turn without flush_15m.
NoRollup ==
  /\ pc = "rollup" /\ pc' = "asleep"
  /\ UNCHANGED <<clock, elapsed, registry, bucket, lastDay, minutes, quarters, energy, history>>

\* Mutant: the day is looked at first, the flush left to the next turn.
CollectorNoFlush ==
  /\ pc = "flush"
  /\ elapsed' = 0 /\ pc' = "boundary"
  /\ UNCHANGED <<clock, registry, bucket, lastDay, minutes, quarters, energy, history>>

\* aggregator_flush: flush_1m ...
CollectorFlush ==
  /\ pc = "flush"
  /\ Flush1m
  /\ elapsed' = 0 /\ pc' = "boundary"
  /\ UNCHANGED <<clock, registry, lastDay, quarters, energy, history>>

\* ... then, if the date has changed, finalize_daily of the day that was.
DayBoundary ==
  /\ pc = "boundary"
  /\ IF DayOf(now) # lastDay THEN FinalizeDaily(lastDay) ELSE UNCHANGED energy
  /\ lastDay' = DayOf(now) /\ pc' = "rollup"
  /\ UNCHANGED <<clock, elapsed, registry, bucket, minutes, quarters, history>>

-----------------------------------------------------------------------------
(* The main thread.                                                        *)

Start ==
  /\ pc = "down" /\ ticks < MaxTicks
  /\ pc' = "asleep" /\ lastDay' = DayOf(now) /\ firstDay' = DayOf(now)
  /\ UNCHANGED <<clock, elapsed, registry, bucket, minutes, quarters, energy, taken, crashed>>

\* A second passes while the sampler does not run.
Wait ==
  /\ pc \in {"down", "stopping", "closing"} /\ ticks < MaxTicks
  /\ now' = now + 1 /\ ticks' = ticks + 1
  /\ UNCHANGED <<pc, jumped, elapsed, registry, bucket, lastDay, minutes, quarters, energy, history>>

\* Sampler::stop has joined the thread.
Stop ==
  /\ pc = "asleep" /\ pc' = "stopping"
  /\ UNCHANGED <<clock, elapsed, registry, bucket, lastDay, minutes, quarters, energy, history>>

FinalFlush ==
  /\ pc = "stopping"
  /\ Flush1m /\ pc' = "closing"
  /\ UNCHANGED <<clock, elapsed, registry, lastDay, quarters, energy, history>>

\* finalize_daily(get_today_str()), and the process ends. The early returns for a day that is
\* none are left out: get_today_str and last_day always are one.
FinalDaily ==
  /\ pc = "closing"
  /\ FinalizeDaily(DayOf(now))
  /\ pc' = "down" /\ elapsed' = 0 /\ current' = 0
  /\ reading' = NoReading /\ calls' = {}
  /\ UNCHANGED <<clock, buckets, lastDay, minutes, quarters, history>>

Crash ==
  /\ pc # "down" /\ pc' = "down"
  /\ elapsed' = 0 /\ current' = 0 /\ buckets' = NoSamples
  /\ reading' = NoReading /\ calls' = {}
  /\ crashed' = crashed \cup UNION {buckets[key] : key \in Keys}
  /\ UNCHANGED <<clock, lastDay, minutes, quarters, energy, taken, firstDay>>

Next ==
  \/ Tick \/ (\E key \in Keys : Accumulate(key)) \/ Collected
  \/ CollectorFlush \/ DayBoundary \/ Flush15m \/ NoRollup
  \/ Start \/ Wait \/ Stop \/ FinalFlush \/ FinalDaily \/ Crash

Spec == Init /\ [][Next]_vars

-----------------------------------------------------------------------------
\* Type invariant of the aggregator.
TypeOK ==
  /\ pc \in {"down", "asleep", "collecting", "flush", "boundary", "rollup", "stopping", "closing"}
  /\ now \in Int /\ ticks \in Nat /\ jumped \in BOOLEAN /\ elapsed \in Nat
  /\ reading \in [Keys -> Int] /\ calls \subseteq Keys
  /\ current \in Int /\ buckets \in [Keys -> SUBSET Sample]
  /\ lastDay \in Int /\ firstDay \in Int
  /\ minutes \subseteq Row /\ quarters \subseteq Row /\ energy \subseteq DayRow
  /\ taken \subseteq Sample /\ crashed \subseteq Sample

\* A 1-minute row holds samples of its own metric and minute only, wherever in a
\* minute the flushes, restarts and jumps of the clock fall: current_bucket_ts_ is
\* always the minute of what the buckets hold.
RowsHoldTheirMinute ==
  \A r \in minutes : \A s \in r.samples : s.key = r.key /\ Floor(s.ts, Minute) = r.ts

\* A later part of the minute has replaced the row: the known loss of flush_1m, which
\* writes with INSERT OR REPLACE what came since the last flush.
Replaced(s) ==
  \E r \in minutes :
    /\ r.key = s.key /\ r.ts = Floor(s.ts, Minute)
    /\ \E later \in r.samples : later.n > s.n

\* A sample is lost in two ways only: with the working buckets in a crash, or replaced
\* by a later part of its minute. Until then it is in its bucket or in its row.
LossesExplained ==
  \A s \in taken \ crashed :
    \/ s \in buckets[s.key]
    \/ \E r \in minutes : s \in r.samples
    \/ Replaced(s)

\* docs/database-schema.md:217-240: a 15-minute row is computed from the 1-minute rows of its
\* quarter: all that were there when it was made, in full, and beyond its end
\* no more than the one minute at bucket_end, which the inclusive range adds.
RollupsOfTheirQuarter ==
  \A q \in quarters :
    /\ \A s \in q.samples : q.ts <= s.ts /\ s.ts < q.ts + Quarter + Minute
    /\ \A m \in minutes :
         (m.key = q.key /\ q.ts <= m.ts /\ m.ts < q.ts + Quarter /\ m.at < q.at)
           => m.samples \subseteq q.samples

\* A midnight that the running service has seen leaves a complete record behind: the
\* day's row exists and covers every 1-minute row of power there is for the day,
\* the last one of the evening included, whenever after midnight the flush came.
SeenDaysComplete ==
  (pc # "down" /\ ~ jumped) =>
    \A day \in firstDay..(lastDay - 1) :
      \E e \in energy :
        /\ e.day = day
        /\ \A m \in minutes : (m.key = Power /\ DayOf(m.ts) = day) => m.ts \in e.minutes

=============================================================================
