--------------------------- MODULE PowerPipeline ---------------------------
(***************************************************************************)
(* The way of a power reading: the battery collector pushes it into the    *)
(* MetricRegistry and its RingBuffer, the sampler's thread takes the       *)
(* latest one from a snapshot into the PowerPipeline, and the threads of   *)
(* the HTTP pool average the pipeline's window.                            *)
(*                                                                         *)
(* The registry is under a mutex: its operations are one step. The window, *)
(* its head and count and last_ts_ are plain members, which update writes  *)
(* while avg_watts reads them: the writes of one update may become visible *)
(* in any order, and a reader may load at any point between them.          *)
(***************************************************************************)
EXTENDS Integers, Sequences, FiniteSets

CONSTANTS
  Watts,      \* power that a query of the battery may return
  Windows,    \* window_seconds of the averages
  MaxWindow,  \* kMaxWindow
  Capacity,   \* of the ring buffer
  MaxGap,     \* most seconds between two readings that energy is counted for
  FlushEvery, \* ticks between two runs of aggregator_flush
  Day,        \* seconds in a day
  Starts,     \* times at which the service is started
  Jumps,      \* by how much the wall clock may be set, once
  MaxTicks    \* bound: seconds in a behaviour

ASSUME PipelineAssumption ==
  /\ Watts \subseteq Nat /\ Windows \subseteq Nat
  /\ MaxWindow \in Nat \ {0} /\ Capacity \in Nat \ {0} /\ Day \in Nat \ {0}
  /\ MaxGap \in Nat /\ FlushEvery \in Nat \ {0} /\ MaxTicks \in Nat
  /\ Starts \subseteq Nat \ {0} /\ Jumps \subseteq Int

VARIABLES
  now, ticks, jumped,      \* wall clock; seconds really passed; the clock has been set
  pc, elapsed, lastDay,    \* sampler's thread, elapsed_ms of aggregator_flush, last_day
  buffer, written, latest, \* of power.current_w: buffer_, write_pos_, last_sample
  window, head, count, lastTs, energy,  \* of the pipeline; energy in watt-seconds
  pending,                 \* writes of the update in progress that are not visible yet
  reader,                  \* the avg_watts in progress in the HTTP pool
  pushed,                  \* history: all samples pushed
  updates,                 \* history: all entries given to update
  owed                     \* history: watt-seconds by the real seconds, since the reset

clock    == <<now, ticks, jumped>>
registry == <<buffer, written, latest, pushed>>
plain    == <<window, head, count, lastTs>>
vars == <<clock, pc, elapsed, lastDay, registry, plain, energy, pending, reader, updates, owed>>

\* A sample; n is the tick it was taken in, for the properties.
NoSample == [watts |-> 0, ts |-> 0, n |-> 0]

\* A slot is two words: each holds the number of the update that wrote it, 0 at first.
NoSlot == [watts |-> 0, ts |-> 0]
Fields == {"watts", "ts", "head", "count", "lastTs"}
Loads  == {"head", "count", "lastTs"}
Idle   == [seconds |-> 0, todo |-> {}, head |-> 0, count |-> 0, lastTs |-> 0,
           from |-> 0, overlapped |-> FALSE, counted |-> <<>>, answered |-> FALSE]

Init ==
  /\ now \in Starts /\ ticks = 0 /\ jumped = FALSE
  /\ pc = "asleep" /\ elapsed = 0 /\ lastDay = now \div Day
  /\ buffer = [i \in 0..(Capacity - 1) |-> NoSample] /\ written = 0
  /\ latest = NoSample /\ pushed = <<>>
  /\ window = [i \in 0..(MaxWindow - 1) |-> NoSlot] /\ head = 0 /\ count = 0
  /\ lastTs = 0 /\ energy = 0 /\ pending = {}
  /\ reader = Idle /\ updates = <<>> /\ owed = 0

-----------------------------------------------------------------------------
(* RingBuffer.                                                             *)

\* Mutant: an item is published where the next one will be.
PushAhead(item) ==
  /\ buffer' = [buffer EXCEPT ![(written + 1) % Capacity] = item]
  /\ written' = written + 1

Push(item) ==
  /\ buffer' = [buffer EXCEPT ![written % Capacity] = item]
  /\ written' = written + 1

\* peek_last: no item is ever popped, read_pos_ stays 0.
PeekLast(n) ==
  LET size  == IF n > written THEN written ELSE n
      taken == IF size > Capacity THEN Capacity ELSE size
      start == written - taken
  IN  [i \in 1..taken |-> buffer[(start + i - 1) % Capacity]]

-----------------------------------------------------------------------------
(* The sampler's thread.                                                   *)

Tick ==
  /\ pc = "asleep" /\ ticks < MaxTicks /\ (reader = Idle \/ reader.answered)
  /\ \E jump \in Jumps \cup {0} :
       /\ jump # 0 => ~ jumped /\ now + 1 + jump > 0
       /\ now' = now + 1 + jump
       /\ jumped' = (jumped \/ jump # 0)
  /\ ticks' = ticks + 1 /\ elapsed' = elapsed + 1
  /\ pc' = "collect" /\ reader' = Idle
  /\ UNCHANGED <<lastDay, registry, plain, energy, pending, updates, owed>>

\* collect_battery, as far as power.current_w goes: as measured or
\* estimated, or 0 when unknown.
PushSample(watts) ==
  LET sample == [watts |-> watts, ts |-> now, n |-> ticks]
  IN  /\ Push(sample)
      /\ latest' = sample /\ pushed' = Append(pushed, sample)
      /\ owed' = IF pushed = <<>> THEN 0 ELSE owed + watts * (ticks - latest.n)

Collect ==
  /\ pc = "collect" /\ pc' = "update"
  /\ \/ \E watts \in Watts \cup {0} : PushSample(watts)
     \/ UNCHANGED <<registry, owed>>    \* GetSystemPowerStatus failed: nothing is pushed
  /\ UNCHANGED <<clock, elapsed, lastDay, plain, energy, pending, reader, updates>>

\* Mutant: no limit on the gap.
UpdateUnclamped ==
  /\ pc = "update" /\ latest.ts # 0
  /\ energy' = IF lastTs > 0 /\ latest.ts > lastTs
                 THEN energy + latest.watts * (latest.ts - lastTs)
                 ELSE energy
  /\ updates' = Append(updates, latest)
  /\ pending' = Fields /\ pc' = "writing"
  /\ reader' = [reader EXCEPT !.overlapped = @ \/ (reader # Idle /\ ~ reader.answered)]
  /\ UNCHANGED <<clock, elapsed, lastDay, registry, plain, owed>>

\* update with what the snapshot holds, be it of an earlier tick; the atomic members.
Update ==
  /\ pc = "update" /\ latest.ts # 0
  /\ energy' = IF lastTs > 0 /\ latest.ts > lastTs /\ latest.ts - lastTs <= MaxGap
                 THEN energy + latest.watts * (latest.ts - lastTs)
                 ELSE energy
  /\ updates' = Append(updates, latest)
  /\ pending' = Fields /\ pc' = "writing"
  /\ reader' = [reader EXCEPT !.overlapped = @ \/ (reader # Idle /\ ~ reader.answered)]
  /\ UNCHANGED <<clock, elapsed, lastDay, registry, plain, owed>>

\* No sample yet in the snapshot: update is not called.
NoUpdate ==
  /\ pc = "update" /\ latest.ts = 0
  /\ pc' = "flush"
  /\ UNCHANGED <<clock, elapsed, lastDay, registry, plain, energy, pending, reader, updates, owed>>

Slot == IF "head" \in pending THEN head ELSE (head - 1) % MaxWindow

\* One of the plain writes of update becomes visible.
Write(field) ==
  /\ pc = "writing" /\ field \in pending
  /\ pending' = pending \ {field}
  /\ pc' = IF pending = {field} THEN "flush" ELSE "writing"
  /\ lastTs' = IF field = "lastTs" THEN latest.ts ELSE lastTs
  /\ head'   = IF field = "head" THEN (head + 1) % MaxWindow ELSE head
  /\ count'  = IF field = "count" /\ count < MaxWindow THEN count + 1 ELSE count
  /\ window' = IF field \in {"watts", "ts"}
                 THEN [window EXCEPT ![Slot][field] = Len(updates)]
                 ELSE window
  /\ UNCHANGED <<clock, elapsed, lastDay, registry, energy, reader, updates, owed>>

\* aggregator_flush, when it is due: reset_daily on another date than the last time.
Flush ==
  /\ pc = "flush" /\ pc' = "asleep"
  /\ IF elapsed < FlushEvery
     THEN UNCHANGED <<elapsed, lastDay, energy, owed>>
     ELSE /\ elapsed' = 0 /\ lastDay' = now \div Day
          /\ IF now \div Day # lastDay
             THEN energy' = 0 /\ owed' = 0
             ELSE UNCHANGED <<energy, owed>>
  /\ UNCHANGED <<clock, registry, plain, pending, reader, updates>>

-----------------------------------------------------------------------------
(* avg_watts, called for a snapshot by a thread of the HTTP pool.          *)

\* The call takes less than the time between two ticks.
Ask(seconds) ==
  /\ reader = Idle /\ pc # "asleep"
  /\ reader' = [Idle EXCEPT !.seconds = seconds, !.todo = Loads,
                            !.from = Len(updates) - (IF pending = {} THEN 0 ELSE 1),
                            !.overlapped = (pending # {})]
  /\ UNCHANGED <<clock, pc, elapsed, lastDay, registry, plain, energy, pending, updates, owed>>

\* A member is loaded into a register.
Load(field) ==
  /\ field \in reader.todo
  /\ reader' = [reader EXCEPT !.todo = @ \ {field},
                  !.head = IF field = "head" THEN head ELSE @,
                  !.count = IF field = "count" THEN count ELSE @,
                  !.lastTs = IF field = "lastTs" THEN lastTs ELSE @]
  /\ UNCHANGED <<clock, pc, elapsed, lastDay, registry, plain, energy, pending, updates, owed>>

TsOf(u) == IF u = 0 THEN 0 ELSE updates[u].ts

\* Mutant: the newest slot is taken to be at the head itself.
ScanFromHead(seen, grown, cutoff) ==
  LET h(i) == IF i < seen THEN reader.head ELSE head
      n(i) == IF i < grown THEN reader.count ELSE count
      slot(i) == window[(h(i) - i) % MaxWindow]
      stops == {i \in 0..MaxWindow : i >= n(i) \/ TsOf(slot(i).ts) < cutoff}
      size == CHOOSE i \in stops : \A j \in stops : i <= j
  IN  [i \in 1..size |-> slot(i - 1).watts]

\* The loop: back from the newest slot to the first one before the cutoff. It gives
\* the numbers of the updates whose watts are summed. Every turn may load head and
\* count again, so from some turn on it sees those of an update that was made meanwhile;
\* that update writes one slot, and no turn but one comes by it.
Scan(seen, grown, cutoff) ==
  LET h(i) == IF i < seen THEN reader.head ELSE head
      n(i) == IF i < grown THEN reader.count ELSE count
      slot(i) == window[(h(i) - 1 - i) % MaxWindow]
      stops == {i \in 0..MaxWindow : i >= n(i) \/ TsOf(slot(i).ts) < cutoff}
      size == CHOOSE i \in stops : \A j \in stops : i <= j
  IN  [i \in 1..size |-> slot(i - 1).watts]

AvgWatts ==
  /\ reader # Idle /\ reader.todo = {} /\ ~ reader.answered
  /\ \E seen, grown \in 1..MaxWindow :
       reader' = [reader EXCEPT !.answered = TRUE,
                    !.counted = Scan(seen, grown, reader.lastTs - reader.seconds)]
  /\ UNCHANGED <<clock, pc, elapsed, lastDay, registry, plain, energy, pending, updates, owed>>

Next ==
  \/ Tick \/ Collect \/ Update \/ NoUpdate \/ Flush
  \/ \E field \in Fields : Write(field)
  \/ \E seconds \in Windows : Ask(seconds)
  \/ \E field \in Loads : Load(field)
  \/ AvgWatts

Spec == Init /\ [][Next]_vars

-----------------------------------------------------------------------------
\* However often the buffer has gone round: the last N items, each once and in one
\* direction. Which one is left open: ring_buffer.h:46 says oldest first, the unit tests
\* newest first.
RecentAreNewest ==
  \A n \in 0..(Capacity + 1) :
    LET all    == Len(pushed)
        size   == CHOOSE k \in 0..n : /\ k <= all /\ k <= Capacity
                                      /\ k = n \/ k = all \/ k = Capacity
        newest == SubSeq(pushed, all - size + 1, all)
    IN  PeekLast(n) \in {newest, [i \in 1..size |-> newest[size + 1 - i]]}

\* Readings come without long gaps and the clock runs on.
Gapless ==
  /\ ~ jumped
  /\ \A i \in 2..Len(pushed) : pushed[i].n - pushed[i - 1].n <= MaxGap

\* Energy is the power over the seconds that really passed: no second counts twice when a
\* collection fails and the old reading comes again, or the clock is set back, and
\* one jump of the clock adds MaxGap seconds at most; nothing is missed without one.
EnergyOfRealSeconds ==
  pc # "update" =>
    /\ \E most \in Watts :
         /\ \A w \in Watts : w <= most
         /\ energy <= owed + (IF jumped THEN most * MaxGap ELSE 0)
    /\ Gapless => energy = owed

\* What avg_watts has to count when n updates have been made: the numbers of the last
\* kMaxWindow of them, back to the first one that is too old.
Reference(n, seconds) ==
  {u \in 1..n : /\ n - u < MaxWindow
                /\ \A v \in u..n : updates[v].ts >= updates[n].ts - seconds}

Counted == {reader.counted[i] : i \in DOMAIN reader.counted}

\* An average that no update overlapped counts every update of its window once, and no
\* other, wherever the window's head and the clock are. One that an update overlapped
\* is that of the window before or after it but for one reading more and one less, and
\* counts one reading twice at most, in whatever order the unsynchronised writes become
\* visible and wherever in its loop they are seen; or it counts nothing, and 0 W are
\* answered. A clock that was set back makes that two less: the slot
\* at the new head still holds the oldest update, which is then not too old, and
\* with the old count the scan ends before the reading that made the window longer.
AverageOfWindow ==
  reader.answered =>
    IF ~ reader.overlapped
    THEN /\ Counted = Reference(reader.from, reader.seconds)
         /\ Len(reader.counted) = Cardinality(Counted)
    ELSE \/ Len(reader.counted) = 0
         \/ /\ Len(reader.counted) <= Cardinality(Counted) + 1
            /\ \E n \in {reader.from, Len(updates)} :
                 /\ Cardinality(Counted \ Reference(n, reader.seconds)) <= 1
                 /\ Cardinality(Reference(n, reader.seconds) \ Counted) <= IF jumped THEN 2 ELSE 1

=============================================================================
