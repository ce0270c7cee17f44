----------------------------- MODULE Collectors -----------------------------
(***************************************************************************)
(* The loop of the sampler's thread (src/src/core/sampler.cpp) and three   *)
(* of the collectors that it runs (src/src/windows): performance counters, *)
(* thermal zone and top processes. The battery collector is in             *)
(* PowerPipeline, the last two collectors of the loop are in Aggregator    *)
(* and Alerts.                                                             *)
(*                                                                         *)
(* The registry's mutex makes a push one step; between any two of them a   *)
(* thread of the HTTP pool may take a snapshot: what holds of last in      *)
(* every state holds of every snapshot. post_tick_ is left out: no         *)
(* WebSocket client ever exists to receive what it sends.                  *)
(***************************************************************************)
EXTENDS Integers, FiniteSets, SequencesExt

CONSTANTS
  Counters,   \* metrics read from performance counters
  Processes,  \* process instances
  Names,      \* what is pushed for a name: the hash of its truncated characters
  NameOf,     \* NameOf[p]: of process p; two of one image, or of one hash, share it
  Loads,      \* CPU percentages
  TopN,       \* 10: slots for processes
  TickMs,     \* kTickMs
  Interval,   \* Interval[c]: interval_ms of collector c
  MaxTicks, MaxThrows  \* bounds

\* Order of registration, which is the order in a turn.
Order == <<"pdh", "thermal", "processes">>
Collector == ToSet(Order)

ASSUME CollectorsAssumption ==
  /\ IsFiniteSet(Counters) /\ IsFiniteSet(Processes) /\ NameOf \in [Processes -> Names]
  /\ Loads \subseteq Nat /\ TopN \in Nat /\ TickMs \in Nat \ {0}
  /\ Interval \in [Collector -> Nat] /\ MaxTicks \in Nat /\ MaxThrows \in Nat

VARIABLES
  ready, opened,     \* collectors and counters whose registration succeeded
  pc, at, ticks,     \* the sampler's thread; which collector; turns begun
  elapsed,           \* elapsed_ms of each collector
  plan,              \* pushes it has yet to make
  last,              \* last_sample of each metric
  throws,            \* bound: exceptions so far
  lastRun,           \* history: the turn in which each collector last ran
  enumerated         \* history: what the last enumeration of processes found

vars == <<ready, opened, pc, at, ticks, elapsed, plan, last, throws, lastRun, enumerated>>

Metric(name) == [slot |-> 0, what |-> name]
Cpu(i)  == [slot |-> i, what |-> "cpu_pct"]
Name(i) == [slot |-> i, what |-> "name"]
Keys ==
  {Metric(name) : name \in Counters \cup {"mem.used_pct", "temp.zone_c"}}
    \cup {Cpu(i) : i \in 1..TopN} \cup {Name(i) : i \in 1..TopN}

\* A sample, or with turn 0 none. A value matters for the processes only.
Reading(key, value, known) == [key |-> key, value |-> value, known |-> known, turn |-> ticks]
NoReading(key) == [key |-> key, value |-> 0, known |-> FALSE, turn |-> 0]

\* The counters that PdhAddEnglishCounterW may have added, with a query or without one.
Opened(registered) == IF "pdh" \in registered THEN SUBSET Counters ELSE {{}}

Init ==
  /\ ready \in SUBSET Collector /\ opened \in Opened(ready)
  /\ pc = "asleep" /\ at = 1 /\ ticks = 0
  /\ elapsed = [c \in Collector |-> 0]
  /\ plan = <<>> /\ last = [key \in Keys |-> NoReading(key)]
  /\ throws = 0
  /\ lastRun = [c \in Collector |-> 0]
  /\ enumerated = [turn |-> 0, load |-> <<>>, whole |-> TRUE]

-----------------------------------------------------------------------------
(* Sampler::run.                                                           *)

loop == <<ready, opened, elapsed, lastRun, ticks>>

Tick ==
  /\ pc = "asleep" /\ ticks < MaxTicks
  /\ pc' = "turn" /\ at' = 1 /\ ticks' = ticks + 1
  /\ UNCHANGED <<ready, opened, elapsed, plan, last, throws, lastRun, enumerated>>

Due(c) == elapsed[c] + TickMs >= Interval[c]

Skip ==
  /\ pc = "turn" /\ at <= Len(Order) /\ ~ Due(Order[at])
  /\ elapsed' = [elapsed EXCEPT ![Order[at]] = @ + TickMs]
  /\ at' = at + 1
  /\ UNCHANGED <<ready, opened, pc, ticks, plan, last, throws, lastRun, enumerated>>

\* Mutant: what is over the interval is kept for the next one.
RunCarry ==
  /\ pc = "turn" /\ at <= Len(Order) /\ Due(Order[at])
  /\ elapsed' = [elapsed EXCEPT ![Order[at]] =
                   IF @ + TickMs - Interval[Order[at]] < Interval[Order[at]]
                     THEN @ + TickMs - Interval[Order[at]] ELSE 0]
  /\ lastRun' = [lastRun EXCEPT ![Order[at]] = ticks]
  /\ pc' = IF Order[at] \in ready THEN "collecting" ELSE "pushing"
  /\ UNCHANGED <<ready, opened, at, ticks, plan, last, throws, enumerated>>

\* The collector is called; one whose registration failed returns at once.
Run ==
  /\ pc = "turn" /\ at <= Len(Order) /\ Due(Order[at])
  /\ elapsed' = [elapsed EXCEPT ![Order[at]] = 0]
  /\ lastRun' = [lastRun EXCEPT ![Order[at]] = ticks]
  /\ pc' = IF Order[at] \in ready THEN "collecting" ELSE "pushing"
  /\ UNCHANGED <<ready, opened, at, ticks, plan, last, throws, enumerated>>

EndTurn ==
  /\ pc = "turn" /\ at > Len(Order) /\ pc' = "asleep" /\ at' = 1
  /\ UNCHANGED <<loop, plan, last, throws, enumerated>>

\* push_sample.
Push ==
  /\ pc = "pushing" /\ plan # <<>>
  /\ last' = [last EXCEPT ![Head(plan).key] = Head(plan)]
  /\ plan' = Tail(plan)
  /\ enumerated' = [enumerated EXCEPT !.whole = @ \/ (Order[at] = "processes" /\ Len(plan) = 1)]
  /\ UNCHANGED <<loop, pc, at, throws>>

\* The collector returns.
Return ==
  /\ pc = "pushing" /\ plan = <<>>
  /\ pc' = "turn" /\ at' = at + 1
  /\ UNCHANGED <<loop, plan, last, throws, enumerated>>

\* An exception out of a collector, as of an allocation, is caught by the loop.
Throw ==
  /\ pc \in {"collecting", "pushing"} /\ throws < MaxThrows
  /\ pc' = "turn" /\ at' = at + 1
  /\ throws' = throws + 1 /\ plan' = <<>>
  /\ UNCHANGED <<loop, last, enumerated>>

-----------------------------------------------------------------------------
(* The collectors.                                                         *)

InCollector(c) == pc = "collecting" /\ Order[at] = c

\* collect_pdh: nothing when the query cannot be collected, also not mem.used_pct,
\* which does not come from it; else each open counter that gives a value.
CollectPdh ==
  /\ InCollector("pdh") /\ pc' = "pushing"
  /\ \/ plan' = <<>>
     \/ \E good \in SUBSET (opened \cup {"mem.used_pct"}) :
          LET names == SetToSeq(good)
          IN  plan' = [i \in 1..Len(names) |-> Reading(Metric(names[i]), 0, TRUE)]
  /\ UNCHANGED <<loop, at, last, throws, enumerated>>

\* collect_thermal: the query fails, or gives no object or one without the property; or it
\* gives the temperature.
CollectThermal ==
  /\ InCollector("thermal") /\ pc' = "pushing"
  /\ plan' \in {<<>>, <<Reading(Metric("temp.zone_c"), 0, TRUE)>>}
  /\ UNCHANGED <<loop, at, last, throws, enumerated>>

\* Processes in descending order of their load; std::sort leaves equal ones in any order.
Rankings(load) ==
  {s \in SetToSeqs(DOMAIN load) : \A i, j \in DOMAIN s : i < j => load[s[i]] >= load[s[j]]}

\* Mutant: slots without a process are left alone.
SlotPushesShort(i, ranking, load) ==
  IF i <= Len(ranking)
    THEN <<Reading(Cpu(i), load[ranking[i]], TRUE), Reading(Name(i), NameOf[ranking[i]], TRUE)>>
    ELSE <<>>

\* Mutant: the name goes first.
SlotPushesNameFirst(i, ranking, load) ==
  IF i <= Len(ranking)
    THEN <<Reading(Name(i), NameOf[ranking[i]], TRUE), Reading(Cpu(i), load[ranking[i]], TRUE)>>
    ELSE <<Reading(Cpu(i), 0, FALSE)>>

\* What is pushed for a slot: load and name, or that there is no load; the name stays.
SlotPushes(i, ranking, load) ==
  IF i <= Len(ranking)
    THEN <<Reading(Cpu(i), load[ranking[i]], TRUE), Reading(Name(i), NameOf[ranking[i]], TRUE)>>
    ELSE <<Reading(Cpu(i), 0, FALSE)>>

\* collect_processes: nothing, when the counter cannot be added or gives no array; else the
\* entries are sorted and the first ten pushed.
CollectProcesses ==
  /\ InCollector("processes") /\ pc' = "pushing"
  /\ \/ plan' = <<>> /\ UNCHANGED enumerated
     \/ \E running \in SUBSET Processes : \E load \in [running -> Loads] :
          /\ \E ranking \in Rankings(load) :
               plan' = FlattenSeq([i \in 1..TopN |-> SlotPushes(i, ranking, load)])
          /\ enumerated' = [turn |-> ticks, load |-> load, whole |-> FALSE]
  /\ UNCHANGED <<loop, at, last, throws>>

Next ==
  \/ Tick \/ Skip \/ Run \/ EndTurn \/ Push \/ Return \/ Throw
  \/ CollectPdh \/ CollectThermal \/ CollectProcesses

Spec == Init /\ [][Next]_vars

-----------------------------------------------------------------------------
\* Turns between two runs of a collector: its interval in ticks, rounded up.
Period(c) == IF Interval[c] <= TickMs THEN 1 ELSE (Interval[c] + TickMs - 1) \div TickMs

\* docs/architecture.md:85: each collector runs in every turn that is a multiple of its period
\* and in no other, whichever of those before it threw or returned early.
OnSchedule ==
  pc = "asleep" =>
    \A c \in Collector : lastRun[c] = Period(c) * (ticks \div Period(c))

\* docs/collectors.md:146,158: between two turns the slots are one enumeration's: its
\* processes of the highest load in descending order, each once and with its own name,
\* which others may have too, and no load in the other slots. An enumeration that
\* throws while it pushes is left aside until the next.
TopListWhole ==
  (pc = "asleep" /\ enumerated.turn > 0 /\ enumerated.whole) =>
    LET load  == enumerated.load
        taken == {i \in 1..TopN : i <= Cardinality(DOMAIN load)}
    IN  /\ \A i \in 1..TopN :
             /\ last[Cpu(i)].turn = enumerated.turn /\ last[Cpu(i)].known = (i \in taken)
             /\ i \notin taken => last[Cpu(i)].value = 0
        /\ \A i, j \in taken : i < j => last[Cpu(i)].value >= last[Cpu(j)].value
        /\ \E shown \in [taken -> DOMAIN load] :
             /\ \A i, j \in taken : i # j => shown[i] # shown[j]
             /\ \A i \in taken : /\ last[Cpu(i)].value = load[shown[i]]
                                 /\ last[Name(i)].value = NameOf[shown[i]]
             /\ \A p \in DOMAIN load :
                  (\A i \in taken : shown[i] # p) =>
                    \A i \in taken : load[p] <= last[Cpu(i)].value

\* A snapshot taken in the middle of the pushes shows one slot at most whose load has the name
\* of an earlier enumeration, and one more for each that threw; never a name that is newer
\* than the load beside it.
NamesFollow ==
  LET mixed == {i \in 1..TopN : last[Cpu(i)].known /\ last[Name(i)].turn < last[Cpu(i)].turn}
  IN  /\ Cardinality(mixed) <= 1 + throws
      /\ \A i \in 1..TopN : last[Name(i)].turn <= last[Cpu(i)].turn

=============================================================================
