------------------------------- MODULE Alerts -------------------------------
(***************************************************************************)
(* AlertEvaluator (src/src/metrics/alert_evaluator.cpp) on the schedule of *)
(* the sampler's thread (src/src/core/sampler.cpp): each tick the          *)
(* collectors push readings into the registry or fail and leave the old    *)
(* ones; every FlushEvery ticks the last collector evaluates what is       *)
(* there. A reading is abstracted to its side of the threshold.            *)
(***************************************************************************)
EXTENDS Integers

CONSTANTS
  Rules,       \* the metrics with a threshold
  Sustained,   \* Sustained[r]: violations in a row that make an alert
  MayBeUnknown, \* rules that pass over a reading of unknown quality
  Cooldown,    \* cooldown_minutes, in seconds
  FlushEvery,  \* ticks between two evaluations
  MaxWait,     \* most seconds between two turns: an assumption on the collectors, see Tick
  Starts,      \* times at which the service is first started
  Jumps,       \* by how much the wall clock may be set, once
  MaxSeconds, MaxRuns   \* bounds: seconds and starts of the service in a behaviour

ASSUME AlertsAssumption ==
  /\ Sustained \in [Rules -> Nat \ {0}] /\ MayBeUnknown \subseteq Rules
  /\ Cooldown \in Nat /\ FlushEvery \in Nat \ {0} /\ MaxWait \in Nat \ {0}
  /\ Starts \subseteq Nat \ {0} /\ Jumps \subseteq Int
  /\ MaxSeconds \in Nat /\ MaxRuns \in Nat

VARIABLES
  now, seconds, jump,     \* the wall clock; seconds really passed; how it was set
  pc, elapsed,            \* sampler's thread; elapsed_ms of aggregator_flush, in ticks
  reading,                \* last_sample of each metric
  violations, lastAlert,  \* state_: violation_count and last_alert_ts
  events,                 \* the alerts written, with what the properties need
  runs, started,          \* bound; history: second of the latest start
  highSince,              \* history: second since which no reading was below the threshold
  calmAt                  \* history: second of the last evaluation that found none

clock == <<now, seconds, jump>>
state == <<violations, lastAlert>>
history == <<started, highSince, calmAt>>
vars == <<clock, pc, elapsed, reading, state, events, runs, history>>

Never == -1
Fresh ==
  /\ elapsed' = 0
  /\ reading' = [r \in Rules |-> "none"]
  /\ violations' = [r \in Rules |-> 0] /\ lastAlert' = [r \in Rules |-> 0]
  /\ highSince' = [r \in Rules |-> Never]
  /\ started' = seconds /\ calmAt' = [r \in Rules |-> seconds]

Init ==
  /\ now \in Starts /\ seconds = 0 /\ jump = 0
  /\ pc = "down" /\ elapsed = 0 /\ runs = 0 /\ events = {}
  /\ reading = [r \in Rules |-> "none"]
  /\ violations = [r \in Rules |-> 0] /\ lastAlert = [r \in Rules |-> 0]
  /\ highSince = [r \in Rules |-> Never]
  /\ started = 0 /\ calmAt = [r \in Rules |-> 0]

-----------------------------------------------------------------------------
(* The service.                                                            *)

\* A new process has a new registry and evaluator: no reading, count or cooldown.
Start ==
  /\ pc = "down" /\ runs < MaxRuns
  /\ pc' = "asleep" /\ runs' = runs + 1
  /\ Fresh
  /\ UNCHANGED <<clock, events>>

Stop ==
  /\ pc = "asleep" /\ pc' = "down"
  /\ UNCHANGED <<clock, elapsed, reading, state, events, runs, history>>

\* Time passes, `wait` seconds of it; the wall clock may be set.
Pass(wait) ==
  /\ seconds + wait <= MaxSeconds
  /\ seconds' = seconds + wait
  /\ \E j \in Jumps \cup {0} :
       /\ j # 0 => jump = 0 /\ now + wait + j > 0
       /\ jump' = jump + j /\ now' = now + wait + j

Wait ==
  /\ pc = "down" /\ Pass(1)
  /\ UNCHANGED <<pc, elapsed, reading, state, events, runs, history>>

\* The timer is set once a second; a late thread finds it set and goes on. The thread
\* waits two seconds for it at most, or ends; how long the collectors of the turn before
\* took nothing bounds (the thermal one asks WMI without a timeout). MaxWait covers
\* both, so that AlertsInTime is about turns that take so long at most.
Tick ==
  /\ pc = "asleep" /\ pc' = "collect"
  /\ \E wait \in 1..MaxWait : Pass(wait)
  /\ elapsed' = elapsed + 1
  /\ UNCHANGED <<reading, state, events, runs, history>>

-----------------------------------------------------------------------------
(* A turn of the sampler's loop.                                           *)

Readings(r) == {"low", "high"} \cup (IF r \in MayBeUnknown THEN {"unknown"} ELSE {})

\* The collectors, in order; one that fails or throws pushes nothing.
Collect ==
  /\ pc = "collect"
  /\ \E new \in [Rules -> {"low", "high", "unknown", "none"}] :
       /\ \A r \in Rules : new[r] \in Readings(r) \cup {"none"}
       /\ reading' = [r \in Rules |-> IF new[r] = "none" THEN reading[r] ELSE new[r]]
       /\ highSince' = [r \in Rules |->
            CASE new[r] = "none" -> highSince[r]
              [] new[r] = "high" -> IF highSince[r] = Never THEN seconds ELSE highSince[r]
              [] OTHER -> Never]
  /\ pc' = IF elapsed >= FlushEvery THEN "evaluate" ELSE "asleep"
  /\ UNCHANGED <<clock, elapsed, state, events, runs, started, calmAt>>

\* Mutant: the cooldown is not looked at.
CoolAlways(r) == TRUE

Cool(r) == lastAlert[r] = 0 \/ now - lastAlert[r] >= Cooldown

\* Mutant: a reading below the threshold does not clear the count.
CountKept(r) ==
  CASE reading[r] \in {"none", "unknown", "low"} -> violations[r]
    [] OTHER -> IF violations[r] + 1 >= Sustained[r] /\ Cool(r) THEN 0 ELSE violations[r] + 1

\* violation_count after check_threshold; evaluate skips what has no reading or an
\* unknown one.
Count(r) ==
  CASE reading[r] \in {"none", "unknown"} -> violations[r]
    [] reading[r] = "low" -> 0
    [] OTHER -> IF violations[r] + 1 >= Sustained[r] /\ Cool(r) THEN 0 ELSE violations[r] + 1

\* Mutant: off by one.
FiresLate(r) == reading[r] = "high" /\ violations[r] + 1 > Sustained[r] /\ Cool(r)

Fires(r) == reading[r] = "high" /\ violations[r] + 1 >= Sustained[r] /\ Cool(r)

\* Mutant: the elapsed time is not reset.
EvaluateAgain ==
  /\ pc = "evaluate" /\ pc' = "asleep" /\ elapsed' = elapsed
  /\ violations' = [r \in Rules |-> Count(r)]
  /\ lastAlert' = [r \in Rules |-> IF Fires(r) THEN now ELSE lastAlert[r]]
  /\ events' = events \cup
       {[rule |-> r, at |-> seconds, run |-> runs, jump |-> jump, calm |-> calmAt[r]] :
          r \in {q \in Rules : Fires(q)}}
  /\ calmAt' = [r \in Rules |-> IF reading[r] = "low" THEN seconds ELSE calmAt[r]]
  /\ UNCHANGED <<clock, reading, runs, started, highSince>>

\* evaluate: check_threshold for every rule.
Evaluate ==
  /\ pc = "evaluate" /\ pc' = "asleep" /\ elapsed' = 0
  /\ violations' = [r \in Rules |-> Count(r)]
  /\ lastAlert' = [r \in Rules |-> IF Fires(r) THEN now ELSE lastAlert[r]]
  /\ events' = events \cup
       {[rule |-> r, at |-> seconds, run |-> runs, jump |-> jump, calm |-> calmAt[r]] :
          r \in {q \in Rules : Fires(q)}}
  /\ calmAt' = [r \in Rules |-> IF reading[r] = "low" THEN seconds ELSE calmAt[r]]
  /\ UNCHANGED <<clock, reading, runs, started, highSince>>

Next == Start \/ Stop \/ Wait \/ Tick \/ Collect \/ Evaluate

Spec == Init /\ [][Next]_vars

-----------------------------------------------------------------------------
\* Type invariant of the evaluator.
TypeOK ==
  /\ now \in Int /\ seconds \in Nat /\ jump \in Int
  /\ pc \in {"down", "asleep", "collect", "evaluate"} /\ elapsed \in 0..FlushEvery
  /\ reading \in [Rules -> {"none", "low", "high", "unknown"}]
  /\ violations \in [Rules -> Nat] /\ lastAlert \in [Rules -> Int]
  /\ events \subseteq
       [rule : Rules, at : Nat, run : Nat, jump : Int, calm : Nat]
  /\ runs \in Nat /\ started \in Nat
  /\ highSince \in [Rules -> Nat \cup {Never}] /\ calmAt \in [Rules -> Nat]

\* docs: include/pulseport/alert_evaluator.h:15-16, sustained violations. An alert comes after
\* as many full periods of evaluation since the last reading below the threshold
\* was evaluated, or since the start, whatever is late, unknown or missing between.
AlertsSustained ==
  \A e \in events : e.at - e.calm >= Sustained[e.rule] * FlushEvery

\* Two alerts of a rule in one run of the service are the cooldown apart, and as
\* many periods as make a new sustained violation, unless the clock was set between.
AlertsSpaced ==
  \A e, f \in events :
    (e.rule = f.rule /\ e.run = f.run /\ e.jump = f.jump /\ e.at < f.at) =>
      /\ f.at - e.at >= Cooldown
      /\ f.at - e.at >= Sustained[e.rule] * FlushEvery

Later(s, t) == IF s >= t THEN s ELSE t
Period == FlushEvery * MaxWait

\* Seconds of the alerts of a rule in this run.
Alerted(r) == {e.at : e \in {f \in events : f.rule = r /\ f.run = runs}}
LastAlerted(r) == CHOOSE t \in Alerted(r) : \A s \in Alerted(r) : s <= t

\* The second by which a rule that is violated without a pause must have its next alert:
\* the periods that count, the cooldown, and how far the clock was set back.
Due(r) ==
  LET sustained(from) == from + Sustained[r] * Period
      first == sustained(highSince[r] - MaxWait)
  IN  IF Alerted(r) = {} THEN first
      ELSE Later(Later(first, sustained(LastAlerted(r))),
                 LastAlerted(r) + Cooldown + Later(-jump, 0) + Period)

\* A threshold that every reading violates raises an alert in bounded time, again after
\* each cooldown, also when readings fail to come and ticks are up to MaxWait late.
AlertsInTime ==
  pc = "asleep" =>
    \A r \in Rules : highSince[r] # Never => seconds <= Due(r)

=============================================================================
