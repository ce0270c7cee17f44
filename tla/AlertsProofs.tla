---------------------------- MODULE AlertsProofs ----------------------------
(***************************************************************************)
(* Proofs about the alerts, for every set of rules, cooldown, schedule and *)
(* jump of the clock: what an alert needs before it and what lies between  *)
(* two of them.                                                            *)
(***************************************************************************)
EXTENDS Alerts, TLAPS

\* The alerts of a rule in this run of the service.
Own(r) == {e \in events : e.rule = r /\ e.run = runs}

\* What no step changes: the wall clock is set by `jump` only.
Origin == now - seconds - jump

\* The alert that Evaluate writes for a rule.
Alert(r) == [rule |-> r, at |-> seconds, run |-> runs, jump |-> jump, calm |-> calmAt[r]]

-----------------------------------------------------------------------------
(* The inductive invariant.                                                *)

\* elapsed_ms reaches the interval in the tick that evaluates, and not before.
Scheduled ==
  /\ pc = "asleep" => elapsed < FlushEvery
  /\ pc = "evaluate" => elapsed = FlushEvery
  /\ now > 0

\* A count of n violations took n periods: since the last calm evaluation, and since
\* the last alert, which cleared the count.
CountsTakeTime ==
  \A r \in Rules :
    /\ seconds - calmAt[r] >= violations[r] * FlushEvery + elapsed
    /\ \A e \in Own(r) : seconds - e.at >= violations[r] * FlushEvery + elapsed

\* Alerts lie in the past; in a run, those after the clock was set come after those before.
EventsInOrder ==
  /\ \A e \in events : e.at <= seconds /\ e.run <= runs /\ e.jump \in {0, jump}
  /\ \A r \in Rules : \A e, f \in Own(r) : (e.at <= f.at /\ e.jump = jump) => f.jump = jump

\* last_alert_ts is the wall clock's time of the latest alert in this run.
LastAlertIsLatest ==
  \A r \in Rules :
    \/ Own(r) = {}
    \/ /\ lastAlert[r] # 0
       /\ \E f \in Own(r) :
            /\ lastAlert[r] = f.at + f.jump + Origin
            /\ \A e \in Own(r) : e.at <= f.at

Counted == Scheduled /\ CountsTakeTime /\ EventsInOrder /\ LastAlertIsLatest

Inv == TypeOK /\ Counted /\ AlertsSustained /\ AlertsSpaced

-----------------------------------------------------------------------------
(* Lemmas.                                                                 *)

LEMMA PeriodsGrow ==
  ASSUME NEW a \in Nat, NEW b \in Nat, NEW p \in Nat, a >= b
  PROVE  a * p \in Nat /\ b * p \in Nat /\ a * p >= b * p /\ (a + 1) * p = a * p + p
<1>1. PICK d \in Nat : a = b + d
  <2>1. a - b \in Nat /\ a = b + (a - b)
    OBVIOUS
  <2> QED BY <2>1
<1>2. a * p = b * p + d * p /\ d * p \in Nat /\ b * p \in Nat
  BY <1>1
<1>3. (a + 1) * p = a * p + p
  OBVIOUS
<1> QED BY <1>1, <1>2, <1>3

LEMMA EventTypes ==
  ASSUME TypeOK, NEW e \in events
  PROVE  e.rule \in Rules /\ e.at \in Nat /\ e.run \in Nat /\ e.jump \in Int /\ e.calm \in Nat
BY DEF TypeOK

LEMMA FiresCounts ==
  ASSUME TypeOK, NEW r \in Rules
  PROVE  /\ Fires(r) => /\ reading[r] = "high" /\ Count(r) = 0 /\ Cool(r)
                        /\ violations[r] + 1 >= Sustained[r]
         /\ Count(r) \in {0, violations[r], violations[r] + 1}
         /\ (reading[r] = "low") => (Count(r) = 0)
         /\ violations[r] \in Nat /\ Count(r) \in Nat
<1>1. reading[r] \in {"none", "low", "high", "unknown"} /\ violations[r] \in Nat
  BY DEF TypeOK
<1> QED BY <1>1 DEF Fires, Count

LEMMA EvaluateUnfolded ==
  ASSUME TypeOK, Evaluate
  PROVE  /\ \A r \in Rules :
              /\ violations'[r] = Count(r)
              /\ lastAlert'[r] = IF Fires(r) THEN now ELSE lastAlert[r]
              /\ calmAt'[r] = IF reading[r] = "low" THEN seconds ELSE calmAt[r]
         /\ \A e \in events' : e \in events \/ \E r \in Rules : Fires(r) /\ e = Alert(r)
         /\ \A r \in Rules : Fires(r) => Alert(r) \in events'
         /\ events \subseteq events'
         /\ pc = "evaluate" /\ pc' = "asleep" /\ elapsed' = 0
         /\ UNCHANGED <<now, seconds, jump, reading, runs, started, highSince>>
BY DEF Evaluate, Alert, clock

-----------------------------------------------------------------------------
(* Types.                                                                  *)

LEMMA TypeInit == Init => TypeOK /\ Scheduled
<1> SUFFICES ASSUME Init PROVE TypeOK /\ Scheduled
  OBVIOUS
<1>1. now \in Int /\ now > 0
  BY AlertsAssumption DEF Init
<1>2. /\ [r \in Rules |-> "none"] \in [Rules -> {"none", "low", "high", "unknown"}]
      /\ [r \in Rules |-> 0] \in [Rules -> Nat] /\ [r \in Rules |-> 0] \in [Rules -> Int]
      /\ [r \in Rules |-> Never] \in [Rules -> Nat \cup {Never}]
  OBVIOUS
<1>3. elapsed \in 0..FlushEvery /\ seconds \in Nat /\ jump \in Int /\ runs \in Nat /\ started \in Nat
  BY AlertsAssumption DEF Init
<1>4. TypeOK
  BY <1>1, <1>2, <1>3 DEF Init, TypeOK
<1>5. Scheduled
  BY <1>1 DEF Init, Scheduled
<1> QED BY <1>4, <1>5

LEMMA TypeStep == TypeOK /\ Scheduled /\ [Next]_vars => TypeOK' /\ Scheduled'
<1> SUFFICES ASSUME TypeOK, Scheduled, [Next]_vars PROVE TypeOK' /\ Scheduled'
  OBVIOUS
<1> USE DEF clock, state, history
<1>1. CASE Start
  <2>1. /\ reading' \in [Rules -> {"none", "low", "high", "unknown"}]
        /\ violations' \in [Rules -> Nat] /\ lastAlert' \in [Rules -> Int]
        /\ highSince' \in [Rules -> Nat \cup {Never}] /\ calmAt' \in [Rules -> Nat]
    BY <1>1 DEF Start, Fresh, TypeOK
  <2>2. elapsed' = 0 /\ started' = seconds /\ runs' = runs + 1 /\ pc' = "asleep"
        /\ UNCHANGED <<now, seconds, jump, events>>
    BY <1>1 DEF Start, Fresh
  <2>3. elapsed' \in 0..FlushEvery /\ elapsed' < FlushEvery
    BY <2>2, AlertsAssumption
  <2> QED BY <2>1, <2>2, <2>3 DEF TypeOK, Scheduled
<1>2. CASE Stop
  BY <1>2 DEF Stop, TypeOK, Scheduled
<1>3. ASSUME NEW wait \in 1..MaxWait, Pass(wait)
      PROVE  now' \in Int /\ now' > 0 /\ seconds' \in Nat /\ jump' \in Int
  BY <1>3, AlertsAssumption DEF Pass, TypeOK, Scheduled
<1>4. CASE Wait
  <2>1. 1 \in 1..MaxWait
    BY AlertsAssumption
  <2> QED BY <1>3, <1>4, <2>1 DEF Wait, TypeOK, Scheduled
<1>5. CASE Tick
  <2>1. now' \in Int /\ now' > 0 /\ seconds' \in Nat /\ jump' \in Int
    BY <1>3, <1>5 DEF Tick
  <2>2. elapsed' \in 0..FlushEvery /\ pc' = "collect"
    BY <1>5, AlertsAssumption DEF Tick, TypeOK, Scheduled
  <2>3. UNCHANGED <<reading, violations, lastAlert, events, runs, started, highSince, calmAt>>
    BY <1>5 DEF Tick
  <2> QED BY <2>1, <2>2, <2>3 DEF TypeOK, Scheduled
<1>6. CASE Collect
  <2>1. PICK new \in [Rules -> {"low", "high", "unknown", "none"}] :
          /\ reading' = [r \in Rules |-> IF new[r] = "none" THEN reading[r] ELSE new[r]]
          /\ highSince' = [r \in Rules |->
               CASE new[r] = "none" -> highSince[r]
                 [] new[r] = "high" -> IF highSince[r] = Never THEN seconds ELSE highSince[r]
                 [] OTHER -> Never]
    BY <1>6 DEF Collect
  <2>2. reading' \in [Rules -> {"none", "low", "high", "unknown"}]
    BY <2>1 DEF TypeOK
  <2>3. highSince' \in [Rules -> Nat \cup {Never}]
    <3>1. \A r \in Rules : highSince[r] \in Nat \cup {Never} /\ seconds \in Nat
      BY DEF TypeOK
    <3>2. ASSUME NEW r \in Rules PROVE highSince'[r] \in Nat \cup {Never}
      BY <2>1, <3>1
    <3> QED BY <2>1, <3>2
  <2>4. /\ pc' = IF elapsed >= FlushEvery THEN "evaluate" ELSE "asleep"
        /\ UNCHANGED <<now, seconds, jump, elapsed, violations, lastAlert, events, runs,
                       started, calmAt>>
    BY <1>6 DEF Collect
  <2> QED BY <2>2, <2>3, <2>4, AlertsAssumption DEF TypeOK, Scheduled
<1>7. CASE Evaluate
  <2>1. violations' \in [Rules -> Nat]
    <3>1. \A r \in Rules : Count(r) \in Nat
      BY FiresCounts
    <3> QED BY <1>7, <3>1 DEF Evaluate
  <2>2. lastAlert' \in [Rules -> Int] /\ calmAt' \in [Rules -> Nat]
    BY <1>7 DEF Evaluate, TypeOK
  <2>3. events' \subseteq [rule : Rules, at : Nat, run : Nat, jump : Int, calm : Nat]
    <3>1. \A r \in Rules : Alert(r) \in [rule : Rules, at : Nat, run : Nat, jump : Int, calm : Nat]
      BY DEF Alert, TypeOK
    <3> QED BY <1>7, <3>1, EvaluateUnfolded DEF TypeOK
  <2>4. /\ pc' = "asleep" /\ elapsed' = 0
        /\ UNCHANGED <<now, seconds, jump, reading, runs, started, highSince>>
    BY <1>7 DEF Evaluate
  <2>5. elapsed' \in 0..FlushEvery /\ elapsed' < FlushEvery
    BY <2>4, AlertsAssumption
  <2> QED BY <2>1, <2>2, <2>3, <2>4, <2>5 DEF TypeOK, Scheduled
<1>8. CASE UNCHANGED vars
  BY <1>8 DEF vars, TypeOK, Scheduled
<1> QED BY <1>1, <1>2, <1>4, <1>5, <1>6, <1>7, <1>8 DEF Next

\* The types, and that elapsed_ms never passes the interval.
THEOREM TypeCorrect == Spec => []TypeOK
BY TypeInit, TypeStep, PTL DEF Spec

-----------------------------------------------------------------------------
(* Counts, alerts and clocks.                                              *)

LEMMA CountedInit == Init => Counted /\ AlertsSustained /\ AlertsSpaced
<1> SUFFICES ASSUME Init PROVE Counted /\ AlertsSustained /\ AlertsSpaced
  OBVIOUS
<1>1. events = {} /\ seconds = 0 /\ elapsed = 0 /\ \A r \in Rules : Own(r) = {}
  BY DEF Init, Own
<1>2. \A r \in Rules : calmAt[r] = 0 /\ violations[r] = 0
  BY DEF Init
<1>3. CountsTakeTime
  <2>1. 0 * FlushEvery = 0
    BY AlertsAssumption
  <2>2. 0 - 0 >= 0 + 0
    OBVIOUS
  <2>3. \A r \in Rules : seconds - calmAt[r] >= violations[r] * FlushEvery + elapsed
    BY <1>1, <1>2, <2>1, <2>2
  <2> QED BY <1>1, <2>3 DEF CountsTakeTime
<1> QED BY <1>1, <1>3, TypeInit
    DEF Counted, EventsInOrder, LastAlertIsLatest, AlertsSustained, AlertsSpaced

\* Time that passes, and collectors, write no alert.
LEMMA CountedPasses ==
  ASSUME TypeOK, Counted, NEW wait \in Nat, seconds' = seconds + wait,
         UNCHANGED <<violations, lastAlert, calmAt, events, runs>>,
         elapsed' \in Nat, elapsed' <= elapsed + wait,
         NEW d \in Int, d = 0 \/ jump = 0, jump' = jump + d, now' = now + wait + d
  PROVE  CountsTakeTime' /\ EventsInOrder' /\ LastAlertIsLatest'
<1>0. /\ seconds \in Nat /\ elapsed \in Nat /\ now \in Int /\ jump \in Int
      /\ \A r \in Rules : calmAt[r] \in Nat /\ violations[r] * FlushEvery \in Nat
  <2>1. \A r \in Rules : violations[r] \in Nat /\ violations[r] >= violations[r]
    BY DEF TypeOK
  <2>2. \A r \in Rules : violations[r] * FlushEvery \in Nat
    BY <2>1, PeriodsGrow, AlertsAssumption
  <2> QED BY <2>2, AlertsAssumption DEF TypeOK
<1>1. Origin' = Origin
  <2>1. (now + wait + d) - (seconds + wait) - (jump + d) = now - seconds - jump
    BY <1>0
  <2> QED BY <2>1 DEF Origin
<1>2. \A r \in Rules : Own(r)' = Own(r)
  BY DEF Own
<1>3. CountsTakeTime'
  <2> SUFFICES ASSUME NEW r \in Rules
      PROVE  /\ seconds' - calmAt[r] >= violations[r] * FlushEvery + elapsed'
             /\ \A e \in Own(r) : seconds' - e.at >= violations[r] * FlushEvery + elapsed'
    BY <1>2 DEF CountsTakeTime
  <2>1. /\ seconds - calmAt[r] >= violations[r] * FlushEvery + elapsed
        /\ \A e \in Own(r) : seconds - e.at >= violations[r] * FlushEvery + elapsed
    BY DEF Counted, CountsTakeTime
  <2>2. \A e \in Own(r) : e.at \in Nat
    BY EventTypes DEF Own
  <2> DEFINE counted == violations[r] * FlushEvery
  <2>3. counted \in Nat
    BY <1>0
  <2> HIDE DEF counted
  <2>4. /\ seconds - calmAt[r] >= counted + elapsed
        /\ \A e \in Own(r) : seconds - e.at >= counted + elapsed
    BY <2>1 DEF counted
  <2>5. /\ seconds' - calmAt[r] >= counted + elapsed'
        /\ \A e \in Own(r) : seconds' - e.at >= counted + elapsed'
    BY <1>0, <2>2, <2>3, <2>4
  <2> QED BY <2>5 DEF counted
<1>4. EventsInOrder'
  <2>1. \A e \in events : e.at \in Nat /\ e.at <= seconds /\ e.run <= runs /\ e.jump \in Int
    BY EventTypes DEF Counted, EventsInOrder
  <2>2. \A e \in events : e.at <= seconds' /\ e.run <= runs' /\ e.jump \in {0, jump'}
    BY <1>0, <2>1 DEF Counted, EventsInOrder
  <2>3. ASSUME NEW r \in Rules, NEW e \in Own(r), NEW f \in Own(r), e.at <= f.at, e.jump = jump'
        PROVE  f.jump = jump'
    <3>1. CASE d = 0
      BY <1>0, <2>3, <3>1 DEF Counted, EventsInOrder
    <3>2. CASE d # 0
      \* No alert yet carries the new setting of the clock, which was never set before.
      <4>1. e.jump \in {0, jump}
        BY <2>3, <3>2 DEF Counted, EventsInOrder, Own
      <4> QED BY <1>0, <2>3, <3>2, <4>1
    <3> QED BY <3>1, <3>2
  <2> QED BY <1>2, <2>2, <2>3 DEF EventsInOrder
<1>5. LastAlertIsLatest'
  BY <1>1, <1>2 DEF Counted, LastAlertIsLatest
<1> QED BY <1>3, <1>4, <1>5

\* A new process starts with no count, cooldown or alert of its own.
LEMMA CountedStart ==
  ASSUME TypeOK, Counted, Start PROVE CountsTakeTime' /\ EventsInOrder' /\ LastAlertIsLatest'
<1>1. /\ UNCHANGED <<now, seconds, jump, events>> /\ runs' = runs + 1 /\ elapsed' = 0
      /\ \A r \in Rules : violations'[r] = 0 /\ calmAt'[r] = seconds
  BY DEF Start, Fresh, clock
<1>2. \A e \in events : e.run \in Nat /\ e.run <= runs
  BY EventTypes DEF Counted, EventsInOrder
<1>3. \A r \in Rules : Own(r)' = {}
  BY <1>1, <1>2 DEF Own, TypeOK
<1>4. CountsTakeTime'
  BY <1>1, <1>3, AlertsAssumption DEF CountsTakeTime, TypeOK
<1>5. EventsInOrder'
  BY <1>1, <1>2, <1>3 DEF EventsInOrder, Counted, TypeOK
<1> QED BY <1>3, <1>4, <1>5 DEF LastAlertIsLatest

LEMMA CountedEvaluate ==
  ASSUME TypeOK, Counted, Evaluate PROVE CountsTakeTime' /\ EventsInOrder' /\ LastAlertIsLatest'
<1>1. /\ pc = "evaluate" /\ elapsed = FlushEvery /\ elapsed' = 0 /\ seconds' = seconds
      /\ runs' = runs /\ jump' = jump /\ now' = now
  BY EvaluateUnfolded DEF Counted, Scheduled
<1>2. seconds \in Nat /\ runs \in Nat /\ jump \in Int /\ FlushEvery \in Nat /\ now \in Int
  BY AlertsAssumption DEF TypeOK
<1>3. \A r \in Rules : Own(r)' = Own(r) \cup (IF Fires(r) THEN {Alert(r)} ELSE {})
  <2>1. \A r \in Rules : Alert(r).rule = r /\ Alert(r).run = runs
    BY DEF Alert
  <2> QED BY <1>1, <2>1, EvaluateUnfolded DEF Own
<1>4. CountsTakeTime'
  <2> SUFFICES ASSUME NEW r \in Rules
      PROVE  /\ seconds - calmAt'[r] >= violations'[r] * FlushEvery + 0
             /\ \A e \in Own(r)' : seconds - e.at >= violations'[r] * FlushEvery + 0
    BY <1>1 DEF CountsTakeTime
  <2>1. /\ seconds - calmAt[r] >= violations[r] * FlushEvery + FlushEvery
        /\ \A e \in Own(r) : seconds - e.at >= violations[r] * FlushEvery + FlushEvery
    BY <1>1 DEF Counted, CountsTakeTime
  <2>2. \A e \in Own(r) : e.at \in Nat
    BY EventTypes DEF Own
  <2>3. calmAt[r] \in Nat /\ violations[r] \in Nat /\ Count(r) \in Nat /\ violations[r] + 1 \in Nat
    BY FiresCounts DEF TypeOK
  <2>4. /\ violations[r] * FlushEvery \in Nat /\ Count(r) * FlushEvery \in Nat
        /\ (violations[r] + 1) * FlushEvery = violations[r] * FlushEvery + FlushEvery
        /\ (violations[r] + 1) * FlushEvery >= Count(r) * FlushEvery
    <3>1. violations[r] + 1 >= Count(r)
      BY <2>3, FiresCounts
    <3> QED BY <1>2, <2>3, <3>1, PeriodsGrow
  <2>5. /\ seconds - calmAt[r] >= Count(r) * FlushEvery
        /\ \A e \in Own(r) : seconds - e.at >= Count(r) * FlushEvery
    <3> DEFINE counted == violations[r] * FlushEvery
               next == Count(r) * FlushEvery
    <3>1. counted \in Nat /\ next \in Nat /\ counted + FlushEvery >= next
      BY <2>4
    <3>2. /\ seconds - calmAt[r] >= counted + FlushEvery
          /\ \A e \in Own(r) : seconds - e.at >= counted + FlushEvery
      BY <2>1
    <3> HIDE DEF counted, next
    <3>3. /\ seconds - calmAt[r] >= next
          /\ \A e \in Own(r) : seconds - e.at >= next
      BY <1>2, <2>2, <2>3, <3>1, <3>2
    <3> QED BY <3>3 DEF next
  <2>6. Count(r) = 0 => Count(r) * FlushEvery = 0
    BY <1>2
  <2>7. violations'[r] = Count(r)
    BY EvaluateUnfolded
  <2>8. seconds - calmAt'[r] >= Count(r) * FlushEvery
    <3>1. calmAt'[r] = IF reading[r] = "low" THEN seconds ELSE calmAt[r]
      BY EvaluateUnfolded
    <3>2. reading[r] = "low" => Count(r) * FlushEvery = 0
      BY <2>6, FiresCounts
    <3> QED BY <1>2, <2>5, <3>1, <3>2
  <2>9. \A e \in Own(r)' : seconds - e.at >= Count(r) * FlushEvery
    <3>1. Fires(r) => Count(r) * FlushEvery = 0 /\ Alert(r).at = seconds
      BY <2>6, FiresCounts DEF Alert
    <3> QED BY <1>2, <1>3, <2>5, <3>1
  <2>10. Count(r) * FlushEvery + 0 = Count(r) * FlushEvery
    BY <2>4
  <2> QED BY <2>7, <2>8, <2>9, <2>10
<1>5. EventsInOrder'
  <2>1. \A r \in Rules : Alert(r).at = seconds /\ Alert(r).run = runs /\ Alert(r).jump = jump
    BY DEF Alert
  <2>2. \A e \in events : e.at \in Nat /\ e.at <= seconds
    BY EventTypes DEF Counted, EventsInOrder
  <2>3. \A e \in events' : e.at <= seconds' /\ e.run <= runs' /\ e.jump \in {0, jump'}
    BY <1>1, <1>2, <2>1, EvaluateUnfolded DEF Counted, EventsInOrder
  <2>4. ASSUME NEW r \in Rules, NEW e \in Own(r)', NEW f \in Own(r)', e.at <= f.at, e.jump = jump
        PROVE  f.jump = jump
    <3>1. CASE f \in Own(r) /\ e \in Own(r)
      BY <2>4, <3>1 DEF Counted, EventsInOrder
    <3>2. CASE f \notin Own(r)
      BY <1>3, <2>1, <3>2
    <3>3. CASE f \in Own(r) /\ e \notin Own(r)
      \* The last evaluation was a period ago.
      <4>1. e.at = seconds
        BY <1>3, <2>1, <3>3
      <4>2. f.at \in Nat /\ seconds - f.at >= violations[r] * FlushEvery + FlushEvery
        BY <1>1, <3>3, EventTypes DEF Counted, CountsTakeTime, Own
      <4>3. violations[r] * FlushEvery \in Nat /\ FlushEvery > 0
        BY PeriodsGrow, FiresCounts, AlertsAssumption
      <4> QED BY <1>2, <2>4, <4>1, <4>2, <4>3
    <3> QED BY <3>1, <3>2, <3>3
  <2> QED BY <1>1, <2>3, <2>4 DEF EventsInOrder
<1>6. LastAlertIsLatest'
  <2> SUFFICES ASSUME NEW r \in Rules
      PROVE  \/ Own(r)' = {}
             \/ /\ lastAlert'[r] # 0
                /\ \E f \in Own(r)' :
                     /\ lastAlert'[r] = f.at + f.jump + Origin'
                     /\ \A e \in Own(r)' : e.at <= f.at
    BY DEF LastAlertIsLatest
  <2>0. Origin' = Origin
    BY <1>1 DEF Origin
  <2>1. CASE Fires(r)
    <3>1. Alert(r) \in Own(r)' /\ Alert(r).at = seconds /\ Alert(r).jump = jump
      BY <1>3, <2>1 DEF Alert
    <3>2. lastAlert'[r] = now /\ now > 0 /\ now = seconds + jump + Origin
      BY <1>2, <2>1, EvaluateUnfolded DEF Counted, Scheduled, Origin
    <3>3. \A e \in Own(r)' : e.at <= seconds
      BY <1>1, <1>5 DEF EventsInOrder, Own
    <3> QED BY <1>2, <2>0, <3>1, <3>2, <3>3
  <2>2. CASE ~ Fires(r)
    <3>1. Own(r)' = Own(r) /\ lastAlert'[r] = lastAlert[r]
      BY <1>3, <2>2, EvaluateUnfolded
    <3> QED BY <2>0, <3>1 DEF Counted, LastAlertIsLatest
  <2> QED BY <2>1, <2>2
<1> QED BY <1>4, <1>5, <1>6

LEMMA CountedStep == TypeOK /\ Counted /\ [Next]_vars => Counted'
<1> SUFFICES ASSUME TypeOK, Counted, [Next]_vars
    PROVE  CountsTakeTime' /\ EventsInOrder' /\ LastAlertIsLatest'
  BY TypeStep DEF Counted
<1>0. elapsed \in Nat /\ seconds \in Nat /\ now \in Int /\ jump \in Int
  BY AlertsAssumption DEF TypeOK
<1>1. CASE Start
  BY <1>1, CountedStart
<1>2. CASE Stop
  <2>1. UNCHANGED <<now, seconds, jump, elapsed, violations, lastAlert, calmAt, events, runs>>
    BY <1>2 DEF Stop, clock, state, history
  <2>2. now' = now + 0 + 0 /\ jump' = jump + 0 /\ seconds' = seconds + 0 /\ 0 \in Nat
    BY <1>0, <2>1
  <2> QED BY <1>0, <2>1, <2>2, CountedPasses
<1>3. CASE Wait
  <2>1. UNCHANGED <<elapsed, violations, lastAlert, calmAt, events, runs>>
    BY <1>3 DEF Wait, state, history
  <2>2. PICK d \in Jumps \cup {0} :
          (d # 0 => jump = 0) /\ jump' = jump + d /\ now' = now + 1 + d /\ seconds' = seconds + 1
    BY <1>3 DEF Wait, Pass
  <2>3. d \in Int /\ 1 \in Nat
    BY AlertsAssumption
  <2> QED BY <1>0, <2>1, <2>2, <2>3, CountedPasses
<1>4. CASE Tick
  <2>1. UNCHANGED <<violations, lastAlert, calmAt, events, runs>> /\ elapsed' = elapsed + 1
    BY <1>4 DEF Tick, state, history
  <2>2. PICK wait \in 1..MaxWait : Pass(wait)
    BY <1>4 DEF Tick
  <2>3. wait \in Nat /\ wait >= 1
    BY AlertsAssumption
  <2>4. PICK d \in Jumps \cup {0} :
          /\ d # 0 => jump = 0
          /\ jump' = jump + d /\ now' = now + wait + d /\ seconds' = seconds + wait
    BY <2>2 DEF Pass
  <2>5. elapsed' \in Nat /\ elapsed' <= elapsed + wait
    BY <1>0, <2>1, <2>3
  <2>6. d \in Int
    BY AlertsAssumption
  <2> QED BY <2>1, <2>3, <2>4, <2>5, <2>6, CountedPasses
<1>5. CASE Collect \/ UNCHANGED vars
  <2>1. UNCHANGED <<now, seconds, jump, elapsed, violations, lastAlert, calmAt, events, runs>>
    BY <1>5 DEF Collect, clock, state, vars, history
  <2>2. now' = now + 0 + 0 /\ jump' = jump + 0 /\ seconds' = seconds + 0 /\ 0 \in Nat
    BY <1>0, <2>1
  <2> QED BY <1>0, <2>1, <2>2, CountedPasses
<1>6. CASE Evaluate
  BY <1>6, CountedEvaluate
<1> QED BY <1>1, <1>2, <1>3, <1>4, <1>5, <1>6 DEF Next

\* The moment of an alert: what has passed since the last calm evaluation, and since every
\* earlier alert of this run under the same setting of the clock.
LEMMA AlertJustified ==
  ASSUME TypeOK, Counted, Evaluate, NEW r \in Rules, Fires(r)
  PROVE  /\ seconds - calmAt[r] >= Sustained[r] * FlushEvery
         /\ \A e \in Own(r) :
              /\ seconds - e.at >= Sustained[r] * FlushEvery
              /\ e.jump = jump => seconds - e.at >= Cooldown
<1>1. /\ elapsed = FlushEvery /\ seconds \in Nat /\ FlushEvery \in Nat /\ calmAt[r] \in Nat
      /\ Sustained[r] \in Nat /\ violations[r] \in Nat /\ Cooldown \in Nat
      /\ now \in Int /\ jump \in Int
  BY EvaluateUnfolded, FiresCounts, AlertsAssumption DEF Counted, Scheduled, TypeOK
<1>2. violations[r] + 1 >= Sustained[r] /\ Cool(r)
  BY FiresCounts
<1>3. \A e \in Own(r) : e.at \in Nat /\ e.jump \in Int
  BY EventTypes DEF Own
<1> DEFINE counted == violations[r] * FlushEvery
           needed == Sustained[r] * FlushEvery
<1>4. counted \in Nat /\ needed \in Nat /\ counted + FlushEvery >= needed
  <2>1. violations[r] + 1 \in Nat /\ violations[r] >= violations[r]
    BY <1>1
  <2>2. counted \in Nat /\ (violations[r] + 1) * FlushEvery = counted + FlushEvery
    BY <1>1, <2>1, PeriodsGrow
  <2>3. needed \in Nat /\ (violations[r] + 1) * FlushEvery >= needed
    BY <1>1, <1>2, <2>1, PeriodsGrow
  <2> QED BY <2>2, <2>3
<1>5. /\ seconds - calmAt[r] >= counted + FlushEvery
      /\ \A e \in Own(r) : seconds - e.at >= counted + FlushEvery
  BY <1>1 DEF Counted, CountsTakeTime
<1> HIDE DEF counted, needed
<1>6. /\ seconds - calmAt[r] >= needed
      /\ \A e \in Own(r) : seconds - e.at >= needed
  BY <1>1, <1>3, <1>4, <1>5
<1>7. ASSUME NEW e \in Own(r), e.jump = jump PROVE seconds - e.at >= Cooldown
  <2>1. PICK f \in Own(r) : lastAlert[r] = f.at + f.jump + Origin /\ lastAlert[r] # 0 /\ e.at <= f.at
    BY DEF Counted, LastAlertIsLatest
  <2>2. f.jump = jump
    BY <1>7, <2>1 DEF Counted, EventsInOrder
  <2>3. now - lastAlert[r] >= Cooldown
    BY <1>2, <2>1 DEF Cool
  <2>4. now - lastAlert[r] = seconds - f.at
    BY <1>1, <1>3, <2>1, <2>2 DEF Origin
  <2> QED BY <1>1, <1>3, <2>1, <2>3, <2>4
<1> QED BY <1>6, <1>7 DEF needed

LEMMA AlertsStep ==
  TypeOK /\ Counted /\ AlertsSustained /\ AlertsSpaced /\ [Next]_vars
    => AlertsSustained' /\ AlertsSpaced'
<1> SUFFICES ASSUME TypeOK, Counted, AlertsSustained, AlertsSpaced, [Next]_vars
    PROVE  AlertsSustained' /\ AlertsSpaced'
  OBVIOUS
<1>1. CASE Evaluate
  <2>1. \A r \in Rules :
          /\ Alert(r).rule = r /\ Alert(r).at = seconds /\ Alert(r).run = runs
          /\ Alert(r).jump = jump /\ Alert(r).calm = calmAt[r]
    BY DEF Alert
  <2>2. AlertsSustained'
    BY <1>1, <2>1, AlertJustified, EvaluateUnfolded DEF AlertsSustained
  <2>3. \A e \in events : e.at \in Nat /\ e.at <= seconds /\ seconds \in Nat
    BY EventTypes DEF Counted, EventsInOrder, TypeOK
  <2>4. ASSUME NEW e \in events', NEW f \in events',
               e.rule = f.rule, e.run = f.run, e.jump = f.jump, e.at < f.at
        PROVE  f.at - e.at >= Cooldown /\ f.at - e.at >= Sustained[e.rule] * FlushEvery
    <3>1. CASE e \in events /\ f \in events
      BY <2>4, <3>1 DEF AlertsSpaced
    <3>2. CASE f \notin events
      <4>1. PICK r \in Rules : Fires(r) /\ f = Alert(r)
        BY <1>1, <2>4, <3>2, EvaluateUnfolded
      <4>2. f.at = seconds /\ f.rule = r /\ f.run = runs /\ f.jump = jump
        BY <2>1, <4>1
      <4>3. e \in events
        <5>1. seconds \in Nat /\ e.at < seconds
          BY <2>4, <4>2 DEF TypeOK
        <5>2. e \notin events => e.at = seconds
          BY <1>1, <2>1, EvaluateUnfolded
        <5> QED BY <5>1, <5>2
      <4>4. e \in Own(r)
        BY <2>4, <4>2, <4>3 DEF Own
      <4> QED BY <1>1, <2>4, <4>1, <4>2, <4>4, AlertJustified
    <3>3. CASE e \notin events /\ f \in events
      <4>1. e.at = seconds /\ f.at \in Nat /\ f.at <= seconds /\ seconds \in Nat
        BY <1>1, <2>1, <2>3, <3>3, EvaluateUnfolded
      <4> QED BY <2>4, <4>1
    <3> QED BY <3>1, <3>2, <3>3
  <2>5. AlertsSpaced'
    BY <2>4 DEF AlertsSpaced
  <2> QED BY <2>2, <2>5
<1>2. CASE Start \/ Stop \/ Wait \/ Tick \/ Collect \/ UNCHANGED vars
  <2>1. events' = events
    BY <1>2 DEF Start, Stop, Wait, Tick, Collect, vars
  <2> QED BY <2>1 DEF AlertsSustained, AlertsSpaced
<1> QED BY <1>1, <1>2 DEF Next

-----------------------------------------------------------------------------
(* Alerts in time: how late the next evaluation can be, and with it the    *)
(* alert.                                                                  *)

\* The second by which the next evaluation has come, if no wait is too long.
Until == seconds + (FlushEvery - elapsed) * MaxWait

\* From where the count of violations runs: the first reading, or the last alert.
CountFrom(r) ==
  IF Alerted(r) = {} THEN highSince[r] - MaxWait
  ELSE Later(highSince[r] - MaxWait, LastAlerted(r))

\* The second by which the cooldown is over and one more evaluation has come.
CooledBy(r) == LastAlerted(r) + Cooldown + Later(-jump, 0) + Period

\* Every violation counted so far came in time; a count that is full and has written no
\* alert was last looked at in the cooldown, or not at all since the readings are high.
Punctual(r) ==
  /\ Alerted(r) = {} => lastAlert[r] = 0 /\ violations[r] < Sustained[r]
  /\ highSince[r] # Never =>
       /\ reading[r] = "high"
       /\ Until <= CountFrom(r) + (violations[r] + 1) * Period
       /\ violations[r] >= Sustained[r] =>
            Until <= highSince[r] - MaxWait + Period \/ Until <= CooledBy(r)

InTime ==
  pc # "down" => /\ pc = "collect" => elapsed >= 1
                 /\ \A r \in Rules : Punctual(r)

LEMMA LatestAlert ==
  ASSUME TypeOK, LastAlertIsLatest, NEW r \in Rules
  PROVE  /\ Alerted(r) = {} <=> Own(r) = {}
         /\ Alerted(r) # {} =>
              /\ LastAlerted(r) \in Nat /\ lastAlert[r] # 0
              /\ \E f \in Own(r) : LastAlerted(r) = f.at /\ lastAlert[r] = f.at + f.jump + Origin
<1>1. Alerted(r) = {e.at : e \in Own(r)}
  BY DEF Alerted, Own
<1>2. ASSUME Own(r) # {}
      PROVE  /\ LastAlerted(r) \in Nat /\ lastAlert[r] # 0
             /\ \E f \in Own(r) : LastAlerted(r) = f.at /\ lastAlert[r] = f.at + f.jump + Origin
  <2>1. PICK f \in Own(r) : /\ lastAlert[r] = f.at + f.jump + Origin /\ lastAlert[r] # 0
                            /\ \A e \in Own(r) : e.at <= f.at
    BY <1>2 DEF LastAlertIsLatest
  <2>2. \A e \in Own(r) : e.at \in Nat
    BY EventTypes DEF Own
  <2>3. f.at \in Alerted(r) /\ \A s \in Alerted(r) : s <= f.at
    BY <1>1, <2>1
  <2>4. LastAlerted(r) \in Alerted(r) /\ \A s \in Alerted(r) : s <= LastAlerted(r)
    BY <2>3 DEF LastAlerted
  <2>5. LastAlerted(r) = f.at
    <3>1. \A s \in Alerted(r) : s \in Nat
      BY <1>1, <2>2
    <3>2. LastAlerted(r) <= f.at /\ f.at <= LastAlerted(r)
      BY <2>3, <2>4
    <3> QED BY <2>3, <2>4, <3>1, <3>2
  <2> QED BY <2>1, <2>2, <2>5
<1> QED BY <1>1, <1>2

LEMMA TimeTypes ==
  ASSUME TypeOK, Scheduled
  PROVE  /\ seconds \in Nat /\ now \in Int /\ jump \in Int /\ elapsed \in Nat /\ elapsed <= FlushEvery
         /\ FlushEvery \in Nat /\ FlushEvery >= 1 /\ MaxWait \in Nat /\ MaxWait >= 1
         /\ Cooldown \in Nat /\ Period \in Nat
         /\ (FlushEvery - elapsed) * MaxWait \in Nat
         /\ Until \in Nat /\ seconds <= Until
         /\ \A r \in Rules : /\ violations[r] \in Nat /\ highSince[r] \in Int
                             /\ Sustained[r] \in Nat /\ Sustained[r] >= 1
                             /\ (violations[r] + 1) * Period \in Nat
                             /\ Period <= (violations[r] + 1) * Period
                             /\ Sustained[r] * Period \in Nat /\ Period <= Sustained[r] * Period
<1>1. /\ seconds \in Nat /\ now \in Int /\ jump \in Int /\ elapsed \in Nat /\ elapsed <= FlushEvery
      /\ FlushEvery \in Nat /\ FlushEvery >= 1 /\ MaxWait \in Nat /\ MaxWait >= 1
      /\ Cooldown \in Nat
  BY AlertsAssumption DEF TypeOK
<1>2. Period \in Nat
  BY <1>1, PeriodsGrow DEF Period
<1>3. (FlushEvery - elapsed) * MaxWait \in Nat
  <2>1. FlushEvery - elapsed \in Nat /\ FlushEvery - elapsed >= FlushEvery - elapsed
    BY <1>1
  <2> QED BY <1>1, <2>1, PeriodsGrow
<1>4. Until \in Nat /\ seconds <= Until
  BY <1>1, <1>3 DEF Until
<1>5. ASSUME NEW r \in Rules
      PROVE  /\ violations[r] \in Nat /\ highSince[r] \in Int
             /\ Sustained[r] \in Nat /\ Sustained[r] >= 1
             /\ (violations[r] + 1) * Period \in Nat
             /\ Period <= (violations[r] + 1) * Period
             /\ Sustained[r] * Period \in Nat /\ Period <= Sustained[r] * Period
  <2>1. /\ violations[r] \in Nat /\ highSince[r] \in Int
        /\ Sustained[r] \in Nat /\ Sustained[r] >= 1
    BY AlertsAssumption DEF TypeOK, Never
  <2>2. violations[r] + 1 \in Nat /\ violations[r] + 1 >= 1 /\ 1 \in Nat /\ 1 * Period = Period
    BY <1>2, <2>1
  <2>3. (violations[r] + 1) * Period \in Nat /\ (violations[r] + 1) * Period >= 1 * Period
    BY <1>2, <2>2, PeriodsGrow
  <2>4. Sustained[r] * Period \in Nat /\ Sustained[r] * Period >= 1 * Period
    BY <1>2, <2>1, <2>2, PeriodsGrow
  <2> HIDE DEF Period
  <2> QED BY <1>2, <2>1, <2>2, <2>3, <2>4
<1> QED BY <1>1, <1>2, <1>3, <1>4, <1>5

\* The deadline is kept while the service runs.
LEMMA PunctualMeansInTime ==
  ASSUME TypeOK, Scheduled, LastAlertIsLatest, InTime PROVE AlertsInTime
<1> SUFFICES ASSUME pc = "asleep", NEW r \in Rules, highSince[r] # Never
             PROVE  seconds <= Due(r)
  BY DEF AlertsInTime
<1>1. Punctual(r)
  BY DEF InTime
<1> DEFINE n == (violations[r] + 1) * Period
           full == Sustained[r] * Period
           h == highSince[r] - MaxWait
<1>2. /\ seconds \in Nat /\ jump \in Int /\ Cooldown \in Nat /\ Period \in Nat
      /\ Until \in Nat /\ seconds <= Until /\ h \in Int
      /\ n \in Nat /\ full \in Nat /\ Period <= full
  BY TimeTypes
<1>3. violations[r] < Sustained[r] => n <= full
  <2>1. Sustained[r] \in Nat /\ violations[r] + 1 \in Nat
    BY TimeTypes
  <2>2. violations[r] < Sustained[r] => Sustained[r] >= violations[r] + 1
    BY <2>1, TimeTypes
  <2> QED BY <1>2, <2>1, <2>2, PeriodsGrow
<1>4. Until <= CountFrom(r) + n
  BY <1>1 DEF Punctual
<1>5. CASE Alerted(r) = {}
  <2>1. violations[r] < Sustained[r] /\ CountFrom(r) = h /\ Due(r) = h + full
    BY <1>1, <1>5 DEF Punctual, CountFrom, Due
  <2> HIDE DEF n, full, h
  <2> QED BY <1>2, <1>3, <1>4, <2>1
<1>6. CASE Alerted(r) # {}
  <2> DEFINE last == LastAlerted(r)
  <2>1. last \in Nat
    BY <1>6, LatestAlert
  <2>2. /\ Due(r) = Later(Later(h + full, last + full), CooledBy(r))
        /\ CountFrom(r) = Later(h, last)
        /\ CooledBy(r) = last + Cooldown + Later(-jump, 0) + Period
    BY <1>6 DEF Due, CountFrom, CooledBy
  <2>3. violations[r] >= Sustained[r] => Until <= h + Period \/ Until <= CooledBy(r)
    BY <1>1 DEF Punctual
  <2>4. violations[r] < Sustained[r] \/ violations[r] >= Sustained[r]
    BY TimeTypes
  <2> HIDE DEF n, full, h, last
  <2>5. CooledBy(r) \in Int
    BY <1>2, <2>1, <2>2 DEF Later
  <2>6. CASE violations[r] < Sustained[r]
    <3>1. seconds <= Later(h, last) + full
      BY <1>2, <1>3, <1>4, <2>1, <2>2, <2>6 DEF Later
    <3> QED BY <1>2, <2>1, <2>2, <2>5, <3>1 DEF Later
  <2>7. CASE violations[r] >= Sustained[r]
    <3>1. seconds <= h + full \/ seconds <= CooledBy(r)
      BY <1>2, <2>3, <2>5, <2>7
    <3> QED BY <1>2, <2>1, <2>2, <2>5, <3>1 DEF Later
  <2> QED BY <2>4, <2>6, <2>7
<1> QED BY <1>5, <1>6

\* A step that takes no reading and evaluates nothing moves no deadline.
LEMMA PunctualKept ==
  ASSUME TypeOK, Scheduled, LastAlertIsLatest, NEW r \in Rules, Punctual(r),
         jump' \in Int, jump = 0 \/ jump' = jump, Until' \in Int, Until' <= Until,
         UNCHANGED <<reading, highSince, violations, lastAlert, events, runs>>
  PROVE  Punctual(r)'
<1>1. Alerted(r)' = Alerted(r) /\ LastAlerted(r)' = LastAlerted(r)
  BY DEF Alerted, LastAlerted
<1>2. CountFrom(r)' = CountFrom(r)
  BY <1>1 DEF CountFrom
<1> DEFINE n == (violations[r] + 1) * Period
<1>3. /\ Until \in Nat /\ n \in Nat /\ Cooldown \in Nat /\ Period \in Nat /\ n' = n
      /\ highSince[r] \in Int /\ MaxWait \in Nat /\ jump \in Int
      /\ violations[r] \in Nat /\ Sustained[r] \in Nat
  BY TimeTypes DEF Period
<1>4. Later(-jump, 0) \in Nat /\ Later(-jump', 0) \in Nat /\ Later(-jump, 0) <= Later(-jump', 0)
  <2>1. \A x \in Int : Later(-x, 0) \in Nat
    BY DEF Later
  <2>2. ASSUME NEW x \in Int, x = 0 PROVE Later(-x, 0) = 0
    <3>1. -x \in Int /\ -x <= 0 /\ -x >= 0
      BY <2>2
    <3>2. Later(-x, 0) = -x
      BY <3>1 DEF Later
    <3>3. \A z \in Int : z <= 0 /\ z >= 0 => z = 0
      OBVIOUS
    <3> QED BY <3>1, <3>2, <3>3
  <2>3. CASE jump = 0
    <3>1. Later(-jump, 0) = 0
      BY <1>3, <2>2, <2>3
    <3>2. Later(-jump', 0) \in Nat
      BY <2>1
    <3> QED BY <3>1, <3>2
  <2>4. CASE jump' = jump
    <3>1. Later(-jump, 0) \in Nat
      BY <1>3, <2>1
    <3> QED BY <2>4, <3>1
  <2> QED BY <2>3, <2>4
<1>5. Alerted(r) = {} => CountFrom(r) \in Int
  BY <1>3 DEF CountFrom
<1>6. Alerted(r) # {} =>
        /\ LastAlerted(r) \in Nat /\ CountFrom(r) \in Int
        /\ CooledBy(r) \in Int /\ CooledBy(r)' \in Int /\ CooledBy(r) <= CooledBy(r)'
  <2>1. Alerted(r) # {} => LastAlerted(r) \in Nat
    BY LatestAlert
  <2>2. /\ CooledBy(r) = LastAlerted(r) + Cooldown + Later(-jump, 0) + Period
        /\ CooledBy(r)' = LastAlerted(r) + Cooldown + Later(-jump', 0) + Period
    BY <1>1 DEF CooledBy, Period
  <2>3. Alerted(r) # {} => CountFrom(r) \in Int
    BY <1>3, <2>1 DEF CountFrom, Later
  <2> DEFINE last == LastAlerted(r)
             back == Later(-jump, 0)
             more == Later(-jump', 0)
  <2>4. /\ back \in Nat /\ more \in Nat /\ back <= more
        /\ CooledBy(r) = last + Cooldown + back + Period
        /\ CooledBy(r)' = last + Cooldown + more + Period
        /\ Alerted(r) # {} => last \in Nat
    BY <1>4, <2>1, <2>2
  <2> HIDE DEF last, back, more
  <2>5. last \in Nat => CooledBy(r) \in Int /\ CooledBy(r)' \in Int /\ CooledBy(r) <= CooledBy(r)'
    BY <1>3, <2>4
  <2> QED BY <2>1, <2>3, <2>4, <2>5
<1>7. Alerted(r) = {} => lastAlert[r] = 0 /\ violations[r] < Sustained[r]
  BY DEF Punctual
<1>8. ASSUME highSince[r] # Never
      PROVE  /\ reading[r] = "high" /\ Until' <= CountFrom(r) + n
             /\ violations[r] >= Sustained[r] =>
                  Until' <= highSince[r] - MaxWait + Period \/ Until' <= CooledBy(r)'
  <2>1. /\ reading[r] = "high" /\ Until <= CountFrom(r) + n
        /\ violations[r] >= Sustained[r] =>
             Until <= highSince[r] - MaxWait + Period \/ Until <= CooledBy(r)
    BY <1>8 DEF Punctual
  <2> HIDE DEF n
  <2> QED BY <1>3, <1>5, <1>6, <1>7, <2>1
<1>9. Period' = Period
  BY DEF Period
<1> QED BY <1>1, <1>2, <1>3, <1>7, <1>8, <1>9 DEF Punctual

\* The next tick comes at most MaxWait seconds later.
LEMMA TickInTime ==
  ASSUME TypeOK, Counted, InTime, Tick PROVE InTime'
<1>1. /\ pc = "asleep" /\ pc' = "collect" /\ elapsed' = elapsed + 1 /\ elapsed < FlushEvery
      /\ UNCHANGED <<reading, highSince, violations, lastAlert, events, runs>>
  BY DEF Tick, state, history, Counted, Scheduled
<1>2. PICK wait \in 1..MaxWait : Pass(wait)
  BY DEF Tick
<1>3. /\ seconds' = seconds + wait /\ jump' \in Int /\ (jump = 0 \/ jump' = jump)
  BY <1>2, AlertsAssumption DEF Pass, TypeOK
<1>4. Until' \in Int /\ Until' <= Until
  <2> DEFINE left == FlushEvery - elapsed - 1
             rest == left * MaxWait
  <2>1. /\ seconds \in Nat /\ elapsed \in Nat /\ FlushEvery \in Nat /\ MaxWait \in Nat
        /\ left \in Nat /\ left >= left
    BY <1>1, TimeTypes DEF Counted
  <2>2. rest \in Nat /\ (left + 1) * MaxWait = rest + MaxWait
    BY <2>1, PeriodsGrow
  <2>3. FlushEvery - elapsed = left + 1 /\ FlushEvery - elapsed' = left
    BY <1>1, <2>1
  <2>4. Until = seconds + (rest + MaxWait) /\ Until' = (seconds + wait) + rest
    BY <1>3, <2>2, <2>3 DEF Until
  <2> HIDE DEF rest
  <2> QED BY <2>1, <2>2, <2>4
<1>5. elapsed' >= 1
  BY <1>1, TimeTypes DEF Counted
<1>6. \A r \in Rules : Punctual(r)'
  BY <1>1, <1>3, <1>4, PunctualKept DEF InTime, Counted
<1> QED BY <1>5, <1>6 DEF InTime

\* A reading above the threshold after one below it starts the deadline anew.
LEMMA CollectInTime ==
  ASSUME TypeOK, Counted, InTime, Collect PROVE InTime'
<1>1. PICK new \in [Rules -> {"low", "high", "unknown", "none"}] :
        /\ reading' = [r \in Rules |-> IF new[r] = "none" THEN reading[r] ELSE new[r]]
        /\ highSince' = [r \in Rules |->
             CASE new[r] = "none" -> highSince[r]
               [] new[r] = "high" -> IF highSince[r] = Never THEN seconds ELSE highSince[r]
               [] OTHER -> Never]
  BY DEF Collect
<1>2. /\ pc = "collect" /\ pc' \in {"evaluate", "asleep"}
      /\ UNCHANGED <<seconds, now, jump, elapsed, violations, lastAlert, events, runs>>
  BY DEF Collect, clock, state
<1>3. Until' = Until
  BY <1>2 DEF Until
<1> SUFFICES ASSUME NEW r \in Rules PROVE Punctual(r)'
  BY <1>2 DEF InTime
<1>4. Alerted(r)' = Alerted(r) /\ LastAlerted(r)' = LastAlerted(r)
  BY <1>2 DEF Alerted, LastAlerted
<1>5. Punctual(r)
  BY <1>2 DEF InTime
<1>6. CASE highSince'[r] = Never
  BY <1>2, <1>4, <1>5, <1>6 DEF Punctual
<1>7. CASE highSince'[r] # Never /\ highSince[r] # Never
  <2>1. highSince'[r] = highSince[r] /\ new[r] \in {"none", "high"}
    BY <1>1, <1>7
  <2>2. reading'[r] = "high"
    BY <1>1, <1>5, <1>7, <2>1 DEF Punctual
  <2>3. CountFrom(r)' = CountFrom(r) /\ CooledBy(r)' = CooledBy(r)
    BY <1>2, <1>4, <2>1 DEF CountFrom, CooledBy
  <2> QED BY <1>2, <1>3, <1>4, <1>5, <1>7, <2>1, <2>2, <2>3 DEF Punctual
<1>8. CASE highSince'[r] # Never /\ highSince[r] = Never
  <2>1. highSince'[r] = seconds /\ reading'[r] = "high"
    BY <1>1, <1>8
  <2> DEFINE n == (violations[r] + 1) * Period
  <2>2. /\ seconds \in Nat /\ MaxWait \in Nat /\ Period \in Nat /\ n \in Nat /\ Period <= n
        /\ elapsed \in Nat /\ elapsed >= 1 /\ elapsed <= FlushEvery /\ FlushEvery \in Nat
    BY <1>2, TimeTypes DEF InTime, Counted
  <2>3. Until <= seconds - MaxWait + Period
    <3> DEFINE most == (FlushEvery - 1) * MaxWait
               left == (FlushEvery - elapsed) * MaxWait
    <3>1. /\ FlushEvery - 1 \in Nat /\ FlushEvery - elapsed \in Nat
          /\ FlushEvery - 1 >= FlushEvery - elapsed /\ (FlushEvery - 1) + 1 = FlushEvery
      BY <2>2
    <3>2. /\ left \in Nat /\ most \in Nat /\ most >= left
          /\ ((FlushEvery - 1) + 1) * MaxWait = most + MaxWait
      BY <2>2, <3>1, PeriodsGrow
    <3>3. Period = most + MaxWait
      BY <3>1, <3>2 DEF Period
    <3>4. Until = seconds + left
      BY DEF Until
    <3> HIDE DEF most, left
    <3> QED BY <2>2, <3>2, <3>3, <3>4
  <2>4. CountFrom(r)' \in Int /\ seconds - MaxWait <= CountFrom(r)'
    <3>1. Alerted(r) # {} => LastAlerted(r) \in Nat
      BY LatestAlert DEF Counted
    <3> QED BY <1>4, <2>1, <2>2, <3>1 DEF CountFrom, Later
  <2>5. Until \in Nat
    BY TimeTypes DEF Counted
  <2> HIDE DEF n
  <2>6. Until <= CountFrom(r)' + n
    BY <2>2, <2>3, <2>4, <2>5
  <2>7. n' = n
    BY <1>2 DEF n, Period
  <2>8. Until' <= CountFrom(r)' + (violations'[r] + 1) * Period
    BY <1>3, <2>6, <2>7 DEF n, Period
  <2>9. Until' <= highSince'[r] - MaxWait + Period
    BY <1>3, <2>1, <2>3
  <2>10. Period' = Period /\ Never' = Never
    BY DEF Period, Never
  <2> QED BY <1>2, <1>4, <1>5, <2>1, <2>8, <2>9, <2>10 DEF Punctual
<1> QED BY <1>6, <1>7, <1>8

\* An evaluation counts the violation, or writes the alert, or is in the cooldown.
LEMMA EvaluateInTime ==
  ASSUME TypeOK, Counted, InTime, Evaluate, LastAlertIsLatest' PROVE InTime'
<1>1. /\ pc = "evaluate" /\ pc' = "asleep" /\ elapsed = FlushEvery /\ elapsed' = 0
      /\ UNCHANGED <<now, seconds, jump, reading, runs, highSince>>
  BY EvaluateUnfolded DEF Counted, Scheduled
<1> SUFFICES ASSUME NEW r \in Rules PROVE Punctual(r)'
  BY <1>1 DEF InTime
<1>2. Punctual(r)
  BY <1>1 DEF InTime
<1>3. /\ seconds \in Nat /\ now \in Int /\ jump \in Int /\ Period \in Nat /\ MaxWait \in Nat
      /\ Cooldown \in Nat /\ Sustained[r] \in Nat /\ Sustained[r] >= 1 /\ violations[r] \in Nat
      /\ highSince[r] \in Int /\ FlushEvery \in Nat
  BY TimeTypes DEF Counted
<1>4. Until = seconds /\ Until' = seconds + Period
  <2>1. FlushEvery - elapsed = 0 /\ FlushEvery - elapsed' = FlushEvery /\ 0 * MaxWait = 0
    BY <1>1, <1>3
  <2> QED BY <1>1, <1>3, <2>1 DEF Until, Period
<1>5. Period' = Period /\ Never' = Never
  BY DEF Period, Never
<1>6. CASE Fires(r)
  <2>1. violations'[r] = 0 /\ Alert(r) \in events' /\ Alert(r).at = seconds
        /\ Alert(r).rule = r /\ Alert(r).run = runs
    BY <1>6, FiresCounts, EvaluateUnfolded DEF Alert
  <2>2. seconds \in Alerted(r)'
    BY <1>1, <2>1 DEF Alerted
  <2>3. LastAlerted(r)' = seconds
    <3>1. \A e \in events' : e.at \in Nat /\ e.at <= seconds
      <4>1. \A e \in events : e.at \in Nat /\ e.at <= seconds
        BY EventTypes DEF Counted, EventsInOrder
      <4>2. \A q \in Rules : Alert(q).at = seconds
        BY DEF Alert
      <4> QED BY <1>3, <4>1, <4>2, EvaluateUnfolded
    <3>2. \A s \in Alerted(r)' : s \in Nat /\ s <= seconds
      BY <3>1 DEF Alerted
    <3>3. LastAlerted(r)' \in Alerted(r)' /\ \A s \in Alerted(r)' : s <= LastAlerted(r)'
      BY <2>2, <3>2 DEF LastAlerted
    <3> DEFINE last == LastAlerted(r)'
    <3>4. last \in Nat /\ last <= seconds /\ seconds <= last
      BY <2>2, <3>2, <3>3
    <3> HIDE DEF last
    <3>5. last = seconds
      BY <1>3, <3>4
    <3> QED BY <3>5 DEF last
  <2>4. CountFrom(r)' \in Int /\ seconds <= CountFrom(r)'
    BY <1>1, <1>3, <2>2, <2>3 DEF CountFrom, Later
  <2>5. (violations'[r] + 1) * Period = Period
    <3>1. violations'[r] + 1 = 1 /\ 1 * Period = Period
      BY <1>3, <2>1
    <3> QED BY <3>1
  <2>6. highSince[r] # Never => reading[r] = "high"
    BY <1>2 DEF Punctual
  <2>7. Until' <= CountFrom(r)' + (violations'[r] + 1) * Period
    BY <1>3, <1>4, <2>4, <2>5
  <2>8. ~ (violations'[r] >= Sustained[r])
    BY <1>3, <2>1
  <2> QED BY <1>1, <1>5, <2>2, <2>6, <2>7, <2>8 DEF Punctual
<1>7. CASE ~ Fires(r)
  <2>1. \A e \in events' : e.rule = r => e \in events
    <3>1. \A q \in Rules : Alert(q).rule = q
      BY DEF Alert
    <3> QED BY <1>7, <3>1, EvaluateUnfolded
  <2>2. Alerted(r)' = Alerted(r)
    BY <1>1, <2>1, EvaluateUnfolded DEF Alerted
  <2>3. LastAlerted(r)' = LastAlerted(r)
    BY <2>2 DEF LastAlerted
  <2>4. CountFrom(r)' = CountFrom(r) /\ CooledBy(r)' = CooledBy(r)
    BY <1>1, <2>2, <2>3 DEF CountFrom, CooledBy
  <2>5. lastAlert'[r] = lastAlert[r] /\ violations'[r] = Count(r)
    BY <1>7, EvaluateUnfolded
  <2>6. CASE reading[r] # "high"
    <3>1. highSince[r] = Never
      BY <1>2, <2>6 DEF Punctual
    <3>2. Count(r) \in {0, violations[r]}
      BY <2>6 DEF Count, TypeOK
    <3>3. Alerted(r) = {} => lastAlert'[r] = 0 /\ violations'[r] < Sustained[r]
      BY <1>2, <1>3, <2>5, <3>2 DEF Punctual
    <3> QED BY <1>1, <1>5, <2>2, <3>1, <3>3 DEF Punctual
  <2>7. CASE reading[r] = "high"
    <3>1. violations'[r] = violations[r] + 1
          /\ (violations[r] + 1 >= Sustained[r] => ~ Cool(r))
      BY <1>7, <2>5, <2>7 DEF Fires, Count
    <3>2. Alerted(r) = {} => lastAlert'[r] = 0 /\ violations'[r] < Sustained[r]
      BY <1>2, <1>3, <2>5, <3>1 DEF Punctual, Cool
    <3>3. ASSUME highSince[r] # Never
          PROVE  Until' <= CountFrom(r) + (violations[r] + 1 + 1) * Period
      <4> DEFINE n == (violations[r] + 1) * Period
      <4>1. violations[r] + 1 \in Nat /\ violations[r] + 1 >= violations[r] + 1
        BY <1>3
      <4>2. n \in Nat /\ (violations[r] + 1 + 1) * Period = n + Period
        BY <1>3, <4>1, PeriodsGrow
      <4>3. seconds <= CountFrom(r) + n
        BY <1>2, <1>4, <3>3 DEF Punctual
      <4>4. CountFrom(r) \in Int
        <5>1. Alerted(r) # {} => LastAlerted(r) \in Nat
          BY LatestAlert DEF Counted
        <5> QED BY <1>3, <5>1 DEF CountFrom, Later
      <4> HIDE DEF n
      <4> QED BY <1>3, <1>4, <4>2, <4>3, <4>4
    <3>4. ASSUME violations[r] + 1 >= Sustained[r] PROVE Until' <= CooledBy(r)
      <4>1. lastAlert[r] # 0 /\ ~ (now - lastAlert[r] >= Cooldown)
        BY <3>1, <3>4 DEF Cool
      <4>2. Alerted(r) # {}
        BY <1>2, <4>1 DEF Punctual
      <4>3. PICK f \in Own(r) : LastAlerted(r) = f.at /\ lastAlert[r] = f.at + f.jump + Origin
        BY <4>2, LatestAlert DEF Counted
      <4>4. f.at \in Nat /\ f.jump \in {0, jump}
        BY EventTypes DEF Own, Counted, EventsInOrder
      <4>5. now - lastAlert[r] = seconds + jump - f.at - f.jump
        BY <1>3, <4>3, <4>4 DEF Origin
      <4>6. seconds + jump - f.at - f.jump < Cooldown
        BY <1>3, <4>1, <4>4, <4>5
      <4>7. seconds <= f.at + Cooldown + Later(-jump, 0)
        BY <1>3, <4>4, <4>6 DEF Later
      <4>8. CooledBy(r) = f.at + Cooldown + Later(-jump, 0) + Period
        BY <4>3 DEF CooledBy
      <4>9. Later(-jump, 0) \in Nat
        BY <1>3 DEF Later
      <4> QED BY <1>3, <1>4, <4>4, <4>7, <4>8, <4>9
    <3> QED BY <1>1, <1>5, <2>2, <2>4, <2>7, <3>1, <3>2, <3>3, <3>4 DEF Punctual
  <2> QED BY <2>6, <2>7
<1> QED BY <1>6, <1>7

LEMMA InTimeStep == TypeOK /\ Counted /\ Counted' /\ InTime /\ [Next]_vars => InTime'
<1> SUFFICES ASSUME TypeOK, Counted, Counted', InTime, [Next]_vars PROVE InTime'
  OBVIOUS
<1>1. CASE Start
  <2>1. /\ UNCHANGED <<seconds, events>> /\ runs' = runs + 1 /\ pc' = "asleep"
        /\ \A r \in Rules : /\ violations'[r] = 0 /\ lastAlert'[r] = 0
                            /\ highSince'[r] = Never
    BY <1>1 DEF Start, Fresh, clock
  <2>2. \A e \in events : e.run \in Nat /\ e.run <= runs
    BY EventTypes DEF Counted, EventsInOrder
  <2>3. \A r \in Rules : Alerted(r)' = {}
    BY <2>1, <2>2 DEF Alerted, TypeOK
  <2>4. \A r \in Rules : 0 < Sustained[r]
    BY AlertsAssumption
  <2>5. Never' = Never
    BY DEF Never
  <2> QED BY <2>1, <2>3, <2>4, <2>5 DEF InTime, Punctual
<1>2. CASE Stop \/ Wait
  BY <1>2 DEF Stop, Wait, InTime
<1>3. CASE UNCHANGED vars
  <2>1. UNCHANGED <<now, seconds, jump, pc, elapsed, reading, violations, lastAlert, events,
                    runs, highSince>>
    BY <1>3 DEF vars, clock, state, history
  <2>2. \A r \in Rules : Alerted(r)' = Alerted(r) /\ LastAlerted(r)' = LastAlerted(r)
    BY <2>1 DEF Alerted, LastAlerted
  <2>3. \A r \in Rules : Punctual(r) => Punctual(r)'
    BY <2>1, <2>2 DEF Punctual, Until, CountFrom, CooledBy
  <2> QED BY <2>1, <2>3 DEF InTime
<1> QED BY <1>1, <1>2, <1>3, TickInTime, CollectInTime, EvaluateInTime DEF Next, Counted

-----------------------------------------------------------------------------
(* The theorems.                                                           *)

LEMMA Inductive == Spec => []Inv
<1>1. Init => Inv
  BY TypeInit, CountedInit DEF Inv
<1>2. Inv /\ [Next]_vars => Inv'
  BY TypeStep, CountedStep, AlertsStep DEF Inv, Counted
<1> QED BY <1>1, <1>2, PTL DEF Spec

\* No alert without the sustained violations, whatever restarts, late ticks, missing
\* readings and jumps of the clock come between.
THEOREM AlertsAreSustained == Spec => []AlertsSustained
<1>1. Inv => AlertsSustained
  BY DEF Inv
<1> QED BY <1>1, Inductive, PTL

\* Two alerts of a rule in a run are the cooldown and a sustained violation apart, unless
\* the clock was set between them.
THEOREM AlertsAreSpaced == Spec => []AlertsSpaced
<1>1. Inv => AlertsSpaced
  BY DEF Inv
<1> QED BY <1>1, Inductive, PTL

\* evaluate on the sampler's schedule: a rule whose readings are above the threshold, with
\* none below it or unknown since, has its alert within the sustained evaluations and the
\* cooldown, though ticks are late, readings fail to come and the clock is set once.
THEOREM AlertsComeInTime == Spec => []AlertsInTime
<1>1. Init => InTime
  BY DEF Init, InTime
<1>2. Inv /\ InTime => AlertsInTime
  BY PunctualMeansInTime DEF Inv, Counted
<1>3. Inv /\ Inv' /\ InTime /\ [Next]_vars => InTime'
  BY InTimeStep DEF Inv
<1> QED BY <1>1, <1>2, <1>3, Inductive, PTL DEF Spec

=============================================================================
