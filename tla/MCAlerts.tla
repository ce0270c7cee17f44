------------------------------ MODULE MCAlerts ------------------------------
(***************************************************************************)
(* An instance of Alerts for TLC: a rule that alerts at once, as the       *)
(* battery's, and one that has to last and passes over unknown readings,   *)
(* as the power's. The rules share no state but the clock and the tick:    *)
(* in each run of the service the readings of one of them come.            *)
(***************************************************************************)
EXTENDS Alerts, FiniteSets

OnceAndTwice == [r \in Rules |-> IF r = "battery" THEN 1 ELSE 2]
BackAndForth == {-5, 4}

OneRule == Cardinality({r \in Rules : reading[r] # "none"}) <= 1
OneRuleSpec == Init /\ [][Next /\ OneRule']_vars
=============================================================================
