-------------------------- MODULE MCConfiguration --------------------------
(***************************************************************************)
(* Instances of Configuration for TLC: one setting that is copied at the   *)
(* start and one that is read again, in the two orders of the code.        *)
(***************************************************************************)
EXTENDS Configuration, TLC

Alert     == {"alert_cpu_high_pct"}
Retention == {"retention_1m_days"}
PostOrder == <<"alert_cpu_high_pct", "retention_1m_days">>
JsonOrder == <<"retention_1m_days", "alert_cpu_high_pct">>
\* A file by hand has one setting out of range and leaves the other out.
ByHand == [f \in Alert \cup Retention |-> IF f \in Alert THEN OutOfRange ELSE Absent]
HandWritten == {Missing, Garbled, ByHand}
ConfigOfDefaults == [f \in Alert \cup Retention |-> 1]
Pool == Permutations(Threads)
=============================================================================
