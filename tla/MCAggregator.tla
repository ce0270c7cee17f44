---------------------------- MODULE MCAggregator ----------------------------
(***************************************************************************)
(* Instances of Aggregator for TLC: minutes of two seconds, quarters of    *)
(* two minutes, days of two quarters; the service starts late in a day.    *)
(***************************************************************************)
EXTENDS Aggregator

\* A power reading that comes and goes, and a tick in which no metric has a new sample.
ComeAndGo == {{}, Keys \ {Power}, Keys}
\* A wait before the start makes it an even second.
OddStart == {Day + 5}
BackAndForth == {-3, 6}
=============================================================================
