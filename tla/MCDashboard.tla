---------------------------- MODULE MCDashboard ----------------------------
(***************************************************************************)
(* The instance of Dashboard for TLC. The history page and the live pages  *)
(* share nothing but the server: it is opened when nothing of the latter   *)
(* is under way.                                                           *)
(***************************************************************************)
EXTENDS Dashboard

HistoryApart ==
  (page # "history" /\ page' = "history") => \A i \in Loop : loop'[i].at = "ended"

ApartSpec == Init /\ [][Next /\ HistoryApart]_vars
FairApartSpec == ApartSpec /\ Fairness
=============================================================================
