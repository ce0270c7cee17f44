---------------------------- MODULE MCCollectors ----------------------------
(***************************************************************************)
(* An instance of Collectors for TLC: an interval below the tick, one that *)
(* is no multiple of it and one that is; fewer slots than processes, two   *)
(* of which have one name.                                                 *)
(***************************************************************************)
EXTENDS Collectors, TLC

CONSTANTS p1, p2, p3, svchost, explorer

Intervals ==
  [c \in Collector |-> CASE c = "pdh" -> 500 [] c = "thermal" -> 1500 [] OTHER -> 2000]
OfOneImage == [p \in Processes |-> IF p = p3 THEN explorer ELSE svchost]
Interchangeable == Permutations({p1, p2})
=============================================================================
