-------------------------- MODULE MCPowerPipeline --------------------------
(***************************************************************************)
(* An instance of PowerPipeline for TLC.                                   *)
(***************************************************************************)
EXTENDS PowerPipeline

LateStart == {5 * Day - 3}
BackAndForth == {-3, 5}
=============================================================================
