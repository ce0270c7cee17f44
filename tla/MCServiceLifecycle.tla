------------------------- MODULE MCServiceLifecycle -------------------------
(***************************************************************************)
(* An instance of ServiceLifecycle for TLC: two stop controls (the user's  *)
(* and the system's shutdown) and two threads in the HTTP pool.            *)
(***************************************************************************)
EXTENDS ServiceLifecycle

TwoControls == {"STOP", "PRESHUTDOWN"}
OneControl  == {"STOP"}
Pool        == {"http1", "http2"}
=============================================================================
