----------------------------- MODULE MCStorage -----------------------------
(***************************************************************************)
(* Instance of Storage for TLC: who calls what.                            *)
(***************************************************************************)
EXTENDS Storage

\* main.cpp's wiring: the sampler thread runs the collectors aggregator_flush
\* (write_1m, and write_event from the alert evaluator) and maintenance
\* (cleanup_expired); the HTTP pool serves the delete endpoint. Of two pool threads
\* one deletes ranges only: every two operations overlap, and delete_all_history
\* meets cleanup_expired, the same transaction, in place of itself.
ProgramThreads == {"sampler", "http1", "http2"}
ProgramCalls == [sampler |-> {"write_1m", "write_event", "cleanup_expired"},
                 http1   |-> {"delete_history", "delete_all_history"},
                 http2   |-> {"delete_history"}]

\* Retention: rows of the 1m table are older than its limit, events exactly as
\* old as theirs, the other tables have none.
AtTheLimit == {[table \in RetentionTables |-> IF table = "metric_1m" THEN 2
                                              ELSE IF table = "events" THEN 1 ELSE 0]}
=============================================================================
