---------------------------- MODULE StorageRows ----------------------------
(***************************************************************************)
(* The tables of the database (src/db/migrations/001_initial.sql) and what *)
(* one SQL statement of the storage layer does to them.  Extended by the   *)
(* shared-connection model Storage and by the promise AtomicStore.         *)
(***************************************************************************)
EXTENDS Naturals, Sequences, FiniteSets

CONSTANTS
  Keys,       \* metric keys; a batch has one row per key
  Times,      \* bucket, event and day timestamps
  Cutoffs,    \* the cutoff times cleanup_expired may compute, per table
  MaxCalls    \* bound: storage calls in one behaviour

BatchOp == {"write_current", "write_1m", "write_15m"}
RowOp   == {"write_energy_daily", "write_event", "write_metric_info"}
WriterOp == BatchOp \cup RowOp
PurgeOp == {"delete_all_history", "cleanup_expired"}
Op == WriterOp \cup PurgeOp \cup {"delete_history"}

\* Mutant: a mistyped table name in one INSERT.
TableOfMistyped ==
  [write_current |-> "metric_current", write_1m |-> "metric_1min",
   write_15m |-> "metric_15m", write_energy_daily |-> "energy_daily",
   write_event |-> "events", write_metric_info |-> "metric_registry"]

TableOf == [write_current |-> "metric_current", write_1m |-> "metric_1m",
            write_15m |-> "metric_15m", write_energy_daily |-> "energy_daily",
            write_event |-> "events", write_metric_info |-> "metric_registry"]

HistoryTables   == {"metric_1m", "metric_15m", "events"}   \* what delete_history accepts
RetentionTables == HistoryTables \cup {"energy_daily"}
Tables == RetentionTables \cup {"metric_current", "metric_registry"}

\* The order in which the purging operations visit the tables.
PurgeOrder(op) ==
  IF op = "delete_all_history"
  THEN <<"metric_1m", "metric_15m", "metric_current", "energy_daily", "events">>
  ELSE <<"metric_1m", "metric_15m", "events", "energy_daily">>

ASSUME RowsAssumption ==
  /\ IsFiniteSet(Keys) /\ Keys # {}
  /\ Times \subseteq Nat \ {0}
  /\ Cutoffs \subseteq [RetentionTables -> Nat]     \* 0: retention disabled
  /\ MaxCalls \in Nat

(* A row carries the call that wrote it, standing for the values in it.    *)
Row == [table : Tables, ts : Times, key : Keys, call : 1..MaxCalls]

\* INSERT OR REPLACE: the old rows that have the primary key of the new one.
Replaces(new, old) ==
  /\ old.table = new.table
  /\ \/ new.table \in {"metric_1m", "metric_15m"} /\ old.ts = new.ts /\ old.key = new.key
     \/ new.table \in {"metric_current", "metric_registry"} /\ old.key = new.key
     \/ new.table = "energy_daily" /\ old.ts = new.ts
     \/ new.table = "events" /\ old = new            \* AUTOINCREMENT: never

\* The rows of one write_current / write_1m / write_15m call.
Batch(op, ts, id) ==
  {[table |-> TableOf[op], ts |-> ts, key |-> k, call |-> id] : k \in Keys}

(* A database: its rows, its deletions_audit, and as history which call    *)
(* deleted which row.                                                      *)
Database == [rows : SUBSET Row, audit : SUBSET [call : 1..MaxCalls, count : Nat],
             gone : SUBSET [call : 1..MaxCalls, row : Row]]

Empty == [rows |-> {}, audit |-> {}, gone |-> {}]

Put(d, row) == [d EXCEPT !.rows = {r \in @ : ~ Replaces(row, r)} \cup {row}]

Erase(d, doomed, id) ==
  [rows |-> d.rows \ doomed, audit |-> d.audit,
   gone |-> d.gone \cup {[call |-> id, row |-> r] : r \in doomed}]

Log(d, id, n) == [d EXCEPT !.audit = @ \cup {[call |-> id, count |-> n]}]

\* The rows that the DELETE of delete_history selects.
InRange(rows, table, lo, hi) == {r \in rows : r.table = table /\ lo <= r.ts /\ r.ts <= hi}

\* Mutant: cleanup deletes the rows at the cutoff too.
PurgedInclusive(rows, op, table, cutoff) ==
  {r \in rows : /\ r.table = table
                /\ op = "cleanup_expired" => r.ts <= cutoff[table]}

Purged(rows, op, table, cutoff) ==
  {r \in rows : /\ r.table = table
                /\ op = "cleanup_expired" => r.ts < cutoff[table]}

NoCutoff == [table \in RetentionTables |-> 0]

=============================================================================
