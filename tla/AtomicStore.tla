---------------------------- MODULE AtomicStore ----------------------------
(***************************************************************************)
(* What docs/architecture.md and docs/api-reference.md promise of a        *)
(* storage operation: it changes the database in one step, a restart finds *)
(* no half of it, and a deletion is recorded, with its row count, in the   *)
(* same step.  A crash is a step that changes nothing.  delete_history     *)
(* opens no transaction and has no such step.                              *)
(***************************************************************************)
EXTENDS StorageRows

VARIABLE store

\* write_current, write_1m, write_15m
WriteBatch(op, ts, id) ==
  LET batch == Batch(op, ts, id)
  IN  store' = [store EXCEPT !.rows =
                  {r \in @ : \A new \in batch : ~ Replaces(new, r)} \cup batch]

\* write_energy_daily, write_event, write_metric_info
WriteRow(op, ts, key, id) ==
  store' = Put(store, [table |-> TableOf[op], ts |-> ts, key |-> key, call |-> id])

Delete(doomed, id) == store' = Log(Erase(store, doomed, id), id, Cardinality(doomed))

DeleteAllHistory(id) == Delete({r \in store.rows : r.table # "metric_registry"}, id)

\* Nothing expired: nothing to record.
CleanupExpired(cutoff, id) ==
  LET expired == {r \in store.rows : r.table \in RetentionTables /\ r.ts < cutoff[r.table]}
  IN  expired # {} /\ Delete(expired, id)

=============================================================================
