------------------------------ MODULE Storage ------------------------------
(***************************************************************************)
(* The storage layer: StorageWriter (src/src/storage/writer.cpp) and the   *)
(* deleting half of StorageReader (src/src/storage/reader.cpp), called by  *)
(* several threads over the ONE sqlite3 connection that Database::open     *)
(* creates with SQLITE_OPEN_FULLMUTEX.                                     *)
(*                                                                         *)
(* Every sqlite3_exec / sqlite3_step is one atomic action, since SQLite    *)
(* serialises them; nothing joins two of them but the writer's mutex_,     *)
(* which the reader never takes, and the transaction, which belongs to the *)
(* connection and not to a thread.                                         *)
(***************************************************************************)
EXTENDS StorageRows

CONSTANTS
  Threads,    \* the threads that call the storage layer
  Calls,      \* Calls[t]: the operations thread t may call
  NoThread    \* nobody holds the writer's mutex

ASSUME StorageAssumption ==
  /\ Calls \in [Threads -> SUBSET Op]
  /\ NoThread \notin Threads

NoJob == [op |-> "none", call |-> 0, batch |-> {}, todo |-> {},
          at |-> 0, total |-> 0, cutoff |-> NoCutoff]

VARIABLES
  visible,    \* the database as the connection sees it
  durable,    \* the database as a restart would find it
  txn,        \* a transaction is open on the connection
  changes,    \* sqlite3_changes(): rows changed by the latest statement
  mutex,      \* holder of StorageWriter::mutex_
  pc, job,    \* what each thread is doing: next step, and locals of the call
  calls,      \* number of calls made (names them)
  acked,      \* history: rows of batch writes that returned, still wanted
  erased,     \* history: rows a returned purge deleted
  shared,     \* history: calls beside which another call was under way
  split,      \* history: calls that another thread's BEGIN or COMMIT, or a crash of
              \*   delete_history, divided into a durable part and one that is not
  miscounted  \* history: calls with another thread's data statement between
              \*   their DELETE and their sqlite3_changes()

met  == <<shared, split, miscounted>>
vars == <<visible, durable, txn, changes, mutex, pc, job, calls, acked, erased,
          shared, split, miscounted>>

Init ==
  /\ visible = Empty /\ durable = Empty
  /\ txn = FALSE /\ changes = 0 /\ mutex = NoThread
  /\ pc = [t \in Threads |-> "idle"]
  /\ job = [t \in Threads |-> NoJob]
  /\ calls = 0 /\ acked = {} /\ erased = {}
  /\ shared = {} /\ split = {} /\ miscounted = {}

-----------------------------------------------------------------------------
(* SQLite statements on the shared connection.                             *)

CallsOf(threads) == {job[t].call : t \in threads}

\* Between the BEGIN and the COMMIT of a call that issues them.
InTransaction(t) == pc[t] # "idle" /\ job[t].op \in BatchOp \cup PurgeOp

\* A data statement of thread t is durable at once unless a transaction is open.
Execute(t, new, n) ==
  /\ visible' = new
  /\ durable' = IF txn THEN durable ELSE new
  /\ changes' = n
  /\ miscounted' = miscounted \cup CallsOf({u \in Threads \ {t} : pc[u] = "count"})
  /\ UNCHANGED <<txn, split>>

\* delete_history, which has no transaction, between its DELETE and its audit row.
Deleting == {t \in Threads : job[t].op = "delete_history"}

\* BEGIN inside a transaction fails; the return code is ignored.
Begin ==
  /\ txn' = TRUE
  /\ split' = IF txn THEN split ELSE split \cup CallsOf(Deleting)
  /\ UNCHANGED <<visible, durable, changes, miscounted>>

\* COMMIT ends whatever transaction is open, whoever began it.
Commit(t) ==
  /\ txn' = FALSE
  /\ durable' = IF txn THEN visible ELSE durable
  /\ split' = split \cup CallsOf({u \in Threads \ {t} : InTransaction(u)})
  /\ UNCHANGED <<visible, changes, shared, miscounted>>

-----------------------------------------------------------------------------
(* StorageWriter.                                                          *)

Enter(t, op) ==
  /\ pc[t] = "idle" /\ op \in Calls[t] /\ calls < MaxCalls
  /\ calls' = calls + 1
  /\ LET others == CallsOf({u \in Threads : pc[u] # "idle"})
     IN  shared' = IF others = {} THEN shared ELSE shared \cup others \cup {calls'}

NewJob(op, batch, cutoff) ==
  [op |-> op, call |-> calls + 1, batch |-> batch, todo |-> batch,
   at |-> 1, total |-> 0, cutoff |-> cutoff]

Goto(t, label) == pc' = [pc EXCEPT ![t] = label]
Return(t) == Goto(t, "idle") /\ job' = [job EXCEPT ![t] = NoJob]

\* write_current, write_1m, write_15m: lock, BEGIN.
BatchBegin(t, op, ts) ==
  /\ Enter(t, op) /\ mutex = NoThread
  /\ mutex' = t
  /\ Begin
  /\ job' = [job EXCEPT ![t] = NewJob(op, Batch(op, ts, calls + 1), NoCutoff)]
  /\ Goto(t, "rows")
  /\ UNCHANGED <<acked, erased>>

\* One turn of the loop: INSERT OR REPLACE of the next row.
BatchRow(t) ==
  /\ pc[t] = "rows"
  /\ \E row \in job[t].todo :
       /\ Execute(t, Put(visible, row), 1)
       /\ acked' = {r \in acked : ~ Replaces(row, r)}
       /\ job' = [job EXCEPT ![t].todo = @ \ {row}]
       /\ Goto(t, IF job[t].todo = {row} THEN "commit" ELSE "rows")
  /\ UNCHANGED <<mutex, calls, erased, shared>>

\* Mutant: the COMMIT is forgotten.
BatchCommitForgotten(t) ==
  /\ pc[t] = "commit" /\ job[t].op \in BatchOp
  /\ mutex' = NoThread
  /\ Return(t)
  /\ UNCHANGED <<visible, durable, txn, changes, met, calls, acked, erased>>

\* COMMIT, return, unlock.
BatchCommit(t) ==
  /\ pc[t] = "commit" /\ job[t].op \in BatchOp
  /\ Commit(t)
  /\ acked' = acked \cup {r \in job[t].batch : \A g \in visible.gone : g.row # r}
  /\ mutex' = NoThread
  /\ Return(t)
  /\ UNCHANGED <<calls, erased>>

\* write_energy_daily, write_event, write_metric_info: one statement under the lock.
WriteRow(t, op, ts, key) ==
  /\ Enter(t, op) /\ mutex = NoThread
  /\ LET row == [table |-> TableOf[op], ts |-> ts, key |-> key, call |-> calls + 1]
     IN  /\ Execute(t, Put(visible, row), 1)
         /\ acked' = {r \in acked : ~ Replaces(row, r)}
  /\ UNCHANGED <<mutex, pc, job, erased>>

-----------------------------------------------------------------------------
(* The deleting operations of StorageReader; none takes a lock.            *)

\* delete_history: the DELETE.
DeleteHistory(t, table, lo, hi) ==
  /\ Enter(t, "delete_history")
  /\ LET doomed == InRange(visible.rows, table, lo, hi)
     IN  /\ Execute(t, Erase(visible, doomed, calls + 1), Cardinality(doomed))
         /\ acked' = acked \ doomed
  /\ job' = [job EXCEPT ![t] = NewJob("delete_history", {}, NoCutoff)]
  /\ Goto(t, "count")
  /\ UNCHANGED <<mutex, erased>>

\* Mutant: the purge runs without a transaction of its own.
PurgeBeginAutocommit(t, op, cutoff) ==
  /\ Enter(t, op)
  /\ job' = [job EXCEPT ![t] = NewJob(op, {}, cutoff)]
  /\ Goto(t, "purge")
  /\ UNCHANGED <<visible, durable, txn, changes, split, miscounted, mutex, acked, erased>>

\* delete_all_history and cleanup_expired: BEGIN.
PurgeBegin(t, op, cutoff) ==
  /\ Enter(t, op)
  /\ Begin
  /\ job' = [job EXCEPT ![t] = NewJob(op, {}, cutoff)]
  /\ Goto(t, "purge")
  /\ UNCHANGED <<mutex, acked, erased>>

PurgeTarget(t) == PurgeOrder(job[t].op)[job[t].at]
Disabled(t) == job[t].op = "cleanup_expired" /\ job[t].cutoff[PurgeTarget(t)] = 0
Doomed(t) == Purged(visible.rows, job[t].op, PurgeTarget(t), job[t].cutoff)

\* Mutant: cleanup_expired returns early, past its COMMIT, when nothing expired.
AfterTableEarlyReturn(t, at, total) ==
  IF at <= Len(PurgeOrder(job[t].op)) /\ job[t].op \in PurgeOp THEN "purge"
  ELSE IF job[t].op # "cleanup_expired" \/ total > 0 THEN "audit"
  ELSE "idle"

\* Where the call goes when `total` rows are gone and table number `at` is next.
AfterTable(t, at, total) ==
  IF at <= Len(PurgeOrder(job[t].op)) /\ job[t].op \in PurgeOp THEN "purge"
  ELSE IF job[t].op # "cleanup_expired" \/ total > 0 THEN "audit"
  ELSE "commit"

\* DELETE FROM the next table.
PurgeTable(t) ==
  /\ pc[t] = "purge" /\ ~ Disabled(t)
  /\ Execute(t, Erase(visible, Doomed(t), job[t].call), Cardinality(Doomed(t)))
  /\ acked' = acked \ Doomed(t)
  /\ job' = [job EXCEPT ![t].at = @ + 1]
  /\ Goto(t, "count")
  /\ UNCHANGED <<mutex, calls, erased, shared>>

\* purge_table returns early when the retention of the table is not positive.
PurgeSkip(t) ==
  /\ pc[t] = "purge" /\ Disabled(t)
  /\ Goto(t, AfterTable(t, job[t].at + 1, job[t].total))
  /\ job' = [job EXCEPT ![t].at = @ + 1]
  /\ UNCHANGED <<visible, durable, txn, changes, met, mutex, calls, acked, erased>>

\* Mutant: total_deleted is overwritten, not added to.
CountChangesOverwrite(t) ==
  /\ pc[t] = "count"
  /\ Goto(t, AfterTable(t, job[t].at, changes))
  /\ job' = [job EXCEPT ![t].total = changes]
  /\ UNCHANGED <<visible, durable, txn, changes, met, mutex, calls, acked, erased>>

\* sqlite3_changes(db_), read after the DELETE in a call of its own.
CountChanges(t) ==
  /\ pc[t] = "count"
  /\ Goto(t, AfterTable(t, job[t].at, job[t].total + changes))
  /\ job' = [job EXCEPT ![t].total = @ + changes]
  /\ UNCHANGED <<visible, durable, txn, changes, met, mutex, calls, acked, erased>>

\* INSERT INTO deletions_audit; the last statement of delete_history.
WriteAudit(t) ==
  /\ pc[t] = "audit"
  /\ Execute(t, Log(visible, job[t].call, job[t].total), 1)
  /\ IF job[t].op = "delete_history" THEN Return(t) ELSE Goto(t, "commit") /\ job' = job
  /\ UNCHANGED <<mutex, calls, acked, erased, shared>>

\* Mutant: a purge that deleted nothing rolls back instead of committing.
PurgeCommitRollback(t) ==
  /\ pc[t] = "commit" /\ job[t].op \in PurgeOp
  /\ IF job[t].total = 0
     THEN visible' = durable /\ txn' = FALSE /\ UNCHANGED <<durable, changes, met>>
     ELSE Commit(t)
  /\ erased' = erased \cup {g.row : g \in {h \in visible.gone : h.call = job[t].call}}
  /\ Return(t)
  /\ UNCHANGED <<mutex, calls, acked>>

\* Mutant: the COMMIT is forgotten.
PurgeCommitForgotten(t) ==
  /\ pc[t] = "commit" /\ job[t].op \in PurgeOp
  /\ erased' = erased \cup {g.row : g \in {h \in visible.gone : h.call = job[t].call}}
  /\ Return(t)
  /\ UNCHANGED <<visible, durable, txn, changes, met, mutex, calls, acked>>

PurgeCommit(t) ==
  /\ pc[t] = "commit" /\ job[t].op \in PurgeOp
  /\ Commit(t)
  /\ erased' = erased \cup {g.row : g \in {h \in visible.gone : h.call = job[t].call}}
  /\ Return(t)
  /\ UNCHANGED <<mutex, calls, acked>>

-----------------------------------------------------------------------------
\* The process dies and is started again: SQLite rolls the open transaction
\* back, every thread and lock is new.
Crash ==
  /\ visible' = durable /\ txn' = FALSE /\ changes' = 0 /\ mutex' = NoThread
  /\ pc' = [t \in Threads |-> "idle"]
  /\ job' = [t \in Threads |-> NoJob]
  /\ split' = split \cup CallsOf(Deleting)
  /\ UNCHANGED <<durable, calls, acked, erased, shared, miscounted>>

Call(t) ==
  \/ \E op \in BatchOp, ts \in Times : BatchBegin(t, op, ts)
  \/ \E op \in RowOp, ts \in Times, key \in Keys : WriteRow(t, op, ts, key)
  \/ \E table \in HistoryTables, lo, hi \in Times : DeleteHistory(t, table, lo, hi)
  \/ PurgeBegin(t, "delete_all_history", NoCutoff)
  \/ \E cutoff \in Cutoffs : PurgeBegin(t, "cleanup_expired", cutoff)

Step(t) ==
  \/ BatchRow(t) \/ BatchCommit(t)
  \/ PurgeTable(t) \/ PurgeSkip(t) \/ CountChanges(t) \/ WriteAudit(t) \/ PurgeCommit(t)

Next == (\E t \in Threads : Call(t) \/ Step(t)) \/ Crash

Spec == Init /\ [][Next]_vars

\* A call, once made, runs on: none of its steps waits for another thread.
FairSpec == Spec /\ \A t \in Threads : WF_vars(Step(t))

-----------------------------------------------------------------------------
Label == {"idle", "rows", "purge", "count", "audit", "commit"}
Job == [op : Op \cup {"none"}, call : 0..MaxCalls,
        batch : SUBSET Row, todo : SUBSET Row,
        at : Nat, total : Nat, cutoff : [RetentionTables -> Nat]]

StateOK ==
  /\ visible \in Database /\ durable \in Database
  /\ IsFiniteSet(visible.rows) /\ IsFiniteSet(durable.rows)
  /\ txn \in BOOLEAN /\ changes \in Nat
  /\ mutex \in Threads \cup {NoThread}
  /\ pc \in [Threads -> Label] /\ job \in [Threads -> Job]
  /\ calls \in 0..MaxCalls
  /\ acked \subseteq Row /\ erased \subseteq Row

\* Type invariant of the storage layer: its state, and histories of calls made.
TypeOK == StateOK /\ shared \cup split \cup miscounted \subseteq 1..calls

\* A transaction is never leaked: while one is open, some call that will issue
\* a COMMIT is under way, however the threads' BEGINs and COMMITs interleave
\* (every path of write_*, delete_all_history and cleanup_expired commits).
OpenTxnHasOwner == txn => \E t \in Threads : InTransaction(t)

\* A batch whose write_* call returned stays in the database through crashes
\* until somebody replaces or deletes its rows, even when another thread's
\* COMMIT ended its transaction early or its BEGIN had failed.
AckedBatchesDurable == acked \subseteq durable.rows

\* What a returned delete_all_history or cleanup_expired deleted never comes
\* back after a crash.
ErasedStaysErased == erased \cap durable.rows = {}

\* docs/api-reference.md:406: all deletions are recorded in deletions_audit. Of every
\* call that is no longer under way, returned or cut short by a crash, a restart
\* finds the audit row if it finds a deletion, whatever ran beside the call; but
\* a call that a BEGIN or COMMIT of another thread or a crash of delete_history
\* divided may have lost it, and a miscounted cleanup_expired may have seen
\* nothing to record.
DeletionsAudited ==
  \A g \in durable.gone :
    \/ \E a \in durable.audit : a.call = g.call
    \/ \E t \in Threads : job[t].call = g.call
    \/ g.call \in split \cup miscounted

\* docs/api-reference.md:406: ... with the row count. Whatever runs beside a call, the
\* count it recorded is the number of rows that it deleted, unless a data
\* statement of another thread came between one of its DELETEs and the
\* sqlite3_changes() behind it.
AuditCountExact ==
  \A a \in visible.audit :
    a.call \in miscounted \/ a.count = Cardinality({g \in visible.gone : g.call = a.call})

\* No transaction is leaked or grows for ever: again and again the connection is
\* back in autocommit with everything it shows on disk, also the event of a
\* write_event caught in another thread's open transaction.
ChangesReachDisk == []<>(~ txn /\ visible = durable)

(***************************************************************************)
(* The promise: what a restart would find changes as AtomicStore says.     *)
(***************************************************************************)
Promise == INSTANCE AtomicStore WITH store <- durable

\* Thread t's call takes effect as AtomicStore says of its operation and arguments.
TakesEffect(t) ==
  \/ \E op \in RowOp, ts \in Times, key \in Keys :
       /\ pc[t] = "idle" /\ op \in Calls[t]
       /\ Promise!WriteRow(op, ts, key, calls')
  \/ /\ job[t].op \in BatchOp
     /\ \E ts \in Times : Promise!WriteBatch(job[t].op, ts, job[t].call)
  \/ /\ job[t].op = "delete_all_history"
     /\ Promise!DeleteAllHistory(job[t].call)
  \/ /\ job[t].op = "cleanup_expired"
     /\ Promise!CleanupExpired(job[t].cutoff, job[t].call)

\* delete_history is no transaction: its deletion is one step, its audit row, with
\* the number of rows it deleted, another.
DeletesThenRecords(t) ==
  \/ /\ job'[t].op = "delete_history"
     /\ \E table \in HistoryTables, lo, hi \in Times :
          durable' = Erase(durable, InRange(durable.rows, table, lo, hi), calls')
  \/ /\ job[t].op = "delete_history"
     /\ durable' = Log(durable, job[t].call,
                        Cardinality({g \in durable.gone : g.call = job[t].call}))

\* docs/architecture.md:140-156: a storage operation takes effect as a whole or not at
\* all. True of every call beside which no other was under way, between other
\* calls' overlaps and with a crash at any statement; a call that met another may
\* show a restart a half of itself.
UnsharedCallsAtomic ==
  [][\E t \in Threads :
       \/ TakesEffect(t)
       \/ DeletesThenRecords(t)
       \/ pc[t] # "idle" /\ job[t].call \in shared']_durable

=============================================================================
