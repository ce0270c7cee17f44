--------------------------- MODULE StorageProofs ---------------------------
(***************************************************************************)
(* Theorems of Storage, for every set of threads, every assignment of      *)
(* operations to them, every retention and every bound: type correctness   *)
(* and transactions, what survives a crash, what stays erased, what the    *)
(* recorded counts and the audit rows are worth while calls overlap, and   *)
(* that a call which meets no other takes effect as AtomicStore says.      *)
(***************************************************************************)
EXTENDS Storage, FiniteSetTheorems, TLAPS

-----------------------------------------------------------------------------
(* The SQL statements keep a finite database of well-typed rows.           *)

LEMMA PutType ==
  ASSUME NEW d \in Database, IsFiniteSet(d.rows), NEW row \in Row
  PROVE  /\ Put(d, row) \in Database
         /\ IsFiniteSet(Put(d, row).rows)
  <1> DEFINE kept == {r \in d.rows : ~ Replaces(row, r)}
  <1>1. Put(d, row) = [d EXCEPT !.rows = kept \cup {row}]
    BY DEF Put, Database
  <1>2. IsFiniteSet(kept \cup {row})
    <2>1. IsFiniteSet(kept)
      BY FS_Subset
    <2> QED BY <2>1, FS_AddElement
  <1>3. kept \subseteq Row
    BY DEF Database
  <1> QED
    <2> HIDE DEF kept
    <2> QED BY <1>1, <1>2, <1>3 DEF Database

LEMMA EraseType ==
  ASSUME NEW d \in Database, IsFiniteSet(d.rows),
         NEW doomed \in SUBSET Row, NEW id \in 1..MaxCalls
  PROVE  /\ Erase(d, doomed, id) \in Database
         /\ IsFiniteSet(Erase(d, doomed, id).rows)
  <1> DEFINE marks == {[call |-> id, row |-> r] : r \in doomed}
  <1>1. Erase(d, doomed, id) = [rows |-> d.rows \ doomed, audit |-> d.audit,
                               gone |-> d.gone \cup marks]
    BY DEF Erase
  <1>2. marks \subseteq [call : 1..MaxCalls, row : Row]
    OBVIOUS
  <1>3. IsFiniteSet(d.rows \ doomed)
    BY FS_Subset
  <1> QED
    <2> HIDE DEF marks
    <2> QED BY <1>1, <1>2, <1>3 DEF Database

LEMMA LogType ==
  ASSUME NEW d \in Database, IsFiniteSet(d.rows), NEW id \in 1..MaxCalls, NEW n \in Nat
  PROVE  /\ Log(d, id, n) \in Database
         /\ IsFiniteSet(Log(d, id, n).rows)
  BY DEF Log, Database

LEMMA BatchType ==
  ASSUME NEW op \in BatchOp, NEW ts \in Times, NEW id \in 1..MaxCalls
  PROVE  Batch(op, ts, id) \subseteq Row
  BY DEF BatchOp, Batch, Row, TableOf, Tables, RetentionTables, HistoryTables

\* A statement on the connection leaves well-typed databases.
LEMMA ExecuteType ==
  ASSUME StateOK, NEW t, NEW new \in Database, IsFiniteSet(new.rows), NEW n \in Nat, Execute(t, new, n)
  PROVE  /\ visible' \in Database /\ durable' \in Database
         /\ IsFiniteSet(visible'.rows) /\ IsFiniteSet(durable'.rows)
         /\ txn' \in BOOLEAN /\ changes' \in Nat
  BY DEF StateOK, Execute

-----------------------------------------------------------------------------
(* Typing, with what a call under way is doing at each of its steps.       *)

\* The step a call is at tells which operation it can be.
JobOK ==
  \A t \in Threads :
    /\ pc[t] # "idle" => job[t].call \in 1..MaxCalls
    /\ pc[t] = "rows" => job[t].op \in BatchOp
    /\ pc[t] = "purge" => job[t].op \in PurgeOp
    /\ pc[t] \in {"count", "audit"} => job[t].op \in PurgeOp \cup {"delete_history"}
    /\ pc[t] = "commit" => job[t].op \in BatchOp \cup PurgeOp

TypeInv == StateOK /\ JobOK

LEMMA EnterType ==
  ASSUME StateOK, NEW t \in Threads, NEW op, Enter(t, op)
  PROVE  /\ calls' \in 0..MaxCalls /\ calls + 1 \in 1..MaxCalls
         /\ op \in Op
  BY StorageAssumption, RowsAssumption DEF StateOK, Enter

LEMMA NoCutoffType == NoCutoff \in [RetentionTables -> Nat]
  BY DEF NoCutoff

LEMMA NoJobType == NoJob \in Job /\ NoJob.op = "none"
  BY NoCutoffType, RowsAssumption DEF NoJob, Job

LEMMA NewJobType ==
  ASSUME NEW op \in Op, calls + 1 \in 1..MaxCalls,
         NEW batch \in SUBSET Row, NEW cutoff \in [RetentionTables -> Nat]
  PROVE  /\ NewJob(op, batch, cutoff) \in Job
         /\ NewJob(op, batch, cutoff).op = op
         /\ NewJob(op, batch, cutoff).call = calls + 1
  <1>1. calls + 1 \in 0..MaxCalls
    BY RowsAssumption
  <1> QED BY <1>1 DEF Job, NewJob

LEMMA AfterTableType ==
  ASSUME NEW t \in Threads, NEW at, NEW total,
         job[t].op \in PurgeOp \cup {"delete_history"}
  PROVE  /\ AfterTable(t, at, total) \in {"purge", "audit", "commit"}
         /\ AfterTable(t, at, total) \in {"purge", "commit"} => job[t].op \in PurgeOp
  BY DEF AfterTable, PurgeOp

LEMMA InitTypeInv == Init => TypeInv
  <1>1. Empty \in Database /\ IsFiniteSet(Empty.rows)
    BY FS_EmptySet DEF Empty, Database
  <1>2. 0 \in 0..MaxCalls
    BY RowsAssumption
  <1>3. ASSUME Init PROVE StateOK
    <2>1. pc \in [Threads -> Label]
      BY <1>3 DEF Init, Label
    <2>2. job \in [Threads -> Job]
      BY <1>3, NoJobType DEF Init
    <2>3. /\ visible \in Database /\ IsFiniteSet(visible.rows)
          /\ durable \in Database /\ IsFiniteSet(durable.rows)
      BY <1>1, <1>3 DEF Init
    <2> QED BY <1>2, <1>3, <2>1, <2>2, <2>3 DEF Init, StateOK
  <1>4. Init => JobOK
    BY DEF Init, JobOK
  <1> QED BY <1>3, <1>4 DEF TypeInv

LEMMA CallTypeInv ==
  ASSUME TypeInv, NEW t \in Threads, Call(t)
  PROVE  TypeInv'
  <1>1. ASSUME NEW op \in BatchOp, NEW ts \in Times, BatchBegin(t, op, ts)
        PROVE  TypeInv'
    <2>1. op \in Op /\ calls + 1 \in 1..MaxCalls /\ calls' \in 0..MaxCalls
      BY <1>1, EnterType DEF BatchBegin, TypeInv
    <2>2. Batch(op, ts, calls + 1) \subseteq Row
      BY <2>1, BatchType
    <2> DEFINE new == NewJob(op, Batch(op, ts, calls + 1), NoCutoff)
    <2>3. new \in Job /\ new.op = op /\ new.call = calls + 1
      BY <2>1, <2>2, NewJobType, NoCutoffType
    <2>4. job' = [job EXCEPT ![t] = new] /\ pc' = [pc EXCEPT ![t] = "rows"]
      BY <1>1 DEF BatchBegin, Goto
    <2> HIDE DEF new
    <2>5. StateOK'
      BY <1>1, <2>1, <2>3, <2>4 DEF BatchBegin, Begin, TypeInv, StateOK, Label
    <2>6. JobOK'
      BY <1>1, <2>1, <2>3, <2>4 DEF TypeInv, StateOK, JobOK
    <2> QED BY <2>5, <2>6 DEF TypeInv
  <1>2. ASSUME NEW op \in RowOp, NEW ts \in Times, NEW key \in Keys, WriteRow(t, op, ts, key)
        PROVE  TypeInv'
    <2> DEFINE row == [table |-> TableOf[op], ts |-> ts, key |-> key, call |-> calls + 1]
    <2>1. calls + 1 \in 1..MaxCalls /\ calls' \in 0..MaxCalls
      BY <1>2, EnterType DEF WriteRow, TypeInv
    <2>2. row \in Row
      BY <2>1 DEF RowOp, Row, TableOf, Tables, RetentionTables, HistoryTables
    <2> HIDE DEF row
    <2>3. Execute(t, Put(visible, row), 1)
      BY <1>2 DEF WriteRow, row
    <2>4. Put(visible, row) \in Database /\ IsFiniteSet(Put(visible, row).rows)
      BY <2>2, PutType DEF TypeInv, StateOK
    <2>5. /\ visible' \in Database /\ durable' \in Database
          /\ IsFiniteSet(visible'.rows) /\ IsFiniteSet(durable'.rows)
          /\ txn' \in BOOLEAN /\ changes' \in Nat
      BY <2>3, <2>4, ExecuteType DEF TypeInv
    <2>6. /\ UNCHANGED <<mutex, pc, job, erased>>
          /\ acked' \subseteq acked
      BY <1>2 DEF WriteRow
    <2> QED BY <2>1, <2>5, <2>6 DEF TypeInv, StateOK, JobOK
  <1>3. ASSUME NEW table \in HistoryTables, NEW lo \in Times, NEW hi \in Times,
               DeleteHistory(t, table, lo, hi)
        PROVE  TypeInv'
    <2> DEFINE doomed == InRange(visible.rows, table, lo, hi)
    <2>1. calls + 1 \in 1..MaxCalls /\ calls' \in 0..MaxCalls
      BY <1>3, EnterType DEF DeleteHistory, TypeInv
    <2>2. doomed \in SUBSET Row /\ IsFiniteSet(doomed)
      BY FS_Subset DEF InRange, TypeInv, StateOK, Database
    <2>3. Cardinality(doomed) \in Nat
      BY <2>2, FS_CardinalityType
    <2>4. /\ Execute(t, Erase(visible, doomed, calls + 1), Cardinality(doomed))
          /\ acked' = acked \ doomed
          /\ job' = [job EXCEPT ![t] = NewJob("delete_history", {}, NoCutoff)]
          /\ pc' = [pc EXCEPT ![t] = "count"]
          /\ UNCHANGED <<mutex, erased>>
      BY <1>3 DEF DeleteHistory, Goto
    <2> HIDE DEF doomed
    <2>5. /\ visible' \in Database /\ durable' \in Database
          /\ IsFiniteSet(visible'.rows) /\ IsFiniteSet(durable'.rows)
          /\ txn' \in BOOLEAN /\ changes' \in Nat
      BY <2>1, <2>2, <2>3, <2>4, EraseType, ExecuteType DEF TypeInv, StateOK
    <2>6. /\ NewJob("delete_history", {}, NoCutoff) \in Job
          /\ NewJob("delete_history", {}, NoCutoff).op = "delete_history"
          /\ NewJob("delete_history", {}, NoCutoff).call = calls + 1
      BY <2>1, NewJobType, NoCutoffType DEF Op
    <2> QED BY <2>1, <2>4, <2>5, <2>6 DEF TypeInv, StateOK, JobOK, Label
  <1>4. ASSUME NEW op \in PurgeOp, NEW cutoff \in [RetentionTables -> Nat],
               PurgeBegin(t, op, cutoff)
        PROVE  TypeInv'
    <2>1. op \in Op /\ calls + 1 \in 1..MaxCalls /\ calls' \in 0..MaxCalls
      BY <1>4, EnterType DEF PurgeBegin, TypeInv
    <2> DEFINE new == NewJob(op, {}, cutoff)
    <2>2. new \in Job /\ new.op = op /\ new.call = calls + 1
      BY <1>4, <2>1, NewJobType
    <2>3. job' = [job EXCEPT ![t] = new] /\ pc' = [pc EXCEPT ![t] = "purge"]
      BY <1>4 DEF PurgeBegin, Goto
    <2> HIDE DEF new
    <2>4. StateOK'
      BY <1>4, <2>1, <2>2, <2>3 DEF PurgeBegin, Begin, TypeInv, StateOK, Label
    <2>5. JobOK'
      BY <1>4, <2>1, <2>2, <2>3 DEF TypeInv, StateOK, JobOK
    <2> QED BY <2>4, <2>5 DEF TypeInv
  <1>5. NoCutoff \in [RetentionTables -> Nat] /\ Cutoffs \subseteq [RetentionTables -> Nat]
    BY RowsAssumption DEF NoCutoff
  <1> QED BY <1>1, <1>2, <1>3, <1>4, <1>5 DEF Call, PurgeOp

\* The updates of a call's locals keep them well typed.
LEMMA JobUpdateType ==
  ASSUME NEW j \in Job, NEW n \in Nat, NEW rows
  PROVE  /\ [j EXCEPT !.todo = @ \ rows] \in Job
         /\ [j EXCEPT !.at = @ + 1] \in Job
         /\ [j EXCEPT !.total = @ + n] \in Job
  BY DEF Job

LEMMA StepTypeInv ==
  ASSUME TypeInv, NEW t \in Threads, Step(t)
  PROVE  TypeInv'
  <1>1. CASE BatchRow(t)
    <2>1. PICK row \in job[t].todo :
            /\ Execute(t, Put(visible, row), 1)
            /\ job' = [job EXCEPT ![t].todo = @ \ {row}]
            /\ pc' = [pc EXCEPT ![t] = IF job[t].todo = {row} THEN "commit" ELSE "rows"]
            /\ acked' \subseteq acked
      BY <1>1 DEF BatchRow, Goto
    <2>2. row \in Row
      BY DEF TypeInv, StateOK, Job
    <2>3. Put(visible, row) \in Database /\ IsFiniteSet(Put(visible, row).rows)
      BY <2>2, PutType DEF TypeInv, StateOK
    <2>4. /\ visible' \in Database /\ durable' \in Database
          /\ IsFiniteSet(visible'.rows) /\ IsFiniteSet(durable'.rows)
          /\ txn' \in BOOLEAN /\ changes' \in Nat
      BY <2>1, <2>3, ExecuteType DEF TypeInv
    <2>5. pc[t] = "rows" /\ job[t].op \in BatchOp /\ job[t].call \in 1..MaxCalls
      BY <1>1 DEF BatchRow, TypeInv, JobOK
    <2>6. StateOK'
      <3>1. job' = [job EXCEPT ![t] = [job[t] EXCEPT !.todo = @ \ {row}]]
        BY <2>1
      <3>2. job' \in [Threads -> Job]
        BY <3>1, JobUpdateType DEF TypeInv, StateOK
      <3>3. pc' \in [Threads -> Label]
        BY <2>1 DEF TypeInv, StateOK, Label
      <3> QED BY <1>1, <2>1, <2>4, <3>2, <3>3 DEF BatchRow, TypeInv, StateOK
    <2>7. JobOK'
      BY <2>1, <2>5 DEF TypeInv, StateOK, JobOK, Job
    <2> QED BY <2>6, <2>7 DEF TypeInv
  <1>2. CASE BatchCommit(t)
    <2>1. StateOK'
      BY <1>2, NoJobType DEF BatchCommit, Commit, Return, Goto, TypeInv, StateOK, Job, Label
    <2>2. JobOK'
      BY <1>2 DEF BatchCommit, Return, Goto, TypeInv, StateOK, JobOK
    <2> QED BY <2>1, <2>2 DEF TypeInv
  <1>3. CASE PurgeTable(t)
    <2>1. pc[t] = "purge" /\ job[t].op \in PurgeOp /\ job[t].call \in 1..MaxCalls
      BY <1>3 DEF PurgeTable, TypeInv, JobOK
    <2>2. Doomed(t) \in SUBSET Row /\ IsFiniteSet(Doomed(t))
      BY FS_Subset DEF Doomed, Purged, TypeInv, StateOK, Database
    <2>3. Cardinality(Doomed(t)) \in Nat
      BY <2>2, FS_CardinalityType
    <2>4. /\ visible' \in Database /\ durable' \in Database
          /\ IsFiniteSet(visible'.rows) /\ IsFiniteSet(durable'.rows)
          /\ txn' \in BOOLEAN /\ changes' \in Nat
      BY <1>3, <2>1, <2>2, <2>3, EraseType, ExecuteType DEF PurgeTable, TypeInv, StateOK
    <2>5. StateOK'
      <3>1. job' = [job EXCEPT ![t] = [job[t] EXCEPT !.at = @ + 1]]
        BY <1>3 DEF PurgeTable
      <3>2. job' \in [Threads -> Job]
        BY <3>1, JobUpdateType DEF TypeInv, StateOK
      <3> QED BY <1>3, <2>4, <3>2 DEF PurgeTable, Goto, TypeInv, StateOK, Label
    <2>6. JobOK'
      BY <1>3, <2>1 DEF PurgeTable, Goto, TypeInv, StateOK, JobOK, Job
    <2> QED BY <2>5, <2>6 DEF TypeInv
  <1>4. CASE PurgeSkip(t)
    <2>1. pc[t] = "purge" /\ job[t].op \in PurgeOp /\ job[t].call \in 1..MaxCalls
      BY <1>4 DEF PurgeSkip, TypeInv, JobOK
    <2> DEFINE next == AfterTable(t, job[t].at + 1, job[t].total)
    <2>2. next \in {"purge", "audit", "commit"}
      BY <2>1, AfterTableType
    <2> HIDE DEF next
    <2>3. pc' = [pc EXCEPT ![t] = next] /\ job' = [job EXCEPT ![t].at = @ + 1]
      BY <1>4 DEF PurgeSkip, Goto, next
    <2>4. StateOK'
      <3>1. job' = [job EXCEPT ![t] = [job[t] EXCEPT !.at = @ + 1]]
        BY <2>3
      <3>2. job' \in [Threads -> Job]
        BY <3>1, JobUpdateType DEF TypeInv, StateOK
      <3> QED BY <1>4, <2>2, <2>3, <3>2 DEF PurgeSkip, TypeInv, StateOK, Label
    <2>5. JobOK'
      BY <2>1, <2>2, <2>3 DEF TypeInv, StateOK, JobOK, Job
    <2> QED BY <2>4, <2>5 DEF TypeInv
  <1>5. CASE CountChanges(t)
    <2>1. /\ pc[t] = "count" /\ job[t].op \in PurgeOp \cup {"delete_history"}
          /\ job[t].call \in 1..MaxCalls
      BY <1>5 DEF CountChanges, TypeInv, JobOK
    <2> DEFINE next == AfterTable(t, job[t].at, job[t].total + changes)
    <2>2. /\ next \in {"purge", "audit", "commit"}
          /\ next \in {"purge", "commit"} => job[t].op \in PurgeOp
      BY <2>1, AfterTableType
    <2> HIDE DEF next
    <2>3. /\ pc' = [pc EXCEPT ![t] = next]
          /\ job' = [job EXCEPT ![t].total = @ + changes]
      BY <1>5 DEF CountChanges, Goto, next
    <2>4. StateOK'
      <3>1. job' = [job EXCEPT ![t] = [job[t] EXCEPT !.total = @ + changes]]
        BY <2>3
      <3>2. job' \in [Threads -> Job]
        BY <3>1, JobUpdateType DEF TypeInv, StateOK
      <3> QED BY <1>5, <2>2, <2>3, <3>2 DEF CountChanges, TypeInv, StateOK, Label
    <2>5. JobOK'
      BY <2>1, <2>2, <2>3 DEF TypeInv, StateOK, JobOK, Job
    <2> QED BY <2>4, <2>5 DEF TypeInv
  <1>6. CASE WriteAudit(t)
    <2>1. /\ pc[t] = "audit" /\ job[t].op \in PurgeOp \cup {"delete_history"}
          /\ job[t].call \in 1..MaxCalls /\ job[t].total \in Nat
      BY <1>6 DEF WriteAudit, TypeInv, StateOK, JobOK, Job
    <2>2. /\ visible' \in Database /\ durable' \in Database
          /\ IsFiniteSet(visible'.rows) /\ IsFiniteSet(durable'.rows)
          /\ txn' \in BOOLEAN /\ changes' \in Nat
      BY <1>6, <2>1, LogType, ExecuteType DEF WriteAudit, TypeInv, StateOK
    <2>3. StateOK'
      BY <1>6, <2>2, NoJobType DEF WriteAudit, Return, Goto, TypeInv, StateOK, Label
    <2>4. JobOK'
      BY <1>6, <2>1 DEF WriteAudit, Return, Goto, TypeInv, StateOK, JobOK
    <2> QED BY <2>3, <2>4 DEF TypeInv
  <1>7. CASE PurgeCommit(t)
    <2>1. erased' \subseteq Row
      BY <1>7 DEF PurgeCommit, TypeInv, StateOK, Database
    <2>2. StateOK'
      BY <1>7, <2>1, NoJobType DEF PurgeCommit, Commit, Return, Goto, TypeInv, StateOK, Label
    <2>3. JobOK'
      BY <1>7 DEF PurgeCommit, Return, Goto, TypeInv, StateOK, JobOK
    <2> QED BY <2>2, <2>3 DEF TypeInv
  <1> QED BY <1>1, <1>2, <1>3, <1>4, <1>5, <1>6, <1>7 DEF Step

LEMMA CrashTypeInv == TypeInv /\ Crash => TypeInv'
  <1> SUFFICES ASSUME TypeInv, Crash PROVE TypeInv'
    OBVIOUS
  <1>1. pc' \in [Threads -> Label] /\ job' \in [Threads -> Job]
    BY NoJobType DEF Crash, Label
  <1>2. JobOK'
    BY DEF Crash, JobOK
  <1> QED BY <1>1, <1>2 DEF Crash, TypeInv, StateOK

LEMMA NextTypeInv == TypeInv /\ [Next]_vars => TypeInv'
  <1>1. TypeInv /\ UNCHANGED vars => TypeInv'
    BY DEF vars, TypeInv, StateOK, JobOK
  <1> QED BY <1>1, CallTypeInv, StepTypeInv, CrashTypeInv DEF Next

\* The connection's databases hold finitely many well-typed rows, sqlite3_changes() is a
\* row count and every call is at a step of its operation, whatever the threads call.
THEOREM Typing == Spec => []TypeInv
  BY InitTypeInv, NextTypeInv, PTL DEF Spec

-----------------------------------------------------------------------------
(* No leaked transaction.                                                  *)

\* While a transaction is open on the shared connection, a call that will issue a
\* COMMIT is under way: the writers, delete_all_history and cleanup_expired leave
\* no transaction behind however their BEGINs and COMMITs interleave.
THEOREM NoLeakedTransaction == Spec => []OpenTxnHasOwner
  <1>1. Init => OpenTxnHasOwner
    BY DEF Init, OpenTxnHasOwner
  <1>2. TypeInv /\ OpenTxnHasOwner /\ [Next]_vars => OpenTxnHasOwner'
    <2> SUFFICES ASSUME TypeInv, OpenTxnHasOwner, [Next]_vars
                 PROVE  OpenTxnHasOwner'
      OBVIOUS
    <2> USE DEF OpenTxnHasOwner, InTransaction, Goto
    <2>1. ASSUME NEW t \in Threads, Call(t)
          PROVE  OpenTxnHasOwner'
      <3>1. ASSUME NEW op \in BatchOp, NEW ts \in Times, BatchBegin(t, op, ts)
            PROVE  OpenTxnHasOwner'
        BY <3>1 DEF BatchBegin, NewJob, TypeInv, StateOK
      <3>2. ASSUME NEW op \in RowOp, NEW ts \in Times, NEW key \in Keys, WriteRow(t, op, ts, key)
            PROVE  OpenTxnHasOwner'
        BY <3>2 DEF WriteRow, Execute
      <3>3. ASSUME NEW table \in HistoryTables, NEW lo \in Times, NEW hi \in Times,
                   DeleteHistory(t, table, lo, hi)
            PROVE  OpenTxnHasOwner'
        <4>1. pc[t] = "idle" /\ txn' = txn
          BY <3>3 DEF DeleteHistory, Enter, Execute
        <4>2. \A u \in Threads : InTransaction(u) => InTransaction(u)'
          BY <3>3, <4>1 DEF DeleteHistory, TypeInv, StateOK
        <4> QED BY <4>1, <4>2
      <3>4. ASSUME NEW op \in PurgeOp, NEW cutoff, PurgeBegin(t, op, cutoff)
            PROVE  OpenTxnHasOwner'
        BY <3>4 DEF PurgeBegin, NewJob, TypeInv, StateOK
      <3> QED BY <2>1, <3>1, <3>2, <3>3, <3>4 DEF Call, PurgeOp
    <2>2. ASSUME NEW t \in Threads, Step(t)
          PROVE  OpenTxnHasOwner'
      <3>1. CASE BatchCommit(t) \/ PurgeCommit(t)
        BY <3>1 DEF BatchCommit, PurgeCommit, Commit
      <3>2. CASE BatchRow(t)
        BY <3>2 DEF BatchRow, Execute, TypeInv, StateOK, Job
      <3>3. CASE PurgeTable(t)
        BY <3>3 DEF PurgeTable, Execute, TypeInv, StateOK, Job
      <3>4. CASE PurgeSkip(t)
        <4>1. AfterTable(t, job[t].at + 1, job[t].total) # "idle"
          BY <3>4, AfterTableType DEF PurgeSkip, TypeInv, JobOK
        <4> QED BY <3>4, <4>1 DEF PurgeSkip, TypeInv, StateOK, Job
      <3>5. CASE CountChanges(t)
        <4>1. AfterTable(t, job[t].at, job[t].total + changes) # "idle"
          BY <3>5, AfterTableType DEF CountChanges, TypeInv, JobOK
        <4> QED BY <3>5, <4>1 DEF CountChanges, TypeInv, StateOK, Job
      <3>6. CASE WriteAudit(t)
        BY <3>6 DEF WriteAudit, Execute, Return, NoJob, BatchOp, PurgeOp, TypeInv, StateOK
      <3> QED BY <2>2, <3>1, <3>2, <3>3, <3>4, <3>5, <3>6 DEF Step
    <2>3. CASE Crash
      BY <2>3 DEF Crash
    <2>4. CASE UNCHANGED vars
      BY <2>4 DEF vars
    <2> QED BY <2>1, <2>2, <2>3, <2>4 DEF Next
  <1> QED BY <1>1, <1>2, Typing, PTL DEF Spec


-----------------------------------------------------------------------------
(* What one statement does to the rows and to the history of deletions.    *)

LEMMA PutRows ==
  ASSUME NEW d \in Database, NEW row
  PROVE  /\ Put(d, row).rows = {r \in d.rows : ~ Replaces(row, r)} \cup {row}
         /\ Put(d, row).gone = d.gone
  BY DEF Put, Database

LEMMA EraseRows ==
  ASSUME NEW d \in Database, NEW doomed, NEW id
  PROVE  /\ Erase(d, doomed, id).rows = d.rows \ doomed
         /\ d.gone \subseteq Erase(d, doomed, id).gone
         /\ \A r \in doomed : \E g \in Erase(d, doomed, id).gone : g.row = r
  <1> DEFINE marks == {[call |-> id, row |-> r] : r \in doomed}
  <1>1. /\ Erase(d, doomed, id).rows = d.rows \ doomed
        /\ Erase(d, doomed, id).gone = d.gone \cup marks
    <2>1. Erase(d, doomed, id) = [rows |-> d.rows \ doomed, audit |-> d.audit,
                                  gone |-> d.gone \cup marks]
      BY DEF Erase
    <2> QED BY <2>1
  <1>2. \A r \in doomed : [call |-> id, row |-> r] \in marks
    OBVIOUS
  <1> QED BY <1>1, <1>2

LEMMA LogRows ==
  ASSUME NEW d \in Database, NEW id, NEW n
  PROVE  Log(d, id, n).rows = d.rows /\ Log(d, id, n).gone = d.gone
  BY DEF Log, Database

LEMMA BatchRowsDistinct ==
  ASSUME NEW op \in BatchOp, NEW ts, NEW id,
         NEW r \in Batch(op, ts, id), NEW s \in Batch(op, ts, id), Replaces(r, s)
  PROVE  r = s
  BY DEF Batch, BatchOp, TableOf, Replaces

-----------------------------------------------------------------------------
(* The inductive invariant.  A returned batch is durable because its own   *)
(* COMMIT found every row it had put still visible or deleted since; that  *)
(* nobody else can have REPLACED one is what the writer's mutex is for.    *)

\* In autocommit there is nothing to lose.
AutocommitDurable == ~ txn => visible = durable

\* A batch is written under the mutex.
BatchHoldsMutex == \A t \in Threads : job[t].op \in BatchOp => mutex = t

\* What a batch has put is visible, unless a DELETE removed it.
PutRowsKept ==
  \A t \in Threads : job[t].op \in BatchOp =>
    /\ job[t].todo \subseteq job[t].batch
    /\ \A r, s \in job[t].batch : Replaces(r, s) => r = s
    /\ \A r \in job[t].batch \ job[t].todo :
         r \in visible.rows \/ \E g \in visible.gone : g.row = r
    /\ pc[t] = "commit" => job[t].todo = {}

AckInv ==
  /\ AutocommitDurable
  /\ BatchHoldsMutex
  /\ PutRowsKept
  /\ acked \subseteq visible.rows /\ acked \subseteq durable.rows

\* A DELETE by any thread.
LEMMA EraseAck ==
  ASSUME TypeInv, AckInv, NEW t, NEW doomed, NEW id, NEW n,
         Execute(t, Erase(visible, doomed, id), n), acked' = acked \ doomed
  PROVE  /\ AutocommitDurable'
         /\ acked' \subseteq visible'.rows /\ acked' \subseteq durable'.rows
         /\ \A r : r \in visible.rows \/ (\E g \in visible.gone : g.row = r)
                     => r \in visible'.rows \/ (\E g \in visible'.gone : g.row = r)
  <1>1. /\ visible'.rows = visible.rows \ doomed
        /\ visible.gone \subseteq visible'.gone
        /\ \A r \in doomed : \E g \in visible'.gone : g.row = r
    BY EraseRows DEF Execute, TypeInv, StateOK
  <1> QED BY <1>1 DEF Execute, AckInv, AutocommitDurable

\* An INSERT OR REPLACE by any thread.
LEMMA PutAck ==
  ASSUME TypeInv, AckInv, NEW t, NEW row,
         Execute(t, Put(visible, row), 1), acked' = {r \in acked : ~ Replaces(row, r)}
  PROVE  /\ AutocommitDurable'
         /\ acked' \subseteq visible'.rows /\ acked' \subseteq durable'.rows
         /\ visible'.rows = {r \in visible.rows : ~ Replaces(row, r)} \cup {row}
         /\ visible'.gone = visible.gone
  <1>1. /\ visible'.rows = {r \in visible.rows : ~ Replaces(row, r)} \cup {row}
        /\ visible'.gone = visible.gone
    BY PutRows DEF Execute, TypeInv, StateOK
  <1> QED BY <1>1 DEF Execute, AckInv, AutocommitDurable

LEMMA InitAckInv == Init => AckInv
  BY DEF Init, AckInv, AutocommitDurable, BatchHoldsMutex, PutRowsKept, NoJob, BatchOp, Empty

LEMMA CallAckInv ==
  ASSUME TypeInv, AckInv, NEW t \in Threads, Call(t)
  PROVE  AckInv'
  <1>1. ASSUME NEW op \in BatchOp, NEW ts \in Times, BatchBegin(t, op, ts)
        PROVE  AckInv'
    <2> DEFINE batch == Batch(op, ts, calls + 1)
    <2>1. \A r, s \in batch : Replaces(r, s) => r = s
      BY BatchRowsDistinct
    <2> HIDE DEF batch
    <2>2. /\ mutex = NoThread /\ mutex' = t
          /\ UNCHANGED <<visible, durable, acked>> /\ txn' = TRUE
          /\ job' = [job EXCEPT ![t] = NewJob(op, batch, NoCutoff)]
          /\ pc' = [pc EXCEPT ![t] = "rows"]
      BY <1>1 DEF BatchBegin, Begin, Goto, batch
    <2>3. \A u \in Threads : job[u].op \notin BatchOp
      BY <2>2, StorageAssumption DEF AckInv, BatchHoldsMutex
    <2>4. \A u \in Threads : u # t => job'[u] = job[u]
      BY <2>2 DEF TypeInv, StateOK
    <2>5. job'[t].batch = batch /\ job'[t].todo = batch /\ pc'[t] = "rows"
      BY <2>2 DEF NewJob, TypeInv, StateOK
    <2>6. PutRowsKept'
      BY <2>1, <2>3, <2>4, <2>5 DEF PutRowsKept
    <2>7. BatchHoldsMutex'
      BY <2>2, <2>3, <2>4 DEF BatchHoldsMutex
    <2> QED BY <2>2, <2>6, <2>7 DEF AckInv, AutocommitDurable
  <1>2. ASSUME NEW op \in RowOp, NEW ts \in Times, NEW key \in Keys, WriteRow(t, op, ts, key)
        PROVE  AckInv'
    <2> DEFINE row == [table |-> TableOf[op], ts |-> ts, key |-> key, call |-> calls + 1]
    <2>1. /\ mutex = NoThread /\ UNCHANGED <<mutex, pc, job>>
          /\ Execute(t, Put(visible, row), 1) /\ acked' = {r \in acked : ~ Replaces(row, r)}
      BY <1>2 DEF WriteRow
    <2> HIDE DEF row
    <2>2. /\ AutocommitDurable'
          /\ acked' \subseteq visible'.rows /\ acked' \subseteq durable'.rows
      BY <2>1, PutAck
    <2>3. \A u \in Threads : job[u].op \notin BatchOp
      BY <2>1, StorageAssumption DEF AckInv, BatchHoldsMutex
    <2>4. BatchHoldsMutex' /\ PutRowsKept'
      BY <2>1, <2>3 DEF BatchHoldsMutex, PutRowsKept
    <2> QED BY <2>2, <2>4 DEF AckInv
  <1>3. ASSUME NEW table \in HistoryTables, NEW lo \in Times, NEW hi \in Times,
               DeleteHistory(t, table, lo, hi)
        PROVE  AckInv'
    <2> DEFINE doomed == InRange(visible.rows, table, lo, hi)
    <2>1. /\ Execute(t, Erase(visible, doomed, calls + 1), Cardinality(doomed))
          /\ acked' = acked \ doomed
          /\ job' = [job EXCEPT ![t] = NewJob("delete_history", {}, NoCutoff)]
          /\ pc' = [pc EXCEPT ![t] = "count"]
          /\ UNCHANGED mutex
      BY <1>3 DEF DeleteHistory, Goto
    <2> HIDE DEF doomed
    <2>2. /\ AutocommitDurable'
          /\ acked' \subseteq visible'.rows /\ acked' \subseteq durable'.rows
          /\ \A r : r \in visible.rows \/ (\E g \in visible.gone : g.row = r)
                      => r \in visible'.rows \/ (\E g \in visible'.gone : g.row = r)
      BY <2>1, EraseAck
    <2>3. job'[t].op \notin BatchOp
      BY <2>1 DEF NewJob, BatchOp, TypeInv, StateOK
    <2>4. \A u \in Threads : u # t => job'[u] = job[u] /\ pc'[u] = pc[u]
      BY <2>1 DEF TypeInv, StateOK
    <2>5. BatchHoldsMutex'
      BY <2>1, <2>3, <2>4 DEF AckInv, BatchHoldsMutex
    <2>6. PutRowsKept'
      BY <2>2, <2>3, <2>4 DEF AckInv, PutRowsKept
    <2> QED BY <2>2, <2>5, <2>6 DEF AckInv
  <1>4. ASSUME NEW op \in PurgeOp, NEW cutoff, PurgeBegin(t, op, cutoff)
        PROVE  AckInv'
    <2>1. /\ UNCHANGED <<visible, durable, acked, mutex>> /\ txn' = TRUE
          /\ job' = [job EXCEPT ![t] = NewJob(op, {}, cutoff)]
          /\ pc' = [pc EXCEPT ![t] = "purge"]
      BY <1>4 DEF PurgeBegin, Begin, Goto
    <2>2. job'[t].op \notin BatchOp
      BY <2>1 DEF NewJob, BatchOp, PurgeOp, TypeInv, StateOK
    <2>3. \A u \in Threads : u # t => job'[u] = job[u] /\ pc'[u] = pc[u]
      BY <2>1 DEF TypeInv, StateOK
    <2>4. BatchHoldsMutex' /\ PutRowsKept'
      BY <2>1, <2>2, <2>3 DEF AckInv, BatchHoldsMutex, PutRowsKept
    <2> QED BY <2>1, <2>4 DEF AckInv, AutocommitDurable
  <1> QED BY <1>1, <1>2, <1>3, <1>4 DEF Call, PurgeOp

LEMMA StepAckInv ==
  ASSUME TypeInv, AckInv, NEW t \in Threads, Step(t)
  PROVE  AckInv'
  <1>1. CASE BatchRow(t)
    <2>1. PICK row \in job[t].todo :
            /\ Execute(t, Put(visible, row), 1)
            /\ acked' = {r \in acked : ~ Replaces(row, r)}
            /\ job' = [job EXCEPT ![t].todo = @ \ {row}]
            /\ pc' = [pc EXCEPT ![t] = IF job[t].todo = {row} THEN "commit" ELSE "rows"]
      BY <1>1 DEF BatchRow, Goto
    <2>2. job[t].op \in BatchOp /\ mutex = t /\ mutex' = t
      BY <1>1 DEF BatchRow, TypeInv, JobOK, AckInv, BatchHoldsMutex
    <2>3. /\ AutocommitDurable'
          /\ acked' \subseteq visible'.rows /\ acked' \subseteq durable'.rows
          /\ visible'.rows = {r \in visible.rows : ~ Replaces(row, r)} \cup {row}
          /\ visible'.gone = visible.gone
      BY <2>1, PutAck
    <2>4. \A u \in Threads : u # t => job'[u] = job[u] /\ job[u].op \notin BatchOp
      BY <2>1, <2>2 DEF TypeInv, StateOK, AckInv, BatchHoldsMutex
    <2>5. /\ job'[t].op = job[t].op /\ job'[t].batch = job[t].batch
          /\ job'[t].todo = job[t].todo \ {row}
          /\ pc'[t] = "commit" => job[t].todo = {row}
      BY <2>1 DEF TypeInv, StateOK, Job
    <2>6. BatchHoldsMutex'
      BY <2>2, <2>4 DEF BatchHoldsMutex
    <2>7. \A r \in job[t].batch \ job'[t].todo :
            r \in visible'.rows \/ \E g \in visible'.gone : g.row = r
      <3>1. SUFFICES ASSUME NEW r \in job[t].batch, r \notin job[t].todo \/ r = row
                     PROVE  r \in visible'.rows \/ \E g \in visible'.gone : g.row = r
        BY <2>5
      <3>2. CASE r = row
        BY <2>3, <3>2
      <3>3. CASE r # row
        <4>1. row \in job[t].batch /\ r \in job[t].batch \ job[t].todo
          BY <2>2, <3>1, <3>3 DEF AckInv, PutRowsKept
        <4>2. ~ Replaces(row, r)
          BY <2>2, <3>3, <4>1 DEF AckInv, PutRowsKept
        <4>3. r \in visible.rows \/ \E g \in visible.gone : g.row = r
          BY <2>2, <4>1 DEF AckInv, PutRowsKept
        <4> QED BY <2>3, <4>2, <4>3
      <3> QED BY <3>2, <3>3
    <2>8. PutRowsKept'
      BY <2>2, <2>4, <2>5, <2>7 DEF AckInv, PutRowsKept
    <2> QED BY <2>3, <2>6, <2>8 DEF AckInv
  <1>2. CASE BatchCommit(t)
    <2>1. /\ pc[t] = "commit" /\ job[t].op \in BatchOp
          /\ acked' = acked \cup {r \in job[t].batch : \A g \in visible.gone : g.row # r}
          /\ mutex' = NoThread
          /\ job' = [job EXCEPT ![t] = NoJob] /\ pc' = [pc EXCEPT ![t] = "idle"]
          /\ visible' = visible /\ txn' = FALSE
      BY <1>2 DEF BatchCommit, Commit, Return, Goto
    <2>2. durable' = visible
      BY <1>2 DEF BatchCommit, Commit, AckInv, AutocommitDurable
    <2>3. acked' \subseteq visible.rows
      BY <2>1 DEF AckInv, PutRowsKept
    <2>4. \A u \in Threads : job'[u].op \notin BatchOp
      BY <2>1 DEF AckInv, BatchHoldsMutex, NoJob, BatchOp, TypeInv, StateOK
    <2> QED BY <2>1, <2>2, <2>3, <2>4 DEF AckInv, AutocommitDurable, BatchHoldsMutex, PutRowsKept
  <1>3. CASE PurgeTable(t)
    <2>1. /\ Execute(t, Erase(visible, Doomed(t), job[t].call), Cardinality(Doomed(t)))
          /\ acked' = acked \ Doomed(t)
          /\ job' = [job EXCEPT ![t].at = @ + 1]
          /\ pc' = [pc EXCEPT ![t] = "count"]
          /\ UNCHANGED mutex
      BY <1>3 DEF PurgeTable, Goto
    <2>2. /\ AutocommitDurable'
          /\ acked' \subseteq visible'.rows /\ acked' \subseteq durable'.rows
          /\ \A r : r \in visible.rows \/ (\E g \in visible.gone : g.row = r)
                      => r \in visible'.rows \/ (\E g \in visible'.gone : g.row = r)
      BY <2>1, EraseAck
    <2>3. \A u \in Threads :
            /\ job'[u].op = job[u].op /\ job'[u].batch = job[u].batch
            /\ job'[u].todo = job[u].todo
            /\ pc'[u] = "commit" => pc[u] = "commit"
      BY <2>1 DEF TypeInv, StateOK, Job
    <2>4. BatchHoldsMutex'
      BY <2>1, <2>3 DEF AckInv, BatchHoldsMutex
    <2>5. PutRowsKept'
      BY <2>2, <2>3 DEF AckInv, PutRowsKept
    <2> QED BY <2>2, <2>4, <2>5 DEF AckInv
  <1>4. CASE PurgeSkip(t) \/ CountChanges(t)
    <2>1. /\ UNCHANGED <<visible, durable, txn, acked, mutex>>
          /\ \/ job' = [job EXCEPT ![t].at = @ + 1]
             \/ job' = [job EXCEPT ![t].total = @ + changes]
          /\ \E label : pc' = [pc EXCEPT ![t] = label]
      BY <1>4 DEF PurgeSkip, CountChanges, Goto
    <2>2. job[t].op \notin BatchOp
      BY <1>4 DEF PurgeSkip, CountChanges, TypeInv, JobOK, BatchOp, PurgeOp
    <2>3. \A u \in Threads :
            /\ job'[u].op = job[u].op /\ job'[u].batch = job[u].batch
            /\ job'[u].todo = job[u].todo
            /\ u # t => pc'[u] = pc[u]
      BY <2>1 DEF TypeInv, StateOK, Job
    <2>4. BatchHoldsMutex'
      BY <2>1, <2>3 DEF AckInv, BatchHoldsMutex
    <2>5. PutRowsKept'
      BY <2>1, <2>2, <2>3 DEF AckInv, PutRowsKept
    <2> QED BY <2>1, <2>4, <2>5 DEF AckInv, AutocommitDurable
  <1>5. CASE WriteAudit(t)
    <2>1. /\ Execute(t, Log(visible, job[t].call, job[t].total), 1)
          /\ UNCHANGED <<mutex, acked>>
          /\ job' = [job EXCEPT ![t] = NoJob] \/ job' = job
          /\ \E label : pc' = [pc EXCEPT ![t] = label]
      BY <1>5 DEF WriteAudit, Return, Goto
    <2>2. visible'.rows = visible.rows /\ visible'.gone = visible.gone
      BY <2>1, LogRows DEF Execute, TypeInv, StateOK
    <2>3. AutocommitDurable' /\ acked' \subseteq visible'.rows /\ acked' \subseteq durable'.rows
      BY <2>1, <2>2 DEF Execute, AckInv, AutocommitDurable
    <2>4. job[t].op \notin BatchOp
      BY <1>5 DEF WriteAudit, TypeInv, JobOK, BatchOp, PurgeOp
    <2>5. \A u \in Threads : job'[u].op \in BatchOp =>
            u # t /\ job'[u] = job[u] /\ pc'[u] = pc[u]
      BY <2>1, <2>4 DEF NoJob, BatchOp, TypeInv, StateOK
    <2>6. BatchHoldsMutex'
      BY <2>1, <2>5 DEF AckInv, BatchHoldsMutex
    <2>7. PutRowsKept'
      BY <2>2, <2>5 DEF AckInv, PutRowsKept
    <2> QED BY <2>3, <2>6, <2>7 DEF AckInv
  <1>6. CASE PurgeCommit(t)
    <2>1. /\ visible' = visible /\ txn' = FALSE
          /\ UNCHANGED <<mutex, acked>>
          /\ job' = [job EXCEPT ![t] = NoJob] /\ pc' = [pc EXCEPT ![t] = "idle"]
      BY <1>6 DEF PurgeCommit, Commit, Return, Goto
    <2>2. durable' = visible
      BY <1>6 DEF PurgeCommit, Commit, AckInv, AutocommitDurable
    <2>3. \A u \in Threads : job'[u].op \in BatchOp =>
            u # t /\ job'[u] = job[u] /\ pc'[u] = pc[u]
      BY <2>1 DEF NoJob, BatchOp, TypeInv, StateOK
    <2>4. BatchHoldsMutex' /\ PutRowsKept'
      BY <2>1, <2>3 DEF AckInv, BatchHoldsMutex, PutRowsKept
    <2> QED BY <2>1, <2>2, <2>4 DEF AckInv, AutocommitDurable
  <1> QED BY <1>1, <1>2, <1>3, <1>4, <1>5, <1>6 DEF Step

LEMMA NextAckInv == TypeInv /\ AckInv /\ [Next]_vars => AckInv'
  <1> SUFFICES ASSUME TypeInv, AckInv, [Next]_vars PROVE AckInv'
    OBVIOUS
  <1>1. CASE Crash
    BY <1>1 DEF Crash, AckInv, AutocommitDurable, BatchHoldsMutex, PutRowsKept, NoJob, BatchOp
  <1>2. CASE UNCHANGED vars
    BY <1>2 DEF vars, AckInv, AutocommitDurable, BatchHoldsMutex, PutRowsKept
  <1> QED BY <1>1, <1>2, CallAckInv, StepAckInv DEF Next

\* Whatever the threads call and however their statements interleave on the one
\* connection, the rows of a batch whose write_* call returned are in the database
\* that a restart finds, until someone replaces or deletes them.
THEOREM AckedBatchesSurvive == Spec => []AckedBatchesDurable
  <1>1. AckInv => AckedBatchesDurable
    BY DEF AckInv, AckedBatchesDurable
  <1> QED BY <1>1, InitAckInv, NextAckInv, Typing, PTL DEF Spec

-----------------------------------------------------------------------------
(* What a purge has deleted does not come back: a row is put once, by the  *)
(* call that it carries, and no crash undoes a purge that has returned.    *)

GoneRows(d) == {g.row : g \in d.gone}

\* Every row there is or was, on the connection, on disk or in a returned purge.
Known == visible.rows \cup durable.rows \cup GoneRows(visible) \cup GoneRows(durable) \cup erased

\* A deleted row is not there.
GoneIsGone ==
  /\ GoneRows(visible) \cap visible.rows = {} /\ GoneRows(durable) \cap durable.rows = {}
  /\ erased \cap visible.rows = {} /\ erased \cap durable.rows = {}

\* The rows that a batch has still to put are new, and so is any row of the next call.
RowsAreNew ==
  /\ \A t \in Threads :
       /\ job[t].todo \cap Known = {}
       /\ job[t].op \notin BatchOp => job[t].todo = {}
  /\ \A r \in Known : r.call <= calls
  /\ \A t \in Threads : \A r \in job[t].todo : r.call <= calls

ErasedInv == GoneIsGone /\ RowsAreNew

LEMMA EraseGone ==
  ASSUME NEW d \in Database, NEW doomed, NEW id
  PROVE  GoneRows(Erase(d, doomed, id)) = GoneRows(d) \cup doomed
  <1> DEFINE marks == {[call |-> id, row |-> r] : r \in doomed}
  <1>1. Erase(d, doomed, id).gone = d.gone \cup marks
    BY DEF Erase
  <1>2. \A g \in marks : g.row \in doomed
    OBVIOUS
  <1>3. \A r \in doomed : \E g \in marks : g.row = r
    <2> TAKE r \in doomed
    <2> WITNESS [call |-> id, row |-> r] \in marks
    <2> QED OBVIOUS
  <1> HIDE DEF marks
  <1> QED BY <1>1, <1>2, <1>3 DEF GoneRows

\* INSERT OR REPLACE of a new row.
LEMMA PutErased ==
  ASSUME TypeInv, ErasedInv, NEW t, NEW row, row \notin Known,
         Execute(t, Put(visible, row), 1), UNCHANGED erased
  PROVE  GoneIsGone' /\ Known' \subseteq Known \cup {row}
  <1>1. /\ visible'.rows \subseteq visible.rows \cup {row}
        /\ GoneRows(visible') = GoneRows(visible)
    BY PutRows DEF Execute, GoneRows, TypeInv, StateOK
  <1>2. durable' = durable \/ durable' = visible'
    BY DEF Execute
  <1> QED BY <1>1, <1>2 DEF ErasedInv, GoneIsGone, Known

\* A DELETE.
LEMMA EraseErased ==
  ASSUME TypeInv, ErasedInv, NEW t, NEW doomed \in SUBSET visible.rows, NEW id, NEW n,
         Execute(t, Erase(visible, doomed, id), n), UNCHANGED erased
  PROVE  GoneIsGone' /\ Known' \subseteq Known
  <1>1. /\ visible'.rows = visible.rows \ doomed
        /\ GoneRows(visible') = GoneRows(visible) \cup doomed
    BY EraseRows, EraseGone DEF Execute, TypeInv, StateOK
  <1>2. durable' = durable \/ durable' = visible'
    BY DEF Execute
  <1> QED BY <1>1, <1>2 DEF ErasedInv, GoneIsGone, Known

LEMMA KnownCalls ==
  ASSUME TypeInv
  PROVE  \A r \in Known : r.call \in Nat
  BY DEF Known, GoneRows, TypeInv, StateOK, Database, Row

\* A step that puts no row leaves the rows to come new.
LEMMA NewRowsStay ==
  ASSUME TypeInv, ErasedInv, Known' \subseteq Known, calls' \in Nat, calls <= calls',
         \A t \in Threads : \/ job'[t].todo = {}
                            \/ job'[t].todo = job[t].todo /\ job'[t].op = job[t].op
  PROVE  RowsAreNew'
  <1> HIDE DEF Known
  <1>1. calls \in Nat /\ \A t \in Threads : job[t].todo \subseteq Row
    BY DEF TypeInv, StateOK, Job
  <1>2. \A r \in Known' : r.call <= calls'
    BY <1>1, KnownCalls DEF ErasedInv, RowsAreNew
  <1>3. \A t \in Threads : \A r \in job'[t].todo : r.call <= calls'
    BY <1>1 DEF ErasedInv, RowsAreNew, Row
  <1>4. \A t \in Threads : /\ job'[t].todo \cap Known' = {}
                           /\ job'[t].op \notin BatchOp => job'[t].todo = {}
    BY DEF ErasedInv, RowsAreNew
  <1> QED BY <1>2, <1>3, <1>4 DEF RowsAreNew

LEMMA InitErased == Init => ErasedInv
  BY DEF Init, ErasedInv, GoneIsGone, RowsAreNew, Known, GoneRows, Empty, NoJob

LEMMA CallErased ==
  ASSUME TypeInv, ErasedInv, NEW t \in Threads, Call(t)
  PROVE  ErasedInv'
  <1> HIDE DEF Known
  <1>1. ASSUME NEW op \in BatchOp, NEW ts \in Times, BatchBegin(t, op, ts)
        PROVE  ErasedInv'
    <2> DEFINE batch == Batch(op, ts, calls + 1)
    <2>1. \A r \in batch : r.call = calls + 1
      BY DEF Batch
    <2> HIDE DEF batch
    <2>2. /\ UNCHANGED <<visible, durable, erased>> /\ calls' = calls + 1 /\ calls \in Nat
          /\ job' = [job EXCEPT ![t] = NewJob(op, batch, NoCutoff)]
      BY <1>1 DEF BatchBegin, Begin, Enter, batch, TypeInv, StateOK
    <2>3. job'[t].todo = batch /\ job'[t].op = op /\ \A u \in Threads : u # t => job'[u] = job[u]
      BY <2>2 DEF NewJob, TypeInv, StateOK
    <2>4. Known' = Known /\ GoneIsGone'
      BY <2>2 DEF Known, GoneRows, ErasedInv, GoneIsGone
    <2>5. \A r \in Known : r.call \in Nat /\ r.call <= calls
      BY KnownCalls DEF ErasedInv, RowsAreNew
    <2>6. \A r \in Known' : r.call <= calls'
      BY <2>2, <2>4, <2>5
    <2>7. batch \cap Known' = {}
      BY <2>1, <2>2, <2>4, <2>5
    <2>8. \A u \in Threads : \A r \in job'[u].todo : r.call <= calls'
      <3> TAKE u \in Threads
      <3> TAKE r \in job'[u].todo
      <3>1. CASE u = t
        BY <2>1, <2>2, <2>3, <3>1
      <3>2. CASE u # t
        <4>1. r \in Row /\ r.call <= calls
          BY <2>3, <3>2 DEF ErasedInv, RowsAreNew, TypeInv, StateOK, Job
        <4> QED BY <2>2, <4>1 DEF Row
      <3> QED BY <3>1, <3>2
    <2>9. \A u \in Threads : /\ job'[u].todo \cap Known' = {}
                             /\ job'[u].op \notin BatchOp => job'[u].todo = {}
      BY <2>3, <2>4, <2>7 DEF ErasedInv, RowsAreNew
    <2> QED BY <2>4, <2>6, <2>8, <2>9 DEF ErasedInv, RowsAreNew
  <1>2. ASSUME NEW op \in RowOp, NEW ts \in Times, NEW key \in Keys, WriteRow(t, op, ts, key)
        PROVE  ErasedInv'
    <2> DEFINE row == [table |-> TableOf[op], ts |-> ts, key |-> key, call |-> calls + 1]
    <2>1. row.call = calls + 1
      OBVIOUS
    <2>2. /\ Execute(t, Put(visible, row), 1) /\ UNCHANGED <<job, erased>>
          /\ calls' = calls + 1 /\ calls \in Nat
      BY <1>2 DEF WriteRow, Enter, TypeInv, StateOK
    <2> HIDE DEF row
    <2>3. \A r \in Known : r.call \in Nat /\ r.call <= calls
      BY KnownCalls DEF ErasedInv, RowsAreNew
    <2>4. row \notin Known
      BY <2>1, <2>2, <2>3
    <2>5. GoneIsGone' /\ Known' \subseteq Known \cup {row}
      BY <2>2, <2>4, PutErased
    <2>6. \A r \in Known' : r.call <= calls'
      BY <2>1, <2>2, <2>3, <2>5
    <2>7. \A u \in Threads : \A r \in job[u].todo : r.call \in Nat /\ r.call <= calls
      BY DEF ErasedInv, RowsAreNew, TypeInv, StateOK, Job, Row
    <2>8. \A u \in Threads : /\ job[u].todo \cap Known' = {}
                             /\ job[u].op \notin BatchOp => job[u].todo = {}
      <3>1. \A u \in Threads : row \notin job[u].todo
        BY <2>1, <2>2, <2>7
      <3> QED BY <2>5, <3>1 DEF ErasedInv, RowsAreNew
    <2>9. \A u \in Threads : \A r \in job[u].todo : r.call <= calls'
      BY <2>2, <2>7
    <2> QED BY <2>2, <2>5, <2>6, <2>8, <2>9 DEF ErasedInv, RowsAreNew
  <1>3. ASSUME NEW table \in HistoryTables, NEW lo \in Times, NEW hi \in Times,
               DeleteHistory(t, table, lo, hi)
        PROVE  ErasedInv'
    <2> DEFINE doomed == InRange(visible.rows, table, lo, hi)
    <2>1. doomed \in SUBSET visible.rows
      BY DEF InRange
    <2>2. /\ Execute(t, Erase(visible, doomed, calls + 1), Cardinality(doomed))
          /\ job' = [job EXCEPT ![t] = NewJob("delete_history", {}, NoCutoff)]
          /\ calls' = calls + 1 /\ calls \in Nat /\ UNCHANGED erased
      BY <1>3 DEF DeleteHistory, Enter, TypeInv, StateOK
    <2> HIDE DEF doomed
    <2>3. GoneIsGone' /\ Known' \subseteq Known
      BY <2>1, <2>2, EraseErased
    <2>4. \A u \in Threads : job'[u].todo = {} \/ job'[u] = job[u]
      BY <2>2 DEF NewJob, TypeInv, StateOK
    <2>5. calls' \in Nat /\ calls <= calls'
      BY <2>2
    <2> QED BY <2>3, <2>4, <2>5, NewRowsStay DEF ErasedInv
  <1>4. ASSUME NEW op \in PurgeOp, NEW cutoff, PurgeBegin(t, op, cutoff)
        PROVE  ErasedInv'
    <2>1. /\ UNCHANGED <<visible, durable, erased>> /\ calls' = calls + 1 /\ calls \in Nat
          /\ job' = [job EXCEPT ![t] = NewJob(op, {}, cutoff)]
      BY <1>4 DEF PurgeBegin, Begin, Enter, TypeInv, StateOK
    <2>2. \A u \in Threads : job'[u].todo = {} \/ job'[u] = job[u]
      BY <2>1 DEF NewJob, TypeInv, StateOK
    <2>3. Known' = Known /\ GoneIsGone'
      BY <2>1 DEF Known, GoneRows, ErasedInv, GoneIsGone
    <2>4. calls' \in Nat /\ calls <= calls'
      BY <2>1
    <2> QED BY <2>2, <2>3, <2>4, NewRowsStay DEF ErasedInv
  <1> QED BY <1>1, <1>2, <1>3, <1>4 DEF Call, PurgeOp

LEMMA StepErased ==
  ASSUME TypeInv, AckInv, ErasedInv, NEW t \in Threads, Step(t)
  PROVE  ErasedInv'
  <1> HIDE DEF Known
  <1>0. calls \in Nat /\ calls' = calls /\ calls' \in Nat /\ calls <= calls'
    BY DEF Step, BatchRow, BatchCommit, PurgeTable, PurgeSkip, CountChanges, WriteAudit,
           PurgeCommit, TypeInv, StateOK
  <1>1. CASE BatchRow(t)
    <2>1. PICK row \in job[t].todo :
            /\ Execute(t, Put(visible, row), 1) /\ UNCHANGED erased
            /\ job' = [job EXCEPT ![t].todo = @ \ {row}]
      BY <1>1 DEF BatchRow
    <2>2. row \notin Known /\ row.call <= calls
      BY DEF ErasedInv, RowsAreNew
    <2>3. GoneIsGone' /\ Known' \subseteq Known \cup {row}
      BY <2>1, <2>2, PutErased
    <2>4. /\ job'[t].op = job[t].op /\ job'[t].todo = job[t].todo \ {row}
          /\ \A u \in Threads : u # t => job'[u] = job[u]
      BY <2>1 DEF TypeInv, StateOK, Job
    <2>5. job[t].op \in BatchOp
      BY <1>1 DEF BatchRow, TypeInv, JobOK
    <2>6. \A u \in Threads : u # t => job[u].todo = {}
      BY <2>5 DEF AckInv, BatchHoldsMutex, ErasedInv, RowsAreNew
    <2>7. \A u \in Threads : /\ job'[u].todo \cap Known' = {}
                             /\ job'[u].op \notin BatchOp => job'[u].todo = {}
      BY <2>3, <2>4, <2>5, <2>6 DEF ErasedInv, RowsAreNew
    <2>8. \A u \in Threads : \A r \in job'[u].todo : r.call <= calls'
      BY <1>0, <2>4 DEF ErasedInv, RowsAreNew
    <2>9. \A r \in Known' : r.call <= calls'
      BY <1>0, <2>2, <2>3 DEF ErasedInv, RowsAreNew
    <2> QED BY <2>3, <2>7, <2>8, <2>9 DEF ErasedInv, RowsAreNew
  <1>2. CASE BatchCommit(t) \/ PurgeCommit(t)
    <2>1. /\ visible' = visible /\ job' = [job EXCEPT ![t] = NoJob]
          /\ durable' = visible
          /\ erased \subseteq erased' /\ erased' \subseteq erased \cup GoneRows(visible)
      BY <1>2 DEF BatchCommit, PurgeCommit, Commit, Return, GoneRows, AckInv, AutocommitDurable
    <2>2. Known' \subseteq Known
      BY <2>1 DEF Known, GoneRows
    <2>3. GoneIsGone'
      BY <2>1 DEF ErasedInv, GoneIsGone, GoneRows
    <2>4. \A u \in Threads : job'[u].todo = {} \/ job'[u] = job[u]
      BY <2>1 DEF NoJob, TypeInv, StateOK
    <2> QED BY <1>0, <2>2, <2>3, <2>4, NewRowsStay DEF ErasedInv
  <1>3. CASE PurgeTable(t)
    <2>1. Doomed(t) \in SUBSET visible.rows
      BY DEF Doomed, Purged
    <2>2. /\ Execute(t, Erase(visible, Doomed(t), job[t].call), Cardinality(Doomed(t)))
          /\ job' = [job EXCEPT ![t].at = @ + 1] /\ UNCHANGED erased
      BY <1>3 DEF PurgeTable
    <2>3. GoneIsGone' /\ Known' \subseteq Known
      BY <2>1, <2>2, EraseErased
    <2>4. \A u \in Threads : job'[u].todo = job[u].todo /\ job'[u].op = job[u].op
      BY <2>2 DEF TypeInv, StateOK, Job
    <2> QED BY <1>0, <2>3, <2>4, NewRowsStay DEF ErasedInv
  <1>4. CASE PurgeSkip(t) \/ CountChanges(t)
    <2>1. /\ UNCHANGED <<visible, durable, erased>>
          /\ \/ job' = [job EXCEPT ![t].at = @ + 1]
             \/ job' = [job EXCEPT ![t].total = @ + changes]
      BY <1>4 DEF PurgeSkip, CountChanges
    <2>2. Known' = Known /\ GoneIsGone'
      BY <2>1 DEF Known, GoneRows, ErasedInv, GoneIsGone
    <2>3. \A u \in Threads : job'[u].todo = job[u].todo /\ job'[u].op = job[u].op
      BY <2>1 DEF TypeInv, StateOK, Job
    <2> QED BY <1>0, <2>2, <2>3, NewRowsStay DEF ErasedInv
  <1>5. CASE WriteAudit(t)
    <2>1. /\ Execute(t, Log(visible, job[t].call, job[t].total), 1) /\ UNCHANGED erased
          /\ job' = [job EXCEPT ![t] = NoJob] \/ job' = job
      BY <1>5 DEF WriteAudit, Return
    <2>2. visible'.rows = visible.rows /\ visible'.gone = visible.gone
      BY <2>1, LogRows DEF Execute, TypeInv, StateOK
    <2>3. durable' = durable \/ durable' = visible'
      BY <2>1 DEF Execute
    <2>4. Known' \subseteq Known
      BY <2>1, <2>2, <2>3 DEF Known, GoneRows
    <2>5. GoneIsGone'
      BY <2>1, <2>2, <2>3 DEF ErasedInv, GoneIsGone, GoneRows
    <2>6. \A u \in Threads : job'[u].todo = {} \/ job'[u] = job[u]
      BY <2>1 DEF NoJob, TypeInv, StateOK
    <2> QED BY <1>0, <2>4, <2>5, <2>6, NewRowsStay DEF ErasedInv
  <1> QED BY <1>1, <1>2, <1>3, <1>4, <1>5 DEF Step

LEMMA NextErased == TypeInv /\ AckInv /\ ErasedInv /\ [Next]_vars => ErasedInv'
  <1> SUFFICES ASSUME TypeInv, AckInv, ErasedInv, [Next]_vars PROVE ErasedInv'
    OBVIOUS
  <1>1. CASE Crash
    <2>1. /\ visible' = durable /\ UNCHANGED <<durable, erased>> /\ calls' = calls
          /\ job' = [t \in Threads |-> NoJob] /\ calls \in Nat
      BY <1>1 DEF Crash, TypeInv, StateOK
    <2>2. Known' \subseteq Known /\ GoneIsGone'
      BY <2>1 DEF Known, GoneRows, ErasedInv, GoneIsGone
    <2>3. \A t \in Threads : job'[t].todo = {}
      BY <2>1 DEF NoJob
    <2>4. calls' \in Nat /\ calls <= calls'
      BY <2>1
    <2> QED BY <2>2, <2>3, <2>4, NewRowsStay DEF ErasedInv
  <1>2. CASE UNCHANGED vars
    BY <1>2 DEF vars, ErasedInv, GoneIsGone, RowsAreNew, Known, GoneRows
  <1> QED BY <1>1, <1>2, CallErased, StepErased DEF Next

\* What a returned delete_all_history or cleanup_expired deleted is not in the database
\* that a restart finds: its COMMIT, or the COMMIT of whoever ended its transaction
\* before, put the deletion on disk, and no call puts a row of an earlier call.
THEOREM ErasedRowsStayErased == Spec => []ErasedStaysErased
  <1>1. ErasedInv => ErasedStaysErased
    BY DEF ErasedInv, GoneIsGone, ErasedStaysErased
  <1> QED BY <1>1, InitErased, NextErased, InitAckInv, NextAckInv, Typing, PTL DEF Spec

-----------------------------------------------------------------------------
(* The calls: what a step does to the other threads, which calls the       *)
(* deletions and audit rows carry, and the histories of what a call met.   *)

\* The deletions of one call.
GoneBy(d, id) == {g \in d.gone : g.call = id}

\* The deletions and audit rows of a database carry calls that were made.
CallsMade(d) == \A m \in d.gone \cup d.audit : m.call \in 1..calls

Busy(t) == pc[t] # "idle"

CallsInv ==
  /\ \A t \in Threads : IF Busy(t) THEN job[t].call \in 1..calls ELSE job[t] = NoJob
  /\ \A t, u \in Threads : t # u /\ Busy(t) /\ Busy(u) => job[t].call # job[u].call
  /\ CallsMade(visible) /\ CallsMade(durable)
  /\ shared \cup split \cup miscounted \subseteq 1..calls

LEMMA PutRecord ==
  ASSUME NEW d \in Database, NEW row
  PROVE  Put(d, row).gone = d.gone /\ Put(d, row).audit = d.audit
  BY DEF Put, Database

LEMMA LogRecord ==
  ASSUME NEW d \in Database, NEW id, NEW n
  PROVE  /\ Log(d, id, n).gone = d.gone
         /\ Log(d, id, n).audit = d.audit \cup {[call |-> id, count |-> n]}
  BY DEF Log, Database

\* A DELETE marks what it deletes with its call and touches no other call's marks.
LEMMA EraseRecord ==
  ASSUME NEW d \in Database, NEW doomed, NEW id
  PROVE  LET after == Erase(d, doomed, id)
             marks == {[call |-> id, row |-> r] : r \in doomed}
         IN  /\ after.gone = d.gone \cup marks /\ after.audit = d.audit
             /\ GoneBy(after, id) = GoneBy(d, id) \cup marks
             /\ \A m \in marks : m.call = id
             /\ \A other : other # id => GoneBy(after, other) = GoneBy(d, other)
  <1> DEFINE after == Erase(d, doomed, id)
             marks == {[call |-> id, row |-> r] : r \in doomed}
  <1>1. after.gone = d.gone \cup marks /\ after.audit = d.audit
    BY DEF Erase
  <1>2. \A m \in marks : m.call = id
    OBVIOUS
  <1> HIDE DEF after, marks
  <1>3. GoneBy(after, id) = GoneBy(d, id) \cup marks
    BY <1>1, <1>2 DEF GoneBy
  <1>4. \A other : other # id => GoneBy(after, other) = GoneBy(d, other)
    BY <1>1, <1>2 DEF GoneBy
  <1> QED BY <1>1, <1>2, <1>3, <1>4 DEF after, marks

\* What a call does to the threads: it begins on its own one, or returns at once.
LEMMA CallThreads ==
  ASSUME TypeInv, NEW t \in Threads, Call(t)
  PROVE  /\ calls \in Nat /\ calls' = calls + 1 /\ pc[t] = "idle"
         /\ \A u \in Threads : u # t => pc'[u] = pc[u] /\ job'[u] = job[u]
         /\ \/ UNCHANGED <<pc, job>>
            \/ pc'[t] # "idle" /\ job'[t].call = calls + 1
         /\ LET others == CallsOf({u \in Threads : pc[u] # "idle"})
            IN  shared' = IF others = {} THEN shared ELSE shared \cup others \cup {calls'}
  <1>1. \E op : Enter(t, op)
    BY DEF Call, BatchBegin, WriteRow, DeleteHistory, PurgeBegin
  <1>2. /\ calls \in Nat /\ calls' = calls + 1 /\ pc[t] = "idle"
        /\ LET others == CallsOf({u \in Threads : pc[u] # "idle"})
           IN  shared' = IF others = {} THEN shared ELSE shared \cup others \cup {calls'}
    BY <1>1 DEF Enter, TypeInv, StateOK
  <1>3. ASSUME NEW op, NEW batch, NEW cutoff, NEW label,
               label # "idle", job' = [job EXCEPT ![t] = NewJob(op, batch, cutoff)],
               pc' = [pc EXCEPT ![t] = label]
        PROVE  /\ \A u \in Threads : u # t => pc'[u] = pc[u] /\ job'[u] = job[u]
               /\ pc'[t] # "idle" /\ job'[t].call = calls + 1
    BY <1>3 DEF NewJob, TypeInv, StateOK
  <1>4. ASSUME NEW op, NEW ts, BatchBegin(t, op, ts)
        PROVE  /\ \A u \in Threads : u # t => pc'[u] = pc[u] /\ job'[u] = job[u]
               /\ pc'[t] # "idle" /\ job'[t].call = calls + 1
    BY <1>3, <1>4 DEF BatchBegin, Goto
  <1>5. ASSUME NEW op, NEW ts, NEW key, WriteRow(t, op, ts, key)
        PROVE  UNCHANGED <<pc, job>>
    BY <1>5 DEF WriteRow
  <1>6. ASSUME NEW table, NEW lo, NEW hi, DeleteHistory(t, table, lo, hi)
        PROVE  /\ \A u \in Threads : u # t => pc'[u] = pc[u] /\ job'[u] = job[u]
               /\ pc'[t] # "idle" /\ job'[t].call = calls + 1
    BY <1>3, <1>6 DEF DeleteHistory, Goto
  <1>7. ASSUME NEW op, NEW cutoff, PurgeBegin(t, op, cutoff)
        PROVE  /\ \A u \in Threads : u # t => pc'[u] = pc[u] /\ job'[u] = job[u]
               /\ pc'[t] # "idle" /\ job'[t].call = calls + 1
    BY <1>3, <1>7 DEF PurgeBegin, Goto
  <1> QED BY <1>2, <1>4, <1>5, <1>6, <1>7 DEF Call

\* What a step does to them: its call goes on, or returns.
LEMMA StepThreads ==
  ASSUME TypeInv, NEW t \in Threads, Step(t)
  PROVE  /\ UNCHANGED <<calls, shared>> /\ pc[t] # "idle"
         /\ \A u \in Threads : u # t => pc'[u] = pc[u] /\ job'[u] = job[u]
         /\ \/ pc'[t] = "idle" /\ job'[t] = NoJob
            \/ /\ pc'[t] # "idle" /\ job'[t].call = job[t].call
               /\ job'[t].op = job[t].op
  <1>1. UNCHANGED <<calls, shared>> /\ pc[t] # "idle"
    BY DEF Step, BatchRow, BatchCommit, PurgeTable, PurgeSkip, CountChanges, WriteAudit,
           PurgeCommit, Commit, met
  <1>2. \A at, total : job[t].op \in PurgeOp \cup {"delete_history"}
          => AfterTable(t, at, total) # "idle"
    BY AfterTableType
  <1>3. pc[t] \in {"purge", "count"} => job[t].op \in PurgeOp \cup {"delete_history"}
    BY DEF TypeInv, JobOK
  <1>4. CASE BatchCommit(t) \/ PurgeCommit(t)
    BY <1>1, <1>4 DEF BatchCommit, PurgeCommit, Return, Goto, TypeInv, StateOK
  <1>5. CASE BatchRow(t)
    BY <1>1, <1>5 DEF BatchRow, Goto, TypeInv, StateOK, Job
  <1>6. CASE PurgeTable(t)
    BY <1>1, <1>6 DEF PurgeTable, Goto, TypeInv, StateOK, Job
  <1>7. CASE PurgeSkip(t)
    BY <1>1, <1>2, <1>3, <1>7 DEF PurgeSkip, Goto, TypeInv, StateOK, Job
  <1>8. CASE CountChanges(t)
    BY <1>1, <1>2, <1>3, <1>8 DEF CountChanges, Goto, TypeInv, StateOK, Job
  <1>9. CASE WriteAudit(t)
    BY <1>1, <1>9 DEF WriteAudit, Return, Goto, TypeInv, StateOK
  <1> QED BY <1>4, <1>5, <1>6, <1>7, <1>8, <1>9 DEF Step

\* Which calls a BEGIN or a statement of another thread is remembered for.
LEMMA BusyCalls ==
  ASSUME CallsInv
  PROVE  /\ CallsOf(Deleting) \subseteq 1..calls
         /\ CallsOf({u \in Threads : pc[u] # "idle"}) \subseteq 1..calls
         /\ \A t : CallsOf({u \in Threads \ {t} : pc[u] = "count"}) \subseteq 1..calls
         /\ \A t : CallsOf({u \in Threads \ {t} : InTransaction(u)}) \subseteq 1..calls
  <1>1. \A u \in Threads : pc[u] # "idle" => job[u].call \in 1..calls
    BY DEF CallsInv, Busy
  <1>2. \A u \in Threads : job[u].op = "delete_history" => pc[u] # "idle"
    BY DEF CallsInv, Busy, NoJob
  <1> QED BY <1>1, <1>2 DEF CallsOf, Deleting, InTransaction

\* The marks and audit rows that a call's first step adds carry its number.
LEMMA CallMarks ==
  ASSUME TypeInv, CallsInv, NEW t \in Threads, Call(t)
  PROVE  /\ durable' = durable \/ durable' = visible'
         /\ visible'.audit = visible.audit
         /\ \A g \in visible'.gone : g \in visible.gone \/ g.call = calls + 1
         /\ split \subseteq split' /\ miscounted \subseteq miscounted'
         /\ split' \cup miscounted' \subseteq 1..calls
  <1> DEFINE Goal ==
         /\ durable' = durable \/ durable' = visible'
         /\ visible'.audit = visible.audit
         /\ \A g \in visible'.gone : g \in visible.gone \/ g.call = calls + 1
         /\ split \subseteq split' /\ miscounted \subseteq miscounted'
         /\ split' \cup miscounted' \subseteq 1..calls
  <1>1. ASSUME NEW op, NEW ts, BatchBegin(t, op, ts) PROVE Goal
    BY <1>1, BusyCalls DEF BatchBegin, Begin, CallsInv
  <1>2. ASSUME NEW op, NEW ts, NEW key, WriteRow(t, op, ts, key) PROVE Goal
    <2>1. PICK row : Execute(t, Put(visible, row), 1)
      BY <1>2 DEF WriteRow
    <2> QED BY <2>1, BusyCalls, PutRecord DEF Execute, CallsInv, TypeInv, StateOK
  <1>3. ASSUME NEW table, NEW lo, NEW hi, DeleteHistory(t, table, lo, hi) PROVE Goal
    <2>1. PICK doomed, n : Execute(t, Erase(visible, doomed, calls + 1), n)
      BY <1>3 DEF DeleteHistory
    <2>2. /\ visible'.audit = visible.audit
          /\ \A g \in visible'.gone : g \in visible.gone \/ g.call = calls + 1
      BY <2>1, EraseRecord DEF Execute, TypeInv, StateOK
    <2> QED BY <2>1, <2>2, BusyCalls DEF Execute, CallsInv
  <1>4. ASSUME NEW op, NEW cutoff, PurgeBegin(t, op, cutoff) PROVE Goal
    BY <1>4, BusyCalls DEF PurgeBegin, Begin, CallsInv
  <1> QED BY <1>1, <1>2, <1>3, <1>4 DEF Call

\* And those that its later steps add.
LEMMA StepMarks ==
  ASSUME TypeInv, CallsInv, NEW t \in Threads, Step(t)
  PROVE  /\ durable' = durable \/ durable' = visible'
         /\ \A m \in visible'.gone \cup visible'.audit :
              m \in visible.gone \cup visible.audit \/ m.call = job[t].call
         /\ split \subseteq split' /\ miscounted \subseteq miscounted'
         /\ split' \cup miscounted' \subseteq 1..calls
  <1> DEFINE Goal ==
         /\ durable' = durable \/ durable' = visible'
         /\ \A m \in visible'.gone \cup visible'.audit :
              m \in visible.gone \cup visible.audit \/ m.call = job[t].call
         /\ split \subseteq split' /\ miscounted \subseteq miscounted'
         /\ split' \cup miscounted' \subseteq 1..calls
  <1>1. CASE BatchRow(t)
    <2>1. PICK row : Execute(t, Put(visible, row), 1)
      BY <1>1 DEF BatchRow
    <2> QED BY <2>1, BusyCalls, PutRecord DEF Execute, CallsInv, TypeInv, StateOK
  <1>2. CASE BatchCommit(t) \/ PurgeCommit(t)
    BY <1>2, BusyCalls DEF BatchCommit, PurgeCommit, Commit, CallsInv
  <1>3. CASE PurgeTable(t)
    <2>1. PICK doomed, n : Execute(t, Erase(visible, doomed, job[t].call), n)
      BY <1>3 DEF PurgeTable
    <2>2. /\ visible'.audit = visible.audit
          /\ \A g \in visible'.gone : g \in visible.gone \/ g.call = job[t].call
      BY <2>1, EraseRecord DEF Execute, TypeInv, StateOK
    <2> QED BY <2>1, <2>2, BusyCalls DEF Execute, CallsInv
  <1>4. CASE PurgeSkip(t) \/ CountChanges(t)
    BY <1>4 DEF PurgeSkip, CountChanges, met, CallsInv
  <1>5. CASE WriteAudit(t)
    <2>1. PICK n : Execute(t, Log(visible, job[t].call, n), 1)
      BY <1>5 DEF WriteAudit
    <2> DEFINE entry == [call |-> job[t].call, count |-> n]
    <2>2. visible'.gone = visible.gone /\ visible'.audit = visible.audit \cup {entry}
      BY <2>1, LogRecord DEF Execute, TypeInv, StateOK
    <2>3. entry.call = job[t].call
      OBVIOUS
    <2> HIDE DEF entry
    <2> QED BY <2>1, <2>2, <2>3, BusyCalls DEF Execute, CallsInv
  <1> QED BY <1>1, <1>2, <1>3, <1>4, <1>5 DEF Step

LEMMA InitCalls == Init => CallsInv
  BY DEF Init, CallsInv, CallsMade, Busy, Empty

LEMMA NextCalls == TypeInv /\ CallsInv /\ [Next]_vars => CallsInv'
  <1> SUFFICES ASSUME TypeInv, CallsInv, [Next]_vars PROVE CallsInv'
    OBVIOUS
  <1>0. calls \in Nat
    BY DEF TypeInv, StateOK
  <1>1. ASSUME NEW t \in Threads, Call(t) PROVE CallsInv'
    <2>1. calls' = calls + 1 /\ calls \in 1..calls' \cup {0}
      BY <1>0, <1>1, CallThreads
    <2>2. CallsMade(visible)' /\ CallsMade(durable)'
      <3>1. CallsMade(visible)'
        BY <1>0, <1>1, <2>1, CallMarks DEF CallsInv, CallsMade
      <3>2. CallsMade(durable)'
        BY <1>0, <1>1, <2>1, <3>1, CallMarks DEF CallsInv, CallsMade
      <3> QED BY <3>1, <3>2 DEF CallsMade
    <2>3. shared' \cup split' \cup miscounted' \subseteq 1..calls'
      <3>1. shared' \subseteq 1..calls \cup {calls'}
        BY <1>1, CallThreads, BusyCalls DEF CallsInv
      <3>2. 1..calls \cup {calls'} \subseteq 1..calls'
        BY <1>0, <2>1
      <3> QED BY <1>1, <3>1, <3>2, CallMarks
    <2>4. \A u \in Threads : u # t => pc'[u] = pc[u] /\ job'[u] = job[u]
      BY <1>1, CallThreads
    <2>5. \/ UNCHANGED <<pc, job>>
          \/ pc'[t] # "idle" /\ job'[t].call = calls + 1
      BY <1>1, CallThreads
    <2>6. \A u \in Threads : IF Busy(u)' THEN job'[u].call \in 1..calls' ELSE job'[u] = NoJob
      BY <1>0, <2>1, <2>4, <2>5 DEF CallsInv, Busy
    <2>7. \A u, v \in Threads : u # v /\ Busy(u)' /\ Busy(v)' => job'[u].call # job'[v].call
      BY <1>0, <2>4, <2>5 DEF CallsInv, Busy
    <2> QED BY <2>2, <2>3, <2>6, <2>7 DEF CallsInv
  <1>2. ASSUME NEW t \in Threads, Step(t) PROVE CallsInv'
    <2>1. UNCHANGED <<calls, shared>> /\ pc[t] # "idle"
      BY <1>2, StepThreads
    <2>2. CallsMade(visible)' /\ CallsMade(durable)'
      <3>1. job[t].call \in 1..calls
        BY <2>1 DEF CallsInv, Busy
      <3>2. CallsMade(visible)'
        BY <1>2, <2>1, <3>1, StepMarks DEF CallsInv, CallsMade
      <3>3. CallsMade(durable)'
        BY <1>2, <2>1, <3>2, StepMarks DEF CallsInv, CallsMade
      <3> QED BY <3>2, <3>3
    <2>3. shared' \cup split' \cup miscounted' \subseteq 1..calls'
      BY <1>2, <2>1, StepMarks DEF CallsInv
    <2>4. \A u \in Threads : u # t => pc'[u] = pc[u] /\ job'[u] = job[u]
      BY <1>2, StepThreads
    <2>5. \/ pc'[t] = "idle" /\ job'[t] = NoJob
          \/ pc'[t] # "idle" /\ job'[t].call = job[t].call
      BY <1>2, StepThreads
    <2> QED BY <2>1, <2>2, <2>3, <2>4, <2>5 DEF CallsInv, Busy
  <1>3. CASE Crash
    <2>1. split' \subseteq 1..calls
      BY <1>3, BusyCalls DEF Crash, CallsInv
    <2> QED BY <1>3, <2>1 DEF Crash, CallsInv, CallsMade, Busy
  <1>4. CASE UNCHANGED vars
    BY <1>4 DEF vars, CallsInv, CallsMade, Busy
  <1> QED BY <1>1, <1>2, <1>3, <1>4 DEF Next

\* Type correctness, for every set of threads and every assignment of operations:
\* the connection's databases hold finitely many well-typed rows, and what is
\* remembered of interference are calls that were made.
THEOREM TypeCorrect == Spec => []TypeOK
  <1>1. TypeInv /\ CallsInv => TypeOK
    BY DEF TypeInv, CallsInv, TypeOK
  <1> QED BY <1>1, Typing, InitCalls, NextCalls, PTL DEF Spec

-----------------------------------------------------------------------------
(* The recorded counts.  While no data statement of another thread falls   *)
(* between its DELETE and its sqlite3_changes(), a call knows how many     *)
(* rows it has deleted, whoever else begins, writes, commits or deletes.   *)

\* As many deletions carry the call as rows it deleted.
LEMMA CountErased ==
  ASSUME NEW doomed, IsFiniteSet(doomed), NEW id
  PROVE  LET marks == {[call |-> id, row |-> r] : r \in doomed}
         IN  IsFiniteSet(marks) /\ Cardinality(marks) = Cardinality(doomed)
  <1> DEFINE marks == {[call |-> id, row |-> r] : r \in doomed}
             mark == [r \in doomed |-> [call |-> id, row |-> r]]
  <1>1. mark \in Bijection(doomed, marks)
    <2>1. mark \in [doomed -> marks]
      OBVIOUS
    <2>2. \A r, q \in doomed : mark[r] = mark[q] => r = q
      <3> TAKE r, q \in doomed
      <3>1. mark[r].row = r /\ mark[q].row = q
        OBVIOUS
      <3> QED BY <3>1
    <2>3. \A m \in marks : \E r \in doomed : mark[r] = m
      OBVIOUS
    <2> QED BY <2>1, <2>2, <2>3 DEF Bijection, Injection, Surjection, IsInjective
  <1>2. ExistsBijection(doomed, marks)
    BY <1>1 DEF ExistsBijection
  <1> HIDE DEF marks, mark
  <1>3. IsFiniteSet(marks) /\ Cardinality(marks) = Cardinality(doomed)
    BY <1>2, FS_Bijection
  <1> QED BY <1>3 DEF marks

\* A DELETE of rows that are there marks as many as sqlite3_changes() says.
LEMMA EraseCount ==
  ASSUME NEW d \in Database, IsFiniteSet(d.rows), IsFiniteSet(d.gone),
         NEW doomed \in SUBSET d.rows, GoneRows(d) \cap d.rows = {}, NEW id
  PROVE  /\ IsFiniteSet(Erase(d, doomed, id).gone)
         /\ Cardinality(GoneBy(Erase(d, doomed, id), id))
              = Cardinality(GoneBy(d, id)) + Cardinality(doomed)
         /\ Cardinality(GoneBy(d, id)) \in Nat /\ Cardinality(doomed) \in Nat
  <1> DEFINE marks == {[call |-> id, row |-> r] : r \in doomed}
             before == GoneBy(d, id)
  <1>1. IsFiniteSet(doomed)
    BY FS_Subset
  <1>2. IsFiniteSet(marks) /\ Cardinality(marks) = Cardinality(doomed)
    BY <1>1, CountErased
  <1>3. IsFiniteSet(before)
    BY FS_Subset DEF GoneBy
  <1>4. \A m \in marks : m.row \in doomed
    OBVIOUS
  <1>5. before \cap marks = {}
    <2> HIDE DEF marks
    <2> QED BY <1>4 DEF GoneBy, GoneRows
  <1>6. /\ Erase(d, doomed, id).gone = d.gone \cup marks
        /\ GoneBy(Erase(d, doomed, id), id) = before \cup marks
    BY EraseRecord
  <1> HIDE DEF marks, before
  <1>7. Cardinality(before \cup marks)
          = Cardinality(before) + Cardinality(marks) - Cardinality(before \cap marks)
    BY <1>2, <1>3, FS_Union
  <1>8. Cardinality(before \cap marks) = 0
    BY <1>5, FS_EmptySet
  <1>9. Cardinality(before) \in Nat /\ Cardinality(doomed) \in Nat
    BY <1>1, <1>3, FS_CardinalityType
  <1>10. IsFiniteSet(d.gone \cup marks)
    BY <1>2, FS_Union
  <1> QED BY <1>2, <1>6, <1>7, <1>8, <1>9, <1>10 DEF before

Deletes(t) == job[t].op \in PurgeOp \cup {"delete_history"}

\* The recorded counts that no other thread's statement spoilt.
CountOK(d) ==
  \A a \in d.audit : a.call \in miscounted \/ a.count = Cardinality(GoneBy(d, a.call))

\* What a call has counted so far, with the sqlite3_changes() it is about to read.
CountSoFar(t) ==
  Cardinality(GoneBy(visible, job[t].call))
    = IF pc[t] = "count" THEN job[t].total + changes ELSE job[t].total

\* A call writes its audit row behind its last DELETE.
NotAuditedYet(t) ==
  pc[t] \in {"purge", "count", "audit"} =>
    \A a \in visible.audit \cup durable.audit : a.call # job[t].call

CountInv ==
  /\ IsFiniteSet(visible.gone) /\ IsFiniteSet(durable.gone)
  /\ CountOK(visible) /\ CountOK(durable)
  /\ \A t \in Threads : Deletes(t) /\ job[t].call \notin miscounted => CountSoFar(t)
  /\ \A t \in Threads : NotAuditedYet(t)

\* A step of thread t that marks and audits only call `id`, and spoils the count of
\* whoever is about to read sqlite3_changes().
LEMMA CountKept ==
  ASSUME CallsInv, CountInv, NEW t \in Threads, NEW id,
         \A u \in Threads : u # t => pc'[u] = pc[u] /\ job'[u] = job[u],
         \A u \in Threads : u # t /\ Busy(u) => job[u].call # id,
         durable' = durable \/ durable' = visible',
         IsFiniteSet(visible'.gone),
         \A other : other # id => GoneBy(visible', other) = GoneBy(visible, other),
         \A a \in visible'.audit : a \in visible.audit \/ a.call = id,
         \A a \in visible'.audit :
           a.call = id => a.call \in miscounted' \/ a.count = Cardinality(GoneBy(visible', id)),
         miscounted \subseteq miscounted',
         \/ changes' = changes
         \/ \A u \in Threads : u # t /\ pc[u] = "count" => job[u].call \in miscounted',
         Deletes(t)' /\ job'[t].call \notin miscounted' => CountSoFar(t)',
         pc'[t] \in {"purge", "count", "audit"} =>
           \A a \in visible'.audit \cup durable.audit : a.call # job'[t].call
  PROVE  CountInv'
  <1>1. CountOK(visible)'
    <2> SUFFICES ASSUME NEW a \in visible'.audit
                 PROVE  a.call \in miscounted' \/ a.count = Cardinality(GoneBy(visible', a.call))
      BY DEF CountOK
    <2>1. CASE a.call = id
      BY <2>1
    <2>2. CASE a.call # id
      BY <2>2 DEF CountInv, CountOK
    <2> QED BY <2>1, <2>2
  <1>2. CountOK(durable)'
    <2>1. CASE durable' = durable
      BY <2>1 DEF CountInv, CountOK
    <2>2. CASE durable' = visible'
      BY <1>1, <2>2 DEF CountOK
    <2> QED BY <2>1, <2>2
  <1>3. ASSUME NEW u \in Threads, Deletes(u)', job'[u].call \notin miscounted'
        PROVE  CountSoFar(u)'
    <2>1. CASE u = t
      BY <1>3, <2>1
    <2>2. CASE u # t
      <3>1. pc'[u] = pc[u] /\ job'[u] = job[u] /\ Deletes(u) /\ job[u].call \notin miscounted
        BY <1>3, <2>2 DEF Deletes
      <3>2. Busy(u)
        BY <3>1 DEF CallsInv, Deletes, NoJob, PurgeOp
      <3>3. CountSoFar(u)
        BY <3>1 DEF CountInv
      <3>4. GoneBy(visible', job[u].call) = GoneBy(visible, job[u].call)
        BY <2>2, <3>2
      <3>5. pc[u] = "count" => changes' = changes
        BY <1>3, <2>2, <3>1
      <3> QED BY <3>1, <3>3, <3>4, <3>5 DEF CountSoFar
    <2> QED BY <2>1, <2>2
  <1>4. ASSUME NEW u \in Threads PROVE NotAuditedYet(u)'
    <2>1. durable'.audit \subseteq visible'.audit \cup durable.audit
      OBVIOUS
    <2>2. CASE u = t
      BY <2>1, <2>2 DEF NotAuditedYet
    <2>3. CASE u # t
      BY <2>1, <2>3 DEF NotAuditedYet, CountInv, Busy
    <2> QED BY <2>2, <2>3
  <1>5. IsFiniteSet(durable'.gone)
    BY DEF CountInv
  <1> QED BY <1>1, <1>2, <1>3, <1>4, <1>5 DEF CountInv

LEMMA CountCall ==
  ASSUME TypeInv, ErasedInv, CallsInv, CountInv, NEW t \in Threads, Call(t)
  PROVE  CountInv'
  <1>1. /\ \A u \in Threads : u # t => pc'[u] = pc[u] /\ job'[u] = job[u]
        /\ pc[t] = "idle" /\ calls \in Nat
    BY CallThreads
  <1>2. \A u \in Threads : u # t /\ Busy(u) => job[u].call # calls + 1
    BY <1>1 DEF CallsInv
  <1>3. \A m \in visible.gone \cup visible.audit \cup durable.audit : m.call # calls + 1
    BY <1>1 DEF CallsInv, CallsMade
  <1>4. /\ durable' = durable \/ durable' = visible' 
        /\ visible'.audit = visible.audit /\ miscounted \subseteq miscounted'
    BY CallMarks
  <1>5. GoneBy(visible, calls + 1) = {} /\ Cardinality({}) = 0
    BY <1>3, FS_EmptySet DEF GoneBy
  <1>6. job[t] = NoJob
    BY <1>1 DEF CallsInv, Busy
  <1>7. ASSUME IsFiniteSet(visible'.gone),
                \A other : other # calls + 1 => GoneBy(visible', other) = GoneBy(visible, other),
                \/ changes' = changes
                \/ \A u \in Threads : u # t /\ pc[u] = "count" => job[u].call \in miscounted',
                Deletes(t)' => CountSoFar(t)',
                pc'[t] \in {"purge", "count", "audit"} => job'[t].call = calls + 1
         PROVE  CountInv'
    <2>1. \A a \in visible'.audit \cup durable.audit : a.call # calls + 1
      BY <1>3, <1>4
    <2> QED BY <1>1, <1>2, <1>4, <1>7, <2>1, CountKept
  <1>8. ASSUME NEW op \in BatchOp, NEW ts, BatchBegin(t, op, ts) PROVE CountInv'
    <2>1. /\ UNCHANGED <<visible, changes>> /\ pc'[t] = "rows"
          /\ job'[t] = NewJob(op, Batch(op, ts, calls + 1), NoCutoff)
      BY <1>8 DEF BatchBegin, Begin, Goto, TypeInv, StateOK
    <2>2. ~ Deletes(t)'
      BY <2>1 DEF Deletes, NewJob, BatchOp, PurgeOp
    <2> QED BY <1>7, <2>1, <2>2 DEF CountInv
  <1>9. ASSUME NEW op, NEW ts, NEW key, WriteRow(t, op, ts, key) PROVE CountInv'
    <2>1. PICK row : Execute(t, Put(visible, row), 1) /\ UNCHANGED <<pc, job>>
      BY <1>9 DEF WriteRow
    <2>2. visible'.gone = visible.gone
      BY <2>1, PutRecord DEF Execute, TypeInv, StateOK
    <2>3. \A other : GoneBy(visible', other) = GoneBy(visible, other)
      BY <2>2 DEF GoneBy
    <2>4. \A u \in Threads : u # t /\ pc[u] = "count" => job[u].call \in miscounted'
      BY <2>1 DEF Execute, CallsOf
    <2>5. ~ Deletes(t)' /\ pc'[t] = "idle"
      BY <1>1, <1>6, <2>1 DEF Deletes, NoJob, PurgeOp
    <2>6. IsFiniteSet(visible'.gone)
      BY <2>2 DEF CountInv
    <2> QED BY <1>7, <2>3, <2>4, <2>5, <2>6
  <1>10. ASSUME NEW table, NEW lo, NEW hi, DeleteHistory(t, table, lo, hi) PROVE CountInv'
    <2> DEFINE doomed == InRange(visible.rows, table, lo, hi)
    <2>1. /\ Execute(t, Erase(visible, doomed, calls + 1), Cardinality(doomed))
          /\ pc'[t] = "count" /\ job'[t] = NewJob("delete_history", {}, NoCutoff)
      BY <1>10 DEF DeleteHistory, Goto, TypeInv, StateOK
    <2>2. job'[t].call = calls + 1 /\ job'[t].total = 0
      BY <2>1 DEF NewJob
    <2>3. doomed \in SUBSET visible.rows
      BY DEF InRange
    <2> HIDE DEF doomed
    <2>4. /\ visible' = Erase(visible, doomed, calls + 1) /\ changes' = Cardinality(doomed)
          /\ \A u \in Threads : u # t /\ pc[u] = "count" => job[u].call \in miscounted'
      BY <2>1 DEF Execute, CallsOf
    <2>5. /\ IsFiniteSet(visible'.gone)
          /\ Cardinality(GoneBy(visible', calls + 1)) = 0 + changes'
      <3>1. /\ visible \in Database /\ IsFiniteSet(visible.rows) /\ IsFiniteSet(visible.gone)
            /\ GoneRows(visible) \cap visible.rows = {}
        BY DEF TypeInv, StateOK, CountInv, ErasedInv, GoneIsGone
      <3>2. /\ IsFiniteSet(Erase(visible, doomed, calls + 1).gone)
            /\ Cardinality(GoneBy(Erase(visible, doomed, calls + 1), calls + 1))
                 = Cardinality(GoneBy(visible, calls + 1)) + Cardinality(doomed)
        BY <2>3, <3>1, EraseCount
      <3> QED BY <1>5, <2>4, <3>2
    <2>6. \A other : other # calls + 1 => GoneBy(visible', other) = GoneBy(visible, other)
      BY <2>4, EraseRecord DEF TypeInv, StateOK
    <2>7. CountSoFar(t)'
      BY <2>1, <2>2, <2>5 DEF CountSoFar
    <2> QED BY <1>7, <2>2, <2>4, <2>5, <2>6, <2>7
  <1>11. ASSUME NEW op, NEW cutoff, PurgeBegin(t, op, cutoff) PROVE CountInv'
    <2>1. /\ UNCHANGED <<visible, changes>> /\ pc'[t] = "purge"
          /\ job'[t] = NewJob(op, {}, cutoff)
      BY <1>11 DEF PurgeBegin, Begin, Goto, TypeInv, StateOK
    <2>2. job'[t].call = calls + 1 /\ job'[t].total = 0
      BY <2>1 DEF NewJob
    <2>3. CountSoFar(t)'
      BY <1>5, <2>1, <2>2 DEF CountSoFar
    <2> QED BY <1>7, <2>1, <2>2, <2>3 DEF CountInv
  <1> QED BY <1>8, <1>9, <1>10, <1>11 DEF Call

LEMMA CountStep ==
  ASSUME TypeInv, ErasedInv, CallsInv, CountInv, NEW t \in Threads, Step(t)
  PROVE  CountInv'
  <1> DEFINE id == job[t].call
  <1>1. /\ \A u \in Threads : u # t => pc'[u] = pc[u] /\ job'[u] = job[u]
        /\ pc[t] # "idle"
    BY StepThreads
  <1>2. \A u \in Threads : u # t /\ Busy(u) => job[u].call # id
    BY <1>1 DEF CallsInv, Busy
  <1>3. /\ durable' = durable \/ durable' = visible' 
        /\ miscounted \subseteq miscounted'
    BY StepMarks
  <1>4. ASSUME visible' = visible, changes' = changes,
               Deletes(t)' /\ job'[t].call \notin miscounted' => CountSoFar(t)',
               pc'[t] \in {"purge", "count", "audit"} =>
                 pc[t] \in {"purge", "count", "audit"} /\ job'[t].call = id
        PROVE  CountInv'
    <2>1. \A a \in visible'.audit :
            a.call = id => a.call \in miscounted' \/ a.count = Cardinality(GoneBy(visible', id))
      BY <1>3, <1>4 DEF CountInv, CountOK
    <2>2. pc'[t] \in {"purge", "count", "audit"} =>
            \A a \in visible'.audit \cup durable.audit : a.call # job'[t].call
      BY <1>4 DEF CountInv, NotAuditedYet
    <2>3. IsFiniteSet(visible'.gone)
      BY <1>4 DEF CountInv
    <2> QED BY <1>1, <1>2, <1>3, <1>4, <2>1, <2>2, <2>3, CountKept
  <1>5. CASE BatchRow(t)
    <2>1. PICK row : Execute(t, Put(visible, row), 1)
      BY <1>5 DEF BatchRow
    <2>2. visible'.gone = visible.gone /\ visible'.audit = visible.audit
      BY <2>1, PutRecord DEF Execute, TypeInv, StateOK
    <2>3. \A other : GoneBy(visible', other) = GoneBy(visible, other)
      BY <2>2 DEF GoneBy
    <2>4. \A u \in Threads : u # t /\ pc[u] = "count" => job[u].call \in miscounted'
      BY <2>1 DEF Execute, CallsOf
    <2>5. job[t].op \in BatchOp /\ pc'[t] \in {"rows", "commit"} /\ job'[t].op = job[t].op
      BY <1>5 DEF BatchRow, Goto, TypeInv, JobOK, StateOK, Job
    <2>6. ~ Deletes(t)'
      BY <2>5 DEF Deletes, BatchOp, PurgeOp
    <2>7. \A a \in visible'.audit :
            a.call = id => a.call \in miscounted' \/ a.count = Cardinality(GoneBy(visible', id))
      BY <1>3, <2>2, <2>3 DEF CountInv, CountOK
    <2>8. IsFiniteSet(visible'.gone)
      BY <2>2 DEF CountInv
    <2>9. /\ \A a \in visible'.audit : a \in visible.audit \/ a.call = id
          /\ pc'[t] \notin {"purge", "count", "audit"}
      BY <2>2, <2>5
    <2> HIDE DEF id
    <2> QED BY <1>1, <1>2, <1>3, <2>3, <2>4, <2>6, <2>7, <2>8, <2>9, CountKept
  <1>6. CASE BatchCommit(t) \/ PurgeCommit(t)
    <2>1. visible' = visible /\ changes' = changes /\ job'[t] = NoJob /\ pc'[t] = "idle"
      BY <1>6 DEF BatchCommit, PurgeCommit, Commit, Return, Goto, TypeInv, StateOK
    <2>2. ~ Deletes(t)'
      BY <2>1 DEF Deletes, NoJob, PurgeOp
    <2> QED BY <1>4, <2>1, <2>2
  <1>7. CASE PurgeTable(t)
    <2> DEFINE doomed == Doomed(t)
    <2>1. /\ Execute(t, Erase(visible, doomed, id), Cardinality(doomed))
          /\ pc[t] = "purge" /\ pc'[t] = "count"
          /\ job'[t].call = id /\ job'[t].total = job[t].total /\ job'[t].op = job[t].op
      BY <1>7 DEF PurgeTable, Goto, TypeInv, StateOK, Job
    <2>2. doomed \in SUBSET visible.rows
      BY DEF Doomed, Purged
    <2> HIDE DEF doomed
    <2>3. /\ visible' = Erase(visible, doomed, id) /\ changes' = Cardinality(doomed)
          /\ \A u \in Threads : u # t /\ pc[u] = "count" => job[u].call \in miscounted'
      BY <2>1 DEF Execute, CallsOf
    <2>4. /\ IsFiniteSet(visible'.gone)
          /\ Cardinality(GoneBy(visible', id)) = Cardinality(GoneBy(visible, id)) + changes'
      BY <2>2, <2>3, EraseCount DEF TypeInv, StateOK, CountInv, ErasedInv, GoneIsGone
    <2>5. /\ visible'.audit = visible.audit
          /\ \A other : other # id => GoneBy(visible', other) = GoneBy(visible, other)
      BY <2>3, EraseRecord DEF TypeInv, StateOK
    <2>6. \A a \in visible.audit \cup durable.audit : a.call # id
      BY <2>1 DEF CountInv, NotAuditedYet
    <2>7. Deletes(t)' /\ job'[t].call \notin miscounted' => CountSoFar(t)'
      <3>1. Deletes(t)' /\ job'[t].call \notin miscounted' => CountSoFar(t)
        BY <1>3, <2>1 DEF CountInv, Deletes
      <3> QED BY <2>1, <2>4, <3>1 DEF CountSoFar
    <2> QED BY <1>1, <1>2, <1>3, <2>1, <2>3, <2>4, <2>5, <2>6, <2>7, CountKept
  <1>8. CASE PurgeSkip(t)
    <2>1. /\ visible' = visible /\ changes' = changes /\ pc[t] = "purge"
          /\ job'[t].call = id /\ job'[t].total = job[t].total /\ job'[t].op = job[t].op
          /\ pc'[t] = AfterTable(t, job[t].at + 1, job[t].total)
      BY <1>8 DEF PurgeSkip, Goto, TypeInv, StateOK, Job
    <2>2. pc'[t] # "count"
      BY <2>1 DEF AfterTable
    <2>3. Deletes(t)' /\ job'[t].call \notin miscounted' => CountSoFar(t)'
      <3>1. Deletes(t)' /\ job'[t].call \notin miscounted' => CountSoFar(t)
        BY <1>3, <2>1 DEF CountInv, Deletes
      <3> QED BY <2>1, <2>2, <3>1 DEF CountSoFar
    <2> QED BY <1>4, <2>1, <2>3
  <1>9. CASE CountChanges(t)
    <2>1. /\ visible' = visible /\ changes' = changes /\ pc[t] = "count"
          /\ job'[t].call = id /\ job'[t].op = job[t].op
          /\ job'[t].total = job[t].total + changes
          /\ pc'[t] = AfterTable(t, job[t].at, job[t].total + changes)
      BY <1>9 DEF CountChanges, Goto, TypeInv, StateOK, Job
    <2>2. pc'[t] # "count"
      BY <2>1 DEF AfterTable
    <2>3. Deletes(t)' /\ job'[t].call \notin miscounted' => CountSoFar(t)'
      <3>1. Deletes(t)' /\ job'[t].call \notin miscounted' => CountSoFar(t)
        BY <1>3, <2>1 DEF CountInv, Deletes
      <3> QED BY <2>1, <2>2, <3>1 DEF CountSoFar
    <2> QED BY <1>4, <2>1, <2>3
  <1>10. CASE WriteAudit(t)
    <2> DEFINE entry == [call |-> id, count |-> job[t].total]
    <2>1. /\ Execute(t, Log(visible, id, job[t].total), 1) /\ pc[t] = "audit"
          /\ \/ job'[t] = NoJob /\ pc'[t] = "idle"
             \/ job'[t] = job[t] /\ pc'[t] = "commit"
      BY <1>10 DEF WriteAudit, Return, Goto, TypeInv, StateOK
    <2>2. visible'.gone = visible.gone /\ visible'.audit = visible.audit \cup {entry}
      BY <2>1, LogRecord DEF Execute, TypeInv, StateOK
    <2>3. \A other : GoneBy(visible', other) = GoneBy(visible, other)
      BY <2>2 DEF GoneBy
    <2>4. \A u \in Threads : u # t /\ pc[u] = "count" => job[u].call \in miscounted'
      BY <2>1 DEF Execute, CallsOf
    <2>5. \A a \in visible.audit \cup durable.audit : a.call # id
      BY <2>1 DEF CountInv, NotAuditedYet
    <2>6. Deletes(t) /\ id \notin miscounted' => CountSoFar(t)
      BY <1>3 DEF CountInv
    <2>7. Deletes(t)
      BY <2>1 DEF TypeInv, JobOK, Deletes
    <2>8. \A a \in visible'.audit :
            a.call = id => a.call \in miscounted' \/ a.count = Cardinality(GoneBy(visible', id))
      BY <2>1, <2>2, <2>3, <2>5, <2>6, <2>7 DEF CountSoFar
    <2>9. Deletes(t)' /\ job'[t].call \notin miscounted' => CountSoFar(t)'
      BY <2>1, <2>3, <2>6 DEF CountSoFar, Deletes, NoJob, PurgeOp
    <2>10. IsFiniteSet(visible'.gone) /\ \A a \in visible'.audit : a \in visible.audit \/ a.call = id
      BY <2>2 DEF CountInv
    <2> HIDE DEF id, entry
    <2> QED BY <1>1, <1>2, <1>3, <2>1, <2>3, <2>4, <2>8, <2>9, <2>10, CountKept
  <1> QED BY <1>5, <1>6, <1>7, <1>8, <1>9, <1>10 DEF Step

LEMMA InitCount == Init => CountInv
  BY FS_EmptySet DEF Init, CountInv, CountOK, Empty, Deletes, NoJob, PurgeOp, NotAuditedYet

LEMMA NextCount == TypeInv /\ ErasedInv /\ CallsInv /\ CountInv /\ [Next]_vars => CountInv'
  <1> SUFFICES ASSUME TypeInv, ErasedInv, CallsInv, CountInv, [Next]_vars PROVE CountInv'
    OBVIOUS
  <1>1. CASE Crash
    <2>1. /\ visible' = durable /\ durable' = durable /\ miscounted' = miscounted
          /\ pc' = [t \in Threads |-> "idle"] /\ job' = [t \in Threads |-> NoJob]
      BY <1>1 DEF Crash
    <2>2. \A t \in Threads : ~ Deletes(t)' /\ NotAuditedYet(t)'
      BY <2>1 DEF Deletes, NoJob, PurgeOp, NotAuditedYet
    <2> QED BY <2>1, <2>2 DEF CountInv, CountOK
  <1>2. CASE UNCHANGED vars
    BY <1>2 DEF vars, CountInv, CountOK, Deletes, CountSoFar, NotAuditedYet
  <1> QED BY <1>1, <1>2, CountCall, CountStep DEF Next

\* docs/api-reference.md:406: whatever runs beside it, delete_history, delete_all_history
\* or cleanup_expired records exactly the number of rows that it deleted, unless a data
\* statement of another thread came between its DELETE and its sqlite3_changes().
THEOREM AuditCountsAreExact == Spec => []AuditCountExact
  <1>1. CountInv => AuditCountExact
    BY DEF CountInv, CountOK, AuditCountExact, GoneBy
  <1> QED BY <1>1, InitCount, NextCount, InitCalls, NextCalls, InitErased, NextErased,
             InitAckInv, NextAckInv, Typing, PTL DEF Spec

-----------------------------------------------------------------------------
(* The audit rows.  What a call deleted becomes durable together with its  *)
(* audit row, or before it only if another thread's BEGIN or COMMIT, or a  *)
(* crash of delete_history, came between.                                  *)

Audited(d, id) == \E a \in d.audit : a.call = id

Accounted(d) ==
  \A g \in d.gone : \/ Audited(d, g.call)
                    \/ \E t \in Threads : job[t].call = g.call
                    \/ g.call \in split \cup miscounted

\* A batch marks nothing.
MarksNothing(t) ==
  Busy(t) /\ ~ Deletes(t) =>
    GoneBy(visible, job[t].call) = {} /\ GoneBy(durable, job[t].call) = {}

\* A purge about to COMMIT has written its audit row, or counted nothing.
AuditWritten(t) ==
  pc[t] = "commit" /\ job[t].op \in PurgeOp =>
    Audited(visible, job[t].call) \/ job[t].total = 0

\* Nothing of an undivided purge is on disk before its COMMIT.
PurgePending(t) ==
  job[t].op \in PurgeOp /\ job[t].call \notin split =>
    txn /\ GoneBy(durable, job[t].call) = {}

\* An undivided delete_history is in one transaction of others, or in none.
RangePending(t) ==
  job[t].op = "delete_history" /\ job[t].call \notin split /\ txn =>
    GoneBy(durable, job[t].call) = {}

RecordInv ==
  /\ Accounted(visible) /\ Accounted(durable)
  /\ \A t \in Threads : MarksNothing(t) /\ AuditWritten(t) /\ PurgePending(t) /\ RangePending(t)

\* A step of thread t, other than a COMMIT, that marks only call `id`.
LEMMA RecordKept ==
  ASSUME TypeInv, CallsInv, RecordInv, NEW t \in Threads, NEW id,
         \A u \in Threads : u # t => pc'[u] = pc[u] /\ job'[u] = job[u],
         \A u \in Threads : u # t /\ Busy(u) => job[u].call # id,
         durable' = durable \/ (durable' = visible' /\ ~ txn),
         txn' = txn \/ (txn' = TRUE /\ CallsOf(Deleting) \subseteq split'),
         split \subseteq split', miscounted \subseteq miscounted',
         \A other : other # id => GoneBy(visible', other) = GoneBy(visible, other),
         visible.audit \subseteq visible'.audit,
         GoneBy(visible', id) = GoneBy(visible, id) \/ job'[t].call = id,
         \/ job'[t].call = job[t].call
         \/ job[t] = NoJob
         \/ /\ Audited(visible', job[t].call)
            /\ \/ durable' = visible'
               \/ GoneBy(durable, job[t].call) = {}
               \/ job[t].call \in split,
         MarksNothing(t)', AuditWritten(t)', PurgePending(t)', RangePending(t)'
  PROVE  RecordInv'
  <1>1. \A g \in visible.gone \cup durable.gone : g.call # NoJob.call
    BY DEF CallsInv, CallsMade, NoJob, TypeInv, StateOK
  <1>2. Accounted(visible)'
    <2> SUFFICES ASSUME NEW g \in visible'.gone
                 PROVE  \/ Audited(visible', g.call)
                        \/ \E u \in Threads : job'[u].call = g.call
                        \/ g.call \in split' \cup miscounted'
      BY DEF Accounted
    <2>1. CASE g.call = id /\ job'[t].call = id
      BY <2>1
    <2>2. CASE GoneBy(visible', g.call) = GoneBy(visible, g.call)
      <3>1. g \in visible.gone
        BY <2>2 DEF GoneBy
      <3>2. CASE Audited(visible, g.call)
        BY <3>2 DEF Audited
      <3>3. ASSUME NEW u \in Threads, job[u].call = g.call
            PROVE  Audited(visible', g.call) \/ \E v \in Threads : job'[v].call = g.call
        BY <1>1, <3>1, <3>3
      <3> QED BY <3>1, <3>2, <3>3 DEF RecordInv, Accounted
    <2> QED BY <2>1, <2>2
  <1>3. Accounted(durable)'
    <2>1. CASE durable' = visible'
      BY <1>2, <2>1 DEF Accounted, Audited
    <2>2. CASE durable' = durable /\ durable' # visible'
      <3> SUFFICES ASSUME NEW g \in durable.gone
                   PROVE  \/ Audited(durable, g.call)
                          \/ \E u \in Threads : job'[u].call = g.call
                          \/ g.call \in split' \cup miscounted'
        BY <2>2 DEF Accounted, Audited
      <3>1. ASSUME NEW u \in Threads, job[u].call = g.call
            PROVE  g.call \in split \/ \E v \in Threads : job'[v].call = g.call
        <4>1. GoneBy(durable, g.call) # {}
          BY DEF GoneBy
        <4> QED BY <1>1, <2>2, <3>1, <4>1
      <3> QED BY <3>1 DEF RecordInv, Accounted
    <2> QED BY <2>1, <2>2
  <1>4. ASSUME NEW u \in Threads, u # t
        PROVE  MarksNothing(u)' /\ AuditWritten(u)' /\ PurgePending(u)' /\ RangePending(u)'
    <2>1. pc'[u] = pc[u] /\ job'[u] = job[u]
      BY <1>4
    <2>2. MarksNothing(u) /\ AuditWritten(u) /\ PurgePending(u) /\ RangePending(u)
      BY DEF RecordInv
    <2>3. Busy(u) => GoneBy(visible', job[u].call) = GoneBy(visible, job[u].call)
      BY <1>4
    <2>4. MarksNothing(u)'
      BY <2>1, <2>2, <2>3 DEF MarksNothing, Busy, Deletes
    <2>5. AuditWritten(u)'
      BY <2>1, <2>2 DEF AuditWritten, Audited
    <2>6. PurgePending(u)'
      BY <2>1, <2>2 DEF PurgePending
    <2>7. RangePending(u)'
      <3>1. job[u].op = "delete_history" => job[u].call \in CallsOf(Deleting)
        BY DEF CallsOf, Deleting
      <3> QED BY <2>1, <2>2, <3>1 DEF RangePending
    <2> QED BY <2>4, <2>5, <2>6, <2>7
  <1> QED BY <1>2, <1>3, <1>4 DEF RecordInv

LEMMA RecordCall ==
  ASSUME TypeInv, CallsInv, RecordInv, NEW t \in Threads, Call(t)
  PROVE  RecordInv'
  <1>1. /\ \A u \in Threads : u # t => pc'[u] = pc[u] /\ job'[u] = job[u]
        /\ pc[t] = "idle" /\ calls \in Nat
    BY CallThreads
  <1>2. \A u \in Threads : u # t /\ Busy(u) => job[u].call # calls + 1
    BY <1>1 DEF CallsInv
  <1>3. GoneBy(visible, calls + 1) = {} /\ GoneBy(durable, calls + 1) = {}
    BY <1>1 DEF GoneBy, CallsInv, CallsMade
  <1>4. /\ visible.audit \subseteq visible'.audit
        /\ split \subseteq split' /\ miscounted \subseteq miscounted'
    BY CallMarks
  <1>5. job[t] = NoJob
    BY <1>1 DEF CallsInv, Busy
  <1>6. ASSUME durable' = durable \/ (durable' = visible' /\ ~ txn),
               txn' = txn \/ (txn' = TRUE /\ CallsOf(Deleting) \subseteq split'),
               \A other : other # calls + 1 => GoneBy(visible', other) = GoneBy(visible, other),
               GoneBy(visible', calls + 1) = GoneBy(visible, calls + 1) \/ job'[t].call = calls + 1,
               MarksNothing(t)', AuditWritten(t)', PurgePending(t)', RangePending(t)'
        PROVE  RecordInv'
    BY <1>1, <1>2, <1>4, <1>5, <1>6, RecordKept
  <1>7. ASSUME NEW op \in BatchOp, NEW ts, BatchBegin(t, op, ts) PROVE RecordInv'
    <2>1. /\ UNCHANGED <<visible, durable>> /\ pc'[t] = "rows"
          /\ job'[t] = NewJob(op, Batch(op, ts, calls + 1), NoCutoff)
          /\ txn' = TRUE /\ (txn \/ CallsOf(Deleting) \subseteq split')
      BY <1>7 DEF BatchBegin, Begin, Goto, TypeInv, StateOK
    <2>2. job'[t].call = calls + 1 /\ job'[t].op \in BatchOp
      BY <2>1 DEF NewJob
    <2>3. MarksNothing(t)' /\ AuditWritten(t)' /\ PurgePending(t)' /\ RangePending(t)'
      BY <1>3, <2>1, <2>2
         DEF MarksNothing, AuditWritten, PurgePending, RangePending, BatchOp, PurgeOp
    <2>4. txn' = txn \/ (txn' = TRUE /\ CallsOf(Deleting) \subseteq split')
      BY <2>1 DEF TypeInv, StateOK
    <2> QED BY <1>6, <2>1, <2>3, <2>4
  <1>8. ASSUME NEW op, NEW ts, NEW key, WriteRow(t, op, ts, key) PROVE RecordInv'
    <2>1. PICK row : Execute(t, Put(visible, row), 1) /\ UNCHANGED <<pc, job>>
      BY <1>8 DEF WriteRow
    <2>2. visible'.gone = visible.gone
      BY <2>1, PutRecord DEF Execute, TypeInv, StateOK
    <2>3. \A other : GoneBy(visible', other) = GoneBy(visible, other)
      BY <2>2 DEF GoneBy
    <2>4. MarksNothing(t)' /\ AuditWritten(t)' /\ PurgePending(t)' /\ RangePending(t)'
      BY <1>1, <1>5, <2>1
         DEF MarksNothing, AuditWritten, PurgePending, RangePending, NoJob, PurgeOp, Busy
    <2>5. txn' = txn /\ (durable' = durable \/ (durable' = visible' /\ ~ txn))
      BY <2>1 DEF Execute
    <2> QED BY <1>6, <2>3, <2>4, <2>5
  <1>9. ASSUME NEW table, NEW lo, NEW hi, DeleteHistory(t, table, lo, hi) PROVE RecordInv'
    <2>1. PICK doomed, n : Execute(t, Erase(visible, doomed, calls + 1), n)
      BY <1>9 DEF DeleteHistory
    <2>2. pc'[t] = "count" /\ job'[t] = NewJob("delete_history", {}, NoCutoff)
      BY <1>9 DEF DeleteHistory, Goto, TypeInv, StateOK
    <2>3. job'[t].call = calls + 1 /\ job'[t].op = "delete_history"
      BY <2>2 DEF NewJob
    <2>4. txn' = txn /\ (durable' = durable \/ (durable' = visible' /\ ~ txn))
      BY <2>1 DEF Execute
    <2>5. \A other : other # calls + 1 => GoneBy(visible', other) = GoneBy(visible, other)
      BY <2>1, EraseRecord DEF Execute, TypeInv, StateOK
    <2>6. MarksNothing(t)' /\ AuditWritten(t)' /\ PurgePending(t)' /\ RangePending(t)'
      BY <1>3, <2>2, <2>3, <2>4
         DEF MarksNothing, AuditWritten, PurgePending, RangePending, Deletes, PurgeOp
    <2> QED BY <1>6, <2>3, <2>4, <2>5, <2>6
  <1>10. ASSUME NEW op \in PurgeOp, NEW cutoff, PurgeBegin(t, op, cutoff) PROVE RecordInv'
    <2>1. /\ UNCHANGED <<visible, durable>> /\ pc'[t] = "purge"
          /\ job'[t] = NewJob(op, {}, cutoff)
          /\ txn' = TRUE /\ (txn \/ CallsOf(Deleting) \subseteq split')
      BY <1>10 DEF PurgeBegin, Begin, Goto, TypeInv, StateOK
    <2>2. job'[t].call = calls + 1 /\ job'[t].op \in PurgeOp
      BY <2>1 DEF NewJob
    <2>3. MarksNothing(t)' /\ AuditWritten(t)' /\ PurgePending(t)' /\ RangePending(t)'
      BY <1>3, <2>1, <2>2
         DEF MarksNothing, AuditWritten, PurgePending, RangePending, PurgeOp, Deletes
    <2>4. txn' = txn \/ (txn' = TRUE /\ CallsOf(Deleting) \subseteq split')
      BY <2>1 DEF TypeInv, StateOK
    <2> QED BY <1>6, <2>1, <2>3, <2>4
  <1> QED BY <1>7, <1>8, <1>9, <1>10 DEF Call, PurgeOp

LEMMA RecordCommit ==
  ASSUME TypeInv, AckInv, CallsInv, CountInv, RecordInv, NEW t \in Threads,
         BatchCommit(t) \/ PurgeCommit(t)
  PROVE  RecordInv'
  <1>1. /\ visible' = visible /\ txn' = FALSE /\ miscounted' = miscounted
        /\ split \subseteq split' /\ pc[t] = "commit"
        /\ \A u \in Threads : u # t /\ InTransaction(u) => job[u].call \in split'
        /\ job'[t] = NoJob /\ pc'[t] = "idle"
        /\ \A u \in Threads : u # t => pc'[u] = pc[u] /\ job'[u] = job[u]
    BY DEF BatchCommit, PurgeCommit, Commit, CallsOf, Return, Goto, TypeInv, StateOK
  <1>2. durable' = visible
    BY DEF BatchCommit, PurgeCommit, Commit, AckInv, AutocommitDurable
  <1>3. ASSUME NEW g \in visible.gone, g.call = job[t].call
        PROVE  Audited(visible, g.call) \/ g.call \in miscounted
    <2>1. g \in GoneBy(visible, job[t].call)
      BY <1>3 DEF GoneBy
    <2>2. Deletes(t)
      BY <1>1, <2>1 DEF RecordInv, MarksNothing, Busy
    <2>3. job[t].op \in PurgeOp
      BY <1>1, <2>2 DEF BatchCommit, PurgeCommit, Deletes, BatchOp, PurgeOp
    <2>4. CASE job[t].call \notin miscounted /\ job[t].total = 0
      <3>1. Cardinality(GoneBy(visible, job[t].call)) = 0
        BY <1>1, <2>2, <2>4 DEF CountInv, CountSoFar
      <3>2. IsFiniteSet(GoneBy(visible, job[t].call))
        BY FS_Subset DEF CountInv, GoneBy
      <3> QED BY <2>1, <3>1, <3>2, FS_EmptySet
    <2> QED BY <1>1, <1>3, <2>3, <2>4 DEF RecordInv, AuditWritten
  <1>4. Accounted(visible)'
    <2> SUFFICES ASSUME NEW g \in visible.gone
                 PROVE  \/ Audited(visible, g.call)
                        \/ \E u \in Threads : job'[u].call = g.call
                        \/ g.call \in split' \cup miscounted
      BY <1>1 DEF Accounted, Audited
    <2> QED BY <1>1, <1>3 DEF RecordInv, Accounted
  <1>5. Accounted(durable)'
    BY <1>1, <1>2, <1>4 DEF Accounted, Audited
  <1>6. ASSUME NEW u \in Threads
        PROVE  MarksNothing(u)' /\ AuditWritten(u)' /\ PurgePending(u)' /\ RangePending(u)'
    <2>1. CASE u = t
      BY <1>1, <2>1 DEF MarksNothing, AuditWritten, PurgePending, RangePending, NoJob, PurgeOp, Busy
    <2>2. CASE u # t
      <3>1. pc'[u] = pc[u] /\ job'[u] = job[u]
        BY <1>1, <2>2
      <3>2. MarksNothing(u)' /\ AuditWritten(u)' /\ RangePending(u)'
        BY <1>1, <1>2, <3>1
           DEF RecordInv, MarksNothing, AuditWritten, RangePending, Busy, Deletes, Audited
      <3>3. job[u].op \in PurgeOp => InTransaction(u)
        BY DEF CallsInv, Busy, NoJob, PurgeOp, InTransaction
      <3>4. PurgePending(u)'
        BY <1>1, <2>2, <3>1, <3>3 DEF PurgePending
      <3> QED BY <3>2, <3>4
    <2> QED BY <2>1, <2>2
  <1> QED BY <1>4, <1>5, <1>6 DEF RecordInv

LEMMA RecordStep ==
  ASSUME TypeInv, AckInv, CallsInv, CountInv, RecordInv, NEW t \in Threads, Step(t)
  PROVE  RecordInv'
  <1> DEFINE id == job[t].call
  <1>1. /\ \A u \in Threads : u # t => pc'[u] = pc[u] /\ job'[u] = job[u]
        /\ pc[t] # "idle"
    BY StepThreads
  <1>2. \A u \in Threads : u # t /\ Busy(u) => job[u].call # id
    BY <1>1 DEF CallsInv, Busy
  <1>3. split \subseteq split' /\ miscounted \subseteq miscounted'
    BY StepMarks
  <1>4. MarksNothing(t) /\ AuditWritten(t) /\ PurgePending(t) /\ RangePending(t)
    BY DEF RecordInv
  <1>5. ASSUME job'[t].call = id, job'[t].op = job[t].op, txn' = txn,
               durable' = durable \/ (durable' = visible' /\ ~ txn),
               \A other : other # id => GoneBy(visible', other) = GoneBy(visible, other),
               ~ Deletes(t) => GoneBy(visible', id) = GoneBy(visible, id),
               visible.audit \subseteq visible'.audit,
               AuditWritten(t)'
        PROVE  RecordInv'
    <2>1. MarksNothing(t)'
      BY <1>1, <1>4, <1>5 DEF MarksNothing, Busy, Deletes
    <2>2. PurgePending(t)' /\ RangePending(t)'
      BY <1>3, <1>4, <1>5 DEF PurgePending, RangePending
    <2> HIDE DEF id
    <2> QED BY <1>1, <1>2, <1>3, <1>5, <2>1, <2>2, RecordKept DEF id
  <1>6. CASE BatchRow(t)
    <2>1. PICK row : Execute(t, Put(visible, row), 1)
      BY <1>6 DEF BatchRow
    <2>2. visible'.gone = visible.gone /\ visible'.audit = visible.audit
      BY <2>1, PutRecord DEF Execute, TypeInv, StateOK
    <2>3. \A other : GoneBy(visible', other) = GoneBy(visible, other)
      BY <2>2 DEF GoneBy
    <2>4. job[t].op \in BatchOp /\ job'[t].op = job[t].op /\ job'[t].call = id
      BY <1>6 DEF BatchRow, TypeInv, JobOK, StateOK, Job
    <2>5. AuditWritten(t)'
      BY <2>4 DEF AuditWritten, BatchOp, PurgeOp
    <2>6. txn' = txn /\ (durable' = durable \/ (durable' = visible' /\ ~ txn))
      BY <2>1 DEF Execute
    <2> QED BY <1>5, <2>2, <2>3, <2>4, <2>5, <2>6
  <1>7. CASE BatchCommit(t) \/ PurgeCommit(t)
    BY <1>7, RecordCommit
  <1>8. CASE PurgeTable(t)
    <2> DEFINE doomed == Doomed(t)
    <2>1. /\ Execute(t, Erase(visible, doomed, id), Cardinality(doomed))
          /\ pc[t] = "purge" /\ pc'[t] = "count"
          /\ job'[t].call = id /\ job'[t].op = job[t].op
      BY <1>8 DEF PurgeTable, Goto, TypeInv, StateOK, Job
    <2> HIDE DEF doomed
    <2>2. /\ visible'.audit = visible.audit
          /\ \A other : other # id => GoneBy(visible', other) = GoneBy(visible, other)
      BY <2>1, EraseRecord DEF Execute, TypeInv, StateOK
    <2>3. Deletes(t) /\ AuditWritten(t)'
      BY <2>1 DEF AuditWritten, Deletes, TypeInv, JobOK
    <2>4. txn' = txn /\ (durable' = durable \/ (durable' = visible' /\ ~ txn))
      BY <2>1 DEF Execute
    <2> QED BY <1>5, <2>1, <2>2, <2>3, <2>4
  <1>9. CASE PurgeSkip(t) \/ CountChanges(t)
    <2>1. PICK at, total \in Nat :
            /\ UNCHANGED <<visible, durable, txn>>
            /\ job'[t].call = id /\ job'[t].op = job[t].op /\ job'[t].total = total
            /\ pc'[t] = AfterTable(t, at, total)
      <3>1. CASE PurgeSkip(t)
        <4>1. /\ UNCHANGED <<visible, durable, txn>>
              /\ job'[t].call = id /\ job'[t].op = job[t].op /\ job'[t].total = job[t].total
              /\ pc'[t] = AfterTable(t, job[t].at + 1, job[t].total)
              /\ job[t].total \in Nat /\ job[t].at + 1 \in Nat
          BY <3>1 DEF PurgeSkip, Goto, TypeInv, StateOK, Job
        <4> QED BY <4>1
      <3>2. CASE CountChanges(t)
        <4>1. /\ UNCHANGED <<visible, durable, txn>>
              /\ job'[t].call = id /\ job'[t].op = job[t].op
              /\ job'[t].total = job[t].total + changes
              /\ pc'[t] = AfterTable(t, job[t].at, job[t].total + changes)
              /\ job[t].total + changes \in Nat /\ job[t].at \in Nat
          BY <3>2 DEF CountChanges, Goto, TypeInv, StateOK, Job
        <4> QED BY <4>1
      <3> QED BY <1>9, <3>1, <3>2
    <2>2. AuditWritten(t)'
      BY <2>1 DEF AuditWritten, AfterTable, PurgeOp
    <2>3. \A other : GoneBy(visible', other) = GoneBy(visible, other)
      BY <2>1
    <2> QED BY <1>5, <2>1, <2>2, <2>3
  <1>10. CASE WriteAudit(t)
    <2> DEFINE entry == [call |-> id, count |-> job[t].total]
    <2>1. /\ Execute(t, Log(visible, id, job[t].total), 1) /\ pc[t] = "audit"
          /\ \/ job'[t] = NoJob /\ pc'[t] = "idle" /\ job[t].op = "delete_history"
             \/ job'[t] = job[t] /\ pc'[t] = "commit"
      BY <1>10 DEF WriteAudit, Return, Goto, TypeInv, StateOK
    <2>2. visible'.gone = visible.gone /\ visible'.audit = visible.audit \cup {entry}
      BY <2>1, LogRecord DEF Execute, TypeInv, StateOK
    <2>3. \A other : GoneBy(visible', other) = GoneBy(visible, other)
      BY <2>2 DEF GoneBy
    <2>4. Audited(visible', id) /\ visible.audit \subseteq visible'.audit
      BY <2>2 DEF Audited
    <2>5. txn' = txn /\ durable' = IF txn THEN durable ELSE visible'
      BY <2>1 DEF Execute
    <2>6. CASE job'[t] = job[t]
      <3>1. AuditWritten(t)'
        BY <2>4, <2>6 DEF AuditWritten
      <3> QED BY <1>5, <2>3, <2>4, <2>5, <2>6, <3>1
    <2>7. CASE job'[t] = NoJob /\ pc'[t] = "idle" /\ job[t].op = "delete_history"
      <3>1. MarksNothing(t)' /\ AuditWritten(t)' /\ PurgePending(t)' /\ RangePending(t)'
        BY <2>7 DEF MarksNothing, AuditWritten, PurgePending, RangePending, NoJob, PurgeOp, Busy
      <3>2. \/ durable' = visible'
            \/ GoneBy(durable, id) = {}
            \/ id \in split
        BY <1>4, <2>5, <2>7 DEF RangePending
      <3>3. /\ Audited(visible', job[t].call)
            /\ \/ durable' = visible'
               \/ GoneBy(durable, job[t].call) = {}
               \/ job[t].call \in split
        BY <2>4, <3>2
      <3>4. durable' = durable \/ (durable' = visible' /\ ~ txn)
        BY <2>5
      <3> HIDE DEF id, entry
      <3> QED BY <1>1, <1>2, <1>3, <2>3, <2>4, <2>5, <3>1, <3>3, <3>4, RecordKept
    <2> QED BY <2>1, <2>6, <2>7
  <1> QED BY <1>6, <1>7, <1>8, <1>9, <1>10 DEF Step

\* After a crash nobody is under way: an undivided purge has left nothing on disk,
\* and a delete_history cut short is remembered as divided.
LEMMA RecordCrash ==
  ASSUME TypeInv, CallsInv, RecordInv, Crash
  PROVE  RecordInv'
  <1>1. /\ visible' = durable /\ durable' = durable /\ txn' = FALSE
        /\ miscounted' = miscounted /\ split' = split \cup CallsOf(Deleting)
        /\ \A t \in Threads : pc'[t] = "idle" /\ job'[t] = NoJob
    BY DEF Crash
  <1>2. Accounted(durable)'
    <2> SUFFICES ASSUME NEW g \in durable.gone, ~ Audited(durable, g.call),
                        g.call \notin split' \cup miscounted
                 PROVE  FALSE
      BY <1>1 DEF Accounted, Audited
    <2>1. PICK t \in Threads : job[t].call = g.call
      BY <1>1 DEF RecordInv, Accounted
    <2>2. GoneBy(durable, job[t].call) # {}
      BY <2>1 DEF GoneBy
    <2>3. Busy(t)
      BY <2>1 DEF CallsInv, CallsMade, NoJob, TypeInv, StateOK
    <2>4. job[t].op # "delete_history"
      BY <1>1, <2>1 DEF CallsOf, Deleting
    <2>5. job[t].op \notin PurgeOp
      BY <1>1, <2>1, <2>2 DEF RecordInv, PurgePending
    <2> QED BY <2>2, <2>3, <2>4, <2>5 DEF RecordInv, MarksNothing, Deletes
  <1>3. Accounted(visible)'
    BY <1>1, <1>2 DEF Accounted, Audited
  <1>4. ASSUME NEW t \in Threads
        PROVE  MarksNothing(t)' /\ AuditWritten(t)' /\ PurgePending(t)' /\ RangePending(t)'
    BY <1>1 DEF MarksNothing, AuditWritten, PurgePending, RangePending, NoJob, PurgeOp, Busy
  <1> QED BY <1>2, <1>3, <1>4 DEF RecordInv

LEMMA InitRecord == Init => RecordInv
  BY DEF Init, RecordInv, Accounted, Empty, MarksNothing, AuditWritten, PurgePending,
         RangePending, NoJob, PurgeOp, Busy

LEMMA NextRecord ==
  TypeInv /\ AckInv /\ CallsInv /\ CountInv /\ RecordInv /\ [Next]_vars => RecordInv'
  <1> SUFFICES ASSUME TypeInv, AckInv, CallsInv, CountInv, RecordInv, [Next]_vars
               PROVE  RecordInv'
    OBVIOUS
  <1>1. CASE UNCHANGED vars
    <2>1. UNCHANGED <<visible, durable, txn, split, miscounted, pc, job>>
      BY <1>1 DEF vars, met
    <2>2. Accounted(visible)' /\ Accounted(durable)'
      BY <2>1 DEF RecordInv, Accounted, Audited
    <2>3. ASSUME NEW t \in Threads
          PROVE  MarksNothing(t)' /\ AuditWritten(t)' /\ PurgePending(t)' /\ RangePending(t)'
      <3>1. MarksNothing(t) /\ AuditWritten(t) /\ PurgePending(t) /\ RangePending(t)
        BY DEF RecordInv
      <3>2. MarksNothing(t)' /\ AuditWritten(t)'
        BY <2>1, <3>1 DEF MarksNothing, AuditWritten, Audited, GoneBy, Busy, Deletes
      <3>3. PurgePending(t)' /\ RangePending(t)'
        BY <2>1, <3>1 DEF PurgePending, RangePending, GoneBy
      <3> QED BY <3>2, <3>3
    <2> QED BY <2>2, <2>3 DEF RecordInv
  <1>2. CASE Crash
    BY <1>2, RecordCrash
  <1>3. ASSUME NEW t \in Threads, Call(t) PROVE RecordInv'
    BY <1>3, RecordCall
  <1>4. ASSUME NEW t \in Threads, Step(t) PROVE RecordInv'
    BY <1>4, RecordStep
  <1> QED BY <1>1, <1>2, <1>3, <1>4 DEF Next

\* docs/api-reference.md:406: all deletions are recorded, whatever runs beside them
\* and wherever a crash falls, but for the calls that the histories name.
THEOREM DeletionsAreAudited == Spec => []DeletionsAudited
  <1>1. RecordInv => DeletionsAudited
    BY DEF RecordInv, Accounted, Audited, DeletionsAudited
  <1> QED BY <1>1, InitRecord, NextRecord, InitCount, NextCount, InitCalls, NextCalls,
             InitErased, NextErased, InitAckInv, NextAckInv, Typing, PTL DEF Spec

-----------------------------------------------------------------------------
(* A call that meets no other takes effect as a whole or not at all.  The  *)
(* promise speaks of the same tables, rows and statements.                 *)

LEMMA SameRows ==
  /\ Promise!BatchOp = BatchOp /\ Promise!RowOp = RowOp /\ Promise!TableOf = TableOf
  /\ Promise!RetentionTables = RetentionTables
  /\ \A op, ts, id : Promise!Batch(op, ts, id) = Batch(op, ts, id)
  /\ \A new, old : Promise!Replaces(new, old) <=> Replaces(new, old)
  /\ \A d, row : Promise!Put(d, row) = Put(d, row)
  /\ \A doomed, id : Promise!Delete(doomed, id)
       <=> durable' = Log(Erase(durable, doomed, id), id, Cardinality(doomed))
  <1>1. /\ Promise!BatchOp = BatchOp
        /\ Promise!RowOp = RowOp /\ Promise!TableOf = TableOf
        /\ Promise!RetentionTables = RetentionTables
    BY DEF Promise!BatchOp, BatchOp, Promise!RowOp, RowOp,
           Promise!TableOf, TableOf, Promise!RetentionTables, RetentionTables,
           Promise!HistoryTables, HistoryTables
  <1>2. \A op, ts, id : Promise!Batch(op, ts, id) = Batch(op, ts, id)
    BY <1>1 DEF Promise!Batch, Batch
  <1>3. \A new, old : Promise!Replaces(new, old) <=> Replaces(new, old)
    BY DEF Promise!Replaces, Replaces
  <1>4. \A d, row : Promise!Put(d, row) = Put(d, row)
    BY DEF Promise!Put, Put, Promise!Replaces, Replaces
  <1>5. \A doomed, id : Promise!Delete(doomed, id)
       <=> durable' = Log(Erase(durable, doomed, id), id, Cardinality(doomed))
    <2>1. \A d, doomed, id : Promise!Erase(d, doomed, id) = Erase(d, doomed, id)
      BY DEF Promise!Erase, Erase
    <2>2. \A d, id, n : Promise!Log(d, id, n) = Log(d, id, n)
      BY DEF Promise!Log, Log
    <2>3. \A S : Promise!Cardinality(S) = Cardinality(S)
      BY DEF Promise!Cardinality, Cardinality
    <2> QED BY <2>1, <2>2, <2>3 DEF Promise!Delete
  <1> QED BY <1>1, <1>2, <1>3, <1>4, <1>5

-----------------------------------------------------------------------------
(* Deleting table by table is deleting once.                               *)

\* The rows that a purge deletes from its first n tables.
SweptOf(rows, op, n, cutoff) ==
  UNION {Purged(rows, op, PurgeOrder(op)[i], cutoff) : i \in 1..n}
Swept(t) == SweptOf(durable.rows, job[t].op, job[t].at - 1, job[t].cutoff)

LEMMA EraseNothing ==
  ASSUME NEW d \in Database, NEW id
  PROVE  Erase(d, {}, id) = d
  <1> DEFINE marks == {[call |-> id, row |-> r] : r \in {}}
  <1>1. marks = {}
    OBVIOUS
  <1>2. Erase(d, {}, id) = [rows |-> d.rows \ {}, audit |-> d.audit, gone |-> d.gone \cup marks]
    BY DEF Erase
  <1> HIDE DEF marks
  <1> QED BY <1>1, <1>2 DEF Database

LEMMA EraseTwice ==
  ASSUME NEW d, NEW first, NEW second, NEW id
  PROVE  Erase(Erase(d, first, id), second, id) = Erase(d, first \cup second, id)
  <1> DEFINE Marks(doomed) == {[call |-> id, row |-> r] : r \in doomed}
  <1>1. \A doomed, e : Erase(e, doomed, id)
          = [rows |-> e.rows \ doomed, audit |-> e.audit, gone |-> e.gone \cup Marks(doomed)]
    BY DEF Erase
  <1>2. Marks(first \cup second) = Marks(first) \cup Marks(second)
    OBVIOUS
  <1>3. (d.rows \ first) \ second = d.rows \ (first \cup second)
    OBVIOUS
  <1> HIDE DEF Marks
  <1>4. (d.gone \cup Marks(first)) \cup Marks(second) = d.gone \cup Marks(first \cup second)
    BY <1>2
  <1>5. Erase(Erase(d, first, id), second, id)
          = [rows |-> (d.rows \ first) \ second, audit |-> d.audit,
             gone |-> (d.gone \cup Marks(first)) \cup Marks(second)]
    BY <1>1
  <1> QED BY <1>1, <1>3, <1>4, <1>5

LEMMA PurgeOrderTables ==
  ASSUME NEW op \in PurgeOp
  PROVE  /\ Len(PurgeOrder(op)) \in Nat \ {0}
         /\ {PurgeOrder(op)[i] : i \in 1..Len(PurgeOrder(op))}
              = IF op = "delete_all_history" THEN Tables \ {"metric_registry"}
                ELSE RetentionTables
  <1>1. CASE op = "delete_all_history"
    <2> DEFINE q == PurgeOrder(op)
    <2>1. q = <<"metric_1m", "metric_15m", "metric_current", "energy_daily", "events">>
      BY <1>1 DEF PurgeOrder
    <2>2. Len(q) = 5
      BY <2>1
    <2>3. /\ q[1] = "metric_1m" /\ q[2] = "metric_15m" /\ q[3] = "metric_current"
          /\ q[4] = "energy_daily" /\ q[5] = "events"
      BY <2>1
    <2> HIDE DEF q
    <2>4. {q[i] : i \in 1..Len(q)} = {q[1], q[2], q[3], q[4], q[5]}
      <3>1. 1..Len(q) = {1, 2, 3, 4, 5}
        BY <2>2
      <3> QED BY <3>1, Zenon
    <2>5. {q[i] : i \in 1..Len(q)} = IF op = "delete_all_history" THEN Tables \ {"metric_registry"}
                                     ELSE RetentionTables
      BY <1>1, <2>3, <2>4 DEF Tables, RetentionTables, HistoryTables
    <2> QED BY <2>2, <2>5 DEF q
  <1>2. CASE op = "cleanup_expired"
    <2> DEFINE q == PurgeOrder(op)
    <2>1. q = <<"metric_1m", "metric_15m", "events", "energy_daily">>
      BY <1>2 DEF PurgeOrder
    <2>2. Len(q) = 4
      BY <2>1
    <2>3. /\ q[1] = "metric_1m" /\ q[2] = "metric_15m"
          /\ q[3] = "events" /\ q[4] = "energy_daily"
      BY <2>1
    <2> HIDE DEF q
    <2>4. {q[i] : i \in 1..Len(q)} = {q[1], q[2], q[3], q[4]}
      <3>1. 1..Len(q) = {1, 2, 3, 4}
        BY <2>2
      <3> QED BY <3>1, Zenon
    <2>5. {q[i] : i \in 1..Len(q)} = IF op = "delete_all_history" THEN Tables \ {"metric_registry"}
                                     ELSE RetentionTables
      BY <1>2, <2>3, <2>4 DEF Tables, RetentionTables, HistoryTables
    <2> QED BY <2>2, <2>5 DEF q
  <1> QED BY <1>1, <1>2 DEF PurgeOp

\* The rows that the DELETE of one more table finds are the ones not swept yet.
LEMMA SweepTable ==
  ASSUME NEW rows, NEW op, NEW n \in Nat \ {0}, NEW cutoff
  PROVE  LET swept == SweptOf(rows, op, n - 1, cutoff)
             doomed == Purged(rows \ swept, op, PurgeOrder(op)[n], cutoff)
         IN  /\ swept \cup doomed = SweptOf(rows, op, n, cutoff)
             /\ swept \cap doomed = {}
  <1> DEFINE swept == SweptOf(rows, op, n - 1, cutoff)
             doomed == Purged(rows \ swept, op, PurgeOrder(op)[n], cutoff)
             all == Purged(rows, op, PurgeOrder(op)[n], cutoff)
  <1>1. doomed = all \ swept
    BY DEF Purged
  <1>2. 1..n = (1..(n - 1)) \cup {n}
    OBVIOUS
  <1>3. SweptOf(rows, op, n, cutoff) = swept \cup all
    BY <1>2 DEF SweptOf
  <1> HIDE DEF swept, doomed, all
  <1>4. swept \cup doomed = SweptOf(rows, op, n, cutoff) /\ swept \cap doomed = {}
    BY <1>1, <1>3
  <1> QED BY <1>4 DEF swept, doomed

LEMMA SweepNothing ==
  ASSUME NEW rows, NEW op, NEW cutoff
  PROVE  SweptOf(rows, op, 0, cutoff) = {}
  <1>1. 1..0 = {}
    OBVIOUS
  <1> QED BY <1>1 DEF SweptOf

LEMMA SweepRows ==
  ASSUME NEW rows, NEW op, NEW n, NEW cutoff
  PROVE  SweptOf(rows, op, n, cutoff) \subseteq rows
  BY DEF SweptOf, Purged

\* All tables swept: what the promise deletes at once.
LEMMA SweepAll ==
  ASSUME NEW rows \in SUBSET Row, NEW op \in PurgeOp, NEW cutoff
  PROVE  SweptOf(rows, op, Len(PurgeOrder(op)), cutoff)
           = IF op = "delete_all_history" THEN {r \in rows : r.table # "metric_registry"}
             ELSE {r \in rows : r.table \in RetentionTables /\ r.ts < cutoff[r.table]}
  <1> DEFINE tables == {PurgeOrder(op)[i] : i \in 1..Len(PurgeOrder(op))}
  <1>1. \A r : r \in SweptOf(rows, op, Len(PurgeOrder(op)), cutoff)
          <=> r \in rows /\ r.table \in tables /\ (op = "cleanup_expired" => r.ts < cutoff[r.table])
    BY DEF SweptOf, Purged
  <1>2. tables = IF op = "delete_all_history" THEN Tables \ {"metric_registry"} ELSE RetentionTables
    BY PurgeOrderTables
  <1> HIDE DEF tables
  <1>3. \A r \in rows : r.table \in Tables
    BY DEF Row
  <1>4. CASE op = "delete_all_history"
    BY <1>1, <1>2, <1>3, <1>4
  <1>5. CASE op = "cleanup_expired"
    BY <1>1, <1>2, <1>3, <1>5
  <1> QED BY <1>4, <1>5 DEF PurgeOp

-----------------------------------------------------------------------------
(* The inductive invariant: while a call meets no other, the open          *)
(* transaction is its own, and holds what it has done so far and nothing   *)
(* else; delete_history, which opens none, runs in autocommit.             *)

\* The rows that a batch has put so far.
Done(t) == job[t].batch \ job[t].todo

Writing(t) ==
  /\ txn /\ pc[t] \in {"rows", "commit"}
  /\ job[t].op \in BatchOp
  /\ \E ts \in Times : job[t].batch = Batch(job[t].op, ts, job[t].call)
  /\ job[t].todo \subseteq job[t].batch
  /\ pc[t] = "commit" => job[t].todo = {}
  /\ visible = [durable EXCEPT !.rows =
                  {r \in @ : \A new \in Done(t) : ~ Replaces(new, r)} \cup Done(t)]

\* The purge writes an audit row.
ToRecord(t) == job[t].op # "cleanup_expired" \/ job[t].total > 0

Purging(t) ==
  /\ txn /\ pc[t] \in {"purge", "count", "audit", "commit"}
  /\ job[t].op \in PurgeOp
  /\ job[t].at \in 1..Len(PurgeOrder(job[t].op)) + 1
  /\ pc[t] = "purge" => job[t].at <= Len(PurgeOrder(job[t].op))
  /\ pc[t] \in {"audit", "commit"} => job[t].at = Len(PurgeOrder(job[t].op)) + 1
  /\ pc[t] = "audit" => ToRecord(t)
  /\ pc[t] # "count" => job[t].total = Cardinality(Swept(t))
  /\ pc[t] = "count" => job[t].total + changes = Cardinality(Swept(t))
  /\ visible = IF pc[t] = "commit" /\ ToRecord(t)
               THEN Log(Erase(durable, Swept(t), job[t].call), job[t].call, Cardinality(Swept(t)))
               ELSE Erase(durable, Swept(t), job[t].call)

Ranging(t) == ~ txn /\ pc[t] \in {"count", "audit"} /\ job[t].op = "delete_history"

Alone(t) == Busy(t) /\ job[t].call \notin shared

AloneInv ==
  \A t \in Threads : Alone(t) =>
    /\ \A u \in Threads : u # t => ~ Busy(u)
    /\ job[t].call \notin miscounted
    /\ Writing(t) \/ Purging(t) \/ Ranging(t)

-----------------------------------------------------------------------------
(* How such a call begins.                                                 *)

\* Nothing is under way: autocommit, and everything is on disk.
LEMMA QuietConnection ==
  ASSUME OpenTxnHasOwner, AckInv, \A u \in Threads : ~ Busy(u)
  PROVE  ~ txn /\ visible = durable
  BY DEF OpenTxnHasOwner, InTransaction, Busy, AckInv, AutocommitDurable

LEMMA BatchBegun ==
  ASSUME TypeInv, visible = durable, NEW t \in Threads,
         NEW op \in BatchOp, NEW ts \in Times, BatchBegin(t, op, ts)
  PROVE  Writing(t)'
  <1> DEFINE batch == Batch(op, ts, calls + 1)
  <1>1. /\ UNCHANGED <<visible, durable>> /\ txn' = TRUE
        /\ job' = [job EXCEPT ![t] = NewJob(op, batch, NoCutoff)]
        /\ pc' = [pc EXCEPT ![t] = "rows"]
    BY DEF BatchBegin, Begin, Goto
  <1>2. /\ job'[t].op = op /\ job'[t].batch = batch /\ job'[t].todo = batch
        /\ job'[t].call = calls + 1 /\ pc'[t] = "rows"
    BY <1>1 DEF NewJob, TypeInv, StateOK
  <1>3. Done(t)' = {}
    BY <1>2 DEF Done
  <1>4. visible' = [durable' EXCEPT !.rows =
                      {r \in @ : \A new \in Done(t)' : ~ Replaces(new, r)} \cup Done(t)']
    BY <1>1, <1>3 DEF TypeInv, StateOK, Database
  <1> QED BY <1>1, <1>2, <1>4 DEF Writing

LEMMA PurgeBegun ==
  ASSUME TypeInv, visible = durable, NEW t \in Threads,
         NEW op \in PurgeOp, NEW cutoff, PurgeBegin(t, op, cutoff)
  PROVE  Purging(t)'
  <1>1. /\ UNCHANGED <<visible, durable>> /\ txn' = TRUE
        /\ job' = [job EXCEPT ![t] = NewJob(op, {}, cutoff)]
        /\ pc' = [pc EXCEPT ![t] = "purge"]
    BY DEF PurgeBegin, Begin, Goto
  <1>2. /\ job'[t].op = op /\ job'[t].cutoff = cutoff /\ job'[t].at = 1
        /\ job'[t].total = 0 /\ pc'[t] = "purge"
    BY <1>1 DEF NewJob, TypeInv, StateOK
  <1>3. Swept(t)' = {}
    BY <1>2, SweepNothing DEF Swept
  <1>4. visible' = Erase(durable', Swept(t)', job'[t].call)
    BY <1>1, <1>3, EraseNothing DEF TypeInv, StateOK
  <1>5. 1 \in 1..Len(PurgeOrder(op)) + 1 /\ 1 <= Len(PurgeOrder(op))
    BY PurgeOrderTables
  <1>6. Cardinality(Swept(t)') = 0
    BY <1>3, FS_EmptySet
  <1> QED BY <1>1, <1>2, <1>4, <1>5, <1>6 DEF Purging

LEMMA RangeBegun ==
  ASSUME TypeInv, ~ txn, visible = durable, NEW t \in Threads,
         NEW table \in HistoryTables, NEW lo \in Times, NEW hi \in Times,
         DeleteHistory(t, table, lo, hi)
  PROVE  Ranging(t)' /\ DeletesThenRecords(t)
  <1>1. /\ durable' = Erase(durable, InRange(durable.rows, table, lo, hi), calls')
        /\ txn' = txn
    BY DEF DeleteHistory, Enter, Execute
  <1>2. pc'[t] = "count" /\ job'[t].op = "delete_history"
    BY DEF DeleteHistory, Goto, NewJob, TypeInv, StateOK
  <1> QED BY <1>1, <1>2 DEF Ranging, DeletesThenRecords

\* write_energy_daily, write_event, write_metric_info: one statement in autocommit.
LEMMA RowTakesEffect ==
  ASSUME TypeInv, ~ txn, visible = durable, NEW t \in Threads,
         NEW op \in RowOp, NEW ts \in Times, NEW key \in Keys, WriteRow(t, op, ts, key)
  PROVE  TakesEffect(t)
  <1> DEFINE row == [table |-> TableOf[op], ts |-> ts, key |-> key, call |-> calls']
  <1>1. durable' = Put(durable, row) /\ pc[t] = "idle" /\ op \in Calls[t]
    BY DEF WriteRow, Enter, Execute
  <1>2. Promise!WriteRow(op, ts, key, calls')
    BY <1>1, SameRows DEF Promise!WriteRow
  <1> QED BY <1>1, <1>2 DEF TakesEffect

-----------------------------------------------------------------------------
(* How it goes on: the rows of a batch and the tables of a purge are       *)
(* stutters up to the COMMIT.                                              *)

LEMMA WriterRow ==
  ASSUME TypeInv, NEW t \in Threads, Writing(t), BatchRow(t)
  PROVE  Writing(t)' /\ UNCHANGED durable
  <1>1. PICK row \in job[t].todo :
          /\ Execute(t, Put(visible, row), 1)
          /\ job' = [job EXCEPT ![t].todo = @ \ {row}]
          /\ pc' = [pc EXCEPT ![t] = IF job[t].todo = {row} THEN "commit" ELSE "rows"]
    BY DEF BatchRow, Goto
  <1>2. /\ txn /\ job[t].op \in BatchOp
        /\ job[t].todo \subseteq job[t].batch
        /\ visible = [durable EXCEPT !.rows =
                        {r \in @ : \A new \in Done(t) : ~ Replaces(new, r)} \cup Done(t)]
    BY DEF Writing
  <1>3. PICK ts \in Times : job[t].batch = Batch(job[t].op, ts, job[t].call)
    BY DEF Writing
  <1>4. durable' = durable /\ txn' /\ visible' = Put(visible, row)
    BY <1>1, <1>2 DEF Execute
  <1>5. /\ job'[t].op = job[t].op /\ job'[t].batch = job[t].batch
        /\ job'[t].call = job[t].call /\ job'[t].todo = job[t].todo \ {row}
        /\ pc'[t] \in {"rows", "commit"}
        /\ pc'[t] = "commit" => job'[t].todo = {}
    BY <1>1 DEF TypeInv, StateOK, Job
  <1>6. Done(t)' = Done(t) \cup {row}
    BY <1>1, <1>2, <1>5 DEF Done
  <1>7. \A r \in Done(t) : ~ Replaces(row, r)
    <2>1. \A r \in Done(t) : r \in job[t].batch /\ row \in job[t].batch /\ r # row
      BY <1>1, <1>2 DEF Done
    <2> QED BY <1>2, <1>3, <2>1, BatchRowsDistinct
  <1>8. visible' = [durable' EXCEPT !.rows =
                      {r \in @ : \A new \in Done(t)' : ~ Replaces(new, r)} \cup Done(t)']
    <2>1. visible.rows = {r \in durable.rows : \A new \in Done(t) : ~ Replaces(new, r)} \cup Done(t)
      BY <1>2 DEF TypeInv, StateOK, Database
    <2>2. {r \in visible.rows : ~ Replaces(row, r)} \cup {row}
            = {r \in durable.rows : \A new \in Done(t)' : ~ Replaces(new, r)} \cup Done(t)'
      BY <1>6, <1>7, <2>1
    <2>3. visible' = [durable EXCEPT !.rows = {r \in visible.rows : ~ Replaces(row, r)} \cup {row}]
      BY <1>2, <1>4 DEF Put, TypeInv, StateOK, Database
    <2> QED BY <1>4, <2>2, <2>3
  <1> QED BY <1>2, <1>3, <1>4, <1>5, <1>8 DEF Writing

\* The COMMIT of a batch is the promised write.
LEMMA WriterCommit ==
  ASSUME NEW t \in Threads, Writing(t), BatchCommit(t)
  PROVE  TakesEffect(t)
  <1>1. pc[t] = "commit"
    BY DEF BatchCommit
  <1>2. /\ txn /\ job[t].op \in BatchOp /\ job[t].todo = {}
        /\ visible = [durable EXCEPT !.rows =
                        {r \in @ : \A new \in Done(t) : ~ Replaces(new, r)} \cup Done(t)]
    BY <1>1 DEF Writing
  <1>3. PICK ts \in Times : job[t].batch = Batch(job[t].op, ts, job[t].call)
    BY DEF Writing
  <1>4. durable' = visible
    BY <1>2 DEF BatchCommit, Commit
  <1>5. Promise!Batch(job[t].op, ts, job[t].call) = Done(t)
    BY <1>2, <1>3, SameRows DEF Done
  <1>6. \A r : (\A new \in Done(t) : ~ Promise!Replaces(new, r))
                 <=> \A new \in Done(t) : ~ Replaces(new, r)
    BY SameRows
  <1>7. durable' = [durable EXCEPT !.rows =
                      {r \in @ : \A new \in Done(t) : ~ Promise!Replaces(new, r)} \cup Done(t)]
    BY <1>2, <1>4, <1>6
  <1>8. Promise!WriteBatch(job[t].op, ts, job[t].call)
    BY <1>5, <1>7 DEF Promise!WriteBatch
  <1> QED BY <1>2, <1>8 DEF TakesEffect

\* DELETE FROM the next table.
LEMMA PurgeTableStep ==
  ASSUME TypeInv, NEW t \in Threads, Purging(t), PurgeTable(t)
  PROVE  Purging(t)' /\ UNCHANGED durable
  <1> DEFINE op == job[t].op
             at == job[t].at
             swept == Swept(t)
             doomed == Doomed(t)
  <1>1. /\ pc[t] = "purge"
        /\ Execute(t, Erase(visible, doomed, job[t].call), Cardinality(doomed))
        /\ job' = [job EXCEPT ![t].at = @ + 1] /\ pc' = [pc EXCEPT ![t] = "count"]
    BY DEF PurgeTable, Goto
  <1>2. /\ txn /\ op \in PurgeOp
        /\ at \in 1..Len(PurgeOrder(op)) /\ job[t].total = Cardinality(swept)
        /\ visible = Erase(durable, swept, job[t].call)
    BY <1>1, PurgeOrderTables DEF Purging
  <1>3. /\ pc'[t] = "count" /\ job'[t].op = op /\ job'[t].call = job[t].call
        /\ job'[t].cutoff = job[t].cutoff /\ job'[t].total = job[t].total
        /\ job'[t].at = at + 1
    BY <1>1 DEF TypeInv, StateOK, Job
  <1>4. durable' = durable /\ txn' = txn /\ changes' = Cardinality(doomed)
        /\ visible' = Erase(visible, doomed, job[t].call)
    BY <1>1, <1>2 DEF Execute
  <1>5. visible.rows = durable.rows \ swept
    BY <1>2 DEF Erase
  <1>6. swept \cup doomed = Swept(t)' /\ swept \cap doomed = {}
    <2>1. doomed = Purged(durable.rows \ swept, op, PurgeOrder(op)[at], job[t].cutoff)
      BY <1>5 DEF Doomed, PurgeTarget
    <2>2. swept = SweptOf(durable.rows, op, at - 1, job[t].cutoff)
      BY DEF Swept
    <2>3. at \in Nat \ {0} /\ (at + 1) - 1 = at
      BY <1>2, PurgeOrderTables
    <2>4. Swept(t)' = SweptOf(durable.rows, op, at, job[t].cutoff)
      BY <1>3, <1>4, <2>3 DEF Swept
    <2> HIDE DEF op, at, swept, doomed
    <2> QED BY <2>1, <2>2, <2>3, <2>4, SweepTable
  <1>7. visible' = Erase(durable', Swept(t)', job[t].call)
    BY <1>2, <1>4, <1>6, EraseTwice
  <1>8. job[t].total + changes' = Cardinality(Swept(t)')
    <2>1. IsFiniteSet(swept) /\ IsFiniteSet(doomed)
      <3>1. swept \subseteq durable.rows
        BY SweepRows DEF Swept
      <3>2. doomed \subseteq visible.rows
        BY DEF Doomed, Purged
      <3> HIDE DEF swept, doomed
      <3> QED BY <3>1, <3>2, FS_Subset DEF TypeInv, StateOK
    <2> HIDE DEF swept, doomed
    <2>2. Cardinality(swept \cup doomed)
            = Cardinality(swept) + Cardinality(doomed) - Cardinality(swept \cap doomed)
      BY <2>1, FS_Union
    <2>3. Cardinality(swept \cap doomed) = 0
      BY <1>6, FS_EmptySet
    <2>4. Cardinality(swept) \in Nat /\ Cardinality(doomed) \in Nat
      BY <2>1, FS_CardinalityType
    <2>5. Cardinality(Swept(t)') = Cardinality(swept \cup doomed)
      BY <1>6
    <2>6. job[t].total = Cardinality(swept) /\ changes' = Cardinality(doomed)
      BY <1>2, <1>4
    <2> QED BY <2>2, <2>3, <2>4, <2>5, <2>6
  <1>9. at + 1 \in 1..Len(PurgeOrder(op)) + 1
    BY <1>2, PurgeOrderTables
  <1>10. Purging(t)'
    <2> HIDE DEF swept, doomed
    <2> QED BY <1>2, <1>3, <1>4, <1>7, <1>8, <1>9 DEF Purging
  <1> QED BY <1>4, <1>10

\* Where the next step is: the next table, the audit row or the COMMIT.
LEMMA AfterTablePurging ==
  ASSUME NEW t \in Threads, job[t].op \in PurgeOp, NEW total,
         NEW at \in 1..Len(PurgeOrder(job[t].op)) + 1
  PROVE  LET label == AfterTable(t, at, total)
             record == job[t].op # "cleanup_expired" \/ total > 0
         IN  /\ label \in {"purge", "audit", "commit"}
             /\ label = "purge" => at <= Len(PurgeOrder(job[t].op))
             /\ label \in {"audit", "commit"} => at = Len(PurgeOrder(job[t].op)) + 1
             /\ label = "audit" => record
             /\ label = "commit" => ~ record
  BY PurgeOrderTables DEF AfterTable

\* purge_table skips a table without retention: it would delete nothing.
LEMMA PurgeSkipStep ==
  ASSUME TypeInv, NEW t \in Threads, Purging(t), PurgeSkip(t)
  PROVE  Purging(t)' /\ UNCHANGED durable
  <1> DEFINE op == job[t].op
             at == job[t].at
             label == AfterTable(t, at + 1, job[t].total)
  <1>1. /\ pc[t] = "purge" /\ Disabled(t)
        /\ job' = [job EXCEPT ![t].at = @ + 1] /\ pc' = [pc EXCEPT ![t] = label]
        /\ UNCHANGED <<visible, durable, txn, changes>>
    BY DEF PurgeSkip, Goto
  <1>2. /\ txn /\ op \in PurgeOp
        /\ at \in 1..Len(PurgeOrder(op)) /\ job[t].total = Cardinality(Swept(t))
        /\ visible = Erase(durable, Swept(t), job[t].call)
    BY <1>1, PurgeOrderTables DEF Purging
  <1>3. /\ pc'[t] = label /\ job'[t].op = op /\ job'[t].call = job[t].call
        /\ job'[t].cutoff = job[t].cutoff /\ job'[t].total = job[t].total
        /\ job'[t].at = at + 1
    BY <1>1 DEF TypeInv, StateOK, Job
  <1>4. at + 1 \in 1..Len(PurgeOrder(op)) + 1
    BY <1>2, PurgeOrderTables
  <1>5. /\ label \in {"purge", "audit", "commit"}
        /\ label = "purge" => at + 1 <= Len(PurgeOrder(op))
        /\ label \in {"audit", "commit"} => at + 1 = Len(PurgeOrder(op)) + 1
        /\ label = "audit" => ToRecord(t)
        /\ label = "commit" => ~ ToRecord(t)
    BY <1>2, <1>4, AfterTablePurging DEF ToRecord
  <1>6. Swept(t)' = Swept(t)
    <2> DEFINE doomed == Purged(durable.rows \ Swept(t), op, PurgeOrder(op)[at], job[t].cutoff)
    <2>1. op = "cleanup_expired" /\ job[t].cutoff[PurgeOrder(op)[at]] = 0
      BY <1>1 DEF Disabled, PurgeTarget
    <2>2. \A r \in durable.rows : r.ts \in Nat
      BY RowsAssumption DEF TypeInv, StateOK, Database, Row
    <2>3. doomed = {}
      BY <2>1, <2>2 DEF Purged
    <2>4. at \in Nat \ {0} /\ (at + 1) - 1 = at
      BY <1>2, PurgeOrderTables
    <2>5. Swept(t)' = SweptOf(durable.rows, op, at, job[t].cutoff)
      BY <1>1, <1>3, <2>4 DEF Swept
    <2>6. Swept(t) \cup doomed = SweptOf(durable.rows, op, at, job[t].cutoff)
      BY <2>4, SweepTable DEF Swept
    <2> QED BY <2>3, <2>5, <2>6
  <1>7. ToRecord(t)' = ToRecord(t)
    BY <1>3 DEF ToRecord
  <1>8. Purging(t)'
    <2> HIDE DEF label
    <2> QED BY <1>1, <1>2, <1>3, <1>4, <1>5, <1>6, <1>7 DEF Purging
  <1> QED BY <1>1, <1>8

\* sqlite3_changes() is still that of the purge's own DELETE.
LEMMA PurgeCountStep ==
  ASSUME TypeInv, NEW t \in Threads, Purging(t), CountChanges(t)
  PROVE  Purging(t)' /\ UNCHANGED durable
  <1> DEFINE op == job[t].op
             total == job[t].total + changes
             label == AfterTable(t, job[t].at, total)
  <1>1. /\ pc[t] = "count"
        /\ job' = [job EXCEPT ![t].total = @ + changes] /\ pc' = [pc EXCEPT ![t] = label]
        /\ UNCHANGED <<visible, durable, txn, changes>>
    BY DEF CountChanges, Goto
  <1>2. /\ txn /\ op \in PurgeOp
        /\ job[t].at \in 1..Len(PurgeOrder(op)) + 1 /\ total = Cardinality(Swept(t))
        /\ visible = Erase(durable, Swept(t), job[t].call)
    BY <1>1 DEF Purging
  <1>3. /\ pc'[t] = label /\ job'[t].op = op /\ job'[t].call = job[t].call
        /\ job'[t].cutoff = job[t].cutoff /\ job'[t].total = total
        /\ job'[t].at = job[t].at
    BY <1>1 DEF TypeInv, StateOK, Job
  <1>4. ToRecord(t)' <=> op # "cleanup_expired" \/ total > 0
    BY <1>3 DEF ToRecord
  <1>5. /\ label \in {"purge", "audit", "commit"}
        /\ label = "purge" => job[t].at <= Len(PurgeOrder(op))
        /\ label \in {"audit", "commit"} => job[t].at = Len(PurgeOrder(op)) + 1
        /\ label = "audit" => ToRecord(t)'
        /\ label = "commit" => ~ ToRecord(t)'
    BY <1>2, <1>4, AfterTablePurging
  <1>6. Swept(t)' = Swept(t)
    BY <1>1, <1>3 DEF Swept
  <1>7. Purging(t)'
    <2> HIDE DEF label, total
    <2> QED BY <1>1, <1>2, <1>3, <1>5, <1>6 DEF Purging
  <1> QED BY <1>1, <1>7

\* INSERT INTO deletions_audit.
LEMMA PurgeAuditStep ==
  ASSUME TypeInv, NEW t \in Threads, Purging(t), WriteAudit(t)
  PROVE  Purging(t)' /\ UNCHANGED durable
  <1>1. pc[t] = "audit" /\ Execute(t, Log(visible, job[t].call, job[t].total), 1)
    BY DEF WriteAudit
  <1>2. /\ job[t].op \in PurgeOp /\ txn
        /\ job[t].total = Cardinality(Swept(t)) /\ ToRecord(t)
        /\ visible = Erase(durable, Swept(t), job[t].call)
    BY <1>1 DEF Purging
  <1>3. pc' = [pc EXCEPT ![t] = "commit"] /\ job' = job
    BY <1>2 DEF WriteAudit, Goto, PurgeOp
  <1>4. pc'[t] = "commit"
    BY <1>3 DEF TypeInv, StateOK
  <1>5. /\ durable' = durable /\ txn' = txn
        /\ visible' = Log(Erase(durable, Swept(t), job[t].call), job[t].call, Cardinality(Swept(t)))
    BY <1>1, <1>2 DEF Execute
  <1>6. Swept(t)' = Swept(t) /\ ToRecord(t)'
    BY <1>2, <1>3, <1>5 DEF Swept, ToRecord
  <1>7. Purging(t)'
    BY <1>1, <1>2, <1>3, <1>4, <1>5, <1>6 DEF Purging
  <1> QED BY <1>5, <1>7

\* The COMMIT of a purge is the promised deletion, with its record.
LEMMA PurgeCommitStep ==
  ASSUME TypeInv, NEW t \in Threads, Purging(t), PurgeCommit(t)
  PROVE  TakesEffect(t) \/ UNCHANGED durable
  <1> DEFINE op == job[t].op
             id == job[t].call
             swept == Swept(t)
  <1>1. pc[t] = "commit" /\ op \in PurgeOp
    BY DEF PurgeCommit
  <1>2. /\ txn /\ job[t].at = Len(PurgeOrder(op)) + 1 /\ job[t].total = Cardinality(swept)
        /\ visible = IF ToRecord(t) THEN Log(Erase(durable, swept, id), id, Cardinality(swept))
                     ELSE Erase(durable, swept, id)
    BY <1>1 DEF Purging
  <1>3. durable' = visible
    BY <1>2 DEF PurgeCommit, Commit
  <1>4. swept = IF op = "delete_all_history" THEN {r \in durable.rows : r.table # "metric_registry"}
                ELSE {r \in durable.rows : r.table \in RetentionTables
                                            /\ r.ts < job[t].cutoff[r.table]}
    <2>1. job[t].at - 1 = Len(PurgeOrder(op))
      BY <1>1, <1>2, PurgeOrderTables
    <2>2. durable.rows \in SUBSET Row
      BY DEF TypeInv, StateOK, Database
    <2>3. swept = SweptOf(durable.rows, op, Len(PurgeOrder(op)), job[t].cutoff)
      BY <2>1 DEF Swept
    <2> HIDE DEF swept, op
    <2> QED BY <1>1, <2>2, <2>3, SweepAll
  <1>5. IsFiniteSet(swept)
    <2>1. swept \subseteq durable.rows
      BY SweepRows DEF Swept
    <2> HIDE DEF swept
    <2> QED BY <2>1, FS_Subset DEF TypeInv, StateOK
  <1> HIDE DEF swept
  <1>6. CASE ToRecord(t)
    <2>1. Promise!Delete(swept, id)
      BY <1>2, <1>3, <1>6, SameRows
    <2>2. CASE op = "delete_all_history"
      <3>1. Promise!DeleteAllHistory(id)
        BY <1>4, <2>1, <2>2 DEF Promise!DeleteAllHistory
      <3> QED BY <2>2, <3>1 DEF TakesEffect
    <2>3. CASE op = "cleanup_expired"
      <3>1. swept # {}
        <4>1. Cardinality(swept) > 0
          BY <1>2, <1>6, <2>3 DEF ToRecord
        <4>2. Cardinality({}) = 0
          BY FS_EmptySet
        <4> QED BY <4>1, <4>2
      <3>2. swept = {r \in durable.rows : /\ r.table \in Promise!RetentionTables
                                          /\ r.ts < job[t].cutoff[r.table]}
        BY <1>4, <2>3, SameRows
      <3>3. Promise!CleanupExpired(job[t].cutoff, id)
        BY <2>1, <3>1, <3>2 DEF Promise!CleanupExpired
      <3> QED BY <2>3, <3>3 DEF TakesEffect
    <2> QED BY <1>1, <2>2, <2>3 DEF PurgeOp
  <1>7. CASE ~ ToRecord(t)
    <2>1. Cardinality(swept) = 0
      BY <1>2, <1>5, <1>7, FS_CardinalityType DEF ToRecord
    <2>2. swept = {}
      BY <1>5, <2>1, FS_EmptySet
    <2> QED BY <1>2, <1>3, <1>7, <2>2, EraseNothing DEF TypeInv, StateOK
  <1> QED BY <1>6, <1>7

\* delete_history: its count, then its audit row.
LEMMA RangeStep ==
  ASSUME TypeInv, AckInv, CountInv, NEW t \in Threads, Ranging(t), job[t].call \notin miscounted,
         CountChanges(t) \/ WriteAudit(t)
  PROVE  \/ Ranging(t)' /\ UNCHANGED durable
         \/ pc'[t] = "idle" /\ DeletesThenRecords(t)
  <1>1. CASE CountChanges(t)
    <2>1. AfterTable(t, job[t].at, job[t].total + changes) = "audit"
      BY DEF Ranging, AfterTable, PurgeOp
    <2>2. pc'[t] = "audit" /\ job'[t].op = job[t].op /\ UNCHANGED <<txn, durable>>
      BY <1>1, <2>1 DEF CountChanges, Goto, TypeInv, StateOK, Job
    <2> QED BY <2>2 DEF Ranging
  <1>2. CASE WriteAudit(t)
    <2>1. pc[t] = "audit" /\ durable' = Log(visible, job[t].call, job[t].total) /\ pc'[t] = "idle"
      BY <1>2 DEF WriteAudit, Execute, Ranging, Return, Goto, TypeInv, StateOK
    <2>2. visible = durable
      BY DEF Ranging, AckInv, AutocommitDurable
    <2>3. job[t].total = Cardinality(GoneBy(durable, job[t].call))
      BY <2>1, <2>2 DEF CountInv, CountSoFar, Ranging, Deletes
    <2> QED BY <2>1, <2>2, <2>3 DEF DeletesThenRecords, GoneBy, Ranging
  <1> QED BY <1>1, <1>2

-----------------------------------------------------------------------------
(* The invariant, and what it makes of every step.                         *)

\* A call that begins beside another is remembered, and so is the other.
LEMMA CallBeside ==
  ASSUME TypeInv, CallsInv, NEW t \in Threads, Call(t), NEW v \in Threads, Busy(v)
  PROVE  AloneInv' /\ job[v].call \in shared'
  <1> DEFINE others == CallsOf({u \in Threads : pc[u] # "idle"})
  <1>1. job[v].call \in others
    BY DEF CallsOf, Busy
  <1>2. shared' = shared \cup others \cup {calls'}
    BY <1>1, CallThreads
  <1>3. \A u \in Threads : Busy(u) => job[u].call \in others
    BY DEF CallsOf, Busy
  <1>4. \A u \in Threads : Busy(u)' => job'[u].call \in shared'
    <2> TAKE u \in Threads
    <2>1. CASE u = t
      BY <1>2, <2>1, CallThreads DEF Busy
    <2>2. CASE u # t
      BY <1>2, <1>3, <2>2, CallThreads DEF Busy
    <2> QED BY <2>1, <2>2
  <1> QED BY <1>1, <1>2, <1>4 DEF AloneInv, Alone

\* A call that begins alone.
LEMMA CallAlone ==
  ASSUME TypeInv, OpenTxnHasOwner, AckInv, CallsInv, NEW t \in Threads, Call(t),
         \A u \in Threads : ~ Busy(u)
  PROVE  AloneInv' /\ (TakesEffect(t) \/ DeletesThenRecords(t) \/ UNCHANGED durable)
  <1>1. ~ txn /\ visible = durable
    BY QuietConnection
  <1>2. \A u \in Threads : u # t => ~ Busy(u)'
    BY CallThreads DEF Busy
  <1>3. calls \in Nat /\ (Busy(t)' => job'[t].call = calls + 1)
    BY CallThreads DEF Busy
  <1>4. Busy(t)' => job'[t].call \notin miscounted'
    BY <1>3, CallMarks
  <1>5. ASSUME Writing(t)' \/ Purging(t)' \/ Ranging(t)' \/ ~ Busy(t)'
        PROVE  AloneInv'
    <2> SUFFICES ASSUME NEW u \in Threads, Alone(u)'
                 PROVE  /\ \A v \in Threads : v # u => ~ Busy(v)'
                        /\ job'[u].call \notin miscounted'
                        /\ Writing(u)' \/ Purging(u)' \/ Ranging(u)'
      BY DEF AloneInv
    <2>1. u = t
      BY <1>2 DEF Alone
    <2> QED BY <1>2, <1>4, <1>5, <2>1 DEF Alone
  <1>6. ASSUME NEW op \in BatchOp, NEW ts \in Times, BatchBegin(t, op, ts)
        PROVE  Writing(t)' /\ UNCHANGED durable
    BY <1>1, <1>6, BatchBegun DEF BatchBegin, Begin
  <1>7. ASSUME NEW op \in RowOp, NEW ts \in Times, NEW key \in Keys, WriteRow(t, op, ts, key)
        PROVE  ~ Busy(t)' /\ TakesEffect(t)
    BY <1>1, <1>7, RowTakesEffect DEF WriteRow, Busy
  <1>8. ASSUME NEW table \in HistoryTables, NEW lo \in Times, NEW hi \in Times,
               DeleteHistory(t, table, lo, hi)
        PROVE  Ranging(t)' /\ DeletesThenRecords(t)
    BY <1>1, <1>8, RangeBegun
  <1>9. ASSUME NEW op \in PurgeOp, NEW cutoff, PurgeBegin(t, op, cutoff)
        PROVE  Purging(t)' /\ UNCHANGED durable
    BY <1>1, <1>9, PurgeBegun DEF PurgeBegin, Begin
  <1> QED BY <1>5, <1>6, <1>7, <1>8, <1>9 DEF Call, PurgeOp

\* A step of a call that met no other.
LEMMA StepAlone ==
  ASSUME TypeInv, AckInv, CallsInv, CountInv, AloneInv, NEW t \in Threads, Step(t), Alone(t)
  PROVE  AloneInv' /\ (TakesEffect(t) \/ DeletesThenRecords(t) \/ UNCHANGED durable)
  <1>1. /\ \A u \in Threads : u # t => ~ Busy(u)
        /\ job[t].call \notin miscounted
        /\ Writing(t) \/ Purging(t) \/ Ranging(t)
    BY DEF AloneInv
  <1>2. \A u \in Threads : u # t => ~ Busy(u)'
    BY <1>1, StepThreads DEF Busy
  <1>3. Busy(t)' => job'[t].call = job[t].call
    BY StepThreads DEF Busy
  <1>4. job[t].call \notin miscounted'
    <2>1. CallsOf({u \in Threads \ {t} : pc[u] = "count"}) = {}
      BY <1>1 DEF CallsOf, Busy
    <2>2. miscounted' = miscounted
      BY <2>1 DEF Step, BatchRow, BatchCommit, PurgeTable, PurgeSkip, CountChanges, WriteAudit,
                  PurgeCommit, Execute, Commit, met
    <2> QED BY <1>1, <2>2
  <1>5. ASSUME Writing(t)' \/ Purging(t)' \/ Ranging(t)' \/ ~ Busy(t)'
        PROVE  AloneInv'
    <2> SUFFICES ASSUME NEW u \in Threads, Alone(u)'
                 PROVE  /\ \A v \in Threads : v # u => ~ Busy(v)'
                        /\ job'[u].call \notin miscounted'
                        /\ Writing(u)' \/ Purging(u)' \/ Ranging(u)'
      BY DEF AloneInv
    <2>1. u = t
      BY <1>2 DEF Alone
    <2> QED BY <1>2, <1>3, <1>4, <1>5, <2>1 DEF Alone
  <1>6. BatchCommit(t) \/ PurgeCommit(t) => ~ Busy(t)'
    BY DEF BatchCommit, PurgeCommit, Return, Goto, Busy, TypeInv, StateOK
  <1>7. CASE Writing(t)
    <2>1. BatchRow(t) \/ BatchCommit(t)
      BY <1>7 DEF Writing, Step, PurgeTable, PurgeSkip, CountChanges, WriteAudit, PurgeCommit,
                  BatchOp, PurgeOp
    <2> QED BY <1>5, <1>6, <1>7, <2>1, WriterRow, WriterCommit
  <1>8. CASE Purging(t)
    <2>1. PurgeTable(t) \/ PurgeSkip(t) \/ CountChanges(t) \/ WriteAudit(t) \/ PurgeCommit(t)
      BY <1>8 DEF Purging, Step, BatchRow, BatchCommit, BatchOp, PurgeOp
    <2> QED BY <1>5, <1>6, <1>8, <2>1, PurgeTableStep, PurgeSkipStep, PurgeCountStep,
               PurgeAuditStep, PurgeCommitStep
  <1>9. CASE Ranging(t)
    <2>1. CountChanges(t) \/ WriteAudit(t)
      BY <1>9 DEF Ranging, Step, BatchRow, BatchCommit, PurgeTable, PurgeSkip, PurgeCommit
    <2> QED BY <1>1, <1>5, <1>9, <2>1, RangeStep DEF Busy
  <1> QED BY <1>1, <1>7, <1>8, <1>9

\* A step of one that did.
LEMMA StepBeside ==
  ASSUME TypeInv, CallsInv, AloneInv, NEW t \in Threads, Step(t), ~ Alone(t)
  PROVE  AloneInv' /\ job[t].call \in shared'
  <1>1. Busy(t) /\ shared' = shared
    BY StepThreads DEF Busy
  <1>2. job[t].call \in shared'
    BY <1>1 DEF Alone
  <1>3. \A u \in Threads : ~ Alone(u)'
    <2> TAKE u \in Threads
    <2>1. CASE u = t
      BY <1>2, <2>1, StepThreads DEF Alone, Busy
    <2>2. CASE u # t
      <3>1. Alone(u)' => Alone(u)
        BY <1>1, <2>2, StepThreads DEF Alone, Busy
      <3> QED BY <1>1, <2>2, <3>1 DEF AloneInv
    <2> QED BY <2>1, <2>2
  <1> QED BY <1>2, <1>3 DEF AloneInv

\* What a restart finds changes by one call's whole effect, or by a call that met
\* another.
Effect == \E t \in Threads :
            \/ TakesEffect(t)
            \/ DeletesThenRecords(t)
            \/ pc[t] # "idle" /\ job[t].call \in shared'

AllInv == TypeInv /\ OpenTxnHasOwner /\ AckInv /\ CallsInv /\ CountInv /\ AloneInv

LEMMA InitAlone == Init => AloneInv
  BY DEF Init, AloneInv, Alone, Busy

LEMMA NextAlone == AllInv /\ [Next]_vars => AloneInv' /\ [Effect]_durable
  <1> SUFFICES ASSUME AllInv, [Next]_vars
               PROVE  AloneInv' /\ [Effect]_durable
    OBVIOUS
  <1> USE DEF AllInv
  <1>1. CASE UNCHANGED vars
    <2>1. UNCHANGED <<visible, durable, txn, changes, pc, job, shared, miscounted>>
      BY <1>1 DEF vars, met
    <2> SUFFICES ASSUME NEW t \in Threads, Alone(t)
                 PROVE  /\ \A u \in Threads : u # t => ~ Busy(u)'
                        /\ job'[t].call \notin miscounted'
                        /\ Writing(t)' \/ Purging(t)' \/ Ranging(t)'
      BY <2>1 DEF AloneInv, Alone, Busy
    <2>2. (\A u \in Threads : u # t => ~ Busy(u)') /\ job'[t].call \notin miscounted'
      BY <2>1 DEF AloneInv, Busy
    <2>3. Writing(t) => Writing(t)'
      BY <2>1 DEF Writing, Done
    <2>4. Purging(t) => Purging(t)'
      <3>1. Swept(t)' = Swept(t) /\ (ToRecord(t)' <=> ToRecord(t))
        BY <2>1 DEF Swept, ToRecord
      <3> QED BY <2>1, <3>1 DEF Purging
    <2>5. Ranging(t) => Ranging(t)'
      BY <2>1 DEF Ranging
    <2> QED BY <2>2, <2>3, <2>4, <2>5 DEF AloneInv
  <1>2. CASE Crash
    BY <1>2 DEF Crash, AloneInv, Alone, Busy
  <1>3. ASSUME NEW t \in Threads, Call(t)
        PROVE  AloneInv' /\ [Effect]_durable
    <2>1. CASE \A u \in Threads : ~ Busy(u)
      BY <1>3, <2>1, CallAlone DEF Effect
    <2>2. CASE \E u \in Threads : Busy(u)
      BY <1>3, <2>2, CallBeside DEF Effect, Busy
    <2> QED BY <2>1, <2>2
  <1>4. ASSUME NEW t \in Threads, Step(t)
        PROVE  AloneInv' /\ [Effect]_durable
    <2>1. CASE Alone(t)
      BY <1>4, <2>1, StepAlone DEF Effect
    <2>2. CASE ~ Alone(t)
      BY <1>4, <2>2, StepBeside, StepThreads DEF Effect
    <2> QED BY <2>1, <2>2
  <1> QED BY <1>1, <1>2, <1>3, <1>4 DEF Next

\* docs/architecture.md:140-156: every storage call beside which no other is under way
\* takes effect as a whole or not at all, delete_history in two steps, between
\* calls that overlap as they like, with a crash at any statement, for any
\* threads, keys and retention settings.
THEOREM UnsharedCallsAreAtomic == Spec => UnsharedCallsAtomic
  <1>1. Spec => []OpenTxnHasOwner
    BY NoLeakedTransaction
  <1>2. AllInv /\ [Next]_vars => [Effect]_durable
    BY NextAlone
  <1>3. UnsharedCallsAtomic <=> [][Effect]_durable
    BY DEF UnsharedCallsAtomic, Effect
  <1> QED BY <1>1, <1>2, <1>3, InitAlone, NextAlone, InitCount, NextCount, InitCalls, NextCalls,
             InitErased, NextErased, InitAckInv, NextAckInv, Typing, PTL DEF Spec, AllInv

=============================================================================
