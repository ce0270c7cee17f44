----------------------------- MODULE Migrations -----------------------------
(***************************************************************************)
(* MigrationRunner (src/src/storage/migration_runner.cpp) as Database::open*)
(* calls it: several processes, the service and a console instance, may    *)
(* open the same database file, each over a connection of its own; any of  *)
(* them may be killed between two statements and started again, and newer  *)
(* migration files may be installed while none runs.                       *)
(*                                                                         *)
(* A file is identified with its version number: no two files have the     *)
(* same (apply would run both).  Its UP section has Steps statements, and  *)
(* those of 001_initial.sql insert a row of their own into schema_version. *)
(***************************************************************************)
EXTENDS Naturals, Sequences

CONSTANTS
  Procs,       \* processes that open the database
  Versions,    \* migration files that are ever installed
  Steps,       \* statements in an UP section
  Unreadable,  \* files that a start may fail to read
  Repeatable,  \* files whose statements succeed on a database that has them already
  NoProc       \* nobody holds SQLite's write lock

ASSUME MigrationsAssumption ==
  /\ Versions \subseteq Nat \ {0} /\ 1 \in Versions
  /\ Steps \in Nat \ {0}
  /\ Unreadable \subseteq Versions /\ Repeatable \subseteq Versions
  /\ NoProc \notin Procs

VARIABLES
  disk,        \* the committed database
  pending,     \* the database as the writer's transaction sees it
  writer,      \* the process that holds the write lock
  installed,   \* the files in migrations_dir
  found,       \* each process: the files discover returned
  pc, at, step \* each process: next step of apply, file in hand, statements run

vars == <<disk, pending, writer, installed, found, pc, at, step>>

\* The rows of schema_version, and how many UP statements of each file ran.
Fresh == [rows |-> <<>>, done |-> [v \in Versions |-> 0]]

Init ==
  /\ disk = Fresh /\ pending = Fresh /\ writer = NoProc
  /\ installed = {1}
  /\ pc = [p \in Procs |-> "down"] /\ found = [p \in Procs |-> {}]
  /\ at = [p \in Procs |-> 0] /\ step = [p \in Procs |-> 0]

Goto(p, label) == pc' = [pc EXCEPT ![p] = label]

\* current_version: the first row; 0 when there is none.
CurrentVersion(rows) == IF rows = <<>> THEN 0 ELSE rows[1]

Content(p) == IF writer = p THEN pending ELSE disk

\* The process's transaction, if it has one, is given up.
Release(p) == writer' = IF writer = p THEN NoProc ELSE writer

\* The process ends, and what it knew with it.
End(p) ==
  /\ Goto(p, "down")
  /\ found' = [found EXCEPT ![p] = {}]
  /\ at' = [at EXCEPT ![p] = 0] /\ step' = [step EXCEPT ![p] = 0]

-----------------------------------------------------------------------------
Start(p) ==
  /\ pc[p] = "down"
  /\ Goto(p, "table")
  /\ UNCHANGED <<disk, pending, writer, installed, found, at, step>>

\* ensure_version_table: CREATE TABLE IF NOT EXISTS; a table without a row and no
\* table are the same to every statement behind it.
EnsureTable(p) ==
  /\ pc[p] = "table"
  /\ \E outcome \in {"count", "failed"} : Goto(p, outcome)
  /\ UNCHANGED <<disk, pending, writer, installed, found, at, step>>

\* ensure_version_table: SELECT COUNT(*); when it fails, nothing is inserted.
CountRows(p) ==
  /\ pc[p] = "count"
  /\ \/ disk.rows = <<>> /\ Goto(p, "seed")
     \/ Goto(p, "read")
  /\ UNCHANGED <<disk, pending, writer, installed, found, at, step>>

\* ensure_version_table: INSERT version 0; whether it succeeds is not looked at.
SeedVersion(p) ==
  /\ pc[p] = "seed"
  /\ \/ writer = NoProc /\ disk' = [rows |-> Append(disk.rows, 0), done |-> disk.done]
     \/ disk' = disk
  /\ Goto(p, "read")
  /\ UNCHANGED <<pending, writer, installed, found, at, step>>

\* current_version, 0 when the SELECT fails, and discover, which passes over a file
\* it cannot read and finds nothing when there is no directory: the files found above
\* the version are to be applied.
ReadVersion(p) ==
  /\ pc[p] = "read"
  /\ \E version \in {0, CurrentVersion(disk.rows)} : at' = [at EXCEPT ![p] = version]
  /\ \/ \E lost \in SUBSET Unreadable : found' = [found EXCEPT ![p] = installed \ lost]
     \/ found' = [found EXCEPT ![p] = {}]
  /\ Goto(p, "next")
  /\ UNCHANGED <<disk, pending, writer, installed, step>>

\* BEGIN for the next file in the sorted list; the lock comes with the first write.
BeginFile(p) ==
  /\ pc[p] = "next"
  /\ \E v \in found[p] :
       /\ v > at[p] /\ \A w \in found[p] : w > at[p] => v <= w
       /\ at' = [at EXCEPT ![p] = v]
  /\ step' = [step EXCEPT ![p] = 0]
  /\ Goto(p, "up")
  /\ UNCHANGED <<disk, pending, writer, installed, found>>

NoFileLeft(p) ==
  /\ pc[p] = "next" /\ \A v \in found[p] : v <= at[p]
  /\ Goto(p, "open")
  /\ UNCHANGED <<disk, pending, writer, installed, found, at, step>>

\* What the next statement of file v makes of database d.
Ran(d, v, first) ==
  [rows |-> IF v = 1 /\ first THEN Append(d.rows, 1) ELSE d.rows,
   done |-> [d.done EXCEPT ![v] = @ + 1]]

\* A CREATE TABLE or ADD COLUMN fails on a database that has it already.
Runs(d, v, k) == v \in Repeatable \/ d.done[v] = k

\* Mutant: no BEGIN, every statement commits by itself.
RunStatementAutocommit(p) ==
  /\ pc[p] = "up" /\ writer = NoProc
  /\ Runs(disk, at[p], step[p])
  /\ disk' = Ran(disk, at[p], step[p] = 0)
  /\ pending' = disk'
  /\ writer' = IF step[p] + 1 = Steps THEN p ELSE NoProc
  /\ step' = [step EXCEPT ![p] = @ + 1]
  /\ Goto(p, IF step[p] + 1 = Steps THEN "set" ELSE "up")
  /\ UNCHANGED <<installed, found, at>>

\* Mutant: the loop over the statements goes one too far.
RunStatementOneMore(p) ==
  /\ pc[p] = "up" /\ writer \in {NoProc, p}
  /\ Runs(Content(p), at[p], step[p])
  /\ pending' = Ran(Content(p), at[p], step[p] = 0)
  /\ writer' = p
  /\ step' = [step EXCEPT ![p] = @ + 1]
  /\ Goto(p, IF step[p] = Steps THEN "set" ELSE "up")
  /\ UNCHANGED <<disk, installed, found, at>>

\* execute_sql(up_sql): the next statement.
RunStatement(p) ==
  /\ pc[p] = "up" /\ writer \in {NoProc, p}
  /\ Runs(Content(p), at[p], step[p])
  /\ pending' = Ran(Content(p), at[p], step[p] = 0)
  /\ writer' = p
  /\ step' = [step EXCEPT ![p] = @ + 1]
  /\ Goto(p, IF step[p] + 1 = Steps THEN "set" ELSE "up")
  /\ UNCHANGED <<disk, installed, found, at>>

\* set_version: UPDATE of every row.
SetVersion(p) ==
  /\ pc[p] = "set"
  /\ pending' = [rows |-> [i \in 1..Len(pending.rows) |-> at[p]], done |-> pending.done]
  /\ Goto(p, "commit")
  /\ UNCHANGED <<disk, writer, installed, found, at, step>>

\* Mutant: a failed migration is skipped, not fatal.
StatementFailsSkipped(p) ==
  /\ pc[p] \in {"up", "set"}
  /\ Release(p)
  /\ Goto(p, "next")
  /\ UNCHANGED <<disk, pending, installed, found, at, step>>

\* A statement fails, as it has to on what is there already: ROLLBACK, apply
\* returns -1.
StatementFails(p) ==
  /\ pc[p] \in {"up", "set"}
  /\ Release(p)
  /\ Goto(p, "failed")
  /\ UNCHANGED <<disk, pending, installed, found, at, step>>

Commit(p) ==
  /\ pc[p] = "commit"
  /\ disk' = pending /\ writer' = NoProc
  /\ Goto(p, "next")
  /\ UNCHANGED <<pending, installed, found, at, step>>

\* A failed COMMIT returns -1 without a ROLLBACK.
CommitFails(p) ==
  /\ pc[p] = "commit"
  /\ Goto(p, "failed")
  /\ UNCHANGED <<disk, pending, writer, installed, found, at, step>>

\* Mutant: Database::open returns false without closing the connection.
GiveUpOpen(p) ==
  /\ pc[p] = "failed" /\ writer # p
  /\ End(p)
  /\ UNCHANGED <<disk, pending, writer, installed>>

\* Database::open closes the connection, run_application and the process end.
GiveUp(p) ==
  /\ pc[p] = "failed"
  /\ Release(p)
  /\ End(p)
  /\ UNCHANGED <<disk, pending, installed>>

-----------------------------------------------------------------------------
\* The process ends, stopped or killed between any two statements: SQLite rolls
\* its transaction back.
Kill(p) ==
  /\ pc[p] # "down"
  /\ Release(p)
  /\ End(p)
  /\ UNCHANGED <<disk, pending, installed>>

\* An update adds files with higher numbers while the program is stopped.
Install(v) ==
  /\ \A p \in Procs : pc[p] = "down"
  /\ \A w \in installed : v > w
  /\ installed' = installed \cup {v}
  /\ UNCHANGED <<disk, pending, writer, pc, at, step, found>>

Apply(p) ==
  \/ EnsureTable(p) \/ CountRows(p) \/ SeedVersion(p) \/ ReadVersion(p)
  \/ BeginFile(p) \/ NoFileLeft(p)
  \/ RunStatement(p) \/ SetVersion(p) \/ StatementFails(p)
  \/ Commit(p) \/ CommitFails(p) \/ GiveUp(p)

Next ==
  \/ \E p \in Procs : Start(p) \/ Apply(p) \/ Kill(p)
  \/ \E v \in Versions : Install(v)

Spec == Init /\ [][Next]_vars

\* A started apply goes on: every statement succeeds or fails.
FairSpec == Spec /\ \A p \in Procs : WF_vars(Apply(p))

-----------------------------------------------------------------------------
DatabaseType == [rows : Seq(Versions \cup {0}), done : [Versions -> Nat]]

Labels == {"down", "table", "count", "seed", "read", "next", "up", "set", "commit",
           "failed", "open"}

\* Type invariant of the migration runner.
TypeOK ==
  /\ disk \in DatabaseType /\ pending \in DatabaseType
  /\ writer \in Procs \cup {NoProc}
  /\ installed \subseteq Versions /\ found \in [Procs -> SUBSET Versions]
  /\ pc \in [Procs -> Labels]
  /\ at \in [Procs -> Versions \cup {0}] /\ step \in [Procs -> 0..Steps]

\* What is on disk is what schema_version says, to the statement: every installed
\* file up to the current version was run exactly once and in full, none above it
\* in part, whichever processes raced or died half-way.
SchemaMatchesVersion ==
  \A v \in installed :
    disk.done[v] = IF v <= CurrentVersion(disk.rows) THEN Steps ELSE 0

\* A process that found the migrations serves only a database that has every one of
\* them, also when another process applied some or failed beside it. One that found no
\* directory opens whatever is there (migration_runner.cpp:83).
OpenMeansCurrent ==
  \A p \in Procs : pc[p] = "open" /\ found[p] # {} =>
    \A v \in installed : disk.done[v] = Steps

\* Nobody keeps the write lock for ever: the failed COMMIT that is not rolled back is
\* undone by the close in Database::open.
LockReleased == []<>(writer = NoProc)

\* docs/database-schema.md:43: migrations are applied exactly once. No statement of a
\* file is on disk twice, also when two processes start together.
AppliedAtMostOnce == \A v \in Versions : disk.done[v] <= Steps

=============================================================================
