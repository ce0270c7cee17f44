-------------------------- MODULE MigrationsProofs --------------------------
(***************************************************************************)
(* Proofs about Migrations, for any number of processes, files and         *)
(* statements: the schema on disk is always the one schema_version names.  *)
(* Every file can be read, and the statements of none of them succeed on a *)
(* database that has them already.                                         *)
(***************************************************************************)
EXTENDS Migrations, TLAPS

\* 001_initial.sql is such a file: CREATE TABLE app_config fails the second time.
NoneRepeatable == Repeatable = {}
AllReadable == Unreadable = {}

CV == CurrentVersion(disk.rows)

\* The package brings its first file along, and nothing else is on disk.
Installation ==
  /\ 1 \in installed
  /\ CV \in installed \cup {0}
  /\ \A v \in Versions \ installed : disk.done[v] = 0

\* What a process knows of the version it once read: it has only grown.
Progress(p) ==
  /\ pc[p] = "next" => at[p] <= CV
  /\ pc[p] = "next" => found[p] \in {installed, {}}
  /\ pc[p] \in {"up", "set", "commit"} => found[p] = installed
  /\ pc[p] = "open" /\ found[p] # {} => \A v \in installed : v <= CV
  /\ pc[p] \in {"up", "set", "commit"} =>
       at[p] \in installed /\ \A v \in installed : v < at[p] => v <= CV

\* The lock is held from the first statement to the COMMIT or the ROLLBACK.
Locking(p) ==
  /\ writer = p => pc[p] \in {"up", "set", "commit", "failed"}
  /\ pc[p] = "up" => step[p] < Steps /\ (writer = p <=> step[p] > 0)
  /\ pc[p] \in {"set", "commit"} => writer = p /\ step[p] = Steps

\* The transaction holds the statements run so far of a file that the disk lacks,
\* and at its end the version row.
Transaction(p) ==
  (writer = p /\ pc[p] \in {"up", "set", "commit"}) =>
    /\ at[p] > CV
    /\ pending.done = [disk.done EXCEPT ![at[p]] = step[p]]
    /\ pending.rows # <<>>
    /\ pc[p] = "commit" => pending.rows[1] = at[p]

IInv ==
  /\ TypeOK /\ Installation /\ SchemaMatchesVersion
  /\ \A p \in Procs : Progress(p) /\ Locking(p) /\ Transaction(p)

-----------------------------------------------------------------------------
\* The new database has no version and nothing of any file.
LEMMA InitIInv == Init => IInv
<1> USE MigrationsAssumption
<1>1. ASSUME Init PROVE disk \in DatabaseType /\ pending \in DatabaseType
  <2>1. <<>> \in Seq(Versions \cup {0})
    OBVIOUS
  <2> QED BY <1>1, <2>1 DEF Init, Fresh, DatabaseType
<1>2. ASSUME Init PROVE TypeOK
  BY <1>1, <1>2 DEF Init, TypeOK, Labels
<1>3. ASSUME Init PROVE CV = 0 /\ \A v \in Versions : disk.done[v] = 0
  BY <1>3 DEF Init, Fresh, CV, CurrentVersion
<1> QED
  BY <1>2, <1>3 DEF Init, IInv, Installation, SchemaMatchesVersion, Progress, Locking,
     Transaction, CV

\* The types, whichever files cannot be read or can be run again: every process has
\* one of the installed files in hand and never runs past its last statement.
THEOREM TypeCorrect == Spec => []TypeOK
<1> USE MigrationsAssumption
<1> DEFINE Hand == \A p \in Procs : /\ pc[p] \in {"up", "set", "commit"} => at[p] \in Versions
                                    /\ pc[p] = "up" => step[p] < Steps
<1>1. Init => TypeOK /\ Hand
  <2>1. <<>> \in Seq(Versions \cup {0})
    OBVIOUS
  <2> QED BY <2>1 DEF Init, Fresh, DatabaseType, TypeOK, Labels
<1>2. TypeOK /\ Hand /\ [Next]_vars => TypeOK' /\ Hand'
  <2> SUFFICES ASSUME TypeOK, Hand, [Next]_vars PROVE TypeOK' /\ Hand'
    OBVIOUS
  <2>1. \A label \in Labels, p \in Procs : Goto(p, label) => pc' \in [Procs -> Labels]
    BY DEF Goto, TypeOK
  <2>2. CASE UNCHANGED vars
    BY <2>2 DEF vars, TypeOK
  <2>3. ASSUME NEW v \in Versions, Install(v) PROVE TypeOK' /\ Hand'
    BY <2>3 DEF Install, TypeOK
  <2>4. ASSUME NEW p \in Procs, Start(p) \/ EnsureTable(p) \/ CountRows(p) \/ NoFileLeft(p)
                                \/ CommitFails(p)
        PROVE  TypeOK' /\ Hand'
    BY <2>1, <2>4 DEF Start, EnsureTable, CountRows, NoFileLeft, CommitFails, Goto, TypeOK, Labels
  <2>5. ASSUME NEW p \in Procs, StatementFails(p) \/ GiveUp(p) \/ Kill(p)
        PROVE  TypeOK' /\ Hand'
    <3>1. writer' \in Procs \cup {NoProc} /\ UNCHANGED <<disk, pending, installed>>
      BY <2>5 DEF StatementFails, GiveUp, Kill, Release, TypeOK
    <3>2. CASE StatementFails(p)
      BY <3>1, <3>2 DEF StatementFails, Goto, TypeOK, Labels
    <3>3. CASE GiveUp(p) \/ Kill(p)
      BY <3>1, <3>3 DEF GiveUp, Kill, End, Goto, TypeOK, Labels
    <3> QED BY <2>5, <3>2, <3>3
  <2>6. ASSUME NEW p \in Procs, SeedVersion(p) PROVE TypeOK' /\ Hand'
    <3>1. \A d \in DatabaseType : [rows |-> Append(d.rows, 0), done |-> d.done] \in DatabaseType
      BY DEF DatabaseType
    <3>2. disk' \in DatabaseType
      BY <2>6, <3>1 DEF SeedVersion, TypeOK
    <3> QED BY <2>1, <2>6, <3>2 DEF SeedVersion, Goto, TypeOK, Labels
  <2>7. ASSUME NEW p \in Procs, ReadVersion(p) PROVE TypeOK' /\ Hand'
    <3>1. CurrentVersion(disk.rows) \in Versions \cup {0}
      BY DEF CurrentVersion, TypeOK, DatabaseType
    <3>2. at' \in [Procs -> Versions \cup {0}]
      BY <2>7, <3>1 DEF ReadVersion, TypeOK
    <3>3. found' \in [Procs -> SUBSET Versions]
      <4>1. PICK files \in SUBSET Versions : found' = [found EXCEPT ![p] = files]
        <5>1. installed \subseteq Versions
          BY DEF TypeOK
        <5>2. \A lost : installed \ lost \in SUBSET Versions
          BY <5>1
        <5>3. {} \in SUBSET Versions
          OBVIOUS
        <5> QED BY <2>7, <5>2, <5>3, Zenon DEF ReadVersion
      <4> QED BY <4>1 DEF TypeOK
    <3> QED BY <2>1, <2>7, <3>2, <3>3 DEF ReadVersion, Goto, TypeOK, Labels
  <2>8. ASSUME NEW p \in Procs, BeginFile(p) PROVE TypeOK' /\ Hand'
    BY <2>1, <2>8 DEF BeginFile, Goto, TypeOK, Labels
  <2>9. ASSUME NEW p \in Procs, RunStatement(p) PROVE TypeOK' /\ Hand'
    <3>1. /\ at[p] \in Versions /\ step[p] \in 0..Steps /\ step[p] < Steps
          /\ step' = [step EXCEPT ![p] = @ + 1] /\ writer' = p
          /\ pending' = Ran(Content(p), at[p], step[p] = 0)
          /\ pc' = [pc EXCEPT ![p] = IF step[p] + 1 = Steps THEN "set" ELSE "up"]
          /\ UNCHANGED <<disk, installed, found, at>>
      BY <2>9 DEF RunStatement, Goto, TypeOK
    <3>2. pending' \in DatabaseType
      <4>1. Content(p) \in DatabaseType
        BY DEF Content, TypeOK
      <4>2. ASSUME NEW d \in DatabaseType, NEW v \in Versions, NEW first \in BOOLEAN
            PROVE  Ran(d, v, first) \in DatabaseType
        <5>1. (IF v = 1 /\ first THEN Append(d.rows, 1) ELSE d.rows) \in Seq(Versions \cup {0})
          BY DEF DatabaseType
        <5>2. [d.done EXCEPT ![v] = @ + 1] \in [Versions -> Nat]
          BY DEF DatabaseType
        <5> QED BY <5>1, <5>2 DEF Ran, DatabaseType
      <4> QED BY <3>1, <4>1, <4>2
    <3>3. step[p] + 1 \in 0..Steps /\ (step[p] + 1 # Steps => step[p] + 1 < Steps)
      BY <3>1
    <3>4. step' \in [Procs -> 0..Steps]
      BY <3>1, <3>3 DEF TypeOK
    <3>5. pc' \in [Procs -> Labels]
      BY <3>1 DEF TypeOK, Labels
    <3>6. Hand'
      BY <3>1, <3>3 DEF TypeOK
    <3> QED BY <3>1, <3>2, <3>4, <3>5, <3>6 DEF TypeOK
  <2>10. ASSUME NEW p \in Procs, SetVersion(p) PROVE TypeOK' /\ Hand'
    <3>1. [i \in 1..Len(pending.rows) |-> at[p]] \in Seq(Versions \cup {0})
      <4>1. Len(pending.rows) \in Nat /\ at[p] \in Versions \cup {0}
        BY DEF TypeOK, DatabaseType
      <4> QED BY <4>1
    <3>2. pending' \in DatabaseType
      BY <2>10, <3>1 DEF SetVersion, TypeOK, DatabaseType
    <3> QED BY <2>1, <2>10, <3>2 DEF SetVersion, Goto, TypeOK, Labels
  <2>11. ASSUME NEW p \in Procs, Commit(p) PROVE TypeOK' /\ Hand'
    BY <2>1, <2>11 DEF Commit, Goto, TypeOK, Labels
  <2> QED
    BY <2>2, <2>3, <2>4, <2>5, <2>6, <2>7, <2>8, <2>9, <2>10, <2>11 DEF Next, Apply
<1> QED BY <1>1, <1>2, PTL DEF Spec

\* The types of the parts.
LEMMA Types ==
  ASSUME IInv
  PROVE  /\ pc \in [Procs -> Labels] /\ at \in [Procs -> Versions \cup {0}]
         /\ found \in [Procs -> SUBSET Versions]
         /\ step \in [Procs -> 0..Steps]
         /\ disk.rows \in Seq(Versions \cup {0}) /\ disk.done \in [Versions -> Nat]
         /\ pending.rows \in Seq(Versions \cup {0}) /\ pending.done \in [Versions -> Nat]
         /\ disk \in DatabaseType /\ pending \in DatabaseType
<1>1. /\ pc \in [Procs -> Labels] /\ at \in [Procs -> Versions \cup {0}]
      /\ found \in [Procs -> SUBSET Versions]
      /\ step \in [Procs -> 0..Steps]
  BY DEF IInv, TypeOK
<1>2. disk \in DatabaseType /\ pending \in DatabaseType
  BY DEF IInv, TypeOK
<1> QED BY <1>1, <1>2 DEF DatabaseType

\* Versions are numbers, so is what the table and the processes hold of them.
LEMMA Numbers ==
  ASSUME IInv
  PROVE  /\ CV \in Nat /\ CV \in Versions \cup {0} /\ Steps \in Nat /\ Steps > 0
         /\ installed \subseteq Nat /\ 1 \in installed
         /\ \A v \in installed : v \in Versions /\ v > 0
         /\ \A p \in Procs : at[p] \in Nat /\ step[p] \in Nat /\ step[p] <= Steps
<1> USE MigrationsAssumption
<1>1. CV \in installed \cup {0} /\ installed \subseteq Versions /\ 1 \in installed
  BY DEF IInv, TypeOK, Installation
<1>2. \A v \in Versions : v \in Nat /\ v > 0
  OBVIOUS
<1>3. ASSUME NEW p \in Procs PROVE at[p] \in Nat /\ step[p] \in Nat /\ step[p] <= Steps
  <2>1. at[p] \in Versions \cup {0} /\ step[p] \in 0..Steps
    BY Types
  <2>2. at[p] \in Nat
    <3>1. \A x \in Versions \cup {0} : x \in Nat
      BY <1>2
    <3> QED BY <2>1, <3>1, Zenon
  <2>3. step[p] \in Nat /\ step[p] <= Steps
    BY <2>1
  <2> QED BY <2>2, <2>3
<1>4. CV \in Nat /\ CV \in Versions \cup {0}
  BY <1>1, <1>2
<1>5. installed \subseteq Nat /\ \A v \in installed : v \in Versions /\ v > 0
  BY <1>1, <1>2
<1>6. Steps \in Nat /\ Steps > 0
  OBVIOUS
<1> QED BY <1>1, <1>3, <1>4, <1>5, <1>6

\* A process that a step of another one leaves as it was keeps what is known of it.
LEMMA Bystander ==
  ASSUME NEW q, Progress(q), Locking(q), Transaction(q),
         pc'[q] = pc[q], found'[q] = found[q], at'[q] = at[q], step'[q] = step[q], (writer' = q) <=> (writer = q),
         CV' = CV, installed' = installed, disk'.done = disk.done,
         writer = q => pending' = pending
  PROVE  (Progress(q) /\ Locking(q) /\ Transaction(q))'
<1>1. Progress(q)'
  BY DEF Progress
<1>2. Locking(q)'
  BY DEF Locking
<1>3. Transaction(q)'
  BY DEF Transaction
<1> QED BY <1>1, <1>2, <1>3

\* The steps that leave the database and its transaction alone, and how what is known
\* of the process that takes them changes.
LEMMA LocalKeepsIInv ==
  ASSUME IInv, AllReadable, NEW p \in Procs,
         \/ Start(p) \/ EnsureTable(p) \/ CountRows(p) \/ ReadVersion(p) \/ BeginFile(p)
         \/ NoFileLeft(p) \/ StatementFails(p) \/ CommitFails(p) \/ GiveUp(p) \/ Kill(p)
  PROVE  IInv'
<1> USE MigrationsAssumption
<1>1. disk' = disk /\ pending' = pending /\ installed' = installed
  BY DEF Start, EnsureTable, CountRows, ReadVersion, BeginFile, NoFileLeft, StatementFails,
         CommitFails, GiveUp, Kill
<1>2. CV' = CV
  BY <1>1 DEF CV
<1>3. Installation' /\ SchemaMatchesVersion'
  BY <1>1, <1>2 DEF IInv, Installation, SchemaMatchesVersion, CV
<1>4. TypeOK'
  <2>1. CASE Start(p) \/ EnsureTable(p) \/ CountRows(p) \/ NoFileLeft(p)
    BY <2>1 DEF IInv, TypeOK, Labels, Goto, Start, EnsureTable, CountRows, NoFileLeft
  <2>2. CASE ReadVersion(p)
    <3>1. PICK version \in {0, CV} : at' = [at EXCEPT ![p] = version]
      BY <2>2 DEF ReadVersion, CV
    <3>2. version \in Versions \cup {0}
      BY Numbers
    <3>3. at' \in [Procs -> Versions \cup {0}]
      BY <3>1, <3>2 DEF IInv, TypeOK
    <3>4. found' \in [Procs -> SUBSET Versions]
      <4>1. PICK files \in SUBSET Versions : found' = [found EXCEPT ![p] = files]
        <5>1. installed \subseteq Versions
          BY DEF IInv, TypeOK
        <5>2. \A lost : installed \ lost \in SUBSET Versions
          BY <5>1
        <5>3. {} \in SUBSET Versions
          OBVIOUS
        <5> QED BY <2>2, <5>2, <5>3, Zenon DEF ReadVersion
      <4> QED BY <4>1 DEF IInv, TypeOK
    <3> QED BY <2>2, <3>3, <3>4, <1>1 DEF IInv, TypeOK, Labels, Goto, ReadVersion
  <2>3. CASE BeginFile(p)
    BY <2>3 DEF IInv, TypeOK, Labels, Goto, BeginFile
  <2>4. CASE StatementFails(p) \/ CommitFails(p)
    BY <2>4 DEF IInv, TypeOK, Labels, Goto, Release, StatementFails, CommitFails
  <2>5. CASE GiveUp(p) \/ Kill(p)
    <3>1. End(p) /\ Release(p) /\ UNCHANGED <<disk, pending, installed>>
      BY <2>5 DEF GiveUp, Kill
    <3>2. found' \in [Procs -> SUBSET Versions]
      BY <3>1 DEF IInv, TypeOK, End
    <3>3. at' \in [Procs -> Versions \cup {0}] /\ step' \in [Procs -> 0..Steps]
      <4>1. 0 \in 0..Steps
        OBVIOUS
      <4> QED BY <3>1, <4>1 DEF IInv, TypeOK, End
    <3> QED BY <3>1, <3>2, <3>3 DEF IInv, TypeOK, Labels, End, Goto, Release
  <2> QED BY <2>1, <2>2, <2>3, <2>4, <2>5
<1>5. /\ pc \in [Procs -> Labels] /\ at \in [Procs -> Versions \cup {0}]
      /\ step \in [Procs -> 0..Steps] /\ at[p] \in Nat
      /\ found \in [Procs -> SUBSET Versions]
  BY Types, Numbers
<1>6. Progress(p) /\ Locking(p) /\ Transaction(p)
  BY DEF IInv
<1>7. CV \in Nat /\ installed \subseteq Nat /\ Steps > 0 /\ Steps \in Nat
  BY Numbers
<1>8. (Progress(p) /\ Locking(p) /\ Transaction(p))'
  <2>1. CASE Start(p) \/ EnsureTable(p) \/ CountRows(p)
    BY <2>1, <1>1, <1>5, <1>6 DEF Goto, Progress, Locking, Transaction, Start, EnsureTable,
       CountRows
  <2>2. CASE NoFileLeft(p)
    <3>1. found[p] \in {installed, {}} /\ found' = found
      BY <2>2, <1>6 DEF Progress, NoFileLeft
    <3>2. found[p] # {} => \A v \in installed : v <= at[p] /\ at[p] <= CV
      BY <2>2, <3>1, <1>6 DEF Progress, NoFileLeft
    <3>3. found'[p] # {} => \A v \in installed' : v <= CV'
      BY <3>1, <3>2, <1>1, <1>2, <1>5, <1>7
    <3> QED BY <2>2, <3>3, <1>1, <1>5, <1>6 DEF Goto, Progress, Locking, Transaction, NoFileLeft
  <2>3. CASE ReadVersion(p)
    <3>1. /\ pc'[p] = "next" /\ at'[p] \in {0, CV} /\ writer' = writer /\ writer # p
      BY <2>3, <1>5, <1>6 DEF Goto, Locking, ReadVersion, CV
    <3>2. found'[p] \in {installed', {}}
      <4>1. CASE found' = [found EXCEPT ![p] = {}]
        BY <4>1, <1>5
      <4>2. ASSUME NEW lost \in SUBSET Unreadable, found' = [found EXCEPT ![p] = installed \ lost]
            PROVE  found'[p] = installed'
        <5>1. installed \ lost = installed
          BY <4>2 DEF AllReadable
        <5> QED BY <4>2, <5>1, <1>1, <1>5
      <4> QED BY <2>3, <4>1, <4>2 DEF ReadVersion
    <3>3. at'[p] <= CV'
      BY <3>1, <1>2, <1>7
    <3> QED BY <3>1, <3>2, <3>3 DEF Progress, Locking, Transaction
  <2>4. CASE BeginFile(p)
    <3>1. found[p] = installed
      BY <2>4, <1>6, Zenon DEF Progress, BeginFile
    <3>2. PICK v \in installed : /\ v > at[p] /\ \A w \in installed : w > at[p] => v <= w
                                 /\ at' = [at EXCEPT ![p] = v]
      BY <2>4, <3>1 DEF BeginFile
    <3>3. /\ pc'[p] = "up" /\ at'[p] = v /\ step'[p] = 0 /\ writer' = writer /\ writer # p
          /\ at[p] <= CV /\ found' = found
      BY <2>4, <3>2, <1>5, <1>6 DEF Goto, Progress, Locking, BeginFile
    <3>4. ASSUME NEW w \in installed, w < v PROVE w <= CV
      <4>1. w \in Nat /\ v \in Nat
        BY <1>7
      <4>2. ~(w > at[p])
        BY <3>2, <3>4, <4>1
      <4> QED BY <3>3, <4>1, <4>2, <1>5, <1>7
    <3> QED BY <3>1, <3>3, <3>4, <1>1, <1>2, <1>7 DEF Progress, Locking, Transaction
  <2>5. CASE StatementFails(p) \/ CommitFails(p)
    BY <2>5, <1>5 DEF Goto, Progress, Locking, Transaction, StatementFails, CommitFails
  <2>6. CASE GiveUp(p) \/ Kill(p)
    BY <2>6, <1>5 DEF Goto, End, Release, Progress, Locking, Transaction, GiveUp, Kill
  <2> QED BY <2>1, <2>2, <2>3, <2>4, <2>5, <2>6
<1>9. ASSUME NEW q \in Procs, q # p PROVE (Progress(q) /\ Locking(q) /\ Transaction(q))'
  <2>1. pc'[q] = pc[q] /\ found'[q] = found[q] /\ at'[q] = at[q] /\ step'[q] = step[q]
    BY <1>5, <1>9 DEF Goto, End, Start, EnsureTable, CountRows, ReadVersion, BeginFile, NoFileLeft,
       StatementFails, CommitFails, GiveUp, Kill
  <2>2. (writer' = q) <=> (writer = q)
    BY <1>9 DEF Release, Start, EnsureTable, CountRows, ReadVersion, BeginFile, NoFileLeft,
       StatementFails, CommitFails, GiveUp, Kill
  <2>3. Progress(q) /\ Locking(q) /\ Transaction(q)
    BY DEF IInv
  <2> QED BY <2>1, <2>2, <2>3, <1>1, <1>2, Bystander
<1> QED BY <1>3, <1>4, <1>8, <1>9 DEF IInv

\* A late INSERT of version 0 never becomes the first row of a table that has one.
LEMMA SeedKeepsIInv == ASSUME IInv, NEW p \in Procs, SeedVersion(p) PROVE IInv'
<1> USE MigrationsAssumption
<1>1. /\ disk.rows \in Seq(Versions \cup {0}) /\ disk.done \in [Versions -> Nat]
      /\ disk \in DatabaseType
  BY Types
<1>2. disk' = disk \/ disk' = [rows |-> Append(disk.rows, 0), done |-> disk.done]
  BY DEF SeedVersion
<1>3. CV' = CV
  <2>1. CASE disk' = disk
    BY <2>1 DEF CV
  <2>2. CASE disk' = [rows |-> Append(disk.rows, 0), done |-> disk.done]
    <3>1. Append(disk.rows, 0)[1] = IF disk.rows = <<>> THEN 0 ELSE disk.rows[1]
      BY <1>1
    <3>2. Append(disk.rows, 0) # <<>>
      BY <1>1
    <3> QED BY <2>2, <3>1, <3>2 DEF CV, CurrentVersion
  <2> QED BY <1>2, <2>1, <2>2
<1>4. disk' \in DatabaseType
  <2>1. Append(disk.rows, 0) \in Seq(Versions \cup {0})
    BY <1>1
  <2>2. CASE disk' = [rows |-> Append(disk.rows, 0), done |-> disk.done]
    BY <1>1, <2>1, <2>2 DEF DatabaseType
  <2> QED BY <1>1, <1>2, <2>2
<1>5. TypeOK'
  BY <1>4 DEF IInv, TypeOK, Labels, SeedVersion, Goto
<1>6. Installation' /\ SchemaMatchesVersion'
  BY <1>2, <1>3 DEF IInv, Installation, SchemaMatchesVersion, CV, SeedVersion
<1>7. disk'.done = disk.done
  BY <1>2
<1>8. pc \in [Procs -> Labels]
  BY Types
<1>9. ASSUME NEW q \in Procs PROVE (Progress(q) /\ Locking(q) /\ Transaction(q))'
  <2>1. Progress(q) /\ Locking(q) /\ Transaction(q)
    BY DEF IInv
  <2>2. CASE q = p
    BY <2>1, <2>2, <1>8 DEF Progress, Locking, Transaction, SeedVersion, Goto
  <2>3. CASE q # p
    BY <2>1, <2>3, <1>3, <1>7, <1>8, Bystander DEF SeedVersion, Goto
  <2> QED BY <2>2, <2>3
<1> QED BY <1>5, <1>6, <1>9 DEF IInv

\* A statement runs only on a database that does not have its file yet.
LEMMA StatementKeepsIInv ==
  ASSUME IInv, NoneRepeatable, NEW p \in Procs, RunStatement(p) PROVE IInv'
<1> USE MigrationsAssumption
<1> DEFINE v == at[p]
           c == Content(p)
<1>1. /\ disk \in DatabaseType /\ pending \in DatabaseType /\ c \in DatabaseType
      /\ pc \in [Procs -> Labels] /\ step \in [Procs -> 0..Steps]
  BY Types DEF Content
<1>2. Progress(p) /\ Locking(p) /\ Transaction(p)
  BY DEF IInv
<1>3. /\ v \in installed /\ \A w \in installed : w < v => w <= CV
      /\ step[p] \in Nat /\ step[p] < Steps /\ (writer = p <=> step[p] > 0)
      /\ writer = p \/ writer = NoProc
  BY <1>1, <1>2 DEF Progress, Locking, RunStatement
<1>4. /\ CV \in Nat /\ installed \subseteq Nat /\ v \in Versions /\ v \in Nat /\ v > 0
      /\ 1 \in installed /\ Steps \in Nat
  BY <1>3, Numbers
<1>5. c.done[v] = step[p]
  BY DEF NoneRepeatable, RunStatement, Runs
<1>6. c.rows \in Seq(Versions \cup {0}) /\ c.done \in [Versions -> Nat]
  BY <1>1 DEF DatabaseType
<1>7. /\ pending'.done = [c.done EXCEPT ![v] = step[p] + 1]
      /\ pending'.rows = IF v = 1 /\ step[p] = 0 THEN Append(c.rows, 1) ELSE c.rows
      /\ pending' = [rows |-> pending'.rows, done |-> pending'.done]
  BY <1>4, <1>5, <1>6 DEF RunStatement, Ran
<1>8. /\ CV' = CV /\ disk' = disk /\ installed' = installed /\ found' = found
      /\ at' = at /\ writer' = p
      /\ step' = [step EXCEPT ![p] = @ + 1]
      /\ pc' = [pc EXCEPT ![p] = IF step[p] + 1 = Steps THEN "set" ELSE "up"]
  BY DEF CV, RunStatement, Goto
<1>9. v > CV /\ pending'.done = [disk.done EXCEPT ![v] = step[p] + 1] /\ pending'.rows # <<>>
  <2>1. CASE writer = p
    <3>1. /\ v > CV /\ pending.done = [disk.done EXCEPT ![v] = step[p]] /\ pending.rows # <<>>
          /\ c = pending
      BY <1>2, <2>1 DEF Transaction, RunStatement, Content
    <3>2. [[disk.done EXCEPT ![v] = step[p]] EXCEPT ![v] = step[p] + 1]
            = [disk.done EXCEPT ![v] = step[p] + 1]
      BY <1>1, <1>4 DEF DatabaseType
    <3> QED BY <1>3, <1>7, <2>1, <3>1, <3>2
  <2>2. CASE writer # p
    <3>1. c = disk /\ step[p] = 0
      BY <1>3, <2>2 DEF Content
    <3>2. disk.done[v] = IF v <= CV THEN Steps ELSE 0
      BY <1>3 DEF IInv, SchemaMatchesVersion, CV
    <3>3. v > CV
      BY <1>3, <1>4, <1>5, <3>1, <3>2
    <3>4. CASE v = 1
      BY <1>6, <1>7, <3>1, <3>3, <3>4
    <3>5. CASE v # 1
      <4>1. 1 <= CV
        BY <1>3, <1>4, <3>5
      <4>2. disk.rows # <<>>
        BY <4>1 DEF CV, CurrentVersion
      <4> QED BY <1>7, <3>1, <3>3, <3>5, <4>2
    <3> QED BY <3>4, <3>5
  <2> QED BY <2>1, <2>2
<1>10. pending' \in DatabaseType
  <2>1. pending'.rows \in Seq(Versions \cup {0})
    BY <1>6, <1>7
  <2>2. pending'.done \in [Versions -> Nat]
    <3>1. step[p] + 1 \in Nat
      BY <1>3
    <3> QED BY <1>6, <1>7, <3>1
  <2> QED BY <1>7, <2>1, <2>2 DEF DatabaseType
<1>11. TypeOK'
  <2>1. step' \in [Procs -> 0..Steps]
    BY <1>3, <1>4, <1>8 DEF IInv, TypeOK
  <2> QED BY <1>8, <1>10, <2>1 DEF IInv, TypeOK, Labels
<1>12. Installation' /\ SchemaMatchesVersion'
  BY <1>8 DEF IInv, Installation, SchemaMatchesVersion, CV
<1>13. ASSUME NEW q \in Procs, q # p PROVE (Progress(q) /\ Locking(q) /\ Transaction(q))'
  <2>1. Progress(q) /\ Locking(q) /\ Transaction(q) /\ writer # q
    BY <1>3, <1>13 DEF IInv
  <2> QED BY <1>1, <1>8, <1>13, <2>1, Bystander
<1>14. Progress(p)' /\ Locking(p)'
  <2>1. /\ pc'[p] = IF step[p] + 1 = Steps THEN "set" ELSE "up"
        /\ step'[p] = step[p] + 1
    BY <1>1, <1>8
  <2> QED BY <1>2, <1>3, <1>4, <1>8, <2>1 DEF Progress, Locking, RunStatement
<1>15. Transaction(p)'
  <2>1. pc'[p] # "commit" /\ step'[p] = step[p] + 1
    BY <1>1, <1>8
  <2> QED BY <1>8, <1>9, <2>1 DEF Transaction
<1> QED BY <1>11, <1>12, <1>13, <1>14, <1>15 DEF IInv

\* The UPDATE writes the file's number over every row, so also over the first.
LEMMA SetVersionKeepsIInv == ASSUME IInv, NEW p \in Procs, SetVersion(p) PROVE IInv'
<1> USE MigrationsAssumption
<1>1. Progress(p) /\ Locking(p) /\ Transaction(p)
  BY DEF IInv
<1>2. writer = p /\ at[p] \in installed /\ pending.rows # <<>>
  BY <1>1 DEF Progress, Locking, Transaction, SetVersion
<1>3. /\ pending.rows \in Seq(Versions \cup {0}) /\ pending.done \in [Versions -> Nat]
      /\ at[p] \in Versions /\ pc \in [Procs -> Labels]
  BY <1>2, Types, Numbers
<1>4. /\ pending'.done = pending.done /\ pending'.rows = [i \in 1..Len(pending.rows) |-> at[p]]
      /\ pending' = [rows |-> pending'.rows, done |-> pending'.done]
  BY DEF SetVersion
<1>5. Len(pending.rows) \in Nat /\ Len(pending.rows) > 0
  BY <1>2, <1>3
<1>6. pending'.rows[1] = at[p]
  BY <1>4, <1>5
<1>7. pending'.rows \in Seq(Versions \cup {0})
  BY <1>3, <1>4, <1>5
<1>8. pending'.rows # <<>>
  <2>1. Len(pending'.rows) = Len(pending.rows)
    BY <1>4, <1>5
  <2> QED BY <1>5, <2>1
<1>9. TypeOK'
  <2>1. pending' \in DatabaseType
    BY <1>3, <1>4, <1>7 DEF DatabaseType
  <2> QED BY <2>1 DEF IInv, TypeOK, Labels, SetVersion, Goto
<1>10. CV' = CV /\ disk' = disk /\ installed' = installed /\ found' = found
  BY DEF CV, SetVersion
<1>11. Installation' /\ SchemaMatchesVersion'
  BY <1>10 DEF IInv, Installation, SchemaMatchesVersion, CV
<1>12. ASSUME NEW q \in Procs, q # p PROVE (Progress(q) /\ Locking(q) /\ Transaction(q))'
  <2>1. Progress(q) /\ Locking(q) /\ Transaction(q) /\ writer # q
    BY <1>2, <1>12 DEF IInv
  <2> QED BY <1>3, <1>10, <1>12, <2>1, Bystander DEF SetVersion, Goto
<1>13. (Progress(p) /\ Locking(p) /\ Transaction(p))'
  BY <1>1, <1>3, <1>4, <1>6, <1>8, <1>10
     DEF Progress, Locking, Transaction, SetVersion, Goto
<1> QED BY <1>9, <1>11, <1>12, <1>13 DEF IInv

\* The COMMIT puts a whole file on disk, and the version that names it.
LEMMA CommitKeepsIInv == ASSUME IInv, NEW p \in Procs, Commit(p) PROVE IInv'
<1> USE MigrationsAssumption
<1> DEFINE v == at[p]
<1>1. Progress(p) /\ Locking(p) /\ Transaction(p)
  BY DEF IInv
<1>2. /\ v \in installed /\ v > CV /\ writer = p
      /\ pending.done = [disk.done EXCEPT ![v] = Steps]
      /\ pending.rows # <<>> /\ pending.rows[1] = v
      /\ \A w \in installed : w < v => w <= CV
  BY <1>1 DEF Progress, Locking, Transaction, Commit
<1>3. /\ CV \in Nat /\ v \in Nat /\ v \in Versions /\ installed \subseteq Nat
      /\ installed \subseteq Versions
  BY <1>2, Numbers
<1>4. disk' = pending /\ CV' = v /\ installed' = installed /\ found' = found /\ at' = at
  BY <1>2 DEF Commit, CV, CurrentVersion
<1>5. disk.done \in [Versions -> Nat] /\ pc \in [Procs -> Labels]
  BY Types
<1>6. TypeOK'
  BY DEF IInv, TypeOK, Labels, Commit, Goto
<1>7. \A w \in Versions : w # v => disk'.done[w] = disk.done[w]
  BY <1>2, <1>4, <1>5
<1>8. Installation'
  BY <1>2, <1>3, <1>4, <1>7 DEF IInv, Installation
<1>9. SchemaMatchesVersion'
  <2>1. SUFFICES ASSUME NEW w \in installed
                 PROVE  disk'.done[w] = IF w <= v THEN Steps ELSE 0
    BY <1>4 DEF SchemaMatchesVersion, CV
  <2>2. disk.done[w] = IF w <= CV THEN Steps ELSE 0
    BY DEF IInv, SchemaMatchesVersion, CV
  <2>3. CASE w = v
    BY <1>2, <1>3, <1>4, <1>5, <2>3
  <2>4. CASE w # v
    BY <1>2, <1>3, <1>7, <2>2, <2>4
  <2> QED BY <2>3, <2>4
<1>10. ASSUME NEW q \in Procs PROVE (Progress(q) /\ Locking(q) /\ Transaction(q))'
  <2>1. Progress(q) /\ Locking(q) /\ Transaction(q)
    BY DEF IInv
  <2>2. at[q] \in Nat
    BY Numbers
  <2>3. writer' # q
    BY DEF Commit
  <2>4. CASE q = p
    <3>1. pc'[p] = "next"
      BY <1>5 DEF Commit, Goto
    <3> QED BY <1>3, <1>4, <2>1, <2>3, <2>4, <3>1 DEF Progress, Commit, Locking, Transaction
  <2>5. CASE q # p
    <3>1. pc'[q] = pc[q] /\ step' = step
      BY <1>5, <2>5 DEF Commit, Goto
    <3>2. \A w \in Nat : w <= CV => w <= CV'
      BY <1>2, <1>3, <1>4
    <3> QED BY <1>2, <1>3, <1>4, <2>1, <2>2, <2>3, <2>5, <3>1, <3>2
            DEF Progress, Locking, Transaction
  <2> QED BY <2>4, <2>5
<1> QED BY <1>6, <1>8, <1>9, <1>10 DEF IInv

\* A new file has a higher number than the schema.
LEMMA InstallKeepsIInv == ASSUME IInv, NEW v \in Versions, Install(v) PROVE IInv'
<1> USE MigrationsAssumption
<1>1. /\ CV \in Nat /\ installed \subseteq Nat /\ v \in Nat /\ v > 0 /\ CV \in installed \cup {0}
  BY Numbers DEF IInv, Installation
<1>2. v \notin installed /\ v > CV
  BY <1>1 DEF Install
<1>3. CV' = CV /\ disk' = disk /\ installed' = installed \cup {v}
  BY DEF CV, Install
<1>4. TypeOK'
  BY DEF IInv, TypeOK, Install
<1>5. Installation'
  BY <1>3 DEF IInv, Installation
<1>6. SchemaMatchesVersion'
  <2>1. disk.done[v] = 0
    BY <1>2 DEF IInv, Installation
  <2>2. \A w \in installed : disk.done[w] = IF w <= CV THEN Steps ELSE 0
    BY DEF IInv, SchemaMatchesVersion, CV
  <2>3. ~(v <= CV)
    BY <1>1, <1>2
  <2> QED BY <1>3, <2>1, <2>2, <2>3 DEF SchemaMatchesVersion, CV
<1>7. ASSUME NEW q \in Procs PROVE (Progress(q) /\ Locking(q) /\ Transaction(q))'
  BY <1>3 DEF IInv, Progress, Locking, Transaction, Install
<1> QED BY <1>4, <1>5, <1>6, <1>7 DEF IInv

\* The inductive invariant of the migration runner holds in every reachable state.
THEOREM Migration == ASSUME AllReadable, NoneRepeatable PROVE Spec => []IInv
<1>1. IInv /\ [Next]_vars => IInv'
  <2> SUFFICES ASSUME IInv, [Next]_vars PROVE IInv'
    OBVIOUS
  <2>1. CASE UNCHANGED vars
    BY <2>1 DEF vars, IInv, TypeOK, Installation, SchemaMatchesVersion, Progress, Locking,
                Transaction, CV
  <2>2. ASSUME NEW p \in Procs, Start(p) \/ Apply(p) \/ Kill(p) PROVE IInv'
    BY <2>2, LocalKeepsIInv, SeedKeepsIInv, StatementKeepsIInv, SetVersionKeepsIInv,
       CommitKeepsIInv DEF Apply
  <2>3. ASSUME NEW v \in Versions, Install(v) PROVE IInv'
    BY <2>3, InstallKeepsIInv
  <2> QED BY <2>1, <2>2, <2>3 DEF Next
<1> QED BY <1>1, InitIInv, PTL DEF Spec

-----------------------------------------------------------------------------
\* MigrationRunner::apply, any number of processes, any of them killed anywhere: the
\* disk has exactly the installed files that schema_version says, each in full, once.
THEOREM SchemaIsItsVersion == ASSUME AllReadable, NoneRepeatable PROVE Spec => []SchemaMatchesVersion
<1>1. IInv => SchemaMatchesVersion BY DEF IInv
<1> QED BY <1>1, Migration, PTL

\* Database::open that finds the migrations returns true only on a database with every
\* installed one.
THEOREM OpenIsCurrent == ASSUME AllReadable, NoneRepeatable PROVE Spec => []OpenMeansCurrent
<1>1. IInv => OpenMeansCurrent
  BY DEF IInv, OpenMeansCurrent, SchemaMatchesVersion, Progress, CV
<1> QED BY <1>1, Migration, PTL

\* Every file is applied at most once when its statements fail the second time.
THEOREM AppliedOnce == ASSUME AllReadable, NoneRepeatable PROVE Spec => []AppliedAtMostOnce
<1>1. IInv => AppliedAtMostOnce
  <2> SUFFICES ASSUME IInv, NEW v \in Versions PROVE disk.done[v] <= Steps
    BY DEF AppliedAtMostOnce
  <2>1. CASE v \in installed
    BY <2>1, MigrationsAssumption DEF IInv, SchemaMatchesVersion
  <2>2. CASE v \notin installed
    BY <2>2, MigrationsAssumption DEF IInv, Installation
  <2> QED BY <2>1, <2>2
<1> QED BY <1>1, Migration, PTL

=============================================================================
