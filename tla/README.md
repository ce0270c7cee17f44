# PulsePort: verification development

TLA+ models of PulsePort, TLC configurations that check them on small instances, and
TLAPS proofs about them for every value of their constants. Paths are relative to the
repository.

PulsePort is one Windows process: a sampler thread reads counters once a second into a
registry, an aggregator folds them into rollups, a storage layer keeps these in SQLite,
an HTTP server shows them and deletes them on request. The difficulty is not in any
one of these parts but where they meet: one SQLite connection under several threads,
a shutdown that takes four threads down in order, two processes on one database file.

## 1. Inventory

| Component | State | Operations | Meets the others by | Hard behaviour |
|---|---|---|---|---|
| **Storage** (`src/storage/writer.cpp`, `reader.cpp`, `database.cpp`) | the database, the connection's transaction and `sqlite3_changes`, `mutex_` | `write_*`, `delete_history`, `delete_all_history`, `cleanup_expired`, `query_*` | one shared connection (FULLMUTEX), called by the sampler and the HTTP pool | the writer locks, the reader does not; a transaction belongs to the connection, not to a thread; crashes; return codes are ignored |
| **Service lifecycle** (`windows/service_control.cpp`, `apps/pulseport-service/main.cpp`, the thread halves of `core/sampler.cpp`, `server/http_server.cpp`) | stop flag and condition variable, `running_`, thread states, the handle, the reported service status | `service_main`, `run_application`, the control handler, `wait_for_stop`, `Sampler::start/stop/run`, `HttpServer::listen/stop` | flags, joins, notifications | lost wake-up, late requests, a sampler that died by itself, a port that is taken |
| **Migration runner** (`storage/migration_runner.cpp`) | `schema_version`, the schema, the files | `ensure_version_table`, `current_version`, `discover`, `apply` | `Database::open`; other processes on the same file | races between processes, kills between statements, failed COMMIT, unreadable files |
| **Aggregator** (`metrics/aggregator.cpp`) | working buckets, `current_bucket_ts_`, `last_day` | `accumulate`, `flush_1m`, `flush_15m`, `finalize_daily` | the collector `aggregator_flush` on the sampler's thread, the main thread at shutdown, the storage | flush in mid-minute, range inclusive at both ends, a day's record at every shutdown, crashes, a clock that is set |
| **Sampler scheduling** (`core/sampler.cpp`) | elapsed time per collector | `run` | calls all collectors in order | collectors that throw or return early, intervals that are no multiple of the tick |
| **MetricRegistry, RingBuffer** (`core/metric_registry.cpp`, `ring_buffer.h`) | last samples, ring and its positions | `push_sample`, `snapshot`, `push`, `peek_last` | a shared mutex | positions that have gone round |
| **PowerPipeline** (`metrics/power_pipeline.cpp`) | energy, rolling window | `update`, `avg_watts`, `reset_daily` | sampler writes, HTTP reads | no lock; gaps; a clock that jumps; old readings that come again |
| **AlertEvaluator** (`metrics/alert_evaluator.cpp`) | count of violations and last alert per rule | `evaluate` | registry, `write_event` | cooldown by the wall clock, readings that fail to come |
| **Configuration** (`config/config_manager.cpp`, POST /api/v1/config) | `runtime_cfg`, the file | `load_config`, `save_config`, the POST setting by setting | HTTP threads, maintenance collector | partial failure, unlocked fields, non-atomic save, two paths |
| **Windows collectors** (`windows/*_collector.cpp`) | which of them and of their counters could be opened | `collect_pdh`, `collect_thermal`, `collect_processes`, `collect_battery` | pushes into the registry, one at a time | early returns and exceptions between the pushes |
| **Web dashboard** (`web/src`) | telemetry store, `connected`, poll loops, a page's fetch and its spinner | `usePolling`, `updateMetrics`, `useApi`, `handleDelete` | fetches of the HTTP routes | answers that come late, of pages that were left and URLs that changed |
| **HTTP routes, self metrics, logging, packaging** | - | - | - | the routes that change something are in the modules of what they change |

What makes each correct:

- Storage: a batch is on disk as a whole or not at all; what a returned write promised
  survives a crash; what a returned purge removed stays away; no deletion without
  its audit row and no wrong count in it; no transaction left open.
- Lifecycle: no thread uses what the shutdown has taken away; STOPPED is reported when
  everything is gone; a stop request ends the wait, and a shutdown ends.
- Migrations: the schema is always the one the version names; nothing is applied twice;
  a process that serves has the whole schema; no lock is kept.
- Aggregator: a row holds the samples of its own bucket; what is lost is lost for a known
  reason; a finished day has a complete record.
- Collectors: each keeps its period whatever the others do; a list of processes is one enumeration's.
- Configuration: a setting in range stays so wherever it acts or is read back; what a request
  answers is what it saved; its file keeps it; a restart brings it back.
- Ring buffer, pipeline, alerts: the newest items; energy counts no second twice;
  an average is that of its window; alerts come after a sustained violation only, the cooldown
  apart, and do come.
- Dashboard: one poll loop sends; each sample or a later one is shown; the status is the server's;
  what is deleted is what was confirmed.

## 2. Modules and how they correspond to the code

`PROJECT.json` maps every definition to its lines.

### Storage

`StorageRows` has the tables, their primary keys (`Replaces`) and what one SQL statement
does to them. `Storage` is the code: every `sqlite3_exec` / `sqlite3_step` is one action, since
FULLMUTEX serialises them and nothing joins two. `BEGIN` in an open transaction
fails and the code does not look: `Begin` leaves it open. `COMMIT` ends whatever is open,
whoever began it. `visible` is what the connection sees, `durable` what a restart finds.
Values are abstracted to the call that wrote the row; `acked`, `erased` and the `gone` part
of a database are history. Three more histories name the calls that another thread's statements met:
`shared` (some other call was under way beside it), `split` (a foreign BEGIN or COMMIT, or a crash of `delete_history`,
divided what it did into a durable part and one that is not) and `miscounted` (a foreign data statement
came between one of its DELETEs and `sqlite3_changes`). No step is restricted by them: every overlap is in the model,
and the properties say what each may cost.

`AtomicStore` is the promise of the docs, one step per operation. `delete_history` opens no transaction and has no such
step. `Storage!UnsharedCallsAtomic` states that `durable` changes as `AtomicStore` says of a call
beside which no other was under way (`delete_history`: its deletion in one step, its audit row in another), while other calls
overlap before and after it.

`Crash` is the death of the process, not of the machine: in WAL mode with
`synchronous=NORMAL` what was committed survives the former. It is one step at which all
threads, the lock and the open transaction go.

### Service lifecycle

`ServiceLifecycle` has one program counter per thread. `main` walks through `service_main`
and `run_application`; `check` / `blocking` / `blocked` are the three states of
`wait_for_stop`'s `cv.wait`, because `signal_stop` stores and notifies without the mutex. The
sampler's thread starts, waits for its timer, collects, and ends in four ways (stopped,
no timer, time-out, or never started). The server listens, fails, or drains its pool:
cpp-httplib is external and modelled from `main.cpp`'s use of it: `stop()` closes the listening socket
and `listen()` returns when the accepted requests are done. A `stop()` that comes before
`listen()` has no socket to close and does nothing.

### Migrations

`Migrations` has several processes, each with its own connection, that run `Database::open`
one statement at a time. A file is its version number; its UP section has `Steps` statements.
`disk.done[v]` is how many of them are on disk. A statement fails at any time
(busy, full), and must fail where its table or column exists already; files in
`Repeatable` do not. `Unreadable` files may be missed by `discover`, which finds nothing at all, and reports success, when
there is no directory (migration_runner.cpp:83). A process may be killed
anywhere, and updates add files while no process runs. Two files of one version number, of which
the runner would apply both, are not in the model; the repository has none.

### Configuration

`Configuration` has `runtime_cfg` (`cfg`), the two parts that copy from it (`thresholds` at the start,
`retention` at every maintenance) and two files: the one beside the database, which POST
writes, and another one, which nothing writes. `Start(path)` reads either, as `main` takes `--config`
or `config.json` in the current directory. Before the first start somebody may have put anything into either (`given`). A POST is one step per
setting, since nothing locks `runtime_cfg`: `Apply` in the order of the handler (`ApplyOrder`), then `OpenFile`,
which truncates, `Dump` in the order of `to_json` (`DumpOrder`), `Write` at the stream's close and
`Reply`. A wrong type throws out of the handler (`ApplyThrows`), a value out of range is passed
over, a save that fails is not noticed (`OpenFails`, `WriteFails`). Two saves at a time write
over each other; a text over a longer one leaves that one's rest (`Garbled`), which does not
parse. `Load` turns everything that does not parse into the defaults, and fills in the settings that
are absent; it checks no range, as `from_json` does not, and takes a value out of range from a file written by hand as it stands.
Only the settings that a POST
may change are modelled, all others stay as loaded. `alone`, `kept` and `saved` are
history: a POST that no other one overlapped, and the configuration of the last such save
until the next one opens the file.

### Aggregator

`Aggregator` has the working buckets, `metric_1m`, `metric_15m` and `energy_daily`, with one action per
handler: `Accumulate`, `CollectorFlush` and `DayBoundary` (the two halves of the collector `aggregator_flush`), `Flush15m`, and
the main thread's `FinalFlush` and `FinalDaily`. A row is the set of samples it was computed from: count,
average, extremes and worst quality are functions of it. `reading` is the time of each metric's last sample in the registry. In
each tick every metric that has one is accumulated, one call each (`calls`, `Accumulate`), under the sample's own time: that
of a metric whose collector failed is an old one, perhaps of an earlier minute, and then turns the bucket
back. A sample carries the number of its tick, `taken` and `crashed` are history. Seconds pass (`Tick`, `Wait`), the clock may be set once,
and the process may stop, crash and start again anywhere.

**`accumulate` and `flush_15m` have no caller in the program**: today its tables of aggregates
stay empty. The module calls them as `include/pulseport/aggregator.h:20-27` says: `accumulate` each second, `flush_15m` now and
then. What it checks is what the class does once somebody wires it up; `flush_1m` and
`finalize_daily` are called as `main.cpp` does. The early returns of `finalize_daily` for a day
that is none (aggregator.cpp:133-142) are left out, as both of its callers give it a date they have formatted themselves.

### Power

`PowerPipeline` follows a power reading from the battery collector through `MetricRegistry` and
`RingBuffer` into the pipeline and out through `avg_watts` in the HTTP pool. The registry is under a
mutex, so each of its operations is one step. The window, head, count and `last_ts_` are plain
members that `update` writes while `avg_watts` reads: a data race, whose outcomes the model
enumerates. The five writes of an update become visible one by one in any order (`Write`), and a
reader loads head, count and `last_ts_` in any order between them (`Load`). The loop
over the slots may load head and count again in each turn (power_pipeline.cpp:37-38), or not, if the compiler keeps
them in registers: from some turn on, each of its own, it sees those of the present (`Scan(seen, grown, cutoff)`). So a head that moves in the middle makes it count one
slot twice; `counted` is a sequence, not a set, to show that. The turns together are one step (`AvgWatts`): one update
at most overlaps the call, it writes one slot, and one turn at most comes by that one, wherever the head moves. As the
writes become visible in any order, some moment between them shows whatever the turns could have
seen one after the other. A slot is two words which may
be of different updates. A slot holds the number of the update that wrote it, from which its
time and watts follow, so that the properties can say which readings an average counts.
A reader finishes before the next tick.

### Alerts

`Alerts` evaluates the rules every `FlushEvery` ticks from whatever the registry holds. A reading
is its side of the threshold, `unknown`, or `none`; a collector that fails leaves the old one. `lastAlert` is wall
clock, as in the code, and the clock may be set once. `Tick` takes one to
`MaxWait` seconds. That there is such a bound is an assumption on the collectors: sampler.cpp:87 bounds only
the wait for the timer, and a WMI query may take as long as it likes (`WBEM_INFINITE`, thermal_collector.cpp:93). `AlertsInTime` states
its time with this bound, and its theorem holds for every bound. `highSince` and `calmAt` are history.

### Collectors

`Collectors` is the loop of the sampler's thread with `elapsed_ms` per collector and three of the collectors: each
early return is an alternative, each `push_sample` a step, and an exception may come in any state
of a collector (`Throw`). What holds in every state holds of a snapshot that an HTTP thread takes
between two pushes. A process has a name by `NameOf`, which several may share: `\Process(*)` names instances of one image
alike (process_collector.cpp:73), wide characters are cut off (:107), and what is pushed is a hash as a double (:133).
The loads of processes are values, other readings are not: only the
processes are sorted by theirs.

### Dashboard

`DashboardState` has the state and the safety properties, `Dashboard` the steps: the loops of `usePolling`, one per page opened, the telemetry store as the second of the sample it
shows, and the history page's `useApi` with its URL, spinner, refresh and delete buttons. Its second fetch, of `/events`, is left out:
it loads the same way and only puts marks on the chart. A fetch is two
actions, the server's answer and the callback, and everything in flight may be answered in any order.
The server goes down, throws (500) or starts anew with an empty registry. A page that is left
only clears its loop's flag (`Navigate`). `shown` in a loop is history: what the store had when it sent or
last had an answer.

### MC modules

Each `MC` module gives the instances of its component: who calls which operation, how many
threads, which cutoffs, intervals and jumps of the clock. Two runs also restrict
the steps, for size:

- `MCAlerts!OneRuleSpec`: readings come for one rule at a time. The rules share the clock
  and the tick only, so every behaviour of one rule is among them.
- `MCDashboard!ApartSpec`: the history page is opened when the loops have ended. It shares
  nothing with them but the server.

## 3. Runs

| Run | Asks | Result |
|---|---|---|
| `storage_program` | what holds under the program's own wiring (the sampler writes, records events and purges; two HTTP threads delete; crashes), every overlap included | no leaked transaction, acknowledged batches durable, purged rows stay away; deletions audited and counted but where a foreign statement divided the call; autocommit again and again; a call that ran alone takes effect as a whole or not at all |
| `lifecycle` | start to stop, with a sampler and a port that fail | quiet sampler, STOPPED last, the shutdown ends |
| `lifecycle_lost_wakeup` | does a stop request end the wait | **no**: it may fall between test and sleep |
| `migrations` | two processes, kills, failures, updates | schema and version agree, open means current, the lock is released |
| `configuration` | two threads' POSTs mixed, saves that fail, exits, files by hand, starts that read either file | settings in range stay so, answers are saved, the file keeps the save |
| `configuration_restart` | does a restart bring back what was saved | **no**: as installed it reads another file than POST writes |
| `aggregator` | which rows hold which samples, old ones included, and what is lost, under stops, crashes and a clock that is set | each row its own bucket's, two known losses and no other, a midnight that was seen leaves a complete day |
| `power` | what an unlocked reader can see; what energy counts | an average that no update overlaps is its window's; an overlapped one has one reading too many and one too few (two, once the clock was set) and one counted twice at most, or is 0 W; no second's energy counts twice |
| `alerts` | when alerts come | after a sustained violation, the cooldown apart, in bounded time |
| `collectors` | the schedule and the list of top processes | each keeps its period; one enumeration's list; in a snapshot one mixed slot at most |
| `dashboard` | loops, late answers and faults | only the open page's loop sends; no answer shows less than its loop has shown before; the status is true in the end; no spinner stays |
| `dashboard_delete` | does the button delete what it asks about | **no**: it deletes the rows of every metric |

The disagreements that have a run are under "findings" in `PROJECT.json`, with the line of the docs or the
code that says otherwise.

### Known deviations

These properties hold where the runs check them and are known not to hold more widely. Each says what to
change to see it.

- **Calls that overlap a purge.** `UnsharedCallsAtomic` without its last disjunct (`job[t].call \in shared'`) fails in
  the instance of `storage_program.cfg`: the COMMIT of `delete_all_history` (reader.cpp:191) ends the
  transaction in which the sampler is writing, and a crash then finds half a batch
  (docs/architecture.md:150 promises batches in transactions; the reader that it calls read-only at :152 has no lock).
- **Unaudited deletions.** `DeletionsAudited` without `split` fails there: `delete_history` autocommits
  its DELETE (reader.cpp:145) before the INSERT of the audit row, and the process may die
  between; or another thread's BEGIN comes between, and the audit row is lost with that transaction
  although the call has returned (docs/api-reference.md:406, SECURITY.md:32). Without `miscounted` it fails as well: a `cleanup_expired` that reads
  0 from another thread's statement records nothing.
- **Wrong counts.** `AuditCountExact` without `miscounted` fails there too: `sqlite3_changes` is a call of its
  own (reader.cpp:147), and another thread's statement may come before it.
- **Requests on a closed database.** `ServiceLifecycle!HttpStoppedBeforeClose` fails in the instance of `lifecycle.cfg`:
  `server.stop()` (main.cpp:209) lets the requests in flight go on, and they are joined only after
  `database.close()` (docs/architecture.md:66).
- **Unreadable migrations.** With `Unreadable = {2}` in `migrations.cfg`, `OpenMeansCurrent` fails: the file is
  passed over (migration_runner.cpp:102) and a later one raises the version above it for
  good (docs/architecture.md:169).
- **No migrations directory.** A start that finds none reports success and serves whatever schema is there
  (migration_runner.cpp:83). `OpenMeansCurrent` without `found[p] # {}` fails.
- **Repeatable migrations.** With `Repeatable = {2}`, `AppliedAtMostOnce` fails: two processes read the
  version before either one's BEGIN (docs/database-schema.md:43). No file in the repository is of that kind.
- **Two configuration files.** `FileKeepsTheSave` speaks of the file that POST writes. That a restart reads it is
  violated by the run `configuration_restart`: POST writes `config.json` beside the database (main.cpp:183-188,
  http_server.cpp:485), a start reads what `--config` names or `config.json` in the current directory (main.cpp:250-254,
  docs/configuration.md:9-12), and the installed service has only `--service` (packaging/windows/Product.wxs:52), while README.md:88 says
  that the configuration of an installed service is the one beside its database.
- **Values by hand.** `from_json` checks no range, so a file written by hand puts a setting out of range until
  a POST with a value in range; `SettingsInRange` leaves such a setting out.
- **A part of a minute.** A minute that is flushed in its middle keeps only what came after the last flush,
  since `flush_1m` writes with INSERT OR REPLACE. `LossesExplained` names this loss and the
  crash as the only two.
- **A midnight nobody saw.** `SeenDaysComplete` covers the days whose end `aggregator_flush` has seen. A midnight between its last
  run and a shutdown has only today finalized (main.cpp:213), and the day before keeps what an earlier shutdown wrote,
  or nothing (aggregator.h:29, docs/database-schema.md:281).
- **A row in two quarters.** The range of `flush_15m` includes both ends: the row at `bucket_end` is in this quarter and the next.
  `RollupsOfTheirQuarter` allows that row and no other.
- **A frozen status.** A server that answers 500 to everything leaves `connected` as it was
  (use-websocket.ts:62): `StatusIsTrue` and `ShowsEverySample` speak of a server that is up or gone (docs/websocket-protocol.md:66
  names success and fetch error only).
- **An average of nothing.** An `avg_watts` that an `update` overlaps may answer 0 W: a new head
  that is visible before the time in its slot stops the loop at its first turn. power_pipeline.h:39 says that no lock is
  needed as one thread updates; HTTP threads read.

Plain differences of text and facts met on the way, without a run:

- docs/configuration.md:150 says that the parser accepts `http_port` and `bind_address`, :116 that paths may
  be set in the file; `from_json` reads neither. :197 and docs/api-reference.md:417 call the POST not
  implemented. The alert thresholds are copied at the start (main.cpp:101) and a POST
  does not reach them.
- docs/architecture.md:137 says that the energy's gap is clamped to 10 s; the code drops longer gaps. When a
  collection fails, the last reading enters the window once more. A window of 60 s counts up to 61
  readings. `pop` has no caller; after the writer has lapped it, it would return newer items in
  the places of older ones. tests/unit/test_ring_buffer.cpp:27-30 and :47-51 expect the most recent item first,
  ring_buffer.h:46-47 says and does the oldest first. The test does not compile against the header (`push` returns nothing,
  ring_buffer.h:21, and there is no `snapshot()`), so which of the two is meant is open: `RecentAreNewest` asks for the newest items in either
  order.
- `proc.top*.mem_mb` is registered and documented (docs/collectors.md:155) and never pushed; the name of
  a slot without a process stays. `mem.used_pct` does not come from PDH and is missing
  when its query fails. An interval below 1000 ms acts as 1000, 1500 as 2000
  (docs/configuration.md:100 recommends 500 as the least).
- The store merges an answer where docs/websocket-protocol.md:67 says that it replaces. `AnswersInTurn` says nothing of an
  answer without the metric, and holds of both. `useWebSocket` is used by no page; the history page's URL holds the
  second, so that every rendering in a new second fetches again.

Hazards met that have no property: a second control that is handled late reports STOP_PENDING after STOPPED
(service_control.cpp:81); `post_tick_` is assigned while the sampler's thread may read it (sampler.cpp:101); an update
that adds a file with a number below the version (migration_runner.cpp:154); `WBEM_INFINITE`, which may
hold the sampler's thread for ever (thermal_collector.cpp:93); the query that
`collect_processes` leaves open when an allocation throws (process_collector.cpp:94), and a `_com_error`,
which is no `std::exception` and would end the process; the answer of an older URL that
overwrites the data of a newer one (use-api.ts:32).

### Bounds

- `MaxCalls` (3): storage calls in one behaviour. A call of each of two threads is
  enough for every interference found, and a third adds what a later call sees
  of it; the proofs have no bound. Two keys, so that a batch has a middle. One time at which rows are written and three
  kinds of cutoff: rows of the 1-minute table are older than it, events exactly as old, the other tables
  have no retention.
- Two HTTP threads beside the sampler, one of which deletes ranges only: every two operations may overlap, and all three threads
  be under way.
- Two stop controls (a second one arrives during the shutdown; one in `lifecycle_lost_wakeup`), two threads in the pool.
- Two processes, three files of two statements: a kill between the statements of a
  file, after the first of two pending files, and beside another process.
- Configuration: two POSTs of two threads, three starts, one setting of each kind with two values
  in range; either file may be missing, garbled, or written by hand with one setting out of range and the other absent. Two POSTs overlap and spoil the file, or the second repairs
  what the first one spoilt; the starts read either file before, between and after them; two settings are what it takes to have one applied
  and the other not. `configuration_restart`: one thread and starts from the other file, which is missing.
- Aggregator: minutes of two seconds, quarters of two minutes, days of two quarters, a flush every second tick; five seconds
  from a start close to the end of a day. Waiting before the start (`Wait`) gives both parities, so a flush falls in the middle of a minute
  and at its end. A quarter and a day end with the service running, stopped or crashed. Two metrics: new samples of both, of the one that is
  not power, or of none, so that power's is of an earlier minute, quarter or day when it comes again. One jump of the
  clock sets it back over a minute or ahead into another day.
- Power: a window of four slots and a buffer of three, which five ticks take round; averages of 0 s and 2 s; gaps of up to 2 s count; one reading that is
  2 W or 0 W, a jump back and one ahead, midnight after the third second. Three slots would be too few:
  the two readings that an average misses after a jump back first show with four.
- Alerts: one rule that alerts at once and one that needs two periods; ticks of one or two seconds, a cooldown of three,
  thirteen seconds in two runs: two alerts of one run with their cooldown, or a jump and an alert beyond it.
- Collectors: three processes, two of one name, on two slots; intervals below the tick, between two multiples of it and at one; five turns, two exceptions.
- Dashboard: three pages after the first one, two seconds, one fault, one click. Two pages are what it takes to
  leave a fetch behind, the third leaves two.

### Fairness

- `Storage!FairSpec`: weak fairness of each thread's `Step`: a call in progress
  runs on. No step of a call waits for another thread (only `BatchBegin` waits for the
  mutex, and that is not in `Step`), so this asks for the operating system's
  scheduler only. Nobody has to make a call; crashes are not fair.
- `ServiceLifecycle!FairSpec`: each thread runs, the waitable timer that was set fires within
  the two seconds the sampler waits for it, and a request ends. No control has to be sent,
  and no spurious wake-up, time-out or failure has to occur.
- `Migrations!FairSpec`: a started `apply` goes on. A statement that finds the write lock taken
  fails after `busy_timeout`, so `Apply` is always enabled until it is done.
- `Dashboard!Fairness`: every fetch is answered or fails, callbacks and timers run, a page that has
  to render renders. No page has to be opened and no server comes back.

`CHECK_DEADLOCK FALSE` is set in the lifecycle runs, where the process really ends, in that of
`Configuration`, where it has ended with the starts used up, in `aggregator`, `power`, `alerts` and `collectors`, where the bound
on the time is reached, and in the dashboard's, whose last page may be one with nothing left to do. Of these only the lifecycle's and the dashboard's
state liveness; `AlertsInTime` says in seconds what would be liveness without the bound.

## 4. Proofs

All are checked by TLAPS to the last leaf and hold for all values of the constants under the
modules' ASSUMEs (`RowsAssumption`, `StorageAssumption`, `MigrationsAssumption`,
`OrdersAssumption`, `ValuesAssumption`, `FilesAssumption`, `BoundsAssumption`, `AggregatorAssumption`, `PipelineAssumption`,
`AlertsAssumption`, `CollectorsAssumption`, `DashboardAssumption`). These ask for numbers where the code has numbers, for
positive periods and sizes, and for finite sets of counters and processes. What a theorem assumes
beyond them is in its statement and below. Every invariant and every action property of the passing
runs is stated by one of the theorems; what remains with TLC is liveness.

- **`StorageProofs`**, of `Spec` throughout: any threads that call what they like in any overlap. `TypeCorrect`, with the typing of a call's locals
  added (`JobOK`: the position in the list of tables is in range where a table is looked up) and what threads know of calls
  (`CallsInv`: those under way are different ones, and no deletion, audit row or history names a call that was not made).
  - `NoLeakedTransaction` is inductive with the types: `txn` becomes TRUE
    only by a `Begin` that puts its own thread into a transaction, and a thread leaves
    one only by a COMMIT.
  - `AckedBatchesSurvive`. Durability of returned batches is not inductive:
    a batch may return while its rows are not on disk only if no COMMIT ran, and its own
    did. `AckInv` adds that without a transaction disk and view agree
    (`AutocommitDurable`), that a batch in progress holds the mutex (`BatchHoldsMutex`), and
    that the rows it has put are there unless a purge has taken them (`PutRowsKept`).
  - `ErasedRowsStayErased`. A deleted row could only come back by being put again or by a crash.
    `ErasedInv` excludes the first, as every row that a batch has still to put is unlike all there ever
    were (`RowsAreNew`: it carries its call), and keeps deleted and present rows apart on
    the connection, on disk and in the returned purges (`GoneIsGone`); the second is `AutocommitDurable`.
  - `AuditCountsAreExact`. `CountInv`: as long as a call is not `miscounted`, its running total, with the
    `sqlite3_changes` it is about to read, is the number of the rows it has deleted so far (`CountSoFar`). A row is
    deleted once, so the numbers of table after table add up: cardinalities of disjoint unions. A call
    writes one audit row, behind its last DELETE (`NotAuditedYet`), after which nothing changes either number.
  - `DeletionsAreAudited`. `RecordInv` says of an undivided call what keeps deletion and audit row together: a purge
    has a transaction open and nothing of it is on disk (`PurgePending`), with the audit row in it before the COMMIT unless
    it counted nothing (`AuditWritten`); a `delete_history` is in one transaction of others, which takes
    both or neither, or in none, where only a crash or a BEGIN can come between its two statements (`RangePending`).
  - `UnsharedCallsAreAtomic`, the refinement. `AloneInv` says of a call beside which no other has been: nobody else is under way, no statement of
    others spoilt its count, and the open transaction holds, for a batch, the
    database from before with the rows put so far (`Writing`); for a purge, that database less what the tables
    up to the present one had to lose (`Purging`, `SweptOf`), with the counts up to here being the number of those
    rows; for `delete_history` there is none (`Ranging`). A COMMIT is then `WriteBatch`, `DeleteAllHistory` or `CleanupExpired`
    of the promise with the call's own arguments, and a crash takes the transaction with it. A call begins like this as nothing under way
    means that everything is on disk (`NoLeakedTransaction`, `AutocommitDurable`), whatever overlapped before.
- **`LifecycleProofs`**: `TypeCorrect`, `SamplerQuiet`, `StoppedIsLast`. `IInv` ties the main thread's
  step to the states of the others: `running_` tells whether the sampler may still be
  alive (`RunningTellsSampler`: when it is FALSE before the shutdown, the thread has
  failed to set its timer and is gone, which is why skipping the join is harmless), the
  pool serves only while the server listens or drains, and the handle is
  open from `openDb` to `closeDb`.
- **`MigrationsProofs`**: `TypeCorrect` for any files, and `SchemaIsItsVersion`, `OpenIsCurrent`, `AppliedOnce`, assuming that every file can be
  read (`AllReadable`) and none succeeds twice (`NoneRepeatable`); neither can be
  dropped (section 3). What a process knows of the version is stale,
  but the version only grows (`Progress`); the lock covers first statement to COMMIT
  (`Locking`); and the transaction's content is the disk's with this file's statements
  added (`Transaction`). A process that lost the race finds `done[v] # 0` and fails.
- **`WebProofs`**, of what the browser meets: `Configuration`, and `Dashboard` by `D == INSTANCE Dashboard` over the variables of `DashboardState`.
  - `TypeCorrect` and `SettingsStayInRange`. A setting is in range or what one of the first files had (`Legal`), so one
    that both files had in range or left out is in range. Besides the types this needs only that what `to_json` has passed
    is in the text (`ReadOut`), so that nothing half-written is saved as a whole.
  - `AnswersAreSaved` and `SavesAreKept`, for any files and whichever of them the starts read, follow from `AloneInv`:
    nobody is under way beside a POST marked alone (`NobodyBeside`), what it has passed of its body is in
    force (`Applied`) and what it has written out is what is in force (`Dumped`), while the last
    save is kept nobody has opened the file (`Kept`), and a thread without a request is at its beginning (`Stopped`, `Rewound`).
  - `OneLoopPolls`, an action property: the flag of a loop is up for the last page opened only (`LastLoop`), and a loop
    awaits the one fetch it has sent (`Awaiting`); so who sends is the open page's loop, and has had its last answer.
    `ShownInOrder`, another one: what is shown, was shown to a loop or is on its way is of seconds that have passed, and not newer than
    what the registry holds, unless that started anew and is empty (`Seconds`); an answer with the metric is therefore at least what
    its loop has shown (`InTurn`).
- **`AggregatorProofs`**: `TypeCorrect`, `RowsCorrect`, `LossesAccounted`. That a row holds only its own minute needs that what
  the buckets hold is of `current_bucket_ts_` (`BucketsHoldTheirMinute`), and that its 0, "no bucket yet", is never the number
  of a minute (`Numbered`; this is why the clock stays beyond the first minute of 1970). That
  nothing is lost otherwise needs that samples come in the order of the ticks
  (`SamplesInOrder`): what replaces a row is then a later part of its minute.
  - `RollupsComplete`, `MidnightsComplete` assume `DaysFit`: a day is a number of minutes below the LIMIT of
    the query (1440 of 10000), a quarter fits in it, and a flush comes once a day at least. The LIMIT then
    cuts nothing off (`AllRowsFound`: the rows of a key have different minutes, and there are
    fewer of these in a day). `Rolled` adds that no minute has two rows and that a rollup is not from the future; for
    the days, `Scheduled` and `NearMidnight` bound how long after midnight the flush comes and say that
    what the buckets hold, and what the registry may bring again, is not of the day before `last_day` or is of a minute that has its row
    already. The latter needs `ReadingsKept`: the registry's last sample of a metric is in its row or its bucket, or its
    `accumulate` is still to come in this tick. An old reading therefore only replaces a row, and adds none to a day that is closed.
- **`AlertsProofs`**: `TypeCorrect`, `AlertsAreSustained`, `AlertsAreSpaced`. A count of n violations has taken n periods since the
  last calm evaluation and since the rule's last alert (`CountsTakeTime`), `last_alert_ts` is the wall clock's time of
  that alert (`LastAlertIsLatest`), and the alerts of a run after the clock was set come after those
  before (`EventsInOrder`), so that the wall clock's cooldown is real time between alerts that no jump separates.
  - `AlertsComeInTime`, the bound from above: the next evaluation is at most the rest of the period away
    (`Until`), and `Punctual` compares that second with the count: violations n+1 periods after the first
    reading, and a count that is full without an alert only while the cooldown lasts, which a clock set back makes longer by the jump.
- **`PowerProofs`**: the path of a reading from the ring buffer to an average.
  - `PeekGivesNewest`: slot k of the ring holds item k of those pushed, for the last `Capacity` ones (`RingHolds`),
    and numbers that are that close have different remainders.
  - `EnergyIsOfRealSeconds`, for powers with a greatest one: once a reading is counted, the energy is the seconds' power at most,
    plus one longest gap if the clock was set since, and equal to it while there were no gaps (`Rested`); between
    push and update it lacks the last gap (`Owing`).
  - `AveragesAreOfTheWindow`: `WindowInv` says of which update each word of the window, head, count and `last_ts_` are,
    those in `pending` being one behind; `InOrder` that times do not go back unless the clock did. One update at most
    overlaps a call, so that each loaded member is of before or after it (`CallInv`). A call that nothing
    overlaps finds the window as it is (`QuietScan`): the loop's early end at the first old reading loses none, as times are in order; where
    they are not, the definition `Reference` stops as the loop does. For an overlapped call the proof splits on the loaded head:
    with the old one the scan sees the newest update only in the slot of the oldest (`ScanBefore`), with the
    new one it begins in the slot that may hold either word of either (`ScanAfter`); count and cutoff move its end
    by one each. A head or count that moves in the middle of the loop (`Turn`, `TurnScans`) repeats one slot, the one before the move, and
    is otherwise the scan with the old head. A set counted that lies within a scan of m slots has at most m members, which gives the bounds.
    This proof showed that an earlier form of `AverageOfWindow`, one missing reading at most, is false with four slots and a clock that
    was set back.
- **`CollectorsProofs`**: `CollectorsKeepTime`: a collector's `elapsed_ms` is the time since the last turn that is a multiple of
  its period, whether it then returned early or threw (`OnTime`). `NamesComeAfterLoads`: in what is
  still to push, each load is followed by its name (`FollowedByName`, `AfterLoad`), so that one slot is in between
  (`Naming`), and an exception leaves that one mixed (`NamesInv`). `ListsAreWhole`: a sample of the last enumeration's slots is the
  metric's or still to push (`ListInv`), and the keys are different (`EntryKeys`). The plan is a `FlattenSeq` of
  parts: that every part of it is whole is shown with a smallest counterexample (`LeastNumber`, `SetInduction`).

Only model-checked is liveness, as fairness and ENABLED are out of the prover's reach: `ChangesReachDisk`,
`ShutdownCompletes`, `LockReleased`, `ShowsEverySample`, `StatusIsTrue`, `LoadingEnds`. The three properties that
are violated, and the deviations of section 3, are counterexamples, which TLC finds.

## 5. Plan

Done in this order: Storage, ServiceLifecycle, Migrations, Configuration; Aggregator and
Alerts; PowerPipeline, Collectors, Dashboard, each with its proofs. Next:

1. Statement failures in `Storage` (SQLITE_BUSY, SQLITE_FULL), whose codes the code ignores
   (writer.cpp:29): which of the promises survive a row that is dropped.
2. The opposite direction of two theorems: a lower bound on how often readings come for
   `AlertsInTime`, and for which schedules an average is never the 0 W of an overlapped call.
3. The routes for energy and capabilities, if they come to change something.

## 6. Not modelled

`query_*` and the GET requests for events, energy, capabilities and diagnostics (they change nothing;
`query_history`, which the rollups are made from, is in `Aggregator`), `resolve_paths` (which sets paths only), edits of the configuration by
hand while the service is installed (files written by hand before the first start are in `Configuration`), request parsing and JSON, static files, the WebSocket list
(no route ever adds to it), the readings of `collect_battery` other than power, self metrics (a record of counters nothing depends on) and the log,
the layout of the dashboard's pages and its settings page (it posts what `Configuration`'s requests hold),
the DOWN sections of migrations (no code runs them), exceptions that leave
`run_application`, packaging and tests. Loss of power (it may take the last transactions
with `synchronous=NORMAL`) is outside `Crash`.
