-------------------------- MODULE ServiceLifecycle --------------------------
(***************************************************************************)
(* The life of the process: service_main and run_application on the main   *)
(* thread, the control handler that the SCM (or the console) calls, the    *)
(* sampler thread, the HTTP server's thread and cpp-httplib's pool.        *)
(*                                                                         *)
(* Sources: src/src/windows/service_control.cpp,                           *)
(* src/apps/pulseport-service/main.cpp, src/src/core/sampler.cpp and       *)
(* src/src/server/http_server.cpp; cpp-httplib's Server is external.       *)
(***************************************************************************)
EXTENDS Naturals, FiniteSets

CONSTANTS
  Handlers,   \* threads of cpp-httplib's pool
  Controls    \* stop controls, each delivered at most once

VARIABLES
  main,       \* next step of the main thread
  control,    \* progress of each control through service_handler_ex
  status,     \* the state last given to SetServiceStatus
  stop,       \* s_stop_requested
  running,    \* Sampler::running_
  sampler,    \* the sampler thread
  server,     \* the thread in HttpServer::listen
  handler,    \* the pool's threads
  db          \* the sqlite3 handle

vars == <<main, control, status, stop, running, sampler, server, handler, db>>

\* wait_for_stop: predicate to be checked; found false, about to sleep; asleep.
Waiting == {"check", "blocking", "blocked"}

\* run_application behind wait_for_stop, in its order.
Shutdown == {"stopServer", "stopSampler", "joinSampler", "flush", "closeDb", "joinServer"}

Init ==
  /\ main = "register" /\ control = [c \in Controls |-> "none"]
  /\ status = "NONE" /\ stop = FALSE
  /\ running = FALSE /\ sampler = "off"
  /\ server = "off" /\ handler = [h \in Handlers |-> "idle"]
  /\ db = "closed"

-----------------------------------------------------------------------------
(* signal_stop: the flag is stored and the waiters are notified without    *)
(* s_stop_mutex; a notification reaches only a thread that is asleep.      *)

StoreStop == stop' = TRUE
NotifyAll == main' = IF main = "blocked" THEN "check" ELSE main

-----------------------------------------------------------------------------
(* Main thread: service_main and run_application.                          *)

Register ==
  /\ main = "register"
  /\ \/ main' = "running" /\ status' = "START_PENDING"
     \/ main' = "returned" /\ status' = status      \* no status handle
  /\ UNCHANGED <<control, stop, running, sampler, server, handler, db>>

ReportRunning ==
  /\ main = "running"
  /\ status' = "RUNNING" /\ main' = "openDb"
  /\ UNCHANGED <<control, stop, running, sampler, server, handler, db>>

OpenDb ==
  /\ main = "openDb"
  /\ \/ db' = "open" /\ main' = "startSampler"
     \/ db' = db /\ main' = "reportStopped"         \* open or migration failed
  /\ UNCHANGED <<control, status, stop, running, sampler, server, handler>>

StartSampler ==
  /\ main = "startSampler"
  /\ running' = TRUE /\ sampler' = "starting" /\ main' = "startServer"
  /\ UNCHANGED <<control, status, stop, server, handler, db>>

StartServer ==
  /\ main = "startServer"
  /\ server' = "starting" /\ main' = "check"
  /\ UNCHANGED <<control, status, stop, running, sampler, handler, db>>

\* cv.wait's predicate, under the mutex.
WaitCheck ==
  /\ main = "check"
  /\ main' = IF stop THEN "stopServer" ELSE "blocking"
  /\ UNCHANGED <<control, status, stop, running, sampler, server, handler, db>>

WaitBlock ==
  /\ main = "blocking"
  /\ main' = "blocked"
  /\ UNCHANGED <<control, status, stop, running, sampler, server, handler, db>>

\* HttpServer::stop: cpp-httplib closes the listening socket if it has one.
StopServer ==
  /\ main = "stopServer"
  /\ server' = IF server = "listening" THEN "draining" ELSE server
  /\ main' = "stopSampler"
  /\ UNCHANGED <<control, status, stop, running, sampler, handler, db>>

\* Mutant: the sampler's thread is not joined.
StopSamplerNoJoin ==
  /\ main = "stopSampler"
  /\ running' = FALSE /\ main' = "flush"
  /\ UNCHANGED <<control, status, stop, sampler, server, handler, db>>

\* Mutant: running_ is tested, not exchanged.
StopSamplerNoFlag ==
  /\ main = "stopSampler"
  /\ main' = IF running THEN "joinSampler" ELSE "flush"
  /\ UNCHANGED <<control, status, stop, running, sampler, server, handler, db>>

\* Sampler::stop: returns at once when running_ is already false.
StopSampler ==
  /\ main = "stopSampler"
  /\ main' = IF running THEN "joinSampler" ELSE "flush"
  /\ running' = FALSE
  /\ UNCHANGED <<control, status, stop, sampler, server, handler, db>>

JoinSampler ==
  /\ main = "joinSampler" /\ sampler = "exited"
  /\ main' = "flush"
  /\ UNCHANGED <<control, status, stop, running, sampler, server, handler, db>>

\* aggregator.flush_1m, finalize_daily and the "stopped" event.
Flush ==
  /\ main = "flush"
  /\ main' = "closeDb"
  /\ UNCHANGED <<control, status, stop, running, sampler, server, handler, db>>

CloseDb ==
  /\ main = "closeDb"
  /\ db' = "closed" /\ main' = "joinServer"
  /\ UNCHANGED <<control, status, stop, running, sampler, server, handler>>

\* Mutant: server_thread is a detached std::thread.
JoinServerDetached ==
  /\ main = "joinServer"
  /\ main' = "reportStopped"
  /\ UNCHANGED <<control, status, stop, running, sampler, server, handler, db>>

\* The destructor of server_thread, a std::jthread, joins it.
JoinServer ==
  /\ main = "joinServer" /\ server = "exited"
  /\ main' = "reportStopped"
  /\ UNCHANGED <<control, status, stop, running, sampler, server, handler, db>>

\* Mutant: the wrong service state is reported.
ReportPaused ==
  /\ main = "reportStopped"
  /\ status' = "PAUSED" /\ main' = "returned"
  /\ UNCHANGED <<control, stop, running, sampler, server, handler, db>>

ReportStopped ==
  /\ main = "reportStopped"
  /\ status' = "STOPPED" /\ main' = "returned"
  /\ UNCHANGED <<control, stop, running, sampler, server, handler, db>>

MainStep ==
  \/ Register \/ ReportRunning \/ OpenDb \/ StartSampler \/ StartServer
  \/ WaitCheck \/ WaitBlock
  \/ StopServer \/ StopSampler \/ JoinSampler \/ Flush \/ CloseDb \/ JoinServer
  \/ ReportStopped

\* A condition variable may wake its waiter without a notification.
SpuriousWakeup ==
  /\ main = "blocked"
  /\ main' = "check"
  /\ UNCHANGED <<control, status, stop, running, sampler, server, handler, db>>

-----------------------------------------------------------------------------
(* service_handler_ex, on the dispatcher's thread.                         *)

\* The SCM delivers a control while the service accepts it, one at a time.
Deliver(c) ==
  /\ control[c] = "none" /\ \A d \in Controls : control[d] \in {"none", "handled"}
  /\ status \in {"RUNNING", "STOP_PENDING"}
  /\ control' = [control EXCEPT ![c] = "report"]
  /\ UNCHANGED <<main, status, stop, running, sampler, server, handler, db>>

ReportStopPending(c) ==
  /\ control[c] = "report"
  /\ status' = "STOP_PENDING"
  /\ control' = [control EXCEPT ![c] = "store"]
  /\ UNCHANGED <<main, stop, running, sampler, server, handler, db>>

ControlStores(c) ==
  /\ control[c] = "store"
  /\ StoreStop
  /\ control' = [control EXCEPT ![c] = "notify"]
  /\ UNCHANGED <<main, status, running, sampler, server, handler, db>>

ControlNotifies(c) ==
  /\ control[c] = "notify"
  /\ NotifyAll
  /\ control' = [control EXCEPT ![c] = "handled"]
  /\ UNCHANGED <<status, stop, running, sampler, server, handler, db>>

ControlStep(c) == ReportStopPending(c) \/ ControlStores(c) \/ ControlNotifies(c)

-----------------------------------------------------------------------------
(* The sampler's thread: Sampler::run.                                     *)

SamplerLoop == IF running THEN "waiting" ELSE "exited"

\* SetWaitableTimer; its failure ends the thread and clears running_.
SamplerBegin ==
  /\ sampler = "starting"
  /\ sampler' = SamplerLoop
  /\ UNCHANGED <<main, control, status, stop, running, server, handler, db>>

SamplerNoTimer ==
  /\ sampler = "starting"
  /\ running' = FALSE /\ sampler' = "exited"
  /\ UNCHANGED <<main, control, status, stop, server, handler, db>>

\* The timer fires.
SamplerTick ==
  /\ sampler = "waiting"
  /\ sampler' = IF running THEN "collecting" ELSE "exited"
  /\ UNCHANGED <<main, control, status, stop, running, server, handler, db>>

\* The wait fails or times out; running_ stays as it is.
SamplerTimeout ==
  /\ sampler = "waiting"
  /\ sampler' = "exited"
  /\ UNCHANGED <<main, control, status, stop, running, server, handler, db>>

\* The collectors and the post-tick callback are done: they used the registry,
\* the aggregator, the database.
SamplerTickDone ==
  /\ sampler = "collecting"
  /\ sampler' = SamplerLoop
  /\ UNCHANGED <<main, control, status, stop, running, server, handler, db>>

SamplerStep == SamplerBegin \/ SamplerTick \/ SamplerTickDone

-----------------------------------------------------------------------------
(* The server's thread, and cpp-httplib.                                   *)

Listen ==
  /\ server = "starting"
  /\ server' = "listening"
  /\ UNCHANGED <<main, control, status, stop, running, sampler, handler, db>>

\* The port cannot be bound: listen returns false, the thread calls signal_stop.
ListenFails ==
  /\ server = "starting"
  /\ StoreStop
  /\ server' = "notify"
  /\ UNCHANGED <<main, control, status, running, sampler, handler, db>>

ServerNotifies ==
  /\ server = "notify"
  /\ NotifyAll
  /\ server' = "exited"
  /\ UNCHANGED <<control, status, stop, running, sampler, handler, db>>

\* listen returns when the pool has finished what it had accepted.
ServerDrained ==
  /\ server = "draining" /\ \A h \in Handlers : handler[h] = "idle"
  /\ server' = "exited"
  /\ UNCHANGED <<main, control, status, stop, running, sampler, handler, db>>

ServerStep == Listen \/ ListenFails \/ ServerNotifies \/ ServerDrained

\* A request is accepted, and answered: the route's lambda reads the registry and
\* the configuration, queries or deletes through the database handle.
Accept(h) ==
  /\ server = "listening" /\ handler[h] = "idle"
  /\ handler' = [handler EXCEPT ![h] = "serving"]
  /\ UNCHANGED <<main, control, status, stop, running, sampler, server, db>>

Answer(h) ==
  /\ handler[h] = "serving"
  /\ handler' = [handler EXCEPT ![h] = "idle"]
  /\ UNCHANGED <<main, control, status, stop, running, sampler, server, db>>

-----------------------------------------------------------------------------
\* main returned: the process is gone, or idle in the dispatcher.
Next ==
  \/ MainStep \/ SpuriousWakeup
  \/ \E c \in Controls : Deliver(c) \/ ControlStep(c)
  \/ SamplerStep \/ SamplerNoTimer \/ SamplerTimeout
  \/ ServerStep
  \/ \E h \in Handlers : Accept(h) \/ Answer(h)

Spec == Init /\ [][Next]_vars

\* Every thread runs, a timer that is set fires, a request ends. Nobody has to
\* send a control or a request, and no wait has to wake spuriously or to fail.
FairSpec ==
  /\ Spec
  /\ WF_vars(MainStep) /\ WF_vars(SamplerStep) /\ WF_vars(ServerStep)
  /\ \A c \in Controls : WF_vars(ControlStep(c))
  /\ \A h \in Handlers : WF_vars(Answer(h))

-----------------------------------------------------------------------------
\* Type invariant of the service's life.
TypeOK ==
  /\ main \in {"register", "running", "openDb", "startSampler", "startServer",
               "reportStopped", "returned"} \cup Waiting \cup Shutdown
  /\ control \in [Controls -> {"none", "report", "store", "notify", "handled"}]
  /\ status \in {"NONE", "START_PENDING", "RUNNING", "STOP_PENDING", "STOPPED"}
  /\ stop \in BOOLEAN /\ running \in BOOLEAN
  /\ sampler \in {"off", "starting", "waiting", "collecting", "exited"}
  /\ server \in {"off", "starting", "listening", "notify", "draining", "exited"}
  /\ handler \in [Handlers -> {"idle", "serving"}]
  /\ db \in {"open", "closed"}

\* A collector runs only on an open database and never beside the main thread's
\* final flush_1m and finalize_daily, which use the aggregator's buckets unlocked.
SamplerQuietAtShutdown == sampler = "collecting" => db = "open" /\ main # "flush"

\* When SERVICE_STOPPED is reported, nothing of the program is left running: the
\* database is closed and the sampler, the server and its pool have finished.
StoppedMeansGone ==
  status = "STOPPED" =>
    /\ db = "closed"
    /\ sampler \in {"off", "exited"} /\ server \in {"off", "exited"}
    /\ \A h \in Handlers : handler[h] = "idle"

\* A shutdown whose HttpServer::stop found the server listening or failed comes to
\* its end: neither join waits for ever, whatever the sampler, the pool and late
\* controls do.
ShutdownCompletes ==
  (main = "stopSampler" /\ server \in {"draining", "notify", "exited"}) ~> main = "returned"

\* docs/architecture.md:66: graceful shutdown: stop HTTP, stop sampler, final flush,
\* close DB. A server that HttpServer::stop has stopped serves no request any more
\* when the database is closed. It does not hold: the requests accepted before go on, and
\* the join comes behind the close.
HttpStoppedBeforeClose ==
  (main = "joinServer" /\ server = "draining") => \A h \in Handlers : handler[h] = "idle"

\* include/pulseport/service_control.h:33: wait_for_stop blocks until stop is
\* signaled, and returns immediately if already stopped.
StopEndsTheWait == (stop /\ main \in Waiting) ~> main \notin Waiting

=============================================================================
