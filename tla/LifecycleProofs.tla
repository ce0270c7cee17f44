-------------------------- MODULE LifecycleProofs --------------------------
(***************************************************************************)
(* Proofs about ServiceLifecycle, for any number of stop controls and of   *)
(* threads in the HTTP pool: the type invariant, the sampler's silence     *)
(* during the final flush, and that SERVICE_STOPPED is reported last.      *)
(***************************************************************************)
EXTENDS ServiceLifecycle, TLAPS

-----------------------------------------------------------------------------
(* The inductive invariant: what the place of the main thread says of the  *)
(* other threads and of the database.                                      *)

Gone ==
  /\ db = "closed"
  /\ sampler \in {"off", "exited"} /\ server \in {"off", "exited"}

\* Nothing is started before its turn.
Starting ==
  /\ main \in {"register", "running", "openDb"} => Gone
  /\ main \in {"register", "running", "openDb", "startSampler"} =>
       sampler = "off" /\ server = "off"
  /\ main = "startServer" => server = "off"

\* The database is open from OpenDb to CloseDb, and closed after it.
DatabaseOpen ==
  /\ main \in Waiting \cup {"startSampler", "startServer", "stopServer", "stopSampler",
                            "joinSampler", "flush", "closeDb"} => db = "open"
  /\ main = "joinServer" => db = "closed"

\* running_ is cleared behind the main thread's back only by a sampler that exits.
RunningTellsSampler ==
  main \in Waiting \cup {"startServer", "stopServer", "stopSampler"} =>
    running \/ sampler = "exited"

\* Behind Sampler::stop the thread is gone, whether it was joined or not.
SamplerStopped == main \in {"flush", "closeDb", "joinServer"} => sampler = "exited"

\* The pool works only for a server that listens or drains.
PoolServes ==
  server \in {"off", "starting", "notify", "exited"} => \A h \in Handlers : handler[h] = "idle"

\* What is reported at the end.
Ended ==
  /\ main \in {"reportStopped", "returned"} => Gone
  /\ status = "STOPPED" => main = "returned"

IInv ==
  /\ TypeOK
  /\ Starting /\ DatabaseOpen /\ RunningTellsSampler /\ SamplerStopped
  /\ PoolServes /\ Ended

\* The invariant holds when the process starts.
LEMMA InitIInv == Init => IInv
  BY DEF Init, IInv, TypeOK, Starting, DatabaseOpen, RunningTellsSampler, SamplerStopped,
         PoolServes, Ended, Gone, Waiting, Shutdown

\* Every step of the main thread, run_application from its start to its end.
LEMMA MainKeepsIInv == IInv /\ (MainStep \/ SpuriousWakeup) => IInv'
<1> SUFFICES ASSUME IInv, MainStep \/ SpuriousWakeup PROVE IInv'
  OBVIOUS
<1> USE DEF IInv, TypeOK, Starting, DatabaseOpen, RunningTellsSampler, SamplerStopped,
            PoolServes, Ended, Gone, Waiting, Shutdown
<1>1. CASE Register      BY <1>1 DEF Register
<1>2. CASE ReportRunning BY <1>2 DEF ReportRunning
<1>3. CASE OpenDb        BY <1>3 DEF OpenDb
<1>4. CASE StartSampler  BY <1>4 DEF StartSampler
<1>5. CASE StartServer   BY <1>5 DEF StartServer
<1>6. CASE WaitCheck     BY <1>6 DEF WaitCheck
<1>7. CASE WaitBlock     BY <1>7 DEF WaitBlock
<1>8. CASE StopServer    BY <1>8 DEF StopServer
<1>9. CASE StopSampler   BY <1>9 DEF StopSampler
<1>10. CASE JoinSampler  BY <1>10 DEF JoinSampler
<1>11. CASE Flush        BY <1>11 DEF Flush
<1>12. CASE CloseDb      BY <1>12 DEF CloseDb
<1>13. CASE JoinServer   BY <1>13 DEF JoinServer
<1>14. CASE ReportStopped BY <1>14 DEF ReportStopped
<1>15. CASE SpuriousWakeup BY <1>15 DEF SpuriousWakeup
<1> QED
  BY <1>1, <1>2, <1>3, <1>4, <1>5, <1>6, <1>7, <1>8, <1>9, <1>10, <1>11, <1>12, <1>13,
     <1>14, <1>15 DEF MainStep

\* The control handler touches the status, the stop flag and a sleeping waiter.
LEMMA ControlKeepsIInv ==
  IInv /\ (\E c \in Controls : Deliver(c) \/ ControlStep(c)) => IInv'
<1> SUFFICES ASSUME IInv, NEW c \in Controls, Deliver(c) \/ ControlStep(c) PROVE IInv'
  OBVIOUS
<1> USE DEF IInv, TypeOK, Starting, DatabaseOpen, RunningTellsSampler, SamplerStopped,
            PoolServes, Ended, Gone, Waiting, Shutdown
<1>1. CASE Deliver(c)           BY <1>1 DEF Deliver
<1>2. CASE ReportStopPending(c) BY <1>2 DEF ReportStopPending
<1>3. CASE ControlStores(c)     BY <1>3 DEF ControlStores, StoreStop
<1>4. CASE ControlNotifies(c)   BY <1>4 DEF ControlNotifies, NotifyAll
<1> QED BY <1>1, <1>2, <1>3, <1>4 DEF ControlStep

\* The sampler's thread never outlives the join, nor starts without a database.
LEMMA SamplerKeepsIInv == IInv /\ (SamplerStep \/ SamplerNoTimer \/ SamplerTimeout) => IInv'
<1> SUFFICES ASSUME IInv, SamplerStep \/ SamplerNoTimer \/ SamplerTimeout PROVE IInv'
  OBVIOUS
<1> USE DEF IInv, TypeOK, Starting, DatabaseOpen, RunningTellsSampler, SamplerStopped,
            PoolServes, Ended, Gone, Waiting, Shutdown, SamplerLoop
<1>1. CASE SamplerBegin    BY <1>1 DEF SamplerBegin
<1>2. CASE SamplerTick     BY <1>2 DEF SamplerTick
<1>3. CASE SamplerTickDone BY <1>3 DEF SamplerTickDone
<1>4. CASE SamplerNoTimer  BY <1>4 DEF SamplerNoTimer
<1>5. CASE SamplerTimeout  BY <1>5 DEF SamplerTimeout
<1> QED BY <1>1, <1>2, <1>3, <1>4, <1>5 DEF SamplerStep

\* The server's thread returns from listen only with an idle pool.
LEMMA ServerKeepsIInv ==
  IInv /\ (ServerStep \/ \E h \in Handlers : Accept(h) \/ Answer(h)) => IInv'
<1> SUFFICES ASSUME IInv, ServerStep \/ \E h \in Handlers : Accept(h) \/ Answer(h)
             PROVE  IInv'
  OBVIOUS
<1> USE DEF IInv, TypeOK, Starting, DatabaseOpen, RunningTellsSampler, SamplerStopped,
            PoolServes, Ended, Gone, Waiting, Shutdown
<1>1. CASE Listen         BY <1>1 DEF Listen
<1>2. CASE ListenFails    BY <1>2 DEF ListenFails, StoreStop
<1>3. CASE ServerNotifies BY <1>3 DEF ServerNotifies, NotifyAll
<1>4. CASE ServerDrained  BY <1>4 DEF ServerDrained
<1>5. ASSUME NEW h \in Handlers, Accept(h) PROVE IInv'
  BY <1>5 DEF Accept
<1>6. ASSUME NEW h \in Handlers, Answer(h) PROVE IInv'
  BY <1>6 DEF Answer
<1> QED BY <1>1, <1>2, <1>3, <1>4, <1>5, <1>6 DEF ServerStep

\* The inductive invariant of the service's life holds in every reachable state.
THEOREM Lifecycle == Spec => []IInv
<1>1. IInv /\ [Next]_vars => IInv'
  <2> SUFFICES ASSUME IInv, [Next]_vars PROVE IInv'
    OBVIOUS
  <2>1. CASE UNCHANGED vars
    BY <2>1 DEF vars, IInv, TypeOK, Starting, DatabaseOpen, RunningTellsSampler,
                SamplerStopped, PoolServes, Ended, Gone, Waiting, Shutdown
  <2>2. CASE Next
    BY <2>2, MainKeepsIInv, ControlKeepsIInv, SamplerKeepsIInv, ServerKeepsIInv DEF Next
  <2> QED BY <2>1, <2>2
<1> QED BY <1>1, InitIInv, PTL DEF Spec

-----------------------------------------------------------------------------
\* The service's type invariant, for every pool and every set of controls.
THEOREM TypeCorrect == Spec => []TypeOK
<1>1. IInv => TypeOK BY DEF IInv
<1> QED BY <1>1, Lifecycle, PTL

\* A collector never runs on a closed database nor beside the final flush_1m and
\* finalize_daily (main.cpp:205-217): Sampler::stop may skip the join only when the
\* thread has already left its loop.
THEOREM SamplerQuiet == Spec => []SamplerQuietAtShutdown
<1>1. IInv => SamplerQuietAtShutdown
  BY DEF IInv, TypeOK, Starting, DatabaseOpen, SamplerStopped, Ended, Gone, Waiting,
         Shutdown, SamplerQuietAtShutdown
<1> QED BY <1>1, Lifecycle, PTL

\* When service_main reports SERVICE_STOPPED, the database is closed and every thread
\* that could use it has finished, however late a request or a control came.
THEOREM StoppedIsLast == Spec => []StoppedMeansGone
<1>1. IInv => StoppedMeansGone
  BY DEF IInv, Ended, PoolServes, Gone, StoppedMeansGone
<1> QED BY <1>1, Lifecycle, PTL

=============================================================================
