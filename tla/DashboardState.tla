--------------------------- MODULE DashboardState ---------------------------
(***************************************************************************)
(* What the pages of the web dashboard (web/src) keep, and what must hold  *)
(* of it whichever way its steps in Dashboard go.                          *)
(***************************************************************************)
EXTENDS Integers, FiniteSets

CONSTANTS
  Metrics,    \* the keys
  Default,    \* the one that the history page shows first
  MaxSeconds, \* bound: seconds, in each of which the sampler may push
  MaxMounts,  \* bound: pages opened after the first one
  MaxFaults,  \* bound: times the server changes its condition
  MaxClicks    \* bound: clicks on the history page

ASSUME DashboardAssumption ==
  /\ Default \in Metrics
  /\ MaxSeconds \in Nat /\ MaxMounts \in Nat /\ MaxFaults \in Nat /\ MaxClicks \in Nat

Polling == {"dashboard", "power"}
Page == Polling \cup {"history", "settings"}
Loop == 1..(MaxMounts + 1)
Condition == {"up", "down", "failing"}

VARIABLES
  second,    \* time
  server,    \* "up", "down", or "failing": its handlers throw, the answer is 500
  faults,    \* bound
  registry,  \* of one live metric: second of its last sample, 0 without one
  rows,      \* metrics that have 1-minute rows in the range shown
  page, mounts,
  loop,      \* each poll loop started: active, where its await is and, for the properties,
             \* what the store had when it last sent or had an answer
  fetches,   \* fetches of the loops in flight: who asked, and the answer
  store,     \* the same metric: second of the sample shown, 0 without one
  connected,
  metric, url, dirty, loading, inflight, \* the history page
  clicks,    \* bound
  confirmed   \* history: metrics whose deletion the user has confirmed

-----------------------------------------------------------------------------
\* docs/websocket-protocol.md:65: sequential, the next request waits for the previous one.
\* However fast pages are opened, a fetch is sent only by the loop of the page that is open,
\* the one loop that goes on, and only when its previous one has been delivered.
OnePoller ==
  [][ \A f \in fetches' \ fetches :
        f.answer = "none" =>
          /\ page' \in Polling
          /\ \A i \in Loop : loop'[i].active <=> i = f.by
          /\ \A g \in fetches : g.by # f.by ]_<<fetches, loop, page>>

\* An answer that comes late, also one of a page that was left and overtaken by others,
\* shows of the metric nothing older than its loop had seen on the screen when it sent the
\* fetch or had its last answer. (An answer without the metric says nothing of it.)
AnswersInTurn ==
  [][ \A f \in fetches \ fetches' :
        f.snap > 0 => store' >= loop[f.by].shown ]_<<fetches, store>>

=============================================================================
