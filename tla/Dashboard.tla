----------------------------- MODULE Dashboard -----------------------------
(***************************************************************************)
(* The web dashboard (web/src): the poll loops of usePolling over GET      *)
(* /api/v1/live/snapshot into the telemetry store, and the history page    *)
(* with useApi over GET /api/v1/history and its buttons. The browser runs  *)
(* one callback at a time; answers arrive in any order. The store outlives *)
(* the pages, what a page fetches does not. The page's second useApi, over *)
(* /events, is left out: it loads the same way, and only the chart marks   *)
(* what it gives.                                                          *)
(***************************************************************************)
EXTENDS DashboardState

env     == <<second, server, faults, registry, rows>>
live    == <<loop, fetches, store, connected>>
history == <<metric, url, dirty, loading, inflight, clicks, confirmed>>
vars == <<env, page, mounts, live, history>>

Fetch(i) == [by |-> i, answer |-> "none", snap |-> 0]
NewUrl(m) == [metric |-> m, now |-> second]
NoUrl == [metric |-> "none", now |-> 0]

Init ==
  /\ second = 1 /\ server \in Condition /\ faults = 0
  /\ registry \in (IF server = "down" THEN {0} ELSE {0, 1}) /\ rows = Metrics
  /\ page = "dashboard" /\ mounts = 0
  /\ loop = [i \in Loop |-> IF i = 1 THEN [active |-> TRUE, at |-> "awaiting", shown |-> 0]
                                      ELSE [active |-> FALSE, at |-> "ended", shown |-> 0]]
  /\ fetches = {Fetch(1)}
  /\ store = 0 /\ connected = FALSE
  /\ metric = Default /\ url = NoUrl /\ dirty = FALSE
  /\ loading = FALSE /\ inflight = {}
  /\ clicks = 0 /\ confirmed = {}

-----------------------------------------------------------------------------
(* The server.                                                             *)

\* A second passes; the collector, when the service runs, pushes or fails.
Sample ==
  /\ second < MaxSeconds /\ second' = second + 1
  /\ \/ server # "down" /\ registry' = second'
     \/ UNCHANGED registry
  /\ UNCHANGED <<server, faults, rows, page, mounts, live, history>>

\* The service is stopped, is up again or its handlers begin to throw; or it is
\* started anew between two fetches. The registry is empty at a start.
Change ==
  /\ faults < MaxFaults /\ faults' = faults + 1
  /\ server' \in Condition
  /\ registry' = IF server' \in {"down", server} THEN 0 ELSE registry
  /\ UNCHANGED <<second, rows, page, mounts, live, history>>

\* GET /api/v1/live/snapshot: what the registry holds at this moment, or an error.
Respond(f) ==
  /\ f \in fetches /\ f.answer = "none"
  /\ fetches' = (fetches \ {f}) \cup
       {[f EXCEPT !.answer = CASE server = "up" -> "ok" [] server = "failing" -> "500"
                               [] OTHER -> "error",
                  !.snap = IF server = "up" THEN registry ELSE 0]}
  /\ UNCHANGED <<env, page, mounts, loop, store, connected, history>>

-----------------------------------------------------------------------------
(* usePolling and the telemetry store.                                     *)

\* Mutant: the store keeps what it had first.
MergedFirst(snap) == IF store = 0 THEN snap ELSE store

\* updateMetrics: what the answer does not hold stays.
Merged(snap) == IF snap = 0 THEN store ELSE snap

\* Mutant: a fetch that fails ends the loop.
DeliverOrEnd(f) ==
  /\ f \in fetches /\ f.answer # "none"
  /\ fetches' = fetches \ {f}
  /\ store' = IF f.answer = "ok" THEN Merged(f.snap) ELSE store
  /\ connected' = CASE f.answer = "ok" -> TRUE [] f.answer = "error" -> FALSE
                    [] OTHER -> connected
  /\ loop' = [loop EXCEPT ![f.by].at = IF f.answer = "error" THEN "ended" ELSE "sleeping",
                          ![f.by].shown = store']
  /\ UNCHANGED <<env, page, mounts, history>>

\* The rest of poll, whether the page is still there or not; then the loop sleeps.
Deliver(f) ==
  /\ f \in fetches /\ f.answer # "none"
  /\ fetches' = fetches \ {f}
  /\ store' = IF f.answer = "ok" THEN Merged(f.snap) ELSE store
  /\ connected' = CASE f.answer = "ok" -> TRUE [] f.answer = "error" -> FALSE
                    [] OTHER -> connected
  /\ loop' = [loop EXCEPT ![f.by].at = "sleeping", ![f.by].shown = store']
  /\ UNCHANGED <<env, page, mounts, history>>

\* Mutant: the loop does not await the answer.
WakeUnawaited(i) ==
  /\ loop[i].at \in {"sleeping", "awaiting"}
  /\ Cardinality(fetches) < 3
  /\ IF loop[i].active
     THEN /\ loop' = [loop EXCEPT ![i].at = "awaiting", ![i].shown = store]
          /\ fetches' = fetches \cup {Fetch(i)}
     ELSE /\ loop' = [loop EXCEPT ![i].at = "ended", ![i].shown = 0]
          /\ UNCHANGED fetches
  /\ UNCHANGED <<env, page, mounts, store, connected, history>>

\* Mutant: the flag is tested before the timer only.
WakeRegardless(i) ==
  /\ loop[i].at = "sleeping"
  /\ loop' = [loop EXCEPT ![i].at = "awaiting", ![i].shown = store]
  /\ fetches' = fetches \cup {Fetch(i)}
  /\ UNCHANGED <<env, page, mounts, store, connected, history>>

\* After the interval: the next poll, unless the page was left.
Wake(i) ==
  /\ loop[i].at = "sleeping"
  /\ IF loop[i].active
     THEN /\ loop' = [loop EXCEPT ![i].at = "awaiting", ![i].shown = store]
          /\ fetches' = fetches \cup {Fetch(i)}
     ELSE /\ loop' = [loop EXCEPT ![i].at = "ended", ![i].shown = 0]
          /\ UNCHANGED fetches
  /\ UNCHANGED <<env, page, mounts, store, connected, history>>

-----------------------------------------------------------------------------
(* The pages.                                                              *)

\* A page is left: its loop is told to end, what it loads is dropped, and only a deletion
\* goes on. The new one starts a loop or, for the history, renders for the first time.
Navigate(p) ==
  /\ p # page /\ mounts < MaxMounts
  /\ page' = p /\ mounts' = mounts + 1
  /\ LET left == [i \in Loop |-> [loop[i] EXCEPT !.active = FALSE]]
         i == mounts + 2
     IN  IF p \in Polling
         THEN /\ loop' = [left EXCEPT ![i] = [active |-> TRUE, at |-> "awaiting", shown |-> store]]
              /\ fetches' = fetches \cup {Fetch(i)}
         ELSE loop' = left /\ fetches' = fetches
  /\ url' = NoUrl /\ dirty' = (p = "history")
  /\ metric' = Default /\ loading' = (p = "history")
  /\ inflight' = {r \in inflight : r.what = "delete"}
  /\ UNCHANGED <<env, store, connected, clicks, confirmed>>

Request(what, u) ==
  LET n == CHOOSE i \in 0..Cardinality(inflight) : \A r \in inflight : r.n # i
  IN  [what |-> what, url |-> u, n |-> n, mount |-> mounts, answer |-> "none"]

\* The history page renders: the URL holds the second of the rendering, and a new
\* URL makes the effect of useApi fetch and, with setLoading, render again.
Render ==
  /\ dirty
  /\ IF NewUrl(metric) = url
     THEN dirty' = FALSE /\ UNCHANGED <<url, loading, inflight>>
     ELSE /\ url' = NewUrl(metric) /\ loading' = TRUE
          /\ inflight' = inflight \cup {Request("get", url')}
          /\ UNCHANGED dirty
  /\ UNCHANGED <<env, page, mounts, live, metric, clicks, confirmed>>

Click == page = "history" /\ url # NoUrl /\ clicks < MaxClicks /\ clicks' = clicks + 1

Select(m) ==
  /\ Click /\ m # metric
  /\ metric' = m /\ dirty' = TRUE
  /\ UNCHANGED <<env, page, mounts, live, url, loading, inflight, confirmed>>

\* The button of that name: fetchData of the last rendering, which nothing dedupes.
Refresh ==
  /\ Click
  /\ inflight' = inflight \cup {Request("get", url)} /\ loading' = TRUE /\ dirty' = TRUE
  /\ UNCHANGED <<env, page, mounts, live, metric, url, confirmed>>

\* handleDelete, confirmed: POST /api/v1/history/delete with table, start and end.
Delete ==
  /\ Click
  /\ inflight' = inflight \cup {Request("delete", url)}
  /\ confirmed' = confirmed \cup {metric}
  /\ UNCHANGED <<env, page, mounts, live, metric, url, dirty, loading>>

\* GET /api/v1/history, and the deletion of the range from the table.
RespondHistory(r) ==
  /\ r \in inflight /\ r.answer = "none"
  /\ rows' = IF r.what = "delete" /\ server = "up" THEN {} ELSE rows
  /\ inflight' = (inflight \ {r}) \cup
       {[r EXCEPT !.answer = IF server = "up" THEN "ok" ELSE "error"]}
  /\ UNCHANGED <<second, server, faults, registry, page, mounts, live,
                 metric, url, dirty, loading, clicks, confirmed>>

\* Mutant: loading is cleared by a good answer only.
DeliverHistoryNoFinally(r) ==
  /\ r \in inflight /\ r.what = "get" /\ r.answer # "none"
  /\ inflight' = inflight \ {r} /\ dirty' = TRUE
  /\ loading' = (loading /\ r.answer # "ok")
  /\ UNCHANGED <<env, page, mounts, live, metric, url, clicks, confirmed>>

\* The rest of fetchData, whichever URL is the page's by now.
DeliverHistory(r) ==
  /\ r \in inflight /\ r.what = "get" /\ r.answer # "none"
  /\ inflight' = inflight \ {r} /\ dirty' = TRUE
  /\ loading' = FALSE
  /\ UNCHANGED <<env, page, mounts, live, metric, url, clicks, confirmed>>

\* The deletion is answered: the URL of the click is fetched again, which nobody sees
\* when the page was left, or an alert shown.
DeliverDelete(r) ==
  /\ r \in inflight /\ r.what = "delete" /\ r.answer # "none"
  /\ IF r.answer = "ok" /\ r.mount = mounts
     THEN /\ inflight' = (inflight \ {r}) \cup {Request("get", r.url)}
          /\ loading' = TRUE /\ dirty' = TRUE
     ELSE inflight' = inflight \ {r} /\ UNCHANGED <<loading, dirty>>
  /\ UNCHANGED <<env, page, mounts, live, metric, url, clicks, confirmed>>

LiveStep(i) == \E f \in fetches : f.by = i /\ (Respond(f) \/ Deliver(f))
HistoryStep ==
  \E r \in inflight : RespondHistory(r) \/ DeliverHistory(r) \/ DeliverDelete(r)

Next ==
  \/ Sample \/ Change
  \/ \E i \in Loop : LiveStep(i) \/ Wake(i)
  \/ \E p \in Page : Navigate(p)
  \/ Render \/ Refresh \/ Delete
  \/ \E m \in Metrics : Select(m)
  \/ HistoryStep

Spec == Init /\ [][Next]_vars

\* Every fetch is answered or fails; callbacks and timers run.
Fairness ==
  /\ \A i \in Loop : WF_vars(LiveStep(i)) /\ WF_vars(Wake(i))
  /\ WF_vars(Render) /\ WF_vars(HistoryStep)

FairSpec == Spec /\ Fairness

-----------------------------------------------------------------------------
\* A page with live data that stays open catches up with the sampler, whatever was left
\* in flight and had failed before: each sample is shown, or a later one, unless the
\* server goes down, starts again or throws, or the page is left.
ShowsEverySample ==
  \A t \in 1..MaxSeconds :
    registry = t ~> (store >= t \/ server # "up" \/ registry < t \/ page \notin Polling)

\* docs/websocket-protocol.md:66: in the end the status of a page with live data is that of
\* the server, whichever failures and answers of earlier pages came late.
StatusIsTrue ==
  /\ <>[](server = "up" /\ page \in Polling) => <>[] connected
  /\ <>[](server = "down" /\ page \in Polling) => <>[] ~ connected

\* The history page does not keep a spinner: a fetch that loads ends, also in an error.
LoadingEnds == loading ~> ~ loading

\* web/src/pages/history.tsx:68: "Delete history for this metric in the selected time range?"
\* Of the other metrics nothing is deleted.
DeletesThisMetric == Metrics \ rows \subseteq confirmed

=============================================================================
