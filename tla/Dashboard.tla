------------------------------ MODULE Dashboard ------------------------------
(***************************************************************************)
(* The metrics of the dashboard: the polling controller                    *)
(* (apps/web/src/metrics.ts), and the effect of App (App.tsx) that makes a *)
(* new one whenever the session or the project typed in changes.           *)
(*                                                                         *)
(* A controller that was stopped lives on in its request, and in its       *)
(* callbacks, which would write into the state of the next one.            *)
(***************************************************************************)
EXTENDS WebClient, Integers

CONSTANT Keystrokes   \* bound: changes of the project typed in
ASSUME KeystrokesAssumption == Keystrokes \in Nat

VARIABLES
  dash,    \* App's state
  poller   \* the controllers, oldest first
dashVars == <<dash, poller>>

NoMetrics == "none"
Typed == {"", "p", "q", "x"}     \* metricsProjectId; x is the id of no project
Known == {"p", "q"}

DashTypeOK ==
  /\ dash \in [project : Typed,                       \* metricsProjectId
               metrics : Known \cup {NoMetrics},      \* whose metrics are shown
               error : BOOLEAN, loading : BOOLEAN,
               made : [project : Typed, token : -1 .. MaxToken],
               keys : 0 .. Keystrokes]
  /\ \A k \in DOMAIN poller :
       poller[k] \in [project : Typed, inFlight : BOOLEAN, stopped : BOOLEAN]

\* The project is restored from localStorage.
DashInit ==
  /\ \E p \in IF route = "dashboard" THEN {"", "p"} ELSE {""} :
       dash = [project |-> p, metrics |-> NoMetrics, error |-> FALSE,
               loading |-> FALSE, made |-> [project |-> "", token |-> -1], keys |-> 0]
  /\ poller = <<>>

Current == Len(poller)
Polling == Current > 0 /\ ~poller[Current].stopped
hasMetricsSession == dash.project # ""

-----------------------------------------------------------------------------
(* The effect.                                                             *)

Deps == [project |-> dash.project, token |-> token]

\* Mutant: the cleanup leaves the controller running.
StopForgotten(ps) == ps

\* stop(), of the effect's cleanup.  The request is aborted.
Stop(ps) ==
  IF Polling THEN [ps EXCEPT ![Current].stopped = TRUE] ELSE ps

\* loadProjectMetrics
Poll(k, project) == Call("poll", [k |-> k, project |-> project])
\* refresh()
Polls(d) == [d EXCEPT !.error = FALSE, !.loading = TRUE]

\* start()
Started(ps, project) ==
  Append(ps, [project |-> project, inFlight |-> TRUE, stopped |-> FALSE])

DashRender ==
  /\ dirty
  /\ LET cleared == [dash EXCEPT !.made = Deps, !.metrics = NoMetrics,
                                 !.error = FALSE, !.loading = FALSE]
     IN IF dash.made = Deps
        THEN UNCHANGED <<dashVars, calls>> /\ dirty' = FALSE
        ELSE /\ IF hasMetricsSession
                THEN /\ dash' = Polls(cleared)
                     /\ poller' = Started(Stop(poller), dash.project)
                     /\ calls' = Append(calls, Poll(Len(poller'), dash.project))
                ELSE /\ dash' = cleared /\ poller' = Stop(poller)
                     /\ UNCHANGED calls
             /\ dirty' = TRUE
  /\ UNCHANGED <<route, token, good, failures>>

-----------------------------------------------------------------------------
(* The reader, the clock, and the answers.                                 *)

\* Each change of the field renders before the next one.
TypeProject(p) ==
  /\ ~dirty /\ dash.keys < Keystrokes /\ p # dash.project
  /\ dash' = [dash EXCEPT !.project = p, !.keys = @ + 1]
  /\ dirty' = TRUE
  /\ UNCHANGED <<route, token, good, failures, calls, poller>>

\* The interval; the Refresh of a controller that polls does nothing.
Interval ==
  /\ Polling /\ ~poller[Current].inFlight
  /\ dash' = Polls(dash)
  /\ poller' = [poller EXCEPT ![Current].inFlight = TRUE]
  /\ calls' = Append(calls, Poll(Current, poller[Current].project))
  /\ dirty' = TRUE
  /\ UNCHANGED <<route, token, good, failures>>

\* The answer to a controller that was stopped changes nothing.
PollEnds(i, d) ==
  LET k == calls[i].arg.k
  IN /\ dash' = IF poller[k].stopped THEN dash ELSE [d EXCEPT !.loading = FALSE]
     /\ poller' = [poller EXCEPT ![k].inFlight = FALSE]
     /\ dirty' = TRUE
     /\ calls' = Without(i)
     /\ UNCHANGED <<route, token, good>>

\* The API: 404 for a project that does not exist.
ListProjectMetrics(project) ==
  IF project \in Known THEN [dash EXCEPT !.metrics = project]
  ELSE [dash EXCEPT !.error = TRUE]

TakeMetrics(i) ==
  /\ Read(i, "poll")
  /\ PollEnds(i, ListProjectMetrics(calls[i].arg.project))

PollFails(i) ==
  /\ Fails(i, "poll")
  /\ PollEnds(i, [dash EXCEPT !.error = TRUE])

\* AbortError: whatever the request was at.
PollAborts(i) ==
  /\ calls[i].op = "poll" /\ poller[calls[i].arg.k].stopped
  /\ PollEnds(i, dash) /\ UNCHANGED failures

DashNext ==
  /\ route = "dashboard"
  /\ \/ DashRender \/ Interval
     \/ \E p \in Typed : TypeProject(p)
     \/ \E i \in DOMAIN calls : TakeMetrics(i) \/ PollFails(i) \/ PollAborts(i)
     \/ (TokenExpires \/ Retries) /\ UNCHANGED dashVars

-----------------------------------------------------------------------------
(* Properties.                                                             *)

\* A rendered dashboard shows the metrics of the project typed in, or none; it says
\* that it loads exactly while the current controller polls; and of all controllers
\* only that one is not stopped, and has one request.
MetricsAreOwn ==
  route = "dashboard" /\ ~dirty =>
    /\ dash.metrics \in {NoMetrics, dash.project}
    /\ dash.loading <=> (Polling /\ poller[Current].inFlight)
    /\ \A k \in DOMAIN poller : ~poller[k].stopped =>
         /\ k = Current /\ poller[k].project = dash.project
         /\ \A i, j \in DOMAIN calls :
              calls[i].arg.k = k /\ calls[j].arg.k = k => i = j
=============================================================================
