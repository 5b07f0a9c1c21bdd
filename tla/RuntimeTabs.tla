----------------------------- MODULE RuntimeTabs -----------------------------
(***************************************************************************)
(* The services tab and the domains tab of a project                       *)
(* (apps/web/src/project-runtime-tabs.tsx), and what the API does for them *)
(* (apps/api/src/services, and Domains, of which the table is left here).  *)
(*                                                                         *)
(* Both list rows, act on one and list again: a service that is started or *)
(* stopped, a domain that is created or deleted.  A row is "on" when the   *)
(* service runs, or when the domain is there.                              *)
(***************************************************************************)
EXTENDS WebClient, Integers

CONSTANT TabActs   \* bound: what the reader does on the tab
ASSUME TabActsAssumption == TabActs \in Nat

VARIABLES
  tab,    \* the tab
  table   \* docker's containers, or the table of domains
tabVars == <<tab, table>>

Rows == {"r1", "r2"}
States == {"on", "off"}
NoRow == "none"

TabTypeOK ==
  /\ tab \in [shown : [Rows -> States],        \* services, domains
              listed : BOOLEAN,                \* they were loaded once
              error : BOOLEAN, loading : BOOLEAN,
              active : Rows \cup {NoRow},      \* activeServiceId, deletingDomainId
              creating : BOOLEAN,              \* isDomainCreating
              services : BOOLEAN,              \* the form of a domain has services
              seen : {-1} \cup 0 .. MaxToken,  \* the token the lists were loaded with
              gap : BOOLEAN,                   \* history: a late list is shown
              acts : 0 .. TabActs]
  /\ table \in [Rows -> States]

TabInit ==
  /\ tab = [shown |-> [r \in Rows |-> "off"], listed |-> FALSE, error |-> FALSE,
            loading |-> FALSE, active |-> NoRow, creating |-> FALSE,
            services |-> FALSE, seen |-> -1, gap |-> FALSE, acts |-> 0]
  /\ table = [r \in Rows |-> IF r = "r1" THEN "on" ELSE "off"]

-----------------------------------------------------------------------------
(* The lists.                                                              *)

\* The rows of the services tab; what the form of the domains tab chooses from.
ListProjectServices(after) ==
  Call(IF route = "services" THEN "rows" ELSE "form", [after |-> after])
ListDomains(after) == Call("rows", [after |-> after])

\* loadServices, loadDomainsForProject: after names the action they end.
ListCall(after) ==
  IF route = "services" THEN ListProjectServices(after) ELSE ListDomains(after)
ListingRows(t) == [t EXCEPT !.error = FALSE, !.loading = TRUE]

\* The effect; loadServicesForDomainForm is the second list of the domains tab.
TabRender ==
  /\ dirty
  /\ IF tab.seen = token
     THEN UNCHANGED <<tab, calls>> /\ dirty' = FALSE
     ELSE /\ tab' = [ListingRows(tab) EXCEPT !.seen = token]
          /\ calls' = calls \o <<ListCall("none")>>
               \o (IF route = "domains" THEN <<ListProjectServices("none")>> ELSE <<>>)
          /\ dirty' = TRUE
  /\ UNCHANGED <<route, token, good, failures, table>>

-----------------------------------------------------------------------------
(* The reader.                                                             *)

\* What is asked for: by a row's button, or by the form.
PerformServiceAction(row, action) ==
  Call("act", [by |-> "row", row |-> row, to |-> IF action = "stop" THEN "off" ELSE "on"])
CreateDomainCall(row) == Call("act", [by |-> "form", row |-> row, to |-> "on"])
DeleteDomainCall(row) == Call("act", [by |-> "row", row |-> row, to |-> "off"])

Start(call) ==
  /\ ~dirty /\ tab.acts < TabActs
  /\ tab' = [tab EXCEPT !.acts = @ + 1, !.error = FALSE,
                        !.active = IF call.arg.by = "row" THEN call.arg.row ELSE @,
                        !.creating = @ \/ call.arg.by = "form"]
  /\ calls' = Append(calls, call)
  /\ dirty' = TRUE
  /\ UNCHANGED <<route, token, good, failures, table>>

\* The list is there, and the row is not the busy one.
ServiceEnabled(row) == tab.listed /\ ~tab.loading /\ tab.active # row
DomainEnabled(row) ==
  ~tab.loading /\ tab.active # row /\ tab.shown[row] = "on"
FormEnabled == ~tab.creating /\ tab.services

HandleServiceAction ==
  /\ route = "services"
  /\ \E row \in Rows, action \in {"start", "stop", "restart"} :
       ServiceEnabled(row) /\ Start(PerformServiceAction(row, action))

HandleCreateDomain ==
  /\ route = "domains" /\ FormEnabled
  /\ \E row \in Rows : Start(CreateDomainCall(row))

HandleDeleteDomain ==
  /\ route = "domains"
  /\ \E row \in Rows : DomainEnabled(row) /\ Start(DeleteDomainCall(row))

-----------------------------------------------------------------------------
(* The API.                                                                *)

ApiStep == UNCHANGED <<route, token, good, dirty, failures, tab>>

ReadRows(i) ==
  /\ Served(i, "rows")
  /\ Answered(i, Ok(table))
  /\ UNCHANGED table /\ ApiStep

\* runProjectServiceAction; a row that is inserted or deleted.
Change(i) ==
  /\ Served(i, "act")
  /\ route = "domains" => table[calls[i].arg.row] # calls[i].arg.to
  /\ table' = [table EXCEPT ![calls[i].arg.row] = calls[i].arg.to]
  /\ Answered(i, [st |-> "read"])
  /\ ApiStep

\* The services are listed again, the routes file is written.
Confirm(i) ==
  /\ calls[i].op = "act" /\ calls[i].res.st = "read"
  /\ Answered(i, Ok(TRUE))
  /\ UNCHANGED table /\ ApiStep

\* 409: the host is taken.  404: the domain is gone.
Refused(i) ==
  /\ route = "domains" /\ Read(i, "act")
  /\ table[calls[i].arg.row] = calls[i].arg.to

-----------------------------------------------------------------------------
(* The answers.                                                            *)

TabTakes(i, t) ==
  /\ tab' = t /\ dirty' = TRUE
  /\ UNCHANGED <<route, token, good, table>>

\* finally
TabEnded(t, by) ==
  [t EXCEPT !.active = IF by = "row" THEN NoRow ELSE @,
            !.creating = @ /\ by # "form"]

\* An error of the list is shown, and not passed on.
TakeRows(i) ==
  LET ended == [TabEnded(tab, calls[i].arg.after) EXCEPT !.loading = FALSE]
  IN /\ \/ /\ Ready(i, "rows")
           /\ TabTakes(i, [ended EXCEPT !.shown = calls[i].res.value, !.listed = TRUE,
                                     !.gap = calls[i].late])
        \/ Fails(i, "rows") /\ TabTakes(i, [ended EXCEPT !.error = TRUE])
     /\ calls' = Without(i)

TakeForm(i) ==
  /\ \/ Read(i, "form") /\ TabTakes(i, [tab EXCEPT !.services = TRUE])
     \/ Fails(i, "form") /\ TabTakes(i, [tab EXCEPT !.services = FALSE])
  /\ calls' = Without(i)

\* Mutant: the error of an action is not shown.
ActFailedQuietly(c) == TabEnded(tab, c.arg.by)

ActFailed(c) == [TabEnded(tab, c.arg.by) EXCEPT !.error = TRUE]

\* Once it is done the rows are listed again.  A failure may come after the change.
TakeAct(i) ==
  \/ /\ Ready(i, "act")
     /\ TabTakes(i, ListingRows(tab))
     /\ calls' = Append(Without(i), ListCall(calls[i].arg.by))
  \/ /\ Fails(i, "act") \/ Refused(i)
     /\ TabTakes(i, ActFailed(calls[i]))
     /\ calls' = Without(i)

TabAnswer == \E i \in DOMAIN calls :
  \/ ReadRows(i) \/ Change(i) \/ Confirm(i)
  \/ TakeRows(i) \/ TakeForm(i) \/ TakeAct(i)

TabNext ==
  /\ route \in {"services", "domains"}
  /\ \/ TabRender \/ HandleServiceAction \/ HandleCreateDomain \/ HandleDeleteDomain
     \/ TabAnswer
     \/ Retries /\ UNCHANGED tabVars
     \/ (* bound *) calls = <<>> /\ ~dirty /\ TokenExpires /\ UNCHANGED tabVars

-----------------------------------------------------------------------------
(* Properties.                                                             *)

TabAtRest == route \in {"services", "domains"} /\ calls = <<>> /\ ~dirty

\* Once nothing is under way no row and no form is busy, and the rows shown are as
\* they are, unless an error says that the last of what was done failed, or lists
\* came out of order.
RowsAreReal ==
  TabAtRest =>
    /\ tab.active = NoRow /\ ~tab.creating /\ ~tab.loading
    /\ ~tab.error /\ ~tab.gap => tab.shown = table
=============================================================================
