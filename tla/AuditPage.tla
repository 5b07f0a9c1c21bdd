------------------------------ MODULE AuditPage ------------------------------
(***************************************************************************)
(* The audit log: AuditPage (apps/web/src/audit-page.tsx), whose filter,   *)
(* page and selected row are the URL's (audit-filters.ts, audit-detail.ts),*)
(* the requests it makes (audit.ts), and the API's two reads of the table  *)
(* (apps/api/src/audit/repository.ts), to which rows are added meanwhile.  *)
(***************************************************************************)
EXTENDS WebClient, FiniteSetsExt

CONSTANTS
  MaxRows,      \* bound: rows of the audit log
  AuditClicks   \* bound: what the reader does on the page
ASSUME AuditAssumption == MaxRows \in Nat \ {0, 1} /\ AuditClicks \in Nat

VARIABLES
  audit,     \* the page
  auditLog   \* the table, oldest row first: the action of each
auditVars == <<audit, auditLog>>

Actions == {"a", "b"}
defaultAuditFilterValue == "all"
Filters == Actions \cup {defaultAuditFilterValue}
defaultAuditPage == 1
defaultAuditPageSize == 1
PageSizes == {defaultAuditPageSize, 2}   \* those of links

\* readAuditFilterState and readSelectedAuditId: no row is selected by 0.
Url(filter, page, size, selected) ==
  [filter |-> filter, page |-> page, size |-> size, selected |-> selected]
DefaultUrl == Url(defaultAuditFilterValue, defaultAuditPage, defaultAuditPageSize, 0)

emptyAuditLogListResponse ==
  [rows |-> <<>>, page |-> defaultAuditPage, size |-> defaultAuditPageSize,
   total |-> 0, totalPages |-> 0, filter |-> defaultAuditFilterValue, grown |-> FALSE]

AuditTypeOK ==
  /\ auditLog \in UNION { [1 .. n -> Actions] : n \in 0 .. MaxRows }
  /\ audit.url \in [filter : Filters, page : Nat \ {0}, size : PageSizes,
                    selected : 0 .. MaxRows]
  /\ audit.list.rows \in Seq(1 .. MaxRows)
  /\ audit.loading \in BOOLEAN /\ audit.exporting \in BOOLEAN
  /\ audit.error \in BOOLEAN /\ audit.gap \in BOOLEAN
  /\ audit.clicks \in 0 .. AuditClicks

\* A visit starts with the URL of a link: the page's own, to a page, to one that is
\* not there any more, to a selected row, and to pages of another size.
Links ==
  {DefaultUrl, Url("all", 2, 1, 0), Url("b", 2, 1, 0), Url("b", 1, 1, 2),
   Url("all", 1, 2, 0)}
AuditInit ==
  /\ auditLog = <<"a", "b">>
  /\ \E url \in IF route = "audit" THEN Links ELSE {DefaultUrl} :
       audit = [url |-> url, back |-> <<>>, asked |-> <<>>,
                list |-> emptyAuditLogListResponse, loading |-> FALSE,
                exporting |-> FALSE, error |-> FALSE, gap |-> FALSE, clicks |-> 0]

-----------------------------------------------------------------------------
(* Rendering: the three effects.                                           *)

\* What loadAuditLogs depends on.
Query(url) == [filter |-> url.filter, page |-> url.page, size |-> url.size]
Asked == <<Query(audit.url), token>>

\* The first effect: the list is loaded, again when what it depends on changed.
LoadStarted(p) ==
  IF Asked = p.asked THEN p
  ELSE [p EXCEPT !.asked = Asked, !.loading = TRUE, !.error = FALSE]

\* Mutant: the URL does not follow the page the API answered with.
UrlKept(url, list) ==
  IF url.selected # 0 /\ url.selected \notin ToSet(list.rows)
  THEN [url EXCEPT !.selected = 0] ELSE url

\* The two others: the URL gets the page of the list that is shown, and loses a
\* selected row that the list does not have.
UrlCorrected(url, list) ==
  IF <<list.page, list.size>> # <<url.page, url.size>>
  THEN Url(url.filter, list.page, list.size, 0)
  ELSE UrlKept(url, list)

AuditRender ==
  /\ dirty
  /\ LET started == LoadStarted(audit)
     IN /\ audit' = [started EXCEPT !.url = UrlCorrected(audit.url, audit.list)]
        /\ calls' = IF started = audit THEN calls
                    ELSE Append(calls, Call("list", Query(audit.url)))
  /\ dirty' = (audit' # audit)
  /\ UNCHANGED <<route, token, good, failures, auditLog>>

-----------------------------------------------------------------------------
(* The reader, on a page that is rendered.                                 *)

Click ==
  /\ ~dirty /\ audit.clicks < AuditClicks
  /\ dirty' = TRUE
  /\ UNCHANGED <<route, token, good, failures, auditLog>>
Clicked == [audit EXCEPT !.clicks = @ + 1]

\* Another filter starts with the first page.
ApplyAuditFilterStatePatch(url, filter, page) ==
  Url(filter, IF filter = url.filter THEN page ELSE defaultAuditPage, url.size, 0)

UpdateFilterState(filter) ==
  /\ Click /\ filter # audit.url.filter
  /\ audit' = [Clicked EXCEPT !.url = ApplyAuditFilterStatePatch(@, filter, @.page)]
  /\ UNCHANGED calls

\* Five pages around the one that is shown.
BuildAuditPageNumbers(list) ==
  LET endPage == Min({list.totalPages, Max({1, list.page - 2}) + 4})
  IN Max({1, endPage - 4}) .. endPage

\* A number, Previous or Next.
GoToPage(page) ==
  /\ Click /\ ~audit.loading
  /\ page # audit.list.page
  /\ \/ page \in BuildAuditPageNumbers(audit.list)
     \/ page \in {audit.list.page - 1, audit.list.page + 1} \cap 1 .. audit.list.totalPages
  /\ audit' = [Clicked EXCEPT !.url = ApplyAuditFilterStatePatch(@, @.filter, page),
                              !.back = Append(@, audit.url)]
  /\ UNCHANGED calls

\* The browser's Back.
Back ==
  /\ Click /\ audit.back # <<>>
  /\ audit' = [Clicked EXCEPT !.url = Last(audit.back), !.back = Front(@)]
  /\ UNCHANGED calls

OpenAuditDrawer(row) ==
  /\ Click /\ row \in ToSet(audit.list.rows) /\ row # audit.url.selected
  /\ audit' = [Clicked EXCEPT !.url.selected = row]
  /\ UNCHANGED calls

CloseAuditDrawer ==
  /\ Click /\ audit.url.selected \in ToSet(audit.list.rows)
  /\ audit' = [Clicked EXCEPT !.url.selected = 0]
  /\ UNCHANGED calls

\* An error of the list is cleared, although the list is not loaded again.
HandleAuditExport ==
  /\ Click /\ ~audit.exporting
  /\ audit' = [Clicked EXCEPT !.exporting = TRUE, !.error = FALSE,
                              !.gap = @ \/ audit.error]
  /\ calls' = Append(calls, Call("export", [filter |-> audit.url.filter]))

-----------------------------------------------------------------------------
(* The API.                                                                *)

\* The rows a filter lets through (buildAuditLogWhereClause), newest first (orderBy).
Matches(filter) ==
  { i \in DOMAIN auditLog : filter \in {defaultAuditFilterValue, auditLog[i]} }
Newest(rows, n) == CHOOSE i \in rows : Cardinality({ j \in rows : j >= i }) = n
Matching(filter) ==
  [n \in 1 .. Cardinality(Matches(filter)) |-> Newest(Matches(filter), n)]

RowsTaken(rows, skip, take) == SubSeq(rows, skip + 1, Min({skip + take, Len(rows)}))

\* count()
Counted(query) ==
  LET total == Len(Matching(query.filter))
      totalPages == (total + query.size - 1) \div query.size
  IN [total |-> total, totalPages |-> totalPages,
      page |-> IF totalPages = 0 THEN 1 ELSE Min({query.page, totalPages})]

Count(i) ==
  /\ Served(i, "list")
  /\ Answered(i, [st |-> "read", value |-> Counted(calls[i].arg)])
  /\ UNCHANGED <<route, token, good, dirty, failures, auditVars>>

\* findMany(), after the count.
Found(c) ==
  LET query == c.arg
      rows == Matching(query.filter)
  IN [rows |-> RowsTaken(rows, (c.res.value.page - 1) * query.size, query.size),
      page |-> c.res.value.page, size |-> query.size, total |-> c.res.value.total,
      totalPages |-> c.res.value.totalPages, filter |-> query.filter,
      grown |-> Len(rows) # c.res.value.total]

\* Something is done elsewhere, and written to the audit log.
RowAdded ==
  /\ Len(auditLog) < MaxRows
  /\ auditLog' = Append(auditLog, "a")
  /\ UNCHANGED <<clientVars, audit>>

-----------------------------------------------------------------------------
(* The answers.                                                            *)

\* An answer that comes after the one of a later request is shown all the same.
ListLoaded(p, c) ==
  [p EXCEPT !.list = Found(c), !.loading = FALSE, !.gap = c.late]

Answer(i) ==
  calls' = Without(i) /\ dirty' = TRUE /\ UNCHANGED <<route, token, good, auditLog>>

TakeList(i) ==
  /\ calls[i].op = "list" /\ calls[i].res.st = "read" /\ UNCHANGED failures
  /\ audit' = ListLoaded(audit, calls[i])
  /\ Answer(i)

ListFails(i) ==
  /\ Fails(i, "list")
  /\ audit' = [audit EXCEPT !.loading = FALSE, !.error = TRUE]
  /\ Answer(i)

\* The rows of the filter, all of them (listAuditLogsForExport), are downloaded.
TakeExport(i) ==
  /\ Read(i, "export")
  /\ audit' = [audit EXCEPT !.exporting = FALSE]
  /\ Answer(i)

ExportFails(i) ==
  /\ Fails(i, "export")
  /\ audit' = [audit EXCEPT !.exporting = FALSE, !.error = TRUE]
  /\ Answer(i)

AuditAnswer == \E i \in DOMAIN calls : Count(i) \/ TakeList(i) \/ TakeExport(i)
AuditFailure == \E i \in DOMAIN calls : ListFails(i) \/ ExportFails(i)

AuditReader ==
  \/ \E filter \in Filters : UpdateFilterState(filter)
  \/ \E page \in 1 .. MaxRows : GoToPage(page)
  \/ \E row \in 1 .. MaxRows : OpenAuditDrawer(row)
  \/ Back \/ CloseAuditDrawer \/ HandleAuditExport

\* Nothing is under way: what is shown stays until the reader does something.
AuditAtRest == calls = <<>> /\ ~dirty

AuditNext ==
  /\ route = "audit"
  /\ \/ AuditRender \/ AuditReader \/ AuditAnswer \/ AuditFailure
     \/ RowAdded
     \/ Retries /\ UNCHANGED auditVars
     \/ (* bound *) AuditAtRest /\ TokenExpires /\ UNCHANGED auditVars

auditPageVars == <<clientVars, auditVars>>
AuditSpec == route = "audit" /\ ClientInit /\ AuditInit /\ [][AuditNext]_auditPageVars

\* The page renders, the API serves requests, and answers are taken.
FairAuditSpec ==
  /\ AuditSpec
  /\ WF_auditPageVars(AuditRender)
  /\ WF_auditPageVars(AuditAnswer)

-----------------------------------------------------------------------------
(* Properties.                                                             *)

\* The rows shown are those the filter and the page of the URL ask for; unless rows
\* were added between the two reads, the range under them ends within the total, and
\* there are none only if there are none at all.  It is not so when answers were
\* taken out of order, when loading failed, and when an export cleared that error.
AuditShowsAsked ==
  route = "audit" /\ AuditAtRest /\ ~audit.error /\ ~audit.gap =>
    /\ Query(audit.url) = Query(audit.list)
    /\ audit.url.selected \in {0} \cup ToSet(audit.list.rows)
    /\ ~audit.list.grown =>
         LET from == (audit.list.page - 1) * audit.list.size
         IN /\ from + Len(audit.list.rows) <= audit.list.total
            /\ audit.list.rows = <<>> => audit.list.total = 0

\* The URL is replaced with the page the API answered with, and then they agree.
PageSettles ==
  <>[](<<audit.url.page, audit.url.size>> = <<audit.list.page, audit.list.size>>)
=============================================================================
