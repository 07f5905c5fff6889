-------------------------- MODULE AdminSubmissions --------------------------
(***************************************************************************)
(* Two tables of the console that are read through useAsyncData            *)
(* (use-async-data.ts): the submissions page, which the server cuts into   *)
(* pages and whose rows can be judged again, rejected, restored and        *)
(* unstuck (submissions/page.tsx, actions/submissions.ts), and the audit   *)
(* log, which the page cuts itself (audit/page.tsx, use-pagination.ts).    *)
(* listPage says which of the two is open.                                 *)
(*                                                                         *)
(* The server's table is a sequence of rows [id, status, rejected]; each   *)
(* change gives it the next version.  calls are the runs of the loader, by *)
(* their request id; handlers are the row operations under way.  One team  *)
(* owns all submissions.  Code, scores, counts and texts are left out.     *)
(***************************************************************************)
EXTENDS Naturals, Sequences, FiniteSets, SequencesExt, Paging

CONSTANTS
  FirstRows,   \* [listPage |-> the server's table at the start]
  Filters,     \* the choices of the status filter other than "all"
  RowsPerPage, \* the choices of the page size
  FirstSize,
  AuditLimit,  \* the loader's limit of the audit page
  MaxVersions, \* bound on the versions of the server's table
  MaxCalls,    \* bound on runs of the loader
  MaxHandlers, \* bound on operations under way
  MaxClicks,   \* bound on changes of the view, refreshes, and rows opened or operated on
  MaxFails     \* bound on failed requests

\* The server's table has a version to begin with.
LedgerConstants == MaxVersions \in Nat \ {0}

VARIABLES
  listPage,
  ledger, ledgerVersion,                       \* the server
  calls,                                       \* the loader's runs; the last one's index is requestId
  data, loadError, loading, refreshing,        \* useAsyncData
  statusFilter, pageAsked, pageSize,
  handlers, busyId, reviewTarget, reviewReason, reviewing, unstickTarget,
  selected, inspections,                       \* the detail dialog and its requests
  chosen,                                      \* the row last inspected, while its dialog is open
  ownVersion,                                  \* the newest version made by an operation that has returned
  listFails, clicks

tableVars  == <<ledger, ledgerVersion>>
asyncVars  == <<calls, data, loadError, loading, refreshing>>
viewVars   == <<statusFilter, pageAsked, pageSize>>
actionVars == <<handlers, busyId, reviewTarget, reviewReason, reviewing, unstickTarget>>
detailVars == <<selected, inspections, chosen>>
submissionVars == <<listPage, tableVars, asyncVars, viewVars, actionVars, detailVars, ownVersion, listFails, clicks>>

None == 0   \* ids of rows are positive

Click == clicks < MaxClicks /\ clicks' = clicks + 1

-----------------------------------------------------------------------------
(* The loader and what is shown.                                           *)

\* What the loader closes over.
Asked == [filter |-> statusFilter, page |-> pageAsked, size |-> pageSize]

Matching(filter) ==
  SelectSeq(ledger, LAMBDA r : filter = "all" \/ (filter = "rejected" /\ r.rejected) \/ r.status = filter)

\* The server's answer: a page of the submissions, or the newest entries of the audit log.
Listed(a) ==
  [version |-> ledgerVersion, asked |-> a, total |-> Len(Matching(a.filter)),
   rows |-> IF listPage = "submissions" THEN slice(Matching(a.filter), a.page, a.size)
            ELSE SubSeq(Matching(a.filter), 1, Min({AuditLimit, Len(Matching(a.filter))}))]

\* No rows.  The version is that of the table shown before, for the properties.
Blank(a, v) == [version |-> v, asked |-> a, total |-> 0, rows |-> <<>>]
Nothing(a)  == Blank(a, 0)

\* useServerPagination and usePagination: the number of rows paged, the page shown, its rows.
totalItems == IF listPage = "submissions" THEN data.total ELSE Len(data.rows)
safePage   == validPage(pageAsked, totalItems, pageSize)
items      == IF listPage = "submissions" THEN data.rows ELSE slice(data.rows, safePage, pageSize)

\* What stands in the place of the table (the audit page has the same four).
Screen ==
  IF loading THEN "skeleton"
  ELSE IF loadError /\ data.rows = <<>> THEN "error"
  ELSE IF data.rows = <<>> THEN "empty" ELSE "table"

\* The rows of the table as they are drawn: struck through where rejected, their buttons
\* disabled while they are the busy one.
ShownRows == [i \in DOMAIN items |->
  [id |-> items[i].id, struck |-> items[i].rejected, enabled |-> busyId # items[i].id]]

\* Clicking a button of a row of the submissions table that is not the busy one.
Clickable(s) == /\ listPage = "submissions" /\ Screen = "table"
                /\ \E i \in DOMAIN ShownRows : ShownRows[i].id = s /\ ShownRows[i].enabled

\* run: the newest request gets the next id and supersedes the others.
run(a, isRefresh) ==
  /\ Len(calls) < MaxCalls
  /\ calls' = Append(calls, [st |-> "sent", answer |-> Nothing(a)])
  /\ IF isRefresh THEN refreshing' = TRUE /\ UNCHANGED loading
     ELSE loading' = TRUE /\ UNCHANGED refreshing
  /\ UNCHANGED <<data, loadError>>

\* Mutant: an answer is used although a newer request is under way.
supersededNever(i) == FALSE

\* id !== requestId.current.
superseded(i) == i # Len(calls)

\* A request reaches the server, or fails.
Serve(i) ==
  /\ calls[i].st = "sent"
  /\ calls' = [calls EXCEPT ![i] = [st |-> "answered", answer |-> Listed(calls[i].answer.asked)]]
  /\ UNCHANGED <<listPage, tableVars, data, loadError, loading, refreshing, viewVars, actionVars,
                 detailVars, ownVersion, listFails, clicks>>

Fail(i) ==
  /\ calls[i].st = "sent" /\ listFails < MaxFails /\ listFails' = listFails + 1
  /\ calls' = [calls EXCEPT ![i].st = "failed"]
  /\ UNCHANGED <<listPage, tableVars, data, loadError, loading, refreshing, viewVars, actionVars,
                 detailVars, ownVersion, clicks>>

\* The rest of run.  A failed listAdminSubmissionsAction answers an empty list;
\* getAuditLogsAction throws, and the rows stay.
Settle(i) ==
  /\ calls[i].st \in {"answered", "failed"}
  /\ IF superseded(i) THEN UNCHANGED <<data, loadError, loading, refreshing>>
     ELSE /\ loading' = FALSE /\ refreshing' = FALSE
          /\ IF calls[i].st = "failed" /\ listPage = "audit"
             THEN loadError' = TRUE /\ UNCHANGED data
             ELSE /\ data' = IF calls[i].st = "failed" THEN Blank(calls[i].answer.asked, data.version)
                             ELSE calls[i].answer
                  /\ loadError' = FALSE
  /\ calls' = [calls EXCEPT ![i] = [st |-> "over", answer |-> Nothing(Asked)]]
  /\ UNCHANGED <<listPage, tableVars, viewVars, actionVars, detailVars, ownVersion, listFails, clicks>>

\* The Refresh button, and the retry of the error state.
Refresh ==
  /\ ~refreshing /\ Click /\ run(Asked, TRUE)
  /\ UNCHANGED <<listPage, tableVars, viewVars, actionVars, detailVars, ownVersion, listFails>>

\* The filter goes back to the first page, except "Show all statuses" of the empty state; a
\* changed filter, and on the submissions page a changed page, is a new loader, which runs.
View(filter, page, size) ==
  /\ <<filter, page, size>> # <<statusFilter, pageAsked, pageSize>> /\ Click
  /\ statusFilter' = filter /\ pageAsked' = page /\ pageSize' = size
  /\ IF listPage = "submissions" \/ filter # statusFilter
     THEN run([filter |-> filter, page |-> page, size |-> size], FALSE)
     ELSE UNCHANGED asyncVars
  /\ UNCHANGED <<listPage, tableVars, actionVars, detailVars, ownVersion, listFails>>

FilterBy(f) == View(f, IF listPage = "submissions" THEN 1 ELSE pageAsked, pageSize)

ShowAll == listPage = "submissions" /\ Screen = "empty" /\ View("all", pageAsked, pageSize)

\* DataPagination: a numbered button, the previous or the next page; usePagination clamps.
setPage(p) ==
  /\ Screen = "table"
  /\ p \in pageWindow(safePage, totalPages(totalItems, pageSize)) \cup {safePage - 1, safePage + 1}
  /\ p \in 1..totalPages(totalItems, pageSize)
  /\ View(statusFilter, p, pageSize)

setPageSize(n) == Screen = "table" /\ View(statusFilter, 1, n)

\* usePagination's effect after the list has shrunk.
ClampPage ==
  /\ listPage = "audit" /\ pageAsked # safePage /\ pageAsked' = safePage
  /\ UNCHANGED <<listPage, tableVars, asyncVars, statusFilter, pageSize, actionVars, detailVars,
                 ownVersion, listFails, clicks>>

-----------------------------------------------------------------------------
(* The operations on a row.                                                *)

\* handleRejudge, handleRestore: the row becomes the busy one.
RowOperation(kind, s) ==
  /\ Clickable(s) /\ Click /\ Len(handlers) < MaxHandlers
  /\ kind = "restore" => \E i \in DOMAIN items : items[i].id = s /\ items[i].rejected
  /\ busyId' = s
  /\ handlers' = Append(handlers, [kind |-> kind, id |-> s, st |-> "sent", call |-> 0, version |-> 0])
  /\ UNCHANGED <<listPage, tableVars, asyncVars, viewVars, reviewTarget, reviewReason, reviewing,
                 unstickTarget, detailVars, ownVersion, listFails>>

\* The reject and unstick buttons open their dialogs; Cancel, or closing, empties the target.
OpenReview(s) ==
  /\ Clickable(s) /\ Click /\ \E i \in DOMAIN items : items[i].id = s /\ ~items[i].rejected
  /\ reviewTarget = None /\ unstickTarget = None /\ selected = None
  /\ reviewTarget' = s /\ reviewReason' = FALSE
  /\ UNCHANGED <<listPage, tableVars, asyncVars, viewVars, handlers, busyId, reviewing,
                 unstickTarget, detailVars, ownVersion, listFails>>

GiveReason ==
  /\ reviewTarget # None /\ ~reviewReason /\ reviewReason' = TRUE
  /\ UNCHANGED <<listPage, tableVars, asyncVars, viewVars, handlers, busyId, reviewTarget, reviewing,
                 unstickTarget, detailVars, ownVersion, listFails, clicks>>

CancelReview ==
  /\ reviewTarget # None /\ reviewTarget' = None
  /\ UNCHANGED <<listPage, tableVars, asyncVars, viewVars, handlers, busyId, reviewReason, reviewing,
                 unstickTarget, detailVars, ownVersion, listFails, clicks>>

handleReject ==
  /\ reviewTarget # None /\ reviewReason /\ ~reviewing /\ Len(handlers) < MaxHandlers
  /\ reviewing' = TRUE
  /\ handlers' = Append(handlers,
       [kind |-> "reject", id |-> reviewTarget, st |-> "sent", call |-> 0, version |-> 0])
  /\ UNCHANGED <<listPage, tableVars, asyncVars, viewVars, busyId, reviewTarget, reviewReason,
                 unstickTarget, detailVars, ownVersion, listFails, clicks>>

OpenUnstick(s) ==
  /\ Clickable(s) /\ Click /\ reviewTarget = None /\ unstickTarget = None /\ selected = None
  /\ unstickTarget' = s
  /\ UNCHANGED <<listPage, tableVars, asyncVars, viewVars, handlers, busyId, reviewTarget,
                 reviewReason, reviewing, detailVars, ownVersion, listFails>>

\* Confirmed, the dialog closes before the request; or it is cancelled.
CloseUnstick(confirm) ==
  /\ unstickTarget # None /\ unstickTarget' = None
  /\ IF confirm
     THEN /\ Len(handlers) < MaxHandlers /\ busyId' = unstickTarget
          /\ handlers' = Append(handlers,
               [kind |-> "unstick", id |-> unstickTarget, st |-> "sent", call |-> 0, version |-> 0])
     ELSE UNCHANGED <<busyId, handlers>>
  /\ UNCHANGED <<listPage, tableVars, asyncVars, viewVars, reviewTarget, reviewReason, reviewing,
                 detailVars, ownVersion, listFails, clicks>>

\* What the server makes of a row.
Operated(kind, s, r) ==
  CASE kind = "unstick" /\ r.status = "queued" -> [r EXCEPT !.status = "failed"]
    [] kind = "rejudge" /\ r.id = s -> [r EXCEPT !.status = "queued"]
    [] kind = "reject"  /\ r.id = s -> [r EXCEPT !.rejected = TRUE]
    [] kind = "restore" /\ r.id = s -> [r EXCEPT !.rejected = FALSE]
    [] OTHER -> r

ServeOperation(j) ==
  /\ handlers[j].st = "sent" /\ ledgerVersion < MaxVersions
  /\ ledger' = [i \in DOMAIN ledger |-> Operated(handlers[j].kind, handlers[j].id, ledger[i])]
  /\ ledgerVersion' = ledgerVersion + 1
  /\ handlers' = [handlers EXCEPT ![j].st = "served", ![j].version = ledgerVersion']
  /\ UNCHANGED <<listPage, asyncVars, viewVars, busyId, reviewTarget, reviewReason, reviewing,
                 unstickTarget, detailVars, ownVersion, listFails, clicks>>

\* The finally clause of a handler.
Released(kind) ==
  IF kind = "reject" THEN reviewing' = FALSE /\ UNCHANGED busyId
  ELSE busyId' = None /\ UNCHANGED reviewing

\* The request failed: a toast, and the handler is over.
RefuseOperation(j) ==
  /\ handlers[j].st = "sent" /\ listFails < MaxFails /\ listFails' = listFails + 1
  /\ Released(handlers[j].kind) /\ handlers' = RemoveAt(handlers, j)
  /\ UNCHANGED <<listPage, tableVars, asyncVars, viewVars, reviewTarget, reviewReason,
                 unstickTarget, detailVars, ownVersion, clicks>>

\* It succeeded: a rejection closes its dialog, whichever row it is open for by now, and
\* every handler waits for a refresh by the loader of the render it was clicked in.
OperationDone(j) ==
  /\ handlers[j].st = "served" /\ run(Asked, TRUE)
  /\ IF handlers[j].kind = "reject" THEN reviewTarget' = None /\ reviewReason' = FALSE
     ELSE UNCHANGED <<reviewTarget, reviewReason>>
  /\ handlers' = [handlers EXCEPT ![j].st = "refreshing", ![j].call = Len(calls')]
  /\ ownVersion' = Max({ownVersion, handlers[j].version})
  /\ UNCHANGED <<listPage, tableVars, viewVars, busyId, reviewing, unstickTarget, detailVars, listFails, clicks>>

HandlerOver(j) ==
  /\ handlers[j].st = "refreshing" /\ calls[handlers[j].call].st = "over"
  /\ Released(handlers[j].kind) /\ handlers' = RemoveAt(handlers, j)
  /\ UNCHANGED <<listPage, tableVars, asyncVars, viewVars, reviewTarget, reviewReason, unstickTarget,
                 detailVars, ownVersion, listFails, clicks>>

-----------------------------------------------------------------------------
(* The detail dialog.                                                      *)

\* setSelectedSubmission's updater: the full submission replaces only its own row.
detailShown(s) == IF selected = s THEN s ELSE selected

inspectSubmission(s) ==
  /\ \E i \in DOMAIN items : items[i].id = s
  /\ Screen = "table" /\ Click /\ selected = None /\ reviewTarget = None /\ unstickTarget = None
  /\ selected' = s /\ chosen' = s
  /\ inspections' = inspections \cup (IF listPage = "submissions" THEN {s} ELSE {})
  /\ UNCHANGED <<listPage, tableVars, asyncVars, viewVars, actionVars, ownVersion, listFails>>

InspectionAnswered(s) ==
  /\ s \in inspections /\ inspections' = inspections \ {s}
  /\ selected' = detailShown(s)
  /\ UNCHANGED <<listPage, tableVars, asyncVars, viewVars, actionVars, chosen, ownVersion, listFails, clicks>>

CloseDetail ==
  /\ selected # None /\ selected' = None /\ chosen' = None
  /\ UNCHANGED <<listPage, tableVars, asyncVars, viewVars, actionVars, inspections, ownVersion, listFails, clicks>>

\* The judge finishes a submission; someone does something that is logged.
TableMoves ==
  /\ ledgerVersion < MaxVersions /\ ledgerVersion' = ledgerVersion + 1
  /\ IF listPage = "submissions"
     THEN \E i \in DOMAIN ledger : ledger[i].status = "queued" /\ ledger' = [ledger EXCEPT ![i].status = "passed"]
     ELSE \E st \in Filters :
            ledger' = <<[id |-> Len(ledger) + 1, status |-> st, rejected |-> FALSE]>> \o ledger
  /\ UNCHANGED <<listPage, asyncVars, viewVars, actionVars, detailVars, ownVersion, listFails, clicks>>

Init ==
  /\ listPage \in DOMAIN FirstRows /\ ledger = FirstRows[listPage] /\ ledgerVersion = 1
  /\ statusFilter = "all" /\ pageAsked = 1 /\ pageSize = FirstSize
  /\ calls = <<[st |-> "sent", answer |-> Nothing(Asked)]>>
  /\ data = Nothing(Asked) /\ loadError = FALSE /\ loading = TRUE /\ refreshing = FALSE
  /\ handlers = <<>> /\ busyId = None /\ reviewTarget = None /\ reviewReason = FALSE
  /\ reviewing = FALSE /\ unstickTarget = None
  /\ selected = None /\ chosen = None /\ inspections = {} /\ ownVersion = 0 /\ listFails = 0
  /\ clicks = 0

RowIds == 1..(Len(FirstRows["submissions"]) + Len(FirstRows["audit"]) + MaxVersions)

Next ==
  \/ Refresh \/ ShowAll \/ ClampPage \/ TableMoves
  \/ \E i \in DOMAIN calls : Serve(i) \/ Fail(i) \/ Settle(i)
  \/ \E f \in Filters \cup {"all"} : FilterBy(f)
  \/ \E p \in 1..totalPages(totalItems, pageSize) : setPage(p)
  \/ \E n \in RowsPerPage : setPageSize(n)
  \/ \E s \in RowIds : \/ \E kind \in {"rejudge", "restore"} : RowOperation(kind, s)
                       \/ OpenReview(s) \/ OpenUnstick(s)
                       \/ inspectSubmission(s) \/ InspectionAnswered(s)
  \/ GiveReason \/ CancelReview \/ handleReject \/ CloseDetail
  \/ \E confirm \in BOOLEAN : CloseUnstick(confirm)
  \/ \E j \in DOMAIN handlers : ServeOperation(j) \/ RefuseOperation(j) \/ OperationDone(j) \/ HandlerOver(j)

Spec == Init /\ [][Next]_submissionVars

-----------------------------------------------------------------------------
(* Properties.                                                             *)

\* Types.
TypeOK ==
  /\ ledgerVersion \in 1..MaxVersions /\ ownVersion \in 0..MaxVersions
  /\ \A i \in DOMAIN calls : calls[i].st \in {"sent", "answered", "failed", "over"}
  /\ data.version \in 0..MaxVersions /\ data.asked.filter \in Filters \cup {"all"}
  /\ {loadError, loading, refreshing, reviewReason, reviewing} \subseteq BOOLEAN
  /\ pageAsked \in Nat \ {0} /\ pageSize \in RowsPerPage
  /\ \A j \in DOMAIN handlers : handlers[j].st \in {"sent", "served", "refreshing"}
  /\ {busyId, reviewTarget, unstickTarget, selected, chosen} \cup inspections \subseteq RowIds \cup {None}

\* The rows shown are a live view of the server's table: however refreshes, filters, pages
\* and operations overlap and in whatever order their answers come, an older table never
\* replaces a newer one (useAsyncData's request ids).
Table == INSTANCE FreshView
  WITH Versions <- MaxVersions, source <- ledgerVersion, view <- data.version

\* Once nothing is loading, the rows are those of the filter and page chosen, and of a table
\* that has every operation whose success was reported - unless the last load failed.
SettledShowsOwnWork ==
  (~loading /\ ~refreshing /\ ~loadError /\ data.rows # <<>>) =>
     /\ data.asked.filter = statusFilter
     /\ listPage = "submissions" => data.asked = Asked
     /\ data.version >= ownVersion

\* The detail dialog shows the row that was opened last, and nothing after it was closed,
\* however late the full submissions arrive (inspectSubmission).
DetailIsChosen == selected = chosen

\* Where the audit page has rows, the page shown has some of them, and the pages hold each
\* once, also after a filter has made the list shorter; the buttons always include the page
\* shown, the first and the last (usePagination, pageWindow).
LogPaged ==
  /\ listPage = "audit" /\ data.rows # <<>> => items # <<>> /\ PagesPartition(data.rows, pageSize)
  /\ \A n \in {totalPages(totalItems, pageSize), 9} :
       LET p == Min({safePage + (IF n = 9 THEN 3 ELSE 0), n}) IN {1, p, n} \subseteq pageWindow(p, n)
=============================================================================
