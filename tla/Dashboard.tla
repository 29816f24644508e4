------------------------------ MODULE Dashboard ------------------------------
(***************************************************************************)
(* The alerts page: apiAlerts of internal/webui/handler.go, the queries it *)
(* makes (ListFiltered, buildFilter and ListPending of                     *)
(* internal/cache/sqlite.go), and a viewer who pages forward with the      *)
(* pager of internal/webui/static, while the pipeline writes.              *)
(*                                                                         *)
(* A request is three statements, one step each.  Of the filters the       *)
(* environment and the status are kept, the others work like the           *)
(* environment; limit is the page size the viewer's script asks for.       *)
(***************************************************************************)
EXTENDS Integers, Sequences, FiniteSets

CONSTANTS
    Fp,        \* fingerprints
    Zone,      \* values of X-Environment, "" among them
    Limit,     \* PAGE_SIZE of app.js
    MaxSeconds,\* bound: seconds of the clock
    MaxWrites  \* bound: writes by the pipeline

ASSUME DashboardAssumption ==
    /\ Zone \subseteq STRING
    /\ Limit \in Nat \ {0} /\ MaxSeconds \in Nat /\ MaxWrites \in Nat

VARIABLES
    seconds,  \* created_at has no finer clock
    writes,
    analyses, \* alerts_cache in the order its rows were inserted
    waiting,  \* pending_alerts, likewise
    statement,\* the next statement of the request
    filter,
    page,     \* the page asked for
    found,    \* what COUNT and SELECT returned
    shown,    \* the response
    seen,     \* history: fingerprints the viewer has seen on the pages so far,
    settled,  \* those that matched at the start and were left alone since,
    excused   \* whether a row left the filter, or joined it in between

database == <<seconds, writes, analyses, waiting>>
viewer   == <<statement, filter, page, found, shown>>
dashboardVars == <<database, viewer, seen, settled, excused>>

Filter == [env : Zone \cup {"default"}, status : {"", "firing", "resolved"}]
Row    == [fp : Fp, env : Zone, at : Nat, resolved : BOOLEAN]
Stub   == [fp : Fp, env : Zone, at : Nat]
Nothing == [rows |-> {}, pending |-> {}, total |-> 0]

Response == [rows : SUBSET Row, pending : SUBSET Stub, total : Nat]

DashboardTypeOK ==
    /\ seconds \in 0..MaxSeconds /\ writes \in 0..MaxWrites
    /\ analyses \in Seq(Row)
    /\ waiting \in Seq(Stub)
    /\ statement \in {"ask", "count", "select", "pending", "read", "failed", "over"}
    /\ filter \in Filter
    /\ page \in Nat
    /\ found \in Response /\ shown \in Response
    /\ seen \subseteq Fp /\ settled \subseteq Fp
    /\ excused \in BOOLEAN

DashboardInit ==
    /\ seconds = 0 /\ writes = 0
    /\ analyses = <<>> /\ waiting = <<>>
    /\ statement = "ask" /\ filter \in Filter /\ page = 0
    /\ found = Nothing /\ shown = Nothing
    /\ seen = {} /\ settled = {} /\ excused = FALSE

-----------------------------------------------------------------------------
(* The filters.                                                            *)

StatusMatches(resolved, f) ==
    /\ f.status = "resolved" => resolved
    /\ f.status = "firing" => ~resolved

\* buildFilter, in SQL.
Selects(f, row) ==
    /\ f.env # "" => row.env = (IF f.env = "default" THEN "" ELSE f.env)
    /\ StatusMatches(row.resolved, f)

\* matchesFilter, in Go, for a stub: it has no resolution.
matchesFilter(f, stub) ==
    /\ f.env # "" => (IF stub.env = "" THEN "default" ELSE stub.env) = f.env
    /\ StatusMatches(FALSE, f)

\* Faulty: the oldest first.
OldestFirst(a, b) == a.at <= b.at

NewerOrSame(a, b) == a.at >= b.at

\* ORDER BY created_at DESC; SQLite's sorter leaves ties as they were (where
\* ListPending goes through its index they come in reverse; no property tells
\* stubs of one second apart): the chosen rows of a table that come before row i, and the page of them that
\* LIMIT and OFFSET cut out.
Ahead(table, chosen, i) ==
    {j \in chosen \ {i} : IF j < i THEN NewerOrSame(table[j], table[i])
                          ELSE ~NewerOrSame(table[i], table[j])}

Cut(table, chosen, offset) ==
    {i \in chosen : Cardinality(Ahead(table, chosen, i)) \in offset..(offset + Limit - 1)}

Matching(table) == {i \in DOMAIN table : Selects(filter, table[i])}

Matches == Matching(analyses)

-----------------------------------------------------------------------------
(* The pipeline.                                                           *)

Touched(f) ==
    /\ writes < MaxWrites /\ writes' = writes + 1
    /\ settled' = settled \ {f}

\* A row that leaves the filter, and one that joins it between COUNT and
\* SELECT, are what the viewer cannot help.
Excuse ==
    excused' = (\/ excused
                \/ ~(Matches \subseteq Matching(analyses'))
                \/ statement = "select" /\ Matches # Matching(analyses'))

\* Set upserts: a row keeps its place and its resolution.
Set(f, env) ==
    /\ Touched(f)
    /\ LET row(resolved) == [fp |-> f, env |-> env, at |-> seconds, resolved |-> resolved]
       IN  analyses' =
             IF \E i \in DOMAIN analyses : analyses[i].fp = f
             THEN [i \in DOMAIN analyses |->
                     IF analyses[i].fp = f THEN row(analyses[i].resolved) ELSE analyses[i]]
             ELSE Append(analyses, row(FALSE))
    /\ Excuse
    /\ UNCHANGED <<seconds, waiting, viewer, seen>>

MarkResolved(f) ==
    /\ \E i \in DOMAIN analyses : analyses[i].fp = f /\ ~analyses[i].resolved
    /\ Touched(f)
    /\ analyses' = [i \in DOMAIN analyses |->
                      IF analyses[i].fp = f THEN [analyses[i] EXCEPT !.resolved = TRUE] ELSE analyses[i]]
    /\ Excuse
    /\ UNCHANGED <<seconds, waiting, viewer, seen>>

\* SavePending, for every message an alert is posted as, in both modes.
SavePending(f, env) ==
    /\ writes < MaxWrites /\ writes' = writes + 1
    /\ waiting' = Append(waiting, [fp |-> f, env |-> env, at |-> seconds])
    /\ UNCHANGED <<seconds, analyses, viewer, seen, settled, excused>>

\* The janitor, after 30 days.
CleanupPending ==
    /\ \E n \in 1..Len(waiting) : waiting' = SubSeq(waiting, n + 1, Len(waiting))
    /\ UNCHANGED <<seconds, writes, analyses, viewer, seen, settled, excused>>

Second ==
    /\ seconds < MaxSeconds /\ seconds' = seconds + 1
    /\ UNCHANGED <<writes, analyses, waiting, viewer, seen, settled, excused>>

-----------------------------------------------------------------------------
(* The request.                                                            *)

\* The first page notes what there is to see.
Ask ==
    /\ statement = "ask"
    /\ statement' = "count"
    /\ IF page = 0
       THEN /\ settled' = {analyses[i].fp : i \in Matches}
            /\ seen' = {} /\ excused' = FALSE
       ELSE UNCHANGED <<seen, settled, excused>>
    /\ UNCHANGED <<database, filter, page, found, shown>>

\* SELECT COUNT(*).
CountMatches ==
    /\ statement = "count"
    /\ found' = [found EXCEPT !.total = Cardinality(Matches)]
    /\ statement' = "select"
    /\ UNCHANGED <<database, filter, page, shown, seen, settled, excused>>

Offset(p) == p * Limit

\* SELECT ... LIMIT ? OFFSET ?
ListFiltered ==
    /\ statement = "select"
    /\ found' = [found EXCEPT !.rows = {analyses[i] : i \in Cut(analyses, Matches, Offset(page))}]
    /\ statement' = "pending"
    /\ UNCHANGED <<database, filter, page, shown, seen, settled, excused>>

\* Either of the two fails: a 500, and "Failed to load alerts" for the viewer.
ListFails ==
    /\ statement \in {"count", "select"}
    /\ statement' = "failed"
    /\ UNCHANGED <<database, filter, page, found, shown, seen, settled, excused>>

\* Pending alerts join the first page: the newest ones, unless the page has
\* the fingerprint already.
Stubs ==
    IF page # 0 THEN {}
    ELSE {i \in Cut(waiting, DOMAIN waiting, 0) :
            /\ \A row \in found.rows : row.fp # waiting[i].fp
            /\ matchesFilter(filter, waiting[i])}

ListPending ==
    /\ statement = "pending"
    /\ shown' = [rows |-> found.rows, pending |-> {waiting[i] : i \in Stubs},
                 total |-> found.total + Cardinality(Stubs)]
    /\ statement' = "read"
    /\ UNCHANGED <<database, filter, page, found, seen, settled, excused>>

\* ListPending failed: the page does without.
PendingFails ==
    /\ statement = "pending"
    /\ shown' = [rows |-> found.rows, pending |-> {}, total |-> found.total]
    /\ statement' = "read"
    /\ UNCHANGED <<database, filter, page, found, seen, settled, excused>>

Pages == (shown.total + Limit - 1) \div Limit

\* loadAlerts: a page beyond the last is replaced by the last; else the pager
\* offers the next, if there is one.
ReadPage ==
    /\ statement = "read"
    /\ IF Pages > 0 /\ page >= Pages
       THEN page' = Pages - 1 /\ statement' = "ask" /\ UNCHANGED seen
       ELSE /\ seen' = seen \cup {row.fp : row \in shown.rows}
            /\ IF page < Pages - 1 THEN page' = page + 1 /\ statement' = "ask"
               ELSE statement' = "over" /\ UNCHANGED page
    /\ UNCHANGED <<database, filter, found, shown, settled, excused>>

Viewer == Ask \/ CountMatches \/ ListFiltered \/ ListFails \/ ListPending \/ PendingFails \/ ReadPage

DashboardNext ==
    \/ \E f \in Fp, env \in Zone : Set(f, env) \/ SavePending(f, env)
    \/ \E f \in Fp : MarkResolved(f)
    \/ CleanupPending \/ Second
    \/ Viewer

DashboardSpec == DashboardInit /\ [][DashboardNext]_dashboardVars

-----------------------------------------------------------------------------
\* Paging by offset while analyses come in repeats rows but misses none: who
\* has gone through to the last page has seen every analysis that was there at
\* the start and was left alone, unless meanwhile a row left the filter, or
\* one joined it between the two statements of a page.
PagingMissesNothing ==
    statement = "over" /\ ~excused => settled \subseteq seen

\* "Used by the dashboard to surface manual-mode alerts that have not been
\* analyzed yet" (ListPending); "alerts not yet analyzed" (PendingLister).
\* No alert is shown as awaiting its analysis that was analyzed after it was
\* posted, by an analysis that the page's own filter matched when the page was
\* asked for and that was left alone since.  In one second either may be first.
PendingAreUnanalyzed ==
    statement = "read" =>
        \A stub \in shown.pending, i \in DOMAIN analyses :
            analyses[i].fp = stub.fp /\ stub.fp \in settled => analyses[i].at <= stub.at
=============================================================================
