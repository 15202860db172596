------------------------------ MODULE Listing ------------------------------
(***************************************************************************)
(* Listing assistants, threads, runs and crons page by page, in the        *)
(* in-memory and in the Postgres runtime, while other requests insert,     *)
(* touch, relabel and delete rows between the pages.                       *)
(*                                                                         *)
(* A row is abstracted to what a search tells apart: whether it satisfies  *)
(* the search, whether the filter of the authentication handler lets the   *)
(* caller see it, the same for the thread a cron belongs to, and the times *)
(* it was created and updated at, which are distinct.                      *)
(***************************************************************************)
EXTENDS Naturals, FiniteSets

CONSTANTS
  NRows,          \* rows 1..NRows, created in this order
  NStored,        \* rows that are there at the beginning
  PageLimit,      \* the limit of a page
  Queries,        \* searches: [kind, runtime, sort, form]
  MaxChanges      \* bound: changes by other requests

VARIABLES
  query,          \* the search that is made
  rows,
  now,            \* the clock, one tick per change
  pageWalk            \* the client's walk through the pages

liVars == <<query, rows, now, pageWalk>>

Kinds == {"assistants", "threads", "runs", "crons"}
Sorts == {"default", "createdAsc", "updatedAsc"}
\* What the handler returns: nothing, {key: value} or {key: {"$eq": value}}.
QueryForms == {"none", "plain", "operator"}

ASSUME ListingAssumption ==
  /\ NRows \in Nat /\ NStored \in Nat /\ PageLimit \in Nat \ {0}
  /\ Queries \subseteq [kind : Kinds, runtime : {"inmem", "pg"}, sort : Sorts, form : QueryForms]

NoRow == [there |-> FALSE, fits |-> FALSE, mine |-> FALSE, threadMine |-> FALSE, created |-> 0, updated |-> 0]
\* Only what the query looks at varies.
NewRows(t) ==
  {[there |-> TRUE, fits |-> f, mine |-> m, threadMine |-> h, created |-> t, updated |-> t] :
     f \in BOOLEAN, m \in {TRUE, query.form = "none"}, h \in {TRUE, query.kind # "crons"}}

NoWalk == [pc |-> "idle", offset |-> 0, got |-> {}, count |-> 0, total |-> 0,
           start |-> {}, touched |-> {}, gone |-> FALSE, changed |-> FALSE]

ListingInit ==
  /\ query \in Queries
  /\ rows \in {f \in [1..NRows -> {NoRow} \cup UNION {NewRows(t) : t \in 1..NStored}] :
                 \A i \in 1..NRows : IF i <= NStored THEN f[i] \in NewRows(i) ELSE f[i] = NoRow}
  /\ now = NStored + 1
  /\ pageWalk = NoWalk

(***************************************************************************)
(* The searches                                                            *)
(***************************************************************************)
\* _check_filter_match: the Postgres runtime compares the value with the operator
\* object itself.
MatchesFilter(mine) ==
  CASE query.form = "none" -> TRUE
    [] query.form = "plain" -> mine
    [] query.form = "operator" -> IF query.runtime = "inmem" THEN mine ELSE FALSE

\* The criteria of the request; the WHERE clause of the Postgres runtime.
Fitting == {i \in 1..NRows : rows[i].there /\ rows[i].fits}

SortKey(i) ==
  IF query.sort = "updatedAsc" \/ (query.sort = "default" /\ query.kind = "threads")
  THEN rows[i].updated ELSE rows[i].created

Before(i, j) == IF query.sort = "default" THEN SortKey(i) > SortKey(j) ELSE SortKey(i) < SortKey(j)

Page(S, offset) ==
  {i \in S : LET rank == Cardinality({j \in S : Before(j, i)})
             IN  offset <= rank /\ rank < offset + PageLimit}

\* The in-memory runtime filters, sorts and then cuts the list.
InmemCut(S) == [page |-> Page(S, pageWalk.offset), more |-> Cardinality(S) > pageWalk.offset + PageLimit]

\* Mutant of PgCut: the rows are counted that are left after the filter.
PgCutFiltered(S, seen) ==
  [page |-> Page(S, pageWalk.offset) \cap seen,
   more |-> Cardinality(S \cap seen) > pageWalk.offset + PageLimit]

\* The Postgres runtime sorts and cuts in SQL, one row more than the page, and
\* filters what is on the page.
PgCut(S, seen) ==
  [page |-> Page(S, pageWalk.offset) \cap seen,
   more |-> Cardinality(S) > pageWalk.offset + PageLimit]

\* The filter of the row itself, and the one of the thread a cron belongs to.  The
\* thread whose runs are listed is the caller's own.
Own(i) == MatchesFilter(rows[i].mine)
OwnThread(i) == MatchesFilter(rows[i].threadMine)

InmemAssistants == {i \in Fitting : Own(i)}
InmemThreads == {i \in Fitting : Own(i)}
InmemRuns == {i \in Fitting : MatchesFilter(TRUE)}
InmemCrons == {i \in Fitting : Own(i) /\ OwnThread(i)}

PgAssistants == PgCut(Fitting, {i \in Fitting : Own(i)})
PgThreads == PgCut(Fitting, {i \in Fitting : Own(i)})
PgRuns == PgCut(Fitting, {i \in Fitting : MatchesFilter(TRUE)})
PgCronListing == PgCut(Fitting, {i \in Fitting : Own(i)})

Answered ==
  CASE query.kind = "assistants" -> (IF query.runtime = "inmem" THEN InmemCut(InmemAssistants) ELSE PgAssistants)
    [] query.kind = "threads" -> (IF query.runtime = "inmem" THEN InmemCut(InmemThreads) ELSE PgThreads)
    [] query.kind = "runs" -> (IF query.runtime = "inmem" THEN InmemCut(InmemRuns) ELSE PgRuns)
    [] query.kind = "crons" -> (IF query.runtime = "inmem" THEN InmemCut(InmemCrons) ELSE PgCronListing)

\* A search of runs tells of no next page: the client goes on until a page is not full.
More == IF query.kind = "runs" THEN Cardinality(Answered.page) = PageLimit ELSE Answered.more

\* get_pagination_headers: X-Pagination-Total.
Total == IF More THEN pageWalk.offset + PageLimit + 1 ELSE Cardinality(Answered.page) + pageWalk.offset

(***************************************************************************)
(* The client                                                              *)
(***************************************************************************)
\* What the caller may expect to find.
Expected == {i \in Fitting : /\ (query.form # "none" /\ query.kind # "runs") => rows[i].mine
                             /\ (query.form # "none" /\ query.kind = "crons" /\ query.runtime = "inmem") => rows[i].threadMine}

\* The filter cannot be part of the SQL: all the rows are fetched and counted.
PgCount == IF query.form = "none" THEN Cardinality(Fitting)
           ELSE Cardinality({i \in Fitting : Own(i)})

InmemCount(S) == Cardinality(S)

\* list_runs asks for the thread first, which is the caller's own.
ThreadFound == query.kind = "runs" => MatchesFilter(TRUE)

CountRows(kind, counted) ==
  /\ pageWalk.pc = "idle" /\ query.kind = kind
  /\ pageWalk' = [pageWalk EXCEPT !.pc = "counted", !.count = IF query.runtime = "inmem" THEN counted ELSE PgCount]
  /\ UNCHANGED <<query, rows, now>>

CountAssistants == CountRows("assistants", InmemCount(InmemAssistants))
CountThreads == CountRows("threads", InmemCount(InmemThreads))
CountCrons == CountRows("crons", InmemCount(InmemCrons))

\* search_assistants, search_threads, search_crons; list_runs.
Search ==
  /\ pageWalk.pc = "counted"
  /\ pageWalk' = [pageWalk EXCEPT !.pc = "paging", !.start = Expected]
  /\ UNCHANGED <<query, rows, now>>

ListRuns ==
  /\ pageWalk.pc = "idle" /\ query.kind = "runs"
  /\ pageWalk' = IF ThreadFound THEN [pageWalk EXCEPT !.pc = "paging", !.start = Expected]
             ELSE [pageWalk EXCEPT !.pc = "refused"]
  /\ UNCHANGED <<query, rows, now>>

NextPage ==
  /\ pageWalk.pc = "paging"
  /\ pageWalk' = [pageWalk EXCEPT !.got = @ \cup Answered.page,
                          !.total = Total,
                          !.offset = IF More THEN @ + PageLimit ELSE @,
                          !.pc = IF More THEN "paging" ELSE "done"]
  /\ UNCHANGED <<query, rows, now>>

(***************************************************************************)
(* Other requests                                                          *)
(***************************************************************************)
MayChange == pageWalk.pc \in {"counted", "paging"} /\ now <= NStored + MaxChanges /\ now' = now + 1

InsertRow(i) ==
  /\ MayChange /\ ~rows[i].there /\ rows[i].created = 0
  /\ \E r \in NewRows(now) : rows' = [rows EXCEPT ![i] = r]
  /\ pageWalk' = [pageWalk EXCEPT !.changed = TRUE]
  /\ UNCHANGED query

Touch(i) ==
  /\ MayChange /\ rows[i].there
  /\ rows' = [rows EXCEPT ![i].updated = now]
  /\ pageWalk' = [pageWalk EXCEPT !.changed = TRUE, !.touched = @ \cup {i}]
  /\ UNCHANGED query

\* A patch that changes whether the row satisfies the search.
Relabel(i) ==
  /\ MayChange /\ rows[i].there
  /\ rows' = [rows EXCEPT ![i].fits = ~@, ![i].updated = now]
  /\ pageWalk' = [pageWalk EXCEPT !.changed = TRUE, !.touched = @ \cup {i}, !.gone = @ \/ rows[i].fits]
  /\ UNCHANGED query

Remove(i) ==
  /\ MayChange /\ rows[i].there
  /\ rows' = [rows EXCEPT ![i].there = FALSE]
  /\ pageWalk' = [pageWalk EXCEPT !.changed = TRUE, !.gone = TRUE]
  /\ UNCHANGED query

ListingNext ==
  \/ CountAssistants \/ CountThreads \/ CountCrons \/ Search \/ ListRuns \/ NextPage
  \/ \E i \in 1..NRows : InsertRow(i) \/ Touch(i) \/ Relabel(i) \/ Remove(i)

ListingSpec == ListingInit /\ [][ListingNext]_liVars

(***************************************************************************)
(* Properties                                                              *)
(***************************************************************************)
\* The type of the walk.
ListingTypeOK ==
  /\ query \in [kind : Kinds, runtime : {"inmem", "pg"}, sort : Sorts, form : QueryForms]
  /\ pageWalk.got \subseteq 1..NRows /\ pageWalk.start \subseteq 1..NRows
  /\ pageWalk.pc \in {"idle", "counted", "paging", "done", "refused"}

\* A client that follows X-Pagination-Next to the end has seen every row it may
\* expect, whatever was inserted and updated on the way.  Rows that are updated
\* themselves may move behind the client, and rows that leave the search move the
\* others forward; so does any update when the oldest update comes first.  The
\* Postgres runtime knows no operators in filters.
ListingComplete ==
  (/\ pageWalk.pc = "done" /\ ~pageWalk.gone
   /\ query.sort = "updatedAsc" => pageWalk.touched = {}
   /\ query.runtime = "pg" => query.form # "operator")
  => pageWalk.start \ pageWalk.touched \subseteq pageWalk.got

\* The count of the search is the number of rows a walk finds when nothing changes,
\* and in the in-memory runtime the total of the last page's headers.
CountAgrees ==
  (pageWalk.pc = "done" /\ ~pageWalk.changed /\ query.kind # "runs") =>
     /\ pageWalk.count = Cardinality(pageWalk.got)
     /\ query.runtime = "inmem" => pageWalk.total = pageWalk.count
=============================================================================
