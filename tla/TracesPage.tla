---------------------------- MODULE TracesPage ----------------------------
(***************************************************************************)
(* The Traces page (ui/src/pages/Traces.tsx) and the keyset-paginated      *)
(* query behind it (POST /api/v1/spans/query).  Project, filters, search   *)
(* text, time range and page size may change while requests are under way: *)
(* every change sends a fresh request, and a sequence number decides which *)
(* answer may still be shown.  A list row stands for a trace with a single *)
(* span.  Search text counts as a filter; the time range of the header,    *)
(* which like the project belongs to App and which both phases of the      *)
(* query honour, is part of what `project` selects.                        *)
(***************************************************************************)
EXTENDS Naturals, Sequences, FiniteSets

CONSTANTS
    Traces,      \* natural numbers, in the order of their root span IDs
    Owner,       \* Owner[t]: the project of trace t
    StartTime,   \* StartTime[t]: when its root span started
    Filters,     \* the filter settings a user may choose
    NoFilter,    \* the empty one
    Matches,     \* Matches[f]: the traces that satisfy f
    PageSizes,
    DefaultPageSize,
    NoCursor,
    Seed,        \* the traces that are there at the start
    MaxSeq       \* bound: requests sent by one mounted page

Projects == {Owner[t] : t \in Traces}

ASSUME ConstantsAssumption ==
    /\ Traces \subseteq Nat
    /\ IsFiniteSet(Traces)
    /\ StartTime \in [Traces -> Nat]
    /\ NoFilter \in Filters
    /\ Matches \in [Filters -> SUBSET Traces]
    /\ Matches[NoFilter] = Traces
    /\ PageSizes \subseteq Nat \ {0}
    /\ DefaultPageSize \in PageSizes
    /\ NoCursor \notin Traces
    /\ Seed \subseteq Traces
    /\ MaxSeq \in Nat

VARIABLES
    stored,      \* traces committed to the Lake
    mounted,     \* the page is on screen
    project,     \* activeProject and timeRange
    filter,      \* filterState and debouncedQuery
    pageSize,
    spans,       \* the rows: traces with the query they were fetched for
    nextCursor,
    loading,
    queryState,
    requestSeq,
    requests,    \* requests[n]: the request with sequence number n
    base         \* history: what was stored when the first page was read

pageVars == <<project, filter, pageSize, spans, nextCursor,
              loading, queryState, requestSeq, requests, base>>
vars == <<stored, mounted, pageVars>>

Query == [project |-> project, filter |-> filter]
Idle == [status |-> "none"]

(* A request that has not been answered. *)
Sent(append, cursor, q, size) ==
    [status |-> "sent", append |-> append, cursor |-> cursor, query |-> q, size |-> size]

Init ==
    /\ stored = Seed
    /\ mounted = FALSE
    /\ project \in Projects
    /\ filter = NoFilter
    /\ pageSize = DefaultPageSize
    /\ spans = <<>>
    /\ nextCursor = NoCursor
    /\ loading = FALSE
    /\ queryState = "pending"
    /\ requestSeq = 0
    /\ requests = [n \in 1..MaxSeq |-> Idle]
    /\ base = {}

-----------------------------------------------------------------------------
(* The server: phase 1 picks the newest traces of the project after the    *)
(* cursor, whatever the filters say, the main query filters these, and the *)
(* page and its cursor are cut from what is left.                          *)
Newer(s, t) == StartTime[s] > StartTime[t] \/ (StartTime[s] = StartTime[t] /\ s < t)

(* Mutant: the cursor's own row is read again. *)
MutantBeyond(t, c) == StartTime[t] <= StartTime[c]

(* The cursor predicate: the span ID is compared the other way round than  *)
(* the ORDER BY sorts it.                                                  *)
Beyond(t, c) == StartTime[t] < StartTime[c] \/ (StartTime[t] = StartTime[c] /\ t < c)

(* ORDER BY start_time DESC, span_id ASC: row i has i - 1 rows before it. *)
Rank(t, S) == Cardinality({u \in S : Newer(u, t)})
OrderBy(S) == [i \in 1..Cardinality(S) |-> CHOOSE t \in S : Rank(t, S) = i - 1]

(* The trace IDs that phase 1 collects, under LIMIT size + 1. *)
PhaseOne(r) ==
    LET found == {t \in stored : Owner[t] = r.query.project
                                 /\ (r.cursor = NoCursor \/ Beyond(t, r.cursor))}
    IN  {t \in found : Rank(t, found) <= r.size}

MainRows(r) == OrderBy(PhaseOne(r) \cap Matches[r.query.filter])

Page(r) ==
    LET rows == MainRows(r)
    IN  IF Len(rows) > r.size
        THEN [rows |-> SubSeq(rows, 1, r.size), next |-> rows[r.size]]
        ELSE [rows |-> rows, next |-> NoCursor]

(* External: the Writer commits a trace. *)
Ingest(t) ==
    /\ t \notin stored
    /\ stored' = stored \cup {t}
    /\ UNCHANGED <<mounted, pageVars>>

(* HandleSpanQuery answers request n, or refuses it. *)
Answer(n) ==
    /\ requests[n].status = "sent"
    /\ \/ requests' = [requests EXCEPT ![n] =
            [status |-> "ok", append |-> @.append, query |-> @.query, page |-> Page(@), base |-> stored]]
       \/ requests' = [requests EXCEPT ![n] = [status |-> "refused", append |-> @.append]]
    /\ UNCHANGED <<stored, mounted, project, filter, pageSize, spans, nextCursor,
                   loading, queryState, requestSeq, base>>

-----------------------------------------------------------------------------
(* Mutant: the list of the previous query still counts as answered. *)
MutantFetchSpans(cursor, append, q, size) ==
    /\ requestSeq < MaxSeq
    /\ requestSeq' = requestSeq + 1
    /\ loading' = TRUE
    /\ queryState' = queryState
    /\ requests' = [requests EXCEPT ![requestSeq + 1] = Sent(append, cursor, q, size)]

(* fetchSpans up to its first await, for the query q. *)
FetchSpans(cursor, append, q, size) ==
    /\ requestSeq < MaxSeq
    /\ requestSeq' = requestSeq + 1
    /\ loading' = TRUE
    /\ queryState' = IF append THEN queryState ELSE "pending"
    /\ requests' = [requests EXCEPT ![requestSeq + 1] = Sent(append, cursor, q, size)]

(* The fetch effect: whatever fetchSpans depends on, a change sends one    *)
(* fresh request.                                                          *)
Refetch == FetchSpans(NoCursor, FALSE, Query', pageSize')

Mount ==
    /\ ~mounted
    /\ mounted' = TRUE
    /\ UNCHANGED <<project, filter, pageSize>>
    /\ Refetch
    /\ UNCHANGED <<stored, spans, nextCursor, base>>

(* Leaving the page: its state goes, and so does every answer on its way. *)
Unmount ==
    /\ mounted
    /\ mounted' = FALSE
    /\ filter' = NoFilter
    /\ pageSize' = DefaultPageSize
    /\ spans' = <<>>
    /\ nextCursor' = NoCursor
    /\ loading' = FALSE
    /\ queryState' = "pending"
    /\ requestSeq' = 0
    /\ requests' = [n \in 1..MaxSeq |-> Idle]
    /\ base' = {}
    /\ UNCHANGED <<stored, project>>

(* The header: another project, or another time range. *)
SwitchProject(p) ==
    /\ mounted
    /\ p # project
    /\ project' = p
    /\ UNCHANGED <<filter, pageSize>>
    /\ Refetch
    /\ UNCHANGED <<stored, mounted, spans, nextCursor, base>>

(* The filter sidebar, Clear All Filters or the debounced search text. *)
ApplyFilter(f) ==
    /\ mounted
    /\ f # filter
    /\ filter' = f
    /\ UNCHANGED <<project, pageSize>>
    /\ Refetch
    /\ UNCHANGED <<stored, mounted, spans, nextCursor, base>>

SetPageSize(n) ==
    /\ mounted
    /\ n # pageSize
    /\ pageSize' = n
    /\ UNCHANGED <<project, filter>>
    /\ Refetch
    /\ UNCHANGED <<stored, mounted, spans, nextCursor, base>>

(* The 30-second interval, which the user may switch on at any time, the   *)
(* Retry button of the error banner, and the refetch after a bulk add.     *)
Refresh ==
    /\ mounted
    /\ UNCHANGED <<project, filter, pageSize>>
    /\ Refetch
    /\ UNCHANGED <<stored, mounted, spans, nextCursor, base>>

(* PaginationControls: Load Next is enabled when there is a cursor and     *)
(* nothing is loading.                                                     *)
LoadNext ==
    /\ mounted
    /\ ~loading
    /\ nextCursor # NoCursor
    /\ FetchSpans(nextCursor, TRUE, Query, pageSize)
    /\ UNCHANGED <<stored, mounted, project, filter, pageSize, spans, nextCursor, base>>

-----------------------------------------------------------------------------
(* Mutant: no answer is too old. *)
MutantCurrent(n) == TRUE

(* Only the answer to the latest request is used. *)
Current(n) == n = requestSeq

(* Mutant: an answer that is dropped does not end anything. *)
MutantFinally(n) ==
    /\ requests' = [requests EXCEPT ![n] = Idle]
    /\ loading' = IF Current(n) /\ ~requests[n].append THEN FALSE ELSE loading

(* The finally block of request n. *)
Finally(n) ==
    /\ requests' = [requests EXCEPT ![n] = Idle]
    /\ loading' = IF Current(n) THEN FALSE ELSE loading

Keep == UNCHANGED <<stored, mounted, project, filter, pageSize, requestSeq>>

Tagged(r) == [i \in 1..Len(r.page.rows) |-> [trace |-> r.page.rows[i], query |-> r.query]]

(* A successful answer: Load Next appends, anything else replaces. *)
FetchSucceeds(n) ==
    /\ requests[n].status = "ok"
    /\ IF Current(n)
       THEN /\ spans' = IF requests[n].append THEN spans \o Tagged(requests[n]) ELSE Tagged(requests[n])
            /\ nextCursor' = requests[n].page.next
            /\ queryState' = "resolved"
            /\ base' = IF requests[n].append THEN base ELSE requests[n].base
       ELSE UNCHANGED <<spans, nextCursor, queryState, base>>
    /\ Finally(n)
    /\ Keep

(* An error status: a fresh load clears the list, Load Next keeps it. *)
FetchRefused(n) ==
    /\ requests[n].status = "refused"
    /\ IF Current(n) /\ ~requests[n].append
       THEN /\ spans' = <<>>
            /\ nextCursor' = NoCursor
            /\ queryState' = "error"
       ELSE UNCHANGED <<spans, nextCursor, queryState>>
    /\ UNCHANGED base
    /\ Finally(n)
    /\ Keep

(* A network failure, or the abort after 30 seconds, before the headers.   *)
(* The rows and their cursor stay.                                         *)
FetchFails(n) ==
    /\ requests[n].status = "sent"
    /\ queryState' = IF Current(n) /\ ~requests[n].append THEN "error" ELSE queryState
    /\ UNCHANGED <<spans, nextCursor, base>>
    /\ Finally(n)
    /\ Keep

(* The same while the body is read: res.json() rejects and nothing catches *)
(* it, so queryState is not updated.                                       *)
BodyFails(n) ==
    /\ requests[n].status = "ok"
    /\ UNCHANGED <<spans, nextCursor, queryState, base>>
    /\ Finally(n)
    /\ Keep

Return(n) == FetchSucceeds(n) \/ FetchRefused(n) \/ FetchFails(n) \/ BodyFails(n)

UserStep ==
    \/ \E p \in Projects : SwitchProject(p)
    \/ \E f \in Filters : ApplyFilter(f)
    \/ \E n \in PageSizes : SetPageSize(n)
    \/ Refresh
    \/ LoadNext

Next ==
    \/ \E t \in Traces : Ingest(t)
    \/ Mount
    \/ Unmount
    \/ UserStep
    \/ \E n \in 1..MaxSeq : Answer(n) \/ Return(n)

Spec == Init /\ [][Next]_vars

(* Every request ends: the AbortController fires after 30 seconds. *)
Fairness == \A n \in 1..MaxSeq : WF_vars(Return(n))

FairSpec == Spec /\ Fairness

-----------------------------------------------------------------------------
(* What the table area shows. *)
Shown ==
    IF spans # <<>> THEN "rows"
    ELSE IF queryState = "error" THEN "error"
    ELSE IF queryState = "resolved" THEN "empty"
    ELSE "skeleton"

(* Whatever order answers arrive in, rows that appear on the page belong   *)
(* to the project and the filters that are selected now: an answer to a    *)
(* question the user no longer asks never reaches the list.                *)
FreshRows ==
    [][\A i \in 1..Len(spans') :
          i > Len(spans) \/ spans'[i] # spans[i] => spans'[i].query = Query']_vars

(* The empty-state panel is never a statement about a query that is under  *)
(* way or that failed, or about a project left behind: it appears only     *)
(* when the query on screen was answered, and without filters only when    *)
(* the project had no trace.                                               *)
EmptyMeansAnswered ==
    Shown = "empty"
        => ~loading /\ (filter = NoFilter => \A t \in base : Owner[t] # project)

Ordered(s, t) == s = t \/ Newer(s, t)

(* Paging through an unfiltered list while traces arrive, pages fail and   *)
(* the list is refreshed shows no trace twice and skips none that was      *)
(* there when the first page was read, provided no two of them started in  *)
(* the same instant.                                                       *)
PagesContiguous ==
    LET listed == {spans[i].trace : i \in 1..Len(spans)}
        last == spans[Len(spans)].trace
    IN  /\ spans # <<>>
        /\ \A i \in 1..Len(spans) : spans[i].query = [project |-> project, filter |-> NoFilter]
        /\ \A s, t \in stored : s # t => StartTime[s] # StartTime[t]
        => /\ \A i, j \in 1..Len(spans) : i # j => spans[i].trace # spans[j].trace
           /\ \A t \in base : Owner[t] = project /\ Ordered(t, last) => t \in listed

(* Loading always ends: no request spins longer than the abort timer. *)
LoadingEnds == loading ~> ~loading
=============================================================================
