--------------------------- MODULE DashboardPage ---------------------------
(***************************************************************************)
(* The Dashboard (ui/src/pages/Dashboard.tsx).  A refresh sends one        *)
(* analytics request per widget through a small pool of workers that share *)
(* an index; the answers arrive in any order, and all widgets are set      *)
(* together when the last one is there.  A refresh that a change of        *)
(* project or time range has superseded goes on in the background.         *)
(***************************************************************************)
EXTENDS Naturals

CONSTANTS
    Projects,
    Ranges,      \* values of from and to
    Widgets,     \* bound: the number of requests of a refresh (10 in the code)
    Concurrency, \* ANALYTICS_FETCH_CONCURRENCY
    MaxRefresh   \* bound: refreshes of one mounted page

Requests == 1..Widgets
Workers == 1..Concurrency

VARIABLES
    open,        \* the page is on screen
    project,     \* activeProject
    range,       \* from, to
    seq,         \* requestSeq
    batches,     \* batches[n]: the requests of refresh n
    widgets,     \* widgets[i]: the request whose answer widget i shows
    busy,        \* loading
    failed       \* the latest refresh failed (error, dismissed or not)

dashVars == <<open, range, seq, batches, widgets, busy, failed>>
vars == <<dashVars, project>>

NoData == [project |-> "none"]
NoBatch == [state |-> "none"]

Init ==
    /\ open = FALSE
    /\ project \in Projects
    /\ range \in Ranges
    /\ seq = 0
    /\ batches = [n \in 1..MaxRefresh |-> NoBatch]
    /\ widgets = [i \in Requests |-> NoData]
    /\ busy = FALSE
    /\ failed = FALSE

(* The workers that find a request to start with. *)
workerCount == IF Concurrency <= Widgets THEN Concurrency ELSE Widgets

(* fetchAnalyticsBatch: worker w starts with request w, the rest wait for  *)
(* a worker to come back to `next`.                                        *)
NewBatch(p, r) ==
    [state |-> "running", project |-> p, range |-> r,
     next |-> 1 + workerCount,
     awaits |-> [w \in Workers |-> IF w \in Requests THEN w ELSE 0],
     responses |-> [i \in Requests |-> 0]]

(* fetchData up to its first await. *)
FetchData(p, r) ==
    /\ seq < MaxRefresh
    /\ seq' = seq + 1
    /\ busy' = TRUE
    /\ failed' = FALSE
    /\ batches' = [batches EXCEPT ![seq + 1] = NewBatch(p, r)]
    /\ UNCHANGED widgets

(* from and to are computed anew from the header's preset. *)
Mount ==
    /\ ~open
    /\ open' = TRUE
    /\ range' \in Ranges
    /\ FetchData(project, range')
    /\ UNCHANGED project

Unmount ==
    /\ open
    /\ open' = FALSE
    /\ seq' = 0
    /\ batches' = [n \in 1..MaxRefresh |-> NoBatch]
    /\ widgets' = [i \in Requests |-> NoData]
    /\ busy' = FALSE
    /\ failed' = FALSE
    /\ UNCHANGED <<project, range>>

SwitchProject(p) ==
    /\ open
    /\ p # project
    /\ project' = p
    /\ FetchData(p, range)
    /\ UNCHANGED <<open, range>>

(* The preset of the header, or the From and To inputs. *)
SetRange(r) ==
    /\ open
    /\ r # range
    /\ range' = r
    /\ FetchData(project, r)
    /\ UNCHANGED <<open, project>>

(* The Refresh button, or Retry of the error banner, which a running       *)
(* refresh has removed.                                                    *)
Refresh ==
    /\ open
    /\ ~busy
    /\ FetchData(project, range)
    /\ UNCHANGED <<open, project, range>>

-----------------------------------------------------------------------------

(* The slot of the answer to request i. *)
Place(b, i) == i

(* Worker w of refresh n has its answer and takes the next request. *)
Respond(n, w) ==
    LET b == batches[n]
    IN  /\ b.state # "none"
        /\ b.awaits[w] # 0
        /\ batches' = [batches EXCEPT ![n] =
              [b EXCEPT !.responses[Place(b, b.awaits[w])] = b.awaits[w],
                        !.awaits[w] = IF b.next <= Widgets THEN b.next ELSE 0,
                        !.next = IF b.next <= Widgets THEN b.next + 1 ELSE b.next]]
        /\ UNCHANGED <<open, project, range, seq, widgets, busy, failed>>

(* Mutant: a refresh is never too old. *)
MutantCurrent(n) == TRUE

(* Only the latest refresh may change what is shown. *)
Current(n) == n = seq

(* The catch and finally blocks of refresh n. *)
Reject(n) ==
    /\ failed' = (failed \/ Current(n))
    /\ busy' = IF Current(n) THEN FALSE ELSE busy
    /\ UNCHANGED <<open, project, range, seq, widgets>>

(* A request is lost: Promise.all rejects at once, the other workers go on *)
(* and nobody waits for them.                                              *)
RequestFails(n, w) ==
    /\ batches[n].state \in {"running", "rejected"}
    /\ batches[n].awaits[w] # 0
    /\ batches' = [batches EXCEPT ![n].state = "rejected", ![n].awaits[w] = 0]
    /\ IF batches[n].state = "running"
       THEN Reject(n)
       ELSE UNCHANGED <<open, project, range, seq, widgets, busy, failed>>

(* Every worker is done: all widgets are set from the answers, a refused   *)
(* request counting as no rows, unless the refresh is superseded.          *)
Settled(n) ==
    /\ batches[n].state = "running"
    /\ \A w \in Workers : batches[n].awaits[w] = 0
    /\ batches' = [batches EXCEPT ![n] = NoBatch]

FetchDataReturns(n) ==
    /\ Settled(n)
    /\ IF Current(n)
       THEN /\ widgets' = [i \in Requests |-> [project |-> batches[n].project, range |-> batches[n].range,
                                               request |-> batches[n].responses[i]]]
            /\ busy' = FALSE
       ELSE UNCHANGED <<widgets, busy>>
    /\ UNCHANGED <<open, project, range, seq, failed>>

(* A body that cannot be read rejects the second Promise.all. *)
FetchDataThrows(n) ==
    /\ Settled(n)
    /\ Reject(n)

Async ==
    \E n \in 1..MaxRefresh :
        \/ \E w \in Workers : Respond(n, w) \/ RequestFails(n, w)
        \/ FetchDataReturns(n)
        \/ FetchDataThrows(n)

Next ==
    \/ Mount \/ Unmount \/ Refresh
    \/ \E p \in Projects : SwitchProject(p)
    \/ \E r \in Ranges : SetRange(r)
    \/ Async

Spec == Init /\ [][Next]_vars

-----------------------------------------------------------------------------
(* The widgets show figures: no widget is loading, and no refresh failed. *)
Displayed == open /\ ~busy /\ ~failed

(* When the Dashboard is not loading and its latest refresh did not fail,  *)
(* every widget shows the answer to its own request, for the project and   *)
(* the time range that are selected: neither a refresh that was            *)
(* superseded, nor answers that arrive out of order, mix figures.          *)
DashboardShowsSelection ==
    Displayed => \A i \in Requests : widgets[i] = [project |-> project, range |-> range, request |-> i]
=============================================================================
