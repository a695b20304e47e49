----------------------------- MODULE DatasetRuns -----------------------------
(***************************************************************************)
(* Dataset runs: HandleRun scores the items of a dataset one by one inside *)
(* the request that started it, and the page of the dataset                *)
(* (ui/src/pages/DatasetDetail.tsx) lists the runs and polls those that    *)
(* are running.  Scoring, listing and polling interleave; a connection     *)
(* that is lost cancels the request, and with it the scoring.              *)
(***************************************************************************)
EXTENDS Naturals, FiniteSets

CONSTANTS
    Datasets, NoDataset,
    Rules, NoRule,
    Runs,
    Fetches,    \* bound: runs of fetchRuns under way
    Polls,      \* bound: polls under way
    NoPoll,
    MaxLoads,   \* bound: loads of the page under way
    MaxFaults   \* bound: lost connections, refused polls and lists, reads that break off

VARIABLES
    detailOn,   \* the page is on screen
    project,    \* activeProject
    dataset,    \* activeDatasetId
    stored,     \* the datasets of the Metadata Store
    items,      \* items[d]: the number of items of d
    storedRules, \* the rules of the Metadata Store
    resolvable, \* the rules whose prompt version is in the registry
    runs,       \* runs[r]: the Metadata Store's run r
    posts,      \* posts[r]: the request that starts run r, with HandleRun
    detail,     \* the page: loading, ready or failed; its tab; its loads under way
    tabView,    \* "loading", "error" or "ready": the Runs tab shows nothing else meanwhile
    shown,      \* shown[r]: status and item count of r in the Runs tab; history: all items were read
    fetches,    \* fetches[j]: a run of fetchRuns, with HandleListRuns
    polls,      \* polls[k]: a run of the interval's callback
    modal,      \* NewRunModal
    faults

serverState == <<runs, posts>>
tabState == <<tabView, shown, fetches, polls, modal>>

Free == [at |-> "free"]
NoRun == [status |-> "none"]
Unlisted == [status |-> "none", count |-> 0, whole |-> FALSE]
Away == [at |-> "away", tab |-> "items", loads |-> 0]
Closed == [at |-> "closed"]
Final == {"complete", "error"}

StoredRuns == {r \in Runs : runs[r] # NoRun}

Init ==
    /\ runs = [r \in Runs |-> NoRun]
    /\ posts = [r \in Runs |-> Free]
    /\ detail = Away
    /\ tabView = "loading"
    /\ shown = [r \in Runs |-> Unlisted]
    /\ fetches = [j \in Fetches |-> Free]
    /\ polls = [k \in Polls |-> Free]
    /\ modal = Closed
    /\ faults = 0

-----------------------------------------------------------------------------
(* HandleRun. *)

(* The checks, and the list of the items that will be scored. *)
CheckRun(r) ==
    /\ posts[r].at = "sent"
    /\ posts' = IF posts[r].dataset \in stored /\ items[posts[r].dataset] > 0 /\ posts[r].rule \in resolvable
                THEN [posts EXCEPT ![r].at = "checked", ![r].items = items[posts[r].dataset]]
                ELSE [posts EXCEPT ![r].at = "refused"]
    /\ UNCHANGED <<runs, detail, tabState, faults>>

(* The record is inserted, if dataset and rule are still there. *)
CreateDatasetRun(r) ==
    /\ posts[r].at = "checked"
    /\ IF posts[r].gone \/ posts[r].dataset \notin stored \/ posts[r].rule \notin storedRules
       THEN posts' = [posts EXCEPT ![r].at = "refused"] /\ UNCHANGED runs
       ELSE /\ posts' = [posts EXCEPT ![r].at = "scoring"]
            /\ runs' = [runs EXCEPT ![r] = [status |-> "running", dataset |-> posts[r].dataset,
                   rule |-> posts[r].rule, items |-> posts[r].items, scored |-> {}]]
    /\ UNCHANGED <<detail, tabState, faults>>

(* scoreItem: the judge answers and the score is stored, or not; the       *)
(* request's end cancels both.                                             *)
ScoreItem(r) ==
    /\ posts[r].at = "scoring"
    /\ posts[r].next <= posts[r].items
    /\ \/ /\ ~posts[r].gone
          /\ runs' = [runs EXCEPT ![r].scored = @ \cup {posts[r].next}]
          /\ posts' = [posts EXCEPT ![r].next = @ + 1]
       \/ /\ posts' = [posts EXCEPT ![r].next = @ + 1, ![r].failed = TRUE]
          /\ UNCHANGED runs
    /\ UNCHANGED <<detail, tabState, faults>>

Fault == faults < MaxFaults /\ faults' = faults + 1

(* UpdateDatasetRun is best-effort: an error of the store, or a client     *)
(* that is gone, leaves the run as it was.                                 *)
FinishRun(r) ==
    /\ posts[r].at = "scoring"
    /\ posts[r].next > posts[r].items
    /\ \/ /\ ~posts[r].gone
          /\ runs' = [runs EXCEPT ![r].status = IF posts[r].failed THEN "error" ELSE "complete"]
          /\ UNCHANGED faults
       \/ posts[r].gone /\ UNCHANGED <<runs, faults>>
       \/ ~posts[r].gone /\ Fault /\ UNCHANGED runs
    /\ posts' = [posts EXCEPT ![r].at = "finished"]
    /\ UNCHANGED <<detail, tabState>>

HandleRun(r) == CheckRun(r) \/ CreateDatasetRun(r) \/ ScoreItem(r) \/ FinishRun(r)

-----------------------------------------------------------------------------
(* The page. *)

TabOn == detailOn /\ detail.at = "ready" /\ detail.tab = "runs"

(* fetchRuns; k is the poll that waits for it, or NoPoll. *)
FetchRuns(k) ==
    \E j \in Fetches : fetches[j] = Free /\ fetches' = [fetches EXCEPT ![j] = [at |-> "sent", poll |-> k]]

(* The modal, or the tab with it, goes away under its request. *)
Leave(to) ==
    posts' = [r \in Runs |-> IF posts[r] = Free \/ posts[r].live = "none" THEN posts[r] ELSE [posts[r] EXCEPT !.live = to]]

(* The Runs tab goes away: what it has under way no longer shows. *)
LeaveTab ==
    /\ tabView' = "loading"
    /\ shown' = [r \in Runs |-> Unlisted]
    /\ fetches' = [j \in Fetches |-> Free]
    /\ polls' = [k \in Polls |-> Free]
    /\ modal' = Closed
    /\ Leave("none")

(* A page that appears, or gets another dataset or project, loads it and   *)
(* shows nothing else meanwhile.                                           *)
Render ==
    \/ /\ detailOn' /\ (~detailOn \/ dataset' # dataset \/ project' # project)
       /\ detail.loads < MaxLoads
       /\ detail' = [at |-> "loading", tab |-> detail.tab, loads |-> detail.loads + 1]
       /\ LeaveTab
    \/ /\ detailOn /\ ~detailOn'
       /\ detail' = Away
       /\ LeaveTab
    \/ /\ detailOn' = detailOn /\ (detailOn => dataset' = dataset /\ project' = project)
       /\ UNCHANGED <<posts, detail, tabState>>

(* An answer to one of the loads, or its failure, whose error an answer to *)
(* another load does not take away.                                        *)
LoadEnds ==
    /\ detail.loads > 0
    /\ \/ /\ dataset \in stored
          /\ detail' = [detail EXCEPT !.at = IF @ = "failed" THEN "failed" ELSE "ready", !.loads = @ - 1]
       \/ detail' = [detail EXCEPT !.at = "failed", !.loads = @ - 1]
    /\ IF TabOn /\ detail'.at = "failed"
       THEN LeaveTab
       ELSE IF detail'.at = "ready" /\ detail.at # "ready" /\ detail.tab = "runs"
            THEN FetchRuns(NoPoll) /\ UNCHANGED <<posts, tabView, shown, polls, modal>>
            ELSE UNCHANGED <<posts, tabState>>
    /\ UNCHANGED <<runs, faults>>

(* The tab buttons. *)
SelectTab(t) ==
    /\ detailOn /\ detail.at = "ready" /\ detail.tab # t
    /\ detail' = [detail EXCEPT !.tab = t]
    /\ IF t = "runs"
       THEN FetchRuns(NoPoll) /\ UNCHANGED <<posts, tabView, shown, polls, modal>>
       ELSE LeaveTab
    /\ UNCHANGED <<runs, faults>>

-----------------------------------------------------------------------------
Listed == {r \in StoredRuns : runs[r].dataset = dataset}

(* ListDatasetRunItems gives the scored items, or some of them, or none,   *)
(* when its query or the reading of its rows fails; HandleListRuns ignores *)
(* the error.                                                              *)
ReadItems(got) ==
    /\ \A r \in Runs : got[r] \subseteq IF r \in StoredRuns THEN runs[r].scored ELSE {}
    /\ IF \A r \in StoredRuns : got[r] = runs[r].scored THEN UNCHANGED faults ELSE Fault

Reads == [Runs -> SUBSET UNION {runs[r].scored : r \in StoredRuns}]

(* Mutant: the items are counted before the statuses are read. *)
MutantHandleListRuns(j) ==
    /\ \/ /\ fetches[j].at = "sent"
          /\ \E got \in Reads :
                /\ ReadItems(got)
                /\ fetches' = [fetches EXCEPT ![j] = [at |-> "read", poll |-> @.poll, rows |->
                       [r \in Runs |-> IF r \in Listed
                                       THEN [status |-> "?", count |-> Cardinality(got[r]),
                                             whole |-> got[r] = runs[r].scored] ELSE Unlisted]]]
       \/ /\ fetches[j].at = "read"
          /\ fetches' = [fetches EXCEPT ![j] = [at |-> "ok", poll |-> @.poll, rows |->
                 [r \in Runs |-> IF @.rows[r] = Unlisted THEN Unlisted
                                 ELSE [@.rows[r] EXCEPT !.status = runs[r].status]]]]
          /\ UNCHANGED faults
    /\ UNCHANGED <<serverState, detail, tabView, shown, polls, modal>>

(* HandleListRuns reads the runs, and then counts the items of each. *)
HandleListRuns(j) ==
    /\ \/ /\ fetches[j].at = "sent"
          /\ fetches' = [fetches EXCEPT ![j] = [at |-> "read", poll |-> @.poll, rows |->
                 [r \in Runs |-> IF r \in Listed
                                 THEN [status |-> runs[r].status, count |-> 0, whole |-> FALSE] ELSE Unlisted]]]
          /\ UNCHANGED faults
       \/ /\ fetches[j].at = "read"
          /\ \E got \in Reads :
                /\ ReadItems(got)
                /\ fetches' = [fetches EXCEPT ![j] = [at |-> "ok", poll |-> @.poll, rows |->
                       [r \in Runs |-> IF @.rows[r] = Unlisted THEN Unlisted
                                       ELSE [status |-> @.rows[r].status, count |-> Cardinality(got[r]),
                                             whole |-> got[r] = runs[r].scored]]]]
    /\ UNCHANGED <<serverState, detail, tabView, shown, polls, modal>>

(* The poll goes on with the next run of its list, or ends. *)
Ask(left) ==
    IF left = {} THEN Free
    ELSE LET r == CHOOSE s \in left : TRUE IN [at |-> "sent", run |-> r, left |-> left \ {r}]

Resume(k) == IF k = NoPoll THEN UNCHANGED polls ELSE polls' = [polls EXCEPT ![k] = Ask(polls[k].left)]

FetchRunsReturns(j) ==
    /\ fetches[j].at = "ok"
    /\ shown' = fetches[j].rows
    /\ tabView' = "ready"
    /\ modal' = IF modal.at = "hidden" THEN [at |-> "loading"] ELSE modal
    /\ Resume(fetches[j].poll)
    /\ fetches' = [fetches EXCEPT ![j] = Free]
    /\ UNCHANGED <<serverState, detail, faults>>

(* A failure puts the error in the place of the list and of the modal; the *)
(* list is kept, and the interval goes on.                                 *)
FetchRunsFails(j) ==
    /\ Fault
    /\ fetches[j] # Free
    /\ tabView' = "error"
    /\ modal' = IF modal = Closed THEN Closed ELSE [at |-> "hidden"]
    /\ Leave("tab")
    /\ Resume(fetches[j].poll)
    /\ fetches' = [fetches EXCEPT ![j] = Free]
    /\ UNCHANGED <<runs, detail, shown>>

Running == {r \in Runs : shown[r].status = "running"}

(* The interval asks for the status of every run shown as running. *)
PollTick(k) ==
    /\ TabOn
    /\ polls[k] = Free
    /\ Running # {}
    /\ polls' = [polls EXCEPT ![k] = Ask(Running)]
    /\ UNCHANGED <<serverState, detail, tabView, shown, fetches, modal, faults>>

(* HandleGetRunStatus. *)
HandleGetRunStatus(k) ==
    /\ polls[k].at = "sent"
    /\ polls' = [polls EXCEPT ![k] = [at |-> "ok", status |-> runs[@.run].status, left |-> @.left]]
    /\ UNCHANGED <<serverState, detail, tabView, shown, fetches, modal, faults>>

(* Mutant: only a run that has succeeded has ended. *)
MutantEnded(status) == status = "complete"

Ended(status) == status # "running"

(* A run that has ended makes the poll fetch the list, and wait for it. *)
PollReturns(k) ==
    /\ polls[k].at = "ok"
    /\ IF Ended(polls[k].status)
       THEN polls' = [polls EXCEPT ![k] = [at |-> "wait", left |-> @.left]] /\ FetchRuns(k)
       ELSE polls' = [polls EXCEPT ![k] = Ask(@.left)] /\ UNCHANGED fetches
    /\ UNCHANGED <<serverState, detail, tabView, shown, modal, faults>>

PollFails(k) ==
    /\ Fault
    /\ polls[k].at \in {"sent", "ok"}
    /\ polls' = [polls EXCEPT ![k] = Ask(@.left)]
    /\ UNCHANGED <<serverState, detail, tabView, shown, fetches, modal>>

-----------------------------------------------------------------------------
(* NewRunModal. *)

OpenModal ==
    /\ TabOn /\ tabView = "ready"
    /\ modal = Closed
    /\ modal' = [at |-> "loading"]
    /\ UNCHANGED <<serverState, detail, tabView, shown, fetches, polls, faults>>

(* It offers the rules, and chooses one that is alone. *)
ModalRules ==
    /\ modal.at = "loading"
    /\ \/ \E u \in {NoRule} \cup Rules :
            /\ IF Cardinality(storedRules) = 1 THEN u \in storedRules ELSE u = NoRule
            /\ modal' = [at |-> "ready", rules |-> storedRules, rule |-> u]
       \/ modal' = [at |-> "ready", rules |-> {}, rule |-> NoRule]
    /\ UNCHANGED <<serverState, detail, tabView, shown, fetches, polls, faults>>

ChooseRule(u) ==
    /\ modal.at = "ready"
    /\ u \in modal.rules \ {modal.rule}
    /\ modal' = [modal EXCEPT !.rule = u]
    /\ UNCHANGED <<serverState, detail, tabView, shown, fetches, polls, faults>>

CloseModal ==
    /\ modal.at \in {"loading", "ready", "running"}
    /\ modal' = Closed
    /\ Leave("tab")
    /\ UNCHANGED <<runs, detail, tabView, shown, fetches, polls, faults>>

(* handleRun. *)
StartRun(r) ==
    /\ modal.at = "ready"
    /\ modal.rule # NoRule
    /\ posts[r] = Free /\ runs[r] = NoRun
    /\ modal' = [modal EXCEPT !.at = "running"]
    /\ posts' = [posts EXCEPT ![r] = [at |-> "sent", dataset |-> dataset, rule |-> modal.rule, items |-> 0,
           next |-> 1, failed |-> FALSE, gone |-> FALSE, live |-> "modal"]]
    /\ UNCHANGED <<runs, detail, tabView, shown, fetches, polls, faults>>

(* onSuccess closes the modal, whichever it is by now, and fetches the     *)
(* list; a refusal is shown in the modal.                                  *)
PostReturns(r) ==
    /\ posts[r].at \in {"finished", "refused"}
    /\ IF posts[r].at = "finished" /\ posts[r].live # "none"
       THEN /\ modal' = Closed
            /\ posts' = [s \in Runs |-> IF s = r THEN Free
                                       ELSE IF posts[s] # Free /\ posts[s].live = "modal"
                                            THEN [posts[s] EXCEPT !.live = "tab"] ELSE posts[s]]
            /\ FetchRuns(NoPoll)
       ELSE /\ posts' = [posts EXCEPT ![r] = Free]
            /\ modal' = IF posts[r].live = "modal" THEN [modal EXCEPT !.at = "ready"] ELSE modal
            /\ UNCHANGED fetches
    /\ UNCHANGED <<runs, detail, tabView, shown, polls, faults>>

(* The connection is lost: HandleRun's context is cancelled. *)
Disconnect(r) ==
    /\ Fault
    /\ posts[r] # Free /\ ~posts[r].gone
    /\ posts' = [posts EXCEPT ![r].gone = TRUE, ![r].live = "none"]
    /\ modal' = IF posts[r].live = "modal" THEN [modal EXCEPT !.at = "ready"] ELSE modal
    /\ UNCHANGED <<runs, detail, tabView, shown, fetches, polls>>

-----------------------------------------------------------------------------
(* A run listed as complete has every item scored that the dataset had     *)
(* when it began, and shows as many unless the reading of its items broke  *)
(* off: scoring, listing and rendering overlap, and the list reads status  *)
(* and scores one after the other.                                         *)
ShownCompleteIsFull ==
    \A r \in Runs : shown[r].status = "complete" =>
        /\ runs[r].scored = 1..runs[r].items
        /\ shown[r].whole => shown[r].count = runs[r].items

(* A run that has ended on the server is not shown as running for ever:    *)
(* while the tab is open its polls find out, also after failed and late    *)
(* answers.                                                                *)
EndedRunIsShown ==
    \A r \in Runs :
        (TabOn /\ shown[r].status = "running" /\ runs[r].status \in Final)
            ~> ~(TabOn /\ shown[r].status = "running")
=============================================================================
