---------------------------- MODULE DatasetsPage ----------------------------
(***************************************************************************)
(* The Datasets page (ui/src/pages/Datasets.tsx) and the handlers behind   *)
(* it: it lists the datasets, creates one, imports the items of an         *)
(* uploaded file batch by batch, and deletes one.  Its requests are        *)
(* neither numbered nor aborted: an import goes on when the page is left,  *)
(* and takes the user to the dataset when it ends.                         *)
(***************************************************************************)
EXTENDS Naturals, Sequences

CONSTANTS
    Datasets, NoDataset, Deleted,
    Projects,
    Batches,    \* bound: the batches of the longest file
    Creates,    \* bound: runs of handleCreate under way
    Lists       \* bound: runs of fetchDatasets under way

VARIABLES
    datasetsOn,  \* the page is on screen
    project,     \* activeProject
    inUse,       \* the datasets that a stored run refers to
    datasets,    \* the Metadata Store: NoDataset, Deleted, or the project and the batches of d
    wanted,      \* history: the active project for which d was created
    listed,      \* the datasets on the page
    listView,    \* "loading", "error" or "ready": what stands in for the list
    form,        \* the create form: open, a name typed, the batches of the parsed file
    creates,     \* creates[i]: a run of handleCreate
    lists,       \* lists[j]: a run of fetchDatasets
    deletion     \* handleDelete, and its inline confirmation

storeVars == <<datasets, wanted>>
pageState == <<listed, listView, form, creates, lists, deletion>>

Free == [at |-> "free"]
NoForm == [open |-> FALSE, named |-> FALSE, file |-> 0]
First == CHOOSE p \in Projects : \A q \in Projects : p <= q
Stored == {d \in Datasets : datasets[d] \notin {NoDataset, Deleted}}

(* A page begins with nothing; datasets may be there already. *)
Init ==
    /\ datasets \in [Datasets -> {NoDataset, [project |-> First, items |-> <<1>>]}]
    /\ wanted = [d \in Datasets |-> First]
    /\ listed = {}
    /\ listView = "loading"
    /\ form = NoForm
    /\ creates = [i \in Creates |-> Free]
    /\ lists = [j \in Lists |-> Free]
    /\ deletion = Free

(* Handler.ProjectID: the first project of the user's organisation,        *)
(* whatever project_id the request names.                                  *)
ProjectID == First

(* fetchDatasets; "then" is the dataset that importItems goes on to. *)
FetchDatasets(then, live) ==
    \E j \in Lists :
        /\ lists[j] = Free
        /\ lists' = [lists EXCEPT ![j] = [at |-> "sent", then |-> then, live |-> live]]
        /\ listView' = IF live THEN "loading" ELSE listView

(* The page that was on screen is gone: what it has under way goes on, but *)
(* no longer shows.                                                        *)
Orphan(proc) == IF proc = Free THEN Free ELSE [proc EXCEPT !.live = FALSE]

Unmount(ls) ==
    /\ listed' = {}
    /\ listView' = "loading"
    /\ form' = NoForm
    /\ creates' = [i \in Creates |-> Orphan(creates[i])]
    /\ lists' = [j \in Lists |-> IF ls[j] # Free /\ ls[j].then = NoDataset THEN Free ELSE Orphan(ls[j])]
    /\ deletion' = IF deletion.at = "confirm" THEN Free ELSE Orphan(deletion)

Render ==
    \/ /\ datasetsOn' /\ (~datasetsOn \/ project' # project)
       /\ FetchDatasets(NoDataset, TRUE)
       /\ UNCHANGED <<listed, form, creates, deletion>>
    \/ datasetsOn /\ ~datasetsOn' /\ Unmount(lists)
    \/ /\ datasetsOn' = datasetsOn /\ (datasetsOn => project' = project)
       /\ UNCHANGED pageState

-----------------------------------------------------------------------------
(* HandleList. *)
ListDatasets(j) ==
    /\ lists[j].at = "sent"
    /\ lists' = [lists EXCEPT ![j] = [at |-> "ok", then |-> @.then, live |-> @.live,
           ids |-> {d \in Stored : datasets[d].project = ProjectID}]]
    /\ UNCHANGED <<storeVars, listed, listView, form, creates, deletion>>

(* Answered, or failed, which leaves the list.  An answer does not take    *)
(* away the error of another run.                                          *)
FetchDatasetsEnds(j) ==
    /\ lists[j] # Free
    /\ lists[j].then = NoDataset
    /\ \/ lists[j].live /\ lists[j].at = "ok" /\ listed' = lists[j].ids
          /\ listView' = IF listView = "error" THEN "error" ELSE "ready"
       \/ lists[j].live /\ UNCHANGED listed /\ listView' = "error"
       \/ ~lists[j].live /\ UNCHANGED <<listed, listView>>
    /\ lists' = [lists EXCEPT ![j] = Free]
    /\ UNCHANGED <<storeVars, form, creates, deletion>>

(* importItems has waited for the list: onNavigateToDetail, wherever the   *)
(* user is by now.                                                         *)
GoToDataset(j) ==
    /\ lists[j] # Free
    /\ lists[j].then # NoDataset
    /\ IF datasetsOn THEN Unmount([lists EXCEPT ![j] = Free])
       ELSE lists' = [lists EXCEPT ![j] = Free] /\ UNCHANGED <<listed, listView, form, creates, deletion>>
    /\ UNCHANGED storeVars

-----------------------------------------------------------------------------
(* The user types a name and chooses a file of n batches (handleFileChange *)
(* parses it), or none.                                                    *)
EditForm(n) ==
    /\ datasetsOn
    /\ form' = [open |-> TRUE, named |-> TRUE, file |-> n]
    /\ UNCHANGED <<storeVars, listed, listView, creates, lists, deletion>>

(* The Cancel button, with handleCancelImport. *)
CancelForm ==
    /\ form.open
    /\ form' = NoForm
    /\ UNCHANGED <<storeVars, listed, listView, creates, lists, deletion>>

(* handleCreate, by the button or by Enter, which a create under way does  *)
(* not disable.                                                            *)
SubmitCreate(i) ==
    /\ form.open /\ form.named
    /\ creates[i] = Free
    /\ creates' = [creates EXCEPT ![i] =
           [at |-> "create", project |-> project, dataset |-> NoDataset, file |-> form.file, batch |-> 0, live |-> TRUE]]
    /\ UNCHANGED <<storeVars, listed, listView, form, lists, deletion>>

(* HandleCreate. *)
CreateDataset(i, d) ==
    /\ creates[i].at = "create"
    /\ datasets[d] = NoDataset
    /\ datasets' = [datasets EXCEPT ![d] = [project |-> ProjectID, items |-> <<>>]]
    /\ wanted' = [wanted EXCEPT ![d] = creates[i].project]
    /\ creates' = [creates EXCEPT ![i].at = "created", ![i].dataset = d]
    /\ UNCHANGED <<listed, listView, form, lists, deletion>>

(* The dataset is there: the import of the file begins, or the form is     *)
(* closed and the list fetched again.                                      *)
CreateReturns(i) ==
    /\ creates[i].at = "created"
    /\ IF creates[i].file > 0
       THEN /\ creates' = [creates EXCEPT ![i].at = "import", ![i].batch = 1]
            /\ form' = IF creates[i].live THEN [form EXCEPT !.named = FALSE] ELSE form
            /\ UNCHANGED <<lists, listView>>
       ELSE /\ creates' = [creates EXCEPT ![i] = Free]
            /\ form' = IF creates[i].live THEN NoForm ELSE form
            /\ FetchDatasets(NoDataset, creates[i].live)
    /\ UNCHANGED <<storeVars, listed, deletion>>

(* Refused, or the answer lost: the form stays. *)
CreateFails(i) ==
    /\ creates[i].at \in {"create", "created"}
    /\ creates' = [creates EXCEPT ![i] = Free]
    /\ UNCHANGED <<storeVars, listed, listView, form, lists, deletion>>

(* HandleAddItemsBatch commits the batch as a whole. *)
AddItemsBatch(i) ==
    /\ creates[i].at = "import"
    /\ creates[i].dataset \in Stored
    /\ datasets' = [datasets EXCEPT ![creates[i].dataset].items = Append(@, creates[i].batch)]
    /\ creates' = [creates EXCEPT ![i].at = "added"]
    /\ UNCHANGED <<wanted, listed, listView, form, lists, deletion>>

(* importItems ends, whatever it got done: the form is closed, the list    *)
(* fetched, and the user taken to the dataset.                             *)
ImportEnds(i) ==
    /\ creates' = [creates EXCEPT ![i] = Free]
    /\ form' = IF creates[i].live THEN NoForm ELSE form
    /\ FetchDatasets(creates[i].dataset, creates[i].live)
    /\ UNCHANGED <<storeVars, listed, deletion>>

BatchReturns(i) ==
    /\ creates[i].at = "added"
    /\ IF creates[i].batch < creates[i].file
       THEN /\ creates' = [creates EXCEPT ![i].at = "import", ![i].batch = @ + 1]
            /\ UNCHANGED <<storeVars, listed, listView, form, lists, deletion>>
       ELSE ImportEnds(i)

(* Mutant: the loop goes on with the next batch. *)
MutantBatchFails(i) ==
    /\ creates[i].at \in {"import", "added"}
    /\ IF creates[i].batch < creates[i].file
       THEN /\ creates' = [creates EXCEPT ![i].at = "import", ![i].batch = @ + 1]
            /\ UNCHANGED <<storeVars, listed, listView, form, lists, deletion>>
       ELSE ImportEnds(i)

(* Refused, or the answer lost: the loop is left. *)
BatchFails(i) ==
    /\ creates[i].at \in {"import", "added"}
    /\ ImportEnds(i)

-----------------------------------------------------------------------------
AskDelete(d) ==
    /\ datasetsOn /\ listView = "ready" /\ d \in listed
    /\ deletion = Free
    /\ deletion' = [at |-> "confirm", dataset |-> d, live |-> TRUE]
    /\ UNCHANGED <<storeVars, listed, listView, form, creates, lists>>

CancelDelete ==
    /\ deletion.at = "confirm"
    /\ deletion' = Free
    /\ UNCHANGED <<storeVars, listed, listView, form, creates, lists>>

ConfirmDelete ==
    /\ deletion.at = "confirm" /\ listView = "ready"
    /\ deletion' = [deletion EXCEPT !.at = "sent"]
    /\ UNCHANGED <<storeVars, listed, listView, form, creates, lists>>

(* HandleDelete: the store refuses while a run refers to the dataset. *)
DeleteDataset ==
    /\ deletion.at = "sent"
    /\ deletion.dataset \in Stored \ inUse
    /\ datasets' = [datasets EXCEPT ![deletion.dataset] = Deleted]
    /\ deletion' = [deletion EXCEPT !.at = "ok"]
    /\ UNCHANGED <<wanted, listed, listView, form, creates, lists>>

DeleteReturns ==
    /\ deletion.at = "ok"
    /\ deletion' = Free
    /\ FetchDatasets(NoDataset, deletion.live)
    /\ UNCHANGED <<storeVars, listed, form, creates>>

DeleteFails ==
    /\ deletion.at \in {"sent", "ok"}
    /\ deletion' = Free
    /\ UNCHANGED <<storeVars, listed, listView, form, creates, lists>>

-----------------------------------------------------------------------------
(* Whatever fails, overlaps or is left on the way, an imported dataset     *)
(* holds the first batches of its file, in order, none of them twice:      *)
(* never a later part of it without the earlier one.                       *)
ImportIsPrefix ==
    \A d \in Stored : \A k \in DOMAIN datasets[d].items : datasets[d].items[k] = k

(* "Project-switcher requests in the UI can access any project that        *)
(* belongs to the same org, not just projects[0]": a dataset belongs to    *)
(* the project that was active when the user created it.                   *)
CreatedInActiveProject ==
    \A d \in Stored : datasets[d].project = wanted[d]
=============================================================================
