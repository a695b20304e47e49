------------------------------ MODULE Workspace ------------------------------
(***************************************************************************)
(* The pages on which evaluations are prepared and run, as App.tsx         *)
(* composes them: prompts, eval rules, datasets and dataset runs, one page *)
(* on screen at a time, over one Metadata Store whose records refer to     *)
(* each other.  A page that is left is unmounted; its requests go on.      *)
(***************************************************************************)
EXTENDS Naturals, Sequences

CONSTANTS
    Projects,
    Datasets, NoDataset, Deleted, Batches, Creates, Lists,
    Rules, NoRule, RuleDeleted, RuleLists,
    MaxVersion, Registries, PromptLists, LabelChanges,
    Runs, Fetches, Polls, NoPoll, MaxLoads, MaxFaults,
    Tours,      \* bound: the sets of pages that a user may visit in one behaviour
    MaxActions  \* bound: what is created, changed or deleted, and switches of the project

VARIABLES
    tour, page, project, dataset, actions,
    datasets, wanted, listed, listView, form, creates, lists, deletion,
    versions, label, promptRow, promptView, promptLists, versionData, versionFetch, assigned, labelChanges, creating,
    rules, ruleRows, ruleView, ruleLists, ruleForm, ruleCreate, ruleDelete,
    runs, posts, detail, tabView, shown, fetches, polls, modal, faults

storedRuns == {r \in Runs : runs[r].status # "none"}

Sets == INSTANCE DatasetsPage WITH
    datasetsOn <- (page = "datasets"),
    inUse <- {runs[r].dataset : r \in storedRuns}
Prompts == INSTANCE PromptsPage WITH promptsOn <- (page = "prompts")
Eval == INSTANCE EvalRulesPage WITH
    rulesOn <- (page = "rules"),
    rulesInUse <- {runs[r].rule : r \in storedRuns}
Run == INSTANCE DatasetRuns WITH
    detailOn <- (page = "dataset"),
    stored <- Sets!Stored,
    items <- [d \in Datasets |-> IF d \in Sets!Stored THEN Len(datasets[d].items) ELSE 0],
    storedRules <- Eval!Stored,
    resolvable <- Eval!Resolvable

(* NoDataset and Deleted stand for no record and for one that is gone. *)
ASSUME DatasetsAssumption ==
    /\ NoDataset \notin Datasets
    /\ NoDataset # Deleted
    /\ \A x \in {NoDataset, Deleted} : x \notin [project : {Sets!First}, items : Seq(Nat)]

setsVars == <<datasets, wanted, listed, listView, form, creates, lists, deletion>>
promptVars == <<versions, label, promptRow, promptView, promptLists, versionData, versionFetch, assigned, labelChanges, creating>>
ruleVars == <<rules, ruleRows, ruleView, ruleLists, ruleForm, ruleCreate, ruleDelete>>
runVars == <<runs, posts, detail, tabView, shown, fetches, polls, modal, faults>>
shellVars == <<tour, page, project, dataset>>
vars == <<shellVars, actions, setsVars, promptVars, ruleVars, runVars>>

Init ==
    /\ tour \in Tours
    /\ page = "other"
    /\ project = Sets!First
    /\ dataset = NoDataset
    /\ actions = 0
    /\ Sets!Init
    /\ Prompts!Init
    /\ Eval!Init
    /\ Run!Init

-----------------------------------------------------------------------------
Act == actions < MaxActions /\ actions' = actions + 1

(* The other pages follow what the shell does. *)
Rendered ==
    /\ Prompts!Render /\ UNCHANGED <<versions, label>>
    /\ Eval!Render /\ UNCHANGED rules
    /\ Run!Render /\ UNCHANGED <<runs, faults>>
    /\ UNCHANGED tour

RenderedAll ==
    /\ Sets!Render /\ UNCHANGED <<datasets, wanted>>
    /\ Rendered

Navigate(q) ==
    /\ q # page
    /\ page' = q
    /\ UNCHANGED <<project, dataset, actions>>
    /\ RenderedAll

(* handleNavigateToDataset, from the list. *)
OpenDataset(d) ==
    /\ page = "datasets" /\ listView = "ready" /\ d \in listed
    /\ page' = "dataset"
    /\ dataset' = d
    /\ UNCHANGED <<project, actions>>
    /\ RenderedAll

(* handleNavigateToDataset, at the end of an import. *)
ImportOpensDataset(j) ==
    /\ Sets!GoToDataset(j)
    /\ page' = "dataset"
    /\ dataset' = lists[j].then
    /\ UNCHANGED <<project, actions>>
    /\ Rendered

SwitchProject(p) ==
    /\ Act
    /\ p # project
    /\ project' = p
    /\ UNCHANGED <<page, dataset>>
    /\ RenderedAll

-----------------------------------------------------------------------------
DatasetsStep ==
    /\ UNCHANGED <<shellVars, promptVars, ruleVars, runVars>>
    /\ \/ /\ Act
          /\ Sets!ConfirmDelete \/ \E i \in Creates : Sets!SubmitCreate(i)
       \/ /\ UNCHANGED actions
          /\ \/ \E j \in Lists : Sets!ListDatasets(j) \/ Sets!FetchDatasetsEnds(j)
             \/ \E n \in 0..Batches : Sets!EditForm(n)
             \/ Sets!CancelForm
             \/ \E i \in Creates : \/ Sets!CreateReturns(i) \/ Sets!CreateFails(i)
                                   \/ Sets!AddItemsBatch(i) \/ Sets!BatchReturns(i) \/ Sets!BatchFails(i)
                                   \/ \E d \in Datasets : Sets!CreateDataset(i, d)
             \/ \E d \in Datasets : Sets!AskDelete(d)
             \/ Sets!CancelDelete \/ Sets!DeleteDataset \/ Sets!DeleteReturns \/ Sets!DeleteFails

PromptsStep ==
    /\ UNCHANGED <<shellVars, setsVars, ruleVars, runVars>>
    /\ \/ /\ Act
          /\ \/ Prompts!SubmitPrompt \/ Prompts!SdkWrites
             \/ \E i \in LabelChanges, v \in 1..MaxVersion : Prompts!SubmitLabel(i, v)
       \/ /\ UNCHANGED actions
          /\ \/ \E j \in PromptLists : Prompts!ListPrompts(j) \/ Prompts!FetchPromptsEnds(j)
             \/ Prompts!Expand \/ Prompts!ListVersions \/ Prompts!FetchVersionsEnds
             \/ \E i \in LabelChanges : Prompts!HandleSetLabel(i) \/ Prompts!LabelReturns(i) \/ Prompts!LabelFails(i)
             \/ Prompts!CreatePrompt \/ Prompts!PromptReturns \/ Prompts!PromptFails

RulesStep ==
    /\ UNCHANGED <<shellVars, setsVars, promptVars, runVars>>
    /\ \/ /\ Act
          /\ Eval!SubmitRule \/ \E u \in Rules : Eval!SubmitDeleteRule(u)
       \/ /\ UNCHANGED actions
          /\ \/ \E j \in RuleLists : Eval!ListRules(j) \/ Eval!FetchRulesEnds(j)
             \/ Eval!OpenRuleForm \/ Eval!PromptsArrive \/ Eval!CancelRuleForm
             \/ \E v \in 1..MaxVersion, byLabel \in BOOLEAN : Eval!ChoosePrompt(v, byLabel)
             \/ \E u \in Rules : Eval!CreateRule(u)
             \/ Eval!CreateRuleReturns \/ Eval!CreateRuleFails
             \/ Eval!DeleteRule \/ Eval!DeleteRuleReturns \/ Eval!DeleteRuleFails

RunsOnly == UNCHANGED <<shellVars, actions, setsVars, promptVars, ruleVars>>

RunsStep ==
    \/ /\ UNCHANGED <<shellVars, setsVars, promptVars, ruleVars>>
       /\ Act
       /\ \E r \in Runs : Run!StartRun(r)
    \/ /\ RunsOnly
       /\ \/ Run!LoadEnds
          \/ \E t \in {"items", "runs"} : Run!SelectTab(t)
          \/ \E j \in Fetches : Run!HandleListRuns(j) \/ Run!FetchRunsReturns(j) \/ Run!FetchRunsFails(j)
          \/ \E k \in Polls : Run!PollTick(k) \/ Run!HandleGetRunStatus(k) \/ Run!PollReturns(k) \/ Run!PollFails(k)
          \/ Run!OpenModal \/ Run!ModalRules \/ Run!CloseModal
          \/ \E u \in Rules : Run!ChooseRule(u)
          \/ \E r \in Runs : Run!HandleRun(r) \/ Run!PostReturns(r) \/ Run!Disconnect(r)

Next ==
    \/ \E q \in tour : Navigate(q)
    \/ \E d \in Datasets : OpenDataset(d)
    \/ \E j \in Lists : ImportOpensDataset(j)
    \/ \E p \in Projects : SwitchProject(p)
    \/ DatasetsStep
    \/ PromptsStep
    \/ RulesStep
    \/ RunsStep

(* The browser runs the tab's interval, and every request is answered or   *)
(* fails.                                                                  *)
Fairness ==
    /\ \A k \in Polls :
        /\ WF_vars(RunsOnly /\ Run!PollTick(k))
        /\ WF_vars(RunsOnly /\ Run!HandleGetRunStatus(k))
        /\ WF_vars(RunsOnly /\ Run!PollReturns(k))
    /\ \A j \in Fetches :
        /\ WF_vars(RunsOnly /\ Run!HandleListRuns(j))
        /\ WF_vars(RunsOnly /\ Run!FetchRunsReturns(j))

Spec == Init /\ [][Next]_vars
FairSpec == Spec /\ Fairness

-----------------------------------------------------------------------------
(* Whatever fails, overlaps or is left on the way, an imported dataset     *)
(* holds the first batches of its file, in order, none of them twice.      *)
ImportIsPrefix == Sets!ImportIsPrefix

(* A dataset belongs to the project that was active when the user created  *)
(* it ("project-switcher requests in the UI can access any project that    *)
(* belongs to the same org, not just projects[0]").                        *)
CreatedInActiveProject == Sets!CreatedInActiveProject

(* A stored rule names no prompt version that the registry does not have,  *)
(* whatever its form knew and whoever wrote to the registry meanwhile.     *)
PromptsResolve == Eval!PromptsResolve

(* A run listed as complete has all its items scored, and shows as many    *)
(* unless the reading of its items broke off.                              *)
ShownCompleteIsFull == Run!ShownCompleteIsFull

(* A run that has ended is not shown as running for ever.                  *)
EndedRunIsShown == Run!EndedRunIsShown
=============================================================================
