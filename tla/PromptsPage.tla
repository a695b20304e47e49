----------------------------- MODULE PromptsPage -----------------------------
(***************************************************************************)
(* The Prompts page (ui/src/pages/Prompts.tsx) for one prompt and one      *)
(* label, over the store of the Prompt Registry (PromptRegistry models its *)
(* caches): it lists the prompt, creates its first version, shows the      *)
(* versions and moves the label.  Clients of the SDK write versions and    *)
(* labels too.  Its requests are neither numbered nor aborted.             *)
(***************************************************************************)
EXTENDS Naturals

CONSTANTS
    MaxVersion,     \* bound: the latest version
    Registries,     \* the versions that may be there at the beginning
    PromptLists,    \* bound: runs of fetchPrompts under way
    LabelChanges    \* bound: runs of handleLabelChange under way

VARIABLES
    promptsOn,      \* the page is on screen
    project,        \* activeProject
    versions,       \* the versions of the prompt in the Metadata Store
    label,          \* the version the label is assigned to, 0 if none
    promptRow,      \* the page's row: latest version and label, 0 if there is none
    promptView,     \* "loading", "error" or "ready": the page shows nothing else meanwhile
    promptLists,    \* promptLists[j]: a run of fetchPrompts
    versionData,    \* the versions that fetchVersions has cached
    versionFetch,   \* fetchVersions
    assigned,       \* labelAssignments: the version last assigned here, 0 if none
    labelChanges,   \* labelChanges[i]: a run of handleLabelChange
    creating        \* handleCreate

registry == <<versions, label>>
promptsState == <<promptRow, promptView, promptLists, versionData, versionFetch, assigned, labelChanges, creating>>

Free == [at |-> "free"]
NoRow == [latest |-> 0, label |-> 0]
Versions == 1..MaxVersion
Ready == promptsOn /\ promptView = "ready"

Latest(vs) == IF vs = {} THEN 0 ELSE CHOOSE v \in vs : \A w \in vs : w <= v

Init ==
    /\ versions \in Registries
    /\ label = 0
    /\ promptRow = NoRow
    /\ promptView = "loading"
    /\ promptLists = [j \in PromptLists |-> Free]
    /\ versionData = {}
    /\ versionFetch = Free
    /\ assigned = 0
    /\ labelChanges = [i \in LabelChanges |-> Free]
    /\ creating = Free

(* fetchPrompts, for a page that is still on screen. *)
FetchPrompts(live) ==
    IF live THEN /\ \E j \in PromptLists : promptLists[j] = Free /\ promptLists' = [promptLists EXCEPT ![j] = [at |-> "sent"]]
                 /\ promptView' = "loading"
    ELSE UNCHANGED <<promptLists, promptView>>

Orphan(proc) == IF proc = Free THEN Free ELSE [proc EXCEPT !.live = FALSE]

Render ==
    \/ /\ promptsOn' /\ (~promptsOn \/ project' # project)
       /\ FetchPrompts(TRUE)
       /\ UNCHANGED <<promptRow, versionData, versionFetch, assigned, labelChanges, creating>>
    \/ /\ promptsOn /\ ~promptsOn'
       /\ promptRow' = NoRow
       /\ promptView' = "loading"
       /\ promptLists' = [j \in PromptLists |-> Free]
       /\ versionData' = {}
       /\ versionFetch' = Free
       /\ assigned' = 0
       /\ labelChanges' = [i \in LabelChanges |-> Orphan(labelChanges[i])]
       /\ creating' = Orphan(creating)
    \/ /\ promptsOn' = promptsOn /\ (promptsOn => project' = project)
       /\ UNCHANGED promptsState

-----------------------------------------------------------------------------
(* HandleListPrompts. *)
ListPrompts(j) ==
    /\ promptLists[j].at = "sent"
    /\ promptLists' = [promptLists EXCEPT ![j] = [at |-> "ok", row |-> [latest |-> Latest(versions), label |-> label]]]
    /\ UNCHANGED <<registry, promptRow, promptView, versionData, versionFetch, assigned, labelChanges, creating>>

(* Answered, or failed, which leaves the row.  An answer does not take     *)
(* away the error of another run.                                          *)
FetchPromptsEnds(j) ==
    /\ promptLists[j] # Free
    /\ \/ promptLists[j].at = "ok" /\ promptRow' = promptLists[j].row
          /\ promptView' = IF promptView = "error" THEN "error" ELSE "ready"
       \/ UNCHANGED promptRow /\ promptView' = "error"
    /\ promptLists' = [promptLists EXCEPT ![j] = Free]
    /\ UNCHANGED <<registry, versionData, versionFetch, assigned, labelChanges, creating>>

(* The row is expanded: fetchVersions, unless the versions are cached. *)
Expand ==
    /\ Ready /\ promptRow.latest > 0
    /\ versionData = {} /\ versionFetch = Free
    /\ versionFetch' = [at |-> "sent"]
    /\ UNCHANGED <<registry, promptRow, promptView, promptLists, versionData, assigned, labelChanges, creating>>

(* HandleListPromptVersions. *)
ListVersions ==
    /\ versionFetch.at = "sent"
    /\ versionFetch' = [at |-> "ok", versions |-> versions]
    /\ UNCHANGED <<registry, promptRow, promptView, promptLists, versionData, assigned, labelChanges, creating>>

FetchVersionsEnds ==
    /\ versionFetch # Free
    /\ versionFetch' = Free
    /\ \/ versionFetch.at = "ok" /\ versionData' = versionFetch.versions
       \/ UNCHANGED versionData
    /\ UNCHANGED <<registry, promptRow, promptView, promptLists, assigned, labelChanges, creating>>

-----------------------------------------------------------------------------
(* The version that the label's dropdown has selected. *)
Selected == IF assigned # 0 THEN assigned ELSE promptRow.label

(* handleLabelChange. *)
SubmitLabel(i, v) ==
    /\ Ready /\ v \in versionData /\ v # Selected
    /\ labelChanges[i] = Free
    /\ labelChanges' = [labelChanges EXCEPT ![i] = [at |-> "sent", version |-> v, live |-> TRUE]]
    /\ UNCHANGED <<registry, promptRow, promptView, promptLists, versionData, versionFetch, assigned, creating>>

(* HandleSetLabel. *)
HandleSetLabel(i) ==
    /\ labelChanges[i].at = "sent"
    /\ labelChanges[i].version \in versions
    /\ label' = labelChanges[i].version
    /\ labelChanges' = [labelChanges EXCEPT ![i].at = "ok"]
    /\ UNCHANGED <<versions, promptRow, promptView, promptLists, versionData, versionFetch, assigned, creating>>

LabelReturns(i) ==
    /\ labelChanges[i].at = "ok"
    /\ assigned' = IF labelChanges[i].live THEN labelChanges[i].version ELSE assigned
    /\ FetchPrompts(labelChanges[i].live)
    /\ labelChanges' = [labelChanges EXCEPT ![i] = Free]
    /\ UNCHANGED <<registry, promptRow, versionData, versionFetch, creating>>

LabelFails(i) ==
    /\ labelChanges[i] # Free
    /\ labelChanges' = [labelChanges EXCEPT ![i] = Free]
    /\ UNCHANGED <<registry, promptRow, promptView, promptLists, versionData, versionFetch, assigned, creating>>

-----------------------------------------------------------------------------
(* handleCreate, once the form is valid: always version 1. *)
SubmitPrompt ==
    /\ Ready /\ creating = Free
    /\ creating' = [at |-> "sent", live |-> TRUE]
    /\ UNCHANGED <<registry, promptRow, promptView, promptLists, versionData, versionFetch, assigned, labelChanges>>

(* HandleCreate refuses a version that is there. *)
CreatePrompt ==
    /\ creating.at = "sent"
    /\ 1 \notin versions
    /\ versions' = versions \cup {1}
    /\ creating' = [creating EXCEPT !.at = "ok"]
    /\ UNCHANGED <<label, promptRow, promptView, promptLists, versionData, versionFetch, assigned, labelChanges>>

PromptReturns ==
    /\ creating.at = "ok"
    /\ FetchPrompts(creating.live)
    /\ creating' = Free
    /\ UNCHANGED <<registry, promptRow, versionData, versionFetch, assigned, labelChanges>>

PromptFails ==
    /\ creating # Free
    /\ creating' = Free
    /\ UNCHANGED <<registry, promptRow, promptView, promptLists, versionData, versionFetch, assigned, labelChanges>>

(* A client of the SDK creates a version, any version, or moves the label. *)
SdkWrites ==
    /\ \/ \E v \in Versions \ versions : versions' = versions \cup {v} /\ UNCHANGED label
       \/ \E v \in versions \ {label} : label' = v /\ UNCHANGED versions
    /\ UNCHANGED promptsState
=============================================================================
