---------------------------- MODULE EvalRulesPage ----------------------------
(***************************************************************************)
(* The Eval Rules page (ui/src/pages/EvalRules.tsx) and its handlers: it   *)
(* lists the rules, creates one from a form whose prompt, label and        *)
(* version come from the registry as it was when the form was opened, and  *)
(* deletes one.  Its requests are neither numbered nor aborted.            *)
(***************************************************************************)
EXTENDS Naturals

CONSTANTS
    Rules, NoRule, RuleDeleted,
    MaxVersion,
    RuleLists   \* bound: runs of fetchRules under way

VARIABLES
    rulesOn,      \* the page is on screen
    project,      \* activeProject
    versions,     \* the versions of the prompt in the Metadata Store
    label,        \* the version the label is assigned to, 0 if none
    rulesInUse,   \* the rules that a stored run refers to
    rules,        \* rules[u]: NoRule, RuleDeleted, or the prompt version of rule u, 0 without a prompt
    ruleRows,     \* the rules on the page
    ruleView,     \* loading and error, either of which hides the rest of the page
    ruleLists,    \* ruleLists[j]: a run of fetchRules
    ruleForm,     \* the form: the registry it knows, its choice
    ruleCreate,   \* handleCreate
    ruleDelete    \* handleDelete

rulesState == <<ruleRows, ruleView, ruleLists, ruleForm, ruleCreate, ruleDelete>>

Free == [at |-> "free"]
NoForm == [at |-> "closed"]
Loading == [loading |-> TRUE, error |-> FALSE]
Ready == rulesOn /\ ruleView = [loading |-> FALSE, error |-> FALSE]
Stored == {u \in Rules : rules[u] \notin {NoRule, RuleDeleted}}

Latest(vs) == IF vs = {} THEN 0 ELSE CHOOSE v \in vs : \A w \in vs : w <= v

Init ==
    /\ rules \in [Rules -> {NoRule} \cup versions]
    /\ ruleRows = {}
    /\ ruleView = Loading
    /\ ruleLists = [j \in RuleLists |-> Free]
    /\ ruleForm = NoForm
    /\ ruleCreate = Free
    /\ ruleDelete = Free

FetchRules(live) ==
    IF live THEN /\ \E j \in RuleLists : ruleLists[j] = Free /\ ruleLists' = [ruleLists EXCEPT ![j] = [at |-> "sent"]]
                 /\ ruleView' = Loading
    ELSE UNCHANGED <<ruleLists, ruleView>>

Orphan(proc) == IF proc = Free THEN Free ELSE [proc EXCEPT !.live = FALSE]

(* An open form fetches the prompts again when the project changes. *)
Render ==
    \/ /\ rulesOn' /\ (~rulesOn \/ project' # project)
       /\ FetchRules(TRUE)
       /\ ruleForm' = IF ruleForm.at = "closed" THEN ruleForm ELSE [ruleForm EXCEPT !.at = "loading"]
       /\ UNCHANGED <<ruleRows, ruleCreate, ruleDelete>>
    \/ /\ rulesOn /\ ~rulesOn'
       /\ ruleRows' = {}
       /\ ruleView' = Loading
       /\ ruleLists' = [j \in RuleLists |-> Free]
       /\ ruleForm' = NoForm
       /\ ruleCreate' = Orphan(ruleCreate)
       /\ ruleDelete' = Orphan(ruleDelete)
    \/ /\ rulesOn' = rulesOn /\ (rulesOn => project' = project)
       /\ UNCHANGED rulesState

-----------------------------------------------------------------------------
(* HandleList. *)
ListRules(j) ==
    /\ ruleLists[j].at = "sent"
    /\ ruleLists' = [ruleLists EXCEPT ![j] = [at |-> "ok", rules |-> Stored]]
    /\ UNCHANGED <<rules, ruleRows, ruleView, ruleForm, ruleCreate, ruleDelete>>

FetchRulesEnds(j) ==
    /\ ruleLists[j] # Free
    /\ \/ ruleLists[j].at = "ok" /\ ruleRows' = ruleLists[j].rules /\ ruleView' = [ruleView EXCEPT !.loading = FALSE]
       \/ UNCHANGED ruleRows /\ ruleView' = [loading |-> FALSE, error |-> TRUE]
    /\ ruleLists' = [ruleLists EXCEPT ![j] = Free]
    /\ UNCHANGED <<rules, ruleForm, ruleCreate, ruleDelete>>

-----------------------------------------------------------------------------
(* The form opens, with no prompt chosen, and fetches the prompts. *)
OpenRuleForm ==
    /\ Ready /\ ruleForm.at = "closed"
    /\ ruleForm' = [at |-> "loading", latest |-> 0, label |-> 0, version |-> 0, labelled |-> FALSE]
    /\ UNCHANGED <<rules, ruleRows, ruleView, ruleLists, ruleCreate, ruleDelete>>

PromptsArrive ==
    /\ ruleForm.at = "loading"
    /\ ruleForm' \in {[ruleForm EXCEPT !.at = "open", !.latest = Latest(versions), !.label = label],
                      [ruleForm EXCEPT !.at = "open"]}
    /\ UNCHANGED <<rules, ruleRows, ruleView, ruleLists, ruleCreate, ruleDelete>>

(* handlePromptSelect, handleLabelSelect, or the version dropdown, which   *)
(* offers every number up to the latest version.                           *)
ChoosePrompt(v, byLabel) ==
    /\ Ready /\ ruleForm.at = "open" /\ ruleForm.latest > 0
    /\ IF byLabel THEN v = (IF ruleForm.label > 0 THEN ruleForm.label ELSE 1) ELSE v <= ruleForm.latest
    /\ <<ruleForm.version, ruleForm.labelled>> # <<v, byLabel>>
    /\ ruleForm' = [ruleForm EXCEPT !.version = v, !.labelled = byLabel]
    /\ UNCHANGED <<rules, ruleRows, ruleView, ruleLists, ruleCreate, ruleDelete>>

(* resetCreateForm. *)
CancelRuleForm ==
    /\ Ready /\ ruleForm.at # "closed"
    /\ ruleForm' = NoForm
    /\ UNCHANGED <<rules, ruleRows, ruleView, ruleLists, ruleCreate, ruleDelete>>

(* handleCreate, once the form is valid. *)
SubmitRule ==
    /\ Ready /\ ruleForm.at # "closed"
    /\ ruleCreate = Free
    /\ ruleCreate' = [at |-> "sent", version |-> ruleForm.version, labelled |-> ruleForm.labelled, live |-> TRUE]
    /\ UNCHANGED <<rules, ruleRows, ruleView, ruleLists, ruleForm, ruleDelete>>

(* Mutant: only a label is looked up. *)
MutantPromptExists(req) == req.version = 0 \/ (req.labelled => label # 0)

(* HandleCreate looks up the label and the version. *)
PromptExists(req) == req.version = 0 \/ (req.version \in versions /\ (req.labelled => label # 0))

CreateRule(u) ==
    /\ ruleCreate.at = "sent"
    /\ PromptExists(ruleCreate)
    /\ rules[u] = NoRule
    /\ rules' = [rules EXCEPT ![u] = ruleCreate.version]
    /\ ruleCreate' = [ruleCreate EXCEPT !.at = "ok"]
    /\ UNCHANGED <<ruleRows, ruleView, ruleLists, ruleForm, ruleDelete>>

CreateRuleReturns ==
    /\ ruleCreate.at = "ok"
    /\ ruleCreate' = Free
    /\ ruleForm' = IF ruleCreate.live THEN NoForm ELSE ruleForm
    /\ FetchRules(ruleCreate.live)
    /\ UNCHANGED <<rules, ruleRows, ruleDelete>>

CreateRuleFails ==
    /\ ruleCreate # Free
    /\ ruleCreate' = Free
    /\ UNCHANGED <<rules, ruleRows, ruleView, ruleLists, ruleForm, ruleDelete>>

-----------------------------------------------------------------------------
(* handleDelete, after window.confirm. *)
SubmitDeleteRule(u) ==
    /\ Ready /\ u \in ruleRows
    /\ ruleDelete = Free
    /\ ruleDelete' = [at |-> "sent", rule |-> u, live |-> TRUE]
    /\ UNCHANGED <<rules, ruleRows, ruleView, ruleLists, ruleForm, ruleCreate>>

(* HandleDelete: the store refuses while a run refers to the rule. *)
DeleteRule ==
    /\ ruleDelete.at = "sent"
    /\ ruleDelete.rule \in Stored \ rulesInUse
    /\ rules' = [rules EXCEPT ![ruleDelete.rule] = RuleDeleted]
    /\ ruleDelete' = [ruleDelete EXCEPT !.at = "ok"]
    /\ UNCHANGED <<ruleRows, ruleView, ruleLists, ruleForm, ruleCreate>>

DeleteRuleReturns ==
    /\ ruleDelete.at = "ok"
    /\ ruleRows' = IF ruleDelete.live THEN ruleRows \ {ruleDelete.rule} ELSE ruleRows
    /\ ruleDelete' = Free
    /\ UNCHANGED <<rules, ruleView, ruleLists, ruleForm, ruleCreate>>

DeleteRuleFails ==
    /\ ruleDelete # Free
    /\ ruleDelete' = Free
    /\ ruleView' = IF ruleDelete.live THEN [ruleView EXCEPT !.error = TRUE] ELSE ruleView
    /\ UNCHANGED <<rules, ruleRows, ruleLists, ruleForm, ruleCreate>>

-----------------------------------------------------------------------------
(* The rules whose prompt version a run finds in the registry. *)
Resolvable == {u \in Stored : rules[u] \in versions}

(* Whatever the form knew of the registry, and whoever wrote to it in the  *)
(* meantime, a stored rule has no prompt or one whose version is there,    *)
(* and the label is on a version that is there: a run or a job never fails *)
(* for a prompt that its rule should not have named.                       *)
PromptsResolve ==
    /\ label \in {0} \cup versions
    /\ \A u \in Stored : rules[u] = 0 \/ rules[u] \in versions
=============================================================================
