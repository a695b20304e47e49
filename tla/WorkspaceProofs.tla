-------------------------- MODULE WorkspaceProofs --------------------------
(***************************************************************************)
(* Proofs about prompts, eval rules, datasets and dataset runs and their   *)
(* pages for every number of records, files, requests under way and lost   *)
(* connections.                                                            *)
(***************************************************************************)
EXTENDS Workspace, FiniteSetTheorems, SequenceTheorems, TLAPS

-----------------------------------------------------------------------------
(* The registry and the rules.                                             *)

RegistryInv ==
    /\ rules = [u \in Rules |-> rules[u]]
    /\ PromptsResolve

-----------------------------------------------------------------------------
(* The datasets and what is being imported.                                *)

DatasetRecord == [project : {Sets!First}, items : Seq(Nat)]

IsCreate(c) ==
    /\ c = [at |-> c.at, project |-> c.project, dataset |-> c.dataset,
            file |-> c.file, batch |-> c.batch, live |-> c.live]
    /\ c.at \in {"create", "created", "import", "added"}
    /\ c.batch \in Nat
    /\ c.at \in {"create", "created"} => c.batch = 0
    /\ c.at \in {"import", "added"} => c.batch # 0

(* handleCreate has its dataset. *)
HasDataset(c) == c.at \in {"created", "import", "added"}

(* The batches that the store has committed for it. *)
Committed(c) == IF c.at = "import" THEN c.batch - 1 ELSE c.batch

(* A dataset that is being imported belongs to one run of handleCreate,    *)
(* and holds as many batches as that run has been through.                 *)
ImportInv ==
    \A i \in Creates : HasDataset(creates[i]) =>
        /\ creates[i].dataset \in Datasets
        /\ datasets[creates[i].dataset] # NoDataset
        /\ \A k \in Creates : HasDataset(creates[k]) /\ creates[k].dataset = creates[i].dataset => k = i
        /\ creates[i].dataset \in Sets!Stored =>
               Len(datasets[creates[i].dataset].items) = Committed(creates[i])

DatasetsInv ==
    /\ datasets \in [Datasets -> {NoDataset, Deleted} \cup DatasetRecord]
    /\ creates = [i \in Creates |-> creates[i]]
    /\ \A i \in Creates : creates[i] = Sets!Free \/ IsCreate(creates[i])
    /\ ImportInv
    /\ ImportIsPrefix

-----------------------------------------------------------------------------
(* The runs and what is shown of them.                                     *)

IsPost(q) ==
    /\ q = [at |-> q.at, dataset |-> q.dataset, rule |-> q.rule, items |-> q.items,
            next |-> q.next, failed |-> q.failed, gone |-> q.gone, live |-> q.live]
    /\ q.at \in {"sent", "checked", "scoring", "finished", "refused"}
    /\ q.items \in Nat
    /\ q.next \in Nat \ {0}
    /\ q.failed \in BOOLEAN

IsRun(x) ==
    /\ x = [status |-> x.status, dataset |-> x.dataset, rule |-> x.rule, items |-> x.items, scored |-> x.scored]
    /\ x.status \in {"running", "complete", "error"}
    /\ x.items \in Nat

(* HandleRun and its record: the record appears with the loop, and as long *)
(* as nothing failed the loop has scored what it has been through.         *)
RunOfPost(q, x) ==
    /\ q.at \in {"sent", "checked"} => x = Run!NoRun /\ q.next = 1 /\ q.failed = FALSE
    /\ q.at = "scoring" =>
        /\ x.status = "running"
        /\ x.items = q.items
        /\ q.next <= q.items + 1
        /\ q.failed = FALSE => x.scored = 1..(q.next - 1)

PostAndRun(q, x) ==
    /\ q = Run!Free \/ IsPost(q)
    /\ x = Run!NoRun \/ IsRun(x)
    /\ RunOfPost(q, x)
    /\ x.status = "complete" => x.scored = 1..x.items

ServerInv ==
    /\ posts = [r \in Runs |-> posts[r]]
    /\ runs = [r \in Runs |-> runs[r]]
    /\ \A r \in Runs : PostAndRun(posts[r], runs[r])

(* A row that says complete is one of a complete run, and once the items   *)
(* are counted it says how many there are.                                 *)
StatusTrue(row, x) == row.status = "complete" => x.status = "complete"
RowTrue(row, x) == row.status = "complete" => x.status = "complete" /\ (row.whole => row.count = x.items)

TabInv ==
    /\ fetches = [j \in Fetches |-> fetches[j]]
    /\ \A j \in Fetches, r \in Runs :
        /\ fetches[j].at = "read" => StatusTrue(fetches[j].rows[r], runs[r])
        /\ fetches[j].at = "ok" => RowTrue(fetches[j].rows[r], runs[r])
    /\ \A r \in Runs : RowTrue(shown[r], runs[r])

(* The inductive invariant. *)
IInv == RegistryInv /\ DatasetsInv /\ ServerInv /\ TabInv

-----------------------------------------------------------------------------
(* Which steps leave which part of the store alone. *)

(* A page that comes, goes or is drawn again stores nothing. *)
LEMMA RenderStores ==
    ASSUME \/ \E q \in tour : Navigate(q)
           \/ \E d \in Datasets : OpenDataset(d)
           \/ \E j \in Lists : ImportOpensDataset(j)
           \/ \E p \in Projects : SwitchProject(p)
    PROVE  UNCHANGED <<datasets, versions, label, rules, runs>> /\ Run!Render
  <1>1. ASSUME Rendered PROVE UNCHANGED <<versions, label, rules, runs>> /\ Run!Render
    BY <1>1 DEF Rendered
  <1>2. ASSUME RenderedAll PROVE UNCHANGED <<datasets, versions, label, rules, runs>> /\ Run!Render
    BY <1>1, <1>2 DEF RenderedAll
  <1>3. ASSUME NEW q, Navigate(q) PROVE RenderedAll
    BY <1>3 DEF Navigate
  <1>4. ASSUME NEW d, OpenDataset(d) PROVE RenderedAll
    BY <1>4 DEF OpenDataset
  <1>5. ASSUME NEW p, SwitchProject(p) PROVE RenderedAll
    BY <1>5 DEF SwitchProject
  <1>6. ASSUME NEW j, ImportOpensDataset(j) PROVE UNCHANGED datasets /\ Rendered
    BY <1>6 DEF ImportOpensDataset, Sets!GoToDataset, Sets!storeVars
  <1> QED BY <1>1, <1>2, <1>3, <1>4, <1>5, <1>6

-----------------------------------------------------------------------------
(* The registry and the rules. *)

(* Versions are never taken away, and a label is given to a version that   *)
(* is there.                                                               *)
LEMMA PromptsWrite ==
    ASSUME PromptsStep
    PROVE  /\ versions \subseteq versions'
           /\ label' = label \/ label' \in versions'
           /\ UNCHANGED rules
  <1> USE DEF Prompts!registry
  <1>1. UNCHANGED rules
    BY DEF PromptsStep, ruleVars
  <1>2. CASE UNCHANGED <<versions, label>>
    BY <1>1, <1>2
  <1>3. CASE Prompts!SdkWrites
    BY <1>1, <1>3 DEF Prompts!SdkWrites
  <1>4. ASSUME NEW i \in LabelChanges, Prompts!HandleSetLabel(i)
        PROVE  UNCHANGED versions /\ label' \in versions
    BY <1>4 DEF Prompts!HandleSetLabel
  <1>5. CASE Prompts!CreatePrompt
    BY <1>1, <1>5 DEF Prompts!CreatePrompt
  <1>6. ASSUME NEW j \in PromptLists, Prompts!ListPrompts(j) \/ Prompts!FetchPromptsEnds(j)
        PROVE  UNCHANGED <<versions, label>>
    BY <1>6 DEF Prompts!ListPrompts, Prompts!FetchPromptsEnds
  <1>7. ASSUME NEW i \in LabelChanges,
               Prompts!LabelReturns(i) \/ Prompts!LabelFails(i) \/ \E v \in 1..MaxVersion : Prompts!SubmitLabel(i, v)
        PROVE  UNCHANGED <<versions, label>>
    BY <1>7 DEF Prompts!LabelReturns, Prompts!LabelFails, Prompts!SubmitLabel
  <1>8. CASE Prompts!Expand \/ Prompts!ListVersions \/ Prompts!FetchVersionsEnds
    BY <1>2, <1>8 DEF Prompts!Expand, Prompts!ListVersions, Prompts!FetchVersionsEnds
  <1>9. CASE Prompts!SubmitPrompt \/ Prompts!PromptReturns \/ Prompts!PromptFails
    BY <1>2, <1>9 DEF Prompts!SubmitPrompt, Prompts!PromptReturns, Prompts!PromptFails
  <1> QED
    BY <1>1, <1>2, <1>3, <1>4, <1>5, <1>6, <1>7, <1>8, <1>9 DEF PromptsStep

(* A rule that is stored has been looked up. *)
LEMMA RulesWrite ==
    ASSUME RulesStep
    PROVE  /\ UNCHANGED <<versions, label>>
           /\ \/ UNCHANGED rules
              \/ \E u \in Rules, w \in {0, RuleDeleted} \cup versions : rules' = [rules EXCEPT ![u] = w]
  <1>1. UNCHANGED <<versions, label>>
    BY DEF RulesStep, promptVars
  <1>2. CASE UNCHANGED rules
    BY <1>1, <1>2
  <1>3. ASSUME NEW u \in Rules, Eval!CreateRule(u)
        PROVE  \E w \in {0, RuleDeleted} \cup versions : rules' = [rules EXCEPT ![u] = w]
    BY <1>3 DEF Eval!CreateRule, Eval!PromptExists
  <1>4. CASE Eval!DeleteRule
    <2>1. ruleDelete.rule \in Rules /\ rules' = [rules EXCEPT ![ruleDelete.rule] = RuleDeleted]
      BY <1>4 DEF Eval!DeleteRule, Eval!Stored
    <2> QED BY <1>1, <2>1
  <1>5. ASSUME NEW j \in RuleLists, Eval!ListRules(j) \/ Eval!FetchRulesEnds(j)
        PROVE  UNCHANGED rules
    BY <1>5 DEF Eval!ListRules, Eval!FetchRulesEnds
  <1>6. CASE Eval!OpenRuleForm \/ Eval!PromptsArrive \/ Eval!CancelRuleForm
    BY <1>2, <1>6 DEF Eval!OpenRuleForm, Eval!PromptsArrive, Eval!CancelRuleForm
  <1>7. ASSUME NEW v \in 1..MaxVersion, NEW byLabel \in BOOLEAN, Eval!ChoosePrompt(v, byLabel)
        PROVE  UNCHANGED rules
    BY <1>7 DEF Eval!ChoosePrompt
  <1>8. CASE Eval!SubmitRule \/ Eval!CreateRuleReturns \/ Eval!CreateRuleFails
    BY <1>2, <1>8 DEF Eval!SubmitRule, Eval!CreateRuleReturns, Eval!CreateRuleFails
  <1>9. ASSUME NEW u \in Rules, Eval!SubmitDeleteRule(u)
        PROVE  UNCHANGED rules
    BY <1>9 DEF Eval!SubmitDeleteRule
  <1>10. CASE Eval!DeleteRuleReturns \/ Eval!DeleteRuleFails
    BY <1>2, <1>10 DEF Eval!DeleteRuleReturns, Eval!DeleteRuleFails
  <1> QED
    BY <1>1, <1>2, <1>3, <1>4, <1>5, <1>6, <1>7, <1>8, <1>9, <1>10 DEF RulesStep

LEMMA RegistryNext ==
    ASSUME RegistryInv, [Next]_vars
    PROVE  RegistryInv'
  <1> USE DEF RegistryInv, PromptsResolve, Eval!PromptsResolve, Eval!Stored
  <1>1. ASSUME versions \subseteq versions', label' = label \/ label' \in versions', UNCHANGED rules
        PROVE  RegistryInv'
    BY <1>1
  <1>2. CASE UNCHANGED <<versions, label, rules>>
    BY <1>1, <1>2
  <1>3. CASE PromptsStep
    BY <1>1, <1>3, PromptsWrite
  <1>4. CASE RulesStep
    <2>1. CASE UNCHANGED rules
      BY <1>2, <1>4, <2>1, RulesWrite
    <2>2. ASSUME NEW u \in Rules, NEW w \in {0, RuleDeleted} \cup versions, rules' = [rules EXCEPT ![u] = w]
          PROVE  RegistryInv'
      <3>1. UNCHANGED <<versions, label>>
        BY <1>4, RulesWrite
      <3> QED BY <2>2, <3>1
    <2> QED BY <1>4, <2>1, <2>2, RulesWrite
  <1>5. CASE DatasetsStep \/ RunsStep
    BY <1>2, <1>5 DEF DatasetsStep, RunsStep, RunsOnly, promptVars, ruleVars
  <1>6. CASE UNCHANGED vars
    BY <1>2, <1>6 DEF vars, promptVars, ruleVars
  <1> QED BY <1>2, <1>3, <1>4, <1>5, <1>6, RenderStores DEF Next

-----------------------------------------------------------------------------
(* The datasets and what is being imported. *)

(* A run of handleCreate that is new, over, or has done nothing more. *)
SameImport(c, d) ==
    \/ d = Sets!Free
    \/ IsCreate(d) /\ d.at = "create"
    \/ IsCreate(c) /\ IsCreate(d) /\ d.at = c.at /\ d.dataset = c.dataset /\ d.batch = c.batch

(* A dataset that the store has is a record. *)
LEMMA StoredIsRecord ==
    ASSUME DatasetsInv, NEW d \in Sets!Stored
    PROVE  /\ d \in Datasets
           /\ datasets[d] = [project |-> Sets!First, items |-> datasets[d].items]
           /\ datasets[d].items \in Seq(Nat)
  BY DEF DatasetsInv, Sets!Stored, DatasetRecord

LEMMA SameImports ==
    ASSUME DatasetsInv,
           UNCHANGED datasets,
           creates' = [i \in Creates |-> creates'[i]],
           \A i \in Creates : SameImport(creates[i], creates'[i])
    PROVE  DatasetsInv'
  <1> USE DEF DatasetsInv
  <1>1. ImportIsPrefix'
    BY DEF ImportIsPrefix, Sets!ImportIsPrefix, Sets!Stored
  <1>2. \A i \in Creates : creates'[i] = Sets!Free \/ IsCreate(creates'[i])
    BY DEF SameImport
  <1>3. \A i \in Creates : HasDataset(creates'[i]) =>
            /\ HasDataset(creates[i])
            /\ creates'[i].dataset = creates[i].dataset
            /\ Committed(creates'[i]) = Committed(creates[i])
    BY DEF SameImport, HasDataset, Committed, Sets!Free
  <1>4. ImportInv'
    <2>1. Sets!Stored' = Sets!Stored
      BY DEF Sets!Stored
    <2> QED BY <1>3, <2>1 DEF ImportInv
  <1> QED BY <1>1, <1>2, <1>4

LEMMA OrphanSameImport ==
    ASSUME NEW c, c = Sets!Free \/ IsCreate(c)
    PROVE  SameImport(c, Sets!Orphan(c))
  BY DEF SameImport, IsCreate, Sets!Orphan, Sets!Free

LEMMA SameSameImport ==
    ASSUME NEW c, c = Sets!Free \/ IsCreate(c)
    PROVE  SameImport(c, c)
  BY DEF SameImport

(* One run of handleCreate is replaced. *)
LEMMA OneImport ==
    ASSUME DatasetsInv, UNCHANGED datasets,
           NEW i \in Creates, NEW c, creates' = [creates EXCEPT ![i] = c],
           SameImport(creates[i], c)
    PROVE  DatasetsInv'
  <1>1. creates' = [k \in Creates |-> creates'[k]]
    BY DEF DatasetsInv
  <1>2. \A k \in Creates : creates'[k] = IF k = i THEN c ELSE creates[k]
    BY DEF DatasetsInv
  <1>3. \A k \in Creates : SameImport(creates[k], creates'[k])
    BY <1>2, SameSameImport DEF DatasetsInv
  <1> QED BY <1>1, <1>3, SameImports

LEMMA QuietImports ==
    ASSUME DatasetsInv, UNCHANGED <<datasets, creates>>
    PROVE  DatasetsInv'
  <1>1. \A k \in Creates : SameImport(creates[k], creates'[k])
    BY SameSameImport DEF DatasetsInv
  <1>2. creates' = [k \in Creates |-> creates'[k]]
    BY DEF DatasetsInv
  <1> QED BY <1>1, <1>2, SameImports

LEMMA UnmountImports ==
    ASSUME DatasetsInv, UNCHANGED datasets, creates' = [i \in Creates |-> Sets!Orphan(creates[i])]
    PROVE  DatasetsInv'
  <1>1. \A k \in Creates : SameImport(creates[k], creates'[k])
    BY OrphanSameImport DEF DatasetsInv
  <1>2. creates' = [k \in Creates |-> creates'[k]]
    OBVIOUS
  <1> QED BY <1>1, <1>2, SameImports

LEMMA RenderImports ==
    ASSUME DatasetsInv,
           \/ \E q \in tour : Navigate(q)
           \/ \E d \in Datasets : OpenDataset(d)
           \/ \E j \in Lists : ImportOpensDataset(j)
           \/ \E p \in Projects : SwitchProject(p)
    PROVE  DatasetsInv'
  <1>1. UNCHANGED datasets
    BY RenderStores
  <1>2. CASE RenderedAll
    <2>1. Sets!Render
      BY <1>2 DEF RenderedAll
    <2>2. UNCHANGED creates \/ creates' = [i \in Creates |-> Sets!Orphan(creates[i])]
      BY <2>1 DEF Sets!Render, Sets!Unmount, Sets!pageState
    <2> QED BY <1>1, <2>2, QuietImports, UnmountImports
  <1>3. ASSUME NEW j \in Lists, ImportOpensDataset(j)
        PROVE  UNCHANGED creates \/ creates' = [i \in Creates |-> Sets!Orphan(creates[i])]
    BY <1>3 DEF ImportOpensDataset, Sets!GoToDataset, Sets!Unmount
  <1> QED
    BY <1>1, <1>2, <1>3, QuietImports, UnmountImports DEF Navigate, OpenDataset, SwitchProject

(* HandleCreate: the new dataset is empty, and nobody else has it. *)
LEMMA CreateDatasetImports ==
    ASSUME DatasetsInv, NEW i \in Creates, NEW d \in Datasets, Sets!CreateDataset(i, d)
    PROVE  DatasetsInv'
  <1> DEFINE new == [project |-> Sets!First, items |-> <<>>]
  <1> USE DatasetsAssumption
  <1>1. /\ creates[i].at = "create"
        /\ datasets[d] = NoDataset
        /\ datasets' = [datasets EXCEPT ![d] = new]
        /\ creates' = [creates EXCEPT ![i].at = "created", ![i].dataset = d]
    BY DEF Sets!CreateDataset, Sets!ProjectID
  <1>2. IsCreate(creates[i])
    BY <1>1 DEF DatasetsInv, Sets!Free
  <1>3. new \in DatasetRecord /\ new \notin {NoDataset, Deleted} /\ Len(new.items) = 0
    <2>1. << >> \in Seq(Nat) /\ Len(<< >>) = 0
      BY EmptySeq
    <2>2. new.items = << >>
      OBVIOUS
    <2>3. new \in [project : {Sets!First}, items : Seq(Nat)]
      BY <2>1
    <2> QED BY <2>1, <2>2, <2>3 DEF DatasetRecord
  <1>4. /\ creates' = [k \in Creates |-> creates'[k]]
        /\ \A k \in Creates \ {i} : creates'[k] = creates[k]
        /\ IsCreate(creates'[i])
        /\ creates'[i].at = "created" /\ creates'[i].dataset = d /\ Committed(creates'[i]) = 0
    BY <1>1, <1>2 DEF DatasetsInv, IsCreate, Committed
  <1> HIDE DEF new
  <1>5. datasets' \in [Datasets -> {NoDataset, Deleted} \cup DatasetRecord]
    BY <1>1, <1>3 DEF DatasetsInv
  <1>6. /\ datasets'[d] = new
        /\ \A e \in Datasets \ {d} : datasets'[e] = datasets[e]
    BY <1>1 DEF DatasetsInv
  <1>7. \A k \in Creates \ {i} : HasDataset(creates[k]) => creates[k].dataset \in Datasets \ {d}
    BY <1>1 DEF DatasetsInv, ImportInv
  <1>8. ImportInv'
    BY <1>3, <1>4, <1>6, <1>7 DEF DatasetsInv, ImportInv, HasDataset, Sets!Stored
  <1>9. ImportIsPrefix'
    <2>1. DOMAIN new.items = {}
      BY DEF new
    <2> QED BY <1>6, <2>1 DEF DatasetsInv, ImportIsPrefix, Sets!ImportIsPrefix, Sets!Stored
  <1> QED BY <1>4, <1>5, <1>8, <1>9 DEF DatasetsInv

(* HandleAddItemsBatch: the batch that is added is the next one. *)
LEMMA AddItemsBatchImports ==
    ASSUME DatasetsInv, NEW i \in Creates, Sets!AddItemsBatch(i)
    PROVE  DatasetsInv'
  <1> USE DatasetsAssumption
  <1>1. PICK d : d = creates[i].dataset
    OBVIOUS
  <1>2. PICK b : b = creates[i].batch
    OBVIOUS
  <1>3. PICK seq : seq = datasets[d].items
    OBVIOUS
  <1> DEFINE new == [project |-> Sets!First, items |-> Append(seq, b)]
  <1>4. /\ creates[i].at = "import"
        /\ d \in Sets!Stored
        /\ datasets' = [datasets EXCEPT ![d].items = Append(@, b)]
        /\ creates' = [creates EXCEPT ![i].at = "added"]
    BY <1>1, <1>2 DEF Sets!AddItemsBatch
  <1>5. IsCreate(creates[i])
    BY <1>4 DEF DatasetsInv, Sets!Free
  <1>6. b \in Nat \ {0}
    BY <1>2, <1>4, <1>5 DEF IsCreate
  <1>7. d \in Datasets /\ datasets[d] = [project |-> Sets!First, items |-> seq] /\ seq \in Seq(Nat)
    BY <1>3, <1>4, StoredIsRecord
  <1>8. Len(seq) = b - 1
    BY <1>1, <1>2, <1>3, <1>4 DEF DatasetsInv, ImportInv, HasDataset, Committed
  <1>9. datasets' = [datasets EXCEPT ![d] = new]
    <2>1. datasets' = [datasets EXCEPT ![d] = [datasets[d] EXCEPT !.items = Append(datasets[d].items, b)]]
      BY <1>4
    <2>2. ASSUME NEW old, NEW t, old = [project |-> Sets!First, items |-> seq]
          PROVE  [old EXCEPT !.items = t] = [project |-> Sets!First, items |-> t]
      BY <2>2
    <2> QED BY <1>3, <1>7, <2>1, <2>2
  <1>10. /\ Append(seq, b) \in Seq(Nat)
         /\ Len(Append(seq, b)) = b
         /\ DOMAIN Append(seq, b) = 1..b
         /\ Append(seq, b)[b] = b
         /\ \A k \in 1..(b - 1) : Append(seq, b)[k] = seq[k]
    BY <1>6, <1>7, <1>8
  <1>11. new \in DatasetRecord /\ new \notin {NoDataset, Deleted} /\ new.items = Append(seq, b)
    BY <1>10 DEF DatasetRecord
  <1>12. /\ creates' = [k \in Creates |-> creates'[k]]
         /\ \A k \in Creates \ {i} : creates'[k] = creates[k]
         /\ IsCreate(creates'[i])
         /\ creates'[i].at = "added" /\ creates'[i].dataset = d /\ Committed(creates'[i]) = b
    BY <1>1, <1>2, <1>4, <1>5 DEF DatasetsInv, IsCreate, Committed
  <1> HIDE DEF new
  <1>13. datasets' \in [Datasets -> {NoDataset, Deleted} \cup DatasetRecord]
    BY <1>9, <1>11 DEF DatasetsInv
  <1>14. /\ datasets'[d] = new
         /\ \A e \in Datasets \ {d} : datasets'[e] = datasets[e]
    BY <1>7, <1>9 DEF DatasetsInv
  <1>15. \A k \in Creates \ {i} : HasDataset(creates[k]) => creates[k].dataset \in Datasets \ {d}
    BY <1>1, <1>4 DEF DatasetsInv, ImportInv, HasDataset
  <1>16. ImportInv'
    <2>1. datasets'[d] # NoDataset /\ Len(datasets'[d].items) = Committed(creates'[i])
      BY <1>10, <1>11, <1>12, <1>14
    <2>2. \A k \in Creates \ {i} : HasDataset(creates'[k]) =>
              /\ creates'[k] = creates[k]
              /\ creates[k].dataset \in Datasets \ {d}
              /\ datasets'[creates[k].dataset] = datasets[creates[k].dataset]
      BY <1>12, <1>14, <1>15
    <2> QED BY <1>7, <1>12, <2>1, <2>2 DEF DatasetsInv, ImportInv, Sets!Stored
  <1>17. ImportIsPrefix'
    <2>1. \A k \in DOMAIN seq : seq[k] = k
      BY <1>3, <1>4 DEF DatasetsInv, ImportIsPrefix, Sets!ImportIsPrefix
    <2>2. DOMAIN seq = 1..(b - 1)
      BY <1>7, <1>8
    <2>3. \A k \in DOMAIN new.items : new.items[k] = k
      BY <1>6, <1>10, <1>11, <2>1, <2>2
    <2> QED BY <1>14, <2>3 DEF DatasetsInv, ImportIsPrefix, Sets!ImportIsPrefix, Sets!Stored
  <1> QED BY <1>12, <1>13, <1>16, <1>17 DEF DatasetsInv

(* The loop of importItems goes on to the batch after the one that the     *)
(* store has, or to the first one.                                         *)
LEMMA NextBatchImports ==
    ASSUME DatasetsInv, NEW i \in Creates, creates[i].at \in {"created", "added"},
           UNCHANGED datasets,
           creates' = [creates EXCEPT ![i].at = "import", ![i].batch = creates[i].batch + 1]
    PROVE  DatasetsInv'
  <1>1. IsCreate(creates[i])
    BY DEF DatasetsInv, Sets!Free
  <1>2. /\ creates' = [k \in Creates |-> creates'[k]]
        /\ \A k \in Creates \ {i} : creates'[k] = creates[k]
        /\ creates'[i].at = "import"
        /\ creates'[i].batch = creates[i].batch + 1
        /\ creates'[i].dataset = creates[i].dataset
        /\ IsCreate(creates'[i])
    <2>1. PICK c : c = creates[i]
      OBVIOUS
    <2>2. creates' = [creates EXCEPT ![i] = [c EXCEPT !.at = "import", !.batch = c.batch + 1]]
      BY <2>1
    <2>3. c = [at |-> c.at, project |-> c.project, dataset |-> c.dataset,
               file |-> c.file, batch |-> c.batch, live |-> c.live]
      BY <1>1, <2>1 DEF IsCreate
    <2>4. PICK n : n = c.batch + 1
      OBVIOUS
    <2>5. n \in Nat \ {0}
      BY <1>1, <2>1, <2>4 DEF IsCreate
    <2>6. PICK next : next = [c EXCEPT !.at = "import", !.batch = n]
      OBVIOUS
    <2>7. next = [at |-> "import", project |-> c.project, dataset |-> c.dataset,
                  file |-> c.file, batch |-> n, live |-> c.live]
      BY <2>3, <2>6, Zenon
    <2>8. IsCreate(next) /\ next.at = "import" /\ next.batch = n /\ next.dataset = c.dataset
      BY <2>5, <2>7 DEF IsCreate
    <2>9. creates' = [creates EXCEPT ![i] = next]
      BY <2>2, <2>4, <2>6
    <2> QED BY <2>1, <2>4, <2>8, <2>9 DEF DatasetsInv
  <1>3. Committed(creates'[i]) = Committed(creates[i])
    BY <1>1, <1>2 DEF Committed, IsCreate
  <1>4. \A k \in Creates : HasDataset(creates'[k]) =>
            /\ HasDataset(creates[k])
            /\ creates'[k].dataset = creates[k].dataset
            /\ Committed(creates'[k]) = Committed(creates[k])
    BY <1>2, <1>3 DEF HasDataset
  <1>5. ImportInv'
    <2>1. Sets!Stored' = Sets!Stored
      BY DEF Sets!Stored
    <2> QED BY <1>4, <2>1 DEF DatasetsInv, ImportInv
  <1>6. ImportIsPrefix'
    BY DEF DatasetsInv, ImportIsPrefix, Sets!ImportIsPrefix, Sets!Stored
  <1> QED BY <1>2, <1>5, <1>6 DEF DatasetsInv

LEMMA DeleteDatasetImports ==
    ASSUME DatasetsInv, Sets!DeleteDataset
    PROVE  DatasetsInv'
  <1> USE DatasetsAssumption
  <1>1. PICK d : d = deletion.dataset
    OBVIOUS
  <1>2. d \in Datasets /\ datasets' = [datasets EXCEPT ![d] = Deleted] /\ UNCHANGED creates
    BY <1>1 DEF Sets!DeleteDataset, Sets!Stored
  <1>3. /\ datasets' \in [Datasets -> {NoDataset, Deleted} \cup DatasetRecord]
        /\ datasets'[d] = Deleted
        /\ \A e \in Datasets \ {d} : datasets'[e] = datasets[e]
    BY <1>2 DEF DatasetsInv
  <1>4. ImportInv'
    BY <1>2, <1>3 DEF DatasetsInv, ImportInv, Sets!Stored
  <1>5. ImportIsPrefix'
    BY <1>3 DEF DatasetsInv, ImportIsPrefix, Sets!ImportIsPrefix, Sets!Stored
  <1> QED BY <1>2, <1>3, <1>4, <1>5 DEF DatasetsInv

(* The steps that end a run of handleCreate, or begin one. *)
LEMMA ImportEndsImports ==
    ASSUME DatasetsInv, NEW i \in Creates, UNCHANGED datasets, creates' = [creates EXCEPT ![i] = Sets!Free]
    PROVE  DatasetsInv'
  BY OneImport DEF SameImport

LEMMA SubmitCreateImports ==
    ASSUME DatasetsInv, NEW i \in Creates, Sets!SubmitCreate(i)
    PROVE  DatasetsInv'
  <1>1. PICK c : c = [at |-> "create", project |-> project, dataset |-> NoDataset,
                      file |-> form.file, batch |-> 0, live |-> TRUE]
    OBVIOUS
  <1>2. UNCHANGED datasets /\ creates' = [creates EXCEPT ![i] = c]
    BY <1>1 DEF Sets!SubmitCreate, Sets!storeVars
  <1>3. SameImport(creates[i], c)
    BY <1>1 DEF SameImport, IsCreate
  <1> QED BY <1>2, <1>3, OneImport

LEMMA CreateReturnsImports ==
    ASSUME DatasetsInv, NEW i \in Creates, Sets!CreateReturns(i)
    PROVE  DatasetsInv'
  <1>1. creates[i].at = "created" /\ UNCHANGED datasets
    BY DEF Sets!CreateReturns, Sets!storeVars
  <1>2. CASE creates[i].file > 0
    <2>1. creates[i].batch = 0
      BY <1>1 DEF DatasetsInv, IsCreate, Sets!Free
    <2>2. creates' = [creates EXCEPT ![i].at = "import", ![i].batch = creates[i].batch + 1]
      BY <1>2, <2>1 DEF Sets!CreateReturns
    <2> QED BY <1>1, <2>2, NextBatchImports
  <1>3. CASE ~(creates[i].file > 0)
    BY <1>1, <1>3, ImportEndsImports DEF Sets!CreateReturns
  <1> QED BY <1>2, <1>3

LEMMA BatchReturnsImports ==
    ASSUME DatasetsInv, NEW i \in Creates, Sets!BatchReturns(i)
    PROVE  DatasetsInv'
  <1>1. creates[i].at = "added"
    BY DEF Sets!BatchReturns
  <1>2. CASE creates[i].batch < creates[i].file
    <2>1. UNCHANGED datasets /\ creates' = [creates EXCEPT ![i].at = "import", ![i].batch = @ + 1]
      BY <1>2 DEF Sets!BatchReturns, Sets!storeVars
    <2>2. creates' = [creates EXCEPT ![i].at = "import", ![i].batch = creates[i].batch + 1]
      BY <2>1 DEF DatasetsInv
    <2> QED BY <1>1, <2>1, <2>2, NextBatchImports
  <1>3. CASE ~(creates[i].batch < creates[i].file)
    BY <1>3, ImportEndsImports DEF Sets!BatchReturns, Sets!ImportEnds, Sets!storeVars
  <1> QED BY <1>2, <1>3

LEMMA DatasetsStepImports ==
    ASSUME DatasetsInv, DatasetsStep
    PROVE  DatasetsInv'
  <1> USE DEF Sets!storeVars
  <1>1. CASE UNCHANGED <<datasets, creates>>
    BY <1>1, QuietImports
  <1>2. CASE Sets!ConfirmDelete \/ Sets!CancelDelete \/ Sets!DeleteReturns \/ Sets!DeleteFails \/ Sets!CancelForm
    BY <1>1, <1>2 DEF Sets!ConfirmDelete, Sets!CancelDelete, Sets!DeleteReturns, Sets!DeleteFails, Sets!CancelForm
  <1>3. ASSUME NEW j \in Lists, Sets!ListDatasets(j) \/ Sets!FetchDatasetsEnds(j)
        PROVE  UNCHANGED <<datasets, creates>>
    BY <1>3 DEF Sets!ListDatasets, Sets!FetchDatasetsEnds
  <1>4. ASSUME NEW n \in 0..Batches, Sets!EditForm(n)
        PROVE  UNCHANGED <<datasets, creates>>
    BY <1>4 DEF Sets!EditForm
  <1>5. ASSUME NEW d \in Datasets, Sets!AskDelete(d)
        PROVE  UNCHANGED <<datasets, creates>>
    BY <1>5 DEF Sets!AskDelete
  <1>6. ASSUME NEW i \in Creates, Sets!CreateFails(i)
        PROVE  DatasetsInv'
    BY <1>6, ImportEndsImports DEF Sets!CreateFails
  <1>7. ASSUME NEW i \in Creates, Sets!BatchFails(i)
        PROVE  DatasetsInv'
    BY <1>7, ImportEndsImports DEF Sets!BatchFails, Sets!ImportEnds
  <1> QED
    BY <1>1, <1>2, <1>3, <1>4, <1>5, <1>6, <1>7, SubmitCreateImports, CreateDatasetImports, CreateReturnsImports,
       AddItemsBatchImports, BatchReturnsImports, DeleteDatasetImports
    DEF DatasetsStep

LEMMA DatasetsNext ==
    ASSUME DatasetsInv, [Next]_vars
    PROVE  DatasetsInv'
  <1>1. CASE PromptsStep \/ RulesStep \/ RunsStep \/ UNCHANGED vars
    BY <1>1, QuietImports DEF PromptsStep, RulesStep, RunsStep, RunsOnly, vars, setsVars
  <1> QED BY <1>1, RenderImports, DatasetsStepImports DEF Next

-----------------------------------------------------------------------------
(* The runs and the requests that make them. *)

(* A request that is over, about to be answered, or has done nothing more. *)
QuietPost(q, p) ==
    \/ p = Run!Free
    \/ IsPost(p) /\ p.at \in {"finished", "refused"}
    \/ IsPost(q) /\ IsPost(p) /\ p.at = q.at /\ p.items = q.items /\ p.next = q.next /\ p.failed = q.failed

LEMMA QuietPostAndRun ==
    ASSUME NEW q, NEW p, NEW x, PostAndRun(q, x), QuietPost(q, p)
    PROVE  PostAndRun(p, x)
  <1>1. CASE p = Run!Free \/ (IsPost(p) /\ p.at \in {"finished", "refused"})
    BY <1>1 DEF PostAndRun, RunOfPost, Run!Free
  <1>2. CASE IsPost(p) /\ p.at = q.at /\ p.items = q.items /\ p.next = q.next /\ p.failed = q.failed
    BY <1>2 DEF PostAndRun, RunOfPost
  <1> QED BY <1>1, <1>2 DEF QuietPost

LEMMA QuietPosts ==
    ASSUME ServerInv, UNCHANGED runs,
           posts' = [r \in Runs |-> posts'[r]],
           \A r \in Runs : QuietPost(posts[r], posts'[r])
    PROVE  ServerInv'
  BY QuietPostAndRun DEF ServerInv

LEMMA SamePost ==
    ASSUME NEW q, NEW x, PostAndRun(q, x)
    PROVE  QuietPost(q, q)
  BY DEF PostAndRun, QuietPost

LEMMA SameServer ==
    ASSUME ServerInv, UNCHANGED <<runs, posts>>
    PROVE  ServerInv'
  BY DEF ServerInv

LEMMA RelivedPost ==
    ASSUME NEW q, IsPost(q), NEW g, NEW l
    PROVE  QuietPost(q, [q EXCEPT !.live = l]) /\ QuietPost(q, [q EXCEPT !.gone = g, !.live = l])
  <1>1. PICK p : p = [q EXCEPT !.live = l]
    OBVIOUS
  <1>2. QuietPost(q, p)
    <2>1. p = [at |-> q.at, dataset |-> q.dataset, rule |-> q.rule, items |-> q.items,
               next |-> q.next, failed |-> q.failed, gone |-> q.gone, live |-> l]
      BY <1>1, Zenon DEF IsPost
    <2> QED BY <2>1 DEF QuietPost, IsPost
  <1>3. PICK p2 : p2 = [q EXCEPT !.gone = g, !.live = l]
    OBVIOUS
  <1>4. QuietPost(q, p2)
    <2>1. p2 = [at |-> q.at, dataset |-> q.dataset, rule |-> q.rule, items |-> q.items,
                next |-> q.next, failed |-> q.failed, gone |-> g, live |-> l]
      BY <1>3, Zenon DEF IsPost
    <2> QED BY <2>1 DEF QuietPost, IsPost
  <1> QED BY <1>1, <1>2, <1>3, <1>4

LEMMA LeavePosts ==
    ASSUME ServerInv, UNCHANGED runs, NEW to, Run!Leave(to)
    PROVE  ServerInv'
  <1>1. posts' = [r \in Runs |-> posts'[r]]
    BY DEF Run!Leave
  <1>2. \A r \in Runs : QuietPost(posts[r], posts'[r])
    BY RelivedPost, SamePost DEF Run!Leave, ServerInv, PostAndRun
  <1> QED BY <1>1, <1>2, QuietPosts

(* One run and its request go on; the others are as they were. *)
LEMMA OnePost ==
    ASSUME ServerInv, NEW r \in Runs, NEW q, NEW x,
           posts' = [posts EXCEPT ![r] = q],
           runs' = [runs EXCEPT ![r] = x],
           PostAndRun(q, x)
    PROVE  ServerInv'
  BY DEF ServerInv

LEMMA OnePostOnly ==
    ASSUME ServerInv, NEW r \in Runs, NEW q, posts' = [posts EXCEPT ![r] = q], UNCHANGED runs,
           PostAndRun(q, runs[r])
    PROVE  ServerInv'
  BY DEF ServerInv

(* HandleRun's checks: the items are those of a stored dataset. *)
LEMMA CheckRunServer ==
    ASSUME DatasetsInv, ServerInv, NEW r \in Runs, Run!CheckRun(r)
    PROVE  ServerInv' /\ UNCHANGED runs
  <1>1. PICK q : q = posts[r]
    OBVIOUS
  <1>2. PICK d : d = q.dataset
    OBVIOUS
  <1>3. q.at = "sent" /\ IsPost(q) /\ PostAndRun(q, runs[r]) /\ UNCHANGED runs
    BY <1>1 DEF Run!CheckRun, ServerInv, PostAndRun, Run!Free
  <1>4. CASE posts' = [posts EXCEPT ![r].at = "refused"]
    <2>1. PICK p : p = [q EXCEPT !.at = "refused"]
      OBVIOUS
    <2>2. posts' = [posts EXCEPT ![r] = p]
      BY <1>1, <1>4, <2>1
    <2>3. IsPost(p) /\ p.at = "refused"
      BY <1>3, <2>1 DEF IsPost
    <2> QED BY <1>3, <2>2, <2>3, OnePostOnly, QuietPostAndRun DEF QuietPost
  <1>5. CASE ~(posts' = [posts EXCEPT ![r].at = "refused"])
    <2>1. PICK n : n = Len(datasets[d].items)
      OBVIOUS
    <2>2. d \in Sets!Stored
      BY <1>1, <1>2, <1>5 DEF Run!CheckRun
    <2>3. n \in Nat
      BY <2>1, <2>2, StoredIsRecord
    <2>4. posts' = [posts EXCEPT ![r].at = "checked", ![r].items = n]
      <3>1. d \in Datasets
        BY <2>2 DEF Sets!Stored
      <3> QED BY <1>1, <1>2, <1>5, <2>1, <2>2, <3>1 DEF Run!CheckRun
    <2>5. PICK p : p = [q EXCEPT !.at = "checked", !.items = n]
      OBVIOUS
    <2>6. posts' = [posts EXCEPT ![r] = p]
      BY <1>1, <2>4, <2>5
    <2>7. IsPost(p) /\ p.at = "checked" /\ p.next = q.next /\ p.failed = q.failed
      BY <1>3, <2>3, <2>5 DEF IsPost
    <2>8. PostAndRun(p, runs[r])
      BY <1>3, <2>7 DEF PostAndRun, RunOfPost
    <2> QED BY <1>3, <2>6, <2>8, OnePostOnly
  <1> QED BY <1>4, <1>5

(* A complete run stays as it is. *)
CompleteStays == \A r \in Runs : runs[r].status = "complete" => runs'[r] = runs[r]

LEMMA CreateDatasetRunServer ==
    ASSUME ServerInv, NEW r \in Runs, Run!CreateDatasetRun(r)
    PROVE  ServerInv' /\ CompleteStays
  <1>1. PICK q : q = posts[r]
    OBVIOUS
  <1>2. q.at = "checked" /\ IsPost(q) /\ PostAndRun(q, runs[r])
    BY <1>1 DEF Run!CreateDatasetRun, ServerInv, PostAndRun, Run!Free
  <1>3. runs[r] = Run!NoRun /\ q.next = 1
    BY <1>2 DEF PostAndRun, RunOfPost
  <1>4. CASE posts' = [posts EXCEPT ![r].at = "refused"] /\ UNCHANGED runs
    <2>1. PICK p : p = [q EXCEPT !.at = "refused"]
      OBVIOUS
    <2>2. posts' = [posts EXCEPT ![r] = p]
      BY <1>1, <1>4, <2>1
    <2>3. IsPost(p) /\ p.at = "refused"
      BY <1>2, <2>1 DEF IsPost
    <2>4. PostAndRun(p, runs[r])
      BY <1>2, <2>3, QuietPostAndRun DEF QuietPost
    <2> QED BY <1>4, <2>2, <2>4, OnePostOnly DEF CompleteStays
  <1>5. CASE ~(posts' = [posts EXCEPT ![r].at = "refused"] /\ UNCHANGED runs)
    <2>1. PICK p : p = [q EXCEPT !.at = "scoring"]
      OBVIOUS
    <2>2. PICK x : x = [status |-> "running", dataset |-> q.dataset, rule |-> q.rule, items |-> q.items, scored |-> {}]
      OBVIOUS
    <2>3. posts' = [posts EXCEPT ![r] = p] /\ runs' = [runs EXCEPT ![r] = x]
      BY <1>1, <1>5, <2>1, <2>2 DEF Run!CreateDatasetRun
    <2>4. IsPost(p) /\ p.at = "scoring" /\ p.items = q.items /\ p.next = 1
      BY <1>2, <1>3, <2>1 DEF IsPost
    <2>5. IsRun(x) /\ x.status = "running" /\ x.items = q.items /\ x.scored = {}
      BY <1>2, <2>2 DEF IsRun, IsPost
    <2>6. q.items \in Nat /\ 1..0 = {}
      BY <1>2 DEF IsPost
    <2>7. PostAndRun(p, x)
      BY <2>4, <2>5, <2>6 DEF PostAndRun, RunOfPost
    <2>8. CompleteStays
      <3>1. runs[r].status # "complete"
        BY <1>3 DEF Run!NoRun
      <3>2. \A s \in Runs \ {r} : runs'[s] = runs[s]
        BY <2>3 DEF ServerInv
      <3> QED BY <3>1, <3>2 DEF CompleteStays
    <2> QED BY <2>3, <2>7, <2>8, OnePost
  <1> QED BY <1>4, <1>5

LEMMA ScoreItemServer ==
    ASSUME ServerInv, NEW r \in Runs, Run!ScoreItem(r)
    PROVE  ServerInv' /\ CompleteStays
  <1>1. PICK q : q = posts[r]
    OBVIOUS
  <1>2. PICK x : x = runs[r]
    OBVIOUS
  <1>3. PICK n : n = q.next + 1
    OBVIOUS
  <1>4. q.at = "scoring" /\ q.next <= q.items /\ IsPost(q) /\ PostAndRun(q, x)
    BY <1>1, <1>2 DEF Run!ScoreItem, ServerInv, PostAndRun, Run!Free
  <1>5. /\ x.status = "running"
        /\ x.items = q.items
        /\ q.failed = FALSE => x.scored = 1..(q.next - 1)
    BY <1>4 DEF PostAndRun, RunOfPost
  <1>6. IsRun(x)
    BY <1>4, <1>5 DEF PostAndRun, Run!NoRun
  <1>7. n \in Nat \ {0} /\ n <= q.items + 1 /\ (1..(q.next - 1)) \cup {q.next} = 1..(n - 1)
    BY <1>3, <1>4 DEF IsPost
  <1>8. CASE /\ runs' = [runs EXCEPT ![r].scored = @ \cup {posts[r].next}]
             /\ posts' = [posts EXCEPT ![r].next = @ + 1]
    <2>1. PICK p : p = [q EXCEPT !.next = n]
      OBVIOUS
    <2>2. PICK y : y = [x EXCEPT !.scored = x.scored \cup {q.next}]
      OBVIOUS
    <2>3. posts' = [posts EXCEPT ![r] = p] /\ runs' = [runs EXCEPT ![r] = y]
      BY <1>1, <1>2, <1>3, <1>8, <2>1, <2>2
    <2>4. IsPost(p) /\ p.at = "scoring" /\ p.items = q.items /\ p.next = n /\ p.failed = q.failed
      BY <1>4, <1>7, <2>1 DEF IsPost
    <2>5. IsRun(y) /\ y.status = "running" /\ y.items = q.items /\ y.scored = x.scored \cup {q.next}
      BY <1>5, <1>6, <2>2 DEF IsRun
    <2>6. q.failed = FALSE => y.scored = 1..(n - 1)
      BY <1>5, <1>7, <2>5
    <2>7. PostAndRun(p, y)
      BY <1>7, <2>4, <2>5, <2>6 DEF PostAndRun, RunOfPost
    <2>8. CompleteStays
      BY <1>2, <1>5, <2>3 DEF CompleteStays, ServerInv
    <2> QED BY <2>3, <2>7, <2>8, OnePost
  <1>9. CASE posts' = [posts EXCEPT ![r].next = @ + 1, ![r].failed = TRUE] /\ UNCHANGED runs
    <2>1. PICK p : p = [q EXCEPT !.next = n, !.failed = TRUE]
      OBVIOUS
    <2>2. posts' = [posts EXCEPT ![r] = p]
      BY <1>1, <1>3, <1>9, <2>1
    <2>3. IsPost(p) /\ p.at = "scoring" /\ p.items = q.items /\ p.next = n /\ p.failed = TRUE
      BY <1>4, <1>7, <2>1 DEF IsPost
    <2>4. PostAndRun(p, x)
      BY <1>5, <1>6, <1>7, <2>3 DEF PostAndRun, RunOfPost
    <2> QED BY <1>2, <1>9, <2>2, <2>4, OnePostOnly DEF CompleteStays
  <1> QED BY <1>8, <1>9 DEF Run!ScoreItem

(* The status that FinishRun writes says complete only if every item was   *)
(* scored.                                                                 *)
LEMMA FinishRunServer ==
    ASSUME ServerInv, NEW r \in Runs, Run!FinishRun(r)
    PROVE  ServerInv' /\ CompleteStays
  <1>1. PICK q : q = posts[r]
    OBVIOUS
  <1>2. PICK x : x = runs[r]
    OBVIOUS
  <1>3. q.at = "scoring" /\ q.next > q.items /\ IsPost(q) /\ PostAndRun(q, x)
    BY <1>1, <1>2 DEF Run!FinishRun, ServerInv, PostAndRun, Run!Free
  <1>4. /\ x.status = "running"
        /\ x.items = q.items
        /\ q.next <= q.items + 1
        /\ q.failed = FALSE => x.scored = 1..(q.next - 1)
    BY <1>3 DEF PostAndRun, RunOfPost
  <1>5. IsRun(x)
    BY <1>3, <1>4 DEF PostAndRun, Run!NoRun
  <1>6. PICK p : p = [q EXCEPT !.at = "finished"]
    OBVIOUS
  <1>7. posts' = [posts EXCEPT ![r] = p]
    BY <1>1, <1>6 DEF Run!FinishRun
  <1>8. IsPost(p) /\ p.at = "finished"
    BY <1>3, <1>6 DEF IsPost
  <1>9. CASE UNCHANGED runs
    BY <1>2, <1>3, <1>7, <1>8, <1>9, OnePostOnly, QuietPostAndRun DEF QuietPost, CompleteStays
  <1>10. CASE runs' = [runs EXCEPT ![r].status = IF posts[r].failed THEN "error" ELSE "complete"]
    <2>1. PICK t : t = IF q.failed THEN "error" ELSE "complete"
      OBVIOUS
    <2>2. PICK y : y = [x EXCEPT !.status = t]
      OBVIOUS
    <2>3. runs' = [runs EXCEPT ![r] = y]
      BY <1>1, <1>2, <1>10, <2>1, <2>2
    <2>4. t \in {"error", "complete"} /\ (t = "complete" => q.failed = FALSE)
      BY <1>3, <2>1 DEF IsPost
    <2>5. IsRun(y) /\ y.status = t /\ y.items = x.items /\ y.scored = x.scored
      BY <1>5, <2>2, <2>4 DEF IsRun
    <2>6. q.next - 1 = q.items
      BY <1>3, <1>4 DEF IsPost
    <2>7. y.status = "complete" => y.scored = 1..y.items
      BY <1>4, <2>4, <2>5, <2>6
    <2>8. PostAndRun(p, y)
      BY <1>8, <2>5, <2>7 DEF PostAndRun, RunOfPost
    <2>9. CompleteStays
      BY <1>2, <1>4, <2>3 DEF CompleteStays, ServerInv
    <2> QED BY <1>7, <2>3, <2>8, <2>9, OnePost
  <1> QED BY <1>9, <1>10 DEF Run!FinishRun

(* handleRun. *)
LEMMA StartRunServer ==
    ASSUME ServerInv, NEW r \in Runs, Run!StartRun(r)
    PROVE  ServerInv' /\ UNCHANGED runs
  <1>1. PICK q : q = [at |-> "sent", dataset |-> dataset, rule |-> modal.rule, items |-> 0,
                      next |-> 1, failed |-> FALSE, gone |-> FALSE, live |-> "modal"]
    OBVIOUS
  <1>2. runs[r] = Run!NoRun /\ posts' = [posts EXCEPT ![r] = q] /\ UNCHANGED runs
    BY <1>1 DEF Run!StartRun
  <1>3. IsPost(q) /\ q.at = "sent" /\ q.next = 1 /\ q.failed = FALSE
    BY <1>1 DEF IsPost
  <1>4. PostAndRun(q, runs[r])
    BY <1>2, <1>3 DEF PostAndRun, RunOfPost, Run!NoRun
  <1> QED BY <1>2, <1>4, OnePostOnly

LEMMA PostReturnsServer ==
    ASSUME ServerInv, NEW r \in Runs, Run!PostReturns(r)
    PROVE  ServerInv' /\ UNCHANGED runs
  <1>1. UNCHANGED runs
    BY DEF Run!PostReturns
  <1>2. CASE posts[r].at = "finished" /\ posts[r].live # "none"
    <2>1. posts' = [s \in Runs |-> IF s = r THEN Run!Free
                                   ELSE IF posts[s] # Run!Free /\ posts[s].live = "modal"
                                        THEN [posts[s] EXCEPT !.live = "tab"] ELSE posts[s]]
      BY <1>2 DEF Run!PostReturns
    <2>2. \A s \in Runs : QuietPost(posts[s], posts'[s])
      <3>1. QuietPost(posts[r], posts'[r])
        BY <2>1 DEF QuietPost
      <3>2. ASSUME NEW s \in Runs \ {r} PROVE QuietPost(posts[s], posts'[s])
        BY <2>1, RelivedPost, SamePost DEF ServerInv, PostAndRun
      <3> QED BY <3>1, <3>2
    <2>3. posts' = [s \in Runs |-> posts'[s]]
      BY <2>1
    <2> QED BY <1>1, <2>2, <2>3, QuietPosts
  <1>3. CASE ~(posts[r].at = "finished" /\ posts[r].live # "none")
    <2>1. posts' = [posts EXCEPT ![r] = Run!Free]
      BY <1>3 DEF Run!PostReturns
    <2>2. PostAndRun(Run!Free, runs[r])
      BY QuietPostAndRun DEF ServerInv, QuietPost
    <2> QED BY <1>1, <2>1, <2>2, OnePostOnly
  <1> QED BY <1>2, <1>3

LEMMA DisconnectServer ==
    ASSUME ServerInv, NEW r \in Runs, Run!Disconnect(r)
    PROVE  ServerInv' /\ UNCHANGED runs
  <1>1. PICK q : q = posts[r]
    OBVIOUS
  <1>2. PICK p : p = [q EXCEPT !.gone = TRUE, !.live = "none"]
    OBVIOUS
  <1>3. posts' = [posts EXCEPT ![r] = p] /\ UNCHANGED runs
    BY <1>1, <1>2 DEF Run!Disconnect
  <1>4. IsPost(q) /\ PostAndRun(q, runs[r])
    BY <1>1 DEF Run!Disconnect, ServerInv, PostAndRun
  <1>5. PostAndRun(p, runs[r])
    <2>1. QuietPost(q, p)
      BY <1>2, <1>4, RelivedPost
    <2> QED BY <1>4, <2>1, QuietPostAndRun
  <1> QED BY <1>3, <1>5, OnePostOnly

(* The tab and the modal go away over their requests. *)
LEMMA LeaveTabServer ==
    ASSUME ServerInv, UNCHANGED runs, Run!LeaveTab \/ Run!Leave("tab") \/ UNCHANGED posts
    PROVE  ServerInv'
  BY LeavePosts, SameServer DEF Run!LeaveTab

LEMMA RenderServer ==
    ASSUME ServerInv, UNCHANGED runs, Run!Render
    PROVE  ServerInv'
  <1>1. Run!LeaveTab \/ UNCHANGED posts
    BY DEF Run!Render
  <1> QED BY <1>1, LeaveTabServer

LEMMA RunsStepServer ==
    ASSUME DatasetsInv, ServerInv, RunsStep
    PROVE  ServerInv' /\ CompleteStays
  <1> USE DEF Run!serverState
  <1>1. ASSUME UNCHANGED runs PROVE CompleteStays
    BY <1>1 DEF CompleteStays
  <1>2. CASE UNCHANGED <<runs, posts>>
    BY <1>1, <1>2, SameServer
  <1>3. CASE Run!LoadEnds
    <2>1. UNCHANGED runs /\ (Run!LeaveTab \/ UNCHANGED posts)
      BY <1>3 DEF Run!LoadEnds
    <2> QED BY <1>1, <2>1, LeaveTabServer
  <1>4. ASSUME NEW t, Run!SelectTab(t) PROVE ServerInv' /\ CompleteStays
    <2>1. UNCHANGED runs /\ (Run!LeaveTab \/ UNCHANGED posts)
      BY <1>4 DEF Run!SelectTab
    <2> QED BY <1>1, <2>1, LeaveTabServer
  <1>5. ASSUME NEW j \in Fetches, Run!FetchRunsFails(j) PROVE ServerInv' /\ CompleteStays
    <2>1. UNCHANGED runs /\ Run!Leave("tab")
      BY <1>5 DEF Run!FetchRunsFails
    <2> QED BY <1>1, <2>1, LeaveTabServer
  <1>6. CASE Run!CloseModal
    <2>1. UNCHANGED runs /\ Run!Leave("tab")
      BY <1>6 DEF Run!CloseModal
    <2> QED BY <1>1, <2>1, LeaveTabServer
  <1>7. ASSUME NEW r \in Runs, Run!HandleRun(r) PROVE ServerInv' /\ CompleteStays
    BY <1>1, <1>7, CheckRunServer, CreateDatasetRunServer, ScoreItemServer, FinishRunServer DEF Run!HandleRun
  <1>8. ASSUME NEW r \in Runs, Run!StartRun(r) \/ Run!PostReturns(r) \/ Run!Disconnect(r)
        PROVE  ServerInv' /\ CompleteStays
    BY <1>1, <1>8, StartRunServer, PostReturnsServer, DisconnectServer
  <1>9. ASSUME NEW j \in Fetches, Run!HandleListRuns(j) \/ Run!FetchRunsReturns(j)
        PROVE  UNCHANGED <<runs, posts>>
    BY <1>9 DEF Run!HandleListRuns, Run!FetchRunsReturns
  <1>10. ASSUME NEW k \in Polls,
                Run!PollTick(k) \/ Run!HandleGetRunStatus(k) \/ Run!PollReturns(k) \/ Run!PollFails(k)
         PROVE  UNCHANGED <<runs, posts>>
    BY <1>10 DEF Run!PollTick, Run!HandleGetRunStatus, Run!PollReturns, Run!PollFails
  <1>11. CASE Run!OpenModal \/ Run!ModalRules \/ \E u \in Rules : Run!ChooseRule(u)
    BY <1>2, <1>11 DEF Run!OpenModal, Run!ModalRules, Run!ChooseRule
  <1> QED
    BY <1>2, <1>3, <1>4, <1>5, <1>6, <1>7, <1>8, <1>9, <1>10, <1>11 DEF RunsStep

LEMMA ServerNext ==
    ASSUME DatasetsInv, ServerInv, [Next]_vars
    PROVE  ServerInv' /\ CompleteStays
  <1>1. CASE UNCHANGED <<runs, posts>>
    BY <1>1, SameServer DEF CompleteStays
  <1>2. CASE DatasetsStep \/ PromptsStep \/ RulesStep \/ UNCHANGED vars
    BY <1>1, <1>2 DEF DatasetsStep, PromptsStep, RulesStep, vars, runVars
  <1>3. ASSUME UNCHANGED runs, Run!Render PROVE ServerInv' /\ CompleteStays
    BY <1>3, RenderServer DEF CompleteStays
  <1> QED BY <1>2, <1>3, RenderStores, RunsStepServer DEF Next

-----------------------------------------------------------------------------
(* The Runs tab. *)

(* What comes over the network is unchanged, gone, or not yet answered. *)
QuietFetches ==
    /\ fetches' = [j \in Fetches |-> fetches'[j]]
    /\ \A j \in Fetches : fetches'[j] = fetches[j] \/ fetches'[j].at \in {"free", "sent"}

QuietRows == \A r \in Runs : shown'[r] = shown[r] \/ shown'[r] = Run!Unlisted

(* A row stays true, because a complete run stays as it is. *)
LEMMA QuietTab ==
    ASSUME TabInv, CompleteStays, QuietFetches, QuietRows
    PROVE  TabInv'
  <1>1. \A row : \A r \in Runs : /\ StatusTrue(row, runs[r]) => StatusTrue(row, runs'[r])
                                 /\ RowTrue(row, runs[r]) => RowTrue(row, runs'[r])
    BY DEF CompleteStays, StatusTrue, RowTrue
  <1>2. \A r \in Runs : RowTrue(Run!Unlisted, runs'[r])
    BY DEF RowTrue, Run!Unlisted
  <1>3. \A r \in Runs : RowTrue(shown'[r], runs'[r])
    BY <1>1, <1>2 DEF QuietRows, TabInv
  <1>4. ASSUME NEW j \in Fetches, NEW r \in Runs
        PROVE  /\ fetches'[j].at = "read" => StatusTrue(fetches'[j].rows[r], runs'[r])
               /\ fetches'[j].at = "ok" => RowTrue(fetches'[j].rows[r], runs'[r])
    BY <1>1 DEF QuietFetches, TabInv
  <1> QED BY <1>3, <1>4 DEF TabInv, QuietFetches

LEMMA FetchRunsQuiet ==
    ASSUME TabInv, NEW k, Run!FetchRuns(k)
    PROVE  QuietFetches
  BY DEF TabInv, Run!FetchRuns, QuietFetches

LEMMA SameFetches ==
    ASSUME TabInv, UNCHANGED fetches
    PROVE  QuietFetches
  BY DEF TabInv, QuietFetches

LEMMA FreeFetch ==
    ASSUME TabInv, NEW j \in Fetches, fetches' = [fetches EXCEPT ![j] = Run!Free]
    PROVE  QuietFetches
  BY DEF TabInv, QuietFetches, Run!Free

LEMMA LeaveTabQuiet ==
    ASSUME Run!LeaveTab
    PROVE  QuietFetches /\ QuietRows
  BY DEF Run!LeaveTab, QuietFetches, QuietRows, Run!Free

LEMMA RenderTab ==
    ASSUME TabInv, CompleteStays, Run!Render
    PROVE  TabInv'
  <1>1. Run!LeaveTab \/ UNCHANGED <<fetches, shown>>
    BY DEF Run!Render, Run!tabState
  <1> QED BY <1>1, LeaveTabQuiet, SameFetches, QuietTab DEF QuietRows

(* The number of items of a run that has scored them all. *)
LEMMA CountsItems ==
    ASSUME NEW n \in Nat
    PROVE  Run!Cardinality(1..n) = n
  <1>1. Run!Cardinality(1..n) = Cardinality(1..n)
    BY DEF Run!Cardinality, Cardinality
  <1> QED BY <1>1, FS_Interval

(* HandleListRuns: a status is read before the items are counted, and the  *)
(* items of a run that was complete then are all there, if they are read.  *)
LEMMA HandleListRunsTab ==
    ASSUME TabInv, ServerInv, NEW j \in Fetches, Run!HandleListRuns(j)
    PROVE  TabInv'
  <1>1. UNCHANGED <<runs, shown>>
    BY DEF Run!HandleListRuns, Run!serverState
  <1>2. PICK f : f = fetches[j]
    OBVIOUS
  <1>3. ASSUME NEW g, fetches' = [fetches EXCEPT ![j] = g],
               \A r \in Runs : /\ g.at = "read" => StatusTrue(g.rows[r], runs[r])
                               /\ g.at = "ok" => RowTrue(g.rows[r], runs[r])
        PROVE  TabInv'
    BY <1>1, <1>3 DEF TabInv
  <1>4. CASE f.at = "sent"
    <2>1. PICK rows : rows = [r \in Runs |-> IF r \in Run!Listed
                                            THEN [status |-> runs[r].status, count |-> 0, whole |-> FALSE]
                                            ELSE Run!Unlisted]
      OBVIOUS
    <2>2. PICK g : g = [at |-> "read", poll |-> f.poll, rows |-> rows]
      OBVIOUS
    <2>3. fetches' = [fetches EXCEPT ![j] = g]
      BY <1>2, <1>4, <2>1, <2>2 DEF Run!HandleListRuns
    <2>4. \A r \in Runs : StatusTrue(rows[r], runs[r])
      BY <2>1 DEF StatusTrue, Run!Unlisted
    <2>5. g.at = "read" /\ g.rows = rows
      BY <2>2
    <2>6. \A r \in Runs : /\ g.at = "read" => StatusTrue(g.rows[r], runs[r])
                          /\ g.at = "ok" => RowTrue(g.rows[r], runs[r])
      BY <2>4, <2>5
    <2> QED BY <1>3, <2>3, <2>6
  <1>5. CASE f.at = "read"
    <2>0. PICK got : fetches' = [fetches EXCEPT ![j] = [at |-> "ok", poll |-> @.poll, rows |->
                         [r \in Runs |-> IF @.rows[r] = Run!Unlisted THEN Run!Unlisted
                                         ELSE [status |-> @.rows[r].status, count |-> Run!Cardinality(got[r]),
                                               whole |-> got[r] = runs[r].scored]]]]
      BY <1>2, <1>5 DEF Run!HandleListRuns
    <2>1. PICK rows : rows = [r \in Runs |-> IF f.rows[r] = Run!Unlisted THEN Run!Unlisted
                                            ELSE [status |-> f.rows[r].status, count |-> Run!Cardinality(got[r]),
                                                  whole |-> got[r] = runs[r].scored]]
      OBVIOUS
    <2>2. PICK g : g = [at |-> "ok", poll |-> f.poll, rows |-> rows]
      OBVIOUS
    <2>3. fetches' = [fetches EXCEPT ![j] = g]
      BY <1>2, <2>0, <2>1, <2>2
    <2>4. ASSUME NEW r \in Runs, rows[r].status = "complete"
          PROVE  runs[r].status = "complete" /\ (rows[r].whole => rows[r].count = runs[r].items)
      <3>1. rows[r] = [status |-> f.rows[r].status, count |-> Run!Cardinality(got[r]),
                       whole |-> got[r] = runs[r].scored]
        BY <2>1, <2>4 DEF Run!Unlisted
      <3>2. runs[r].status = "complete"
        BY <1>2, <1>5, <2>4, <3>1 DEF TabInv, StatusTrue
      <3>3. runs[r].scored = 1..runs[r].items /\ runs[r].items \in Nat
        BY <3>2 DEF ServerInv, PostAndRun, IsRun, Run!NoRun
      <3>4. rows[r].count = Run!Cardinality(got[r])
        BY <3>1
      <3>5. CASE got[r] = runs[r].scored
        BY <3>2, <3>3, <3>4, <3>5, CountsItems
      <3>6. CASE got[r] # runs[r].scored
        <4>1. PICK b : b = (got[r] = runs[r].scored)
          OBVIOUS
        <4>2. rows[r] = [status |-> f.rows[r].status, count |-> Run!Cardinality(got[r]), whole |-> b]
          BY <3>1, <4>1
        <4>3. rows[r].whole = b
          BY <4>2
        <4> QED BY <3>2, <3>6, <4>1, <4>3
      <3> QED BY <3>5, <3>6
    <2>5. \A r \in Runs : RowTrue(rows[r], runs[r])
      BY <2>4 DEF RowTrue
    <2>6. g.at = "ok" /\ g.rows = rows
      BY <2>2
    <2>7. \A r \in Runs : /\ g.at = "read" => StatusTrue(g.rows[r], runs[r])
                          /\ g.at = "ok" => RowTrue(g.rows[r], runs[r])
      BY <2>5, <2>6
    <2> QED BY <1>3, <2>3, <2>7
  <1> QED BY <1>2, <1>4, <1>5 DEF Run!HandleListRuns

LEMMA FetchRunsReturnsTab ==
    ASSUME TabInv, CompleteStays, NEW j \in Fetches, Run!FetchRunsReturns(j)
    PROVE  TabInv'
  <1>1. /\ fetches[j].at = "ok"
        /\ shown' = fetches[j].rows
        /\ fetches' = [fetches EXCEPT ![j] = Run!Free]
        /\ UNCHANGED runs
    BY DEF Run!FetchRunsReturns, Run!serverState
  <1>2. \A r \in Runs : RowTrue(shown'[r], runs'[r])
    BY <1>1 DEF TabInv
  <1> QED BY <1>1, <1>2 DEF TabInv, Run!Free

LEMMA RunsStepTab ==
    ASSUME TabInv, ServerInv, CompleteStays, RunsStep
    PROVE  TabInv'
  <1>1. ASSUME UNCHANGED shown, QuietFetches PROVE TabInv'
    BY <1>1, QuietTab DEF QuietRows
  <1>2. ASSUME Run!LeaveTab PROVE TabInv'
    BY <1>2, LeaveTabQuiet, QuietTab
  <1>3. CASE UNCHANGED <<shown, fetches>>
    BY <1>1, <1>3, SameFetches
  <1>4. CASE Run!LoadEnds
    BY <1>1, <1>2, <1>3, <1>4, FetchRunsQuiet DEF Run!LoadEnds, Run!tabState
  <1>5. ASSUME NEW t, Run!SelectTab(t) PROVE TabInv'
    BY <1>1, <1>2, <1>5, FetchRunsQuiet DEF Run!SelectTab
  <1>6. ASSUME NEW j \in Fetches, Run!FetchRunsFails(j) PROVE TabInv'
    BY <1>1, <1>6, FreeFetch DEF Run!FetchRunsFails
  <1>7. ASSUME NEW r \in Runs, Run!HandleRun(r) PROVE UNCHANGED <<shown, fetches>>
    BY <1>7 DEF Run!HandleRun, Run!CheckRun, Run!CreateDatasetRun, Run!ScoreItem, Run!FinishRun, Run!tabState
  <1>8. ASSUME NEW r \in Runs, Run!PostReturns(r) PROVE TabInv'
    BY <1>1, <1>8, FetchRunsQuiet, SameFetches DEF Run!PostReturns
  <1>9. ASSUME NEW r \in Runs, Run!StartRun(r) \/ Run!Disconnect(r) PROVE UNCHANGED <<shown, fetches>>
    BY <1>9 DEF Run!StartRun, Run!Disconnect
  <1>10. ASSUME NEW k \in Polls, Run!PollReturns(k) PROVE TabInv'
    BY <1>1, <1>10, FetchRunsQuiet, SameFetches DEF Run!PollReturns
  <1>11. ASSUME NEW k \in Polls, Run!PollTick(k) \/ Run!HandleGetRunStatus(k) \/ Run!PollFails(k)
         PROVE  UNCHANGED <<shown, fetches>>
    BY <1>11 DEF Run!PollTick, Run!HandleGetRunStatus, Run!PollFails
  <1>12. CASE Run!OpenModal \/ Run!ModalRules \/ Run!CloseModal \/ \E u \in Rules : Run!ChooseRule(u)
    BY <1>3, <1>12 DEF Run!OpenModal, Run!ModalRules, Run!CloseModal, Run!ChooseRule
  <1> QED
    BY <1>3, <1>4, <1>5, <1>6, <1>7, <1>8, <1>9, <1>10, <1>11, <1>12, HandleListRunsTab, FetchRunsReturnsTab
    DEF RunsStep

LEMMA TabNext ==
    ASSUME TabInv, ServerInv, CompleteStays, [Next]_vars
    PROVE  TabInv'
  <1>1. CASE UNCHANGED <<shown, fetches>>
    BY <1>1, SameFetches, QuietTab DEF QuietRows
  <1>2. CASE DatasetsStep \/ PromptsStep \/ RulesStep \/ UNCHANGED vars
    BY <1>1, <1>2 DEF DatasetsStep, PromptsStep, RulesStep, vars, runVars
  <1> QED BY <1>2, RenderStores, RenderTab, RunsStepTab DEF Next

-----------------------------------------------------------------------------
LEMMA InitIInv == Init => IInv
  <1> SUFFICES ASSUME Init PROVE IInv
    OBVIOUS
  <1> USE DatasetsAssumption
  <1>1. RegistryInv
    BY DEF Init, Prompts!Init, Eval!Init, RegistryInv, PromptsResolve, Eval!PromptsResolve, Eval!Stored
  <1>2. DatasetsInv
    <2>1. creates = [i \in Creates |-> Sets!Free]
      BY DEF Init, Sets!Init
    <2>2. PICK one : one = [project |-> Sets!First, items |-> <<1>>]
      OBVIOUS
    <2>3. datasets \in [Datasets -> {NoDataset, one}]
      BY <2>2 DEF Init, Sets!Init
    <2>4. one \in DatasetRecord /\ one.items = <<1>>
      BY <2>2 DEF DatasetRecord
    <2>5. \A k \in DOMAIN one.items : one.items[k] = k
      BY <2>4
    <2>6. ImportIsPrefix
      BY <2>3, <2>5 DEF ImportIsPrefix, Sets!ImportIsPrefix, Sets!Stored
    <2>7. ImportInv
      BY <2>1 DEF ImportInv, HasDataset, Sets!Free
    <2> QED BY <2>1, <2>3, <2>4, <2>6, <2>7 DEF DatasetsInv
  <1>3. ServerInv
    BY DEF Init, Run!Init, ServerInv, PostAndRun, RunOfPost, Run!Free, Run!NoRun
  <1>4. TabInv
    BY DEF Init, Run!Init, TabInv, StatusTrue, RowTrue, Run!Free, Run!Unlisted
  <1> QED BY <1>1, <1>2, <1>3, <1>4 DEF IInv

LEMMA NextIInv == IInv /\ [Next]_vars => IInv'
  BY RegistryNext, DatasetsNext, ServerNext, TabNext DEF IInv

(* What the store and the pages have under way fits together in every      *)
(* state of every behaviour.                                               *)
THEOREM Invariance == Spec => []IInv
  BY InitIInv, NextIInv, PTL DEF Spec

(* Whatever fails, overlaps or is left on the way, an imported dataset     *)
(* holds the first batches of its file, in order, none of them twice       *)
(* (importItems of Datasets.tsx over HandleAddItemsBatch).                 *)
THEOREM ImportIsPrefixTheorem == Spec => []ImportIsPrefix
  <1>1. IInv => ImportIsPrefix
    BY DEF IInv, DatasetsInv
  <1> QED BY <1>1, Invariance, PTL

(* A stored rule names no prompt version, and the label none, that the     *)
(* registry does not have (HandleCreate of the eval rules and              *)
(* HandleSetLabel look both up).                                           *)
THEOREM PromptsResolveTheorem == Spec => []PromptsResolve
  <1>1. IInv => PromptsResolve
    BY DEF IInv, RegistryInv
  <1> QED BY <1>1, Invariance, PTL

(* A run that the Runs tab lists as complete has all its items scored, and *)
(* shows as many unless the reading of its items broke off, which          *)
(* HandleListRuns ignores (it reads statuses before it counts, and         *)
(* HandleRun writes complete after the last item).                         *)
THEOREM ShownCompleteIsFullTheorem == Spec => []ShownCompleteIsFull
  <1>1. IInv => ShownCompleteIsFull
    BY DEF IInv, TabInv, RowTrue, ServerInv, PostAndRun, ShownCompleteIsFull, Run!ShownCompleteIsFull
  <1> QED BY <1>1, Invariance, PTL

(* A run that is stored as complete is never changed again: no late score, *)
(* failure or second writer reaches it (HandleRun is its only writer, and  *)
(* its status is the last thing that it writes).                           *)
THEOREM CompleteStaysTheorem == Spec => [][CompleteStays]_vars
  <1>1. IInv /\ [Next]_vars => [CompleteStays]_vars
    BY ServerNext DEF IInv
  <1> QED BY <1>1, Invariance, PTL DEF Spec
=============================================================================
