CONSTANTS
    Projects = {1, 2}
    Datasets = {d1}
    NoDataset = NoDataset
    Deleted = Deleted
    Batches = 2
    Creates = {1}
    Lists = {1}
    Rules = {u1}
    NoRule = NoRule
    RuleDeleted = RuleDeleted
    RuleLists = {1}
    MaxVersion = 2
    Registries = {{2}}
    PromptLists = {1}
    LabelChanges = {1}
    Runs = {r1}
    Fetches = {1, 2}
    Polls = {1}
    NoPoll = NoPoll
    MaxLoads = 1
    MaxFaults = 1
    Tours <- MCTours
    MaxActions = 2
SPECIFICATION Spec
INVARIANTS
    CreatedInActiveProject
CHECK_DEADLOCK FALSE
