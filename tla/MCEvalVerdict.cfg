\* One job, one replica and nothing that fails
CONSTANTS
    Jobs = {j1}
    Pinned = {}
    Unresolvable = {}
    EvalWorkers = {w1}
    NoJob = NoJob
    Retries = 1
    Values = {1}
    MaxVersion = 1
    MaxStops = 0
    MaxFaults = 0
SPECIFICATION FairSpec
INVARIANTS
    ScoreIsVerdict
