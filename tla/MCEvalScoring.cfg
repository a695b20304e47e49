\* One replica; a job that pins its version, one that follows the label and
\* one whose prompt does not resolve
CONSTANTS
    Jobs = {j1, j2, j3}
    Pinned = {j1}
    Unresolvable = {j3}
    EvalWorkers = {w1}
    NoJob = NoJob
    Retries = 1
    Values = {1}
    MaxVersion = 2
    MaxStops = 1
    MaxFaults = 2
SPECIFICATION FairSpec
INVARIANTS
    CallsBounded
    PinnedVersionUsed
    ScoredOnce
PROPERTIES
    JobsAreScored
    WorkersComeBack
