\* Two replicas that both sweep race on one batch
CONSTANTS
    Batches = {b1}
    Payloads = {}
    Malformed = {}
    EmptyBatches = {}
    Writers = {w1, w2}
    Reconcilers = {w1, w2}
    NoEntry = NoEntry
    MaxWindow = 2
    MaxQueue = 2
    MaxFaults = 2
SPECIFICATION Spec
SYMMETRY Symmetry
INVARIANTS
    TypeOK
    Durable
    LedgerSound
    NotFoundIsCommitted
    JobsFollowRows
PROPERTIES
    UncommittedNeverDeleted
    AckedOnlyWhenSettled
    ImplementsDurableLog
