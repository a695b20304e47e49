\* One replica whose windows mix references to an empty batch, a legacy
\* payload and a malformed entry, and one failure of anything
CONSTANTS
    Batches = {b1}
    Payloads = {p1, p2}
    Malformed = {p2}
    EmptyBatches = {b1}
    Writers = {w1}
    Reconcilers = {w1}
    NoEntry = NoEntry
    MaxWindow = 2
    MaxQueue = 1
    MaxFaults = 1
SPECIFICATION FairSpec
PROPERTIES
    AckedOnlyWhenSettled
    BufferDrains
    ImplementsLiveDurableLog
