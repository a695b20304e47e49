\* One replica, two overlapping lookups, two racing writers
CONSTANTS
    Replicas = {r1}
    NoReplica = NoReplica
    Callers = {c1, c2}
    Asks = {0, 2}
    Writers = {w1, w2}
    Seed = Seed
    NoWriter = NoWriter
    ServerTTL = 1
    SdkTTL = 1
    MaxFlight = 1
    MaxVersion = 2
    MaxWrites = 2
    MaxTime = 3
SPECIFICATION Spec
SYMMETRY Symmetry
INVARIANTS
    ReassignmentReachesAgents
    VersionsImmutable
CHECK_DEADLOCK FALSE
