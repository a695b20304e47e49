\* Two calls that reconnect, a delete and an unlocked lookup; one restart
CONSTANTS
    Retrying = {q1, q2}
    Single = {d1}
    Unlocked = {u1}
    NoCaller = NoCaller
    MaxRestarts = 1
    MaxFaults = 1
SPECIFICATION FairSpec
INVARIANTS
    LockedCallsUseOpenHandle
    NoLeakedHandle
PROPERTIES
    ReconnectNeverOlder
    SelfHeals
    CallsReturn
