CONSTANTS
    Projects = {1, 2}
    NoProject = NoProject
    Lists = {1}
    Keys = {k1}
    NoKey = NoKey
    Checks = {1}
    TTL = 1
    MaxClock = 1
    Fetches = {1}
    Runs = {1}
    MaxActions = 3
SPECIFICATION Spec
INVARIANTS
    RevokedKeyRefused
    ActiveProjectKept

    
CHECK_DEADLOCK FALSE
