CONSTANTS
    Traces = {1, 2, 3, 4}
    Owner <- MCOwner
    StartTime <- MCStartTime
    Filters = {NoFilter, byName}
    NoFilter = NoFilter
    Matches <- MCMatches
    PageSizes = {1, 2}
    DefaultPageSize = 1
    NoCursor = NoCursor
    Seed = {1, 3}
    MaxSeq = 3
SPECIFICATION FairSpec
INVARIANTS
    EmptyMeansAnswered
    PagesContiguous
PROPERTIES
    FreshRows
    LoadingEnds
CHECK_DEADLOCK FALSE
