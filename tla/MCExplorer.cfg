CONSTANTS
    Traces = {1, 2}
    Owner <- MCOwner
    NoTrace = NoTrace
    Polls = {1}
    Ranges = {day, week}
    Widgets = 3
    Concurrency = 2
    MaxRefresh = 2
SPECIFICATION Spec
INVARIANTS
    PanelShowsItsTrace
    DashboardShowsSelection
PROPERTIES
    LiveEnds
CHECK_DEADLOCK FALSE
