CONSTANTS
    MaxCalls = 4
    Faults = {"abort", "child dies", "parent dies", "StartSync"}
SPECIFICATION FairSpec
CHECK_DEADLOCK FALSE
INVARIANTS
    NotOverwritten
    ReportKnown
    CauseReported
PROPERTIES
    NobodyLeftBehind
    AbortEnds
