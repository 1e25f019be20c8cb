CONSTANTS
    MaxCalls = 3
    Faults = {}
SPECIFICATION Spec
CHECK_DEADLOCK FALSE
INVARIANTS
    ChildFailureSeen
