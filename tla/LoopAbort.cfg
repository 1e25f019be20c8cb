CONSTANTS
    Agents = {"soup"}
    RetryDuration = 1
    MaxCalls = 6
    MaxSignals = 2
    MaxFreeze = 0
SPECIFICATION Spec
CHECK_DEADLOCK FALSE
INVARIANTS
    RestoredOnce
