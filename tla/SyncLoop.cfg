CONSTANTS
    Agents = {"soup", "dbus"}
    RetryDuration = 3
    MaxCalls = 8
    MaxSignals = 2
    MaxFreeze = 2
SPECIFICATION FairSpec
CHECK_DEADLOCK FALSE
INVARIANTS
    AbortOnce
    GotDataFresh
    RetryPace
    ErrorReported
PROPERTIES
    InterruptEnds
