CONSTANTS
    Agents = {"dbus"}
    RetryDuration = 1
    MaxCalls = 4
    MaxSignals = 1
    MaxFreeze = 0
SPECIFICATION FairSpec
CHECK_DEADLOCK FALSE
PROPERTIES
    SuspendEnds
