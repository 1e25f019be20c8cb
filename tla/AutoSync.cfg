CONSTANTS
    NumConfigs = 2
    Transports = {"http"}
    Settings <- HttpSettings
    MaxWatches = 2
    MaxChanges = 2
    MaxSessions = 1
SPECIFICATION FairSpec
INVARIANTS
    TypeOK
    WakeupPending
PROPERTIES
    SyncsRepeat
