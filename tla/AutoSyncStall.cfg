CONSTANTS
    NumConfigs = 2
    Transports = {"http"}
    Settings <- HttpSettings
    MaxWatches = 2
    MaxChanges = 3
    MaxSessions = 2
SPECIFICATION Spec
INVARIANTS
    NeverStalled
