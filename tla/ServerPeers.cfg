CONSTANTS
    Clients = {c1}
    Sessions = {s1, s2, s3}
    Peers = {p1}
    Operations = {"sync"}
    None = None
    MaxAttach = 1
    Stimuli = {"StartSession", "ConnectionProcess"}
    AutoSyncEnabled = TRUE
SPECIFICATION Spec
SYMMETRY Symmetry
CHECK_DEADLOCK FALSE
INVARIANTS
    TypeOK
    OnlyIdleQueued
    OneWaitingPerPeer
    NoAutoTermWhileBusy
PROPERTIES
    ImplementsTurns
