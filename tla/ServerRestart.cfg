CONSTANTS
    Clients = {c1}
    Sessions = {s1, s2}
    Peers = {p1}
    Operations = {"sync"}
    None = None
    MaxAttach = 1
    Stimuli = {"StartSession", "FileModified"}
    AutoSyncEnabled = TRUE
SPECIFICATION Spec
SYMMETRY Symmetry
CHECK_DEADLOCK FALSE
INVARIANTS
    RestartAfterModification
