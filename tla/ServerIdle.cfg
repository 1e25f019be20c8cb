CONSTANTS
    Clients = {c1, c2}
    Sessions = {s1, s2}
    Peers = {p1}
    Operations = {"sync", "restore"}
    None = None
    MaxAttach = 1
    Stimuli = {"StartSession", "Attach", "FileModified", "StartAutoSync", "Interrupt", "SetFreeze", "AutoTerminate", "Signalled"}
    AutoSyncEnabled = TRUE
SPECIFICATION Spec
SYMMETRY Symmetry
CHECK_DEADLOCK FALSE
INVARIANT
    IdleSignalled
