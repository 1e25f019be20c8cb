CONSTANTS
    Clients = {c1}
    Sessions = {s1, s2}
    Peers = {p1}
    Operations = {"sync"}
    None = None
    MaxAttach = 1
    Stimuli = {"ConnectionProcess", "FileModified"}
    AutoSyncEnabled = TRUE
SPECIFICATION FairSpec
CHECK_DEADLOCK FALSE
PROPERTIES
    RunningEnds
    ShutdownCompletes
    QueuedIsServed
