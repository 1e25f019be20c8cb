CONSTANTS
    Contacts = {a, b, c}
    Values = {1, 2}
    Limits <- BothLimits
    Unread = Unread
    MaxStart = 1
    MaxStimuli = 4
    MaxChanged = 2
    Stimuli = {"Change", "Modify", "Search", "RefineSearch", "ReplaceSearch", "SetSortOrder"}
SPECIFICATION Spec
SYMMETRY Symmetry
CHECK_DEADLOCK FALSE
INVARIANTS
    ViewExact
    AgentMirrors
    AgentFresh
    NothingStuck
