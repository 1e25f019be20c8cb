CONSTANTS
    Contacts = {a, b, c}
    Values = {1, 2}
    Limits <- BothLimits
    Unread = Unread
    MaxStart = 3
    MaxStimuli = 4
    MaxChanged = 1
    Stimuli = {"Search", "ReplaceSearch"}
SPECIFICATION Spec
CHECK_DEADLOCK FALSE
PROPERTIES
    ReplaceIsMirrored
