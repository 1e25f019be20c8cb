CONSTANTS
    MaxMessages = 3
    HasTimeout = TRUE
SPECIFICATION FairSpec
CHECK_DEADLOCK FALSE
INVARIANTS
    ReplyProtocol
    HelperNotStranded
    InStep
PROPERTIES
    RegularCloseFinal
    WaitingEnds
