CONSTANTS
    MaxMessages = 3
    HasTimeout = TRUE
SPECIFICATION Spec
CHECK_DEADLOCK FALSE
INVARIANTS
    SuccessNeedsClose
