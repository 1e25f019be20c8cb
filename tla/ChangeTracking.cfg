CONSTANTS
    Items = {i1, i2}
    DatabaseRevision = {TRUE, FALSE}
    MaxTime = 3
    MaxChanges = 4
SPECIFICATION Spec
SYMMETRY Symmetry
CHECK_DEADLOCK FALSE
INVARIANTS
    NoLostChange
    NoEcho
