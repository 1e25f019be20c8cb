CONSTANTS
    Items = {i1, i2}
    DatabaseRevision = {FALSE}
    MaxTime = 2
    MaxChanges = 2
SPECIFICATION Spec
SYMMETRY Symmetry
CHECK_DEADLOCK FALSE
PROPERTIES
    MapKeptOnFailure
