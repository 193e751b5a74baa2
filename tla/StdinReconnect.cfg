SPECIFICATION Spec
CONSTANTS
    MaxKeys = 4
    MaxDrops = 2
    Capacity = 2
    DropSize = 1
    FastLimit = 1
INVARIANTS
    StdinTypeOK
    OrderKept
    Accounted
PROPERTIES
    ReconnectEnds
\* The client exits, and it may hang: see ReconnectEnds.
CHECK_DEADLOCK FALSE
