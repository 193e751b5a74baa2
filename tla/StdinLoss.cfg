SPECIFICATION Spec
CONSTANTS
    MaxKeys = 2
    MaxDrops = 1
    Capacity = 2
    DropSize = 1
    FastLimit = 1
INVARIANTS
    InputKept
CHECK_DEADLOCK FALSE
