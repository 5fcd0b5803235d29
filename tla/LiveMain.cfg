\* Every call may fail, the file may be empty.
CONSTANTS
    Faults = {"open", "malloc", "read"}
    FileSizes = {0, 1}
    Anims = 3
    Period = 8
    IntMax = 127
SPECIFICATION LiveFairSpec
INVARIANTS LiveTypeOK OnlyKnownLeaks
PROPERTIES LaterAnimsInFull AllPlayed
CHECK_DEADLOCK FALSE
