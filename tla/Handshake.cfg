CONSTANTS
    A = A
    B = B
    MaxInitRetrans = 1
    MaxLoss = 1
    MaxDup = 1
    MaxSpurious = 1
SPECIFICATION FairSpec
INVARIANTS
    TypeOK
    DataIsUnderstood
    NeverRewinds
PROPERTIES
    Connects
CHECK_DEADLOCK FALSE
