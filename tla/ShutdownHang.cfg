CONSTANTS
    A = A
    B = B
    Writers = {A}
    MaxLoss = 1
    MaxDup = 0
    MaxSpurious = 0
SPECIFICATION FairSpec
PROPERTIES
    ShutdownReturns
CHECK_DEADLOCK FALSE
