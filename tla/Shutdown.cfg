CONSTANTS
    A = A
    B = B
    Writers = {A}
    MaxLoss = 1
    MaxDup = 0
    MaxSpurious = 1
SPECIFICATION FairSpec
INVARIANTS
    TypeOK
    CloseIsAgreed
    GracefulForOutstanding
PROPERTIES
    ShutdownCompletes
CHECK_DEADLOCK FALSE
