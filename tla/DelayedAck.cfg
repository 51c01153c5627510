CONSTANTS
    MaxMsgs = 2
    RecvBuf = 1
    InitCwnd = 3
    Reliability = "Reliable"
    RexmitValue = 0
    MaxLoss = 0
    MaxDup = 0
    MaxSpurious = 0
SPECIFICATION Spec
INVARIANTS
    DelayedAckHasTimer
CHECK_DEADLOCK FALSE
