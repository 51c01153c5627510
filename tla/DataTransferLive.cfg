CONSTANTS
    MaxMsgs = 4
    RecvBuf = 4
    InitCwnd = 3
    Reliability = "Rexmit"
    RexmitValue = 2
    MaxLoss = 2
    MaxDup = 0
    MaxSpurious = 0
SPECIFICATION FairSpec
INVARIANTS
    FastRecoveryCanEnd
    NoLostWakeUp
    SackNeverFatal
PROPERTIES
    DeliversInOrder
    EventuallyDelivers
    EverythingSettled
CHECK_DEADLOCK FALSE
