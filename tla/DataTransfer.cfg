CONSTANTS
    MaxMsgs = 3
    RecvBuf = 2
    InitCwnd = 3
    Reliability = "Timed"
    RexmitValue = 0
    MaxLoss = 0
    MaxDup = 1
    MaxSpurious = 1
SPECIFICATION Spec
INVARIANTS
    TypeOK
    NoSilentLoss
    ForwardOnlyAbandoned
    IInv
    T3RunsWhileOutstanding
    BufferedAmountExact
PROPERTIES
    NeverResendSettled
    PointsNeverRetreat
CHECK_DEADLOCK FALSE
