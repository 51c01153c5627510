CONSTANTS
    Writers = {w1, w2}
    w1 = w1
    w2 = w2
    SsnHalf = 4
    FirstSsn = 0
    RecvBuf = 2
    Window = 4
    MaxMsgs = 2
    MaxLen = 2
    MaxChunks = 4
SPECIFICATION Spec
INVARIANTS
    FragmentsSequential
CHECK_DEADLOCK FALSE
