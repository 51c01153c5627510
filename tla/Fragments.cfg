CONSTANTS
    Writers = {w1}
    w1 = w1
    SsnHalf = 4
    FirstSsn = 7
    RecvBuf = 3
    Window = 4
    MaxMsgs = 3
    MaxLen = 3
    MaxChunks = 5
SPECIFICATION FairSpec
INVARIANTS
    TypeOK
    FragmentsSequential
    ReadsWholeMessages
    BytesExact
    NothingStranded
PROPERTIES
    DeliversInOrder
    EventuallyRead
CHECK_DEADLOCK FALSE
