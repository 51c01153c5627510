SPECIFICATION FairSpec
CONSTANTS
    A = A
    B = B
    Writers = {A}
    Readers = {B}
    MaxMsgs = 2
    MaxLoss = 1
INVARIANTS TypeOK NoDataAfterReset ResetNeverForgotten NoLostNotify
PROPERTY ResetReachesPeer
CHECK_DEADLOCK FALSE
