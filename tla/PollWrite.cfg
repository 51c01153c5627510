\* The second buffer is written while the first waits for the pending queue.
SPECIFICATION Spec
CONSTANTS
    Chunks = 2
    MaxWrites = 3
    MaxReads = 2
    Message = 3
    Cap = 4
    Room = 2
INVARIANTS
    AcceptedIsBuffered
CHECK_DEADLOCK FALSE
