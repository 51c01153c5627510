SPECIFICATION FairSpec
CONSTANTS
    MaxPackets = 3
    MaxRetrans = 1

    
PROPERTIES
    WaitersReleased
CHECK_DEADLOCK FALSE
