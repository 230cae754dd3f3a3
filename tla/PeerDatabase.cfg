SPECIFICATION FairSpec
CONSTANTS
    Peers = {0, 1}
    PmFlashBuffers = 2
    Places = 5
    QueueSize = 4
    FirstFlash <- Flashes
    MaxRequests = 6
    MaxTimeouts = 1
    MaxResets = 1
INVARIANTS
    TypeOK
    QueuedOnce
    
    SpaceHeld
    
PROPERTIES
    StoresEnd
CHECK_DEADLOCK FALSE
