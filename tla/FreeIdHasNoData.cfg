SPECIFICATION Spec
CONSTANTS
    Peers = {0, 1}
    PmFlashBuffers = 2
    Places = 5
    QueueSize = 4
    FirstFlash <- Flashes
    MaxRequests = 6
    MaxTimeouts = 0
    MaxResets = 0
INVARIANTS
    FreeIdHasNoData
CHECK_DEADLOCK FALSE
