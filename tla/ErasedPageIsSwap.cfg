SPECIFICATION Spec
CONSTANTS
    PhyPages = 3
    PageSlots = 2
    Files = {"f"}
    QueueSize = 3
    FirstFlash <- Flashes
    MaxCalls = 3
    MaxTimeouts = 1
    MaxResets = 1
INVARIANTS
    ErasedPageIsSwap
CHECK_DEADLOCK FALSE
