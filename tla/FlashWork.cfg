SPECIFICATION FairSpec
CONSTANTS
    d1 = d1
    d2 = d2
    Devices = {d1}
    NoDev = NoDev
    Ids <- TwoIds
    Items <- Bytes
    FdsQueueSize = 4
    OrderItemQuantity = 2
    WhitelistMax = 3
    Flash <- TwoBonded
    Buttons = {"KEY_2"}
    MaxEvents = 1
    MaxFlash = 0
    MaxBusy = 1

    
PROPERTIES
    
    ScanEnds
