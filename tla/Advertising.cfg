SPECIFICATION FairSpec
CONSTANTS
    d1 = d1
    d2 = d2
    Devices = {d1, d2}
    NoDev = NoDev
    Ids <- TwoIds
    Items <- Bytes
    FdsQueueSize = 1
    OrderItemQuantity = 2
    WhitelistMax = 3
    Flash <- TwoBonded
    Buttons = {"KEY_3", "WHITELIST_OFF"}
    MaxEvents = 2
    MaxFlash = 0
    MaxBusy = 4
INVARIANTS
    RealAdvMeansRadio
PROPERTIES
    WishGranted
