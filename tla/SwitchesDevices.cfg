SPECIFICATION TimesOutSpec
CONSTANTS
    d1 = d1
    d2 = d2
    Devices = {d1, d2}
    NoDev = NoDev
    Ids <- TwoIds
    Items <- Bytes
    FdsQueueSize = 4
    OrderItemQuantity = 2
    WhitelistMax = 3
    Flash <- TwoBonded
    Buttons = {}
    MaxEvents = 2
    MaxFlash = 0
    MaxBusy = 0
PROPERTIES
    SwitchesDevices
