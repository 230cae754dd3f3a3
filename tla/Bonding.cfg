SPECIFICATION Spec
CONSTANTS
    d1 = d1
    d2 = d2
    Devices = {d1}
    NoDev = NoDev
    Ids <- TwoIds
    Items <- Bytes
    FdsQueueSize = 1
    OrderItemQuantity = 2
    WhitelistMax = 3
    Flash <- EmptyFlash
    Buttons = {"KEY_2", "DISCONNECT"}
    MaxEvents = 2
    MaxFlash = 0
    MaxBusy = 4
INVARIANTS
    TypeOK
    LinkTracked
    NoIdLeaks
    SecurityTracked
