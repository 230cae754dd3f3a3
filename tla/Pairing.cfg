SPECIFICATION Spec
CONSTANTS
    d1 = d1
    d2 = d2
    Devices = {d1, d2}
    NoDev = NoDev
    Ids <- ThreeIds
    Items <- Bytes
    FdsQueueSize = 1
    OrderItemQuantity = 2
    WhitelistMax = 3
    Flash <- EmptyFlash
    Buttons = {"KEY_3"}
    MaxEvents = 2
    MaxFlash = 2
    MaxBusy = 4
SYMMETRY MCSymmetry
INVARIANTS
    NotesAgree
    
PROPERTIES
    OnlyKey2Deletes
