SPECIFICATION FairSpec
CONSTANTS
    CallbackQuantity = 2
    TickRange = 5
    WaitTimes = {2}
    MaxAge = 2
INVARIANTS
    TypeOK
    NoLostCallback
    NotEarly
    OneShot
PROPERTY
    WaitingIsCalled
