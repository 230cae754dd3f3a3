SPECIFICATION FairSpec
CONSTANTS
    QueueSize = 2
    Interrupts <- TheInterrupts
    Priority <- SdEvtAboveRtc1
    Handlers <- TheHandlers
    Data <- TheData
    Timers = {"t1", "t2"}
    NoSlot = NoSlot
    MaxArrivals = 5
INVARIANTS
    TypeOK
    SlotsAreExclusive
    StackEventsAnnounced
PROPERTIES
    ImplementsQueue
    EventsAreHandled
    StackIsFetched
CHECK_DEADLOCK FALSE
