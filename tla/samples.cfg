SPECIFICATION FairSpec
CONSTANTS
    Samples <- MCAll
    Faults = TRUE
    MaxEvents = 3
    MaxSignals = 2
INVARIANTS
    TypeOK
    EventsInOrder
    HandlerFindsCore
PROPERTIES
    ImplementsWorker
    StopsForGood
    EveryEventHandled
    AskedAppEnds
CHECK_DEADLOCK FALSE
