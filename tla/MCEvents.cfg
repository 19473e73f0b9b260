SPECIFICATION FairEventsSpec
CONSTANTS
    r1 = r1
    Readers = {r1}
    Limit = 2
    Buffer = 2
    MaxEvents = 4
    MaxLives = 2
CHECK_DEADLOCK FALSE
INVARIANTS
    NothingMissed
    RepeatsOnlyAtSeam
    RingIsTold
PROPERTIES
    ImplementsFeed
    TailCatchesUp
