SPECIFICATION FairPaxosSpec
CONSTANTS
    a1 = a1
    a2 = a2
    a3 = a3
    p1 = p1
    p2 = p2
    v1 = v1
    v2 = v2
    Acceptors = {a1, a2, a3}
    Proposers = {p1, p2}
    Values = {v1, v2}
    ZeroValue = v1
    IdOf <- MCIdOf
    ValueOf <- MCValueOf
    Local <- Own
    Proposals <- OneEach
    Crashable = {}
    StoreErrors = TRUE
    Hung = {a3}
    Faults = {"loss", "cancel"}
CHECK_DEADLOCK FALSE
INVARIANTS
    MemoryIsDurable
    LearnedIsChosen
PROPERTY
    CancelledCampaignEnds
