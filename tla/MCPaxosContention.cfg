SPECIFICATION FairPaxosSpec
CONSTANTS
    a1 = a1
    a2 = a2
    a3 = a3
    p1 = p1
    p2 = p2
    v1 = v1
    v2 = v2
    Acceptors = {a1, a2, a3}
    Proposers = {p1, p2}
    Values = {v1, v2}
    ZeroValue = v1
    IdOf <- MCIdOf
    ValueOf <- MCValueOf
    Local <- Remote
    Proposals <- ThreeAndTwo
    Crashable = {a3}
    StoreErrors = FALSE
    Hung = {}
    Faults = {}
CHECK_DEADLOCK FALSE
INVARIANTS
    IInv
    StoreKeepsNewestVote
    LostOnlyToHigher
PROPERTIES
    PromiseBinds
    RetryOutbids
    OutlastingDecides
