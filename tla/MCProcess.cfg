SPECIFICATION FairProcessSpec
CONSTANTS
    m = m
    l1 = l1
    l2 = l2
    h1 = h1
    Main = m
    Loops = {l1, l2}
    Handlers = {h1}
    Callers = {m, l1, l2, h1}
    Askers = {a1, a2}
    ChaosFlags = {TRUE, FALSE}
    Nobody = Nobody
    MaxOps = 3
    MaxCampaigns = 2
    MaxActs = 4
    StoreErrors = TRUE
CHECK_DEADLOCK FALSE
INVARIANTS
    StoreIsOwned
    ServesTheFile
    FlagHasCampaign
    NoStrayLoop
PROPERTIES
    NoNodeReplaced
    OperationsEnd
    LoopsEnd
    SignalEndsProcess
