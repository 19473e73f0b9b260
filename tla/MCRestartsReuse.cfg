SPECIFICATION RestartsSpec
CONSTANTS
    n1 = n1
    n2 = n2
    n3 = n3
    v1 = v1
    v2 = v2
    v3 = v3
    Acceptors = {n1, n2, n3}
    Lives <- MCLives
    Proposers <- MCProposers
    Values = {v1, v2, v3}
    ZeroValue = v1
    IdOf <- MCIdOf
    ValueOf <- MCValueOf
    Local <- MCLocal
    Proposals <- OneEach
    Crashable = {n2}
    StoreErrors = FALSE
    Hung = {}
    Faults = {"loss"}
CHECK_DEADLOCK FALSE
CONSTRAINT N1First
INVARIANTS
    Agreement
