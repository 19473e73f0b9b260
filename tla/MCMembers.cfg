SPECIFICATION MembersSpec
CONSTANTS
    a1 = a1
    a2 = a2
    a3 = a3
    Addrs = {a1, a2, a3}
    Ids <- GivenIds
    Malformed = Malformed
    Down = Down
    MaxPeers = 2
SYMMETRY Interchangeable
INVARIANTS
    MemberIdsDiffer
    QuorumsMeet
