SPECIFICATION FairSpec
CONSTANTS
    h1 = h1
    h2 = h2
    f = f
    setA = setA
    setB = setB
    Peers <- MCPeers
    EvidencePeers <- MCPeers
    Honest <- MCHonest
    MaxHeight = 2
    Batch = 2
    Sets = {setA, setB}
    SetOf <- MCSetOf
    Snapshot <- MCSnapshot
    Reach <- MCReach
    Order <- MCOrder
    FaultyClaims <- MCFaultyClaims
    MaxUnpinned = 0
    RemovesFirst = TRUE
    Absent = Absent
    Refused = Refused
    None = None
INVARIANTS
    TypeOK
    HonestNeverQuarantined
    QuarantineBacked
    HaltBlamesFaulty
    ConvictedNotFollowed
PROPERTIES
    ContradictionRemembered
    FollowsChain
    CalmCyclesArrive
    CatchesUp
