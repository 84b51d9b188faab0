SPECIFICATION Spec
CONSTANTS
    A = A
    B = B
    m = m
    n = n
    NONE = NONE
    NIL = NIL
    DIRs <- TwoDIRs
    Digests <- TwoDigests
    Decisions <- FewDecisions
    Writers = {w1}
    Faults = {"SyncInterrupted"}
    VoteAuthority = TRUE
    MaxRecords = 3
INVARIANTS
    PersistBeforeSign
