SPECIFICATION Spec
CONSTANTS
    A = A
    B = B
    m = m
    n = n
    NONE = NONE
    NIL = NIL
    DIRs <- TwoDIRs
    Digests <- TwoDigests
    Decisions <- AllDecisions
    Writers = {w1}
    Faults = {"SyncInterrupted", "PowerLoss"}
    VoteAuthority = TRUE
    MaxRecords = 6
INVARIANTS
    TypeOK
    NoEquivocation
    SignedSurvivesPowerLoss
    AlwaysReadable
    LockSurvives
    ConflictingVerifyJustified
    CommitAndFinalizeFollowLock
    FinalityBeforeAdvance
    CacheIsJournaled
PROPERTIES
    ImplementsAtomicJournal
