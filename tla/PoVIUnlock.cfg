SPECIFICATION SpecAfterRoundZero
CONSTANTS
    A = A
    B = B
    v1 = v1
    v2 = v2
    v3 = v3
    v4 = v4
    NONE = NONE
    NIL = NIL
    DIRs <- TwoDIRs
    Digests <- TwoDIRs
    Validators <- Four
    Faulty <- OneFaulty
    HeaderRound <- HeaderZero
    MaxRound = 2
    Offered <- ThenOther
INVARIANTS
    TypeOK
    UnlockJustified
