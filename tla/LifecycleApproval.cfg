SPECIFICATION Spec
CONSTANTS
    ann = ann
    ben = ben
    cleo = cleo
    dan = dan
    NONE = NONE
    Ids = {1, 2}
    Types <- FewTypes
    Times = {1}
    Users <- Staff
    Approvers <- Staff
    Files = {"report"}
    approvalsRequired = 2
    requireEvidence = TRUE
    MaxRequests = 2
SYMMETRY Symmetry
INVARIANTS
    TypeOK
    AnchorBacked
    VerifiedIsAnchored
    PrerequisitesVerified
PROPERTIES
    ImplementsLedger
