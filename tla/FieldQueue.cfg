SPECIFICATION FairSpec
CONSTANTS
    p1 = p1
    p2 = p2
    s1 = s1
    u1 = u1
    u2 = u2
    Pages = {p1, p2}
    Editor = p1
    MaxRequests = 2
    Files = {s1}
    Users = {u1, u2}
    First = u1
    MaxSwitches = 1
    MaxShared = 1
    MaxLate = 1
INVARIANTS
    TypeOK
    NeverLost
    SubmittedIsTrue
    OnceOnServer
PROPERTIES
    ImplementsOutbox
    SyncFinishes
CHECK_DEADLOCK FALSE
