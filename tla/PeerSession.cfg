SPECIFICATION Spec
CONSTANTS
    a = a
    b = b
    procA = procA
    procB = procB
    Validators = {a, b}
    Processes = {procA, procB}
    Identity <- MCIdentity
    Windows = {procA, procB}
    MaxSent = 2
    MaxAccepted = 3
INVARIANTS
    TypeOK
    SequenceUnique
    AcceptedInOrder
    NeverLockedOut
PROPERTIES
    DeliversInOrder
