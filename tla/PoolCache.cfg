CONSTANTS
    Node = {n1}
    Writer = {w1, w2}
    DeleteAttempts = 2
    MaxCacheGen = 4
    MaxCrit = 1
SPECIFICATION Spec
SYMMETRY Symmetry
INVARIANTS
    TypeOK
    DeletedStaysDeleted
    RoutableAfterRestart
    ChangesReachDisk
PROPERTY PublishLosesNothing
