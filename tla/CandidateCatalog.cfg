SPECIFICATION MCSpec
CONSTANTS
    Node = {n1}
    Source = {s1}
    Tester = {t1}
    RemovalAttempts = 2
    MaxGen = 1
    MaxRev = 3
INVARIANTS
    OneHome
    LeaseExclusive
    RemovedStaysRemoved
    DiskCatchesUp
PROPERTIES
    FailureIsMeasured
