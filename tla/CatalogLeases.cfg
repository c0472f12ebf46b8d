SPECIFICATION FairSpec
CONSTANTS
    Node = {n1}
    Source = {s1}
    Tester = {t1}
    RemovalAttempts = 1
    MaxGen = 1
    MaxRev = 3
PROPERTIES
    LeasesEnd
