CONSTANTS
    Node = {n1}
    SpeedNode = {n1}
    FailedNode = {n1}
    Source = {s1}
    Observer = {o1}
    MaxGen = 2
SPECIFICATION Spec
INVARIANTS
    TypeOK
    EvidenceIsCurrent
    RoutingBitsAgree
    NoOrphanVerdict
PROPERTY TerminalSurvivesAutomation
