CONSTANTS
    Node = {n1}
    SpeedNode = {}
    FailedNode = {n1}
    Source = {s1, s2}
    Observer = {}
    MaxGen = 1
SPECIFICATION Spec
SYMMETRY SourceSymmetry
INVARIANTS
    DisabledSourceRetires
    GuardCoversChecked
    RecheckCoverage
