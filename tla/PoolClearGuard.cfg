CONSTANTS
    Node = {n1}
    SpeedNode = {}
    FailedNode = {}
    Source = {s1}
    Observer = {}
    MaxGen = 1
SPECIFICATION Spec
PROPERTY ClearRespectsGuard
