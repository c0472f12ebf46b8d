CONSTANTS
    n1 = n1
    n2 = n2
    c1 = c1
    g = g
    Nodes = {n1, n2}
    Order <- NodeOrder
    GroupAny = any
    Named = {g}
    Turns = 2
    Conns = {c1, c2}
    None = none
    Primed = {"up"}
    Pinned = {n1}
    Traffic <- MixedTraffic
    Strategies = {"sticky", "round-robin", "score"}
    Metrics = {0, 1}
    MaxAttempts = 1
    MaxRetries = 2
    MaxChanges = 1
SPECIFICATION FairSpec
INVARIANTS
    CursorsLive
    DashboardAgrees
PROPERTIES
    PicksAreAtomic
    PinSurvivesTraffic
    ConnectionsEnd
CHECK_DEADLOCK FALSE
