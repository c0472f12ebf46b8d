CONSTANTS
    Handler = {h1, h2}
    Worker = worker
    MaxGen = 2
SPECIFICATION FairSpec
INVARIANTS
    TypeOK
    NoLostWakeup
    ShutdownIsFinal
PROPERTY QueueDrains
CHECK_DEADLOCK FALSE
