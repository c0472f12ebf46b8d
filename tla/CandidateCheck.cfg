CONSTANTS
    MaxOps = 3
    MaxChunks = 2
SPECIFICATION FairSpec
INVARIANTS
    TypeOK
    StatusMatchesSlot
    CancelIsForActive
    NoLostWakeup
PROPERTIES
    TerminalIsFinal
    OperationsEnd
CHECK_DEADLOCK FALSE
