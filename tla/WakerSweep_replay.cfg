CONSTANTS
    PAGE = 4
    Worlds <- SweptWorlds
    Workers = {1, 2}
    CHUNK = 4
    OVERLAP = 4
    PriorReads <- SomeReads
    MaxPrior = 2
    Unswept = Unswept
SPECIFICATION Spec
INVARIANT ReplayIsFaithful
PROPERTY SweepIsSerial
