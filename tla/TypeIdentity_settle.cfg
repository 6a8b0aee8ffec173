SPECIFICATION Spec
CONSTANTS
    Ids = {1, 2, 3, 4, 5, 6, 7, 8}
    Names = {"A", "B", "W", "S", "G"}
    Units = {1, 2, 3, 4}
    MaxPasses = 12
    Programs <- MCPrograms
INVARIANTS
    IdentitySettles
    DeclarationsGoHome
    EveryLoopEnds
CHECK_DEADLOCK FALSE
