SPECIFICATION AssessSpec
CONSTANTS
    Tasks <- MCTasks
    Outsiders <- MCOutsiders
    Programs <- MCPrograms
    Views <- MCViews
    NoWaker = NoWaker
    NoOne = NoOne
    NoReport = NoReport
    Batch = 1
    BlockCap = 2
    t1 = t1
    t2 = t2
    t3 = t3
    o1 = o1
    o2 = o2
INVARIANTS
    VerdictIsTrue
    RestIsDecided
    FuturelockHolds
    CyclesAreStuck
CHECK_DEADLOCK FALSE
