SPECIFICATION FairSpec
CONSTANTS
    Tasks <- MCTasks
    Runtimes <- MCRuntimes
    Handles <- MCHandles
    HandleOf <- MCHandleOf
    LocalSets <- MCLocalSets
    Ids <- MCIds
    RetainedReferences = 1
    Worlds <- DamagedWorlds
    r1 = r1
    r2 = r2
    r2b = r2b
    h1 = h1
    h2 = h2
    l1 = l1
    t1 = t1
    t2 = t2
    t3 = t3
    i1 = i1
    i2 = i2
INVARIANTS
    ExcludedNeverRead
    ScannedNeverExcluded
    SweepAccounts
PROPERTIES
    Terminates
    NoLateExclusion
