SPECIFICATION Spec
CONSTANTS
    Tasks <- MCTasks
    Runtimes <- MCRuntimes
    Handles <- MCHandles
    HandleOf <- MCHandleOf
    LocalSets <- MCLocalSets
    Ids <- MCIds
    RetainedReferences = 1
    Worlds <- HealthyWorlds
    r1 = r1
    r2 = r2
    h1 = h1
    h2 = h2
    l1 = l1
    t1 = t1
    t2 = t2
    t3 = t3
    i1 = i1
    i2 = i2
    i3 = i3
INVARIANTS
    PopulationComplete
    RowsRouteFree
