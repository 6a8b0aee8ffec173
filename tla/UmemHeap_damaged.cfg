SPECIFICATION Spec
CONSTANTS
    small = small
    large = large
    a1 = a1
    a2 = a2
    b1 = b1
    m1 = m1
    m2 = m2
    m3 = m3
    t1 = t1
    t2 = t2
    Null = Null
    Gone = Gone
    CacheList <- MCCacheList
    CacheShape <- MCCacheShape
    SlabShape <- MCSlabShape
    Magazines = {m1, m2, m3}
    MagSize = 1
    Threads = {t1, t2}
    ArenaShape <- MCArenaShape
    Workloads <- MCWorkloads
    Torn = {"slab", "depot"}
    Faults = {"gone", "slab", "depot", "cpu", "thread", "arena"}
SYMMETRY MagazinesAlike
INVARIANTS
    NeverWronglyFreed
    MissingIsSaid
    SelfCheckIsClean
CHECK_DEADLOCK FALSE
