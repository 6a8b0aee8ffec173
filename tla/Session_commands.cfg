SPECIFICATION Spec
CONSTANTS
    t1 = t1
    t2 = t2
    t3 = t3
    outer = outer
    inner = inner
    child = child
    l1 = l1
    l2 = l2
    None = None
    Last = Last
    Addrs <- MCAddrs
    Tasks <- MCTasks
    IdLess = {t3}
    Header <- MCHeader
    TaskAt <- MCTaskAt
    TaskChain <- MCTaskChain
    Claims <- MCClaims
    Finds <- MCFinds
    Children = {child}
    FindAddr <- MCFindAddr
    FindOwner <- MCFindOwner
    FindChain <- MCFindChain
    FutureAt <- MCFutureAt
    Lwps = {l1, l2}
    StackPointer <- MCStackPointer
    Polling <- MCPolling
    OutputMayFail = TRUE
    Lines <- AllLines
INVARIANTS
    CursorHolds
    CursorComesBack
PROPERTIES
    EveryLineEnds
    QuestionsAreTheCursors
CHECK_DEADLOCK FALSE
