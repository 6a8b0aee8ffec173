CONSTANTS
    Values <- MCValues
    Kind <- MCKind
    Addr <- MCAddr
    Worlds <- BentWorlds
    MAX_CHILDREN = 2
    MAX_NESTING = 1
    MAX_AWAIT_DEPTH = 3
    Broken = Broken
SPECIFICATION Spec
INVARIANTS
    CompleteUnlessItSaysSo
    NoRowTwiceNorFreed
    ViasNameTheHolder
    DamageIsNamed
PROPERTY WalkMakesHeadway
