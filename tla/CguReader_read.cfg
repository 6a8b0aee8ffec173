SPECIFICATION Spec
CONSTANTS
    w1 = w1
    w2 = w2
    w3 = w3
    a = a
    b = b
    name_t = name_t
    rust_c = rust_c
    clang = clang
    Workers = {w1, w2, w3}
    Strings <- MCStrings
    Rustc = {rust_c}
    Shards = 2
    ShardOf <- MCShardOf
    NsShardOf <- MCNsShardOf
    IdSpace = 32
    InFlight = 1
    Programs <- MCPrograms
INVARIANTS
    ReadIsSerial
PROPERTIES
    Settles
CHECK_DEADLOCK FALSE
