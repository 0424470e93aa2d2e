SPECIFICATION Spec
CONSTANTS
    UINT64_MAX = 3
    UINT8_MAX = 9
    Addrs <- MCAddrs
    Docs <- MCDocs
INVARIANTS
    TypeOK
    ReviewIsComplete
    FeeIsTrue
