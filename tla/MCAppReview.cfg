SPECIFICATION FairAppSpec
CONSTANTS
    a = a
    b = b
    p = p
    q = q
    eth = eth
    NoPath = NoPath
    Nothing = Nothing
    Byte <- MCByte
    Chunks <- MCChunks
    Capacity = 2
    Transactions <- MCTransactions
    HashLen = 2
    Paths <- MCPaths
    FlarePaths <- MCFlarePaths
    EthPaths <- MCEthPaths
    MaxOutstanding = 2
    Meaning <- MCMeaning
    Addrs = {"x"}
    UINT64_MAX = 7
    UINT8_MAX = 5
INVARIANTS
    DrawnIsSignable
PROPERTIES
    SignedWasRead
    ReviewEnds
