SPECIFICATION Spec
CONSTANTS
    a = a
    b = b
    p = p
    q = q
    other = other
    eth = eth
    NoPath = NoPath
    Nothing = Nothing
    Byte <- MCByte
    Chunks <- MCChunks
    Capacity = 2
    Transactions <- MCTransactions
    HashLen = 2
    Paths <- MCPaths
    FlarePaths <- MCFlarePaths
    EthPaths <- MCEthPaths
    MaxOutstanding = 2
INVARIANT AddressOnScreen
