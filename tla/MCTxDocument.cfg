SPECIFICATION DocSpec
CONSTANTS
    flr = flr
    token = token
    a = a
    Addrs <- MCAddrs
    NoAsset = NoAsset
    Assets <- MCAssets
    UINT64_MAX = 1
    UINT32_MAX = 600
    UINT16_MAX = 500
    UINT8_MAX = 8
    MAX_OUTPUTS = 2
    MAX_INPUTS = 2
    MAX_MEMO_LEN = 1
    MAX_SHARES = 1
    BufferLens <- MCBufferLens
INVARIANTS
    TypeOK
    OffsetInBounds
    AcceptedIsAligned
    TallyIsExact
    OneAsset
    ItemsFitInByte
    AcceptedIsDocument
    AcceptedIsShown
    FeeIsWhole
