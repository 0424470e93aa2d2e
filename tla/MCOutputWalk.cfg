SPECIFICATION Spec
CONSTANTS
    UINT64_MAX = 100
    UINT8_MAX = 255
    Addrs = {}
    MAX_OUTPUTS = 2
    SecpLists <- MCSecpLists
    EvmLists <- MCEvmLists
    Places <- MCPlaces
INVARIANTS
    TypeOK
    StaysInList
    FindsItsField
