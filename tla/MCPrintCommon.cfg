SPECIFICATION Spec
CONSTANTS
    Amounts <- MCAmounts
    PubKeys = {k1, k2}
    NodeIds <- MCNodeIds
    NetworkIds <- MCNetworkIds
INVARIANTS
    TypeOK
    AmountIsExact
    AmountIsReadable
    NetworkIsVisible
    NodeIdFits
