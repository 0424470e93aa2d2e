SPECIFICATION Spec
CONSTANTS
    FlarePaths = {p, q}
    OtherPaths = {other}
    HRPs <- MCHRPs
    zxerr_encoding_failed = 17
    NoPath = NoPath
    NoHrp = NoHrp
    Nothing = Nothing
INVARIANTS
    AddressIsWhole
