SPECIFICATION IdentitySpec
CONSTANTS
    Mnemonic = {m1, m2}
    Random = Random
    None = None
    MaxMoves = 2
    MaxCuts = 1
PROPERTIES
    RestoreRecovers
CHECK_DEADLOCK FALSE
