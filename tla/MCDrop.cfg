SPECIFICATION FairSpec
CONSTANTS
    Mnemonic = {m1, m2}
    Random = Random
    None = None
    MaxMoves = 2
    MaxCuts = 1
    Worker = {w1}
    Object = {o1, o2}
    StorageMax = 1
INVARIANTS
    NoFalseConflict
    UploadsStayPinned
    ServesOwnIdentity
PROPERTIES
    KuboComesUp
    UploadsResume
CHECK_DEADLOCK FALSE
