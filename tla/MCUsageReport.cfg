SPECIFICATION FairSpec
CONSTANTS
    i1 = i1
    i2 = i2
    k1 = k1
    k2 = k2
    k3 = k3
    PeerId = {i1}
    KeysOf <- OwnKeys
    InitFails = FALSE
    MaxBytes = 4
    NoKey = NoKey
INVARIANTS
    NeverOverReported
    ReportsAddUp
PROPERTIES
    ImplementsMeter
    EventuallyReported
