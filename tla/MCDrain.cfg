SPECIFICATION FairSpec
CONSTANTS
    PeerId = {i1, i2}
    WGKey = {k1, bad}
    PSK = {none}
    SubnetSize = 4
    ServerHost = 0
    NoPeer = NoPeer
    Worker = {w1}
    Session = {g1}
    GoodKey = {k1}
    GoodPsk = {none}
    Faults = FALSE
    None = None
INVARIANTS
    DeviceSane
    SoloRequestSyncs
PROPERTIES
    DrainTakesEffect
    Answered
