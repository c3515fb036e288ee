SPECIFICATION Spec
CONSTANTS
    PeerId = {i1, i2}
    WGKey = {k1, k2}
    PSK = {none}
    SubnetSize = 4
    ServerHost = 1
    NoPeer = NoPeer
    Worker = {w1, w2}
    Session = {}
    GoodKey = {k1, k2}
    GoodPsk = {none}
    Faults = FALSE
    None = None
INVARIANTS
    RemovedFromDevice
