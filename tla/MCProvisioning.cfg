SPECIFICATION Spec
CONSTANTS
    i1 = i1
    i2 = i2
    k1 = k1
    k2 = k2
    PeerId = {i1, i2}
    WGKey = {k1, k2}
    PSK = {none}
    SubnetSize = 4
    ServerHost = 0
    NoPeer = NoPeer
    Worker = {w1}
    Session = {g1}
    GoodKey = {k1, k2}
    GoodPsk = {none}
    Faults = TRUE
    None = None
SYMMETRY Symmetry
CONSTRAINT NoStatusCommand
INVARIANTS
    DeviceSane
    SoloRequestSyncs
    ResyncExact
