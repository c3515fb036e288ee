SPECIFICATION StoreSpec
CONSTANTS
    PeerId = {i1, i2, i3}
    WGKey = {k1, k2, k3, k4}
    PSK = {none, psk}
    SubnetSize = 4
    ServerHost = 0
    NoPeer = NoPeer
INVARIANTS
    AddressesExclusive
    KeysExclusive
PROPERTIES
    ClientKeepsAddress
