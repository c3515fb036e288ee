SPECIFICATION Spec
CONSTANTS
    Session = {s1, s2}
    MaxGen = 2
    MaxShort = 4
    MaxCuts = 1
    FirstAlone = TRUE
SYMMETRY Symmetry
INVARIANTS
    PairsMatch
    AdvertisedIsServed
    StoredIsServed
    OnRecord
PROPERTIES
    StoredKept
CHECK_DEADLOCK FALSE
