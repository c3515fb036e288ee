\* Some 2,300 environments; int64 is scaled down to eight bits.
SPECIFICATION Spec
CONSTANTS
    MaxInt = 127
    Env <- MCEnv
INVARIANTS
    PrebootForesees
    TunnelDNSServed
    PrivateStaysPrivate
    StorageExact
    LadderPreferred
PROPERTIES
    
    HealthCatchesUp
