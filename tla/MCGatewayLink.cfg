SPECIFICATION FairSpec
CONSTANTS
    Faults = TRUE
    MaxBoots = 4
INVARIANTS
    CanRefresh
    CredentialsMatch
    RegisteredMeansClient
    GatewayHeard
PROPERTIES
    Reconnects
    ImplementsChannel
