SPECIFICATION MCSpec
CONSTANTS
    a1 = a1
    k1 = k1
    k2 = k2
    NULL = NULL
    MaxFaults = 1
    Addrs <- OneAddr
    Keys <- TwoKeys
    NoAddr = NoAddr
    Lives <- MCLives
    Teredo = {x1, x2}
    MaxEvents = 3
INVARIANTS
    HostRestored
    RulesFreed
    NothingOutlives
PROPERTIES
    SessionEnds
    TunnelEnds
