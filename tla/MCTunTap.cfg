SPECIFICATION MCSpec
CONSTANTS
    u1 = u1  u2 = u2  s1 = s1  s2 = s2
    Users = {u1, u2}
    Stack = {s1, s2}
    QueueSize = 2
    MaxBurst = 2
    NULL = NULL
    r1 = r1  r2 = r2
    Receivers = {r1, r2}
    Maps <- MCMaps
    OwnMap <- MCOwnMap
    MaxLag = 1
    Gap = 0
    Window = 0
    Valid = 0
    LocalValid = 0
    Tries = 2
    QueueMax = 1
    Old = 1
SYMMETRY Alike
INVARIANTS
    InterfaceAlive
    OwnPackets
    SelectorNotified
    PeerConsistent
    PassedIsProven
CHECK_DEADLOCK FALSE
