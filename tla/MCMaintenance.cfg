SPECIFICATION FairSpec
CONSTANTS
    c1 = c1  c2 = c2  a1 = a1  a2 = a2
    Callers = {c1, c2}
    Addrs = {a1, a2}
    Retries = 2
    NULL = NULL
INVARIANTS
    IncomingAlive
PROPERTIES
    CallersReturn
