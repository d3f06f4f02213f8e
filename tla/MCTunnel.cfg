CONSTANTS
    Discovery = TRUE
    MayDestroy = TRUE
    Objects = {o1, o2}
    NULL = NULL
SPECIFICATION FairSpec
INVARIANTS GrabKeepsAlive PeerAlive
PROPERTIES ReceiversReturn
CHECK_DEADLOCK FALSE
