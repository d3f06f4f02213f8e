CONSTANTS
    Discovery = TRUE
    MayDestroy = FALSE
    Objects = {o1, o2}
    NULL = NULL
SPECIFICATION FairSpec
PROPERTIES StateChangeReturns
CHECK_DEADLOCK FALSE
