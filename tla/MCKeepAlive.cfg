SPECIFICATION MCSpec
CONSTANTS
    Loop = "mgt"
    HasLease = FALSE
    StartPrompt = TRUE
    Mode = "KA"
    SendInterval = 2
    EchoNum = 0
    EchoTimeout = 5
    Threshold = 2
    MaxSend = 4
    MaxReplies = 1
    Signals = 1
    MayStop = TRUE
    ClockSteps <- OneStepBack
    NULL = NULL
INVARIANTS
    DeadTunnelDetected
PROPERTIES
    LoopReturns
