SPECIFICATION PunchFairSpec
CONSTANTS
    Nats <- MCNats
    Talkers = {"a"}
    MaxDelay = 1
    Hold = 2
    Gap = 0
    Window = 1
    Valid = 1
    LocalValid = 1
    Tries = 2
    QueueMax = 1
    Old = 2
INVARIANT TrustedIsReachable
PROPERTY PunchSucceeds
