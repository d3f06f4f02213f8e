SPECIFICATION MCSpec
CONSTANTS
    Burst = 2
    MaxPosts = 4
    MaxStarts = 2
    MaxChanges = 1
    MaxEdits = 2
    Settings <- MCSettings
    HandMade <- MCHandMade
    Lines <- MCLines
    Tunnels = {"t1", "t2", "t3"}
    Listings <- MCListings
    Bad = "bad"
    Limit = 4
    MaxConns = 6
    Addrs = {"a1", "a2"}
    MaxMoves = 2
    MaxToggles = 1
    Tests = 2
INVARIANTS
    TitleClears
    ConfAsSet
    LoginInStep
    NothingLeftUp
PROPERTIES
    AllShown
    StopIsObeyed
CHECK_DEADLOCK FALSE
