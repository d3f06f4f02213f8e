SPECIFICATION MCSpec
CONSTANTS
    NULL = NULL
    StrLen <- mc_StrLen
    Statuses <- mc_Statuses
    Tunnels <- mc_Tunnels
    BrokerLists <- mc_BrokerLists
    HAccess <- mc_HAccess
    Configs <- mc_Configs
    Requests <- mc_Requests
    PKT_USERDATA_MAX = 7
    MAX_USERDATA = 20
    SeqModulus = 64
    MAX_QUEUE_ITEMS = 2
    INITERRORS_THRESHOLD = 0
    PIPE_BUFSIZ = 2
    MaxPosts = 2
    Budget = 4
    IpMax = 7
    PortMax = 3
    GlobalIps <- mc_GlobalIps
    ServerIp = 2
    ServerIp2 = 3
    TeredoPort = 3
    Mappings <- mc_Mappings
    Peer <- mc_Peer
    RelayAt <- mc_RelayAt
    Nodes = {"n"}
    Routers = {"f"}
    TeredoPrefixes = {"2001", "3ffe"}
    Configured <- mc_Configured
    Standard = "2001"
    Obsolete = "3ffe"
    PingLife = 1
    MaxSolicit = 2
    MaxTime = 1
    MaxNet = 2
    MaxUsers = 1
    Lines <- mc_Lines
    MaxLines = 2
    Instances = {i1, i2, i3}
    MaxInodes = 2
    MaxTunLives = 3
    None = None
    Brokers = {b1, b2}
    Fractions <- mc_Fractions
    MaxRtt = 2
    MaxRt = 3
    TMin = 1
    TMax = 2
    Second = 2
    MaxExchanges = 3
    MaxConnects = 2
    MaxReplies = 2
    Delegated <- mc_Delegated
    MaxScriptFaults = 1
    Demands <- mc_Demands
    MAX_ATTACHED_PROTOS = 3
    Stations = {a1, a2}
    NotAttached = NotAttached
INVARIANTS
    WaitIsBounded
    ReceivedAsSent
    NoStandOff
    AddressIsMapping
    ProofIsGenuine
    NoStraySetting
    CheckedStarts
    PidIsOwners
    DeviceIsFree
    NothingLeftBehind
    DeliveredToOwn
CHECK_DEADLOCK FALSE
