CONSTANTS
    Original = original
    b1 = b1
    b2 = b2
    Brokers = {b1, b2}
    Lists <- MCLists
    Statuses <- AllStatuses
    Confs <- AnyModes
    RetryDelay = 1
    RetryDelayMax = 3
    RetryWrap = 8
    NULL = NULL
    Addresses = {a1, a2}
    a1 = a1
    a2 = a2
    Answers <- MCAnswers
    MaxBrokers = 3
    T = 1
    MaxOrphans = 1
SPECIFICATION MCSpec
INVARIANTS SortedByDistance
PROPERTIES ServersAreTried
