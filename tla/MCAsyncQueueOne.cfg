SPECIFICATION FairSpec
CONSTANTS
    Size = 3
    Producers = {p}
    Consumers = {c}
    MaxPush = 7
    NULL = NULL
PROPERTY ImplementsBoundedQueue
