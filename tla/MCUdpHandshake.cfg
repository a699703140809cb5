SPECIFICATION FairSpec
CONSTANTS
    Ports = {1, 2, 3}
    Keys = {0, 7}
    Kinds = {"udp", "kcp"}
    PingOut = 1
    MaxNet = 2
    MaxTwice = 1
INVARIANT TypeOK
INVARIANT Paired
INVARIANT OwnData
PROPERTY SilentRemoved
CHECK_DEADLOCK FALSE
