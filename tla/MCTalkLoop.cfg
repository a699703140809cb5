SPECIFICATION FairSpec
CONSTANTS
    Handles = {1, 2}
    Kinds = {"tcp", "kcp"}
    Ping = 2
    PingOut = 1
    Tick = 1
    FirstTick = 2
    MaxLate = 1
INVARIANT TicksOfLinks
INVARIANT OnTick
PROPERTY DisconnectKept
PROPERTY DeadPeersRemoved
CHECK_DEADLOCK FALSE
