SPECIFICATION FairSpec
CONSTANTS
    other = other
    Size = 2
    Producers = {owner, other}
    Owner = owner
    Worker = worker
    MaxPush = 2
    MaxLog <- MCMaxLog
    Overflows = {"Block", "Discard"}
    NULL = NULL
INVARIANT WrittenOnce
INVARIANT OrderKept
INVARIANT DrainedToLastPop
PROPERTY AcceptedIsWritten
PROPERTY LogReturns
PROPERTY ReleaseReturns
CHECK_DEADLOCK FALSE
