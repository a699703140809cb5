SPECIFICATION Spec
CONSTANTS
    other = other
    Size = 2
    Producers = {owner}
    Owner = owner
    Worker = worker
    MaxPush = 2
    MaxLog <- MCMaxLog
    Overflows = {"Block"}
    NULL = NULL
INVARIANT ReleaseKeepsMessages
CHECK_DEADLOCK FALSE
