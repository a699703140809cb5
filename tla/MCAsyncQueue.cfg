SPECIFICATION FairSpec
CONSTANTS
    Size = 2
    Producers = {p1, p2}
    Consumers = {c}
    MaxPush = 3
    NULL = NULL
INVARIANT TypeOK
INVARIANT AtMostOnce
INVARIANT Accounted
INVARIANT OrderUnlessLapped
PROPERTY PopReturns
PROPERTY PushReturnsUnlessLapped
PROPERTY DeliveredUnlessLapped
