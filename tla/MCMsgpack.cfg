SPECIFICATION Spec
CONSTANTS
    Bits = 3
    FixLen = 14
    FixStr = 2
    FixArray = 2
    Word = 2
    Items <- MCItems
    Asks <- MCAsks
    MaxItems = 2
INVARIANT TypeOK
INVARIANT Unpacked
INVARIANT Carried
CHECK_DEADLOCK FALSE
