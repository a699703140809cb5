SPECIFICATION Spec
CONSTANTS
    Size = 3
    Byte = {0, 1}
    AsChar <- MCAsChar
    MaxArg = 4
INVARIANT TypeOK
INVARIANT SegmentsOK
PROPERTY ImplementsFifo
