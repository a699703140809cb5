SPECIFICATION FairSpec
CONSTANTS
    Step = 2
    Lens <- MCLens
    MaxId = 3
    Delays = {0, 13}
    Intervals = {5}
    Times = {1, 2}
    Elapsed = {1, 5}
INVARIANT OnTime
INVARIANT ClockKept
INVARIANT RemovedSilent
INVARIANT RingsOK
PROPERTY TimersEnd
CHECK_DEADLOCK FALSE
