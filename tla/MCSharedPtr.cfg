SPECIFICATION PtrSpec
CONSTANTS
    Shareds = {s1, s2, s3}
    Weaks = {w1, w2}
SYMMETRY Alike
INVARIANT HeldIsAlive
INVARIANT DeletedOnce
INVARIANT NothingLeaks
CHECK_DEADLOCK FALSE
