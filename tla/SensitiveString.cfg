CONSTANTS
    Str = {s1, s2}
    Buf = {b1, b2, b3}
    None = None
    Default = 1
    MaxSize = 2
    Crowded = {b1, b2}
    MaxFailed = 2
SPECIFICATION Spec
INVARIANTS TypeOK OwnedOnce WithinBlock FreedIsClean NothingLeaks StaysLocked PushBackIsSafe
CHECK_DEADLOCK FALSE
SYMMETRY Symmetry
