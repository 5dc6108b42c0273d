CONSTANTS
    None = None
    Address = {a1, a2}
    Watched = {a1}
    Goroutine = {g1, g2}
    Limit <- MCLimit
    Minute = 2
    MaxDelay = 1
    MaxWindows = 1
    Horizon = 6
SPECIFICATION Spec
INVARIANTS
    TypeOK
    RateBounded
    TableBounded
PROPERTY
    LiveWindowsStay
SYMMETRY GoroutineSymmetry
