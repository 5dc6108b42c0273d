CONSTANTS
    None = None
    Address = {a1}
    Watched = {a1}
    Goroutine = {g1}
    Limit <- MCLimit
    Minute = 2
    MaxDelay = 0
    MaxWindows = 1
    Horizon = 3
SPECIFICATION Spec
INVARIANT
    MinuteLimit
