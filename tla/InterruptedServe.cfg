SPECIFICATION Spec
CONSTANTS
    r1 = r1
    Callers = {}
    NumWorkers = 2
    MaxDeaths = 0
    MaxActDeaths = 0
    EarlyDeath = FALSE
    Free = Free
INVARIANT StopReleasesEverything
CHECK_DEADLOCK FALSE
