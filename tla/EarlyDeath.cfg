SPECIFICATION Spec
CONSTANTS
    r1 = r1
    Callers = {}
    NumWorkers = 1
    MaxDeaths = 1
    MaxActDeaths = 0
    EarlyDeath = TRUE
    Free = Free
INVARIANT RecoversWithNewWorker
CHECK_DEADLOCK FALSE
