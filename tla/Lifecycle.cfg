SPECIFICATION Spec
CONSTANTS
    r1 = r1
    Callers = {r1}
    NumWorkers = 2
    MaxDeaths = 2
    MaxActDeaths = 1
    EarlyDeath = FALSE
    Free = Free
INVARIANTS
    TypeOK
    OneGeneration
    OnlyStopTearsLock
    StoppedStaysStopped
    QuietMeansFresh
PROPERTIES
    StopEnds
    LoopEnds
    StaleIsPurged
CHECK_DEADLOCK FALSE
