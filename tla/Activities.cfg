SPECIFICATION Spec
CONSTANTS
    a1 = a1
    l1 = l1
    r1 = r1
    r2 = r2
    Activities = {a1}
    Locals = {l1}
    Resetters = {r1}
    NumWorkers = 1
    MaxWorkers = 2
    Free = Free
INVARIANTS
    TypeOK
    RunningIsInFlight
    LivingIsFound
    ProbeWaitsForServe
PROPERTIES
    ResetsEnd
    HeartbeatsAnswered
    EndIsTold
