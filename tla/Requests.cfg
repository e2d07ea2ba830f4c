SPECIFICATION Spec
CONSTANTS
    MaxCmds = 3
    MaxBatch = 2
    MaxSignals = 2
    Kinds = {"ExecuteActivity", "NewTimer", "SignalExternalWorkflow", "SideEffect", "Cancel", "CompleteWorkflow"}
    SyncKinds = {"NewTimer"}
    u1 = u1
    u2 = u2
    u3 = u3
    n1 = n1
    n2 = n2
    UpdateIDs = {}
    UpdateNames = {n1, n2}
    NameOf <- MCNameOf
    NoUpdate = NoUpdate
    MayCancel = FALSE
    MayReplay = FALSE
INVARIANTS
    TypeOK
    AnsweredOnce
    NoRequestForgotten
    StartThenSignalsInOrder
    TaskHandsOverEverything
    CancellerTracksPending
