SPECIFICATION FairSpec
CONSTANTS
    MaxCmds = 2
    MaxBatch = 1
    MaxSignals = 0
    Kinds = {"ExecuteChildWorkflow", "GetChildWorkflowExecution"}
    SyncKinds = {}
    u1 = u1
    u2 = u2
    u3 = u3
    n1 = n1
    n2 = n2
    UpdateIDs = {}
    UpdateNames = {n1, n2}
    NameOf <- MCNameOf
    NoUpdate = NoUpdate
    MayCancel = FALSE
    MayReplay = FALSE
PROPERTY KnownChildReachesWorker
