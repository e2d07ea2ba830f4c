SPECIFICATION Spec
CONSTANTS
    MaxCmds = 4
    MaxBatch = 2
    MaxSignals = 0
    Kinds = {"ExecuteChildWorkflow", "GetChildWorkflowExecution", "Cancel"}
    SyncKinds = {"ExecuteChildWorkflow"}
    u1 = u1
    u2 = u2
    u3 = u3
    n1 = n1
    n2 = n2
    UpdateIDs = {}
    UpdateNames = {n1, n2}
    NameOf <- MCNameOf
    NoUpdate = NoUpdate
    MayCancel = TRUE
    MayReplay = FALSE
INVARIANTS
    AnsweredOnce
    NoRequestForgotten
    CancellerTracksPending
    RequestInvariant
