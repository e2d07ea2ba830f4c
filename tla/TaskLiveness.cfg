SPECIFICATION FairSpec
CONSTANTS
    MaxCmds = 2
    MaxBatch = 2
    MaxSignals = 1
    Kinds = {"ExecuteLocalActivity", "GetVersion", "UpsertMemo", "ContinueAsNew", "Panic", "Response", "UpdateValidated"}
    SyncKinds = {}
    u1 = u1
    u2 = u2
    u3 = u3
    n1 = n1
    n2 = n2
    UpdateIDs = {u1, u3}
    UpdateNames = {n1, n2}
    NameOf <- MCNameOf
    NoUpdate = NoUpdate
    MayCancel = FALSE
    MayReplay = FALSE
PROPERTIES
    ResultsReachWorker
    UpdatesReachWorker
