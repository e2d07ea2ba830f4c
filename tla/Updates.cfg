SPECIFICATION Spec
CONSTANTS
    MaxCmds = 3
    MaxBatch = 2
    MaxSignals = 0
    Kinds = {"UpdateValidated", "UpdateCompleted", "SideEffect"}
    SyncKinds = {}
    u1 = u1
    u2 = u2
    u3 = u3
    n1 = n1
    n2 = n2
    UpdateIDs = {u1, u2, u3}
    UpdateNames = {n1, n2}
    NameOf <- MCNameOf
    NoUpdate = NoUpdate
    MayCancel = FALSE
    MayReplay = TRUE
INVARIANTS
    UpdateInvariant
    NoUpdateStranded
    UpdatesInOrder
    AcceptedCanComplete
PROPERTY UpdatesFollowProtocol
