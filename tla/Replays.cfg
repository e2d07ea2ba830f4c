SPECIFICATION Spec
CONSTANTS
    c1 = c1
    c2 = c2
    Callers = {c1, c2}
    Kinds = {"ReplayWorkflow", "DownloadWorkflowHistory", "ReplayFromJSON", "ReplayWorkflowHistory", "GetNames"}
    MaxEvents = 2
INVARIANTS
    TypeOK
    OKIsWhole
    SavedParses
PROPERTIES
    CrashedBeforeDial
    CallsAnswered
