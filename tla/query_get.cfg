SPECIFICATION ReconcileSpec
CONSTANTS
    Volumes = {v1}
    Nodes = {n1, n2}
    None = None
    NodeCapacity = 1
    MaxDisturbances = 2
INVARIANTS
    GetVolumeAnswers
CHECK_DEADLOCK FALSE
