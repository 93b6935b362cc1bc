SPECIFICATION LifeSpec
CONSTANTS
    Volumes = {v1, v2}
    Nodes = {n1, n2}
    None = None
    NodeCapacity = 1
    MaxDisturbances = 4
SYMMETRY Symmetry
INVARIANTS
    PublishedIsAttached
    UnpublishedIsDetached
PROPERTIES
    EveryVolumeExclusive
CHECK_DEADLOCK FALSE
