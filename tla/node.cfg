SPECIFICATION FairSpec
CONSTANTS
    Pods = {p1, p2}
    Staging = Staging
    Late = Late
    Gib = 2
    VolumeSizes = {2, 4}
    Claims = {3}
    RescanOnResize = TRUE
    MaxDisturbances = 5
INVARIANTS
    AnswersTrue
PROPERTIES
    ImplementsExclusive
    DataSurvives
    RestoredIsResized
    PodsServed
CHECK_DEADLOCK FALSE
