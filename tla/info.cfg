SPECIFICATION InfoSpec
CONSTANTS
    Requests = {r1, r2}
    SearchOrder <- MCOrder
    TmpEmpty = TRUE
    Absent = Absent
    MaxDisturbances = 2
    Volumes = {"filesystem", "block", "foreign"}
    Kind <- MCKind
    Slots = 2
INVARIANTS
    NothingMounted
    CountIsHonest
PROPERTIES
    ZoneFollowsId
    KnownByService
CHECK_DEADLOCK FALSE
