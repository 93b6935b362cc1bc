SPECIFICATION Spec
CONSTANTS
    Absent = Absent
    Bad = Bad
    Values <- MCValues
    Start <- MCStart
    Plans = {"p10", "p50"}
    Flavors <- MCFlavors
    DefaultPlan = "p10"
    DefaultTCPIdleTimeout = 7200
    DefaultUDPIdleTimeout = 240
    EphemeralIP = "ip1"
    HealthChecks = {"c1"}
    MaxEdits = 3
INVARIANTS
    ImmutableIsExact
    NoUpdateLoop
PROPERTIES
    NoHistory
CHECK_DEADLOCK FALSE
