SPECIFICATION FairSpec
CONSTANTS
    Names = {"n1", "n2"}
    ServerIds = {s1, s2}
    NicSets <- NoneOrThree
    DefaultNetwork = 13
    Region = "eu01"
    OtherRegion = "eu02"
    Schemes = {"none", "openstack"}
    MaxDisturbances = 2
    Absent = Absent
    NotFound = NotFound
    Error = Error
INVARIANTS
    BoundToHost
PROPERTIES
    NeverEvicted
    AddressesStable
    EventuallySettled
CHECK_DEADLOCK FALSE
