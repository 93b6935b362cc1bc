SPECIFICATION FairSpec
CONSTANTS
  None = None
  snap = snap
  back = back
  disk = disk
  Claims = {c1}
  Sources = {snap, back, disk}
  SourceInfo <- MCSourceInfo
  Unit = 2
  Requests <- MCRequests
  Expansions <- MCExpansions
  MaxVolumes = 3
  MaxDisturbances = 5
  LateDelivery = TRUE
CHECK_DEADLOCK FALSE
INVARIANTS
  StableHandle
  CapacityReal
  RightSource
PROPERTIES
  DeletesOnlyReleased
  ClaimsServed
