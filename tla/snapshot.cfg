SPECIFICATION QuerySpec
CONSTANTS
  None = None
  Names = {n1}
  MaxObjects = 3
  MaxDisturbances = 5
CHECK_DEADLOCK FALSE
INVARIANTS
  ReadyIsReady
  OneOfEach
  ListingTrue
PROPERTIES
  NothingLost
  SnapshotsServed
