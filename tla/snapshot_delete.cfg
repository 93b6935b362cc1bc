SPECIFICATION Spec
CONSTANTS
  None = None
  Names = {n1}
  MaxObjects = 2
  MaxDisturbances = 3
CHECK_DEADLOCK FALSE
INVARIANTS
  DeletedIsGone
