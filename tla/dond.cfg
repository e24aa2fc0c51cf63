SPECIFICATION Spec
CONSTANTS
  x = x
  y = y
  z = z
  Scans <- TheScans
  Params <- AllParams
  Coarse <- OnlyZ
  Unset = Unset
  Raised <- AllRaised
CHECK_DEADLOCK FALSE
INVARIANTS
  RowsAreTrue
  GroupsInStep
  PartialIsMarked
  NoneLeftRunning
