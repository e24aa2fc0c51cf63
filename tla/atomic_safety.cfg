SPECIFICATION Spec
CONSTANTS
  Faults <- AllFaults
  MaxBlocks = 3
  MaxStatements = 2
  MaxDepth = 3
  MaxSigints = 3
CHECK_DEADLOCK FALSE
INVARIANTS
  AllOrNothing
  DoneIsDurable
  IdleIsReady
PROPERTY FirstSigintWaits
