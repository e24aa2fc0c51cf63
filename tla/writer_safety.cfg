SPECIFICATION Spec
CONSTANTS
  d1 = d1
  d2 = d2
  Runs <- TwoRuns
  NoRun = NoRun
  Faults <- AllFaults
  MaxPoints = 3
  MaxStarts = 2
  MaxInterrupts = 0
CHECK_DEADLOCK FALSE
SYMMETRY TwoRunsAlike
INVARIANTS
  WriterReleased
  RowsInOrder
  OrderInv
  JoinIsDurable
PROPERTY MainWritesAlone
