SPECIFICATION FairSpec
CONSTANTS
  d1 = d1
  d2 = d2
  Runs <- TwoRuns
  NoRun = NoRun
  Faults <- NoFaults
  MaxPoints = 3
  MaxStarts = 2
  MaxInterrupts = 0
CHECK_DEADLOCK FALSE
PROPERTIES
  MainReturns
  ExitCompletes
  RowsReachTable
  ImplementsRunLog
