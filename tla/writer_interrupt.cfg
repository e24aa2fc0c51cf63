SPECIFICATION Spec
CONSTANTS
  d1 = d1
  d2 = d2
  Runs <- TwoRuns
  NoRun = NoRun
  Faults <- SubscribeCrashExit
  MaxPoints = 2
  MaxStarts = 2
  MaxInterrupts = 3
CHECK_DEADLOCK FALSE
SYMMETRY TwoRunsAlike
 
PROPERTY SealedIsFinal
