SPECIFICATION FairSpec
CONSTANTS
  d1 = d1
  d2 = d2
  Runs <- OneRun
  NoRun = NoRun
  Faults <- SubscribeOnly
  MaxPoints = 1
  MaxStarts = 1
  MaxInterrupts = 0
CHECK_DEADLOCK FALSE
PROPERTY ExitCompletes
