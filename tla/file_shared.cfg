SPECIFICATION Spec
CONSTANTS
  p1 = p1
  p2 = p2
  Process <- TwoProcesses
  supports <- OneIsOlder
  Alters <- FirstAlters
  Inserted <- Columns
  Batches <- Overlapping
  MaxExperiments = 2
  MaxRuns = 3
CHECK_DEADLOCK FALSE
INVARIANTS
  VersionHasSchema
  RunsNumbered
  ExtractIsWhole
