SPECIFICATION FairSpec
CONSTANTS
  non_dependencies <- TwoTrees
  Shapes <- WideOrTight
  LoadsMayFail = TRUE
  MaxPoints = 2
  MaxChunk = 2
CHECK_DEADLOCK FALSE
INVARIANTS
  CacheIsPrefix
  LiveEqualsLoaded
  LastLoadIsWhole
PROPERTIES
  CacheOnlyGrows
  ReaderCatchesUp
