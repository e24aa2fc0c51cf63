SPECIFICATION FairSpec
CONSTANTS
  Parameter <- abcd
  source <- DelegatesToC
  root_instrument <- AtHome
  group <- TwoInOneGroup
  ramped <- OnlyC
  Measured <- ThreeOfTwo
  max_workers = 2
  MaxValue = 2
  MaxCalls = 1
  MaxKnobs = 1
  MaxFailures = 1
CHECK_DEADLOCK FALSE
INVARIANTS
  OneThreadPerInstrument
  CacheTrue
  OutputIsFresh
PROPERTIES
  MovesAsAsked
  CallReturns
