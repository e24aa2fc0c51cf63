SPECIFICATION Spec
CONSTANTS
  Parameter <- abcd
  source <- DelegatesToC
  root_instrument <- Abroad
  group <- TwoInOneGroup
  ramped <- OnlyC
  Measured <- ThreeOfTwo
  max_workers = 2
  MaxValue = 2
  MaxCalls = 1
  MaxKnobs = 0
  MaxFailures = 0
CHECK_DEADLOCK FALSE
INVARIANT
  OneThreadPerInstrument
