SPECIFICATION Spec
CONSTANTS
  i1 = i1
  i2 = i2
  j1 = j1
  dac = dac
  lockin = lockin
  Dac = Dac
  FastDac = FastDac
  None = None
  Instruments <- Objects
  Names <- TheNames
  Classes <- TheClasses
  NameOf <- TheNameOf
  ClassOf <- TheClassOf
  SuperOf <- TheSuperOf
  Configured <- Loadable
  Forced <- Reconnected
  Failures <- AllFailures
INVARIANTS
  Registered
  ConnectionOwned
