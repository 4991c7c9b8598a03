\* Two engines compete for the clock; slots are used again.
SPECIFICATION Spec
CONSTANTS
  e1 = e1
  e2 = e2
  none = none
  NoRoot <- MCNoRoot
  Engines = {e1, e2}
  NoEngine = none
  Capacity = 2
  Sources <- MCShared
  Values = {"X"}
  Root <- MCRoot
  Coverage = FALSE
  CoverageThrows = FALSE
  MaxCount = 2
  MaxGeneration = 2
  MaxHalves = 2
SYMMETRY MCSymmetry
INVARIANTS ActiveMeansOwner
PROPERTIES LeaseSpec RegistrySpec
