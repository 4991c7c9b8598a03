\* A sample that raises leaves the counter of its source at zero.
SPECIFICATION Spec
CONSTANTS
  e1 = e1
  e2 = e2
  none = none
  NoRoot <- MCNoRoot
  Engines = {e1}
  NoEngine = none
  Capacity = 1
  Sources <- MCCounting
  Values = {"T", "F"}
  Root <- MCRoot
  Coverage = TRUE
  CoverageThrows = TRUE
  MaxCount = 3
  MaxGeneration = 1
  MaxHalves = 2
INVARIANTS CyclesAlwaysRemain
