\* One engine, two registrations of any kinds, coverage that may raise.
SPECIFICATION Spec
CONSTANTS
  e1 = e1
  e2 = e2
  none = none
  NoRoot <- MCNoRoot
  Engines = {e1}
  NoEngine = none
  Capacity = 2
  Sources <- MCWaits
  Values = {"T", "F"}
  Root <- MCRoot
  Coverage = TRUE
  CoverageThrows = TRUE
  MaxCount = 3
  MaxGeneration = 1
  MaxHalves = 2
INVARIANTS TypeOK SlotPartition FiredIsReported CyclesRemain
PROPERTIES CoveredStaysArmed
