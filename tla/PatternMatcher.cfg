\* Every trace of up to five samples, with clears and resets between.
SPECIFICATION Spec
CONSTANTS
  NoRoot <- MCNoRoot
  Roots <- MCRoots
  Configs <- MCConfigs
  Samples <- MCSamples
  MaxSamples = 5
  MaxStarted = 4
INVARIANTS TypeOK Conservation WithinCapacity SequenceMatchesReference ConditionMatchesReference AdjacentNeverExhausts
