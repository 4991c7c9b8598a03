\* Every call, from outside and from inside half steps, with exceptions.
SPECIFICATION Spec
CONSTANTS
  f = f
  g = g
  null = null
  Funcs <- MCFuncs
  NoFunc <- null
  Reentrant <- MCAllCalls
  MaxClk = 2
  MaxCycles = 1
  MaxList = 2
SYMMETRY MCSymmetry
INVARIANTS TypeOK DriveExclusion TombstonesFlagged HalfTickParity
PROPERTIES LeaseSpec NeverInvokesRemoved EveryLiveEntryRuns CycleDrivesBothEdges StepReturnsAtBoundary
\* A failed Assert exits the process.
CHECK_DEADLOCK FALSE
