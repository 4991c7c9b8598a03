SPECIFICATION Spec
CONSTANTS
  f = f
  g = g
  null = null
  Funcs = {f}
  NoFunc <- null
  Reentrant <- MCReset
  MaxClk = 2
  MaxCycles = 1
  MaxList = 1
PROPERTIES EveryStepReturnsAtBoundary
CHECK_DEADLOCK FALSE
