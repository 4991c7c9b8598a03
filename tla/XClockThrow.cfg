SPECIFICATION Spec
CONSTANTS
  f = f
  g = g
  null = null
  Funcs = {f}
  NoFunc <- null
  Reentrant <- MCThrow
  MaxClk = 2
  MaxCycles = 1
  MaxList = 1
PROPERTIES EveryCycleDrivesBothEdges
CHECK_DEADLOCK FALSE
