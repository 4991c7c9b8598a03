\* A drive always returns, whatever orderly calls user code makes.
SPECIFICATION FairSpec
CONSTANTS
  f = f
  g = g
  null = null
  Funcs = {f}
  NoFunc <- null
  Reentrant <- MCOrderly
  MaxClk = 2
  MaxCycles = 2
  MaxList = 1
PROPERTIES DriveReturns
CHECK_DEADLOCK FALSE
