CONSTANTS
  NoRoot <- MCNoRoot
  Roots <- MCRoots
  Groups <- MCGroups
  Looks <- MCLooks
  MaxCounter = 3
  MaxEpoch = 1
  MaxTicks = 3
SPECIFICATION Spec
INVARIANTS
  TypeOK
  PointsAccountForSamples
  IllegalOnRecord
  SharedExecutionsAgree
PROPERTIES
  NeverDecreases
  TransitionsAreAdjacent
