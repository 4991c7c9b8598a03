SPECIFICATION Spec
CONSTANTS
  Names = {n1, n2, n3}
  Clocks = {clock}
  Quotas = {2}
  MaxLives = 2
  MaxCount = 2
SYMMETRY NameSymmetry
INVARIANTS
  IndexesAgree
  ResultsAreLatest
  CalledOncePerEdge
  QuotaHolds
