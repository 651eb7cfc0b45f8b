SPECIFICATION Spec
SYMMETRY LegSymmetry
CONSTANTS
  l1 = l1
  l2 = l2
  Legs = {l1, l2}
  RequireProxy = TRUE
  MaxKeyToken = 2
  MaxNodeId = 1
  MaxFails = 1
  TTL = 1
  Hours = 1
  MaxToken = 2
INVARIANTS HoldsAccounted NeverBare
PROPERTIES PoolSpec
