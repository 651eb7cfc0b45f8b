SPECIFICATION LivePoolSpec
CONSTANTS
  MaxNodeId = 2
  MaxFails = 2
  TTL = 1
  Hours = 2
  MaxToken = 4
INVARIANTS HoldsAreExact EnabledNodeIsClean
PROPERTIES NodeBackoff OffNodeReturns
