SPECIFICATION Spec
CONSTANTS
  c1 = c1
  c2 = c2
  tavily = tavily
  Calls = {c1, c2}
  Services = {tavily}
  DeleteOnBan = {}
  MaxKeyId = 2
  MaxFails = 2
  MaxCredits = 1
  MaxSecret = 3
  Cap = 2
  TTL = 1
  MaxToken = 2
  UnknownWeight = 2
SYMMETRY CallSymmetry
INVARIANTS ActiveRowIsClean
PROPERTIES BestKeyServes VerdictsStick
