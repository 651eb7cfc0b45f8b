SPECIFICATION Spec
CONSTANTS
  c1 = c1
  c2 = c2
  c3 = c3
  tavily = tavily
  firecrawl = firecrawl
  Calls = {c1, c2, c3}
  Services = {tavily, firecrawl}
  DeleteOnBan = {firecrawl}
  MaxKeyId = 1
  MaxFails = 2
  MaxCredits = 1
  MaxSecret = 2
  Cap = 2
  TTL = 1
  MaxToken = 3
  UnknownWeight = 1
SYMMETRY CallSymmetry
PROPERTIES BanDeletesTheBannedKey
