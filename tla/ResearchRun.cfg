SPECIFICATION FairSpec
CONSTANTS
  a1 = a1
  a2 = a2
  b1 = b1
  c1 = c1
  Urls <- SomeUrls
  PageOf <- SomePages
  Listings <- SomeLists
  ScrapeTop = 2
  Concurrency = 2
  SocialTries = 2
  Http = 3
  TTL = 4
  Window = 5
  MaxAttempts = 3
INVARIANTS LeaseOutlivesJob OutcomeIsFair ResearchMetaExact
PROPERTIES RefinementIsSafe RequestEnds
CHECK_DEADLOCK FALSE
