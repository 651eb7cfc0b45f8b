SPECIFICATION FairSpec
CONSTANTS
  t1 = t1
  t2 = t2
  e1 = e1
  f1 = f1
  x1 = x1
  NoKey = NoKey
  Keys <- Pool
  VendorOf <- PoolVendor
  Plans <- SomePlans
  Replies <- SomeReplies
  MaxAttempts = 2
INVARIANTS AnswerPrecedence MetaIsExact AccountsKept
PROPERTIES SearchEnds
CHECK_DEADLOCK FALSE
