SPECIFICATION Spec
CONSTANTS
  Calls = {c1, c2}
  Requests <- MCRequests
  Alone <- MCAlone
  MaxRequests = 3
  Finds <- MCFinds
  Places = 3
  Scale = 113460
  MaxResults = 3
  TTL = 1
  Deadline = 1
  MaxTime = 3
SYMMETRY Sym
INVARIANTS RowsKeepMeaning AnswerAge AskIsHonoured AnswerIsFused
