SPECIFICATION AnsweredSpec
CONSTANTS
    o1 = o1
    MaxKeyId = 3
    MaxSecret = 3
    Operators = {o1}
    SyncCap = 2
    RequireProxy = TRUE
    DeletesOnBan = FALSE
    Nobody = Nobody
    Unreadable = {1}
PROPERTIES ProbedOnceADay SyncReachesAll
CHECK_DEADLOCK FALSE
