CONSTANTS
    Requests = {r1, r2, r3}
    Tokens = {t1}
    Buckets = {b1, b2}
    NoRequest = NoRequest
    NoBucket = NoBucket
    NoToken = NoToken
    RingCap = 1
    ChannelCap = 1
    Window = 1
    MinTotal = 2
    MaxInflight = 1
    MaxFrames = 1
    Scripts <- MCScripts
SPECIFICATION FairSpec
INVARIANTS TokenCap EndsOnce AlertSeesRecent DeltasAccounted
PROPERTIES CallsEnd
CHECK_DEADLOCK FALSE
