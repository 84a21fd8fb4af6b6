SPECIFICATION FairSpec
CONSTANTS
    Requests = {r1, r2}
    NoRequest = NoRequest
    t1 = t1
    t2 = t2
    Tokens = {t1, t2}
    Pins <- MCPins
    Calls <- MCLiveCalls
    Registered <- MCRegistered
    NoResult = NoResult
    ChanCap = 1
    EventBound = 2
INVARIANTS
    StreamIsComplete
    LockIsNeverStuck
PROPERTIES
    EveryRequestIsAnswered
