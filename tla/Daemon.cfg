SPECIFICATION DFairSpec
CONSTANTS
    Requests = {r1, r2}
    NoRequest = NoRequest
    t1 = t1
    t2 = t2
    Tokens = {t1, t2}
    Pins <- MCPins
    Calls <- MCCalls
    Registered <- MCRegistered
    NoResult = NoResult
    ChanCap = 1
    EventBound = 0
    MaxStarts = 2
INVARIANTS
    OverlapTakesAbruptExit
    SecondRunTakesRestart
PROPERTIES
    NoRequestHangs
