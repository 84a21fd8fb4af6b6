SPECIFICATION Spec
CONSTANTS
    Requests = {r1, r2, r3}
    NoRequest = NoRequest
    t1 = t1
    t2 = t2
    Tokens = {t1, t2}
    Pins <- MCPins
    Calls <- MCCalls
    Registered <- MCRegistered
    NoResult = NoResult
    ChanCap = 1
    EventBound = 0
SYMMETRY MCSymmetry
INVARIANTS
    TypeOK
    OneRunAtATime
    AtMostOncePerToken
    RunsAreAuthorised
    StatusCoversAnswers
PROPERTIES
    RunsAreSerial
