SPECIFICATION SSpec
CONSTANTS
    N = 2
    Versions = {v1, v2}
    Broken <- MCBroken
    Torn = Torn
    Absent = Absent
    MaxOrphans = 1
    Requests = {r1, r2}
    NoRequest = NoRequest
    NoResult = NoResult
SYMMETRY Symmetry
INVARIANTS
    StatusTellsTheHost
PROPERTIES
    LeftInQueueChangesNothing
