SPECIFICATION Spec
CONSTANTS
    Pids = {p1, p2, p3}
    NoPid = NoPid
    Invocations = {i1, i2}
    Polls = 2
SYMMETRY Symmetry
INVARIANTS
    OneTrackedDaemon
PROPERTIES
    StopLeavesNone
