SPECIFICATION FairSpec
CONSTANTS
    N = 2
    bad = bad
    Versions = {v1, v2, bad}
    Broken <- MCBroken
    Torn = Torn
    Absent = Absent
    MaxOrphans = 1
INVARIANTS
    OkMeansDeployed
    RolloutInOrder
    BrokenStopsAtFirst
    TornStaysTorn
PROPERTIES
    CreatedAsPinned
    CancelledRunOnlyPins
    CancelledRunEndsSoon
    EveryRunEnds
