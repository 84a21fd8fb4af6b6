SPECIFICATION FairSpec
CONSTANTS
    unknown = unknown
    rootless = rootless
    Shas = {s1, s2, unknown, rootless}
    Unknown <- MCUnknown
    Rootless <- MCRootless
    Mints = TRUE
    MaxAttempts = 3
    Mixed = Mixed
    MaxOrphans = 1
INVARIANTS
    BackoffFits
    OkMeansApplied
PROPERTIES
    AppliesWhatWasAsked
    CancelledRunOnlyWipes
    CancelledRunEndsSoon
    EveryRunEnds
