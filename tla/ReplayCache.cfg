SPECIFICATION Spec
CONSTANTS
    Tokens = {t1, t2, t3}
    Slots = {s1, s2}
    Free = Free
    Never = Never
    Lifetime = 2
    Gap = 1
    TTL = 3
    Capacity = 2
    Burst = 2
    MaxTime = 8
SYMMETRY MCSymmetry
INVARIANTS
    EntriesOutliveTokens
PROPERTIES
    FirstSightingsOnly
CHECK_DEADLOCK FALSE
