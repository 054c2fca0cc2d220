CONSTANTS
    N = 3
    Workers = {w1, w2}
    Limits = {0, 2}
    None = None
SPECIFICATION FairSpec
INVARIANTS
    FirstErrorIsCause
PROPERTIES
    ImplementsFetch
    PoolEnds
