CONSTANTS
    w1 = w1
    w2 = w2
    None = None
    Watchers = {w1, w2}
    Tags = {1, 2}
    Digests = {d1, d2}
    OwnerOf <- TwoOwners
    MaxMoves = 2
    MaxFaults = 1
SPECIFICATION FairSpec
INVARIANTS
    UniqueSequences
    SeenIsCovered
PROPERTIES
    ChannelAdvances EventuallySeen
