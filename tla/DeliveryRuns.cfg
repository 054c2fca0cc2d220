SPECIFICATION FairSpec
CONSTANTS
    MaxRelease = 2
    Before = 1
    MaxDials = 2
    MaxRuns = 1
    MaxFaults = 1
    SubBuffer = 1
    WireBuffer = 2
    Foreign = Foreign
    Published = Published

INVARIANT HintIsFollowed
PROPERTY HintsInOrder
PROPERTY Converges
PROPERTY DeadIsForgotten
PROPERTY CancelReturns
