CONSTANTS
    n1 = n1
    n2 = n2
    slack = slack
    None = None
    Notifiers = {n1, n2}
    Names = {slack}
    Closers = {c1, c2}
    Depth = 1
    MaxAttempts = 2
    MaxEvents = 3
    NameOf <- OneName
    SlowSets <- OneStall
SPECIFICATION FairSpec
INVARIANTS
    Accounted
    CloseDrains
PROPERTIES
    Isolated
CHECK_DEADLOCK FALSE
