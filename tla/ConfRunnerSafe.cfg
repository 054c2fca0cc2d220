SPECIFICATION Spec
CONSTANTS
    MaxRelease = 3
    ImageIDs <- ThreeReleases
    Allow = {1, 2}
    Ignore = {2}
    Bases = {"web", "db"}
    Selected <- WebNames
    Images = {"i1", "i2", "own", "other"}
    Descendants <- BuiltFrom
    MaxRuns = 2
    MaxStarts = 2
    MaxFaults = 2
    None = None

INVARIANT OnlySelectedIsTouched
INVARIANT LossIsReported
CHECK_DEADLOCK FALSE
