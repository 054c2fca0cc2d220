CONSTANTS
    None = None
    Repos = {r1}
    TagsOf <- TwoTags
    PageLimits = {0, 1, 2}
    ServerPages = {0, 1}
    Lifetimes = {0, 1, 3}
    DefaultLife = 2
    Margin = 1
SPECIFICATION FairSpec
INVARIANTS
    ListingExact
    ReuseIsSafe
PROPERTIES
    Recovers
