SPECIFICATION FairSpec
CONSTANTS
    Order <- MCOrder
    Host = {"go", "python"}
    Version = {1, 2, 3, 4}
    Cost <- MCCost
    Differs = {3}
    MaxCommits = 3
    MaxCrashes = 1
    MaxMisses = 1
INVARIANTS
    LatestAgrees
PROPERTIES
    PublishesWhole
    NoChurn
    UnchangedIsCurrent
    MeasureEnds
CHECK_DEADLOCK FALSE
