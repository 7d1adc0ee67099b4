CONSTANTS
    Node = {1, 2}
    Links <- Pair
    Dist <- PairDist
    Absent = Absent
    LinkCosts = {1}
    Margin = 1
    CostMax = 2
    DepthMod = 4
    Grace = 1
    MinInterval = 1
    MaxInterval = 2
    MaxDowns = 0
SPECIFICATION FairSpec
PROPERTY
    BacksOff
