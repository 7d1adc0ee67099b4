CONSTANTS
    Node = {1, 2, 3}
    Links <- Chain
    Dist <- ChainDist
    Absent = Absent
    LinkCosts = {1}
    Margin = 1
    CostMax = 2
    DepthMod = 2
    Grace = 1
    MinInterval = 1
    MaxInterval = 2
    MaxDowns = 1
SPECIFICATION FairSpec
INVARIANTS
    TypeOK
    CostsHonest
    ParentIsPeer
    Refreshes
PROPERTY
    RootAgreement
