CONSTANTS
    Node = {1, 2}
    Slots = {l1, l2, l3}
    DialChoices <- AllDialChoices
    MaxLinks = 2
    MaxPerIp = 2
    MaxPending = 2
    MaxBreaks = 1
SPECIFICATION FairSpec
INVARIANTS
    CountsLinks
    SendersLive
PROPERTY
    OneSidedStays
CHECK_DEADLOCK FALSE
