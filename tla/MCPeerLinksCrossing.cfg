CONSTANTS
    Node = {1, 2}
    Slots = {l1, l2, l3}
    DialChoices <- BothDial
    MaxLinks = 2
    MaxPerIp = 2
    MaxPending = 2
    MaxBreaks = 0
SPECIFICATION FairSpec
PROPERTY
    StaysConnected
CHECK_DEADLOCK FALSE
