CONSTANTS
    Node = {1, 2}
    Slots = {l1, l2, l3}
    DialChoices <- TwoDialTasks
    MaxLinks = 2
    MaxPerIp = 1
    MaxPending = 2
    MaxBreaks = 0
SPECIFICATION Spec
PROPERTY
    RefusesOnlyHandshakes
CHECK_DEADLOCK FALSE
