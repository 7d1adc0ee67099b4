CONSTANTS
    Node = {1, 2}
    Absent = Absent
    Window = 2
    RotateEvery = 10
    MaxRotate = 0
    MaxKem = 2
    MaxRetx = 1
    MaxLoss = 1
    MaxRemove = 0
    Writers = {2}
    MaxData = 1
SPECIFICATION FairSpec
INVARIANTS
    CrossingConverges
PROPERTIES
    HandshakeCompletes
CHECK_DEADLOCK FALSE
