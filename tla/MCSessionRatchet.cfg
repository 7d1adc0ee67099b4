CONSTANTS
    Node = {1, 2}
    Absent = Absent
    Window = 2
    RotateEvery = 1
    MaxRotate = 1
    MaxKem = 1
    MaxRetx = 0
    MaxLoss = 0
    MaxRemove = 0
    Writers = {1, 2}
    MaxData = 1
SPECIFICATION Spec
INVARIANT
    RatchetConnected
CHECK_DEADLOCK FALSE
