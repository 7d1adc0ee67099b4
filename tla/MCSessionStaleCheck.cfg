CONSTANTS
    Node = {1, 2}
    Absent = Absent
    Window = 2
    RotateEvery = 10
    MaxRotate = 0
    MaxKem = 1
    MaxRetx = 0
    MaxLoss = 0
    MaxRemove = 1
    Writers = {1}
    MaxData = 1
SPECIFICATION Spec
INVARIANT
    EncryptsEstablished
CHECK_DEADLOCK FALSE
