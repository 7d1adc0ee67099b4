CONSTANTS
    Node = {1, 2}
    Absent = Absent
    Window = 2
    RotateEvery = 1
    MaxRotate = 1
    MaxKem = 1
    MaxRetx = 1
    MaxLoss = 0
    MaxRemove = 1
    Writers = {2}
    MaxData = 2
SPECIFICATION Spec
INVARIANTS
    AtMostOnce
    DeliveredKeyed
CHECK_DEADLOCK FALSE
