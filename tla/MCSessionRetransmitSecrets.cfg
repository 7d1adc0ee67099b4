CONSTANTS
    Node = {1, 2}
    Absent = Absent
    Window = 2
    RotateEvery = 10
    MaxRotate = 0
    MaxKem = 1
    MaxRetx = 1
    MaxLoss = 1
    MaxRemove = 0
    Writers = {}
    MaxData = 0
SPECIFICATION Spec
INVARIANT
    SecretsConverge
CHECK_DEADLOCK FALSE
