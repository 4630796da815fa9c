SPECIFICATION Spec
CONSTANTS
    Node = {n1, n2}
    Prefix = {a}
    Interfaces = 1
    MaxFace = 8
SYMMETRY Symmetry
INVARIANTS
    SyncOnEveryLink
CHECK_DEADLOCK FALSE
