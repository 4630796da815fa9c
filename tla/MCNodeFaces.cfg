SPECIFICATION Spec
CONSTANTS
    Node = {n1, n2}
    Prefix = {a}
    Interfaces = 1
    MaxFace = 7
SYMMETRY Symmetry
INVARIANTS
    FacesAgree
    NoDanglingRoute
    NeighborsOnEveryLink
PROPERTY
    ImplementsPortRoutes
CHECK_DEADLOCK FALSE
