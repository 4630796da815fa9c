SPECIFICATION Spec
CONSTANTS
    Node = {n1, n2}
    None = none
    MaxRouters = 3
    MaxPublished = 3
INVARIANTS
    
    QuietWithoutPrefixes
    PeersTrusted
PROPERTY
    StartsOnce
SYMMETRY NodesAlike
