SPECIFICATION Spec
CONSTANTS
    Node = {n1, n2, n3, n4}
    Nobody = nobody
    Channel <- Channels
    MaxChannels = 4
    producers = {n1, n2}
    Faceless = {n3}
INVARIANTS
    RoutesToEveryProducer
    CostsAreDistances
PROPERTIES
    EachNodeOnce
    ImplementsShortestRoutes
SYMMETRY ProducersAlike
CHECK_DEADLOCK FALSE
