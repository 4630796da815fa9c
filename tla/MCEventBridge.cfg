SPECIFICATION FairSpec
CONSTANTS
    Node = {n1, n2}
    Clock = {c1, c2}
    Worker = {w1}
    Sim = Sim
    None = None
    MaxEvents = 2
INVARIANTS
    RunsForItsOwner
    LiveEventsBacked
PROPERTIES
    ImplementsService
    EventuallySettled
