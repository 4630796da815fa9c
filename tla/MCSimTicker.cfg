SPECIFICATION FairSpec
CONSTANTS
    Period = {1, 2, 3}
    Handle = {h1, h2, h3}
    NoHandle = nil
    MaxVersion = 4
INVARIANTS
    TicksUnlessStopped
PROPERTIES
    ImplementsTicker
    KeepsTicking
