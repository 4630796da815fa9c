SPECIFICATION FairSpec
CONSTANTS
    Expr = {x1, x2}
    None = None
    MaxToken = 2
    MaxStarts = 3
INVARIANTS
    OwnData
    EntryBacked
    NoIdleTimeout
PROPERTIES
    ImplementsPromise
    EventuallyAnswered
CHECK_DEADLOCK FALSE
