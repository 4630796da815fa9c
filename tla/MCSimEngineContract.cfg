SPECIFICATION Spec
CONSTANTS
    Expr = {x1}
    None = None
    MaxToken = 1
    MaxStarts = 1
INVARIANTS
    ErrorExcludesCallback
CHECK_DEADLOCK FALSE
