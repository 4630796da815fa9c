SPECIFICATION TrieSpec
CONSTANTS
    a = a
    b = b
    Name <- Names
    Handler = {h1, h2}
    NoHandler = none
INVARIANTS
    LongestPrefixWins
    NoDeadBranch
PROPERTY
    ImplementsMap
