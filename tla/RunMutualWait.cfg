CONSTANTS
    Shells <- MCShells
    deny_substrings <- MCDeny
    Codes = {0}
    MaxChunks = 1
    BodyCells = 3
    Tls = TRUE
SPECIFICATION RunSpec
INVARIANTS NoMutualWait
CHECK_DEADLOCK FALSE
