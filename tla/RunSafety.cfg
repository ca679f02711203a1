CONSTANTS
    Shells <- MCShells
    deny_substrings <- MCDeny
    Codes = {0}
    MaxChunks = 2
    BodyCells = 1
    Tls = TRUE
SPECIFICATION RunSpec
INVARIANTS RunTypeOK ShownIsPrefix SuccessIsReal DeniedNeverRuns
CHECK_DEADLOCK FALSE
