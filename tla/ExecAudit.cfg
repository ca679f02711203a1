CONSTANTS
    Shells <- MCShells
    deny_substrings <- MCDeny
    Codes = {0}
    MaxChunks = 1
    BodyCells = 1
    Tls = TRUE
SPECIFICATION ExecSpec
INVARIANTS EveryExecAudited
CHECK_DEADLOCK FALSE
