CONSTANTS
    Shells <- MCShells
    deny_substrings <- MCDeny
    Codes = {0}
    MaxChunks = 2
    BodyCells = 1
    Tls = TRUE
SPECIFICATION FairExecSpec
INVARIANTS ExecTypeOK OutputComplete OutputInOrder ExitTruthful NoShellLeft
    StrayKillOnlyAtTheEnd SingleResult
PROPERTIES KeepsContract ExecEnds ReadersStop
CHECK_DEADLOCK FALSE
